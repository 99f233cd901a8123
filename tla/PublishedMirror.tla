--------------------------- MODULE PublishedMirror ---------------------------
(***************************************************************************)
(* The mirror of the published store in a read-only server                 *)
(* (apps/server/src/publishedMirror.ts): refresh passes and requests fetch *)
(* pointers and versions, share the fetches in flight, and install what    *)
(* arrives.  A fetch reads the store when it is made and its reply arrives *)
(* later, or never (a failure, or the request timeout); what a reply does  *)
(* runs to its end without an await that another task can enter.           *)
(***************************************************************************)
EXTENDS PublishedObjects, Naturals, FiniteSets

CONSTANTS
  ArtifactOf,    \* per <<slug, version>>, its artifact revision: versions may share one
  Passes,        \* the refresh passes that may overlap: the timer does not wait for one
  MaxPinned, MaxOnDemand,
  MaxMoves,      \* bound: how often the store's pointers move
  MaxAsking,     \* bound: requests that wait at one time
  NoIndex

ASSUME MirrorAssumption == MaxPinned \in Nat /\ MaxOnDemand \in Nat

VARIABLES
  versions,      \* the installed <<slug, version>>
  older,         \* the pairs <<x, y>> of them where x was used less recently than y
  current,       \* per slug, the version served as its latest
  artifacts,     \* the artifact directories on disk
  missing,       \* the negative cache, of keys
  inflight,      \* per key, the fetch in flight
  onDemand,      \* the count of on-demand fetches
  passes,        \* per pass, where it is
  retry,         \* the slugs whose last sync failed
  lastIndex,     \* the index that lastIndexDigest stands for
  rechecked,     \* the slugs whose latest.json a request re-read recently
  asking,        \* the requests that wait for a fetch: <<slug, version, slug was new>>
  moves,         \* history: per slug, how often latest.json moved
  adopted        \* history: per slug, the count of moves when `current` was fetched

mirrorVars == <<versions, older, current, artifacts, missing, inflight, onDemand, passes, retry,
                lastIndex, rechecked, asking, adopted>>
publishedVars == <<storeVars, moves, mirrorVars>>

\* The keys of `inflight` and `missing`: latest:<slug> and version:<slug>:<version>.
LatestKey(s) == <<s, Absent>>
Keys == Slugs \X (Versions \cup {Absent})

NoFetch == [at |-> "none"]
NoPass == [at |-> "off"]
Idle(k) == inflight[k].at = "none"

MirrorInit ==
  /\ ObjectsInit
  /\ versions = {} /\ older = {} /\ current = Nowhere /\ artifacts = {} /\ missing = {}
  /\ inflight = [k \in Keys |-> NoFetch] /\ onDemand = 0
  /\ passes = [p \in Passes |-> NoPass] /\ retry = {} /\ lastIndex = NoIndex
  /\ rechecked = {} /\ asking = {}
  /\ moves = [s \in Slugs |-> 0] /\ adopted = [s \in Slugs |-> 0]

-----------------------------------------------------------------------------
(* The store changes under the mirror: the publish tools, or someone who   *)
(* deletes a slug's objects.                                               *)

Moved(s) == moves' = [moves EXCEPT ![s] = @ + 1]

StoreChanges ==
  /\ \/ \E s \in Slugs, v \in Versions : <<s, v>> \notin complete /\ PutManifest(s, v) /\ UNCHANGED moves
     \/ \E s \in Slugs, v \in Versions :
          moves[s] < MaxMoves /\ latest[s] # v /\ PutLatest(s, v) /\ Moved(s)
     \/ \E s \in Slugs : PutIndex([index EXCEPT ![s] = latest[s]]) /\ UNCHANGED moves
     \/ \E s \in Slugs :
          /\ moves[s] < MaxMoves /\ latest[s] # Absent
          /\ latest' = [latest EXCEPT ![s] = Absent] /\ Moved(s)
          /\ UNCHANGED <<complete, index>>
  /\ UNCHANGED mirrorVars

-----------------------------------------------------------------------------
(* Installing and dropping.                                                *)

\* The artifacts on disk once those of the versions `gone` are dropped: one that a version
\* still installed refers to stays.
Referenced(vs) == {ArtifactOf[x] : x \in vs}
DroppedAll(dirs, gone, left) == dirs \ Referenced(gone)

Dropped(dirs, gone, left) == dirs \ (Referenced(gone) \ Referenced(left))

\* Versions other than a slug's current one, beyond the MaxPinned most recently used.
Pinned(vs, cur) == {x \in vs : cur[x[1]] # x[2]}
Evictable(pinned, order) ==
  {x \in pinned : Cardinality({y \in pinned : <<x, y>> \in order}) >= MaxPinned}

\* `x` becomes the most recently used one; what is not in `vs` any more has no age.
Touched(x) == {p \in older : p[1] # x /\ p[2] # x} \cup ((versions \ {x}) \X {x})
Among(order, vs) == order \cap (vs \X vs)

\* installVersion, the promotion to `cur`, and evictPinned.
InstallAs(x, cur) ==
  LET vs == versions \cup {x}
      gone == Evictable(Pinned(vs, cur), Touched(x))
  IN  /\ versions' = vs \ gone /\ older' = Among(Touched(x), vs \ gone)
      /\ current' = cur
      /\ artifacts' = Dropped(artifacts \cup {ArtifactOf[x]}, gone, vs \ gone)

\* Every version of a slug whose latest.json is gone.
DropSlug(s) ==
  LET gone == {x \in versions : x[1] = s}
  IN  /\ current' = [current EXCEPT ![s] = Absent]
      /\ versions' = versions \ gone /\ older' = Among(older, versions \ gone)
      /\ artifacts' = Dropped(artifacts, gone, versions \ gone)

Installed == <<versions, older, current, artifacts>>

-----------------------------------------------------------------------------
(* Fetches.  `by` tells who started one: a pass, a request for a slug the  *)
(* mirror does not have ("first"), one that re-reads a pointer ("recheck"),*)
(* or one for a version ("version").                                       *)

\* syncLatest reads latest.json first.
StartLatest(s, by) ==
  inflight' = [inflight EXCEPT ![LatestKey(s)] =
    [at |-> "pointer", version |-> latest[s], read |-> moves[s], by |-> by]]

StartVersion(s, v) ==
  inflight' = [inflight EXCEPT ![<<s, v>>] =
    [at |-> "version", version |-> v, read |-> moves[s], by |-> "version"]]

\* The end of a fetch wakes the passes that joined it; a failed one is retried by every
\* later pass until it succeeds.
SettleFetch(k, ok) ==
  LET s == k[1]
      by == inflight[k].by
      joined == {p \in Passes : passes[p].at = "slugs" /\ k = LatestKey(s) /\ passes[p].waits = s}
  IN  /\ inflight' = [inflight EXCEPT ![k] = NoFetch]
      /\ onDemand' = IF by = "pass" THEN onDemand ELSE onDemand - 1
      /\ passes' = [p \in Passes |->
           IF p \notin joined THEN passes[p]
           ELSE [passes[p] EXCEPT !.waits = Absent,
                                  !.failed = IF ok THEN @ ELSE @ \cup {s}]]
      /\ retry' = IF ~ok THEN IF joined = {} THEN retry ELSE retry \cup {s}
                  ELSE IF joined # {} \/ by = "recheck" THEN retry \ {s} ELSE retry

\* A reply that is not one: an error, a bad body, the request timeout.
FetchFails(k) ==
  /\ ~Idle(k)
  /\ SettleFetch(k, FALSE)
  /\ missing' = IF inflight[k].by \in {"first", "version"} THEN missing \cup {k} ELSE missing
  /\ UNCHANGED <<storeVars, moves, Installed, lastIndex, rechecked, asking, adopted>>

\* The pointer arrives.  None: the slug is unpublished.
PointerGone(s) ==
  /\ inflight[LatestKey(s)].version = Absent
  /\ missing' = missing \cup {LatestKey(s)}
  /\ \/ current[s] # Absent /\ DropSlug(s)
     \/ current[s] = Absent /\ UNCHANGED Installed
  /\ SettleFetch(LatestKey(s), TRUE)
  /\ adopted' = [adopted EXCEPT ![s] = inflight[LatestKey(s)].read]

\* ... unmoved: nothing to do; moved to a version that is installed: promoted at once.
PointerKnown(s, v) ==
  /\ v # Absent
  /\ \/ current[s] = v /\ UNCHANGED <<Installed, missing>>
     \/ /\ current[s] # v /\ <<s, v>> \in versions
        /\ InstallAs(<<s, v>>, [current EXCEPT ![s] = v]) /\ missing' = missing \ {LatestKey(s)}
  /\ SettleFetch(LatestKey(s), TRUE)
  /\ adopted' = [adopted EXCEPT ![s] = inflight[LatestKey(s)].read]

\* ... moved to another one: its manifest and files are fetched.
PointerMoved(s, v) ==
  /\ v # Absent /\ current[s] # v /\ <<s, v>> \notin versions
  /\ inflight' = [inflight EXCEPT ![LatestKey(s)].at = "version"]
  /\ UNCHANGED <<Installed, missing, onDemand, passes, retry, adopted>>

PointerArrives(s) ==
  /\ inflight[LatestKey(s)].at = "pointer"
  /\ \/ PointerGone(s)
     \/ PointerKnown(s, inflight[LatestKey(s)].version)
     \/ PointerMoved(s, inflight[LatestKey(s)].version)
  /\ UNCHANGED <<storeVars, moves, lastIndex, rechecked, asking>>

\* A version's manifest and verified files are there: installed, and made current when
\* latest.json asked for it.
VersionArrives(k) ==
  LET s == k[1]
      x == <<s, inflight[k].version>>
  IN  /\ inflight[k].at = "version" /\ x \in complete
      /\ IF k = LatestKey(s)
         THEN /\ InstallAs(x, [current EXCEPT ![s] = x[2]])
              /\ missing' = missing \ {k}
              /\ adopted' = [adopted EXCEPT ![s] = inflight[k].read]
         ELSE InstallAs(x, current) /\ UNCHANGED <<missing, adopted>>
      /\ SettleFetch(k, TRUE)
      /\ UNCHANGED <<storeVars, moves, lastIndex, rechecked, asking>>

-----------------------------------------------------------------------------
(* Refresh passes.                                                         *)

Refresh(p) ==
  /\ passes[p].at = "off"
  /\ passes' = [passes EXCEPT ![p] = [at |-> "index", read |-> index]]
  /\ UNCHANGED <<storeVars, moves, Installed, missing, inflight, onDemand,
                 retry, lastIndex, rechecked, asking, adopted>>

\* The index arrives.  An unchanged one only retries what failed; a changed one syncs every
\* slug it lists and every slug the mirror has.
IndexArrives(p) ==
  LET read == passes[p].read
      known == {s \in Slugs : read[s] # Absent \/ current[s] # Absent}
      same == read = lastIndex
  IN  /\ passes[p].at = "index"
      /\ passes' = [passes EXCEPT ![p] =
           [at |-> "slugs", read |-> read, quiet |-> same, failed |-> {}, waits |-> Absent,
            todo |-> IF same THEN retry \cap known ELSE known]]
      /\ UNCHANGED <<storeVars, moves, Installed, missing, inflight, onDemand,
                     retry, lastIndex, rechecked, asking, adopted>>

IndexFails(p) ==
  /\ passes[p].at = "index"
  /\ passes' = [passes EXCEPT ![p] = NoPass]
  /\ UNCHANGED <<storeVars, moves, Installed, missing, inflight, onDemand,
                 retry, lastIndex, rechecked, asking, adopted>>

\* One slug after the other: a fetch of latest.json already in flight is joined (dedupe).
SyncSlug(p, s) ==
  /\ passes[p].at = "slugs" /\ passes[p].waits = Absent /\ s \in passes[p].todo
  /\ passes' = [passes EXCEPT ![p].todo = @ \ {s}, ![p].waits = s]
  /\ IF Idle(LatestKey(s)) THEN StartLatest(s, "pass") ELSE UNCHANGED inflight
  /\ UNCHANGED <<storeVars, moves, Installed, missing, onDemand, retry,
                 lastIndex, rechecked, asking, adopted>>

\* The pass ends; the index is remembered when every slug synced.
PassEnds(p) ==
  /\ passes[p].at = "slugs" /\ passes[p].waits = Absent /\ passes[p].todo = {}
  /\ lastIndex' = IF ~passes[p].quiet /\ passes[p].failed = {} THEN passes[p].read ELSE lastIndex
  /\ passes' = [passes EXCEPT ![p] = NoPass]
  /\ UNCHANGED <<storeVars, moves, Installed, missing, inflight, onDemand,
                 retry, rechecked, asking, adopted>>

-----------------------------------------------------------------------------
(* Requests.                                                               *)

\* onDemandInstall: joins a fetch in flight, gives up at the cap, or starts one.
OnDemand(k, start) ==
  IF Idle(k) /\ onDemand < MaxOnDemand
  THEN start /\ onDemand' = onDemand + 1
  ELSE UNCHANGED <<inflight, onDemand>>

\* The first half of ensure: the slug's latest.  `stale`: the request names a commit that
\* is not the current version's.
Ensure(s, v, stale) ==
  /\ Cardinality(asking) < MaxAsking
  /\ LET new == current[s] = Absent
         old == ~new /\ (stale \/ v \notin {Absent, current[s]})
         again == old /\ Idle(LatestKey(s)) /\ s \notin rechecked
     IN  /\ new => LatestKey(s) \notin missing
         /\ asking' = asking \cup {<<s, v, new>>}
         /\ rechecked' = IF again THEN rechecked \cup {s} ELSE rechecked
         /\ \/ new /\ OnDemand(LatestKey(s), StartLatest(s, "first"))
            \/ again /\ OnDemand(LatestKey(s), StartLatest(s, "recheck"))
            \/ ~new /\ ~again /\ UNCHANGED <<inflight, onDemand>>
  /\ UNCHANGED <<storeVars, moves, Installed, missing, passes, retry, lastIndex,
                 adopted>>

\* The second half, once that fetch ended or the deadline passed: the version it names.
EnsureVersion(ask) ==
  LET s == ask[1]
      v == ask[2]
      done == v = Absent \/ (ask[3] /\ current[s] = Absent)
      here == <<s, v>> \in versions
  IN  /\ ask \in asking
      /\ asking' = asking \ {ask}
      /\ older' = IF ~done /\ here THEN Touched(<<s, v>>) ELSE older
      /\ IF done \/ here \/ <<s, v>> \in missing
         THEN UNCHANGED <<inflight, onDemand>>
         ELSE OnDemand(<<s, v>>, StartVersion(s, v))
      /\ UNCHANGED <<storeVars, moves, versions, current, artifacts, missing, passes, retry,
                     lastIndex, rechecked, adopted>>

\* The negative cache and the recheck gap run out.
Expire ==
  /\ \/ \E k \in missing : missing' = missing \ {k} /\ UNCHANGED rechecked
     \/ \E s \in rechecked : rechecked' = rechecked \ {s} /\ UNCHANGED missing
  /\ UNCHANGED <<storeVars, moves, Installed, inflight, onDemand, passes, retry,
                 lastIndex, asking, adopted>>

-----------------------------------------------------------------------------
MirrorNext ==
  \/ StoreChanges \/ Expire
  \/ \E k \in Keys : FetchFails(k) \/ VersionArrives(k)
  \/ \E s \in Slugs : PointerArrives(s)
  \/ \E p \in Passes : Refresh(p) \/ IndexArrives(p) \/ IndexFails(p) \/ PassEnds(p)
                       \/ \E s \in Slugs : SyncSlug(p, s)
  \/ \E s \in Slugs, v \in Versions \cup {Absent}, stale \in BOOLEAN : Ensure(s, v, stale)
  \/ \E ask \in asking : EnsureVersion(ask)

MirrorSpec == MirrorInit /\ [][MirrorNext]_publishedVars

-----------------------------------------------------------------------------
(* Properties.                                                             *)

\* Every installed version was published whole, and the artifact directories are exactly
\* those the installed versions refer to: a dropped version takes none that another one
\* shares, and leaves none behind (dropArtifacts against the fetches still in flight).
DiskMatches ==
  /\ versions \subseteq complete
  /\ artifacts = Referenced(versions)
  /\ \A s \in Slugs : current[s] # Absent => <<s, current[s]>> \in versions

\* The caps: versions kept for pinned sessions, fetches started by requests.
WithinCaps ==
  /\ Cardinality(Pinned(versions, current)) <= MaxPinned
  /\ onDemand = Cardinality({k \in Keys : ~Idle(k) /\ inflight[k].by # "pass"})
  /\ onDemand <= MaxOnDemand

\* What the mirror serves never goes back: a slow reply does not undo a later one.
NeverBack == \A s \in Slugs : adopted'[s] >= adopted[s]

\* All of it, as what every step keeps.
MirrorStep == DiskMatches' /\ WithinCaps' /\ NeverBack

\* No step of the mirror loses or leaves files of a version, passes a cap or goes back to an
\* older version.
MirrorSafe == [][MirrorStep]_publishedVars

\* Of the comment of lastIndexDigest, "Digest of the last index every listed slug synced
\* from" (publishedMirror.ts:170): with nothing in flight, nothing to retry, and a store
\* whose pointers and index agree and that index remembered, every listed slug is current.
\* A pass that joins a fetch made before latest.json moved breaks it: the mirror stays on
\* the old version until a request names the new one.
RememberedMeansSynced ==
  (/\ \A p \in Passes : passes[p].at = "off"
   /\ \A k \in Keys : Idle(k)
   /\ retry = {} /\ lastIndex = index /\ index = latest)
  => \A s \in Slugs : index[s] # Absent => current[s] = latest[s]

=============================================================================
