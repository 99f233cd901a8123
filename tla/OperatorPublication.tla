------------------------ MODULE OperatorPublication ------------------------
(***************************************************************************)
(* Publication of one repository (operatorPublication.ts over              *)
(* operatorStore.ts).  A publication is two durable writes under the store *)
(* lock: freezeForPublication saves a row and freezes the draft, then a    *)
(* pointer file named by a digest of the repository is renamed into place. *)
(* The process may die, or the rename throw, in between.  Readers of other *)
(* processes take no lock.  Repositories published before the digest       *)
(* pointers have one pointer file per spelling of their name; those files  *)
(* are read, and never written, by this code.                              *)
(*                                                                         *)
(* A version is the position of its row in `rows`, which is append-only.   *)
(* The lock is ideal here: its own protocol is module OwnerLock.           *)
(***************************************************************************)
EXTENDS Naturals, Sequences

CONSTANTS
  Drafts,      \* draft revisions of the repository, each with its artifact
  Clients,     \* operators and automatic publishers, and other readers
  Spellings,   \* the spellings of the repository's name
  SpellingOf,  \* the spelling each draft was stored under
  Times,       \* readings of the clock
  MaxLegacy    \* bound on the rows that predate the digest pointer

ASSUME PublicationAssumption ==
  /\ SpellingOf \in [Drafts -> Spellings]
  /\ Times \subseteq Nat
  /\ MaxLegacy \in Nat

NoVersion == 0

VARIABLES
  draft,    \* [Drafts -> {"absent", "open", "frozen"}]
  rows,     \* the publication rows of state.json
  digest,   \* the version in the digest pointer file, or NoVersion
  legacy,   \* [Spellings -> version]: the old pointer files
  old,      \* observer: how many rows predate the digest pointer
  pc,       \* [Clients -> Control]
  cursor,   \* [Clients -> version]: what a client has read, or is installing
  extent,   \* [Clients -> Nat]: how many rows a client's snapshot holds
  seen,     \* [Clients -> version]: the answer of the client's last read
  window,   \* observer: the versions that were current during a client's read
  retired   \* observer: the versions that have been replaced

migrated == <<legacy, old>>
stored == <<draft, rows, digest, migrated>>
vars == <<stored, pc, cursor, extent, seen, window, retired>>

Row == [draft : Drafts, previous : Nat, at : Times]

Control == {"idle", "legacy", "resolve", "slug", "install"}

-----------------------------------------------------------------------------
(* Reading the pointer.                                                    *)

\* The hex pointer of the row's own spelling still names this row.
StillPointed(v) == legacy[SpellingOf[rows[v].draft]] = v

Newer(v, w) == rows[v].at > rows[w].at \/ (rows[v].at = rows[w].at /\ v > w)

Newest(n) ==
  {v \in 1..n : /\ StillPointed(v)
                /\ \A w \in 1..n \ {v} : StillPointed(w) => Newer(v, w)}

The(S) == CHOOSE v \in S : TRUE

LegacyPointer(n) == IF Newest(n) = {} THEN NoVersion ELSE The(Newest(n))

Current == IF digest # NoVersion THEN digest ELSE LegacyPointer(Len(rows))

-----------------------------------------------------------------------------
\* Rows of one spelling form a chain from the pointer of that spelling; rows that
\* were frozen and never pointed to may be left over.
LegacyState ==
  /\ \E n \in 0..MaxLegacy :
       rows \in [1..n -> [draft : Drafts, previous : 0..n, at : Times]]
  /\ legacy \in [Spellings -> 0..Len(rows)]
  /\ \A v \in DOMAIN rows :
       LET spelling == SpellingOf[rows[v].draft] previous == rows[v].previous IN
       /\ previous < v
       /\ previous <= legacy[spelling]
       /\ previous # NoVersion => SpellingOf[rows[previous].draft] = spelling
       /\ \A w \in DOMAIN rows : rows[w].draft = rows[v].draft => w = v
  /\ \A s \in Spellings :
       legacy[s] # NoVersion => SpellingOf[rows[legacy[s]].draft] = s

Init ==
  /\ LegacyState
  /\ draft = [d \in Drafts |->
       IF \E v \in DOMAIN rows : rows[v].draft = d THEN "frozen" ELSE "absent"]
  /\ old = Len(rows)
  /\ digest = NoVersion
  /\ pc = [c \in Clients |-> "idle"]
  /\ cursor = [c \in Clients |-> NoVersion]
  /\ extent = [c \in Clients |-> 0]
  /\ seen = [c \in Clients |-> NoVersion]
  /\ window = [c \in Clients |-> {}]
  /\ retired = {}

Goto(c, control) == pc' = [pc EXCEPT ![c] = control]

LockFree == \A c \in Clients : pc[c] # "install"

\* createDraftRevision, by whichever run prepares the draft.
CreateDraft(d) ==
  /\ LockFree
  /\ draft[d] = "absent"
  /\ draft' = [draft EXCEPT ![d] = "open"]
  /\ UNCHANGED <<rows, digest, migrated, pc, cursor, extent, seen, window, retired>>

-----------------------------------------------------------------------------
(* publishDraft with expectedCurrentVersionId = seen[c].  A refusal changes  *)
(* nothing: the stale expectation, the overtaken retry, incomplete coverage  *)
(* nobody acknowledged.                                                      *)

\* Mutant of Freeze: the draft stays open.
FreezeNothing(c, d) ==
  /\ draft[d] = "open"
  /\ \E at \in Times :
       rows' = Append(rows, [draft |-> d, previous |-> Current, at |-> at])
  /\ cursor' = [cursor EXCEPT ![c] = Len(rows) + 1]
  /\ UNCHANGED draft

\* Mutant of Retry: whatever the frozen row was based on.
RetryStale(c, d) ==
  /\ draft[d] = "frozen"
  /\ \E v \in DOMAIN rows :
       /\ rows[v].draft = d
       /\ cursor' = [cursor EXCEPT ![c] = v]
  /\ UNCHANGED <<rows, draft>>

\* An open draft gets a row and is frozen.
Freeze(c, d) ==
  /\ draft[d] = "open"
  /\ \E at \in Times :
       rows' = Append(rows, [draft |-> d, previous |-> Current, at |-> at])
  /\ draft' = [draft EXCEPT ![d] = "frozen"]
  /\ cursor' = [cursor EXCEPT ![c] = Len(rows) + 1]

\* A frozen draft whose row was based on what is current now is published again:
\* its pointer may not have been installed.
Retry(c, d) ==
  /\ draft[d] = "frozen"
  /\ \E v \in DOMAIN rows :
       /\ rows[v].draft = d
       /\ rows[v].previous = Current
       /\ cursor' = [cursor EXCEPT ![c] = v]
  /\ UNCHANGED <<rows, draft>>

\* Mutant of Expected: no look at what the client expects.
ExpectedOrNot(c) == c \in Clients

Expected(c) == seen[c] = Current

Publish(c, d) ==
  /\ LockFree
  /\ pc[c] = "idle"
  /\ Expected(c)
  /\ Freeze(c, d) \/ Retry(c, d)
  /\ Goto(c, "install")
  /\ UNCHANGED <<digest, migrated, extent, seen, window, retired>>

\* renameSync(temp, target) and the release of the lock.
Install(c) ==
  /\ pc[c] = "install"
  /\ digest' = cursor[c]
  /\ Goto(c, "idle")
  /\ retired' = retired \cup {Current}
  /\ window' = [x \in Clients |->
       IF pc[x] \in {"legacy", "resolve", "slug"} THEN window[x] \cup {cursor[c]} ELSE window[x]]
  /\ cursor' = [cursor EXCEPT ![c] = NoVersion]
  /\ UNCHANGED <<draft, rows, migrated, extent, seen>>

\* The rename throws, or the process dies and its lock is recovered.
Abandon(c) ==
  /\ pc[c] = "install"
  /\ Goto(c, "idle")
  /\ cursor' = [cursor EXCEPT ![c] = NoVersion]
  /\ UNCHANGED <<stored, extent, seen, window, retired>>

-----------------------------------------------------------------------------
(* currentPublication: the digest pointer, failing that the old pointers,  *)
(* and then the row in a snapshot taken afterwards.                        *)

\* Mutant of ReadDigest: the old pointers come first.
ReadLegacyFirst(c) ==
  /\ pc[c] = "idle"
  /\ cursor' = [cursor EXCEPT ![c] = digest]
  /\ Goto(c, "legacy")
  /\ window' = [window EXCEPT ![c] = {Current}]
  /\ UNCHANGED <<stored, extent, seen, retired>>

ReadDigest(c) ==
  /\ pc[c] = "idle"
  /\ cursor' = [cursor EXCEPT ![c] = digest]
  /\ Goto(c, IF digest # NoVersion THEN "resolve" ELSE "legacy")
  /\ window' = [window EXCEPT ![c] = {Current}]
  /\ UNCHANGED <<stored, extent, seen, retired>>

ReadLegacy(c) ==
  /\ pc[c] = "legacy"
  /\ cursor' = [cursor EXCEPT ![c] = LegacyPointer(Len(rows))]
  /\ Goto(c, "resolve")
  /\ UNCHANGED <<stored, extent, seen, window, retired>>

\* The pointer counts only with its row.
Answer(c, pointer, known) ==
  /\ seen' = [seen EXCEPT ![c] = IF pointer \in 1..known THEN pointer ELSE NoVersion]
  /\ Goto(c, "idle")
  /\ cursor' = [cursor EXCEPT ![c] = NoVersion]
  /\ extent' = [extent EXCEPT ![c] = 0]
  /\ window' = [window EXCEPT ![c] = {}]

Resolve(c) ==
  /\ pc[c] = "resolve"
  /\ Answer(c, cursor[c], Len(rows))
  /\ UNCHANGED <<stored, retired>>

\* currentForSlug reads the state first and the pointer second, and looks the row
\* up in the state it has.
ReadState(c) ==
  /\ pc[c] = "idle"
  /\ extent' = [extent EXCEPT ![c] = Len(rows)]
  /\ Goto(c, "slug")
  /\ window' = [window EXCEPT ![c] = {Current}]
  /\ UNCHANGED <<stored, cursor, seen, retired>>

ResolveSlug(c) ==
  /\ pc[c] = "slug"
  /\ Answer(c, Current, extent[c])
  /\ UNCHANGED <<stored, retired>>

Next ==
  \/ \E d \in Drafts : CreateDraft(d)
  \/ \E c \in Clients :
       \/ \E d \in Drafts : Publish(c, d)
       \/ Install(c) \/ Abandon(c)
       \/ ReadDigest(c) \/ ReadLegacy(c) \/ Resolve(c)
       \/ ReadState(c) \/ ResolveSlug(c)

Spec == Init /\ [][Next]_vars

-----------------------------------------------------------------------------
TypeOK ==
  /\ draft \in [Drafts -> {"absent", "open", "frozen"}]
  /\ rows \in Seq(Row)
  /\ digest \in 0..Len(rows)
  /\ legacy \in [Spellings -> 0..Len(rows)]
  /\ old \in 0..Len(rows)
  /\ pc \in [Clients -> Control]
  /\ cursor \in [Clients -> 0..Len(rows)]
  /\ extent \in [Clients -> 0..Len(rows)]
  /\ seen \in [Clients -> 0..Len(rows)]
  /\ window \in [Clients -> SUBSET (0..Len(rows))]
  /\ retired \subseteq 0..Len(rows)

\* A draft has one row at most and has one exactly when it is frozen, whatever was
\* interrupted: retrying a half-done publication never makes a second version.
FrozenOnce ==
  /\ \A v, w \in DOMAIN rows : rows[v].draft = rows[w].draft => v = w
  /\ \A d \in Drafts : draft[d] = "frozen" <=> \E v \in DOMAIN rows : rows[v].draft = d

\* Each installed version was derived from the version it replaces: the published
\* history is one chain even though rows that lost a race stay in the store.
LinearHistory ==
  [][digest' # digest => rows'[digest'].previous = Current]_vars

\* Nobody replaces a version other than the one he had read when he asked to
\* publish, however long ago that was.
NoBlindReplace ==
  [][\A c \in Clients :
       pc[c] = "install" /\ digest' # digest => seen[c] = Current]_vars

\* A row whose pointer was never installed is either still publishable, because
\* what it was based on is current, or what it was based on has been replaced.
\* (Rows left over by the old code may also hang on another spelling's pointer.)
OrphanRetryableOrOvertaken ==
  \A v \in DOMAIN rows \ (retired \cup {Current}) :
    \/ rows[v].previous \in retired \cup {Current}
    \/ v <= old

PublicationSafe == TypeOK /\ FrozenOnce /\ OrphanRetryableOrOvertaken

\* A completed read gives a version that was current at some moment of the read;
\* only the slug reader may instead find nothing, and only when a version its
\* snapshot does not hold became current behind its back.
ReadsCurrent ==
  [][\A c \in Clients :
       /\ pc[c] = "resolve" /\ pc'[c] = "idle" => seen'[c] \in window[c]
       /\ pc[c] = "slug" /\ pc'[c] = "idle" =>
            \/ seen'[c] \in window[c]
            \/ seen'[c] = NoVersion /\ ~(window[c] \subseteq 0..extent[c])]_vars

\* What readers see is the abstract register.
Register == INSTANCE PublicationRegister WITH current <- Current

ImplementsRegister == Register!Spec

=============================================================================
