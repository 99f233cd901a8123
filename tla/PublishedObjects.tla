-------------------------- MODULE PublishedObjects --------------------------
(***************************************************************************)
(* The published store: the object store the publish tools write and the   *)
(* read-only servers and the edge read (publishedStoreLayout.ts).  A       *)
(* version is complete when its manifest, written last, is there; each     *)
(* slug's latest.json points to a version, and index.json lists a version  *)
(* of each listed slug.  PublishedStore has the tools that write it,       *)
(* PublishedMirror the server that reads it.                               *)
(***************************************************************************)
EXTENDS PublishedLayout

VARIABLES
  complete,  \* the <<slug, version>> whose manifest.json exists
  latest,    \* per slug, the version its latest.json names
  index      \* per slug, the version its row of index.json names

storeVars == <<complete, latest, index>>

Nowhere == [s \in Slugs |-> Absent]

ObjectsInit == complete = {} /\ latest = Nowhere /\ index = Nowhere

\* manifest.json of a version: the version is complete.
PutManifest(s, v) ==
  /\ complete' = complete \cup {<<s, v>>}
  /\ UNCHANGED <<latest, index>>

\* latest.json: only to a complete version.
PutLatest(s, v) ==
  /\ <<s, v>> \in complete
  /\ latest' = [latest EXCEPT ![s] = v]
  /\ UNCHANGED <<complete, index>>

\* index.json, put whole: every row names a complete version.
PutIndex(rows) ==
  /\ \A s \in Slugs : rows[s] # Absent => <<s, rows[s]>> \in complete
  /\ index' = rows
  /\ UNCHANGED <<complete, latest>>

Publishing ==
  \/ \E s \in Slugs, v \in Versions : PutManifest(s, v) \/ PutLatest(s, v)
  \/ \E rows \in [Slugs -> Versions \cup {Absent}] : PutIndex(rows)

ObjectsSpec == ObjectsInit /\ [][Publishing]_storeVars

\* A reader that finds a pointer or a row finds the version it names, whole.
PointersFindVersions ==
  \A s \in Slugs : \A v \in {latest[s], index[s]} \ {Absent} : <<s, v>> \in complete

=============================================================================
