--------------------------- MODULE PublishedStore ---------------------------
(***************************************************************************)
(* The publish tools (apps/server/src/publishAtlas.ts): publishing a       *)
(* version, pointing a slug back at one (--set-latest), and the backfills  *)
(* of names, of names and descriptions, and of share cards.  Each is a     *)
(* command of its own; the store has no locks and no conditional writes,   *)
(* so any two may overlap, and each may fail or be stopped between two of  *)
(* its calls.  A backfill's lookups of GitHub are one step: their result   *)
(* is any set of rows found.                                               *)
(***************************************************************************)
EXTENDS PublishedLayout, Naturals

CONSTANTS
  Tools,
  MaxStarts  \* bound: how many commands run in all

VARIABLES
  manifests,  \* the <<slug, version>> whose manifest.json exists
  cards,      \* the <<slug, version>> with a share card
  pointers,   \* per slug, the version latest.json names
  listing,    \* per slug, its row of index.json
  tool,       \* per command running, where it is
  toolStarts,
  alone,      \* history: commands have never overlapped, and none was left half done
  puts        \* history: how often index.json was put

toolVars == <<manifests, cards, pointers, listing, tool, toolStarts, alone, puts>>

\* A row: the version it names, whether it has GitHub's names, and its description.
NotListed == [version |-> Absent, named |-> FALSE, about |-> "none"]
Abouts == {"none", "old", "new"}

NoTool == [at |-> "off"]
Kinds == {"publish", "set latest", "names", "meta", "cards"}

ToolsInit ==
  /\ manifests = {} /\ cards = {}
  /\ pointers = [s \in Slugs |-> Absent] /\ listing = [s \in Slugs |-> NotListed]
  /\ tool = [t \in Tools |-> NoTool] /\ toolStarts = 0
  /\ alone = TRUE /\ puts = 0

ToolAt(t, place) == tool[t].at = place
ToolGoes(t, place) == tool' = [tool EXCEPT ![t].at = place]
ToolEnds(t) == tool' = [tool EXCEPT ![t] = NoTool]
Calm == UNCHANGED <<toolStarts, alone, puts>>

\* A command starts by reading index.json.  `found`: GitHub's names, when a publish's lookup
\* has them.
StartTool(t, kind, s, v, found) ==
  /\ ToolAt(t, "off") /\ toolStarts < MaxStarts /\ toolStarts' = toolStarts + 1
  /\ found # "none" => kind = "publish"
  /\ tool' = [tool EXCEPT ![t] = [at |-> kind, slug |-> s, version |-> v, found |-> found,
                                  read |-> listing, puts |-> puts]]
  /\ alone' = (alone /\ \A u \in Tools : ToolAt(u, "off"))
  /\ UNCHANGED <<manifests, cards, pointers, listing, puts>>

\* It fails or is stopped between two of its calls.
ToolStops(t) ==
  /\ ~ToolAt(t, "off") /\ ToolEnds(t)
  /\ alone' = (alone /\ ~ToolAt(t, "read index") /\ ~ToolAt(t, "put index"))
  /\ UNCHANGED <<manifests, cards, pointers, listing, toolStarts, puts>>

-----------------------------------------------------------------------------
(* Publishing and --set-latest.                                            *)

\* The version is there already with the same manifest (another one is refused, which is
\* ToolStops): only its card is added, if it has none.  Else its files are uploaded.
CheckManifest(t) ==
  /\ ToolAt(t, "publish")
  /\ LET x == <<tool[t].slug, tool[t].version>>
     IN  IF x \in manifests
         THEN /\ \/ tool[t].found # "none" /\ cards' = cards \cup {x}
                 \/ UNCHANGED cards
              /\ ToolGoes(t, "latest")
         ELSE UNCHANGED cards /\ ToolGoes(t, "upload")
  /\ UNCHANGED <<manifests, pointers, listing>> /\ Calm

\* The files, with the card when the names are known; the manifest is written last.
Upload(t) ==
  /\ ToolAt(t, "upload") /\ ToolGoes(t, "manifest")
  /\ cards' = IF tool[t].found # "none" THEN cards \cup {<<tool[t].slug, tool[t].version>>} ELSE cards
  /\ UNCHANGED <<manifests, pointers, listing>> /\ Calm

Manifest(t) ==
  /\ ToolAt(t, "manifest") /\ ToolGoes(t, "latest")
  /\ manifests' = manifests \cup {<<tool[t].slug, tool[t].version>>}
  /\ UNCHANGED <<cards, pointers, listing>> /\ Calm

SetLatestBlindly(t) ==
  /\ ToolAt(t, "set latest") /\ ToolGoes(t, "latest")
  /\ UNCHANGED <<manifests, cards, pointers, listing>> /\ Calm

\* --set-latest checks that the manifest is there.
SetLatest(t) ==
  /\ ToolAt(t, "set latest") /\ <<tool[t].slug, tool[t].version>> \in manifests
  /\ ToolGoes(t, "latest")
  /\ UNCHANGED <<manifests, cards, pointers, listing>> /\ Calm
PointLatest(t) ==
  /\ ToolAt(t, "latest") /\ ToolGoes(t, "read index")
  /\ pointers' = [pointers EXCEPT ![tool[t].slug] = tool[t].version]
  /\ UNCHANGED <<manifests, cards, listing>> /\ Calm

ReadListing(t) ==
  /\ ToolAt(t, "read index")
  /\ tool' = [tool EXCEPT ![t].at = "put index", ![t].read = listing, ![t].puts = puts]
  /\ UNCHANGED <<manifests, cards, pointers, listing>> /\ Calm

\* mergePublishedIndex: the row replaced in the index as read.  Without names of its own it
\* keeps those, and the description, that the replaced row has.
Merged(rows, s, v, found) ==
  [rows EXCEPT ![s] = [version |-> v, named |-> found # "none" \/ @.named,
                       about |-> IF found = "none" THEN @.about ELSE found]]

PutListing(t) ==
  /\ ToolAt(t, "put index") /\ ToolEnds(t)
  /\ listing' = Merged(tool[t].read, tool[t].slug, tool[t].version, tool[t].found)
  /\ puts' = puts + 1
  /\ UNCHANGED <<manifests, cards, pointers, toolStarts, alone>>

-----------------------------------------------------------------------------
(* The backfills.                                                          *)

Listed(rows, s) == rows[s].version # Absent

\* The rows a backfill looks up: names only those without them, meta all of them.
Asked(kind, rows) == {s \in Slugs : Listed(rows, s) /\ (kind = "meta" \/ ~rows[s].named)}

\* The lookups, and index.json read again once they are done.  A lookup that fails or that
\* the rate limit leaves out finds nothing; a meta row that would not change is not planned;
\* with nothing planned nothing is read or written.
Planned(t, hits, about) ==
  IF ToolAt(t, "names") THEN hits
  ELSE {s \in hits : ~tool[t].read[s].named \/ tool[t].read[s].about # about}

LookedUp(t, hits, about, fresh) ==
  /\ (ToolAt(t, "names") \/ ToolAt(t, "meta"))
  /\ hits \in SUBSET Asked(tool[t].at, tool[t].read)
  /\ IF Planned(t, hits, about) = {} THEN ToolEnds(t)
     ELSE tool' = [tool EXCEPT ![t] =
            [at |-> "put rows", kind |-> tool[t].at, plan |-> Planned(t, hits, about), found |-> about,
             asRead |-> tool[t].read, read |-> fresh, puts |-> puts]]
  /\ UNCHANGED <<manifests, cards, pointers, listing>> /\ Calm
LookUpOnce(t, hits, about) == LookedUp(t, hits, about, tool[t].read)
LookUp(t, hits, about) == LookedUp(t, hits, about, listing)

\* Whether a row of the fresh index may still be filled: names as long as it has none, meta
\* only when nothing in it changed.
StillFits(kind, asRead, row) ==
  IF kind = "names" THEN row.version # Absent /\ ~row.named ELSE row = asRead

\* The found rows are filled, every other one is written back as read.  No row still fits:
\* nothing is written.
PutRows(t) ==
  /\ ToolAt(t, "put rows") /\ ToolEnds(t)
  /\ LET b == tool[t]
         applied == {s \in b.plan : StillFits(b.kind, b.asRead[s], b.read[s])}
     IN  /\ listing' = IF applied = {} THEN listing
                     ELSE [s \in Slugs |-> IF s \notin applied THEN b.read[s]
                                           ELSE [b.read[s] EXCEPT !.named = TRUE, !.about = b.found]]
         /\ puts' = IF applied = {} THEN puts ELSE puts + 1
  /\ UNCHANGED <<manifests, cards, pointers, toolStarts, alone>>

\* A card for a row of the index as read: only for a row with names, whose version has none
\* yet.  Rows are taken one at a time, and the command may end after any of them.
PutCard(t, s) ==
  /\ ToolAt(t, "cards") /\ tool[t].read[s].named
  /\ <<s, tool[t].read[s].version>> \in manifests \ cards
  /\ cards' = cards \cup {<<s, tool[t].read[s].version>>}
  /\ UNCHANGED <<manifests, pointers, listing, tool>> /\ Calm

-----------------------------------------------------------------------------
ToolStep(t) ==
  \/ CheckManifest(t) \/ Upload(t) \/ Manifest(t) \/ SetLatest(t)
  \/ PointLatest(t) \/ ReadListing(t) \/ PutListing(t) \/ PutRows(t)
  \/ \E hits \in SUBSET Slugs, about \in Abouts : LookUp(t, hits, about)
  \/ \E s \in Slugs : PutCard(t, s)

ToolsNext ==
  \E t \in Tools :
    \/ ToolStep(t) \/ ToolStops(t)
    \/ \E kind \in Kinds, s \in Slugs, v \in Versions, found \in Abouts : StartTool(t, kind, s, v, found)

ToolsSpec == ToolsInit /\ [][ToolsNext]_toolVars

-----------------------------------------------------------------------------
(* Properties.                                                             *)

StoreTypeOK ==
  /\ manifests \subseteq Slugs \X Versions /\ cards \subseteq Slugs \X Versions
  /\ pointers \in [Slugs -> Versions \cup {Absent}]
  /\ listing \in [Slugs -> [version : Versions \cup {Absent}, named : BOOLEAN, about : Abouts]]
  /\ alone \in BOOLEAN

\* Commands run one after the other, each to its end or stopped before latest.json moves or
\* after index.json is written, leave a listing that agrees with the pointers; a row never
\* loses GitHub's names, also when a later publish could not look them up.
AloneAgrees ==
  (alone /\ \A t \in Tools : ToolAt(t, "off")) => \A s \in Slugs : listing[s].version = pointers[s]

StoreSafe == StoreTypeOK /\ AloneAgrees

\* A put of index.json made when nobody has put it since it was read changes the version of
\* at most the one slug it is for, and takes no names from any row: in particular a publish
\* that landed during a backfill's lookups is not dropped (publishAtlas.ts:930).
NoRowDropped ==
  \A t \in Tools : (tool[t].at \in {"put index", "put rows"} /\ tool'[t] = NoTool /\ tool[t].puts = puts) =>
    \A s \in Slugs :
      /\ listing'[s].version # listing[s].version => tool[t].at = "put index" /\ tool[t].slug = s
      /\ listing[s].named => listing'[s].named

\* All of it, as what every step keeps.
StoreStep == StoreSafe' /\ NoRowDropped

\* No put of index.json drops a row or the names of one, and commands that run alone leave a
\* listing that agrees with the pointers.
RowsKept == [][StoreStep]_toolVars

\* What readers rely on: the tools only take the steps of PublishedObjects, however they
\* overlap and wherever they stop.
Objects == INSTANCE PublishedObjects WITH
  complete <- manifests, latest <- pointers, index <- [s \in Slugs |-> listing[s].version]
ImplementsObjects == Objects!ObjectsSpec

=============================================================================
