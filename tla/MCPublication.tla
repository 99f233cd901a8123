--------------------------- MODULE MCPublication ---------------------------
(***************************************************************************)
(* The way of an atlas to its readers: the operator's publications (three  *)
(* drafts, two clients, two spellings of the repository's name: the        *)
(* canonical one of every new draft and an old one), the tools that write  *)
(* the published store, the mirror of a read-only server, and the edge's   *)
(* budget for the paid routes.  They share no state here: `focus` picks    *)
(* the component that runs, and the others stay in their initial states.   *)
(***************************************************************************)
EXTENDS OperatorPublication, EdgeBudget, PublishedStore, PublishedMirror, TLC

CONSTANTS d1, d2, d3, c1, c2, r1, r2, r3

VARIABLE focus

MCDrafts == {d1, d2, d3}
MCClients == {c1, c2}
MCSpellings == {"lower", "mixed"}
MCSpellingOf == [d \in MCDrafts |-> IF d = d2 THEN "mixed" ELSE "lower"]
MCTimes == {1, 2}

\* One slug with two versions that share their artifact; two publish tools run at a time, and
\* the timer starts one refresh pass.
OneArtifact == [x \in Slugs \X Versions |-> "art"]

\* Three requests of one or two accounts on three days, each reserving half of a day's dollars.
MCRequests == {r1, r2, r3}
MCMaxRequests == [bucket \in Buckets |-> IF bucket = "ask" THEN 3 ELSE 1]
MCCosts == {0, 3}

MCInit ==
  /\ focus \in {"publication", "store", "mirror", "edge"}
  /\ Init /\ ToolsInit /\ MirrorInit /\ EdgeInit
  /\ focus # "publication" => rows = <<>>

On(part) == focus = part /\ UNCHANGED focus

MCNext ==
  \/ On("publication") /\ Next /\ UNCHANGED <<toolVars, publishedVars, edgeVars>>
  \/ On("store") /\ ToolsNext /\ UNCHANGED <<vars, publishedVars, edgeVars>>
  \/ On("mirror") /\ MirrorNext /\ UNCHANGED <<vars, toolVars, edgeVars>>
  \/ On("edge") /\ EdgeNext /\ UNCHANGED <<vars, toolVars, publishedVars>>

MCSpec == MCInit /\ [][MCNext]_<<focus, vars, toolVars, publishedVars, edgeVars>>

MCSymmetry == Permutations(MCClients) \cup Permutations(MCRequests)

=============================================================================
