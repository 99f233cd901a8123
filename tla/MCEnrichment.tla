---------------------------- MODULE MCEnrichment ----------------------------
(***************************************************************************)
(* `focus` picks one enrichment pass, over a root with a leaf and a middle *)
(* scope that has a leaf of its own, below the cap; or incremental runs,   *)
(* whose passes are one step each, of a system with two containers, one of *)
(* which holds a file that the other uses.                                 *)
(***************************************************************************)
EXTENDS EnrichmentPool, IncrementalChain

CONSTANTS root, middle, leaf, low, sys, a, b, file

VARIABLE focus

MCScopes == {root, middle, leaf, low}
MCParentOf ==
  [s \in Scopes |-> CASE s = root -> NoScope [] s \in {middle, leaf} -> root [] s = low -> middle]
MCRank == [s \in Scopes |-> CASE s = root -> 4 [] s = middle -> 3 [] s = leaf -> 1 [] s = low -> 2]
LowBelow == {low}
NeverFailed == {"none", "accepted"}

MCEntities == {sys, a, b, file}
MCCode == {file}
MCBatches == {{a, b}, {sys}}
MCFirst ==
  [alive |-> MCEntities, exports |-> {file}, deps |-> {<<b, file>>},
   parent |-> [e \in MCEntities |-> CASE e = sys -> NoEntity [] e = file -> a [] OTHER -> sys]]
MCFirsts == {MCFirst}

\* Commits change the text of `a` or of the file, or what the file exports, or drop `b` and
\* bring it back.
Same == [e \in MCEntities |-> "same"]
TextEdits ==
  {[Same EXCEPT ![a] = "internal"]}
  \cup {[Same EXCEPT ![file] = x] : x \in {"lines", "internal", "signature"}}
MCNexts(p) ==
  {[arch |-> p, edit |-> edit] : edit \in TextEdits}
  \cup {[arch |-> n, edit |-> Same] :
          n \in {[p EXCEPT !.exports = {}],
                 IF b \in p.alive THEN [p EXCEPT !.alive = @ \ {b}, !.deps = {}]
                 ELSE [p EXCEPT !.alive = MCEntities]}}

Grown(ps) == ps \cup UNION {{c.arch : c \in MCNexts(p)} : p \in ps}
MCArchitectures == Grown(Grown(Grown(MCFirsts)))

\* Four incremental runs, or two and a retry by the operator.
MCInit ==
  /\ focus \in {"pool", "chain"}
  /\ Init /\ ChainInit
  /\ focus = "pool" => b \in explained
  /\ focus = "chain" => mode = "full"

MCNext ==
  /\ UNCHANGED focus
  /\ \/ focus = "pool" /\ Next /\ UNCHANGED chainVars
     \/ focus = "chain" /\ ChainNext /\ steps' + 2 * retries' <= 4 /\ UNCHANGED vars

MCSpec == MCInit /\ [][MCNext]_<<focus, vars, chainVars>>

=============================================================================
