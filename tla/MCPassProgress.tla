--------------------------- MODULE MCPassProgress ---------------------------
(***************************************************************************)
(* Operator runs, enrichment passes, what starts incremental runs and the  *)
(* viewer's address bar, which promise to come to an end, in one run of    *)
(* liveness; as in MCServerProgress, `focus` picks the component that runs.*)
(***************************************************************************)
EXTENDS MCOperatorRuns, IncrementalTriggers, ViewerHistory

CONSTANTS root, middle, leaf, NoScope

VARIABLES
  focus,
  mode, selected, pool, stage, pending, waitingOn, stopped, halted, failed, requests,
  ticket, note, dirty, changedBelow, accepted, stale, cancelled, granted, behind, missed

poolVars == <<mode, selected, pool, stage, pending, waitingOn, stopped, halted, failed, requests,
              ticket, note, dirty, changedBelow, accepted, stale, cancelled, granted, behind, missed>>

Scopes == {root, middle, leaf}

\* A root with two leaves in a pool of one.
Pool == INSTANCE EnrichmentPool WITH
  ParentOf <- [s \in Scopes |-> IF s = root THEN NoScope ELSE root],
  Rank <- [s \in Scopes |-> CASE s = root -> 3 [] s = middle -> 2 [] s = leaf -> 1],
  BelowCap <- {}, MaxConcurrent <- 1, MaxRequests <- 3, EarlierNotes <- {"none", "accepted"}

MCInit ==
  /\ focus \in {"runs", "pool", "url", "triggers"}
  /\ Init /\ Pool!Init /\ UrlInit /\ TriggersInit
  /\ focus # "pool" => mode = "full" /\ \A s \in Scopes : note[s] = "none"
  /\ focus # "url" => urlState = [place |-> j1, camera |-> 1]

On(part) == focus = part /\ UNCHANGED focus

NotRuns == UNCHANGED <<poolVars, urlVars, triggerVars>>
NotPool == UNCHANGED <<vars, urlVars, triggerVars>>
NotUrl == UNCHANGED <<vars, poolVars, triggerVars>>
NotTriggers == UNCHANGED <<vars, poolVars, urlVars>>

MCNext ==
  \/ On("runs") /\ Next /\ NotRuns
  \/ On("pool") /\ Pool!Next /\ NotPool
  \/ On("url") /\ UrlNext /\ NotUrl
  \/ On("triggers") /\ TriggersNext /\ NotTriggers

allVars == <<focus, vars, poolVars, urlVars, triggerVars>>

\* The fairness each component assumes, as in its own FairSpec: focus never changes, so
\* one action that stands for the component in focus is as fair as each of them.
MCSpec ==
  /\ MCInit /\ [][MCNext]_allVars
  /\ WF_allVars(\/ On("runs") /\ Advance(j1) /\ NotRuns
                \/ On("pool") /\ Pool!Begin /\ NotPool
                \/ On("url") /\ Flush /\ NotUrl
                \/ On("triggers") /\ Fire /\ NotTriggers)
  /\ WF_allVars(\/ On("runs") /\ Advance(j2) /\ NotRuns
                \/ On("pool") /\ Pool!Close /\ NotPool
                \/ On("url") /\ (\E r \in urlRestores : RestoreEnds(r)) /\ NotUrl
                \/ On("triggers") /\ (\E f \in fires : FireEnds(f)) /\ NotTriggers)
  /\ WF_allVars(\/ On("pool") /\ Pool!Step(root) /\ NotPool
                \/ On("triggers") /\ RunGoesOn /\ NotTriggers)
  /\ \A s \in Scopes \ {root} : WF_allVars(On("pool") /\ Pool!Step(s) /\ NotPool)

\* Every enrichment pass ends.
PassEnds == focus = "pool" => Pool!PassEnds

=============================================================================
