------------------------ MODULE MCOperatorRunsSafety ------------------------
(***************************************************************************)
(* `focus` picks one of two instances: two runs with up to two passes of   *)
(* every kind alive at once, or a chain of three incremental runs that     *)
(* take turns.                                                             *)
(***************************************************************************)
EXTENDS MCOperatorRuns, FiniteSets

VARIABLE focus

Chain == INSTANCE OperatorRuns WITH MaxRuns <- 3, MaxDrafts <- 1

OneAlive == Cardinality({j \in Jobs : pass'[j] # Idle}) <= 1

MCInit == focus \in {"pair", "chain"} /\ Init

MCNext ==
  /\ UNCHANGED focus
  /\ \/ focus = "pair" /\ Next
     \/ focus = "chain" /\ Chain!Next /\ OneAlive

MCSpec == MCInit /\ [][MCNext]_<<focus, vars>>

=============================================================================
