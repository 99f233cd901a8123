-------------------------- MODULE MCOperatorBudget --------------------------
(***************************************************************************)
(* Small limits and prices for the operator's budget ledgers.  `focus`     *)
(* picks one of two instances, which differ in the requests that are made: *)
(* enrichment and judgments of one run, whose ledgers see one another; or  *)
(* enrichment and claim checks through the global ledger and the run's,    *)
(* with a store call that throws.                                          *)
(***************************************************************************)
EXTENDS OperatorBudget, TLC

VARIABLE focus

PerKind(enrichment, judgment, claimCheck) ==
  [kind \in Kinds |-> CASE kind = "enrichment" -> enrichment
                        [] kind = "judgment" -> judgment
                        [] OTHER -> claimCheck]

PerLedger(global, enrichment, judgment, claimCheck) ==
  [ledger \in Kinds \cup {Global} |->
     IF ledger = Global THEN global ELSE PerKind(enrichment, judgment, claimCheck)[ledger]]

\* A kind with no size makes no request.
MCSizes == PerKind({1}, {1}, {})
MCDollars == PerKind(0, 1, 1)
MCCosts == PerKind({2}, {1}, {1})
MCMaxRequests == PerLedger(3, 3, 3, 1)
MCMaxTokens == PerLedger(3, 2, 2, 1)
MCMaxDollars == PerLedger(3, 1, 3, 1)
MCMaxConcurrent == PerLedger(9, 9, 1, 1)

Claims == INSTANCE OperatorBudget WITH
  ViaGlobal <- {"enrichment", "claim-check"}, Sizes <- PerKind({2}, {}, {1})

MCInit == focus \in {"judgments", "claims"} /\ Init

MCNext ==
  /\ UNCHANGED focus
  /\ \/ focus = "judgments" /\ Next /\ UNCHANGED throws
     \/ focus = "claims" /\ Claims!Next

MCSpec == MCInit /\ [][MCNext]_<<focus, vars>>

MCSymmetry == Permutations(Ids) \cup Permutations(Callers)
=============================================================================
