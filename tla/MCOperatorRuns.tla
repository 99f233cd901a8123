--------------------------- MODULE MCOperatorRuns ---------------------------
(* Two passes alive at once.                                               *)
EXTENDS OperatorRuns, TLC

CONSTANTS j1, j2

MCJobs == {j1, j2}

JobSymmetry == Permutations(MCJobs)

=============================================================================
