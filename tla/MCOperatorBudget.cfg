CONSTANTS
  Ids = {q1, q2, q3, q4}
  NoId = none
  Callers = {c1, c2}
  Runs = {r1}
  Global = global
  ViaGlobal = {}
  Sizes <- MCSizes
  Dollars <- MCDollars
  Costs <- MCCosts
  MaxRequests <- MCMaxRequests
  MaxTokens <- MCMaxTokens
  MaxDollars <- MCMaxDollars
  MaxConcurrent <- MCMaxConcurrent
  MaxThrows = 1
  MaxCrashes = 1
SYMMETRY MCSymmetry
SPECIFICATION MCSpec
CHECK_DEADLOCK FALSE
INVARIANTS
  LedgersSafe
  ConsumptionBounded
  NoSlotLeak
  JudgmentsCounted
  AdmissionsClose
