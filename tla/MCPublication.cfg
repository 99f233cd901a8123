SPECIFICATION MCSpec
CONSTANTS
  d1 = d1
  d2 = d2
  d3 = d3
  c1 = c1
  c2 = c2
  r1 = r1
  r2 = r2
  r3 = r3
  Drafts <- MCDrafts
  Clients <- MCClients
  Spellings <- MCSpellings
  SpellingOf <- MCSpellingOf
  Times <- MCTimes
  MaxLegacy = 2
  Requests <- MCRequests
  Accounts <- MCClients
  Days = 3
  KeepDays = 1
  MaxUser = 2
  MaxRequests <- MCMaxRequests
  Estimate = 2
  MaxDollars = 4
  Costs <- MCCosts
  Slugs = {"a"}
  Versions = {"v1", "v2"}
  Absent = Absent
  Tools <- MCClients
  MaxStarts = 3
  ArtifactOf <- OneArtifact
  Passes = {"p1"}
  MaxPinned = 1
  MaxOnDemand = 1
  MaxMoves = 2
  MaxAsking = 1
  NoIndex = NoIndex
INVARIANTS
  PublicationSafe
  EdgeBudgetSafe
PROPERTIES
  LinearHistory
  NoBlindReplace
  ReadsCurrent
  ImplementsRegister
  RowsKept
  ImplementsObjects
  MirrorSafe
SYMMETRY MCSymmetry
CHECK_DEADLOCK FALSE
