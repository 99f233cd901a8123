SPECIFICATION FairSpec
CONSTANTS
  p1 = p1
  p2 = p2
  p3 = p3
  NoFile = NoFile
  Procs <- MCProcs
  MaxCrashes = 1
PROPERTY
  LiveOwnerNeverEvicted
