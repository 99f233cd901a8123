SPECIFICATION MirrorSpec
CONSTANTS
  Slugs = {"a"}
  Versions = {"v1", "v2"}
  Absent = Absent
  NoIndex = NoIndex
  ArtifactOf <- OneArtifact
  Passes = {"p1"}
  MaxPinned = 1
  MaxOnDemand = 1
  MaxMoves = 2
  MaxAsking = 1
INVARIANT RememberedMeansSynced
CHECK_DEADLOCK FALSE
