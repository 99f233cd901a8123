SPECIFICATION MCSpec
CONSTANTS
  v1 = v1
  Absent = Absent
  Kept = Kept
  Ids <- TwoIds
  Spots <- TwoSpots
  HostViews = {v1}
  FullTime = 2
  Easings <- MCEasings
  MaxPatches = 2
  MaxFaults = 1
  LodRange <- MCRange
  Lists <- MCLists
  TopZoom = 5
  HalfTime = 2
  a = a
  b = b
  c = c
  NoHandoff = NoHandoff
  system = system
  neighbour = neighbour
  web = web
  api = api
  page = page
  handler = handler
  hook = hook
  NoEntity = NoEntity
  Entities <- MCEntities
  ParentOf <- MCParent
  LevelOf <- MCLevel
  Enter <- MCEnter
  Full <- MCFull
  Hyst = 1
  MaxZoom = 19
  MaxStep = 5
INVARIANT
  NeverPanics
CHECK_DEADLOCK FALSE
