SPECIFICATION MCSpec
CONSTANTS
  j1 = j1
  j2 = j2
  Jobs <- MCJobs
  MaxRuns = 2
  MaxDrafts = 2
  MaxVersions = 1
  root = root
  middle = middle
  leaf = leaf
  NoScope = NoScope
  Places <- MCJobs
  Cameras = {1, 2}
  MaxEntries = 3
  MaxCommits = 3
  MaxRefusals = 2
  MaxHead = 3
  MaxDeliveries = 3
  LruSize = 1
  MaxFaults = 1
  NoView = NoView
  NoRun = NoRun
  NoRef = NoRef
PROPERTIES
  ActiveRunSettles
  PassEnds
  UrlSafe
  UrlLands
  TriggersSafe
  DraftCatchesUp
CHECK_DEADLOCK FALSE
