SPECIFICATION MCSpec
CONSTANTS
  j1 = j1
  j2 = j2
  Jobs <- MCJobs
  MaxRuns = 2
  MaxDrafts = 3
  MaxVersions = 2
INVARIANTS
  RunsSafe
  ExclusiveUnlessStopped
  AutoReplacesBaseline
  AutoPublishDescends
PROPERTIES
  CancelledKeepsDraft
  NoLostRevision
SYMMETRY JobSymmetry
