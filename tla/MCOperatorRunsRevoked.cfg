SPECIFICATION Spec
CONSTANTS
  j1 = j1
  j2 = j2
  Jobs <- MCJobs
  MaxRuns = 2
  MaxDrafts = 2
  MaxVersions = 1
PROPERTIES
  RevokedInstallsNothing
