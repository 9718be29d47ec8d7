\* Three releases of a task that may be rebuilt in between, killed anywhere.
SPECIFICATION Spec
CONSTANTS
  None = None
  Paths <- PathsMC
  Repos <- ReposMC
  MaxTasks = 1
  MaxReleases = 3
INVARIANTS
  ReleasedIsWhole
  ManifestIsCurrent
  EvaluatedTestsAreComplete
  PackagesAreClean
\* The numbers of releases and of rebuilds are bounded.
CHECK_DEADLOCK FALSE
