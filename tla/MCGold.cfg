\* Three builds of any of five task specs, with two executable names, or one
\* analysis of any repository of MCGoldBuild.
SPECIFICATION MCSpec
CONSTANTS
  a = a
  b = b
  None = None
  Names = {a, b}
  Systems <- SystemsMC
  Specs <- SpecsMC
  Overrides = {"auto", "python-package"}
  MaxCalls = 3
  Repositories <- RepositoriesMC
  Primaries <- PrimariesMC
INVARIANTS
  MismatchMeansDied
  BuiltIsOfOneCall
  FailureKeepsGold
  CandidatesAreTriedInOrder
  SpecIsUsable
\* One analysis, then nothing.
CHECK_DEADLOCK FALSE
