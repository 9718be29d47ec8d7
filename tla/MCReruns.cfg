\* Two runs of one iteration each, killed or failing anywhere, and what they
\* refine.
SPECIFICATION Spec
CONSTANTS
  good = good
  twin = twin
  flaky = flaky
  hollow = hollow
  weak = weak
  a = a
  b = b
  c = c
  d = d
  NoFile = NoFile
  NoCoverage = NoCoverage
  Cases = {good, twin, flaky, hollow, weak}
  TestIds = {a, b, c, d}
  IdOf <- IdOfMC
  MaxIterations = 1
  MaxCopies = 2
  DeterminismRuns = 2
  Stable <- StableMC
  Dummies <- DummiesMC
  Fools <- FoolsMC
  HighLint <- HighLintMC
  MaxRuns = 2
  Backends = {"agentic", "model"}
  CoverageModes = {FALSE}
  CoverageValues = {0}
  CoverageTarget = 8
  MinDelta = 2
INVARIANTS
  StoreIsConsistent
  SurvivorNamesUnique
  SurvivorsProven
PROPERTIES
  ImplementsAcceptance
\* The number of runs is bounded.
CHECK_DEADLOCK FALSE
