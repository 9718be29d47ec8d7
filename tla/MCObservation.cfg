\* At most 4 probes (MaxProbes) and 2 discoveries (MaxDiscoveries); or two runs
\* of two iterations on projects of all languages, and one on files of four
\* lines with functions.
SPECIFICATION ObservationSpec
CONSTANTS
  Documentations <- TestDocumentations
  HelpTexts <- TestHelpTexts
  RuleSets <- TestRules
  MaxProbes = 4
  MaxDiscoveries = 2
  Module = Module
  None = None
  FileLines = {1, 2, 3, 4}
  Names = {"f", "g"}
  Sources <- MCSources
  Projects <- MCProjects
  Iterations = 2
  MaxRuns = 2
INVARIANTS
  ArtifactsAgree
  PlanIsCarriedOut
  ReportsAreHonest
  
  GapsArePrecise
\* Discoveries and runs may be used up.
CHECK_DEADLOCK FALSE
