\* Two runs of two iterations; three categories, asked for in one round or in
\* two.
SPECIFICATION Spec
CONSTANTS
  i1 = i1
  i2 = i2
  i3 = i3
  c1 = c1
  c2 = c2
  None = None
  Inputs = {i1, i2, i3}
  Categories = {c1, c2}
  Outputs <- MCOutputs
  Revised <- MCRevised
  Proposals <- MCProposals
  Answers <- MCAnswers
  Derived <- MCDerived
  MaxDerived = 2
  NumCategories = 3
  RoundSettings = {0, 2}
  MaxReply = 1
  Delays = {1}
  Timeout = 2
  Iterations = 2
  MaxRuns = 2
INVARIANTS
  SuiteIsSound
  AuditInOrder
  DiagnosticsAreOfTheSuite
  EveryCategoryIsAsked
PROPERTIES
  RunsEnd
\* The runs may be used up.
CHECK_DEADLOCK FALSE
