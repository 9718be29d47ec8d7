\* Two commands of any kind on two tasks, each stage returning or raising.
SPECIFICATION FairSpec
CONSTANTS
  s1 = s1
  s2 = s2
  a = a
  b = b
  None = None
  Partial = Partial
  Tasks = {a, b}
  Sources = {s1, s2}
  Agree <- AgreeMC
  Profiles <- ProfilesMC
  Batches <- BatchesMC
  MaxIterations = 1
  MaxCommands = 2
INVARIANTS
  FilesAreOfOneSource
  SuccessfulTasksHavePackages
PROPERTIES
  CommandsEnd
\* The number of commands is bounded.
CHECK_DEADLOCK FALSE
