CONSTANTS
  Runs = {r1, r2}
  NoRun = NoRun
  Faults = TRUE
SPECIFICATION FairSpec
INVARIANTS
  RowsMatchAnswers
PROPERTIES
  ThreadsRunTasks
  RequestAnswered
CHECK_DEADLOCK FALSE
