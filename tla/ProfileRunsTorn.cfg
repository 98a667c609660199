CONSTANTS
  Runs = {r1, r2}
  NoRun = NoRun
  Faults = FALSE
SPECIFICATION Spec
INVARIANT EndedJobIsNotProcessing
CHECK_DEADLOCK FALSE
