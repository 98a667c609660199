CONSTANTS
  Overrides = {"none", "column", "other"}
  Questions = {"none", "names_metric", "open"}
  Faults = FALSE
SPECIFICATION Spec
INVARIANT FailureIsRetried
