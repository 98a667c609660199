CONSTANTS
  Overrides = {"none", "column", "other"}
  Questions = {"none", "names_metric", "open"}
  Faults = TRUE
SPECIFICATION Spec
INVARIANTS
  InputsReady
  CallerNotOverruled
PROPERTIES
  KeepsTaskPromise
