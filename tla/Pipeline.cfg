CONSTANTS
  Requests = {q1, q2}
  Asks = {k1}
  Contents = {c1}
  None = None
  Faults = TRUE
SPECIFICATION FairSpec
CHECK_DEADLOCK FALSE
INVARIANTS
  TypeOK
  ResultsAreWhole
  ForcedIsFresh
  FailuresAreNotServed
  FullResultCanBeAsked
PROPERTIES
  EveryCallAnswered
