CONSTANTS
  Uploads = {u1, u2, u3}
  Names = {n1}
  Servers = {s1, s2}
  Faults = TRUE
  None = None
SPECIFICATION Spec
SYMMETRY CatalogSymmetry
INVARIANTS
  TypeOK
  NoIdClash
  SecondRowNeedsOverlap
  RowSaysWhatWasAnswered
  PendingHasACause
CHECK_DEADLOCK FALSE
