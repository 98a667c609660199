SPECIFICATION FairSpec
CONSTANTS
  Fingerprints = {f1, f2}
  Names = {n1}
  Uploads = {u1, u2}
  Servers = {s1}
  Admins = {}
  Forces = {TRUE, FALSE}
  Faults = TRUE
  NoOne = NoOne
INVARIANTS
  NeverUnderCounts
PROPERTIES
  UploadAnswered
CHECK_DEADLOCK FALSE
