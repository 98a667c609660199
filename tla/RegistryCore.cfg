SPECIFICATION Spec
CONSTANTS
  Fingerprints = {f1, f2, f3}
  Names = {n1}
  Uploads = {u1, u2, u3}
  Servers = {s1}
  Admins = {a1}
  Forces = {FALSE}
  Faults = TRUE
  NoOne = NoOne
SYMMETRY Symmetry
INVARIANTS
  TypeOK
  LineageChained
  CopyVersionCurrent
  DanglingOnlyWhenOvertaken
PROPERTIES
  ImplementsLineage
