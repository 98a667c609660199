CONSTANTS
  Suggestions = {s1, s2}
  Reviews = {v1, v2, v3}
  Runs = {r1, r2}
  Domains = {d1, d2}
  Keys = {key}
  None = None
SPECIFICATION ReviewSpec
SYMMETRY ReviewSymmetry
INVARIANTS
  ApprovedIsMaterialized
  CitesLoadedRule
  OnlyOverlapDecidesTwice
CHECK_DEADLOCK FALSE
