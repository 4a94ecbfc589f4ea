SPECIFICATION Spec
CONSTANTS
  Browsers = {b1, b2}
  Workers = {w1, w2}
  Secrets = {s1, s2, s3}
  None = None
INVARIANTS
  LockoutNeedsOverlap
  PanelNeverLoads
PROPERTY LockoutIsPermanent
SYMMETRY Interchangeable
CHECK_DEADLOCK FALSE
