SPECIFICATION Spec
CONSTANTS
  Task = {t1, t2}
  NoTask = NoTask
  Factory = Factory
  Declarations <- OnlyRevoking
  Faults = {"timeout"}
  MaxFaults = 0
INVARIANT
  RevokeAtMostOnce
SYMMETRY TaskSymmetry
CHECK_DEADLOCK FALSE
