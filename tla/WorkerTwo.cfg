SPECIFICATION Spec
CONSTANTS
  Task = {t1, t2}
  NoTask = NoTask
  Factory = Factory
  Declarations <- PlainOrAsync
  Faults = {"save", "crash"}
  MaxFaults = 1
PROPERTY
  KeepsPromise
SYMMETRY TaskSymmetry
CHECK_DEADLOCK FALSE
