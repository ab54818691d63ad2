SPECIFICATION Spec
CONSTANTS
  Task = {t1}
  NoTask = NoTask
  Factory = Factory
  Declarations <- EveryDeclaration
  Faults = {"step", "save", "crash", "power"}
  MaxFaults = 2
INVARIANTS
  TypeOK
  OkIsApplied
  AnswerIsDurable
  RevokeAtMostOnce
  RevokeIsPrepared
  RolledBackRestores
PROPERTY
  KeepsPromise
CHECK_DEADLOCK FALSE
