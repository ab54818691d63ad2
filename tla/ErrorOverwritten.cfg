SPECIFICATION Spec
CONSTANTS
  Task = {t1}
  NoTask = NoTask
  Factory = Factory
  Declarations <- OnlyRevoking
  Faults = {"timeout"}
  MaxFaults = 0
INVARIANT
  ErrorNotOverwritten
CHECK_DEADLOCK FALSE
