SPECIFICATION FairSpec
CONSTANTS
  Task = {t1}
  NoTask = NoTask
  Factory = Factory
  Declarations <- NoResize
  Faults = {"crash", "power"}
  MaxFaults = 2
PROPERTY
  AcceptedSettles
CHECK_DEADLOCK FALSE
