SPECIFICATION Spec
CONSTANTS
  MaxRetries = 5
  TcwTimeout = 3
  MaxFaults = 4
INVARIANT VerdictIsReported
PROPERTY ClientIsAnswered
CHECK_DEADLOCK FALSE
