SPECIFICATION Spec
CONSTANTS
  Task = {t1, t2, t3}
  NoTask = NoTask
  VLAN = VLAN
  GSLBServer = GSLBServer
  NTP = NTP
  DbVariables = DbVariables
  x = x
  y = y
  Auditing = y
  factory = factory
  one = one
  Class = {VLAN, GSLBServer, NTP, DbVariables}
  Kind <- KindOf
  NeedsModule = {GSLBServer}
  Item = {x, y}
  Value = {factory, one}
  None = None
  Missing = Missing
  NoConfig = NoConfig
  Factory <- MCFactory
  Declarations <- MCDeclarations
  MaxActive = 1
  MaxDeletes = 1
  MaxFaults = 2
SYMMETRY Symmetric
INVARIANTS TypeOK MentionedIsApplied OmittedIsOriginal OriginalIsNotOurs RollbackRestores
PROPERTIES SecondPostIsQuiet OriginalIsKept
CHECK_DEADLOCK FALSE
