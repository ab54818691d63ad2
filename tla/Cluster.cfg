SPECIFICATION Spec
CONSTANTS
  b1 = b1
  b2 = b2
  b3 = b3
  g1 = g1
  g2 = g2
  Device = {b1, b2, b3}
  Group = {g1, g2}
  Absent = Absent
  NoTrust = NoTrust
  Cases <- MCCases
  MaxFaults = 1
INVARIANTS TypeOK DoneIsMember GroupsAsDeclared OwnerIsCopied
PROPERTIES MembersStay EveryoneFinishes
CHECK_DEADLOCK FALSE
