SPECIFICATION Spec
CONSTANTS
  a = a
  b = b
  rd0 = rd0
  one = one
  two = two
  n1 = n1
  n2 = n2
  vx = vx
  ppp = ppp
  Item = {a, b, rd0}
  Only = a
  Rd0 = rd0
  Values <- MCValues
  None = None
  NoNet = NoNet
  Bare = Bare
  Vxlan = {vx}
  WithPeers = {two}
  AcceptAll <- MCAcceptAll
  Enabled <- MCEnabled
  Refused = Refused
  Retained <- MCRetained
  Afm = TRUE
  Cases <- MCCases
  MaxFaults = 1
INVARIANTS TypeOK Applied RollbackRestores
PROPERTIES NothingIsRefused
CHECK_DEADLOCK FALSE
