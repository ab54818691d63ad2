SPECIFICATION Spec
CONSTANTS
  v1 = v1
  v2 = v2
  f1 = f1
  t1 = t1
  r0 = r0
  r1 = r1
  r2 = r2
  l1 = l1
  l2 = l2
  x1 = x1
  x2 = x2
  n1 = n1
  n2 = n2
  m1 = m1
  bigip = bigip
  h1 = h1
  h2 = h2
  a1 = a1
  a2 = a2
  lease = lease
  q1 = q1
  q2 = q2
  s1 = s1
  s2 = s2
  c1 = c1
  c2 = c2
  i1 = i1
  i2 = i2
  Vlan = {v1, v2}
  Tunnel = {t1}
  Foreign = {f1}
  Domains <- MCDomains
  Unsaid = Unsaid
  ListName = {l1, l2}
  Setting = {s1}
  UserSetting = {s2}
  Value = {x1, x2}
  GlobalSetting = {s1, s2}
  GlobalValue = {x1, x2}
  Name = {n1, n2}
  Index <- MCIndex
  Monitor = {m1, bigip}
  BigIpMonitor = bigip
  None = None
  Translation = {x1}
  Host = {h1, h2}
  StaticIp = {a1, a2}
  Leased = lease
  Route = {q1, q2}
  LeaseRoute = {q1}
  Secret = {s1, s2}
  Certificate = {c1, c2}
  Kinds = {"management"}
  Factory <- MCFactory
  DeclarationsOf <- MCDeclarationsOf
  NoConfig = NoConfig
INVARIANT DhcpIsAsDeclared
