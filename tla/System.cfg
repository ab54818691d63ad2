SPECIFICATION Spec
CONSTANTS
  p1 = p1
  p2 = p2
  Pair = {p1, p2}
  NoPair = NoPair
  FactoryPair = FactoryPair
  Posts <- MCPosts
  MaxFaults = 2
INVARIANTS TypeOK PairMatches RollbackRestoresFiles WrittenIsLoaded TrustFollows
  RevokingIsResumable SecretsAreRemoved
CHECK_DEADLOCK FALSE
