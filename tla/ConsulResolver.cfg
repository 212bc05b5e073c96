SPECIFICATION ResolverFairSpec
CONSTANTS
  n1 = n1
  v1 = v1
  v2 = v2
  i1 = i1
  Instance = {i1, i2}
  NameOf <- OneName
  VersionOf <- TwoVersions
  Prefixed = {i1, i2}
  Name = {n1}
  Version = {v1, v2}
  AnyVersion = any
  Asked = {v1, any}
  Caller = {c1, b1}
  Resolver = {b1}
  Grpc = {i1}
  MaxPollers = 3
  MaxChanges = 1
  None = None
INVARIANTS
  ResolverTypeOK
PROPERTIES
  CacheSettles
  BalancerSettles
  ClosedLoopEnds
