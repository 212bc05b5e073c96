SPECIFICATION ResolverFairSpec
CONSTANTS
  n1 = n1
  v1 = v1
  v2 = v2
  i1 = i1
  Instance = {i1, i2}
  NameOf <- OneName
  VersionOf <- TwoVersions
  Selectable = {i1, i2}
  Name = {n1}
  Version = {v1, v2}
  AnyVersion = any
  Asked = {v1, any}
  Caller = {b1}
  Resolver = {b1}
  Grpc = {i1, i2}
  NoUri = {i2}
  MaxWatchers = 2
  MaxJobs = 2
  MaxChanges = 2
  None = None
INVARIANTS
  ResolverTypeOK
  QuietCacheIsFresh
  KnownEndpoints
  QuietChannelIsFresh
CHECK_DEADLOCK FALSE
PROPERTIES
  CacheSettles
  ChannelSettles
