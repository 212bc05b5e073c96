SPECIFICATION PartsSpec
CONSTANTS
  n1 = n1
  v1 = v1
  v2 = v2
  i1 = i1
  Instance = {i1, i2}
  NameOf <- OneName
  VersionOf <- TwoVersions
  Selectable = {i1, i2}
  Name = {n1}
  Version = {v1, v2}
  AnyVersion = any
  Asked = {v1, any}
  Caller = {b1}
  Resolver = {b1}
  Grpc = {i1}
  MaxWatchers = 1
  MaxChanges = 2
  Service = {s1, s2}
  Lease = {l1, l2}
  Owner = reg
  Task = {t1, t2}
  MaxPending = 1
  Conn = {c1, c2}
  Target = {g1, g2}
  Bad = bad
  MaxEntries = 2
  k1 = k1
  k2 = k2
  p1 = p1
  Key = {k1, k2}
  Pointer = {p1, p2}
  KeyOf <- TwoSections
  MaxWrites = 2
  Faulty = {1}
  Core = {root, child}
  Root = root
  Writer = {w1, w2}
  RootCap = 1
  MaxCap = 3
  None = None
INVARIANTS
  PartsTypeOK
  QuietConnectionIsFresh
  TasksAreHandled
  OpenConnectionsAreKnown
  QuietSectionsAreFresh
  FieldsStayWithTheirLogger
PROPERTIES
  BalancerSettles
  ClosedFeedEnds
  ImplementsListing
  CheckedOrphanLeaves
CHECK_DEADLOCK FALSE
