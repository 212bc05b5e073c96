SPECIFICATION Spec
CONSTANTS
  n1 = n1
  v1 = v1
  v2 = v2
  i1 = i1
  i2 = i2
  Instance = {i1, i2}
  NameOf <- OneName
  VersionOf <- TwoVersions
  Selectable = {i1, i2}
  Name = {n1}
  Version = {v1, v2}
  AnyVersion = any
  Asked = {v1, any}
  Caller = {c1}
  MaxWatchers = 1
  MaxChanges = 2
  None = None
INVARIANT VersionIsolation
