SPECIFICATION FairSpec
CONSTANTS
  r1 = r1
  s1 = s1
  Registry = {r1, r2}
  Service = {s1, s2}
  Goroutine = {g1, g2}
  None = None
  Serves <- ServesSome
INVARIANTS
  TypeOK
  HeartbeatIsCancellable
  HeartbeatServesHealthy
PROPERTIES
  OrphanedByCrashOnly
  CheckedOrphanLeaves
