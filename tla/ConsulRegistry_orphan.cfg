SPECIFICATION FairSpec
CONSTANTS
  r1 = r1
  s1 = s1
  Registry = {r1}
  Service = {s1}
  Goroutine = {g1, g2}
  None = None
  Serves <- ServesSome
PROPERTY OrphanLeaves
