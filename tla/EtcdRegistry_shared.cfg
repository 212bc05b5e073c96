SPECIFICATION Spec
CONSTANTS
  r1 = r1
  s1 = s1
  Registry = {r1}
  Service = {s1, s2}
  Lease = {l1, l2}
  None = None
  Serves <- ServesSome
PROPERTY
  RegisterEndsNoOtherRenewal
