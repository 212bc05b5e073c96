SPECIFICATION FairSpec
CONSTANTS
  MaxOptions = 3
  Rpc = {stream, call}
  Gateway = {get1, get2}
  Endless = {stream}
  H2c = {get2}
INVARIANTS
  TypeOK
  HookAfterDrain
  GatewayOutlived
  OkMeansGraceful
PROPERTIES
  InterruptEndsRun
CHECK_DEADLOCK FALSE
