SPECIFICATION FairSpec
CONSTANTS
  MaxOptions = 3
  Rpc = {stream}
  Gateway = {get}
  Endless = {stream}
  H2c = {}
PROPERTY TimeoutBoundsStop
CHECK_DEADLOCK FALSE
