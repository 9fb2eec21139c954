SPECIFICATION Spec
CONSTANTS
  File = {}
  MaxSize = 1
  Ip = {"camera"}
  Configured = {"camera"}
  Speech = {"code", "heartbeat", "hello"}
  MaxConn = 2
  MaxInput = 3
INVARIANT LatestIsServed
CHECK_DEADLOCK FALSE
