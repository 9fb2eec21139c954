SPECIFICATION FairSpec
CONSTANTS
  File = {"image"}
  MaxSize = 2
  Ip = {"camera"}
  Configured = {"camera"}
  Speech = {"code", "heartbeat", "hello"}
  MaxConn = 2
  MaxInput = 3
INVARIANTS NoDanglingSession ReportsAreTrue 
PROPERTY EveryImageReported
CHECK_DEADLOCK FALSE
