SPECIFICATION Spec
CONSTANTS
  Trigger = {"ScanSegment", "SelfCheck"}
  EnabledTrigger = {"ScanSegment", "SelfCheck"}
  Path = {1, 2}
  EnabledPath = {1, 2}
  CodePath = {}
  Quota <- TwoPathQuota
  Policy = "workpiece"
  AlgorithmEnabled = TRUE
  PlcBlock <- PlainBlocks
  DeviceOutcome = {"async"}
  Disturbance = {"link", "error", "hmi", "mech", "cameras", "person", "reset", "stop"}
  MaxServed = 2
  MaxGen = 2
  MaxRequest = 1
INVARIANTS
  TaskHasDeadline
  LiveTaskIsCurrent
PROPERTIES
  ImplementsHandshake
  
