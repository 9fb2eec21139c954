SPECIFICATION Spec
CONSTANTS
  Trigger = {"ScanSegment"}
  EnabledTrigger = {"ScanSegment"}
  Path = {1, 2}
  EnabledPath = {1, 2}
  CodePath = {}
  Quota <- TwoPathQuota
  Policy = "segment"
  AlgorithmEnabled = TRUE
  PlcBlock <- PlainBlocks
  DeviceOutcome = {"async"}
  Disturbance = {"person", "link"}
  MaxServed = 2
  MaxGen = 3
  MaxRequest = 1
INVARIANTS
  VetoReflectsAlarm
