SPECIFICATION FairSpec
CONSTANTS
  Trigger = {"ScanSegment", "CodeRead"}
  EnabledTrigger = {"ScanSegment", "CodeRead"}
  Path = {1, 2}
  EnabledPath = {1, 2}
  CodePath = {1}
  Quota <- TwoPathQuota
  Policy = "segment"
  AlgorithmEnabled = TRUE
  PlcBlock <- PlainBlocks
  DeviceOutcome = {"async", "refused"}
  Disturbance = {}
  MaxServed = 2
  MaxGen = 3
  MaxRequest = 1
PROPERTIES
  TimersFinishTheirOwn
  TaskEnds
  
  CodeScanReleased
