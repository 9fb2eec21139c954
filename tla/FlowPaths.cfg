SPECIFICATION Spec
CONSTANTS
  Trigger = {"ScanSegment", "TelescopicScan", "Inspection"}
  EnabledTrigger = {"ScanSegment", "TelescopicScan"}
  Path = {1, 2}
  EnabledPath = {1, 2}
  CodePath = {1}
  Quota <- BothDevicesQuota
  Policy = "segment"
  AlgorithmEnabled = TRUE
  PlcBlock <- PathBlocks
  DeviceOutcome = {"async", "down"}
  Disturbance = {}
  MaxServed = 2
  MaxGen = 3
  MaxRequest = 1
INVARIANTS
  SegmentsOfOnePath
  OneRunPerCache
