SPECIFICATION Spec
CONSTANTS
  Trigger = {"ScanSegment", "Inspection", "ResultReset"}
  EnabledTrigger = {"ScanSegment", "Inspection", "ResultReset"}
  Path = {1, 2}
  EnabledPath = {1, 2}
  CodePath = {1}
  Quota <- TwoPathQuota
  Policy = "segment"
  AlgorithmEnabled = TRUE
  PlcBlock <- PlainBlocks
  DeviceOutcome = {"async", "refused"}
  Disturbance = {"link"}
  MaxServed = 3
  MaxGen = 3
  MaxRequest = 1
INVARIANTS
  AnnouncedHeld
  AnswersHaveTask
  LatchSound
PROPERTIES
  AnswersStand
  AckClearsOnRelease
