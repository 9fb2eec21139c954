SPECIFICATION Spec
CONSTANTS
  MaxSession = 2
  MaxInput = 2
  Frame = {"command", "personOn", "personOff", "badLength", "badJson"}
  Unknown = Unknown
INVARIANTS CachesTruthful EdgesTruthful ClientTended
PROPERTIES TickBringsUpToDate
CHECK_DEADLOCK FALSE
