SPECIFICATION FairSpec
CONSTANTS
  MaxJob = 3
  MaxStop = 2
INVARIANTS
  OneWorker
  NothingLost
PROPERTIES
  CompletionsSet
  StopReturns
CHECK_DEADLOCK FALSE
