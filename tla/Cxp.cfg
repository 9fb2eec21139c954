SPECIFICATION FairSpec
CONSTANTS
  Camera = {1}
  MaxRequest = 2
  WithWarmup = TRUE
INVARIANTS HandleSafe 
PROPERTIES EveryRequestAnswered ShutdownEnds

CHECK_DEADLOCK FALSE
