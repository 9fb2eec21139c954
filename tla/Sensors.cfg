SPECIFICATION FairSpec
CONSTANTS
  Kind = {"orbbec", "livox", "tfmini"}
  MaxRequest = 3
  Device = {1, 2}
  Wanted = 1
  MaxQueue = 2
  FrameSize = 4
  MaxBuffer = 10
  MaxFrame = 6
INVARIANTS OneCapture CallbackFindsWorker 
PROPERTY OpenIsAnswered
CHECK_DEADLOCK FALSE
