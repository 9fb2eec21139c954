SPECIFICATION FairSpec
CONSTANTS
  Camera = {"arm", "rod"}
  Request <- MixedRequests
  MaxBundle = 2
  MaxHmi = 1
  MayStop = TRUE
INVARIANTS
  OwnDepthPicture
  OwnPictures
PROPERTIES
  SilentAfterStop
  ImplementsCaptureService
  BundleEnds
CHECK_DEADLOCK FALSE
