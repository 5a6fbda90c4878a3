SPECIFICATION MCSpec
CONSTANTS
  LastNumber = 2
  Images = {"imageA", "imageB"}
  MaxDeploys = 2
  Found = {"unset", "malformed", "network", "otherDisk", "shellApp", "firmwares", "earlier", "earlierOff", "firmwareApp"}
INVARIANTS
  TypeOK
  NoPileUp
  FinishedIsStable
  NothingBeforeDiskButNetwork
PROPERTIES
  ForeignEntriesSurvive
  OrderWriteIsSafe
CHECK_DEADLOCK FALSE
