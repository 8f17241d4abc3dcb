CONSTANTS
  MaxInstalls = 2
  None = None
  Torn = Torn
SPECIFICATION FairSpec
CHECK_DEADLOCK FALSE
INVARIANTS
  TypeOK
  StoppedIsReleased
PROPERTIES
  InstalledIsComplete
  NoStaleInstance
  StopSticks
  UninstalledStaysDown
  StopIsHonoured
