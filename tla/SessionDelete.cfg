SPECIFICATION Spec
CONSTANTS
  RotateAfter = 1
  MaxRotated = 1
  PreserveRecent = 1
  Sessions = {1, 2}
  MaxMessages = 1
  MaxFaults = 0
  MaxClock = 2
PROPERTIES
  ActiveIsNotDeleted
CHECK_DEADLOCK FALSE
