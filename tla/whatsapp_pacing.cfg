SPECIFICATION PacingSpec
CHECK_DEADLOCK FALSE
CONSTANTS
  Instances = {i1, i2}
  MinInterval = 2
  MaxMessages = 3
PROPERTIES
  SendsPaced
