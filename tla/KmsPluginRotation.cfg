CONSTANTS
  None = None
  JsonNumber = TRUE
  MaxVersion = 3
  MaxOutages = 2
SPECIFICATION Spec
CHECK_DEADLOCK FALSE
PROPERTY RotationDetected
