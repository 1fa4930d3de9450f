SPECIFICATION Spec
CONSTANTS
  Limit = 2
  Target = 1
  MaxAge = 2
  FirstInterval = 1000000
  MaxSends = 2
  MaxLag = 1
CHECK_DEADLOCK FALSE
PROPERTIES
  SilentStepBacksOff
