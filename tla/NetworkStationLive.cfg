SPECIFICATION FairSpec
CONSTANTS
  SensorCap = 1
  NetCap = 1
  MaxReadings = 2
  MaxFlaps = 3
  EnableCanFail = FALSE
PROPERTIES
  Reconnects
  Drains
  LossNoticed
