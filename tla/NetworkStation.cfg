SPECIFICATION Spec
CONSTANTS
  SensorCap = 1
  NetCap = 2
  MaxReadings = 4
  MaxFlaps = 3
  EnableCanFail = TRUE
INVARIANTS
  TypeOK
  Conservation
  InOrder
  RequeueFits
  ClosedBeforeReconnect
  ResolvedIsMonitored
