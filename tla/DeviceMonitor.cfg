SPECIFICATION FairSpec
CONSTANTS
  TickCycles = 2
  UartFifo = 2
  MaxTime = 10
  MaxBytes = 3
  QueueItems = 2
  SampleTicks = 1
  ReportTicks = 2
  Temperatures = 3
  Hot = 1
INVARIANTS
  ClockKept
  SamplesHandedOver
  AlarmKept
  NewestShown
PROPERTIES
  BytesDispatched
CHECK_DEADLOCK FALSE
