CONSTANTS
  Absent = Absent
  DataPoint <- MCDataPoint
  Value <- MCValue
  Device = {"ac", "fan"}
  Model <- MCModel
  Bounds <- MCBounds
  DriverPrefix <- Home
  Retries = 1
  Window = 2
  Period = 2
  Takes <- MCTakes
  Presses <- MCPresses
  MaxQueue = 2
SPECIFICATION Spec
CHECK_DEADLOCK FALSE
INVARIANT TypeOK
PROPERTY OfferedIsUnderstood
INVARIANT ShownIsTheDevices
INVARIANT AskedPrevails
PROPERTY TemperatureIsRecent
