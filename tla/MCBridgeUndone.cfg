CONSTANTS
  Absent = Absent
  DataPoint <- MCDataPoint
  Value <- MCValue
  Device = {"ac", "fan"}
  Model <- MCModel
  Bounds <- UndoneBounds
  DriverPrefix <- Home
  Retries = 1
  Window = 2
  Period = 2
  Takes <- NoRemote
  Presses <- MCPresses
  MaxQueue = 2
SPECIFICATION Spec
CHECK_DEADLOCK FALSE
INVARIANT LastCommandPrevails
