CONSTANTS
  Absent = Absent
  DataPoint <- AirtonDataPoints
  Value <- AirtonValues
  Tables <- AirtonTables
  Takes <- AirtonTakes
SPECIFICATION Spec
INVARIANT NoForbiddenKept
