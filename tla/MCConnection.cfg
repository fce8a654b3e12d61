CONSTANTS
  Absent = Absent
  DataPoint <- MCDataPoint
  Value <- MCValue
  LastWait = 1
  MaxQueue = 2
SPECIFICATION FairSpec
INVARIANT TypeOK
INVARIANT Watched
INVARIANT FullReports
INVARIANT KeptStateIsCurrent
INVARIANT UnhealthyBacksOff
PROPERTY HangEnds
