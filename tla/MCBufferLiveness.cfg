CONSTANTS
  Absent = Absent
  DataPoint = {"p", "q"}
  Value = {"0", "1"}
  c1 = c1
  c2 = c2
  Caller = {c1, c2}
  Commands <- MCCommands
  Reports <- MCReports
  Rules <- POnExcludesQ
  Debounced = TRUE
  Retries = 1
  Impatient = {c1}
SPECIFICATION FairSpec
PROPERTY CommandEnds
PROPERTY RetryEnds
