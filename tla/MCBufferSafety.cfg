CONSTANTS
  Absent = Absent
  DataPoint = {"p", "q"}
  Value = {"0", "1"}
  c1 = c1
  c2 = c2
  Caller = {c1, c2}
  Commands <- AllCommands
  Reports <- AllReports
  Rules <- POnExcludesQ
  Debounced = TRUE
  Retries = 2
  Impatient = {c1, c2}
SYMMETRY Slots
SPECIFICATION Spec
INVARIANT TypeOK
INVARIANT SingleCall
INVARIANT IInv
INVARIANT WaitingIsServed
INVARIANT WaitersHaveFuture
PROPERTY NoLostCommand
PROPERTY ImplementsChannel
