CONSTANTS
  Absent = Absent
  DataPoint <- Small
  Value <- Bits
  Tables <- AllTables
  Takes <- SmallTakes
SPECIFICATION Spec
INVARIANT DropsOnlyForbidden
INVARIANT KeepsNoForbidden
INVARIANT OutcomeRespectsRules
