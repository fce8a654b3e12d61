CONSTANTS
  s1 = s1
  s2 = s2
  Slot = {s1, s2}
  MaxBacklog = 1
SYMMETRY Slots
SPECIFICATION Spec
INVARIANT TypeOK
INVARIANT OneSession
INVARIANT Recovers
INVARIANT StatusIsTold
INVARIANT AvailabilityInOrder
INVARIANT Listens
