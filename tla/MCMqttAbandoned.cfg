CONSTANTS
  s1 = s1
  s2 = s2
  Slot = {s1, s2}
  MaxBacklog = 1
SPECIFICATION Spec
INVARIANT AlwaysRecovers
