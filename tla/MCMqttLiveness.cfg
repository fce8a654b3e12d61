CONSTANTS
  s1 = s1
  Slot = {s1}
  MaxBacklog = 1
SPECIFICATION FairSpec
PROPERTY ComesBack
PROPERTY StopEnds
