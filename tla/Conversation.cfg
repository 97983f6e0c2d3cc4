CONSTANTS
  None = None
  Waiting = Waiting
  Failed = Failed
  u1 = u1
  u2 = u2
  a1 = a1
  a2 = a2
  lost = lost
  Content <- Growing
  Targets = {a1, u2, lost}
  MaxVersion = 3
  MaxGrowth = 2
  MaxFaults = 1
  MaxJumps = 1
  PollsOvertake = FALSE
  MaxActs = 3
SPECIFICATION Spec
INVARIANTS
  SpanIsWholeTurns
  
PROPERTIES
  ShownNeverGoesBack
  PastIsHeld
  
  
CHECK_DEADLOCK FALSE
