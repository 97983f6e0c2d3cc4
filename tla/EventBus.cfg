CONSTANTS
  s1 = s1
  s2 = s2
  Conns = {c1, c2}
  Senders = {s1, s2}
  Cap = 1
  MaxSends <- TwoAndOne
SPECIFICATION Spec
INVARIANTS
  NoSendOnClosed
PROPERTIES
  BroadcastSpec
  StreamsEnd
CHECK_DEADLOCK FALSE
