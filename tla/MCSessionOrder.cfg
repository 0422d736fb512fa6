\* Events published one at a time: do they leave in order?
SPECIFICATION Spec
CONSTANTS
  NoConn = NoConn
  c1 = c1
  c2 = c2
  Conns = {c1}
  MaxSeq = 2
  Publishers = 1
  Refusals = FALSE
INVARIANT
  LiveInOrder
CHECK_DEADLOCK FALSE
