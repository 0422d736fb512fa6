\* Is the resume position itself replayed?
SPECIFICATION Spec
CONSTANTS
  NoConn = NoConn
  c1 = c1
  c2 = c2
  Conns = {c1}
  MaxSeq = 2
  Publishers = 2
  Refusals = TRUE
INVARIANT
  ReplayStartsAtResumePoint
CHECK_DEADLOCK FALSE
