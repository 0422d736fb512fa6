\* A second connection joins the session in Bind, or takes it over, at any moment.
SPECIFICATION Spec
CONSTANTS
  NoConn = NoConn
  c1 = c1
  c2 = c2
  Conns = {c1, c2}
  MaxSeq = 2
  Publishers = 1
  Refusals = TRUE
SYMMETRY ConnSymmetry
INVARIANTS
  NothingLost
  PendingWereSent
  BufferHasFlusher
  LiveOnce
PROPERTY
  LiveWaitsForReplay
CHECK_DEADLOCK FALSE
