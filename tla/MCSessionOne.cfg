\* Does a held-back event stay held back?  One connection, whose session may close.
SPECIFICATION FairSpec
CONSTANTS
  NoConn = NoConn
  c1 = c1
  c2 = c2
  Conns = {c1}
  MaxSeq = 3
  Publishers = 2
  Refusals = TRUE
INVARIANT
  TypeOK
PROPERTY
  BufferIsEmptied
CHECK_DEADLOCK FALSE
