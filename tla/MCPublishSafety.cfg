\* Four valid requests and a bad one against a store of three, beside a status reader.
SPECIFICATION Spec
CONSTANTS
  p1 = p1
  p2 = p2
  p3 = p3
  p4 = p4
  p5 = p5
  Requests = {p1, p2, p3, p4, p5}
  BadRequests = {p5}
  Capacity = 3
SYMMETRY RequestSymmetry
INVARIANTS
  TypeOK
  StoreDense
  AcknowledgedIsReplayable
  SinceIsComplete
  ProgressIsCommitted
  ReportMissesNothing
  ReportNextUncommitted
  ReportCountsCommitted
  CursorIsDelivered
PROPERTY ImplementsLog
CHECK_DEADLOCK FALSE
