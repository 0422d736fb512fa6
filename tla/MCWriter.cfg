\* Two senders and two shutdowns around a queue of one, and a peer that may stop reading.
SPECIFICATION FairSpec
CONSTANTS
  s1 = s1
  s2 = s2
  c1 = c1
  c2 = c2
  e1 = e1
  e2 = e2
  e3 = e3
  NoEvent = NoEvent
  Senders = {s1, s2}
  Closers = {c1, c2}
  Events = {e1, e2, e3}
  QueueSize = 1
INVARIANTS
  TypeOK
  ReleaseIsQuiet
  ReleasedOnce
PROPERTIES
  ImplementsFrameQueue
  ShutdownReleases
  AcceptedReachWire
  EnqueueReturns
CHECK_DEADLOCK FALSE
