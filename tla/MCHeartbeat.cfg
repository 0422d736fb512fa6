\* One session id: two objects, two connections, four heartbeat intervals.
SPECIFICATION Spec
CONSTANTS
  Sess = {s1, s2}
  Conns = {c1, c2}
  Sweeper = Sweeper
  None = None
  SuspectAfter = 1
  Timeout = 2
  MaxTime = 4
SYMMETRY Symmetry
INVARIANTS
  LifecycleTypeOK
  RegistryCoherent
  ClosedIsReleased
  ClosingHasCloser
  OnlyReplacedLeak
  LiveHasReader
  EvictedWereSilent
