\* One connection whose client sends close and goes away.
SPECIFICATION Spec
CONSTANTS
  Sess = {s1}
  Conns = {c1}
  Sweeper = Sweeper
  None = None
  SuspectAfter = 1
  Timeout = 2
  MaxTime = 1
INVARIANT EvictionIsSafe
