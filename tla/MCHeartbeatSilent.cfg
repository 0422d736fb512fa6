\* One connection that may stop sending heartbeats, three intervals.
SPECIFICATION Spec
CONSTANTS
  Sess = {s1}
  Conns = {c1}
  Sweeper = Sweeper
  None = None
  SuspectAfter = 1
  Timeout = 2
  MaxTime = 3
INVARIANT SilentAreSuspected
