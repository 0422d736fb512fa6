\* A handler, sessions that come and go, and two dispatchers on a topic and its parent.
SPECIFICATION Spec
CONSTANTS
  s1 = s1
  s2 = s2
  h1 = h1
  d1 = d1
  d2 = d2
  Sessions = {s1, s2}
  Topics <- TwoTopics
  Deletable <- OnlyParent
  Handlers = {h1}
  Dispatchers = {d1, d2}
  MaxOps = 2
  BatchSize = 1
SYMMETRY FanoutSymmetry
INVARIANTS
  TopicsTypeOK
  ViewsAgree
  TreeConnected
  TypeOK
  SnapshotCurrent
  DispatchIsComplete
CHECK_DEADLOCK FALSE
