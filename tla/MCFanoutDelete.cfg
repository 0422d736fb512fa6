\* Does a cached snapshot survive the deletion of its topic?
SPECIFICATION Spec
CONSTANTS
  s1 = s1
  s2 = s2
  h1 = h1
  d1 = d1
  d2 = d2
  Sessions = {s1, s2}
  Topics <- OneTopic
  Deletable <- OneTopic
  Handlers = {h1}
  Dispatchers = {d1}
  MaxOps = 4
  BatchSize = 1
INVARIANT SnapshotCurrentAfterDelete
CHECK_DEADLOCK FALSE
