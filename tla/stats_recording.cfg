SPECIFICATION Spec
CONSTANTS
  a = a
  b = b
  node = node
  c1 = c1
  c2 = c2
  c3 = c3
  c4 = c4
  c5 = c5
  None = None
  Modules = {a, b, node}
  NodeModule = node
  Observed = {a, node}
  Calls = {c1, c2, c3, c4, c5}
  From <- MixedFrom
  To <- MixedTo
  Workloads <- MixedWork
  Commands = {c2}
  Untyped = {c4}
  MaxPending = 1
  TimeToLive = 1
  MaxPublished = 1
  MaxResets = 1
INVARIANTS
  TypeOK
  SumsAgree
  NodeTrafficExcluded
  
  PendingBounded
PROPERTIES
  NoSampleOnceOver
CHECK_DEADLOCK FALSE
