SPECIFICATION Spec
CONSTANTS
  a = a
  b = b
  node = node
  c1 = c1
  c2 = c2
  c3 = c3
  c4 = c4
  c5 = c5
  None = None
  Modules = {a, b}
  NodeModule = node
  Observed = {a}
  Calls = {c1}
  From <- SingleFrom
  To <- SingleTo
  Workloads <- SingleWork
  Commands = {}
  Untyped = {}
  MaxPending = 1
  TimeToLive = 1
  MaxPublished = 0
  MaxResets = 0
INVARIANTS
  CleanedUp
CHECK_DEADLOCK FALSE
