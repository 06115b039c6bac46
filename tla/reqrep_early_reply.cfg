SPECIFICATION Spec
CONSTANTS
  a = a
  b = b
  node = node
  c1 = c1
  c2 = c2
  n2 = n2
  n3 = n3
  self = self
  None = None
  NodeModule = node
  Modules = {a, b}
  Handlers = {a, b}
  Fragile = {}
  Legacy = {}
  Stoppable = {}
  Observed = {}
  BrokerKinds = {"plain"}
  Calls = {c1, c2}
  From <- PairFrom
  To <- PairTo
  Nested = {}
  OddRequests = {}
  OddReplies = {}
  Workloads <- PairWork
  MaxStops = 0
PROPERTIES
  DroppedOnlyWhenLate
CHECK_DEADLOCK FALSE
