SPECIFICATION Spec
CONSTANTS
  a = a
  b = b
  node = node
  c1 = c1
  c2 = c2
  n2 = n2
  n3 = n3
  self = self
  None = None
  NodeModule = node
  Modules = {node}
  Handlers = {node}
  Fragile = {}
  Legacy = {}
  Stoppable = {}
  Observed = {}
  BrokerKinds = {"plain"}
  Calls = {c1}
  From <- SelfFrom
  To <- SelfTo
  Nested = {}
  OddRequests = {}
  OddReplies = {}
  Workloads <- SelfWork
  MaxStops = 0
INVARIANTS
  AnsweredMeansHandled
CHECK_DEADLOCK FALSE
