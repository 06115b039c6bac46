SPECIFICATION Spec
CONSTANTS
  a = a
  b = b
  node = node
  c1 = c1
  c2 = c2
  n2 = n2
  n3 = n3
  self = self
  None = None
  NodeModule = node
  Modules = {a, node}
  Handlers = {a, node}
  Fragile = {a}
  Legacy = {node}
  Stoppable = {a}
  Observed = {a}
  BrokerKinds = {"plain", "counting"}
  Calls = {c1, c2, self}
  From <- ThreadsFrom
  To <- ThreadsTo
  Nested = {}
  OddRequests = {self}
  OddReplies = {self}
  Workloads <- ThreadsWork
  MaxStops = 1
INVARIANTS
  TypeOK
  PendingConsistent
  ReplyIntegrity
  EchoOrHandled
  HandledAtMostOnce
PROPERTIES
  ImplementsAtMostOnceCall
CHECK_DEADLOCK FALSE
