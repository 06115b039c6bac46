SPECIFICATION FairSpec
CONSTANTS
  a = a
  b = b
  node = node
  c1 = c1
  c2 = c2
  n2 = n2
  n3 = n3
  self = self
  None = None
  NodeModule = node
  Modules = {a, b}
  Handlers = {a, b}
  Fragile = {b}
  Legacy = {}
  Stoppable = {b}
  Observed = {}
  BrokerKinds = {"counting"}
  Calls = {c1, c2, n2, n3}
  From <- NestFrom
  To <- NestTo
  Nested = {n2, n3}
  OddRequests = {c2}
  OddReplies = {}
  Workloads <- NestWork
  MaxStops = 1
INVARIANTS
  NestedNeverAnswered
  NoReplyWaitsForHandler
PROPERTIES
  CallsReturn
  BusSettles
  RequestsHandled
CHECK_DEADLOCK FALSE
