SPECIFICATION Spec
CONSTANTS
  a = a
  b = b
  t = t
  tu = tu
  any = any
  p1 = p1
  p2 = p2
  p3 = p3
  p4 = p4
  p5 = p5
  k1 = k1
  k2 = k2
  k3 = k3
  main = main
  other = other
  Garbled = Garbled
  Json = Json
  Interfaces = {a}
  Stoppable = {}
  Topics = {t, tu, any, Json}
  Covers <- Prefixes
  Publications = {p1, p2, p3}
  Thread <- SharedThread
  From <- SharedFrom
  Topic <- SharedTopic
  Unhashable = {}
  Callbacks = {k1}
  At <- SharedAt
  For <- SharedFor
  Workloads <- SharedWork
  MaxStops = 0
INVARIANT
  DeliveredAsPublished
CHECK_DEADLOCK FALSE
