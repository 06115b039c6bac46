SPECIFICATION FairSpec
CONSTANTS
  a = a
  b = b
  t = t
  tu = tu
  any = any
  p1 = p1
  p2 = p2
  p3 = p3
  p4 = p4
  p5 = p5
  k1 = k1
  k2 = k2
  k3 = k3
  main = main
  other = other
  Garbled = Garbled
  Json = Json
  Interfaces = {a, b}
  Stoppable = {b}
  Topics = {t, tu, any, Json}
  Covers <- Prefixes
  Publications = {p1, p2, p3, p4, p5}
  Thread <- ThreadOf
  From <- FromOf
  Topic <- TopicOf
  Unhashable = {p5}
  Callbacks = {k1, k2, k3}
  At <- AtOf
  For <- ForOf
  Workloads <- Work
  MaxStops = 1
INVARIANTS
  TypeOK
PROPERTIES
  ImplementsFeed
  NoGaps
  Delivered
CHECK_DEADLOCK FALSE
