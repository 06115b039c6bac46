SPECIFICATION Spec
CONSTANTS
  Names = {"name"}
  Nodes = {"local", "n2"}
  DefaultNode = "local"
  DefaultTtl = 16
  Empty = Empty
  None = None
  Uuid = Uuid
  Ttls = {0, 1, 2}
INVARIANTS
  TypeOK
  HopsConserved
  CarriedWhole
PROPERTIES
  HopFailsAtZero
