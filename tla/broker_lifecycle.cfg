SPECIFICATION Spec
CONSTANTS
  Brokers <- BothBrokers
  Order <- NodeOrder
  Addresses <- Binds
  MaxStarts = 2
INVARIANTS
  TypeOK
  NodeHasBrokers
  OneStrayAtMost
PROPERTIES
  StartFailsForOthers
  ReturnsRunning
  EarlierLoopsRunOut
CHECK_DEADLOCK FALSE
