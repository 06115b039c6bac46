SPECIFICATION FairSpec
CONSTANTS
  Modules = {a}
  Timeouts = {0, 2}
  MaxStarts = 3
  MaxOutages = 1
  MaxMail = 2
INVARIANTS
  TypeOK
  OnlineOnItsWord
PROPERTIES
  RefusedOnlyIfStillThere
  RunningComesOnline
  GoneGoesOffline
CHECK_DEADLOCK FALSE
