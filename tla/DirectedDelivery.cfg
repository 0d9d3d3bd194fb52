SPECIFICATION FairSpec
CONSTANTS
  MaxSend = 1
  MaxGen = 2
  MaxRev = 2
  MaxTries = 1
  Routes = 2
  QueueCap = 1
  Limit = 2
INVARIANTS DeliveryTypeOK OnePull NoResurrection
PROPERTIES CommitsAlive StopEnds
CHECK_DEADLOCK FALSE
