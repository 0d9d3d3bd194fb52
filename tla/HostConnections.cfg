SPECIFICATION FairSpec
CONSTANTS
  Addr = {a, b}
  ConnId = {1}
  MaxOwners = 1
  MaxSessions = 2
  MaxGen = 2
  MaxKey = 2
CHECK_DEADLOCK FALSE
INVARIANTS ClosedIsTrue OnlyCurrentKey Accounted OwnerLimit StopIsTrue OneOwner
PROPERTIES CloseAnswered
