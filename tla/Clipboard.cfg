SPECIFICATION Spec
CONSTANTS
  a = a
  b = b
  k1 = k1
  k2 = k2
  Side = {a, b}
  Content <- Mixed
  None = None
  Chunk = {k1, k2}
  MaxInbound = 2
  MaxCompleted = 64
  Native <- MCNative
  Flaky = {a}
  Torn <- MCTorn
  MaxCopies = 3
  MaxTimeouts = 1
  MaxTorn = 1
  MaxObjects <- MCObjects
SYMMETRY Alike
CHECK_DEADLOCK FALSE
INVARIANTS TransfersOwed SentIsFinished OneWayAgrees
