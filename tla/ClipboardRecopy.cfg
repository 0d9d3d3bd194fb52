SPECIFICATION Spec
CONSTANTS
  a = a
  b = b
  k1 = k1
  k2 = k2
  Side = {a, b}
  Content <- Texts
  None = None
  Chunk = {k1, k2}
  MaxInbound = 2
  MaxCompleted = 64
  Native <- MCNative
  Flaky = {b}
  Torn <- MCTorn
  MaxCopies = 3
  MaxTimeouts = 2
  MaxTorn = 1
  MaxObjects <- MCObjects
CHECK_DEADLOCK FALSE
INVARIANTS ChangesTravel
