SPECIFICATION Spec
CONSTANTS
  k = k
  shift = shift
  ctrl = ctrl
  opt = opt
  cmd = cmd
  Key = {k}
  Button = {}
  Shift = shift
  Control = ctrl
  Option = opt
  Command = cmd
  MaxHeld = 2
  Addr = {a, b}
  Id = {1}
  Nobody = Nobody
  Target = {"portal"}
  Portal = {"portal"}
  Inputs <- KeyInputs
  Unstable = {a, b}
  MaxAge = 1
  Hold = 2
  Watch = 1
  MaxBusy = 1
  MaxTime = 3
  MaxEpoch = 2
  MaxSeq = 1
  MaxRev = 0
SYMMETRY Peers
INVARIANTS Ownership
PROPERTIES CleanupTakesNothing NothingStale
