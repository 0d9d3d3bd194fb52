SPECIFICATION Spec
CONSTANTS
  k = k
  shift = shift
  ctrl = ctrl
  opt = opt
  cmd = cmd
  Key = {k}
  Button = {}
  Shift = shift
  Control = ctrl
  Option = opt
  Command = cmd
  MaxHeld = 2
  Addr = {a}
  Id = {1}
  Nobody = Nobody
  Target = {"desktop"}
  Portal = {}
  Inputs <- ChordInputs
  Unstable = {}
  MaxAge = 1
  Hold = 2
  Watch = 1
  MaxBusy = 1
  MaxTime = 3
  MaxEpoch = 2
  MaxSeq = 4
  MaxRev = 0
INVARIANTS TypeOK NativeMatches StopBound
PROPERTIES AtMostOnce ChordIntact
