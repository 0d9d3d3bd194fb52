SPECIFICATION LaneSpec
CONSTANTS
  k = k
  shift = shift
  ctrl = ctrl
  opt = opt
  cmd = cmd
  Key = {k}
  Button = {}
  Shift = shift
  Control = ctrl
  Option = opt
  Command = cmd
  MaxHeld = 2
  Addr = {a}
  Id = {1}
  Nobody = Nobody
  Target = {"desktop"}
  Portal = {}
  Inputs <- HoldInputs
  Unstable = {}
  MaxAge = 1
  Hold = 2
  Watch = 1
  MaxBusy = 1
  MaxTime = 4
  MaxEpoch = 1
  MaxSeq = 3
  MaxRev = 0
  Commands = {}
  Life = 3
  MaxRequest = 1
INVARIANTS DeadManBound NeverAhead ReleaseConfirmed HostHoldsWhatWasSent
