SPECIFICATION LaneSpec
CONSTANTS
  k = k
  shift = shift
  ctrl = ctrl
  opt = opt
  cmd = cmd
  Key = {k}
  Button = {}
  Shift = shift
  Control = ctrl
  Option = opt
  Command = cmd
  MaxHeld = 2
  Addr = {a}
  Id = {1}
  Nobody = Nobody
  Target = {"desktop"}
  Portal = {}
  Inputs <- PressInputs
  Unstable = {}
  MaxAge = 1
  Hold = 2
  Watch = 1
  MaxBusy = 1
  MaxTime = 1
  MaxEpoch = 2
  MaxSeq = 1
  MaxRev = 1
  Commands = {"switch", "activity", "unsubscribe", "close"}
  Life = 3
  MaxRequest = 2
INVARIANTS GrantIsCurrent
PROPERTIES RightSource
