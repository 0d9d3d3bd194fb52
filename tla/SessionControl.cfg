SPECIFICATION Spec
CONSTANTS
  Id = {s}
  Source = {screen, window}
  First = screen
  Demands = {{}, {"audio"}, {"video", "audio"}}
  MaxSubs = 1
  MaxAct = 2
  MaxReq = 2
  MaxSet = 1
  MaxAsks = 3
INVARIANTS ConfirmedStop GateShowsLatest DemandSettled PlaysWhatIsSent
