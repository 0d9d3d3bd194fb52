SPECIFICATION Spec
CONSTANTS
  Id = {s}
  Source = {screen, window}
  First = screen
  Demands = {{"audio"}, {"video", "audio"}}
  MaxSubs = 1
  MaxAct = 0
  MaxReq = 0
  MaxSet = 1
  MaxAsks = 1
INVARIANTS SettingsInEffect
