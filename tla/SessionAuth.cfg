SPECIFICATION Spec
CONSTANTS
  Attempt = {c1, c2}
  Addr = {a, b}
  Key = {k1, k2}
  NoKey = NoKey
  Nobody = Nobody
  MaxHandshakes = 2
  MaxSessions = 1
  MaxSid = 3
PROPERTIES Agrees
