SPECIFICATION ClientSpec
CONSTANTS
  Clients = {c1, c2}
  Sids = {s1, s2}
  NoSid = NoSid
  MaxClientCalls = 6
INVARIANTS
  FallsBackToKnown
  OneContext
