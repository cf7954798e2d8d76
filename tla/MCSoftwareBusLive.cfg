CONSTANTS
  Apps = {a1, a2}
  PendForever = {a2}
  Pipes = {p1}
  MsgIds = {m1, m2, m3}
  TlmIds = {m1}
  Bufs = {b1, b2}
  Depths = {1}
  MsgLims = {1}
  MaxMsgIds = 2
  MaxDests = 1
  SeqMod = 1
  NoApp = NoApp
  NoPipe = NoPipe
  NoBuf = NoBuf
  NoDest = NoDest
  NoContent = NoContent
SPECIFICATION FairSpec
PROPERTIES DeleteTerminates BuffersRecycled
CHECK_DEADLOCK FALSE
