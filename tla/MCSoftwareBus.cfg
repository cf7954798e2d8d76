CONSTANTS
  Apps = {a1, a2}
  PendForever = {}
  Pipes = {p1, p2}
  MsgIds = {m1}
  TlmIds = {m1}
  Bufs = {b1, b2}
  Depths = {2}
  MsgLims = {1, 2}
  MaxMsgIds = 1
  MaxDests = 2
  SeqMod = 1
  NoApp = NoApp
  NoPipe = NoPipe
  NoBuf = NoBuf
  NoDest = NoDest
  NoContent = NoContent
SYMMETRY Symmetry
SPECIFICATION Spec
INVARIANTS IInv LimitCountSound UseCountExact HeldIntact DepthStatExact ReleasedPipeClean
PROPERTY ImplementsPubSub
