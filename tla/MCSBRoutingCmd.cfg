CONSTANTS
  Pipes = {p1, p2}
  MsgIds = {m1, m2}
  Blocks = {b1, b2, b3}
  MaxMsgIds = 2
  MaxDests = 2
  NULL = NULL
  NoPipe = NoPipe
SYMMETRY Symmetry
SPECIFICATION Spec
PROPERTIES CommandKeepsOtherRoutes
CHECK_DEADLOCK FALSE
