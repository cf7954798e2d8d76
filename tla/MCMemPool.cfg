CONSTANTS
  AddrMod = 64
  PoolHandle = 35
  PoolT = 4
  End = 63
  BdT = 2
  Align = 4
  BlockSizes <- MCBlockSizes
  NumSizes = 3
  Sizes = {0, 3, 5, 9}
  Null = Null
SPECIFICATION Spec
INVARIANTS PoolInv BlocksDisjoint ListsComplete
PROPERTIES DamagedStayOut ImplementsAllocator
CHECK_DEADLOCK FALSE
