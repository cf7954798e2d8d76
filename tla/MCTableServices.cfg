SPECIFICATION Spec
CONSTANTS
  Tables = {single, double, dumponly}
  DoubleBuffered = {double}
  DumpOnly = {dumponly}
  Sharers = {other}
  Reads <- MCReads
  Images = {good, bad}
  Good = {good}
  NumLoadBuffs = 2
  NumValidations = 1
  MaxCommands = 4
  Owner = Owner
  Part = Part
INVARIANTS TablesInv NotToldMeansCurrent
PROPERTIES OwnersImageStable ChangesInManageOnly
