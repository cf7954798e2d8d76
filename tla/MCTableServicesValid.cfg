SPECIFICATION Spec
CONSTANTS
  Tables = {single, double}
  DoubleBuffered = {double}
  DumpOnly = {}
  Sharers = {}
  Reads <- MCReads
  Images = {good, bad}
  Good = {good}
  NumLoadBuffs = 2
  NumValidations = 1
  MaxCommands = 4
  Owner = Owner
  Part = Part
INVARIANT ActiveImageValid
