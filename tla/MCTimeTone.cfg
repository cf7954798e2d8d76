SPECIFICATION Spec
CONSTANTS
  Second = 3
  Tolerance = 1
  MatchWindow = 1
  StartFly = 2
  LatchFly = 3
  MsgLim = 2
  NewMETs = {31}
  NewStates = {"VALID", "FLYWHEEL"}
  MaxTime = 16
  MaxCommands = 1
INVARIANTS FlywheelInv CountNearReference
PROPERTIES MetStepBounded
CHECK_DEADLOCK FALSE
