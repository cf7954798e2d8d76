SPECIFICATION Spec
CONSTANTS
  NumSlots = 2
  Names = {a, b}
  Tasks = {t1, t2}
  Used = {"SB"}
  ScanRate = 2
  KillTimeout = 1
  ElapsedTimes = {1}
  MaxCommands = 3
  Commands = {"SYS_RELOAD", "SYS_DELETE"}
  ExitStatuses = {"APP_RUN", "APP_ERROR"}
  NoName = NoName
  NoTask = NoTask
  NoSlot = NoSlot
INVARIANTS LifecycleInv NamesUnique CopyStaysCurrent OnlyLateSurvives
PROPERTIES NoResurrection RequestSurvivesExit EndIsServed
CHECK_DEADLOCK FALSE
