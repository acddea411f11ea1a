SPECIFICATION SessionSpec
CONSTANTS
  MaxPaths = 3
  MaxTurns = 2
  MaxParts = 1
  MaxCalls = 2
  MaxCompacts = 1
  MaxCrashes = 1
  Ops = {"new", "clear", "branch", "switch", "resume", "reload"}
CONSTRAINT Alone
INVARIANTS SessionTypes FileIsItsOwn TurnsAreKept LeftAsAsked
CHECK_DEADLOCK FALSE
