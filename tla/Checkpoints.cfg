SPECIFICATION Spec
CONSTANTS
  Files = {f1, f2}
  MaxTurns = 3
  MaxEdits = 3
  MaxMute = 1
  MaxRewinds = 2
  MaxFolds = 1
  MaxRestarts = 1
INVARIANTS CodeIsRestored TalkIsRestored RestartChangesNothing
SYMMETRY Symmetry
CHECK_DEADLOCK FALSE
