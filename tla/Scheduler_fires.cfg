SPECIFICATION FairSpec
CONSTANTS
  Tasks = {a, b}
  Fires = {f, g}
  Instants = {2}
  Periods = {1}
  MaxTime = 3
  MaxEdits = 1
INVARIANTS Armed FiresInOrder NeverLost
PROPERTY DueRuns
CHECK_DEADLOCK FALSE
