SPECIFICATION FairSpec
CONSTANTS
  Steers = {s1, s2}
  MaxSteps = 2
  MaxReadiness = 2
  MaxEmpty = 2
  MaxRecoveries = 1
INVARIANTS FirstPauseHolds CallsBounded
PROPERTIES TurnEnds SteersAreHeard
