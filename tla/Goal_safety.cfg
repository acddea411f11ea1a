SPECIFICATION FairSpec
CONSTANTS
  Goals = {g1, g2}
  NoGoal = no
  Reasons = {r1, r2}
  Judge = TRUE
  MaxAuto = 4
  MaxIdle = 2
  MaxTurns = 5
INVARIANT GivenUpWhenDue
PROPERTIES CompletedInForce LoopEnds
CHECK_DEADLOCK FALSE
