SPECIFICATION FairSpec
CONSTANTS
  Goals = {g1}
  NoGoal = no
  Reasons = {r1, r2}
  Judge = TRUE
  MaxAuto = 4
  MaxIdle = 2
  MaxTurns = 5

PROPERTY RejectedGoesOn
CHECK_DEADLOCK FALSE
