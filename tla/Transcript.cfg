SPECIFICATION TranscriptSpec
CONSTANTS
  TailBudget = 3
  WorthFolding = 2
  Sizes = {"short", "huge"}
  MaxMessages = 5
  MaxOld = 3
  MaxNew = 0
  MaxNudges = 1
  MaxFolds = 1
  MaxCrashes = 1
INVARIANTS TranscriptTypes WireContract RepairIsSound SentInFull FoldingStops
PROPERTY FoldsKeepAll
CHECK_DEADLOCK FALSE
