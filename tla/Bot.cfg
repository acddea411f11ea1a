SPECIFICATION FairSpec
CONSTANTS
  Platforms = {"qq", "feishu"}
  Users = {"u"}
  Buffer = 1
  MaxMessages = 3
  MaxBuilds = 2
INVARIANTS OneConversation TablesAreTrue
PROPERTIES ReaperSparesUsed EveryMessageIsHandled
CHECK_DEADLOCK FALSE
