SPECIFICATION FairSpec
CONSTANTS
  Controllers = {"tab"}
  Callers = {"k", "l"}
  Settings <- AllSettings
  MaxClients = 2
  MaxCommands = 2
INVARIANT OneHandshake
PROPERTY AllEnds
CHECK_DEADLOCK FALSE
