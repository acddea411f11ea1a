SPECIFICATION Spec
CONSTANTS
  Controllers = {t1, t2}
  Callers = {}
  Settings <- StartedSettings
  MaxClients = 2
  MaxCommands = 2
SYMMETRY Symmetry
INVARIANTS NothingIsLeft RegistryIsTrue
CHECK_DEADLOCK FALSE
