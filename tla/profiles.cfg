SPECIFICATION FairSpec
CONSTANTS
  Columns = {"cn", "en"}
  Ghosts = {"title"}
  Required = {"cn", "title"}
  Cn = "cn"
  En = "en"
  Users = {"u1"}
  Imports = {"i1"}
  Updatable = {"cn"}
  Mapped = {"en"}
  Defaulted = {"cn", "en"}
  Fits <- MCFits
  Typed <- MCTyped
  Tasks = {"t1"}
  Translations = {"j1"}
  MaxFaults = 1
INVARIANTS
  TypeOK
  LogExplainsRow
  DoneIsLogged
PROPERTIES
  SeenValuesStay
  LifeKept
  QueuedEnds
CHECK_DEADLOCK FALSE
