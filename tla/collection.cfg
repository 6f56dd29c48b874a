SPECIFICATION FairSpec
CONSTANTS
  Triggers = {"t1"}
  Jobs = {"j1"}
  Forms = {"f1", "f2"}
  Types = {"feed", "unroutable", "sql_warehouse", "web_page"}
  Feeds <- MCFeeds
  MaxMark = 1
  MaxFaults = 2
INVARIANTS
  TypeOK
  ImportedIsStored
  PendingIsAttended
PROPERTIES
  ErasesOnlyOverlapping
  LifeKept
  OpenTasksEnd
CHECK_DEADLOCK FALSE
