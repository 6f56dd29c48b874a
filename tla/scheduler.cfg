SPECIFICATION FairSpec
CONSTANTS
  Tasks = {"a", "b"}
  Ticks = {"w1", "w2"}
  Requests = {"q"}
  Known = {"a"}
  Crons = {"often", "once"}
  Fires <- MCFires
  CronOf <- MCCronOf
  Existing = {"a"}
  MaxTime = 2
  MaxEdits = 2
  MaxFaults = 1
INVARIANTS
  TypeOK
  RanMeansSent
PROPERTIES
  EditsKept
  FiresServed
