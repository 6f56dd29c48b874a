SPECIFICATION Spec
CONSTANTS
  Tasks = {"a", "b"}
  Ticks = {"w1", "w2"}
  Requests = {}
  Known = {"a"}
  Crons = {"often", "once"}
  Fires <- MCFires
  CronOf <- MCCronOf
  Existing = {"a", "b"}
  MaxTime = 2
  MaxEdits = 0
  MaxFaults = 0
INVARIANTS
  SentOnce
