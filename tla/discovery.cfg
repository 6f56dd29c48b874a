SPECIFICATION Spec
CONSTANTS
  Terms = {"agent", "chip"}
  Finds <- MCFinds
  Pairs <- MCPairs
  Extractions = {"e1", "e2"}
  Periods = {"jan", "feb"}
  PeriodOf <- MCPeriodOf
  MaxFaults = 1
  Domains = {}
  DemoRows = {"d1"}
  DemoName <- MCDemoName
  Scans = {s1, s2}
  ScanPeriod <- MCScanPeriod
  Verifications = {v1, v2}
SYMMETRY MCSymmetry
INVARIANTS
  TypeOK
  PairsOnce
  OldCandidatesGone
  TopicsWereValidated
PROPERTIES
  SignalsStay
  VerdictsKept
  SyncedHaveTopics
CHECK_DEADLOCK FALSE
