SPECIFICATION Spec
CONSTANTS
  Terms = {"agent"}
  Finds <- MCFinds
  Pairs <- MCPairs
  Extractions = {"e1"}
  Periods = {"jan", "feb"}
  PeriodOf <- MCPeriodOf
  MaxFaults = 0
  Domains = {}
  DemoRows = {"d1"}
  DemoName <- MCDemoName
  Scans = {s1}
  ScanPeriod <- MCScanPeriod
  Verifications = {v1}
INVARIANTS
  ValidatedHasTopic
CHECK_DEADLOCK FALSE
