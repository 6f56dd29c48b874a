SPECIFICATION FairSpec
CONSTANTS
  Runs = {"r1", "r2"}
  CeleryRuns = {}
  Procs = {"api"}
  ProcOf <- Together
  Tables = {"company", "talent", "patent"}
  TableSeq <- BackendTables
  TechTables = {"patent"}
  Unmapped = {"patent"}
  Types <- MCTypes
  TypeOf <- MCTypeOf
  MaxKey = 2
  InitRows <- BackendRows
  Ids <- MCIds
  NoId = "none"
  EntityOf <- MCEntityOf
  Bad = {}
  Related <- MCRelated
  Concepts = {"c1", "c2"}
  Terms <- MCTerms
  Domains = {"G06T"}
  DomainOf <- MCDomainOf
  BatchSize = 2
  MaxRows = 1
  Mined <- MCMined
  HookOn = TRUE
  Faults = {"broker", "extract", "resolve"}
  MaxCrashes = 0
  MaxActive = 2
INVARIANTS
  NoSilentLoss
  NoWaitInProcess
  NoStandstill
  RelationsLand
PROPERTIES
  RunsFinish
