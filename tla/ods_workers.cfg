SPECIFICATION FairSpec
CONSTANTS
  Runs = {"r1", "r2"}
  CeleryRuns = {"r1", "r2"}
  Procs = {"r1", "r2"}
  ProcOf <- Apart
  Tables = {"company", "patent"}
  TableSeq <- WorkerTables
  TechTables = {"patent"}
  Unmapped = {"patent"}
  Types <- MCTypes
  TypeOf <- MCTypeOf
  MaxKey = 4
  InitRows <- WorkerRows
  Ids <- MCIds
  NoId = "none"
  EntityOf <- MCReversed
  Bad = {}
  Related <- NoRelated
  Concepts = {"c1", "c2"}
  Terms <- MCCrossTerms
  Domains = {"G06T"}
  DomainOf <- MCNoDomain
  BatchSize = 2
  MaxRows = 0
  Mined = {}
  HookOn = FALSE
  Faults = {}
  MaxCrashes = 0
  MaxActive = 2
INVARIANTS
  CompletedIsHonest
PROPERTIES
  PromiseKept
  RunsFinish
  RowsEventuallyAccounted
