SPECIFICATION Spec
CONSTANTS
  Runs = {"r1", "r2"}
  CeleryRuns = {"r1", "r2"}
  Procs = {"r1", "r2"}
  ProcOf <- Apart
  Tables = {"company", "patent", "news"}
  TableSeq <- CeleryTables
  TechTables = {"patent"}
  Unmapped = {"news", "patent"}
  Types <- MCTypes
  TypeOf <- MCTypeOf
  MaxKey = 3
  InitRows <- CeleryRows
  Ids <- MCIds
  NoId = "none"
  EntityOf <- MCAnonymous
  Bad <- CeleryBad
  Related <- NoRelated
  Concepts = {"c1", "c2"}
  Terms <- MCTerms
  Domains = {"G06T"}
  DomainOf <- MCDomainOf
  BatchSize = 2
  MaxRows = 0
  Mined = {}
  HookOn = FALSE
  Faults = {}
  MaxCrashes = 0
  MaxActive = 1
INVARIANTS
  ContainmentLands
