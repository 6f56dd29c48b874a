SPECIFICATION Spec
CONSTANTS
  Runs = {"r1"}
  CeleryRuns = {}
  Procs = {"api"}
  ProcOf <- Together
  Tables = {"company", "talent", "patent"}
  TableSeq <- BackendTables
  TechTables = {"patent"}
  Unmapped = {"patent"}
  Types <- MCTypes
  TypeOf <- MCTypeOf
  MaxKey = 2
  InitRows <- BackendRows
  Ids <- MCIds
  NoId = "none"
  EntityOf <- MCEntityOf
  Bad = {}
  Related <- NoRelated
  Concepts = {"c1", "c2"}
  Terms <- MCTerms
  Domains = {"G06T"}
  DomainOf <- MCDomainOf
  BatchSize = 2
  MaxRows = 0
  Mined = {}
  HookOn = FALSE
  Faults = {"commit"}
  MaxCrashes = 0
  MaxActive = 1
INVARIANTS
  NoSilentLoss
