SPECIFICATION MCSpec
CONSTANTS
  None = None
  s1 = s1
  s2 = s2
  n1 = n1
  Parts <- PartsIn
  Folded <- FoldedIn
  ValidNames <- ValidNamesIn
  ValidSchemes <- ValidSchemesIn
  ApplicationKeys <- ApplicationKeysIn
  StorageKeys <- StorageKeysIn
  Objects <- ObjectsIn
  UrlOrder <- UrlOrderIn
  CheckedFormats = {"parquet", "vortex"}
  Concurrency = 2
  Contents <- ContentsIn
  FirstContents <- FirstContentsIn
  MaxRewrites = 1
  CommandLines <- CommandLinesIn
  Machines <- MachinesIn
  Columns <- ColumnsIn
  Nested <- NestedIn
  QueryColumns <- QueryColumnsIn
  SortShapes <- SortShapesIn
  MaxOutputs = 2
  MinReservation = 2
  BatchSize = 1
  OnePetabyte = 1000
  Consumers <- PoolConsumers
  CanSpill <- PoolCanSpill
  PoolSize = 5
  Reserve = 1
  MaxGrow = 3
INVARIANTS
  RoutesAreUnique DetectionAgrees GroupsExact ClaimsHold OrderIsTrue
  BudgetsFit ReserveGranted
CHECK_DEADLOCK FALSE
