SPECIFICATION FileSpec
CONSTANTS
  Null = Null
  HiveEncoded <- HiveEncodedIn
  Primitive <- PrimitiveIn
  By <- ByIn
  Types <- TypesIn
  Rows <- RowsIn
  Streams <- StreamsIn
  Keys <- KeysIn
  Paths <- KeysIn
  Jobs <- JobsIn
  MaxRuns = 5
INVARIANTS
  RowsReachTheirFiles TargetsKeepTheirShape ReportIsDurable 
PROPERTIES
  NeverReplaced
CHECK_DEADLOCK FALSE
