SPECIFICATION MCSpec
CONSTANTS
  GroupRows = 2
  Concurrency = 2
  IngestSlots = 1
  EncodeSlots = 1
  WriteSlots = 1
  RecordBatch = 2
  QueueDepth = 1
  BatchRows <- ThreeRows
  MaxRows = 6
  Commands <- AllFlags
  Schemas <- ThreeSchemas
  Analyses <- SomeAnalyses
  RowCounts <- TenRows
  DictionaryLimit = 32
  MaxDepth = 2
INVARIANTS
  InOrder NothingLeft AnalysisMatches FlagsHold BloomFollowsDictionary
PROPERTIES
  ImplementsAtomicObject ErrorsKept NoFooterAfterAbort Settles
CHECK_DEADLOCK FALSE
