SPECIFICATION ArrowSpec
CONSTANTS
  Unknown = Unknown
  Groups <- GroupsIn
  Targets = {1, 2}
  PoolSize = 18
  SafetyBytes = 12
  SampleRows = 2
  DetectBytes = 4
  ChunkEnds = {4, 10, 12, 13}
INVARIANTS
  ScanExact MemoryIsGivenBack
