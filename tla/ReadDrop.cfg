SPECIFICATION Spec
CONSTANTS
  s1 = s1
  s2 = s2
  Streams <- TwoStreams
  Rows <- OneRowEach
  Replies <- OneEach
  Failures <- SomeFailures
  Limit = 9
  Canonical <- Session1
  Absent = Absent
  Avro = Avro
  Decoders = 1
  PoolSize = 5
  Idle = 1
  Window = 2
  Session = 5
  Margin = 1
  Initial = 1
  Maximum = 1
  Num = 1
  Den = 1
  Sustained = 1
  MaxFailures = 1
  MaxTime = 2
INVARIANTS
  DecodesBounded
CHECK_DEADLOCK FALSE
