SPECIFICATION FairSpec
CONSTANTS
  s1 = s1
  s2 = s2
  Streams <- TwoStreams
  Rows <- TwoRowsAndNone
  Replies <- SomeReplies
  Failures <- SomeFailures
  Limit = 9
  Canonical <- Session1
  Absent = Absent
  Avro = Avro
  Decoders = 1
  PoolSize = 7
  Idle = 1
  Window = 2
  Session = 3
  Margin = 1
  Initial = 1
  Maximum = 1
  Num = 1
  Den = 1
  Sustained = 1
  MaxFailures = 1
  MaxTime = 3
INVARIANTS
   ResourcesCovered
PROPERTIES
  PollAnswered ImplementsRowStream
CHECK_DEADLOCK FALSE
