SPECIFICATION Spec
CONSTANTS
  t1 = t1
  t2 = t2
  None = None
  Recursive = Recursive
  Tasks <- TwoTasks
  Registrations <- SomeRegistrations
  RetryArguments <- SomeArguments
  Largest = 10
  UploadKeys <- Upload
  RetryKeys <- Retries
  Decode <- Meanings
  Spell <- Spellings
  WorkingDirectory <- InDirectory
  Requests <- SomeRequests
  Stores <- StoreUrls
  Universe <- SomePaths
  Initially <- AtFirst
  MaxChanges = 1
INVARIANTS
   ClientOfStore NeverTwice ExpansionExact
SYMMETRY Symmetry
CHECK_DEADLOCK FALSE
