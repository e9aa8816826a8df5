SPECIFICATION Spec
CONSTANTS
  u1 = u1
  u2 = u2
  Uploads <- OneUpload
  PartSize = 2
  MaxParts = 2
  MaxChunk = 3
  MaxBytes <- SixBytes
  NoObject = NoObject
INVARIANTS
  PartsAreFull QuietStore ReportMatchesStore
PROPERTIES
  NoPartAfterCancel ImplementsAtomicObject
CHECK_DEADLOCK FALSE
