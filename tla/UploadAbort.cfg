SPECIFICATION Spec
CONSTANTS
  u1 = u1
  u2 = u2
  Uploads <- OneUpload
  PartSize = 2
  MaxParts = 1
  MaxChunk = 2
  MaxBytes <- ThreeBytes
  NoObject = NoObject
INVARIANTS
  AbortFailsOnlyWithTask
CHECK_DEADLOCK FALSE
