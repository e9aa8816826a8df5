SPECIFICATION FairSpec
CONSTANTS
  u1 = u1
  u2 = u2
  Uploads <- TwoUploads
  PartSize = 1
  MaxParts = 2
  MaxChunk = 1
  MaxBytes <- TwoAndOne
  NoObject = NoObject
INVARIANTS
   PermitsConserved
PROPERTIES
  Settles
CHECK_DEADLOCK FALSE
