SPECIFICATION Spec
CONSTANTS
  Consumers = {s1, s2, n1}
  CanSpill = {s1, s2}
  PoolSize = 5
  Reserve = 1
  MaxGrow = 3
INVARIANTS
  ReserveGuaranteed
CHECK_DEADLOCK FALSE
