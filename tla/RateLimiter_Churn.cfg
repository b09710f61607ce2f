\* Three keys cycle through two buckets of two requests each.
SPECIFICATION Spec
CONSTANTS
  Key = {k1, k2, k3}
  MaxKeys = 2
  Cost = 2
  Burst = 2
  MaxCalls = 7
  MaxClock = 4
INVARIANTS
  TypeOK
  BoundedMemory
  KeyWithinRate
  RefusalsAreNotCharged
  MintsWithinRate
  TotalWithinSlots
CHECK_DEADLOCK FALSE
