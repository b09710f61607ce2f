\* The documented bound on a flood of unseen keys.
SPECIFICATION Spec
CONSTANTS
  Key = {k1, k2, k3}
  MaxKeys = 2
  Cost = 2
  Burst = 2
  MaxCalls = 7
  MaxClock = 4
INVARIANT FloodWithinRate
CHECK_DEADLOCK FALSE
