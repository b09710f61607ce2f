\* Two goroutines and four tenants for three buckets: a list long enough to
\* unlink from its middle and short enough to evict.
SPECIFICATION FairSpec
CONSTANTS
  long = long
  hex = hex
  Id = {a, b, c, hex}
  OverLong = {}
  Digest <- MCDigest
  Goroutine = {g1, g2}
  Nil = Nil
  MaxKeys = 3
  Cost = 1
  Burst = 1
  MaxCalls = 5
  MaxClock = 1
INVARIANTS
  TypeOK
  ListIsRecencyOrder
  ForgetsTheIdlest
PROPERTIES
  ImplementsPromise
  EveryCallReturns
CHECK_DEADLOCK FALSE
