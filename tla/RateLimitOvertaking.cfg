SPECIFICATION Spec
CONSTANTS
  Workers = {w1, w2}
  Keys = {k1}
  NoBucket = NoBucket
  BurstArg = 1
  RateArg = 1
  Cost = 2
  TTL = 2
  EvictInterval = 1
  MaxClock = 5
INVARIANT
  RateKept
