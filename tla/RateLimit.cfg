SPECIFICATION Spec
CONSTANTS
  Workers = {w1, w2}
  Keys = {k1, k2}
  NoBucket = NoBucket
  BurstArg = 1
  RateArg = 1
  Cost = 2
  TTL = 2
  EvictInterval = 1
  MaxClock = 4
SYMMETRY Interchangeable
INVARIANTS
  TypeOK
  UnitsAccounted
  CreditNotLost
PROPERTY
  IdleClientsForgotten
