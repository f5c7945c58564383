SPECIFICATION FairSpec
CONSTANTS
  Calls = {c1, c2}
  u1 = u1
  u2 = u2
  Urls = {u1, u2}
  NoEntry = NoEntry
  TTL = 1
  MaxEntries = 1
  Options <- NoCacheOrNot
  Replies <- OfEachSort
  Faults = {"network", "deadline", "solver", "hangup"}
  Solver = TRUE
  MaxRetries = 1
  MaxVersion = 0
  MaxClock = 0
INVARIANTS
  TypeOK
  WaitersHaveAFlight
  OnlySuccesses
PROPERTIES
  EveryCallReturns

