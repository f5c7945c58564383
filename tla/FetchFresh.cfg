SPECIFICATION Spec
CONSTANTS
  Calls = {c1, c2, c3}
  u1 = u1
  u2 = u2
  Urls = {u1}
  NoEntry = NoEntry
  TTL = 1
  MaxEntries = 1
  Options <- NoCacheOrFlush
  Replies <- Good
  Faults = {"hangup"}
  Solver = FALSE
  MaxRetries = 1
  MaxVersion = 1
  MaxClock = 1
SYMMETRY Interchangeable
INVARIANTS
  FillsOnlyOnMiss
  FlushIsBarrierWhenQuiet
  LeadingNoCacheIsFresh
  MonotonicReads
  HangUpsAreIsolated
PROPERTIES
  ImplementsReplica
