SPECIFICATION Spec
CONSTANTS
  Calls = {c1, c2}
  u1 = u1
  u2 = u2
  Urls = {u1}
  NoEntry = NoEntry
  TTL = 1
  MaxEntries = 1
  Options <- CachingCall
  Replies <- GoodOrChallenge
  Faults = {}
  Solver = TRUE
  MaxRetries = 1
  MaxVersion = 0
  MaxClock = 0
SYMMETRY Interchangeable
INVARIANTS
  NoChallengeAnswered
