SPECIFICATION Spec
CONSTANTS
  Urls = {u1, u2, u3}
  Bodies = {b1, b2}
  NoEntry = NoEntry
  TTL = 2
  MaxEntries = 2
  MaxClock = 5
INVARIANTS
  TypeOK
  WithinCapacity
PROPERTY
  ImplementsStore
