SPECIFICATION FairSpec
CONSTANTS
  Clients = {"first", "second"}
  Keys = {"a", "b", "p"}
  ProxyAddr = "p"
  NoBucket = NoBucket
  BurstArg = 1
  RateArg = 1
  Cost = 2
  TTL = 9
  Runs <- AnyRun
  Timeout = 2
  Grace = 1
  WriteTimeout = 5
  MaxRuleWaves = 1
  MaxClock = 6
\* A process exits, and one that is asked nothing waits.
CHECK_DEADLOCK FALSE
INVARIANTS
  TypeOK
  SettingsSound
  StatusTellsTruth
  NothingCutShort
PROPERTIES
  OwnTokensOnly
  EverythingEnds
