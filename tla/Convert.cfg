SPECIFICATION FairSpec
CONSTANTS
  Requests <- AnyRequest
  Configs <- AnyConfig
  MaxConcurrent = 2
  MaxSources = 4
\* A conversion ends.
CHECK_DEADLOCK FALSE
INVARIANTS
  TypeOK
  OutputAsDeclared
  FailsForItsSubscriptions
  SlotsAccounted
  UserinfoOfFirst
PROPERTIES
  EveryRunReturns
