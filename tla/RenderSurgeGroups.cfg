SPECIFICATION Spec
CONSTANTS
  Inputs <- SurgeInputs
  Words <- InputWords
  Emojis <- Flags
  Servers = {"s1", "s2"}
  Precedes <- NameOrder
  RuleTypes <- SomeTypes
  Values <- SomeValues
  Numbers = {"80"}
  Urls = {"l1", "l2", "l3"}
  Lists <- SomeLists
  Traffic = {"a", "b", "tailnet"}
  Covers <- MatchedBy
\* A rendering ends.
CHECK_DEADLOCK FALSE
INVARIANTS
  GroupReferencesKept
