SPECIFICATION Spec
CONSTANTS
    Pools <- AllPools
    MaxHops = 3
    MaxWraps = 2
INVARIANTS TypeOK AllAccounted Faithful
PROPERTIES Settles
CHECK_DEADLOCK FALSE
