SPECIFICATION FairSpec
CONSTANTS
    PipeSize = 2
    Scripts <- ShortScripts
    MaxEntries = 2
INVARIANTS
    DiscoveryInv
    EmptyIsEarned
    PartialReadIsKept
PROPERTIES
    RunReturns
\* Run returns once.
CHECK_DEADLOCK FALSE
