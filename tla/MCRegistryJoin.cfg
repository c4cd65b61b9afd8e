CONSTANTS
    us = us
    eu = eu
    Servers <- TwoServers
    Args <- TestArgs
    Empty = Empty
    MaxRetries = 3
    MaxCrashes = 1
    MaxLosses = 2
CHECK_DEADLOCK FALSE
SPECIFICATION FairSpec
INVARIANTS
    TypeOK
    AcknowledgedJoinsAreListed
    EntriesAreDistinctCalls
    ListedOnceWithoutFaults
    SelfJoinSucceeds
PROPERTIES
    JoinsEnd
