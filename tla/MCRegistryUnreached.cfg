CONSTANTS
    us = us
    eu = eu
    Servers <- TwoServers
    Args <- TestArgs
    Empty = Empty
    MaxRetries = 5
    MaxCrashes = 0
    MaxLosses = 0
CHECK_DEADLOCK FALSE
SPECIFICATION Spec
INVARIANTS
    ServingServersJoined
