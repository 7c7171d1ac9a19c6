\* One gateway; another device may answer at a1 once it has left.
SPECIFICATION FairSpec
CONSTANTS
    Gateway = {g1}
    Watched = {g1}
    Address = {a1, a2}
    Nobody = nobody
    Foreign = {a1}
    MaxChanges = 2
    MaxPending = 1
    MaxManual = 1
PROPERTIES
    MovedGatewaysReconnect
CHECK_DEADLOCK FALSE
