\* Two gateways that may take each other's address, set up from their cards;
\* another device may take a1.  Two changes: enough to lose an address to the
\* other gateway and to come back at another.
SPECIFICATION FairSpec
CONSTANTS
    Gateway = {g1, g2}
    Watched = {g1}
    Address = {a1, a2}
    Nobody = nobody
    Foreign = {a1}
    MaxChanges = 2
    MaxPending = 1
    MaxManual = 0
PROPERTIES
    Reconnects
CHECK_DEADLOCK FALSE
