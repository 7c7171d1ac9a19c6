\* Two gateways that may take each other's address; another device may take
\* a1.  Two changes: enough for one gateway to leave and another to arrive.
SPECIFICATION Spec
CONSTANTS
    Gateway = {g1, g2}
    Watched = {}
    Address = {a1, a2}
    Nobody = nobody
    Foreign = {a1}
    MaxChanges = 2
    MaxPending = 1
    MaxManual = 1
SYMMETRY GatewaySymmetry
INVARIANTS
    TypeOK
    EntriesAreKept
    CardsAreDistinct
PROPERTIES
    OwnKeysUnlessPassed
    AddressesAreHeard
CHECK_DEADLOCK FALSE
