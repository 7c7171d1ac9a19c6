\* The data: registry edits that move, reflash and deactivate nodes against
\* snapshots and live readings, over one lost link and a restart.  Two readings
\* during a snapshot that holds the later one need a third before it.
SPECIFICATION Spec
CONSTANTS
    u1 = u1  u2 = u2  n1 = n1  n2 = n2  p1 = p1  p2 = p2
    Uid = {u1, u2}
    NodeId = {n1, n2}
    Profile = {p1, p2}
    Tables <- Moves
    Supported = {p1, p2}
    SeqMod = 8
    MaxGeneration = 3
    MaxClock = 3
    MaxBoot = 2
    MaxFaults = 1
    MaxChan = 2
    Revocable = FALSE
    MaxDelay = 1
    Unloads = FALSE
INVARIANTS
    TypeOK
    Attribution
    LatestMatchesRegistry
    Synced
    ListenersUpToDate
PROPERTIES
    FreshestWins
    KeepsPromise
CHECK_DEADLOCK FALSE
