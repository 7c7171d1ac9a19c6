\* The control: every fault, restart, refusal, stop and cancellation at every
\* await, over one node that may be taken out of service; the supervisor
\* recovers from all of them, and a stop ends it.
SPECIFICATION FairSpec
CONSTANTS
    u1 = u1  u2 = u2  n1 = n1  n2 = n2  p1 = p1  p2 = p2
    Uid = {u1, u2}
    NodeId = {n1, n2}
    Profile = {p1, p2}
    Tables <- Switch
    Supported = {p1, p2}
    SeqMod = 8
    MaxGeneration = 2
    MaxClock = 1
    MaxBoot = 2
    MaxFaults = 2
    MaxChan = 2
    Revocable = TRUE
    MaxDelay = 4
    Unloads = TRUE
INVARIANTS
    BootMatches
    NoLeakedSocket
    AuthHalts
    StopClosesStream
PROPERTIES
    ReconnectsCounted
    BackoffResets
    Recovers
    RefusalReported
    StopEnds
CHECK_DEADLOCK FALSE
