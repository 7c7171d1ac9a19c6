\* One active node with a profile the manifest does not know.
SPECIFICATION FairSpec
CONSTANTS
    u1 = u1  u2 = u2  n1 = n1  n2 = n2  p1 = p1  p2 = p2
    Uid = {u1, u2}
    NodeId = {n1, n2}
    Profile = {p1, p2}
    Tables <- Mixed
    Supported = {p1}
    SeqMod = 8
    MaxGeneration = 1
    MaxClock = 2
    MaxBoot = 1
    MaxFaults = 0
    MaxChan = 2
    Revocable = FALSE
    MaxDelay = 2
    Unloads = FALSE
PROPERTIES
    SupportedNodesShown
CHECK_DEADLOCK FALSE
