\* A silent node, over a restart of its gateway.
SPECIFICATION Spec
CONSTANTS
    Stale = 3
    Step = 2
    MaxTime = 6
INVARIANTS
    SilentNodesUnavailable
CHECK_DEADLOCK FALSE
