\* Two ticks to a second: what is read is rounded, and late by a tick or more.
SPECIFICATION Spec
CONSTANTS
    Second = 2
    MaxTime = 7
    MaxBoots = 3
    MaxReconnects = 2
INVARIANTS
    TypeOK
    UptimeNotAhead
    RestartIsItsBoot
    ConnectionIsShown
PROPERTIES
    RestartIsStable
CHECK_DEADLOCK FALSE
