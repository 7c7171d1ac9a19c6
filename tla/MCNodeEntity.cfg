\* Clock reads that never fall on a deadline: Step is even, Stale odd.
SPECIFICATION FairSpec
CONSTANTS
    Stale = 3
    Step = 2
    MaxTime = 10
INVARIANTS
    TypeOK
    Honest
    SilenceIsTimed
    NoStrayTimer
PROPERTIES
    SilenceShows
CHECK_DEADLOCK FALSE
