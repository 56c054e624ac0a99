\* More URLs to probe than permits; anything may be raised.
SPECIFICATION FairSpec
CONSTANTS
    Url = {u1, u2, u3, u4, u5}
    Discovered = {u3}
    Indexed = {u3, u4}
    Concurrency = 2
    CanRaise = TRUE
\* A gathered cycle is over.
CHECK_DEADLOCK FALSE
INVARIANTS
    TypeOK
    PermitsConserved
    StatsAddUp
PROPERTY CycleEnds
