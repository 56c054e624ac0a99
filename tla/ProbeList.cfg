\* Gaps, an outlier, one watched number; cycles fail and the process restarts.
SPECIFICATION Spec
CONSTANTS
    MaxNum = 4
    MaxRev = 1
    Watchable = {1}
    Discoverable = {4}
    GapThreshold = 1
    Below = 2
    Above = 0
    Explicit = {}
    Divisor = 3
    HotDepth = 2
    ColdDepth = 1
    GapMaxRev = 1
    ProbePrefixes = {"D", "P"}
INVARIANTS
    TypeOK
    SweepComplete
    NoUrlTwice
    NothingPublishedProbed
PROPERTIES
    FrontierSteady
