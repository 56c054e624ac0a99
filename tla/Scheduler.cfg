\* The database, the network and the process may fail at any point.
SPECIFICATION Spec
CONSTANTS
    draft = draft
    cold = cold
    p1 = p1
    Hot = Hot
    NoCache = NoCache
    Url = {draft, cold}
    Paper = {p1}
    DraftsOf <- MCDraftsOf
    ListFor <- MCListFor
    SliceOf <- MCSliceOf
    Divisor = 2
    MaxDrops = 2
    NetworkFails = TRUE
    DatabaseFails = TRUE
    Restarts = "any_time"
INVARIANTS
    TypeOK
    AlertedOnce
    TransitionsComplete
    NoPaperLost
PROPERTY SeededPapersSilent
