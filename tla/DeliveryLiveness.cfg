\* Downloads, probes and messages may fail; restarts come between polls.
SPECIFICATION FairDelivery
CONSTANTS
    draft = draft
    cold = cold
    p1 = p1
    Hot = Hot
    NoCache = NoCache
    Url = {draft}
    Paper = {p1}
    DraftsOf <- MCDraftsOf
    ListFor <- MCListFor
    SliceOf <- AllCold
    Divisor = 2
    MaxDrops = 1
    NetworkFails = TRUE
    DatabaseFails = FALSE
    Restarts = "between_polls"
    MaxRestarts = 1
INVARIANTS
    NoAlertLost
PROPERTY EveryFileSettles
