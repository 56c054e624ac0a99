\* The database, the network, the queue and the process may fail at any point.
SPECIFICATION DeliverySpec
CONSTANTS
    draft = draft
    cold = cold
    p1 = p1
    Hot = Hot
    NoCache = NoCache
    Url = {draft, cold}
    Paper = {p1}
    DraftsOf <- MCDraftsOf
    ListFor <- MCListFor
    SliceOf <- AllHot
    Divisor = 1
    MaxDrops = 1
    NetworkFails = TRUE
    DatabaseFails = TRUE
    Restarts = "any_time"
    MaxRestarts = 1
INVARIANTS
    Accounted
    PostedOnce
    DraftsFirst
