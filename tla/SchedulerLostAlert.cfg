\* README: a D-paper uploaded today gets an alert; a failed transaction loses it.
SPECIFICATION Spec
CONSTANTS
    draft = draft
    cold = cold
    p1 = p1
    Hot = Hot
    NoCache = NoCache
    Url = {draft, cold}
    Paper = {p1}
    DraftsOf <- MCDraftsOf
    ListFor <- MCListFor
    SliceOf <- MCSliceOf
    Divisor = 2
    MaxDrops = 1
    NetworkFails = TRUE
    DatabaseFails = TRUE
    Restarts = "between_polls"
INVARIANT NoAlertLost
