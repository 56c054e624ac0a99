\* Two producers and room for one message: every put can find the queue full.
SPECIFICATION Spec
CONSTANTS
    m1 = m1
    m2 = m2
    m3 = m3
    m4 = m4
    general = general
    user = user
    Message = {m1, m2, m3, m4}
    Channel = {general, user}
    ChannelOf <- MCChannelOf
    Producer = {p1, p2}
    MaxSize = 1
    MaxRetries = 1
    Threshold = 2
    Cooldown = 2
    Header <- MCHeader
    NoSeconds = NoSeconds
    NoMessage = NoMessage
INVARIANTS
    TypeOK
    BreakerConsistent
    EvictionMakesRoom
    NoSilentLoss
    RetriesWaitRetryAfter
    PostsSpaced
PROPERTIES
    CooldownKept
    ImplementsLossyFifo
