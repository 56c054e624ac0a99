\* README.md:20: the queue respects Retry-After; a 429 on the last attempt is not waited for.
SPECIFICATION Spec
CONSTANTS
    m1 = m1
    m2 = m2
    m3 = m3
    m4 = m4
    general = general
    user = user
    Message = {m1, m2, m3}
    Channel = {general, user}
    ChannelOf <- MCChannelOf
    Producer = {p1}
    MaxSize = 1
    MaxRetries = 1
    Threshold = 2
    Cooldown = 2
    Header <- MCHeader
    NoSeconds = NoSeconds
    NoMessage = NoMessage
INVARIANT RetryAfterRespected
