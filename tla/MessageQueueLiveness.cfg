\* Fair threads and a clock that runs.
SPECIFICATION FairSpec
CONSTANTS
    m1 = m1
    m2 = m2
    m3 = m3
    m4 = m4
    general = general
    user = user
    Message = {m1, m2, m3}
    Channel = {general, user}
    ChannelOf <- MCChannelOf
    Producer = {p1}
    MaxSize = 1
    MaxRetries = 1
    Threshold = 2
    Cooldown = 2
    Header <- MCHeader
    NoSeconds = NoSeconds
    NoMessage = NoMessage
PROPERTY EveryMessageSettles
