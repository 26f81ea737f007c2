CONSTANTS
    Clients = {c1}
    Addrs = {a1, a2}
    Handlers = {h1, h2}
    Kinds = {"connect", "heartbeat", "disconnect"}
    PinTries = {TRUE}
    LeaseTimeout = 1
    PinTtl = 9
    BlockDuration = 1
    MaxFailures = 1
    DirectTarget = a2
    NoAddr = NoAddr
    NoDevice = NoDevice
    Expirer = Expirer
    Media = Media
    NoOwner = NoOwner
    NoRequest = NoRequest
    MaxTime = 1
    MaxRequests = 2
    MaxMediaStarts = 2
    MaxGeneration = MaxGeneration
SPECIFICATION FairSenderSpec
INVARIANTS CacheCoherent
PROPERTIES SenderFollowsTarget AbandonedLeaseEnds
