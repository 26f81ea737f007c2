CONSTANTS
    Clients = {c1, c2}
    Addrs = {a1, a2}
    Handlers = {h1, h2}
    Kinds = {"connect", "heartbeat", "disconnect"}
    PinTries = {TRUE}
    LeaseTimeout = 2
    PinTtl = 9
    BlockDuration = 1
    MaxFailures = 1
    DirectTarget = NoAddr
    NoAddr = NoAddr
    NoDevice = NoDevice
    Expirer = Expirer
    Media = Media
    NoOwner = NoOwner
    NoRequest = NoRequest
    MaxTime = 4
    MaxRequests = 3
    MaxMediaStarts = 1
SPECIFICATION Spec
INVARIANTS TypeOK RoutedToDevice ResumeBeforePin
PROPERTIES ImplementsLease
SYMMETRY Symmetry
CHECK_DEADLOCK FALSE
