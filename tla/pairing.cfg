CONSTANTS
    Clients = {c1}
    Addrs = {a1}
    Handlers = {h1, h2}
    Kinds = {"connect", "status"}
    PinTries = {TRUE, FALSE}
    LeaseTimeout = 3
    PinTtl = 2
    BlockDuration = 2
    MaxFailures = 2
    DirectTarget = a1
    NoAddr = NoAddr
    NoDevice = NoDevice
    Expirer = Expirer
    Media = Media
    NoOwner = NoOwner
    NoRequest = NoRequest
    MaxTime = 3
    MaxRequests = 4
    MaxMediaStarts = 1
SPECIFICATION Spec
PROPERTIES BlockRunsItsCourse
SYMMETRY HandlerSymmetry
CHECK_DEADLOCK FALSE
