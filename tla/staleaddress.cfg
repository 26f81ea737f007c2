SPECIFICATION DiscoverySpec
CONSTANTS
    home = home
    office = office
    phone = phone
    tool = tool
    Pids = {p1, p2}
    LastPort = 2
    Addresses = {home, office}
    Score <- MCScore
    Loopback = loopback
    NoLine = noline
    HostnameLists = TRUE
    Seekers = {phone, tool}
    Targets <- MCTargets
    OneProbe = {tool}
    CommandLines <- MCCommandLines
PROPERTIES AnswersActual
CHECK_DEADLOCK FALSE
