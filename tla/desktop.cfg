SPECIFICATION FairDesktopSpec
CONSTANTS
    Pids = {p1}
    NoPid = nopid
    LastPort = 2
    Addresses = {}
    Score <- MCScore
    Loopback = loopback
    NoLine = noline
    HostnameLists = TRUE
    MaxEvents = 1
    Settings <- MCSettings
    MaxClicks = 1
    Sockets <- MCSockets
INVARIANTS DesktopTypeOK NoStrayService OptionsAgree BusyWhileOwed ReportsAreTrue ShownAgrees AnnouncedPortsHeld
PROPERTIES AnswersCome QuitReturns
