CONSTANTS
    Phones = {p1, p2}
    NoTarget = NoTarget
    Modes = {"auto", "system", "tone"}
    SeqNumbers = 4
    CachePackets = 2
    MaxRetransmits = 1
    InitialDelay = 2
    MaxDelay = 3
    MaxDrop = 1
    MaxPosition = 5
    MaxRequests = 0
    MaxFailures = 3
SPECIFICATION FairMediaSpec
PROPERTIES StreamsAgain ToneStops
