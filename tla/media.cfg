CONSTANTS
    Phones = {p1, p2}
    NoTarget = NoTarget
    Modes = {"auto", "system", "tone"}
    SeqNumbers = 4
    CachePackets = 2
    MaxRetransmits = 2
    InitialDelay = 2
    MaxDelay = 3
    MaxDrop = 1
    MaxPosition = 5
    MaxRequests = 2
    MaxFailures = 2
SPECIFICATION MediaSpec
INVARIANTS MediaTypeOK OneWorker ResendsWhatWasAsked RecentIsCached OneLateRound
    LabelNamesSource
SYMMETRY PhoneSymmetry
