SPECIFICATION FairSpec
CONSTANTS
    Jobs = {j1, j2}
    NoJob = nojob
    MaxCommands = 2
    MaxFailures = 3
INVARIANTS PhoneTypeOK OneJob
PROPERTIES LateDisconnectHarmless DisconnectLasts StreamReturns
CHECK_DEADLOCK FALSE
