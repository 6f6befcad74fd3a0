SPECIFICATION ArchiveSpec
CONSTANTS
    Content = {c1, c2}
    Worker = {w1, w2}
    Nothing = Nothing
    Limit = 2
    MaxJobs = 2
    MaxTranscripts = 2
    MaxFaults = 0
    MaxOrders = 0
INVARIANT SweepsDoNotRace
CHECK_DEADLOCK FALSE
