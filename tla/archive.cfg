SPECIFICATION ArchiveSpec
CONSTANTS
    Content = {c1, c2}
    Worker = {w1, w2}
    Nothing = Nothing
    Limit = 2
    MaxJobs = 2
    MaxTranscripts = 2
    MaxFaults = 1
    MaxOrders = 2
SYMMETRY Symmetry
INVARIANTS ArchiveTypeOK PendingHasSource SourcesAreNeeded
CHECK_DEADLOCK FALSE
