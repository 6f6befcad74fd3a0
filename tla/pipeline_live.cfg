SPECIFICATION FairSpec
CONSTANTS
    None = None
    v1 = v1
    p1 = p1
    Video = {v1}
    Pending = {}
    Resolve <- MCResolve
    Worker = {w1, w2}
    Request = {r1}
    Text = {s1}
    SummarizeFlag = {TRUE}
    Webhook = {"on"}
    MaxJobs = 2
    MaxTranscripts = 4
    MaxRestarts = 1
    MaxCancels = 1
    MaxDeletes = 0
    MaxFaults = 1
PROPERTIES
    EveryJobSettles
    HandedOutOnce
CHECK_DEADLOCK FALSE
