SPECIFICATION Spec
CONSTANTS
    None = None
    v1 = v1
    p1 = p1
    Video = {v1}
    Pending = {}
    Resolve <- MCResolve
    Worker = {w1, w2}
    Request = {r1, r2}
    Text = {s1, s2}
    SummarizeFlag = {TRUE}
    Webhook = {"on"}
    MaxJobs = 1
    MaxTranscripts = 3
    MaxRestarts = 0
    MaxCancels = 0
    MaxDeletes = 0
    MaxFaults = 0
SYMMETRY Interchangeable
PROPERTIES
    DoneIsFinal
CHECK_DEADLOCK FALSE
