SPECIFICATION Spec
CONSTANTS
    None = None
    v1 = v1
    p1 = p1
    Video = {v1}
    Pending = {p1}
    Resolve <- MCResolve
    Worker = {w1, w2}
    Request = {r1, r2}
    Text = {s1, s2}
    SummarizeFlag = {TRUE, FALSE}
    Webhook = {"on"}
    MaxJobs = 2
    MaxTranscripts = 3
    MaxRestarts = 1
    MaxCancels = 1
    MaxDeletes = 1
    MaxFaults = 0
SYMMETRY Interchangeable
INVARIANTS
    TypeOK
    ClaimExclusive
    MidStageHasWorker
    DoneMeansSummarized
    OwnerHasSameVideo
PROPERTIES
    SummaryKept
    QueueSafety
CHECK_DEADLOCK FALSE
