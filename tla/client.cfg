SPECIFICATION ClientSpec
CONSTANTS
    Parts = {"core", "transcript", "job", "palette", "sheet", "config", "prompt", "users", "session", "history", "desk", "phone", "markdown", "library", "capture"}
    Transcript = {t1, t2}
    NoTranscript = none
    MaxVersion = 1
    MaxFetchFaults = 1
    Job = {j1, j2}
    NoJob = none
    Platform = {"desktop", "mobile"}
    Video = {v1, v2}
    Upload = {upload}
    NoVideo = none
    MaxRecents = 2
    MaxAccepted = 3
    MaxInFlight = 2
    MaxClosers = 2
    Key = {k1, k2}
    Value = {0, 1}
    Default = 0
    Unset = unset
    Version = {p1, p2}
    Account = {u1}
    MaxCalls = 2
    MaxJobs = 2
    PageSize = 1
    MaxLoads = 2
    Document = {d1, d2}
    Nowhere = none
    MaxPending = 2
    MaxFlashes = 2
    MaxLines = 3
    Tag = {a, b}
    NoTag = none
    TopTags = 1
    MaxVisits = 2
    Capture = {c1, c2}
    Sizes = {3, 4}
    Chunk = 2
    MaxDeaths = 1
INVARIANTS
    ClientTypeOK
    UploadIsWhole
    HiddenIsQuiet
    ShownIsRoutes
    SubmitIsSound
    SettingsAreStored
    ReaderIsServed
PROPERTIES
    ClientCatchesUp
CHECK_DEADLOCK FALSE
