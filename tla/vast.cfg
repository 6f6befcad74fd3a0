SPECIFICATION FairSpec
CONSTANTS
    Job = {j1}
    Instance = {i1, i2}
    Sweeper = {w1}
    MaxFaults = 2
    None = None
CHECK_DEADLOCK FALSE
INVARIANTS
    TypeOK
    NothingForgotten
    QueuedHoldsNone
PROPERTIES
    RentalsEnd
    SlotKept
    InUseSurvives
