SPECIFICATION Spec
CONSTANTS
    None = None
    watch = watch
    home = home
    own = own
    Url = {watch, home, own}
    Base = {b1, b2}
    DefaultBase = b1
    Verdict <- MCVerdict
    Youtube = {watch}
    FlowId = {f1, f2}
    MaxStarts = 3
    MaxFaults = 1
    MaxSaves = 1
SYMMETRY Handlers
INVARIANTS
    TypeOK
    NoBlindSubmit
    BadgeIsTended
PROPERTIES
    NoticeNotReplaced
    OfferLostOnlyToRace
CHECK_DEADLOCK FALSE
