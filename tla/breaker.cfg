SPECIFICATION FairSpec
CONSTANTS
    primary = primary
    fallback = fallback
    Provider = {primary, fallback}
    Caller = {c1, c2, c3}
    Chain <- MCChain
    Threshold = 2
    Unclassified = {primary}
INVARIANTS
    TypeOK
    TrialExclusive
    ClosedIsHealthy
    TrialHasOwner
PROPERTIES
    FirstLeftIsProbed
