SPECIFICATION FairSpec
CONSTANTS
    primary = primary
    fallback = fallback
    Provider = {primary, fallback}
    Caller = {c1, c2}
    Chain <- MCChain
    Threshold = 2
    Unclassified = {primary}
PROPERTIES
    SuspendedIsProbed
