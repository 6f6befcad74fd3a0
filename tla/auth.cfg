SPECIFICATION Spec
CONSTANTS
    Redirect = {r1}
    MaxAttempts = 2
    MaxFaults = 1
INVARIANTS
    TypeOK
    SignedInIsSession
PROPERTIES
    SignInSettles
CHECK_DEADLOCK FALSE
