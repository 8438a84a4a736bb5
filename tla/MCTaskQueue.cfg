\* One queue, three tasks, retries, requeues, a switch that moves and a restart.
SPECIFICATION Spec
CONSTANTS
    Sessions = {s1}
    Items = {i1, i2, i3}
    Tokens = {t1}
    None = None
    MaxItems = 2
    MaxGeneration = 3
    MaxRetries = 1
    GatewayErrors = TRUE
SYMMETRY ItemSymmetry
INVARIANTS
    TypeOK
    ClaimHeld
    OneClaimPerQueue
    AtMostOncePerRequest
    RevokedNeverWritten
    StatusTellsHead
PROPERTY
    ImplementsPromise
