\* Progress: no readiness query fails with an error.
SPECIFICATION ReadyFairSpec
CONSTANTS
    Sessions = {s1}
    Items = {i1, i2}
    Tokens = {t1}
    None = None
    MaxItems = 2
    MaxGeneration = 2
    MaxRetries = 1
    GatewayErrors = FALSE
PROPERTIES
    QueueDrains
