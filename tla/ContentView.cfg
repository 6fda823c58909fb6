\* Failing requests, retries, two wallets and renewed mounts.
CONSTANTS
    MaxRequests = 5
    Unreliable = TRUE
    None = None
    Wallets = {"w1", "w2"}
    MaxMounts = 2
    MaxFetches = 2
SPECIFICATION Spec
INVARIANT ViewInv BytesOnlyWhileOpen
PROPERTY KeepsPromise
CHECK_DEADLOCK FALSE
