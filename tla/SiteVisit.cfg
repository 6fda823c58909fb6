\* Failing requests, retries, two wallets and renewed mounts.
CONSTANTS
    MaxRequests = 6
    Unreliable = TRUE
    None = None
    Wallets = {"w1", "w2"}
    MaxMounts = 2
    MaxFetches = 2
SPECIFICATION FairSpec
INVARIANT SiteInv
PROPERTY KeepsPromise GateSettles OpenUntilRemount
CHECK_DEADLOCK FALSE
