CONSTANTS
    Routes = {"home", "a"}
    Home = "home"
    MaxTabs = 2
    MaxHistory = 3
    MaxTick = 1
    MaxEntries = 2
    MaxQueue = 2
    Accounts = {a1, a2}
    NoWallet = NoWallet
    MaxTransfers = 2
    MaxRefreshes = 2
    Creators = {1, 2}
    Pages <- SomePages
    Runs = {r1, r2}
    None = None
    MaxTime = 1
    CreatorLimit = 2
    FeedMax = 1
    CacheMax = 1
SPECIFICATION ShellSpec
SYMMETRY Symmetry
INVARIANT TabsInv LocationShowsActive BalanceInv ShownIsNewest FeedInv LoadingIsUnderWay
PROPERTY OfflineIsFollowed
CHECK_DEADLOCK FALSE
