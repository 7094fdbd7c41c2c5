SPECIFICATION FairSpec
CONSTANTS
    Pids = {1}
    Spellings <- MCSpellings
    normalize_path <- MCnormalize_path
    Rates = {1, 2}
    Clients = {c1}
    Kinds = {"limit", "disable", "remove", "global", "settings"}
    MaxEntries = 2
    SweepThreshold = 1
    MaxRequests = 2
    MaxExits = 1
    MaxStops = 1
INVARIANT GlobalFollowsSetting
PROPERTY LimitReachesKernel
