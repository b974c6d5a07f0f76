SPECIFICATION FairSpec
CONSTANTS
    None = None
    NoProfile = NoProfile
    Bad = Bad
    r1 = r1
    r2 = r2
    Requests = {r1, r2}
    PrefixLen = 6
    Bins = {"b1", "b2"}
    Cards = {"visa"}
    CardProfiles <- MCProfiles
    Workloads <- MCWorkloads
    Bin <- MCBin
    Network <- MCNetwork
    Declined = {"fraud"}
    Vault <- MCVault
    MaxRisk <- MCMaxRisk
    EgressStan <- MCEgress
    ProbeStans = {"e2"}
    ZonePin = "zone"
    Limit = 50000
INVARIANTS
    MisreadCause
    BankSeesRequest
    ReplyFindsEntry
    AnswerReadable
    ReversalMatchesRequest
    CoveredBlocked
    DeductionsExact
PROPERTY
    CacheConverges
CHECK_DEADLOCK FALSE
