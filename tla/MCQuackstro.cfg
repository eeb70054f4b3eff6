SPECIFICATION Spec

CONSTANTS
    Deposit = 12
    Payments = {1, 3, 5}
    OpenBlock = 100
    TtlBlocks = 9
    TimelockGap = 2
    CloseFee = 3
    DustThreshold = 3
    Calls = {c1, c2}
    MaxFaults = 1
    Ads = {1, 2, 3}
    OwnAds = {1}
    Categories = 2
    TxLimit = 2
    Ttl = 1
    MaxTip = 2
    Searches = {s1, s2}

SYMMETRY Symmetry
VIEW View
CHECK_DEADLOCK FALSE

INVARIANTS
    LatestUnlocksFirst
    RefundFirst
    ClosesSettle
    NonceUsedOnce
    PaidForWork
    ClaimIsFunded

PROPERTIES
    KeepsLedger
    CheapestIsPicked
