CONSTANTS
    Requests = {2, 3}
    Allowlisted = {}
    Denylisted = {}
    Amount <- MCAmount
    TierMax <- MCTierMax
    Approval <- MCApproval
    DailyMax = 5
    MaxFee = 0
    KeepResolved = 1
    MaxRestarts = 1
SPECIFICATION FairSpec
CHECK_DEADLOCK FALSE
INVARIANTS PaidOnce
PROPERTIES RequestsSettle
VIEW ViewNoLimits
