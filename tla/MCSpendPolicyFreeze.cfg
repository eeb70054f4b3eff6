CONSTANTS
    Requests = {3, 4}
    Allowlisted = {}
    Denylisted = {}
    Amount <- MCAmount
    TierMax <- MCTierMax
    Approval <- MCApproval
    DailyMax = 7
    MaxFee = 1
    KeepResolved = 1
    MaxRestarts = 0
SPECIFICATION Spec
CHECK_DEADLOCK FALSE
PROPERTIES FreezeStopsSends
