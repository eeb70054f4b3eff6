SPECIFICATION FairInUse

CONSTANTS
    Wallets = {w1}
    NoWallet = NoWallet
    Torn = Torn
    Jobs = {j1}
    Refreshes = {r1}
    MaxRestarts = 0
    Chats = {c1}
    NoChat = NoChat
    NoFile = NoFile
    Slots = {t1}
    RoundLimit = 2
    TotalLimit = 3
    MaxCrashes = 0

PROPERTIES
    DepositIsNoticed

CHECK_DEADLOCK FALSE
