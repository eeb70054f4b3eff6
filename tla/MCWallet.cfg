SPECIFICATION Spec

CONSTANTS
    Wallets = {w1, w2}
    NoWallet = NoWallet
    Torn = Torn
    Jobs = {j1}
    Refreshes = {r1}
    MaxRestarts = 1
    Chats = {c1}
    NoChat = NoChat
    NoFile = NoFile
    Slots = {t1, t2}
    RoundLimit = 2
    TotalLimit = 3
    MaxCrashes = 1

SYMMETRY Symmetry
VIEW View
CONSTRAINT OneTrouble

INVARIANTS
    WalletTypeOK
    KeysAgree
    AllOfOneWallet
    ChangeComesBack
    
    GuessesAreBounded
    
    

CHECK_DEADLOCK FALSE
