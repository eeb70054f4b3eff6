SPECIFICATION SceneSpec

CONSTANTS
    Sends = {s1, s2}
    Deposits = {d1, d2}
    Providers = {p1}
    Refreshes = {r1}
    NoSend = NoSend
    MinConfirmations = 1
    MaxRestarts = 0
    Coins = {k1}
    Worths = {1}
    Amounts = {10}
    Rates = {1}
    FallbackRate = 2
    MaxFee = 50
    Dust = 10
    InputSize = 3
    OutputSize = 2
    Overhead = 1
    Cycles = {y1}
    Window = 1
    MaxSeen = 1
    Behind = 0
    MaxArrivals = 1
    Own = {1}
    MaxReloads = 0

INVARIANTS
    SelectAndLockIsAtomic

CHECK_DEADLOCK FALSE
