SPECIFICATION SceneSpec

CONSTANTS
    Sends = {s1, s2}
    Deposits = {d1}
    Providers = {p1}
    Refreshes = {r1}
    NoSend = NoSend
    MinConfirmations = 1
    MaxRestarts = 1
    Coins = {k1, k2, k3}
    Worths = {1, 9, 16, 17, 18, 26, 28, 45, 46, 57, 68}
    Amounts = {9, 10, 11}
    Rates = {0, 1, 6}
    FallbackRate = 2
    MaxFee = 50
    Dust = 10
    InputSize = 3
    OutputSize = 2
    Overhead = 1
    Cycles = {y1, y2}
    Window = 1
    MaxSeen = 3
    Behind = 1
    MaxArrivals = 5
    Own = {3}
    MaxReloads = 1

SYMMETRY Symmetry

INVARIANTS
    ConflictsHaveCause
    InputsMinted
    LocksAreOwned
    FundedExactly
    ChoosesWell
    AnnouncedOnce
    OneLoop

PROPERTIES
    LocksFreedForCause

CHECK_DEADLOCK FALSE
