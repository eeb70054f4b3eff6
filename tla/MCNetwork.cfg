SPECIFICATION Spec

CONSTANTS
    Txs = {t1}
    Polls = {q1, q2}
    NoTx = NoTx
    Threshold = 2
    MaxFailures = 3
    MaxBackoff = 2
    MaxLag = 1
    MaxRestarts = 1
    Cycles = {y1, y2}
    Window = 2
    MaxSeen = 3
    Behind = 0
    MaxArrivals = 3
    Own = {1}
    MaxReloads = 1
    Peers = {p1, p2}
    Primary = Primary
    Fallback = Fallback
    Blockchair = Blockchair
    MaxAttempts = 3
    Sends = {s1}
    Deposits = {d1, d2}
    Providers = {a1}
    Refreshes = {r1}
    NoSend = NoSend
    MinConfirmations = 1

VIEW View
CHECK_DEADLOCK FALSE

INVARIANTS
    OneOutcome
    OutcomeIsTold

PROPERTIES
    TransactionsSettle
    DepositsAreNoticed
    EveryBroadcastEnds
    LocksEnd
    CacheConverges
