CONSTANTS
    i1 = i1
    i2 = i2
    Invoices = {i1, i2}
    Calls = {v1, v2}
    Txs = {t1}
    None = None
    Amount <- MCAmount
    PaysUs = {t1}
    Received <- MCReceived
    Confirmable = {t1}
    Tolerance = 1
    WithCallback = {i1}
    Retries = 0
    MaxStored = 1
    EvictCount = 1
    MaxRestarts = 1
SPECIFICATION Spec
CHECK_DEADLOCK FALSE
INVARIANTS CallbackMeansPaid
