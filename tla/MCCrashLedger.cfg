\* One worker crash between two commits; the job is redelivered.
CONSTANTS
    t1 = t1
    t2 = t2
    t3 = t3
    acct = acct
    Tx = {t1, t2, t3}
    Accounts = {acct}
    Workers = {w1, w2}
    TxType <- MC_TxType
    TxAccount <- MC_TxAccount
    TxAmount <- MC_TxAmount
    InitBalance <- MC_InitBalance
    MaxRetries = 3
    MaxCrashes = 1
    MaxCallbacks = 0
    NotifyCanFail = FALSE
    EnqueueCanFail = FALSE
SPECIFICATION Spec
INVARIANT LedgerConsistent
CHECK_DEADLOCK FALSE
