\* Sending the webhook job may raise after the terminal status is committed.
CONSTANTS
    t1 = t1
    t2 = t2
    t3 = t3
    acct = acct
    Tx = {t1, t2, t3}
    Accounts = {acct}
    Workers = {w1, w2}
    TxType <- MC_TxType
    TxAccount <- MC_TxAccount
    TxAmount <- MC_TxAmount
    InitBalance <- MC_InitBalance
    MaxRetries = 3
    MaxCrashes = 0
    MaxCallbacks = 0
    NotifyCanFail = TRUE
    EnqueueCanFail = FALSE
SPECIFICATION Spec
INVARIANT LedgerConsistent
CHECK_DEADLOCK FALSE
