\* Faults on: one worker crash, one bank callback, the webhook job may fail
\* to send, and the create-time apply_async may fail after the row's commit.
\* What still holds when the code meets them.
CONSTANTS
    t1 = t1
    t2 = t2
    t3 = t3
    acct = acct
    Tx = {t1, t2}
    Accounts = {acct}
    Workers = {w1, w2}
    TxType <- MC_TxType
    TxAccount <- MC_TxAccount
    TxAmount <- MC_TxAmount
    InitBalance <- MC_InitBalance
    MaxRetries = 1
    MaxCrashes = 1
    MaxCallbacks = 1
    NotifyCanFail = TRUE
    EnqueueCanFail = TRUE
SPECIFICATION Spec
INVARIANT BalanceNonNegative
PROPERTIES ProcessingResolves
CHECK_DEADLOCK FALSE
