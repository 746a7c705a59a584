----------------------- MODULE MCTransactionLifecycle -----------------------
(***************************************************************************)
(* Small instances of TransactionLifecycle for TLC: one account holding   *)
(* 2, a deposit of 1 and two withdrawals of 2 (scenario 4 of the spec:    *)
(* both withdrawals pass the creation check, at most one can complete).   *)
(***************************************************************************)
EXTENDS TransactionLifecycle

CONSTANTS t1, t2, t3, acct

MC_TxType == [t \in Tx |-> IF t = t1 THEN "DEPOSIT" ELSE "WITHDRAWAL"]
MC_TxAccount == [t \in Tx |-> acct]
MC_TxAmount == [t \in Tx |-> IF t = t1 THEN 1 ELSE 2]
MC_InitBalance == [a \in Accounts |-> 2]

=============================================================================
