--------------------------- MODULE TransactionLedger ---------------------------
(***************************************************************************)
(* What the gateway promises about transactions and balances (spec        *)
(* sections 3 and 8), without queues, workers or the bank: a transaction  *)
(* is created PENDING, a withdrawal only when the balance covers it; it   *)
(* becomes PROCESSING and then SUCCESS, FAILED or PENDING_REVIEW, and     *)
(* keeps that status.  The balance of its account changes once, by its    *)
(* signed amount, in the step that makes it SUCCESS, and only when the    *)
(* balance stays covered.  Spec section 3 keeps PENDING_REVIEW for         *)
(* withdrawals; the code does not (ReviewOnlyWithdrawals), so Review here  *)
(* takes any transaction.                                                  *)
(***************************************************************************)
EXTENDS Integers

CONSTANTS Tx, Accounts, TxType, TxAccount, TxAmount, InitBalance

VARIABLES
    status,   \* [Tx -> ...]: the transaction's status, NONE before creation
    balance   \* [Accounts -> Int]

Signed(t) == IF TxType[t] = "DEPOSIT" THEN TxAmount[t] ELSE -TxAmount[t]

(* The account covers t: a deposit always, a withdrawal up to the balance. *)
Covered(t) == TxType[t] = "DEPOSIT" \/ balance[TxAccount[t]] >= TxAmount[t]

Init ==
    /\ status = [t \in Tx |-> "NONE"]
    /\ balance = InitBalance

(* t moves from status s to u, the balance untouched.                     *)
Move(t, s, u) ==
    /\ status[t] = s
    /\ status' = [status EXCEPT ![t] = u]
    /\ UNCHANGED balance

Create(t) ==
    /\ TxType[t] = "WITHDRAWAL" => balance[TxAccount[t]] >= TxAmount[t]
    /\ Move(t, "NONE", "PENDING")

Start(t) == Move(t, "PENDING", "PROCESSING")

Complete(t) ==
    /\ status[t] = "PROCESSING"
    /\ Covered(t)
    /\ status' = [status EXCEPT ![t] = "SUCCESS"]
    /\ balance' = [balance EXCEPT ![TxAccount[t]] = @ + Signed(t)]

Fail(t) == Move(t, "PROCESSING", "FAILED")

Review(t) == Move(t, "PROCESSING", "PENDING_REVIEW")

Next ==
    \E t \in Tx : Create(t) \/ Start(t) \/ Complete(t) \/ Fail(t) \/ Review(t)

Spec == Init /\ [][Next]_<<status, balance>>

=============================================================================
