---------------------------- MODULE IdempotentCall ----------------------------
(***************************************************************************)
(* What an Idempotency-Key promises its client (spec sections 1, 4.2 and *)
(* 8): of the requests that carry the key, at most one executes the       *)
(* operation; the response of that execution is stored, and every other  *)
(* request either gets the stored response or is turned away without an   *)
(* execution (409 while the first is in flight, or an error status).  The *)
(* request that executed gets its own response.                           *)
(***************************************************************************)
EXTENDS Integers

CONSTANT NumRequests

Requests == 1..NumRequests

(* The replies: the stored response of request i (i), a conflict, an     *)
(* error, or none yet.                                                    *)
NoAnswer == 0
Conflict == -1
ErrorStatus == -2

VARIABLES
    executed,  \* the requests that executed the operation
    stored,    \* the stored response, NoAnswer if none
    reply      \* [Requests -> ...]: what each request was answered

Init ==
    /\ executed = {}
    /\ stored = NoAnswer
    /\ reply = [r \in Requests |-> NoAnswer]

(* A pending request executes the operation, if none has.                 *)
Execute(r) ==
    /\ executed = {}
    /\ reply[r] = NoAnswer
    /\ executed' = {r}
    /\ UNCHANGED <<stored, reply>>

(* The request that executed stores its response and gets it.             *)
Store(r) ==
    /\ r \in executed
    /\ stored = NoAnswer
    /\ reply[r] = NoAnswer
    /\ stored' = r
    /\ reply' = [reply EXCEPT ![r] = r]
    /\ UNCHANGED executed

(* A pending request is answered with the stored response.                *)
Replay(r) ==
    /\ stored # NoAnswer
    /\ reply[r] = NoAnswer
    /\ reply' = [reply EXCEPT ![r] = stored]
    /\ UNCHANGED <<executed, stored>>

(* A pending request that did not execute is turned away.                 *)
Reject(r) ==
    /\ r \notin executed
    /\ reply[r] = NoAnswer
    /\ \E a \in {Conflict, ErrorStatus} : reply' = [reply EXCEPT ![r] = a]
    /\ UNCHANGED <<executed, stored>>

Next == \E r \in Requests : Execute(r) \/ Store(r) \/ Replay(r) \/ Reject(r)

Spec == Init /\ [][Next]_<<executed, stored, reply>>

=============================================================================
