------------------------ MODULE IdempotencyMiddleware ------------------------
(***************************************************************************)
(* IdempotencyMiddleware.dispatch (api/middleware/idempotency.py) over     *)
(* IdempotencyService (core/services/idempotency_service.py), for the      *)
(* requests of one client that carry the same Idempotency-Key and body:    *)
(* POST /deposits or /withdrawals sent again after a timeout, or twice at  *)
(* once.                                                                    *)
(*                                                                         *)
(* The cache entry "idempotency:<key>" is the only shared state.  Every   *)
(* Redis command is atomic; the middleware's await points between them    *)
(* are where requests interleave.  A request's handler (call_next) is one *)
(* step: it creates the transaction row or answers an error.              *)
(***************************************************************************)
EXTENDS Integers, FiniteSets

CONSTANTS
    NumRequests,       \* requests carrying the key
    LockCanExpire,     \* whether a handler may outlive PROCESSING_LOCK_TTL (60 s)
    ErrorAfterCommit   \* whether the handler may answer 500 after committing
                       \* the row (create_transaction's send of the job fails)

ASSUME IdempotencyAssumption ==
    /\ NumRequests \in Nat \ {0}
    /\ LockCanExpire \in BOOLEAN
    /\ ErrorAfterCommit \in BOOLEAN

Requests == 1..NumRequests

(* The answer a request gets: the 202 of the transaction row that request *)
(* i created (i), the 409 of the race branch, or an error status (>= 400) *)
(* from the handler.  NoAnswer while the request is still running.        *)
NoAnswer == 0
Conflict == -1
ErrorStatus == -2
Answers == Requests \cup {NoAnswer, Conflict, ErrorStatus}

(* The value stored under the key: absent, the PROCESSING lock, or the    *)
(* COMPLETED response whose body is the answer of request resp.           *)
Entries ==
    [kind : {"absent", "processing"}, resp : {NoAnswer}]
        \cup [kind : {"completed"}, resp : Requests]
Absent == [kind |-> "absent", resp |-> NoAnswer]

PCs == {"start", "check", "exec", "save", "release", "done"}

VARIABLES
    entry,     \* the cache entry for the key
    pc,        \* [Requests -> PCs]: where each request is in dispatch
    answer,    \* [Requests -> Answers]: what each client received
    created,   \* requests whose handler committed a transaction row
    first      \* the first response saved under the key, NoAnswer if none

vars == <<entry, pc, answer, created, first>>

(***************************************************************************)
(* Plausible bugs of the code below, used by the mutation runs.           *)
(***************************************************************************)
\* AcquireLock: a plain SET instead of SET NX.
AcquireLockNoNX(r) ==
    /\ pc[r] = "start"
    /\ entry' = [kind |-> "processing", resp |-> NoAnswer]
    /\ pc' = [pc EXCEPT ![r] = "exec"]
    /\ UNCHANGED <<answer, created, first>>

\* CheckExisting: any existing entry replayed, without the COMPLETED check.
CheckExistingAnyStatus(r) ==
    /\ pc[r] = "check"
    /\ answer' = [answer EXCEPT ![r] =
                    IF entry.kind # "absent" THEN entry.resp ELSE Conflict]
    /\ pc' = [pc EXCEPT ![r] = "done"]
    /\ UNCHANGED <<entry, created, first>>

\* Handle: an error answer returned without release_lock (the else branch
\* or the except clause missing).
HandleNoRelease(r) ==
    /\ pc[r] = "exec"
    /\ \/ /\ created' = created \cup {r}
          /\ pc' = [pc EXCEPT ![r] = "save"]
          /\ UNCHANGED answer
       \/ /\ pc' = [pc EXCEPT ![r] = "done"]
          /\ answer' = [answer EXCEPT ![r] = ErrorStatus]
          /\ UNCHANGED created
    /\ UNCHANGED <<entry, first>>

-----------------------------------------------------------------------------
Init ==
    /\ entry = Absent
    /\ pc = [r \in Requests |-> "start"]
    /\ answer = [r \in Requests |-> NoAnswer]
    /\ created = {}
    /\ first = NoAnswer

(* acquire_lock: SET key PROCESSING NX EX 60.  Who wins goes on to the    *)
(* handler; who loses reads the entry.                                    *)
AcquireLock(r) ==
    /\ pc[r] = "start"
    /\ IF entry.kind = "absent"
         THEN /\ entry' = [kind |-> "processing", resp |-> NoAnswer]
              /\ pc' = [pc EXCEPT ![r] = "exec"]
         ELSE /\ pc' = [pc EXCEPT ![r] = "check"]
              /\ UNCHANGED entry
    /\ UNCHANGED <<answer, created, first>>

(* check_existing, a separate GET: a COMPLETED entry is replayed with its *)
(* cached body; anything else, including an entry that has meanwhile      *)
(* expired or been deleted, gives the 409 with Retry-After.               *)
CheckExisting(r) ==
    /\ pc[r] = "check"
    /\ answer' = [answer EXCEPT ![r] =
                    IF entry.kind = "completed" THEN entry.resp ELSE Conflict]
    /\ pc' = [pc EXCEPT ![r] = "done"]
    /\ UNCHANGED <<entry, created, first>>

(* call_next: the endpoint creates the row and answers 202, or answers an *)
(* error without a row (400 insufficient balance, 422 ...), or, when the  *)
(* job cannot be sent, answers 500 after the row has been committed.      *)
Handle(r) ==
    /\ pc[r] = "exec"
    /\ \/ /\ created' = created \cup {r}
          /\ pc' = [pc EXCEPT ![r] = "save"]
       \/ /\ pc' = [pc EXCEPT ![r] = "release"]
          /\ UNCHANGED created
       \/ /\ ErrorAfterCommit
          /\ created' = created \cup {r}
          /\ pc' = [pc EXCEPT ![r] = "release"]
    /\ UNCHANGED <<entry, answer, first>>

(* status < 400: save_response, a plain SET EX 24 h of the COMPLETED      *)
(* entry, whatever the key holds now; the client gets the 202.            *)
SaveResponse(r) ==
    /\ pc[r] = "save"
    /\ entry' = [kind |-> "completed", resp |-> r]
    /\ answer' = [answer EXCEPT ![r] = r]
    /\ first' = IF first = NoAnswer THEN r ELSE first
    /\ pc' = [pc EXCEPT ![r] = "done"]
    /\ UNCHANGED created

(* status >= 400 or an exception: release_lock, a plain DELETE of the key *)
(* whoever set it, so that the client may retry.                           *)
ReleaseLock(r) ==
    /\ pc[r] = "release"
    /\ entry' = Absent
    /\ answer' = [answer EXCEPT ![r] = ErrorStatus]
    /\ pc' = [pc EXCEPT ![r] = "done"]
    /\ UNCHANGED <<created, first>>

(* The PROCESSING entry reaches its 60 s TTL while its handler is still   *)
(* running.                                                                *)
LockExpires ==
    /\ LockCanExpire
    /\ entry.kind = "processing"
    /\ entry' = Absent
    /\ UNCHANGED <<pc, answer, created, first>>

Next ==
    \/ \E r \in Requests :
          \/ AcquireLock(r) \/ CheckExisting(r) \/ Handle(r)
          \/ SaveResponse(r) \/ ReleaseLock(r)
    \/ LockExpires

(* Requests run to their answer: each await returns.                      *)
Fairness == \A r \in Requests : WF_vars(AcquireLock(r) \/ CheckExisting(r)
                \/ Handle(r) \/ SaveResponse(r) \/ ReleaseLock(r))

Spec == Init /\ [][Next]_vars /\ Fairness

-----------------------------------------------------------------------------
(* A request has an answer exactly when it is done.                        *)
TypeOK ==
    /\ entry \in Entries
    /\ pc \in [Requests -> PCs]
    /\ answer \in [Requests -> Answers]
    /\ \A r \in Requests : (answer[r] # NoAnswer) <=> (pc[r] = "done")
    /\ created \subseteq Requests
    /\ first \in Requests \cup {NoAnswer}

(* Spec section 1 and 4.1: at most one side-effecting execution per       *)
(* client-supplied key: however the requests with the key interleave,    *)
(* at most one of them creates a transaction row.                          *)
AtMostOneExecution == Cardinality(created) <= 1

(* Spec section 8, idempotency replay law: every request answered with a  *)
(* transaction gets the transaction of the first completed request.       *)
ReplayMatchesFirst ==
    \A r \in Requests : answer[r] \in Requests => answer[r] = first

(* Spec section 4.2: the COMPLETED record is kept for the 24 h window;    *)
(* no step of the middleware removes or replaces it by a PROCESSING lock  *)
(* (release_lock is meant for the requester's own lock only).             *)
CompletedPersists ==
    [][entry.kind = "completed" => entry'.kind = "completed"]_vars

(* Spec sections 1, 4.2 and 8 as one promise: the middleware implements   *)
(* IdempotentCall, with the requests that created a transaction row as    *)
(* the executions, the first saved response as the stored one and the     *)
(* clients' answers as the replies.  Every acquire_lock, handler error    *)
(* and lock expiry is a stutter of the promise.                           *)
IdemCall == INSTANCE IdempotentCall
                WITH executed <- created, stored <- first, reply <- answer

ImplementsIdempotentCall == IdemCall!Spec

(* Spec section 4.2, steps 4 and 5: a key is never left wedged in         *)
(* PROCESSING: once the requests with it have answered, the key holds     *)
(* their response or nothing, so that a retry can proceed.               *)
KeyEventuallyFree == <>[](entry.kind # "processing")

=============================================================================
