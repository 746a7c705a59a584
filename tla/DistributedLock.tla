--------------------------- MODULE DistributedLock ---------------------------
(***************************************************************************)
(* DistributedLock and SyncDistributedLock                                *)
(* (infrastructure/cache/distributed_lock.py) on one key "lock:<key>",    *)
(* used the way complete_deposit / complete_withdrawal use it: enter,     *)
(* give up with ConcurrentUpdateError when not acquired, run the critical *)
(* section, release on exit.  Each client is one lock instance with its   *)
(* own uuid4 owner token.  Each Redis command, the Lua scripts included,  *)
(* is atomic.  Time is abstracted: the lease's TTL runs out at a          *)
(* nondeterministic moment (Expire), which may fall inside a holder's     *)
(* critical section.                                                       *)
(***************************************************************************)
EXTENDS Naturals

CONSTANTS
    Clients,    \* lock instances contending for the key (model values)
    Blocking,   \* the instances created with blocking = True
    NoHolder    \* the key is absent

ASSUME LockAssumption ==
    /\ Blocking \subseteq Clients
    /\ NoHolder \notin Clients

PC == {"idle", "waiting", "critical", "crashed", "done"}

VARIABLES
    holder,     \* the owner token stored under the key, or NoHolder
    hasTTL,     \* the stored key carries an expiry
    pc,         \* [Clients -> PC]
    acquired,   \* [Clients -> BOOLEAN]: self.acquired
    lapsed      \* [Clients -> BOOLEAN]: the client's lease expired while it
                \* was in its critical section (history)

vars == <<holder, hasTTL, pc, acquired, lapsed>>

(* The client takes the free key: SET key token NX EX ttl.                *)
Take(c) ==
    /\ holder = NoHolder
    /\ holder' = c
    /\ hasTTL' = TRUE
    /\ acquired' = [acquired EXCEPT ![c] = TRUE]
    /\ pc' = [pc EXCEPT ![c] = "critical"]

(***************************************************************************)
(* Plausible bugs of the code below, used by the mutation runs.           *)
(***************************************************************************)
\* SET without NX: the key is overwritten whoever holds it.
AcquireNoNX(c) ==
    /\ pc[c] = "idle"
    /\ holder' = c
    /\ hasTTL' = TRUE
    /\ acquired' = [acquired EXCEPT ![c] = TRUE]
    /\ pc' = [pc EXCEPT ![c] = "critical"]
    /\ UNCHANGED lapsed

\* release as a plain DEL, without the owner check of the Lua script.
ReleaseUnfenced(c) ==
    /\ pc[c] = "critical"
    /\ holder' = NoHolder
    /\ acquired' = [acquired EXCEPT ![c] = FALSE]
    /\ pc' = [pc EXCEPT ![c] = "done"]
    /\ UNCHANGED <<hasTTL, lapsed>>

\* release leaving self.acquired set when the Lua script deleted nothing.
ReleaseKeepsFlag(c) ==
    /\ pc[c] = "critical"
    /\ IF holder = c
         THEN /\ holder' = NoHolder
              /\ acquired' = [acquired EXCEPT ![c] = FALSE]
         ELSE UNCHANGED <<holder, acquired>>
    /\ pc' = [pc EXCEPT ![c] = "done"]
    /\ UNCHANGED <<hasTTL, lapsed>>

-----------------------------------------------------------------------------
Init ==
    /\ holder = NoHolder
    /\ hasTTL = FALSE
    /\ pc = [c \in Clients |-> "idle"]
    /\ acquired = [c \in Clients |-> FALSE]
    /\ lapsed = [c \in Clients |-> FALSE]

(* acquire(): one SET NX EX.  A non-blocking instance that fails gives up *)
(* (the caller raises ConcurrentUpdateError; release() is skipped since   *)
(* acquired is False); a blocking one goes on polling.                    *)
Acquire(c) ==
    /\ pc[c] = "idle"
    /\ \/ Take(c)
       \/ /\ holder # NoHolder
          /\ pc' = [pc EXCEPT ![c] = IF c \in Blocking THEN "waiting" ELSE "done"]
          /\ UNCHANGED <<holder, hasTTL, acquired>>
    /\ UNCHANGED lapsed

(* _acquire_with_retry: a later poll finds the key free.                 *)
Retry(c) ==
    /\ pc[c] = "waiting"
    /\ Take(c)
    /\ UNCHANGED lapsed

(* _acquire_with_retry: retry_timeout elapses; LockAcquisitionError.     *)
GiveUp(c) ==
    /\ pc[c] = "waiting"
    /\ pc' = [pc EXCEPT ![c] = "done"]
    /\ UNCHANGED <<holder, hasTTL, acquired, lapsed>>

(* The Lua script of release(): DEL the key only if GET returns this     *)
(* instance's token.                                                       *)
CompareAndDelete(c) == IF holder = c THEN NoHolder ELSE holder

(* release(): the compare-and-delete script; acquired is cleared either  *)
(* way.                                                                    *)
Release(c) ==
    /\ pc[c] = "critical"
    /\ holder' = CompareAndDelete(c)
    /\ acquired' = [acquired EXCEPT ![c] = FALSE]
    /\ pc' = [pc EXCEPT ![c] = "done"]
    /\ UNCHANGED <<hasTTL, lapsed>>

(* SyncDistributedLock.acquire (the non-blocking lock of complete_deposit *)
(* and complete_withdrawal): the SET NX EX is applied but its reply is    *)
(* lost; the except branch sets acquired = False and returns False, the   *)
(* caller raises ConcurrentUpdateError and release() is skipped, so the   *)
(* key is left behind with this instance's token until its TTL.          *)
AcquireReplyLost(c) ==
    /\ pc[c] = "idle"
    /\ c \notin Blocking
    /\ holder = NoHolder
    /\ holder' = c
    /\ hasTTL' = TRUE
    /\ pc' = [pc EXCEPT ![c] = "done"]
    /\ UNCHANGED <<acquired, lapsed>>

(* The worker holding the lock dies inside its critical section; the key  *)
(* stays until its TTL.                                                   *)
Crash(c) ==
    /\ pc[c] = "critical"
    /\ pc' = [pc EXCEPT ![c] = "crashed"]
    /\ UNCHANGED <<holder, hasTTL, acquired, lapsed>>

(* The key's TTL (min(ttl, 30) seconds) runs out.                         *)
Expire ==
    /\ holder # NoHolder
    /\ hasTTL
    /\ holder' = NoHolder
    /\ lapsed' = [lapsed EXCEPT ![holder] = pc[holder] = "critical"]
    /\ UNCHANGED <<hasTTL, pc, acquired>>

Next ==
    \/ \E c \in Clients :
          \/ Acquire(c) \/ AcquireReplyLost(c) \/ Retry(c) \/ GiveUp(c)
          \/ Release(c) \/ Crash(c)
    \/ Expire

(* Redis expires keys, callers leave their critical sections, pollers    *)
(* keep polling and time out.                                             *)
Fairness ==
    /\ WF_vars(Expire)
    /\ \A c \in Clients : WF_vars(Release(c)) /\ WF_vars(Retry(c))
                         /\ WF_vars(GiveUp(c))

Spec == Init /\ [][Next]_vars /\ Fairness

-----------------------------------------------------------------------------
(* A finished instance no longer believes it holds the lock.             *)
TypeOK ==
    /\ holder \in Clients \cup {NoHolder}
    /\ hasTTL \in BOOLEAN
    /\ pc \in [Clients -> PC]
    /\ acquired \in [Clients -> BOOLEAN]
    /\ lapsed \in [Clients -> BOOLEAN]
    /\ \A c \in Clients : pc[c] = "done" => ~acquired[c]

(* A client is inside its lease when it runs its critical section and its *)
(* lease has not expired under it.                                        *)
InLease(c) == pc[c] = "critical" /\ ~lapsed[c]

(* Spec sections 4.1 and 8 (lock fencing): mutual exclusion within the   *)
(* lease: two clients are never both in their critical sections with      *)
(* unexpired leases, also when a lagging holder whose lease expired       *)
(* releases after a successor took the key.                               *)
MutualExclusion ==
    \A a, b \in Clients : a # b => ~(InLease(a) /\ InLease(b))

=============================================================================
