------------------------ MODULE DistributedLockProofs ------------------------
(***************************************************************************)
(* Proofs about DistributedLock for any set of lock instances: the state  *)
(* stays well typed, and no two instances are ever both inside their      *)
(* critical sections with unexpired leases, whatever the order of         *)
(* acquisitions, lost replies, expiries, crashes and owner-checked      *)
(* releases.                                                                 *)
(***************************************************************************)
EXTENDS DistributedLock, TLAPS

USE LockAssumption

(* A client inside its lease is the one whose token the key holds.        *)
LeaseHeld == \A c \in Clients : InLease(c) => holder = c

(* A client that has not taken the key yet neither believes it holds it  *)
(* nor has seen its lease expire.                                         *)
FreshBeforeTake ==
    \A c \in Clients : pc[c] \in {"idle", "waiting"} => ~acquired[c] /\ ~lapsed[c]

(* The inductive invariant.  TypeOK alone is not inductive: GiveUp and a *)
(* refused Acquire end a client without touching acquired, which is why  *)
(* FreshBeforeTake is needed; LeaseHeld is what makes MutualExclusion    *)
(* follow.                                                                 *)
IInv == TypeOK /\ LeaseHeld /\ FreshBeforeTake

LEMMA InitIInv == Init => IInv
BY DEF Init, IInv, TypeOK, LeaseHeld, FreshBeforeTake, InLease, PC

(* Taking the free key keeps the invariant: nobody was inside a lease.    *)
LEMMA TakeIInv ==
    ASSUME IInv, NEW c \in Clients, pc[c] \in {"idle", "waiting"}, Take(c),
           UNCHANGED lapsed
    PROVE  IInv'
<1>1. \A d \in Clients : ~InLease(d)
  BY DEF Take, IInv, LeaseHeld
<1>2. TypeOK'
  BY DEF Take, IInv, TypeOK, PC
<1>3. LeaseHeld'
  BY <1>1 DEF Take, LeaseHeld, InLease
<1>4. FreshBeforeTake'
  BY DEF Take, IInv, TypeOK, FreshBeforeTake
<1> QED BY <1>2, <1>3, <1>4 DEF IInv

LEMMA NextIInv == IInv /\ [Next]_vars => IInv'
<1> SUFFICES ASSUME IInv, [Next]_vars PROVE IInv'
  OBVIOUS
<1>1. ASSUME NEW c \in Clients, Acquire(c) PROVE IInv'
  <2>1. CASE Take(c)
    BY <1>1, <2>1, TakeIInv DEF Acquire
  <2>2. CASE /\ holder # NoHolder
             /\ pc' = [pc EXCEPT ![c] = IF c \in Blocking THEN "waiting" ELSE "done"]
             /\ UNCHANGED <<holder, hasTTL, acquired>>
    <3>1. TypeOK'
      BY <1>1, <2>2 DEF Acquire, IInv, TypeOK, FreshBeforeTake, PC
    <3>2. LeaseHeld'
      BY <1>1, <2>2 DEF Acquire, IInv, LeaseHeld, InLease
    <3>3. FreshBeforeTake'
      BY <1>1, <2>2 DEF Acquire, IInv, FreshBeforeTake
    <3> QED BY <3>1, <3>2, <3>3 DEF IInv
  <2> QED BY <1>1, <2>1, <2>2 DEF Acquire
<1>2. ASSUME NEW c \in Clients, Retry(c) PROVE IInv'
  BY <1>2, TakeIInv DEF Retry
<1>3. ASSUME NEW c \in Clients, GiveUp(c) PROVE IInv'
  BY <1>3 DEF GiveUp, IInv, TypeOK, LeaseHeld, FreshBeforeTake, InLease, PC
<1>4. ASSUME NEW c \in Clients, Release(c) PROVE IInv'
  <2>1. TypeOK'
    BY <1>4 DEF Release, CompareAndDelete, IInv, TypeOK, PC
  <2>2. LeaseHeld'
    <3> SUFFICES ASSUME NEW d \in Clients, InLease(d)' PROVE holder' = d
      BY DEF LeaseHeld
    <3>1. CASE d = c
      BY <1>4, <3>1 DEF Release, CompareAndDelete, IInv, TypeOK, InLease
    <3>2. CASE d # c
      BY <1>4, <3>2 DEF Release, CompareAndDelete, IInv, TypeOK, LeaseHeld, InLease
    <3> QED BY <3>1, <3>2
  <2>3. FreshBeforeTake'
    BY <1>4 DEF Release, CompareAndDelete, IInv, FreshBeforeTake
  <2> QED BY <2>1, <2>2, <2>3 DEF IInv
<1>5. ASSUME NEW c \in Clients, Crash(c) PROVE IInv'
  BY <1>5 DEF Crash, IInv, TypeOK, LeaseHeld, FreshBeforeTake, InLease, PC
<1>8. ASSUME NEW c \in Clients, AcquireReplyLost(c) PROVE IInv'
  <2>1. \A d \in Clients : ~InLease(d)
    BY <1>8 DEF AcquireReplyLost, IInv, LeaseHeld
  <2>2. TypeOK'
    BY <1>8 DEF AcquireReplyLost, IInv, TypeOK, FreshBeforeTake, PC
  <2>3. LeaseHeld'
    BY <1>8, <2>1 DEF AcquireReplyLost, LeaseHeld, InLease
  <2>4. FreshBeforeTake'
    BY <1>8 DEF AcquireReplyLost, IInv, FreshBeforeTake
  <2> QED BY <2>2, <2>3, <2>4 DEF IInv
<1>6. CASE Expire
  <2>1. holder \in Clients
    BY <1>6 DEF Expire, IInv, TypeOK
  <2>2. TypeOK'
    BY <1>6, <2>1 DEF Expire, IInv, TypeOK
  <2>3. LeaseHeld'
    <3> SUFFICES ASSUME NEW d \in Clients, InLease(d)' PROVE FALSE
      BY DEF LeaseHeld
    <3>1. CASE d = holder
      BY <1>6, <3>1 DEF Expire, IInv, TypeOK, InLease
    <3>2. CASE d # holder
      BY <1>6, <3>2 DEF Expire, IInv, TypeOK, LeaseHeld, InLease
    <3> QED BY <3>1, <3>2
  <2>4. FreshBeforeTake'
    BY <1>6, <2>1 DEF Expire, IInv, TypeOK, FreshBeforeTake
  <2> QED BY <2>2, <2>3, <2>4 DEF IInv
<1>7. CASE UNCHANGED vars
  BY <1>7 DEF vars, IInv, TypeOK, LeaseHeld, FreshBeforeTake, InLease
<1> QED BY <1>1, <1>2, <1>3, <1>4, <1>5, <1>6, <1>7, <1>8 DEF Next

(* The lock's state is always well typed; in particular an instance that *)
(* has finished, by release, refusal or timeout, no longer believes it   *)
(* holds the lock.                                                         *)
THEOREM TypeCorrect == Spec => []TypeOK
BY InitIInv, NextIInv, PTL DEF Spec, IInv

(* For any number of instances, blocking or not, no two are ever inside  *)
(* their critical sections with unexpired leases: SET NX admits one      *)
(* holder, expiry marks the holder's lease as lapsed, and the owner check *)
(* of release() never frees a successor's lease.                          *)
THEOREM LeaseExclusion == Spec => []MutualExclusion
<1>1. IInv => MutualExclusion
  BY DEF IInv, LeaseHeld, MutualExclusion
<1> QED BY <1>1, InitIInv, NextIInv, PTL DEF Spec

=============================================================================
