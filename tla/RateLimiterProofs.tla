------------------------- MODULE RateLimiterProofs -------------------------
(***************************************************************************)
(* Proofs about RateLimiter for any processes, users, addresses, limit,   *)
(* window and bounds: the state stays well typed, and when every process *)
(* reads the server's time and no two requests read the same time, no     *)
(* key admits more than the limit in any window.                          *)
(***************************************************************************)
EXTENDS RateLimiter, FiniteSetTheorems, TLAPS

(* Every process stamps with the server's clock (MCRateSkew.cfg breaks it).*)
SyncedClocks == \A i \in Instances : Offset[i] = 0

-----------------------------------------------------------------------------
(* An admitted request's time was read by a request, and is not later    *)
(* than the server's clock.                                               *)
AdmittedStamped == \A a \in admitted : a.at \in stamps /\ a.at <= now

(* No two admitted requests share a time.                                  *)
AdmittedUnique == \A a, b \in admitted : a.at = b.at => a = b

(* An admitted request still inside the window is a member of its key's  *)
(* sorted set: neither the purge nor the key's expiry has removed it.    *)
Recorded == \A a \in admitted : a.at > now - Window => a.at \in zset[a.key]

(* The key of an admitted request expires no earlier than a window after *)
(* the request.                                                           *)
ExpiresAfterWindow ==
    \A a \in admitted : deadline[a.key] # NoDeadline => a.at + Window <= deadline[a.key]

(* The sets counted are finite.                                            *)
Finite == IsFiniteSet(admitted) /\ \A k \in Keys : IsFiniteSet(zset[k])

(* The inductive invariant.  WindowLimit alone is not inductive: that the *)
(* count ZCARD reads bounds the admitted requests in the window needs    *)
(* those requests to be distinct members of the sorted set (Recorded,    *)
(* AdmittedUnique), which in turn needs the purge and the expiry to spare *)
(* them (AdmittedStamped, ExpiresAfterWindow).                            *)
IInv == /\ TypeOK /\ AdmittedStamped /\ AdmittedUnique /\ Recorded
        /\ ExpiresAfterWindow /\ Finite /\ WindowLimit

USE RateAssumption

-----------------------------------------------------------------------------
(* Type correctness needs no hypothesis on the clocks.                     *)
LEMMA TypeInit == Init => TypeOK
BY DEF Init, TypeOK, Keys, NoDeadline

LEMMA TypeNext == TypeOK /\ [Next]_vars => TypeOK'
<1> SUFFICES ASSUME TypeOK, [Next]_vars PROVE TypeOK'
    OBVIOUS
<1>1. CASE \E i \in Instances, o \in Origins : Request(i, o)
  <2>1. PICK i \in Instances, o \in Origins : Request(i, o)
    BY <1>1
  <2> DEFINE ts == now + Offset[i]
             k == BuildKey(o[1], o[2])
             pruned == Purge(zset[k], ts)
             x == [id |-> sent, at |-> now, user |-> o[1], key |-> k]
  <2>2. k \in Keys /\ o[1] \in Users
    BY DEF Keys
  <2>3. /\ sent < MaxRequests
        /\ zset' = [zset EXCEPT ![k] = Add(pruned, ts)]
        /\ deadline' = [deadline EXCEPT ![k] = Expiry(@)]
        /\ stamps' = stamps \cup {ts}
        /\ admitted' \subseteq admitted \cup {x}
        /\ sent' = sent + 1 /\ now' = now
    BY <2>1 DEF Request
  <2>4. x \in [id : 0..MaxRequests, at : 0..MaxTime, user : Users, key : Keys]
    BY <2>2, <2>3 DEF TypeOK
  <2>5. pruned \subseteq stamps
    BY <2>2 DEF TypeOK, Purge
  <2>. QED
    BY <2>2, <2>3, <2>4, <2>5 DEF TypeOK, Add, Expiry, NoDeadline
<1>2. CASE Tick
  BY <1>2 DEF Tick, TypeOK
<1>3. CASE \E k \in Keys : KeyExpires(k)
  BY <1>3 DEF KeyExpires, TypeOK, NoDeadline
<1>4. CASE UNCHANGED vars
  BY <1>4 DEF vars, TypeOK
<1>. QED
  BY <1>1, <1>2, <1>3, <1>4 DEF Next

(* Theorem: the sorted sets only hold timestamps requests have read, the  *)
(* keys' TTLs are times or absent, and the admitted requests have the    *)
(* ids, times, users and keys that RateLimitMiddleware.dispatch gives.   *)
THEOREM TypeCorrect == Spec => []TypeOK
BY TypeInit, TypeNext, PTL DEF Spec

-----------------------------------------------------------------------------
(* Counting lemma of is_allowed's ZCARD: requests with pairwise distinct *)
(* times that are all members of a set of fewer than Limit scores are   *)
(* fewer than Limit, so one more request keeps them within Limit.       *)
LEMMA CountBound ==
  ASSUME NEW S, NEW P, IsFiniteSet(P), Cardinality(P) < Limit,
         \A a \in S : a.at \in P,
         \A a, b \in S : a.at = b.at => a = b,
         NEW x
  PROVE  /\ IsFiniteSet(S \cup {x})
         /\ Cardinality(S \cup {x}) <= Limit
<1>1. [a \in S |-> a.at] \in Injection(S, P)
  BY DEF Injection, IsInjective
<1>2. IsFiniteSet(S) /\ Cardinality(S) <= Cardinality(P)
  BY <1>1, FS_Injection
<1>3. Cardinality(S) \in Nat /\ Cardinality(P) \in Nat
  BY <1>2, FS_CardinalityType
<1>4. /\ IsFiniteSet(S \cup {x})
      /\ Cardinality(S \cup {x}) = IF x \in S THEN Cardinality(S) ELSE Cardinality(S) + 1
  BY <1>2, FS_AddElement
<1>5. Cardinality(S \cup {x}) <= Cardinality(S) + 1
  BY <1>3, <1>4
<1>. QED
  BY <1>2, <1>3, <1>4, <1>5

(* A subset of a set within the limit is within the limit.                *)
LEMMA SubsetBound ==
  ASSUME NEW S, IsFiniteSet(S), Cardinality(S) <= Limit, NEW T \in SUBSET S
  PROVE  Cardinality(T) <= Limit
<1>1. Cardinality(T) <= Cardinality(S) /\ Cardinality(T) \in Nat /\ Cardinality(S) \in Nat
  BY FS_Subset, FS_CardinalityType
<1>. QED
  BY <1>1

(* The keys' sorted sets, and the admitted requests in a window, are     *)
(* finite once the admitted requests are.                                *)
LEMMA WindowFinite ==
  ASSUME Finite, NEW t, NEW k
  PROVE  IsFiniteSet({a \in AdmittedIn(t) : a.key = k})
BY FS_Subset DEF Finite, AdmittedIn

LEMMA InitIInv == Init => IInv
<1> SUFFICES ASSUME Init PROVE IInv
    OBVIOUS
<1>1. TypeOK
  BY TypeInit
<1>2. IsFiniteSet({}) /\ Cardinality({}) = 0
  BY FS_EmptySet
<1>3. WindowLimit
  <2> SUFFICES ASSUME NEW k \in Keys, NEW t \in 0..now
               PROVE  Cardinality({a \in AdmittedIn(t) : a.key = k}) <= Limit
    BY DEF WindowLimit
  <2>1. {a \in AdmittedIn(t) : a.key = k} = {}
    BY DEF Init, AdmittedIn
  <2>. QED
    BY <1>2, <2>1
<1>. QED
  BY <1>1, <1>2, <1>3 DEF Init, IInv, AdmittedStamped, AdmittedUnique, Recorded,
                          ExpiresAfterWindow, Finite

(* One is_allowed call keeps the invariant when its process reads the    *)
(* server's clock and no earlier request read the same time.             *)
LEMMA RequestIInv ==
  ASSUME SyncedClocks, DistinctStamps, IInv,
         NEW i \in Instances, NEW o \in Origins, Request(i, o)
  PROVE  IInv'
<1> DEFINE k == BuildKey(o[1], o[2])
           pruned == Purge(zset[k], now)
           x == [id |-> sent, at |-> now, user |-> o[1], key |-> k]
<1>1. k \in Keys /\ o[1] \in Users
  BY DEF Keys
<1>2. now + Offset[i] = now
  BY DEF SyncedClocks, IInv, TypeOK
<1>3. /\ zset' = [zset EXCEPT ![k] = pruned \cup {now}]
      /\ deadline' = [deadline EXCEPT ![k] = now + Window]
      /\ stamps' = stamps \cup {now}
      /\ now \notin stamps
      /\ now' = now
      /\ \/ Cardinality(pruned) < Limit /\ admitted' = admitted \cup {x}
         \/ admitted' = admitted
  BY <1>2 DEF Request, Purge, Add, Expiry, Admits
<1>4. TypeOK'
  BY TypeNext DEF IInv, Next
<1>5. \A a \in admitted' : a \in admitted \/ a = x
  BY <1>3
<1>6. AdmittedStamped'
  <2> SUFFICES ASSUME NEW a \in admitted' PROVE a.at \in stamps' /\ a.at <= now'
    BY DEF AdmittedStamped
  <2>1. CASE a = x
    BY <1>3, <2>1 DEF IInv, TypeOK
  <2>2. CASE a \in admitted
    BY <1>3, <2>2 DEF IInv, AdmittedStamped
  <2>. QED
    BY <1>5, <2>1, <2>2
<1>7. AdmittedUnique'
  BY <1>3, <1>5 DEF IInv, AdmittedUnique, AdmittedStamped
<1>8. Recorded'
  <2> SUFFICES ASSUME NEW a \in admitted', a.at > now - Window
               PROVE  a.at \in zset'[a.key]
    BY <1>3 DEF Recorded
  <2>1. CASE a = x
    BY <1>1, <1>3, <2>1 DEF IInv, TypeOK
  <2>2. CASE a \in admitted /\ a.key = k
    BY <1>1, <1>3, <2>2 DEF IInv, TypeOK, Recorded, Purge
  <2>3. CASE a \in admitted /\ a.key # k
    BY <1>1, <1>3, <2>3 DEF IInv, TypeOK, Recorded
  <2>. QED
    BY <1>5, <2>1, <2>2, <2>3
<1>9. ExpiresAfterWindow'
  <2> SUFFICES ASSUME NEW a \in admitted', deadline'[a.key] # NoDeadline
               PROVE  a.at + Window <= deadline'[a.key]
    BY DEF ExpiresAfterWindow
  <2>1. a.key \in Keys /\ a.at \in 0..MaxTime /\ a.at <= now
    BY <1>3, <1>4, <1>6 DEF TypeOK, AdmittedStamped
  <2>2. CASE a.key = k
    BY <1>1, <1>3, <2>1, <2>2 DEF IInv, TypeOK
  <2>3. CASE a.key # k
    BY <1>1, <1>3, <1>5, <2>1, <2>3 DEF IInv, TypeOK, ExpiresAfterWindow
  <2>. QED
    BY <2>2, <2>3
<1>10. Finite'
  <2>1. IsFiniteSet(pruned)
    BY <1>1, FS_Subset DEF IInv, Finite, Purge
  <2>2. IsFiniteSet(pruned \cup {now}) /\ IsFiniteSet(admitted \cup {x})
    BY <2>1, FS_AddElement DEF IInv, Finite
  <2>. QED
    BY <1>1, <1>3, <2>2 DEF IInv, Finite, TypeOK
<1>12. WindowLimit'
  <2> SUFFICES ASSUME NEW kk \in Keys, NEW t \in 0..now
               PROVE  Cardinality({a \in AdmittedIn(t)' : a.key = kk}) <= Limit
    BY <1>3 DEF WindowLimit
  <2> DEFINE Old == {a \in AdmittedIn(t) : a.key = kk}
  <2>1. CASE admitted' = admitted
    BY <1>3, <2>1 DEF IInv, WindowLimit, AdmittedIn
  <2>2. CASE Cardinality(pruned) < Limit /\ admitted' = admitted \cup {x}
    <3>1. CASE t = now /\ kk = k
      <4>1. {a \in AdmittedIn(t)' : a.key = kk} = Old \cup {x}
        BY <2>2, <3>1 DEF AdmittedIn, IInv, TypeOK
      <4>2. IsFiniteSet(pruned)
        BY <1>1, FS_Subset DEF IInv, Finite, Purge
      <4>3. \A a \in Old : a.at \in pruned
        BY <1>1, <3>1 DEF IInv, TypeOK, Recorded, AdmittedIn, Purge
      <4>4. \A a, b \in Old : a.at = b.at => a = b
        BY DEF IInv, AdmittedUnique, AdmittedIn
      <4>. QED
        BY <2>2, <4>1, <4>2, <4>3, <4>4, CountBound
    <3>2. CASE ~(t = now /\ kk = k)
      <4>1. {a \in AdmittedIn(t)' : a.key = kk} = Old
        BY <2>2, <3>2 DEF AdmittedIn, IInv, TypeOK
      <4>. QED
        BY <4>1 DEF IInv, WindowLimit
    <3>. QED
      BY <3>1, <3>2
  <2>. QED
    BY <1>3, <2>1, <2>2
<1>. QED
  BY <1>4, <1>6, <1>7, <1>8, <1>9, <1>10, <1>12 DEF IInv

(* The clock's advance keeps the invariant: the window ending one tick   *)
(* later holds no request the window ending now does not.               *)
LEMMA TickIInv ==
  ASSUME IInv, Tick
  PROVE  IInv'
<1>1. TypeOK'
  BY TypeNext DEF IInv, Next
<1>2. WindowLimit'
  <2> SUFFICES ASSUME NEW kk \in Keys, NEW t \in 0..now'
               PROVE  Cardinality({a \in AdmittedIn(t)' : a.key = kk}) <= Limit
    BY DEF WindowLimit
  <2>1. CASE t \in 0..now
    BY <2>1 DEF Tick, IInv, WindowLimit, AdmittedIn
  <2>2. CASE t = now + 1
    <3>1. {a \in AdmittedIn(t)' : a.key = kk} \subseteq {a \in AdmittedIn(now) : a.key = kk}
      BY <2>2 DEF Tick, AdmittedIn, IInv, TypeOK, AdmittedStamped
    <3>2. IsFiniteSet({a \in AdmittedIn(now) : a.key = kk})
      BY WindowFinite DEF IInv
    <3>3. Cardinality({a \in AdmittedIn(now) : a.key = kk}) <= Limit
      BY DEF IInv, WindowLimit, TypeOK
    <3>. QED
      BY <3>1, <3>2, <3>3, SubsetBound
  <2>. QED
    BY <2>1, <2>2 DEF Tick, IInv, TypeOK
<1>. QED
  BY <1>1, <1>2 DEF Tick, IInv, TypeOK, AdmittedStamped, AdmittedUnique, Recorded,
                    ExpiresAfterWindow, Finite

(* Redis deleting a key whose TTL has run out keeps the invariant: every *)
(* admitted request of that key is already out of the window.           *)
LEMMA KeyExpiresIInv ==
  ASSUME IInv, NEW k \in Keys, KeyExpires(k)
  PROVE  IInv'
<1>1. TypeOK'
  BY TypeNext DEF IInv, Next
<1>2. Recorded'
  <2> SUFFICES ASSUME NEW a \in admitted', a.at > now' - Window
               PROVE  a.at \in zset'[a.key]
    BY DEF Recorded
  <2>1. a.key # k
    BY DEF KeyExpires, IInv, TypeOK, ExpiresAfterWindow
  <2>. QED
    BY <2>1 DEF KeyExpires, IInv, TypeOK, Recorded
<1>3. ExpiresAfterWindow'
  BY DEF KeyExpires, IInv, TypeOK, ExpiresAfterWindow
<1>4. Finite'
  BY FS_EmptySet DEF KeyExpires, IInv, TypeOK, Finite
<1>. QED
  BY <1>1, <1>2, <1>3, <1>4 DEF KeyExpires, IInv, AdmittedStamped, AdmittedUnique,
                                WindowLimit, AdmittedIn

LEMMA NextIInv ==
  ASSUME SyncedClocks, DistinctStamps
  PROVE  IInv /\ [Next]_vars => IInv'
<1> SUFFICES ASSUME IInv, [Next]_vars PROVE IInv'
    OBVIOUS
<1>1. CASE \E i \in Instances, o \in Origins : Request(i, o)
  BY <1>1, RequestIInv
<1>2. CASE Tick
  BY <1>2, TickIInv
<1>3. CASE \E k \in Keys : KeyExpires(k)
  BY <1>3, KeyExpiresIInv
<1>4. CASE UNCHANGED vars
  BY <1>4 DEF vars, IInv, TypeOK, AdmittedStamped, AdmittedUnique, Recorded,
              ExpiresAfterWindow, Finite, WindowLimit, AdmittedIn
<1>. QED
  BY <1>1, <1>2, <1>3, <1>4 DEF Next

(* Theorem: when every API process reads the Redis server's clock and no *)
(* two requests read the same time, is_allowed's pipeline admits at most *)
(* limit requests with one key in any window of window_seconds, however *)
(* the requests of the processes interleave and whenever the key's TTL  *)
(* runs out.  MCRateSkew.cfg and MCRateCollision.cfg show that neither   *)
(* hypothesis can be dropped.                                            *)
THEOREM WindowBound ==
  ASSUME SyncedClocks, DistinctStamps
  PROVE  Spec => []WindowLimit
<1>1. Init => IInv
  BY InitIInv
<1>2. IInv /\ [Next]_vars => IInv'
  BY NextIInv
<1>3. IInv => WindowLimit
  BY DEF IInv
<1>. QED
  BY <1>1, <1>2, <1>3, PTL DEF Spec

=============================================================================
