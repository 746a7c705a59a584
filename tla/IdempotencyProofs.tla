-------------------------- MODULE IdempotencyProofs --------------------------
(***************************************************************************)
(* Proofs about IdempotencyMiddleware for any number of requests with one *)
(* key: the state stays well typed whatever faults are allowed, and when  *)
(* the PROCESSING lock cannot expire and no handler fails after its       *)
(* commit, at most one request creates a transaction row; when the lock   *)
(* cannot expire, the COMPLETED entry is kept and every replay matches    *)
(* the first saved response.                                               *)
(***************************************************************************)
EXTENDS IdempotencyMiddleware, FiniteSetTheorems, TLAPS

USE IdempotencyAssumption

(* The requests past acquire_lock that have not answered yet.             *)
Owners == {r \in Requests : pc[r] \in {"exec", "save", "release"}}

(* SET NX lets one request at a time past acquire_lock.                   *)
OneOwner == \A r, s \in Owners : r = s

(* While a request is past acquire_lock the key holds its lock.           *)
OwnerHoldsLock == Owners # {} => entry.kind = "processing"

(* An absent key means nobody has created a row yet.                      *)
AbsentNoRows == entry.kind = "absent" => created = {}

(* A created row belongs to the owner about to save, or to a finished    *)
(* request whose response the key now holds.                              *)
RowsAccounted ==
    \A r \in created : pc[r] = "save" \/ (pc[r] = "done" /\ entry.kind = "completed")

(* AtMostOneExecution, stated without Cardinality.                       *)
OneRow == \A r, s \in created : r = s

(* The inductive invariant.  OneRow alone is not inductive: what rules   *)
(* out a second row is that nobody gets past acquire_lock while a row    *)
(* exists, which needs the key's state (OwnerHoldsLock, AbsentNoRows)    *)
(* and where the row's creator is (RowsAccounted).                       *)
IInv == TypeOK /\ OneOwner /\ OwnerHoldsLock /\ AbsentNoRows /\ RowsAccounted
        /\ OneRow

-----------------------------------------------------------------------------
LEMMA TypeStep == TypeOK /\ [Next]_vars => TypeOK'
<1> SUFFICES ASSUME TypeOK, [Next]_vars PROVE TypeOK'
  OBVIOUS
<1>1. ASSUME NEW r \in Requests, AcquireLock(r) PROVE TypeOK'
  BY <1>1 DEF AcquireLock, TypeOK, Entries, PCs
<1>2. ASSUME NEW r \in Requests, CheckExisting(r) PROVE TypeOK'
  BY <1>2 DEF CheckExisting, TypeOK, Entries, PCs, Answers, NoAnswer, Conflict,
              ErrorStatus, Requests
<1>3. ASSUME NEW r \in Requests, Handle(r) PROVE TypeOK'
  BY <1>3 DEF Handle, TypeOK, PCs
<1>4. ASSUME NEW r \in Requests, SaveResponse(r) PROVE TypeOK'
  BY <1>4 DEF SaveResponse, TypeOK, Entries, PCs, Answers, NoAnswer, Requests
<1>5. ASSUME NEW r \in Requests, ReleaseLock(r) PROVE TypeOK'
  BY <1>5 DEF ReleaseLock, TypeOK, Entries, Absent, PCs, Answers, NoAnswer,
              ErrorStatus, Requests
<1>6. CASE LockExpires
  BY <1>6 DEF LockExpires, TypeOK, Entries, Absent
<1>7. CASE UNCHANGED vars
  BY <1>7 DEF vars, TypeOK
<1> QED BY <1>1, <1>2, <1>3, <1>4, <1>5, <1>6, <1>7 DEF Next

(* Whatever faults are allowed, the middleware's state stays well typed:  *)
(* in particular a request has an answer exactly when dispatch has        *)
(* returned, and a replayed body is always one some request produced.    *)
THEOREM TypeCorrect == Spec => []TypeOK
<1>1. Init => TypeOK
  BY DEF Init, TypeOK, Entries, Absent, PCs, Answers, NoAnswer, Requests
<1> QED BY <1>1, TypeStep, PTL DEF Spec

-----------------------------------------------------------------------------
LEMMA InitIInv == Init => IInv
BY DEF Init, IInv, TypeOK, Entries, Absent, PCs, Answers, NoAnswer, Requests,
       OneOwner, OwnerHoldsLock, AbsentNoRows, RowsAccounted, OneRow, Owners

LEMMA NextIInv ==
    ASSUME ~LockCanExpire, ~ErrorAfterCommit
    PROVE  IInv /\ [Next]_vars => IInv'
<1> SUFFICES ASSUME IInv, [Next]_vars PROVE IInv'
  OBVIOUS
<1>0. TypeOK'
  BY TypeStep DEF IInv
<1>1. ASSUME NEW r \in Requests, AcquireLock(r) PROVE IInv'
  BY <1>0, <1>1 DEF AcquireLock, IInv, TypeOK, OneOwner, OwnerHoldsLock,
                    AbsentNoRows, RowsAccounted, OneRow, Owners
<1>2. ASSUME NEW r \in Requests, CheckExisting(r) PROVE IInv'
  BY <1>0, <1>2 DEF CheckExisting, IInv, TypeOK, OneOwner, OwnerHoldsLock,
                    AbsentNoRows, RowsAccounted, OneRow, Owners
<1>3. ASSUME NEW r \in Requests, Handle(r) PROVE IInv'
  BY <1>0, <1>3 DEF Handle, IInv, TypeOK, OneOwner, OwnerHoldsLock,
                    AbsentNoRows, RowsAccounted, OneRow, Owners
<1>4. ASSUME NEW r \in Requests, SaveResponse(r) PROVE IInv'
  BY <1>0, <1>4 DEF SaveResponse, IInv, TypeOK, OneOwner, OwnerHoldsLock,
                    AbsentNoRows, RowsAccounted, OneRow, Owners
<1>5. ASSUME NEW r \in Requests, ReleaseLock(r) PROVE IInv'
  BY <1>0, <1>5 DEF ReleaseLock, Absent, IInv, TypeOK, OneOwner,
                    OwnerHoldsLock, AbsentNoRows, RowsAccounted, OneRow, Owners
<1>6. CASE LockExpires
  BY <1>6 DEF LockExpires
<1>7. CASE UNCHANGED vars
  BY <1>7 DEF vars, IInv, TypeOK, OneOwner, OwnerHoldsLock, AbsentNoRows,
              RowsAccounted, OneRow, Owners
<1> QED BY <1>1, <1>2, <1>3, <1>4, <1>5, <1>6, <1>7 DEF Next

(* A set whose elements are all equal has at most one element.          *)
LEMMA AtMostOneElement ==
    ASSUME NEW S, \A x, y \in S : x = y
    PROVE  Cardinality(S) <= 1
<1>1. CASE S = {}
  BY <1>1, FS_EmptySet
<1>2. CASE S # {}
  <2>1. PICK x \in S : S = {x}
    BY <1>2
  <2> QED BY <2>1, FS_Singleton
<1> QED BY <1>1, <1>2

(* For any number of requests with one Idempotency-Key: while the         *)
(* PROCESSING lock outlives every handler and no handler fails after its *)
(* commit, SET NX, the separate GET of check_existing, save_response and *)
(* release_lock together let at most one request create a transaction   *)
(* row.  MCIdemExpiryDuplicate.cfg and MCIdemErrorDuplicate.cfg show     *)
(* that each of the two faults breaks it.                                 *)
THEOREM SingleExecution ==
    ASSUME ~LockCanExpire, ~ErrorAfterCommit
    PROVE  Spec => []AtMostOneExecution
<1>1. IInv => AtMostOneExecution
  <2> SUFFICES ASSUME IInv PROVE \A x, y \in created : x = y
    BY AtMostOneElement DEF AtMostOneExecution
  <2> QED BY DEF IInv, OneRow
<1> QED BY <1>1, InitIInv, NextIInv, PTL DEF Spec

-----------------------------------------------------------------------------
(***************************************************************************)
(* The replay law.  It needs only the lock to outlive its handler: a      *)
(* COMPLETED entry is then never replaced, since nobody can own the lock  *)
(* while it is there, so the entry and every 202 carry the one response   *)
(* saved.  A handler failing after its commit does not break it.          *)
(***************************************************************************)
(* Once a response is saved the key holds a COMPLETED entry.              *)
SavedStaysCompleted == first # NoAnswer => entry.kind = "completed"

(* The COMPLETED entry holds the first response saved.                    *)
CompletedIsFirst == entry.kind = "completed" => entry.resp = first

(* The inductive invariant of the replay law.                              *)
RInv == /\ TypeOK /\ OneOwner /\ OwnerHoldsLock /\ SavedStaysCompleted
        /\ CompletedIsFirst /\ ReplayMatchesFirst

LEMMA InitRInv == Init => RInv
BY DEF Init, RInv, TypeOK, Entries, Absent, PCs, Answers, NoAnswer, Requests,
       OneOwner, OwnerHoldsLock, SavedStaysCompleted, CompletedIsFirst,
       ReplayMatchesFirst, Owners

(* Every step keeps RInv, and none takes a COMPLETED entry away.          *)
LEMMA NextRInv ==
    ASSUME ~LockCanExpire
    PROVE  RInv /\ [Next]_vars => RInv' /\ [entry.kind = "completed" => entry'.kind = "completed"]_vars
<1> SUFFICES ASSUME RInv, [Next]_vars
             PROVE  RInv' /\ (entry.kind = "completed" => entry'.kind = "completed")
  OBVIOUS
<1>0. TypeOK'
  BY TypeStep DEF RInv
<1>1. ASSUME NEW r \in Requests, AcquireLock(r)
      PROVE  RInv' /\ (entry.kind = "completed" => entry'.kind = "completed")
  BY <1>0, <1>1 DEF AcquireLock, RInv, TypeOK, OneOwner, OwnerHoldsLock, Owners,
                    SavedStaysCompleted, CompletedIsFirst, ReplayMatchesFirst
<1>2. ASSUME NEW r \in Requests, CheckExisting(r)
      PROVE  RInv' /\ (entry.kind = "completed" => entry'.kind = "completed")
  BY <1>0, <1>2 DEF CheckExisting, RInv, TypeOK, OneOwner, OwnerHoldsLock, Owners,
                    SavedStaysCompleted, CompletedIsFirst, ReplayMatchesFirst,
                    Conflict, Requests
<1>3. ASSUME NEW r \in Requests, Handle(r)
      PROVE  RInv' /\ (entry.kind = "completed" => entry'.kind = "completed")
  BY <1>0, <1>3 DEF Handle, RInv, TypeOK, OneOwner, OwnerHoldsLock, Owners,
                    SavedStaysCompleted, CompletedIsFirst, ReplayMatchesFirst
<1>4. ASSUME NEW r \in Requests, SaveResponse(r)
      PROVE  RInv' /\ (entry.kind = "completed" => entry'.kind = "completed")
  <2>1. r \in Owners /\ entry.kind = "processing" /\ first = NoAnswer
    BY <1>4 DEF SaveResponse, RInv, OwnerHoldsLock, Owners, SavedStaysCompleted
  <2>2. Owners' = {}
    <3>1. \A s \in Requests \ {r} : s \notin Owners
      BY <2>1 DEF RInv, OneOwner
    <3>2. \A s \in Requests : pc'[s] \notin {"exec", "save", "release"}
      BY <1>4, <3>1 DEF SaveResponse, RInv, TypeOK, Owners
    <3> QED
      BY <3>2 DEF Owners
  <2>3. \A s \in Requests : answer[s] \notin Requests
    BY <2>1 DEF RInv, ReplayMatchesFirst, NoAnswer, Requests
  <2> QED
    BY <1>0, <1>4, <2>1, <2>2, <2>3 DEF SaveResponse, RInv, OneOwner, OwnerHoldsLock,
       SavedStaysCompleted, CompletedIsFirst, ReplayMatchesFirst
<1>5. ASSUME NEW r \in Requests, ReleaseLock(r)
      PROVE  RInv' /\ (entry.kind = "completed" => entry'.kind = "completed")
  <2>1. r \in Owners /\ entry.kind = "processing" /\ first = NoAnswer
    BY <1>5 DEF ReleaseLock, RInv, OwnerHoldsLock, Owners, SavedStaysCompleted
  <2>2. Owners' = {}
    <3>1. \A s \in Requests \ {r} : s \notin Owners
      BY <2>1 DEF RInv, OneOwner
    <3>2. \A s \in Requests : pc'[s] \notin {"exec", "save", "release"}
      BY <1>5, <3>1 DEF ReleaseLock, RInv, TypeOK, Owners
    <3> QED
      BY <3>2 DEF Owners
  <2> QED
    BY <1>0, <1>5, <2>1, <2>2 DEF ReleaseLock, Absent, RInv, OneOwner, OwnerHoldsLock,
       SavedStaysCompleted, CompletedIsFirst, ReplayMatchesFirst, ErrorStatus, Requests
<1>6. CASE LockExpires
  BY <1>6 DEF LockExpires
<1>7. CASE UNCHANGED vars
  BY <1>7 DEF vars, RInv, TypeOK, OneOwner, OwnerHoldsLock, Owners,
              SavedStaysCompleted, CompletedIsFirst, ReplayMatchesFirst
<1> QED BY <1>1, <1>2, <1>3, <1>4, <1>5, <1>6, <1>7 DEF Next

(* Spec section 8's replay law, for any number of requests with one key, *)
(* whether or not a handler fails after its commit: while the PROCESSING *)
(* lock outlives every handler, every client answered with a transaction *)
(* gets the first saved one, because save_response's plain SET can only *)
(* run while its request holds the lock (MCIdemExpiryDuplicate.cfg's     *)
(* expiry breaks it).                                                      *)
THEOREM ReplayLaw ==
    ASSUME ~LockCanExpire
    PROVE  Spec => []ReplayMatchesFirst
<1>1. RInv => ReplayMatchesFirst
  BY DEF RInv
<1> QED BY <1>1, InitRInv, NextRInv, PTL DEF Spec

(* Spec section 4.2: under the same hypothesis no step of the middleware *)
(* removes or replaces a COMPLETED entry: release_lock's DELETE and the   *)
(* SET of a second saver both need the lock, which no request holds once *)
(* the entry is COMPLETED.                                                 *)
THEOREM CompletedKept ==
    ASSUME ~LockCanExpire
    PROVE  Spec => CompletedPersists
BY InitRInv, NextRInv, PTL DEF Spec, CompletedPersists


-----------------------------------------------------------------------------
(***************************************************************************)
(* The middleware implements IdempotentCall when neither fault is on.     *)
(* The invariants above give each abstract guard: a handler that creates *)
(* the row owns the lock, so no row exists yet (Execute); the request     *)
(* that saves created the row and nothing is saved yet (Store); a        *)
(* COMPLETED entry holds the first saved response (Replay); and a request *)
(* turned away never created a row (Reject).                              *)
(***************************************************************************)
(* Only the handler's commit branch leads to save_response.               *)
SaverCreated == \A r \in Requests : pc[r] = "save" => r \in created

(* The inductive invariant of the refinement.                              *)
FInv == IInv /\ RInv /\ SaverCreated

LEMMA InitFInv == Init => FInv
<1>1. Init => SaverCreated
  BY DEF Init, SaverCreated
<1> QED BY <1>1, InitIInv, InitRInv DEF FInv

LEMMA NextFInv ==
    ASSUME ~LockCanExpire, ~ErrorAfterCommit
    PROVE  FInv /\ [Next]_vars => FInv'
<1> SUFFICES ASSUME FInv, [Next]_vars PROVE FInv'
  OBVIOUS
<1>1. IInv' /\ RInv'
  BY NextIInv, NextRInv DEF FInv
<1>2. SaverCreated'
  <2>1. ASSUME NEW r \in Requests, AcquireLock(r) PROVE SaverCreated'
    BY <2>1 DEF AcquireLock, FInv, IInv, TypeOK, SaverCreated
  <2>2. ASSUME NEW r \in Requests, CheckExisting(r) PROVE SaverCreated'
    BY <2>2 DEF CheckExisting, FInv, IInv, TypeOK, SaverCreated
  <2>3. ASSUME NEW r \in Requests, Handle(r) PROVE SaverCreated'
    BY <2>3 DEF Handle, FInv, IInv, TypeOK, SaverCreated
  <2>4. ASSUME NEW r \in Requests, SaveResponse(r) PROVE SaverCreated'
    BY <2>4 DEF SaveResponse, FInv, IInv, TypeOK, SaverCreated
  <2>5. ASSUME NEW r \in Requests, ReleaseLock(r) PROVE SaverCreated'
    BY <2>5 DEF ReleaseLock, FInv, IInv, TypeOK, SaverCreated
  <2>6. CASE LockExpires
    BY <2>6 DEF LockExpires
  <2>7. CASE UNCHANGED vars
    BY <2>7 DEF vars, FInv, SaverCreated
  <2> QED BY <2>1, <2>2, <2>3, <2>4, <2>5, <2>6, <2>7 DEF Next
<1> QED BY <1>1, <1>2 DEF FInv

(* A request that has not answered yet has not created a row unless it   *)
(* is about to save.                                                       *)
LEMMA NotCreated ==
    ASSUME FInv, NEW r \in Requests, pc[r] \in {"check", "exec", "release"}
    PROVE  r \notin created
BY DEF FInv, IInv, RowsAccounted

(* Every step of the middleware is a step of IdempotentCall or leaves the *)
(* rows, the saved response and the answers alone.                        *)
LEMMA StepRefines ==
    ASSUME ~LockCanExpire, ~ErrorAfterCommit
    PROVE  FInv /\ [Next]_vars => [IdemCall!Next]_<<created, first, answer>>
<1> SUFFICES ASSUME FInv, [Next]_vars
             PROVE  [IdemCall!Next]_<<created, first, answer>>
  OBVIOUS
<1> USE DEF IdemCall!Requests, IdemCall!NoAnswer, IdemCall!Conflict,
            IdemCall!ErrorStatus, Requests, NoAnswer, Conflict, ErrorStatus
<1>1. ASSUME NEW r \in Requests, AcquireLock(r)
      PROVE  UNCHANGED <<created, first, answer>>
  BY <1>1 DEF AcquireLock
<1>2. ASSUME NEW r \in Requests, CheckExisting(r)
      PROVE  IdemCall!Next
  <2>1. answer[r] = NoAnswer /\ r \notin created
    BY <1>2, NotCreated DEF CheckExisting, FInv, IInv, TypeOK
  <2>2. CASE entry.kind = "completed"
    <3>1. first = entry.resp /\ entry.resp \in Requests
      BY <2>2 DEF FInv, RInv, CompletedIsFirst, TypeOK, Entries
    <3>2. IdemCall!Replay(r)
      BY <1>2, <2>1, <2>2, <3>1 DEF CheckExisting, IdemCall!Replay, NoAnswer,
                                    Requests
    <3> QED BY <3>2 DEF IdemCall!Next
  <2>3. CASE entry.kind # "completed"
    <3>1. IdemCall!Reject(r)
      BY <1>2, <2>1, <2>3 DEF CheckExisting, IdemCall!Reject
    <3> QED BY <3>1 DEF IdemCall!Next
  <2> QED BY <2>2, <2>3
<1>3. ASSUME NEW r \in Requests, Handle(r)
      PROVE  [IdemCall!Next]_<<created, first, answer>>
  <2>1. r \in Owners /\ entry.kind = "processing"
    BY <1>3 DEF Handle, FInv, IInv, OwnerHoldsLock, Owners
  <2>2. created = {}
    <3> SUFFICES ASSUME NEW s \in created PROVE FALSE
      OBVIOUS
    <3>1. s \in Requests
      BY DEF FInv, IInv, TypeOK
    <3>2. pc[s] = "save"
      BY <2>1 DEF FInv, IInv, RowsAccounted
    <3>3. s = r
      BY <2>1, <3>1, <3>2 DEF FInv, IInv, OneOwner, Owners
    <3> QED BY <1>3, <3>2, <3>3 DEF Handle
  <2>3. answer[r] = NoAnswer
    BY <1>3 DEF Handle, FInv, IInv, TypeOK
  <2> QED
    BY <1>3, <2>2, <2>3 DEF Handle, IdemCall!Next, IdemCall!Execute
<1>4. ASSUME NEW r \in Requests, SaveResponse(r)
      PROVE  IdemCall!Next
  <2>1. r \in Owners /\ entry.kind = "processing"
    BY <1>4 DEF SaveResponse, FInv, IInv, OwnerHoldsLock, Owners
  <2>2. first = NoAnswer
    BY <2>1 DEF FInv, RInv, SavedStaysCompleted
  <2>3. r \in created /\ answer[r] = NoAnswer
    BY <1>4 DEF SaveResponse, FInv, SaverCreated, IInv, TypeOK
  <2>4. IdemCall!Store(r)
    BY <1>4, <2>2, <2>3 DEF SaveResponse, IdemCall!Store
  <2> QED BY <2>4 DEF IdemCall!Next
<1>5. ASSUME NEW r \in Requests, ReleaseLock(r)
      PROVE  IdemCall!Next
  <2>1. answer[r] = NoAnswer /\ r \notin created
    BY <1>5, NotCreated DEF ReleaseLock, FInv, IInv, TypeOK
  <2>2. IdemCall!Reject(r)
    BY <1>5, <2>1 DEF ReleaseLock, IdemCall!Reject
  <2> QED BY <2>2 DEF IdemCall!Next
<1>6. CASE LockExpires
  BY <1>6 DEF LockExpires
<1>7. CASE UNCHANGED vars
  BY <1>7 DEF vars
<1> QED BY <1>1, <1>2, <1>3, <1>4, <1>5, <1>6, <1>7 DEF Next

(* For any number of requests with one Idempotency-Key, while the         *)
(* PROCESSING lock outlives every handler and no handler fails after its *)
(* commit, IdempotencyMiddleware.dispatch keeps the whole promise of the  *)
(* key: one execution, its response stored and given to its request, the *)
(* others replayed that response or turned away.  MCIdemExpiryDuplicate  *)
(* and MCIdemErrorDuplicate's faults each break it.                       *)
THEOREM Refinement ==
    ASSUME ~LockCanExpire, ~ErrorAfterCommit
    PROVE  Spec => ImplementsIdempotentCall
<1>1. Init => IdemCall!Init
  BY DEF Init, IdemCall!Init, IdemCall!Requests, IdemCall!NoAnswer, NoAnswer,
         Requests
<1>2. FInv /\ [Next]_vars => [IdemCall!Next]_<<created, first, answer>>
  BY StepRefines
<1> QED BY <1>1, <1>2, InitFInv, NextFInv, PTL
       DEF Spec, ImplementsIdempotentCall, IdemCall!Spec

=============================================================================
