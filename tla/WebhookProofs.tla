---------------------------- MODULE WebhookProofs ----------------------------
(***************************************************************************)
(* Proofs about WebhookDelivery: type correctness for any number of      *)
(* deliveries, workers, replayers, retries, crashes and task ids, with    *)
(* failing .delay(), DLQ sends and replay commits.                        *)
(***************************************************************************)
EXTENDS WebhookDelivery, FiniteSetTheorems, TLAPS

USE WebhookAssumption

(* A message sent to a bag keeps it a bag, whether or not the message is *)
(* one of the bag's kind.                                                  *)
LEMMA SendType ==
    ASSUME NEW S, NEW q \in [S -> Nat], NEW m
    PROVE  Send(q, m) \in [S -> Nat]
<1>1. CASE m \in S
  BY <1>1 DEF Send
<1>2. CASE m \notin S
  <2>1. Send(q, m) = q
    BY <1>2, Zenon DEF Send
  <2> QED BY <2>1
<1> QED BY <1>1, <1>2

(* A busy worker's message is a webhook job.                              *)
LEMMA HeldJob ==
    ASSUME TypeOK, NEW w \in Workers, pc[w] # "idle"
    PROVE  job[w] \in Jobs
BY DEF TypeOK

LEMMA TypeInit == Init => TypeOK
<1> SUFFICES ASSUME Init PROVE TypeOK
  OBVIOUS
<1>1. IsFiniteSet(Deliveries)
  <2>1. IsFiniteSet(1..MaxTasks)
    BY FS_Interval
  <2> QED BY <2>1, FS_Subset
<1>2. Cardinality(Deliveries) \in Nat
  BY <1>1, FS_CardinalityType
<1>3. NoJob \notin Jobs
  BY DEF NoJob, Jobs
<1> QED
  BY <1>2, <1>3 DEF Init, TypeOK, PC, Status, TaskIds

LEMMA TypeStep == TypeOK /\ [Next]_vars => TypeOK'
<1> SUFFICES ASSUME TypeOK, [Next]_vars PROVE TypeOK'
  OBVIOUS
<1>0. NoJob \notin Jobs
  BY DEF NoJob, Jobs
<1>1. ASSUME NEW d \in Deliveries, CreateDelivery(d) PROVE TypeOK'
  BY <1>1, SendType DEF CreateDelivery, TypeOK, Status
<1>2. ASSUME NEW w \in Workers, Receive(w) PROVE TypeOK'
  <2>1. PICK m \in Jobs :
          /\ queue[m] > 0
          /\ queue' = [queue EXCEPT ![m] = @ - 1]
          /\ job' = [job EXCEPT ![w] = m]
          /\ attempts' = [attempts EXCEPT ![m.d] = @ + 1]
          /\ dstatus' = [dstatus EXCEPT ![m.d] = "SENDING"]
    BY <1>2 DEF Receive
  <2>2. m # NoJob /\ m.d \in Deliveries
    BY <1>0 DEF Jobs
  <2>3. pc[w] = "idle" /\ pc' = [pc EXCEPT ![w] = "sending"]
    BY <1>2 DEF Receive
  <2>4. job' \in [Workers -> Jobs \cup {NoJob}]
        /\ \A v \in Workers : (pc'[v] = "idle") <=> (job'[v] = NoJob)
    BY <2>1, <2>2, <2>3 DEF TypeOK, PC
  <2>5. queue' \in [Jobs -> Nat]
    BY <2>1 DEF TypeOK
  <2>6. attempts' \in [Deliveries -> Nat] /\ dstatus' \in [Deliveries -> Status]
    <3>1. attempts[m.d] \in Nat
      BY <2>2 DEF TypeOK
    <3>2. attempts' = [attempts EXCEPT ![m.d] = attempts[m.d] + 1]
      BY <2>1
    <3>3. attempts' \in [Deliveries -> Nat]
      BY <2>2, <3>1, <3>2 DEF TypeOK
    <3>4. dstatus' \in [Deliveries -> Status]
      BY <2>1, <2>2 DEF TypeOK, Status
    <3> QED BY <3>3, <3>4
  <2>7. pc' \in [Workers -> PC]
    BY <2>3 DEF TypeOK, PC
  <2> QED
    BY <1>2, <2>4, <2>5, <2>6, <2>7 DEF Receive, TypeOK
<1>3. ASSUME NEW w \in Workers, Post(w) PROVE TypeOK'
  <2>1. job[w].d \in Deliveries
    BY <1>3, HeldJob DEF Post, Jobs
  <2> QED
    BY <1>3, <2>1 DEF Post, TypeOK, PC, Status
<1>4. ASSUME NEW w \in Workers, Raise(w) PROVE TypeOK'
  <2>1. job[w] \in Jobs
    BY <1>4, HeldJob DEF Raise
  <2>2. job[w].tid \in TaskIds
    BY <2>1 DEF Jobs
  <2> QED
    BY <1>4, <2>1, <2>2, SendType DEF Raise, TypeOK, PC
<1>5. ASSUME NEW w \in Workers, Ack(w) PROVE TypeOK'
  BY <1>5 DEF Ack, TypeOK, PC
<1>6. ASSUME NEW w \in Workers, Crash(w) PROVE TypeOK'
  BY <1>6, SendType DEF Crash, TypeOK, PC
<1>7. CASE StoreFailedTask
  BY <1>7 DEF StoreFailedTask, TypeOK
<1>8. ASSUME NEW p \in Replayers, ReplaySend(p) PROVE TypeOK'
  <2>1. PICK r \in records :
          /\ queue' = Send(queue, [d |-> r.d, tid |-> nextTid, retries |-> 0])
          /\ rpc' = [rpc EXCEPT ![p] = r.tid]
          /\ replays' = [replays EXCEPT ![r.tid] = @ + 1]
    BY <1>8 DEF ReplaySend
  <2>2. r.tid \in TaskIds
    BY DEF TypeOK, DlqMsgs
  <2> QED
    BY <1>8, <2>1, <2>2, SendType DEF ReplaySend, TypeOK
<1>9. ASSUME NEW p \in Replayers, ReplayCommit(p) PROVE TypeOK'
  BY <1>9 DEF ReplayCommit, TypeOK
<1>10. CASE UNCHANGED vars
  BY <1>10 DEF vars, TypeOK
<1> QED
  BY <1>1, <1>2, <1>3, <1>4, <1>5, <1>6, <1>7, <1>8, <1>9, <1>10 DEF Next, WorkerStep

(* Theorem: for any deliveries, workers, replayers, retries, crashes and *)
(* faults, the delivery rows, queues and failed_tasks rows stay well     *)
(* typed, and a worker holds an unacknowledged job exactly when it is   *)
(* busy, which is what lets reject_on_worker_lost requeue it and the ack *)
(* drop it.                                                                *)
THEOREM TypeCorrect == Spec => []TypeOK
BY TypeInit, TypeStep, PTL DEF Spec

=============================================================================
