---------------------------- MODULE OutboxProofs ----------------------------
(***************************************************************************)
(* Proofs about Outbox, for any set of ids and relays and any batch size:  *)
(* the inductive invariant IInv, the safety properties it implies, and the *)
(* refinement of AtLeastOnce.                                              *)
(***************************************************************************)
EXTENDS Outbox, TLAPS

(* The clamps keep a countdown in its range. *)
LEMMA ClampRange ==
  /\ \A x \in Int, b \in Nat : AtMost(x, b) \in Int /\ AtMost(x, b) <= b
  /\ \A x \in Nat, b \in Nat : AtMost(x, b) \in 0..b
  /\ \A x \in Int, y \in Nat, b \in Nat : x <= b => Minus(x, y) \in 0..b
  BY DEF AtMost, Minus

(* A back-off that has been running for some time fits the delay column. *)
LEMMA BackoffRange ==
  ASSUME NEW n \in Nat, NEW age \in Nat
  PROVE  Minus(Backoff(n), age) \in 0..MaxBackoff
<1>1. AtMost(n, MaxExponent) \in Nat
  BY ClampRange, BackoffAssumption
<1>2. 2 ^ AtMost(n, MaxExponent) \in Int
  BY <1>1
<1>3. Backoff(n) \in Int /\ Backoff(n) <= MaxBackoff
  BY <1>2, ClampRange, BackoffAssumption DEF Backoff
<1> QED
  BY <1>3, ClampRange, BackoffAssumption

(* LIMIT and ORDER BY only choose among the rows they are given. *)
LEMMA FirstOfSubset == \A S, n : FirstOf(S, n) \subseteq S
  BY DEF FirstOf

LEMMA InitIInv == Init => IInv
<1> SUFFICES ASSUME Init PROVE IInv
  OBVIOUS
<1> USE IdAssumption, SizeAssumption, BackoffAssumption, BoundAssumption DEF Init
<1>1. TypeOK
  BY DEF TypeOK, Statuses, Places
<1>2. OpenBatch /\ BatchQueued /\ RowHeldOnce /\ AckedOnce
  BY DEF OpenBatch, BatchQueued, RowHeldOnce, AckedOnce, Batch
<1>3. NoLoss /\ CommittedOnly /\ Accounted /\ DuplicatesExcused
  BY DEF NoLoss, CommittedOnly, Accounted, DuplicatesExcused
<1> QED
  BY <1>1, <1>2, <1>3 DEF IInv

-----------------------------------------------------------------------------
(* Writers and the purge touch only the life of rows no relay holds. *)

LEMMA WriterStep == IInv /\ Writer => IInv'
<1> SUFFICES ASSUME IInv, NEW m \in Id,
                    Enqueue(m) \/ CommitWriter(m) \/ AbortWriter(m)
             PROVE  IInv'
  BY DEF Writer
<1> DEFINE Change(old, new) ==
      /\ status[m] \in old
      /\ status' = [status EXCEPT ![m] = new]
      /\ UNCHANGED <<attempts, delay, batch, run, broker>>
<1>1. \/ Change({"absent"}, "inserting")
      \/ Change({"inserting"}, "queued")
      \/ Change({"inserting"}, "aborted")
  BY DEF Enqueue, CommitWriter, AbortWriter, EndWriter
<1>2. /\ status' \in [Id -> Statuses]
      /\ \A k \in Id : k # m => status'[k] = status[k]
      /\ status[m] \in {"absent", "inserting"}
      /\ status'[m] \in {"inserting", "queued", "aborted"}
  BY <1>1 DEF IInv, TypeOK, Statuses
<1>3. UNCHANGED <<attempts, delay, batch, run, broker>>
  BY <1>1
<1> HIDE DEF Change
<1>4. m \notin delivered /\ \A r \in Relay : m \notin Batch(r)
  BY <1>2 DEF IInv, CommittedOnly, BatchQueued
<1>5. TypeOK'
  BY <1>2, <1>3 DEF IInv, TypeOK, batch, run, broker
<1>6. \A r \in Relay : Batch(r)' = Batch(r)
  BY <1>3 DEF Batch, batch
<1>7. OpenBatch' /\ RowHeldOnce' /\ AckedOnce'
  BY <1>3, <1>6 DEF IInv, OpenBatch, RowHeldOnce, AckedOnce, batch, run, broker
<1>8. BatchQueued'
  BY <1>2, <1>4, <1>6 DEF IInv, BatchQueued, TypeOK, Batch
<1>9. NoLoss' /\ CommittedOnly' /\ Accounted' /\ DuplicatesExcused'
  BY <1>2, <1>3, <1>4
  DEF IInv, NoLoss, CommittedOnly, Accounted, DuplicatesExcused, TypeOK, batch, broker
<1> QED
  BY <1>5, <1>7, <1>8, <1>9 DEF IInv

LEMMA PurgeStep == IInv /\ PurgeStatement => IInv'
<1> SUFFICES ASSUME IInv, NEW D \in SUBSET {m \in Id : status[m] = "sent"},
                    status' = [m \in Id |-> IF m \in D THEN "purged" ELSE status[m]],
                    UNCHANGED <<attempts, delay, batch, run, broker>>
             PROVE  IInv'
  BY DEF PurgeStatement
<1>1. TypeOK'
  BY DEF IInv, TypeOK, Statuses, batch, run, broker
<1>2. \A r \in Relay : Batch(r)' = Batch(r)
  BY DEF Batch, batch
<1>3. OpenBatch' /\ RowHeldOnce' /\ AckedOnce'
  BY <1>2 DEF IInv, OpenBatch, RowHeldOnce, AckedOnce, batch, run, broker
<1>4. BatchQueued'
  BY <1>2 DEF IInv, BatchQueued, TypeOK, Batch
<1>5. NoLoss' /\ CommittedOnly' /\ Accounted' /\ DuplicatesExcused'
  BY DEF IInv, NoLoss, CommittedOnly, Accounted, DuplicatesExcused, TypeOK, batch, broker
<1> QED
  BY <1>1, <1>3, <1>4, <1>5 DEF IInv

LEMMA TickStep == IInv /\ Tick => IInv'
<1> SUFFICES ASSUME IInv, Tick PROVE IInv'
  OBVIOUS
<1>1. TypeOK'
  <2>1. delay' \in [Id -> 0..MaxBackoff]
    BY ClampRange, BackoffAssumption DEF IInv, TypeOK, Tick
  <2>2. sleep' \in [Relay -> 0..Interval]
    BY ClampRange, SizeAssumption DEF IInv, TypeOK, Tick
  <2>3. txAge' \in [Relay -> 0..MaxBackoff]
    BY ClampRange, BackoffAssumption DEF IInv, TypeOK, Tick
  <2> QED
    BY <2>1, <2>2, <2>3 DEF IInv, TypeOK, Tick, broker
<1>2. OpenBatch' /\ BatchQueued' /\ RowHeldOnce' /\ AckedOnce'
  BY DEF IInv, Tick, broker, OpenBatch, BatchQueued, RowHeldOnce, AckedOnce, Batch
<1>3. NoLoss' /\ CommittedOnly' /\ Accounted' /\ DuplicatesExcused'
  BY DEF IInv, Tick, broker, NoLoss, CommittedOnly, Accounted, DuplicatesExcused
<1> QED
  BY <1>1, <1>2, <1>3 DEF IInv

-----------------------------------------------------------------------------
(* Steps of a relay. *)

(* Steps that move a relay without an open batch, or none at all. *)
QuietStep(r) ==
  /\ \/ pc[r] # "publishing" /\ pc' \in {[pc EXCEPT ![r] = p] : p \in Places}
     \/ pc' = pc
  /\ sleep' \in [Relay -> 0..Interval]
  /\ cancelled' \subseteq Relay
  /\ faults' \in 0..MaxFaults
  /\ UNCHANGED <<rows, batch, broker>>

LEMMA QuietSteps ==
  ASSUME IInv, NEW r \in Relay,
         \/ Poll(r) \/ Stop(r) \/ EndDrain(r) \/ FetchFails(r)
         \/ Cancel(r) \/ Restart(r)
  PROVE  QuietStep(r)
<1> USE SizeAssumption, BoundAssumption DEF IInv, TypeOK, QuietStep, Places
<1>1. CASE Poll(r)
  BY <1>1 DEF Poll
<1>2. CASE Stop(r)
  BY <1>2 DEF Stop
<1>3. CASE EndDrain(r)
  BY <1>3 DEF EndDrain
<1>4. CASE FetchFails(r)
  BY <1>4 DEF FetchFails, Fault
<1>5. CASE Cancel(r)
  BY <1>5 DEF Cancel, Fault
<1>6. CASE Restart(r)
  BY <1>6 DEF Restart
<1> QED
  BY <1>1, <1>2, <1>3, <1>4, <1>5, <1>6

LEMMA QuietStepIInv ==
  ASSUME IInv, NEW r \in Relay, QuietStep(r)
  PROVE  IInv'
<1>1. TypeOK'
  BY DEF IInv, TypeOK, QuietStep, rows, batch, broker
<1>2. \A s \in Relay : Batch(s)' = Batch(s)
  BY DEF QuietStep, Batch, batch
<1>3. OpenBatch'
  BY <1>2 DEF IInv, TypeOK, OpenBatch, QuietStep
<1>4. BatchQueued' /\ RowHeldOnce' /\ AckedOnce'
  BY <1>2 DEF IInv, QuietStep, BatchQueued, RowHeldOnce, AckedOnce, rows, batch, broker
<1>5. NoLoss' /\ CommittedOnly' /\ Accounted' /\ DuplicatesExcused'
  BY DEF IInv, QuietStep, NoLoss, CommittedOnly, Accounted, DuplicatesExcused,
         rows, batch, broker
<1> QED
  BY <1>1, <1>3, <1>4, <1>5 DEF IInv

(* The end of a transaction frees the rows of one relay only. *)
LEMMA EndTxBatch ==
  ASSUME TypeOK, NEW r \in Relay, EndTx(r)
  PROVE  /\ todo' \in [Relay -> SUBSET Id] /\ acked' \in [Relay -> SUBSET Id]
         /\ failed' \in [Relay -> SUBSET Id] /\ txAge' \in [Relay -> 0..MaxBackoff]
         /\ Batch(r)' = {} /\ acked'[r] = {}
         /\ \A s \in Relay \ {r} : /\ Batch(s)' = Batch(s)
                                   /\ acked'[s] = acked[s] /\ todo'[s] = todo[s]
  BY BackoffAssumption DEF TypeOK, EndTx, Batch

(* Whatever was accepted and is no longer about to be marked is excused. *)
LEMMA RollbackIInv ==
  ASSUME IInv, NEW r \in Relay, Rollback(r),
         NEW p \in Places, pc' = [pc EXCEPT ![r] = p],
         faults' \in 0..MaxFaults, UNCHANGED <<sleep, cancelled>>
  PROVE  IInv'
<1>1. EndTx(r) /\ TypeOK
  BY DEF Rollback, IInv
<1>2. /\ todo' \in [Relay -> SUBSET Id] /\ acked' \in [Relay -> SUBSET Id]
      /\ failed' \in [Relay -> SUBSET Id] /\ txAge' \in [Relay -> 0..MaxBackoff]
      /\ Batch(r)' = {} /\ acked'[r] = {}
      /\ \A s \in Relay \ {r} : /\ Batch(s)' = Batch(s)
                                /\ acked'[s] = acked[s] /\ todo'[s] = todo[s]
  BY <1>1, EndTxBatch
<1>3. TypeOK'
  BY <1>2 DEF IInv, TypeOK, Rollback, rows
<1>4. OpenBatch' /\ BatchQueued' /\ RowHeldOnce'
  BY <1>2 DEF IInv, TypeOK, OpenBatch, BatchQueued, RowHeldOnce, Rollback, rows
<1>5. AckedOnce'
  BY <1>2 DEF IInv, AckedOnce, Rollback
<1>6. Accounted'
  BY <1>2 DEF IInv, Accounted, Rollback, rows
<1>7. NoLoss' /\ CommittedOnly' /\ DuplicatesExcused'
  BY DEF IInv, NoLoss, CommittedOnly, DuplicatesExcused, Rollback, rows
<1> QED
  BY <1>3, <1>4, <1>5, <1>6, <1>7 DEF IInv

LEMMA RollbackSteps ==
  ASSUME IInv, NEW r \in Relay,
         RecordFails(r) \/ AbandonBatch(r) \/ CommitFails(r) \/ Crash(r)
  PROVE  IInv'
<1>1. /\ Rollback(r) /\ UNCHANGED <<sleep, cancelled>>
      /\ \E p \in Places : pc' = [pc EXCEPT ![r] = p]
      /\ faults' \in 0..MaxFaults
  BY BoundAssumption
  DEF RecordFails, AbandonBatch, CommitFails, Crash, Fault, IInv, TypeOK, Places
<1> QED
  BY <1>1, RollbackIInv

(* SKIP LOCKED: the rows fetched are queued and no relay holds them. *)
LEMMA FetchIInv ==
  ASSUME IInv, NEW r \in Relay, Fetch(r)
  PROVE  IInv'
<1> DEFINE fetched == FirstOf(Due, BatchSize[r])
<1>1. fetched \subseteq Due
  BY FirstOfSubset
<1>2. /\ fetched \subseteq Id
      /\ \A m \in fetched : status[m] = "queued"
      /\ \A s \in Relay : fetched \cap Batch(s) = {}
  BY <1>1 DEF Due, Locked
<1>3. /\ todo' = [todo EXCEPT ![r] = fetched]
      /\ pc[r] = "draining" /\ \A s \in Relay \ {r} : pc'[s] = pc[s]
      /\ pc' \in [Relay -> Places]
      /\ fetched # {} => pc'[r] = "publishing"
      /\ UNCHANGED <<rows, acked, failed, txAge, sleep, cancelled, faults, broker>>
  BY DEF Fetch, IInv, TypeOK, Places
<1>4. Batch(r) = {}
  BY <1>3 DEF IInv, OpenBatch
<1> HIDE DEF fetched
<1>5. /\ todo'[r] = fetched /\ Batch(r)' = fetched
      /\ \A s \in Relay \ {r} : todo'[s] = todo[s] /\ Batch(s)' = Batch(s)
  BY <1>3, <1>4 DEF Batch, IInv, TypeOK
<1>6. TypeOK'
  BY <1>2, <1>3 DEF IInv, TypeOK, rows, broker
<1>7. OpenBatch' /\ BatchQueued'
  BY <1>2, <1>3, <1>5 DEF IInv, OpenBatch, BatchQueued, rows
<1>8. RowHeldOnce'
  BY <1>2, <1>5 DEF IInv, RowHeldOnce
<1>9. AckedOnce'
  BY <1>2, <1>3, <1>4, <1>5 DEF IInv, AckedOnce, Batch, broker
<1>10. NoLoss' /\ CommittedOnly' /\ Accounted' /\ DuplicatesExcused'
  BY <1>3 DEF IInv, NoLoss, CommittedOnly, Accounted, DuplicatesExcused, rows, broker
<1> QED
  BY <1>6, <1>7, <1>8, <1>9, <1>10 DEF IInv

(* A row the relay still has to publish was either never accepted, or in an *)
(* attempt that did not count: accepting it is no stray duplicate.          *)
LEMMA TodoExcused ==
  ASSUME IInv, NEW r \in Relay, NEW m \in todo[r]
  PROVE  /\ m \in Id /\ status[m] = "queued" /\ pc[r] = "publishing"
         /\ m \in delivered => m \in excused
<1>1. m \in Id /\ m \in Batch(r)
  BY DEF IInv, TypeOK, Batch
<1>2. status[m] = "queued" /\ pc[r] = "publishing"
  BY <1>1 DEF IInv, BatchQueued, OpenBatch
<1>3. \A s \in Relay : m \notin acked[s]
  BY <1>1 DEF IInv, RowHeldOnce, AckedOnce, Batch
<1> QED
  BY <1>1, <1>2, <1>3 DEF IInv, Accounted

LEMMA AcceptIInv ==
  ASSUME IInv, NEW r \in Relay, Accept(r)
  PROVE  IInv'
<1> PICK m \in Id \ Poison :
      /\ IsNext(r, m)
      /\ todo'  = [todo  EXCEPT ![r] = @ \ {m}]
      /\ acked' = [acked EXCEPT ![r] = @ \cup {m}]
      /\ Deliver(m)
      /\ UNCHANGED <<rows, failed, txAge, run, excused>>
  BY DEF Accept
<1>1. m \in todo[r]
  BY DEF IsNext
<1>2. /\ status[m] = "queued" /\ pc[r] = "publishing"
      /\ m \in delivered => m \in excused
  BY <1>1, TodoExcused
<1>3. TypeOK'
  BY DEF IInv, TypeOK, Deliver, rows, run
<1>4. \A s \in Relay : Batch(s)' = Batch(s)
  BY <1>1 DEF Batch, IInv, TypeOK
<1>5. OpenBatch' /\ BatchQueued' /\ RowHeldOnce'
  BY <1>4 DEF IInv, OpenBatch, BatchQueued, RowHeldOnce, rows, run
<1>6. AckedOnce'
  BY DEF IInv, TypeOK, AckedOnce, Deliver
<1>7. Accounted'
  BY DEF IInv, TypeOK, Accounted, Deliver, rows
<1>8. NoLoss' /\ CommittedOnly' /\ DuplicatesExcused'
  BY <1>2 DEF IInv, NoLoss, CommittedOnly, DuplicatesExcused, Deliver, rows
<1> QED
  BY <1>3, <1>5, <1>6, <1>7, <1>8 DEF IInv

(* A recorded rejection; whether the far end accepted the message or not,  *)
(* an acceptance here is excused by the lost acknowledgement.              *)
LEMMA RecordFailureIInv ==
  ASSUME IInv, NEW r \in Relay, NEW m \in Id, RecordFailure(r, m),
         faults' \in 0..MaxFaults,
         \/ UNCHANGED broker
         \/ Deliver(m) /\ excused' = excused \cup {m}
  PROVE  IInv'
<1>1. m \in todo[r]
  BY DEF RecordFailure, IsNext
<1>2. status[m] = "queued" /\ (m \in delivered => m \in excused)
  BY <1>1, TodoExcused
<1>3. /\ delivered \subseteq delivered' /\ delivered' \subseteq delivered \cup {m}
      /\ excused \subseteq excused' /\ excused' \subseteq excused \cup {m}
      /\ dup' \subseteq dup \cup {m}
      /\ m \in delivered' \ delivered => m \in excused'
      /\ m \in dup' \ dup => m \in excused'
  BY <1>2 DEF Deliver, broker
<1>4. TypeOK'
  BY <1>3 DEF IInv, TypeOK, RecordFailure, rows
<1>5. \A s \in Relay : Batch(s)' = Batch(s)
  BY <1>1 DEF Batch, IInv, TypeOK, RecordFailure
<1>6. OpenBatch' /\ BatchQueued' /\ RowHeldOnce'
  BY <1>5 DEF IInv, OpenBatch, BatchQueued, RowHeldOnce, RecordFailure, rows
<1>7. AckedOnce'
  BY <1>3 DEF IInv, TypeOK, AckedOnce, RecordFailure
<1>8. Accounted'
  BY <1>3 DEF IInv, Accounted, RecordFailure, rows
<1>9. NoLoss' /\ CommittedOnly' /\ DuplicatesExcused'
  BY <1>2, <1>3 DEF IInv, NoLoss, CommittedOnly, DuplicatesExcused, RecordFailure, rows
<1> QED
  BY <1>4, <1>6, <1>7, <1>8, <1>9 DEF IInv

LEMMA RejectSteps ==
  ASSUME IInv, NEW r \in Relay,
         RejectPoison(r) \/ RejectTransiently(r) \/ LoseAck(r)
  PROVE  IInv'
<1>1. \E m \in Id :
        /\ RecordFailure(r, m)
        /\ faults' \in 0..MaxFaults
        /\ UNCHANGED broker \/ (Deliver(m) /\ excused' = excused \cup {m})
  BY IdAssumption, BoundAssumption
  DEF RejectPoison, RejectTransiently, LoseAck, Fault, IInv, TypeOK
<1> QED
  BY <1>1, RecordFailureIInv

(* A commit marks exactly the ids that were collected as published. *)
LEMMA ApplyBatchIInv ==
  ASSUME IInv, NEW r \in Relay, ApplyBatch(r),
         NEW p \in Places, pc' = [pc EXCEPT ![r] = p],
         faults' \in 0..MaxFaults
  PROVE  IInv'
<1>1. EndTx(r) /\ TypeOK
  BY DEF ApplyBatch, IInv
<1>2. /\ todo' \in [Relay -> SUBSET Id] /\ acked' \in [Relay -> SUBSET Id]
      /\ failed' \in [Relay -> SUBSET Id] /\ txAge' \in [Relay -> 0..MaxBackoff]
      /\ Batch(r)' = {} /\ acked'[r] = {}
      /\ \A s \in Relay \ {r} : /\ Batch(s)' = Batch(s)
                                /\ acked'[s] = acked[s] /\ todo'[s] = todo[s]
  BY <1>1, EndTxBatch
<1>3. \A m \in Id : status'[m] = IF m \in acked[r] THEN "sent" ELSE status[m]
  BY DEF ApplyBatch
<1>4. acked[r] \subseteq Id /\ acked[r] \subseteq Batch(r) /\ acked[r] \subseteq delivered
  BY DEF IInv, TypeOK, AckedOnce, Batch
<1>5. TypeOK'
  <2>1. status' \in [Id -> Statuses]
    BY DEF ApplyBatch, IInv, TypeOK, Statuses
  <2>2. /\ \A m \in Id : attempts[m] \in Nat /\ attempts[m] + 1 \in Nat
        /\ txAge[r] \in Nat
    BY BackoffAssumption DEF IInv, TypeOK
  <2>3. \A m \in Id : /\ AtMost(attempts[m] + 1, MaxExponent) \in 0..MaxExponent
                     /\ Minus(Backoff(attempts[m] + 1), txAge[r]) \in 0..MaxBackoff
    <3> TAKE m \in Id
    <3>1. AtMost(attempts[m] + 1, MaxExponent) \in 0..MaxExponent
      BY <2>2, BackoffAssumption DEF AtMost
    <3> QED
      BY <2>2, <3>1, BackoffRange
  <2>4. attempts' \in [Id -> 0..MaxExponent]
    BY <2>3 DEF ApplyBatch, IInv, TypeOK
  <2>5. delay' \in [Id -> 0..MaxBackoff]
    BY <2>3 DEF ApplyBatch, IInv, TypeOK
  <2> QED
    BY <1>2, <2>1, <2>4, <2>5 DEF ApplyBatch, IInv, TypeOK, broker
<1>6. OpenBatch' /\ RowHeldOnce'
  BY <1>2 DEF IInv, TypeOK, OpenBatch, RowHeldOnce
<1>7. BatchQueued'
  <2>1. \A s \in Relay : \A m \in Batch(s)' : s # r /\ m \in Batch(s) /\ m \notin acked[r]
    BY <1>2, <1>4 DEF IInv, RowHeldOnce
  <2>2. \A s \in Relay : Batch(s) \subseteq Id
    BY DEF IInv, TypeOK, Batch
  <2> QED
    BY <1>3, <2>1, <2>2 DEF IInv, BatchQueued
<1>8. AckedOnce'
  BY <1>2 DEF IInv, AckedOnce, ApplyBatch, broker
<1>9. Accounted'
  BY <1>2, <1>3 DEF IInv, TypeOK, Accounted, ApplyBatch, broker
<1>10. NoLoss' /\ CommittedOnly' /\ DuplicatesExcused'
  BY <1>3, <1>4 DEF IInv, TypeOK, NoLoss, CommittedOnly, DuplicatesExcused, ApplyBatch, broker
<1> QED
  BY <1>5, <1>6, <1>7, <1>8, <1>9, <1>10 DEF IInv

LEMMA CommitSteps ==
  ASSUME IInv, NEW r \in Relay, Commit(r) \/ CommitUnheard(r)
  PROVE  IInv'
<1>1. /\ ApplyBatch(r) /\ faults' \in 0..MaxFaults
      /\ \E p \in Places : pc' = [pc EXCEPT ![r] = p]
  BY BoundAssumption DEF Commit, CommitUnheard, Fault, IInv, TypeOK, Places
<1> QED
  BY <1>1, ApplyBatchIInv

-----------------------------------------------------------------------------
(* The invariant, and what follows from it. *)

LEMMA NextIInv == IInv /\ [Next]_vars => IInv'
<1> SUFFICES ASSUME IInv, [Next]_vars PROVE IInv'
  OBVIOUS
<1>1. CASE Writer
  BY <1>1, WriterStep
<1>2. ASSUME NEW r \in Relay, RelayStep(r)
      PROVE  IInv'
  <2>1. CASE \/ Poll(r) \/ Stop(r) \/ EndDrain(r) \/ FetchFails(r)
             \/ Cancel(r) \/ Restart(r)
    BY <2>1, QuietSteps, QuietStepIInv
  <2>2. CASE Fetch(r)
    BY <2>2, FetchIInv
  <2>3. CASE Publish(r)
    BY <2>3, AcceptIInv, RejectSteps DEF Publish
  <2>4. CASE RecordFails(r) \/ AbandonBatch(r) \/ CommitFails(r) \/ Crash(r)
    BY <2>4, RollbackSteps
  <2>5. CASE Commit(r) \/ CommitUnheard(r)
    BY <2>5, CommitSteps
  <2> QED
    BY <1>2, <2>1, <2>2, <2>3, <2>4, <2>5 DEF RelayStep
<1>3. CASE PurgeStatement
  BY <1>3, PurgeStep
<1>4. CASE Tick
  BY <1>4, TickStep
<1>5. CASE UNCHANGED vars
  BY <1>5 DEF vars, rows, batch, run, broker, IInv, TypeOK, OpenBatch, BatchQueued,
              RowHeldOnce, AckedOnce, NoLoss, CommittedOnly, Accounted,
              DuplicatesExcused, Batch
<1> QED
  BY <1>1, <1>2, <1>3, <1>4, <1>5 DEF Next

\* The invariant holds in every reachable state, for any number of messages
\* and relays, any batch size and any number of faults.
THEOREM Invariance == Spec => []IInv
<1> QED
  BY InitIInv, NextIInv, PTL DEF Spec

\* Every variable stays in its range (columns, relay states, row sets).
THEOREM TypeCorrect == Spec => []TypeOK
<1>1. IInv => TypeOK
  BY DEF IInv
<1> QED
  BY <1>1, Invariance, PTL

\* MarkOutboxPublished and the purge never lose a message.
THEOREM NothingLost == Spec => []NoLoss
<1>1. IInv => NoLoss
  BY DEF IInv
<1> QED
  BY <1>1, Invariance, PTL

\* No message goes out for a change that did not commit.
THEOREM NothingInvented == Spec => []CommittedOnly
<1>1. IInv => CommittedOnly
  BY DEF IInv
<1> QED
  BY <1>1, Invariance, PTL

\* A duplicate is always the second attempt after one that did not count.
THEOREM NoStrayDuplicate == Spec => []DuplicatesExcused
<1>1. IInv => DuplicatesExcused
  BY DEF IInv
<1> QED
  BY <1>1, Invariance, PTL

\* Concurrent relays never hold the same row.
THEOREM ExclusiveRows == Spec => []RowHeldOnce
<1>1. IInv => RowHeldOnce
  BY DEF IInv
<1> QED
  BY <1>1, Invariance, PTL

-----------------------------------------------------------------------------
(* Refinement of AtLeastOnce. *)

LEMMA StageInit == Init => Promise!Init
  BY DEF Init, Promise!Init, stage

(* A step that leaves the rows' life and the far end alone is a stutter. *)
LEMMA StageStutter ==
  UNCHANGED <<status, delivered>> => UNCHANGED stage
  BY DEF stage

LEMMA StageWriter == IInv /\ Writer => [Promise!Next]_stage
<1> SUFFICES ASSUME IInv, NEW m \in Id,
                    Enqueue(m) \/ CommitWriter(m) \/ AbortWriter(m)
             PROVE  [Promise!Next]_stage
  BY DEF Writer
<1>1. UNCHANGED delivered
  BY DEF Enqueue, CommitWriter, AbortWriter, EndWriter, broker
<1>2. CASE Enqueue(m) \/ AbortWriter(m)
  <2>1. /\ \A k \in Id : k # m => status'[k] = status[k]
        /\ status[m] \in {"absent", "inserting"}
        /\ status'[m] \in {"inserting", "aborted"}
    BY <1>2 DEF Enqueue, AbortWriter, EndWriter, IInv, TypeOK
  <2> QED
    BY <1>1, <2>1 DEF stage
<1>3. CASE CommitWriter(m)
  <2>1. /\ \A k \in Id : k # m => status'[k] = status[k]
        /\ status[m] = "inserting" /\ status'[m] = "queued"
    BY <1>3 DEF CommitWriter, EndWriter, IInv, TypeOK
  <2>2. m \notin delivered
    BY <2>1 DEF IInv, CommittedOnly
  <2>3. Promise!Owe(m)
    BY <1>1, <2>1, <2>2 DEF stage, Promise!Owe
  <2> QED
    BY <2>3 DEF Promise!Next
<1> QED
  BY <1>2, <1>3

(* Accepting a message delivers it, or has done so before. *)
LEMMA StageDeliver ==
  ASSUME IInv, NEW r \in Relay, NEW m \in todo[r], Deliver(m), UNCHANGED status
  PROVE  [Promise!Next]_stage
<1>1. m \in Id /\ status[m] = "queued"
  BY TodoExcused
<1>2. CASE m \in delivered
  BY <1>2 DEF Deliver, stage
<1>3. CASE m \notin delivered
  <2>1. Promise!Deliver(m)
    BY <1>1, <1>3 DEF Deliver, stage, Promise!Deliver
  <2> QED
    BY <1>1, <2>1 DEF Promise!Next
<1> QED
  BY <1>2, <1>3

(* A commit settles what the batch delivered. *)
LEMMA StageCommit ==
  ASSUME IInv, NEW r \in Relay, ApplyBatch(r)
  PROVE  [Promise!Next]_stage
<1>1. /\ acked[r] \subseteq Id /\ acked[r] \subseteq delivered
      /\ \A m \in acked[r] : status[m] = "queued"
  BY DEF IInv, TypeOK, AckedOnce, BatchQueued, Batch
<1>2. /\ \A m \in Id : status'[m] = IF m \in acked[r] THEN "sent" ELSE status[m]
      /\ UNCHANGED delivered
  BY DEF ApplyBatch, broker
<1>3. Promise!Settle(acked[r])
  BY <1>1, <1>2 DEF stage, Promise!Settle
<1> QED
  BY <1>1, <1>3 DEF Promise!Next

LEMMA StageRelay ==
  ASSUME IInv, NEW r \in Relay, RelayStep(r)
  PROVE  [Promise!Next]_stage
<1>1. CASE \/ Poll(r) \/ Stop(r) \/ EndDrain(r) \/ FetchFails(r)
           \/ Cancel(r) \/ Restart(r)
  BY <1>1, QuietSteps, StageStutter DEF QuietStep, rows, broker
<1>2. CASE Fetch(r)
  BY <1>2, StageStutter DEF Fetch, rows, broker
<1>3. CASE Accept(r) \/ LoseAck(r)
  <2>1. \E m \in todo[r] : Deliver(m) /\ UNCHANGED status
    BY <1>3 DEF Accept, LoseAck, RecordFailure, IsNext, rows
  <2> QED
    BY <2>1, StageDeliver
<1>4. CASE RejectPoison(r) \/ RejectTransiently(r)
  BY <1>4, StageStutter DEF RejectPoison, RejectTransiently, RecordFailure, rows, broker
<1>5. CASE RecordFails(r) \/ AbandonBatch(r) \/ CommitFails(r) \/ Crash(r)
  BY <1>5, StageStutter
  DEF RecordFails, AbandonBatch, CommitFails, Crash, Rollback, rows
<1>6. CASE Commit(r) \/ CommitUnheard(r)
  BY <1>6, StageCommit DEF Commit, CommitUnheard
<1> QED
  BY <1>1, <1>2, <1>3, <1>4, <1>5, <1>6 DEF RelayStep, Publish

\* The outbox implements AtLeastOnce: a committed message is owed, is accepted
\* at least once and is only then settled, through every crash, rejection and
\* lost reply.
THEOREM Refinement == Spec => Implements
<1>1. IInv /\ [Next]_vars => [Promise!Next]_stage
  <2> SUFFICES ASSUME IInv, [Next]_vars PROVE [Promise!Next]_stage
    OBVIOUS
  <2>1. CASE Writer
    BY <2>1, StageWriter
  <2>2. CASE \E r \in Relay : RelayStep(r)
    BY <2>2, StageRelay
  <2>3. CASE PurgeStatement
    <3>1. /\ UNCHANGED delivered
          /\ \A m \in Id : \/ status'[m] = status[m]
                           \/ status[m] = "sent" /\ status'[m] = "purged"
      BY <2>3 DEF PurgeStatement, broker
    <3> QED
      BY <3>1 DEF stage
  <2>4. CASE Tick \/ UNCHANGED vars
    BY <2>4, StageStutter DEF Tick, vars, rows, broker
  <2> QED
    BY <2>1, <2>2, <2>3, <2>4 DEF Next
<1> QED
  BY <1>1, StageInit, Invariance, PTL DEF Spec, Implements, Promise!Spec
=============================================================================
