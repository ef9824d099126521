------------------------------- MODULE Outbox -------------------------------
(***************************************************************************)
(* The transactional outbox: writers insert event rows in the transaction  *)
(* of the change they report (Enqueue), relays of several instances fetch, *)
(* publish and mark them in batches (Relay.Run, drain, ProcessBatch), and  *)
(* the retention purge deletes rows that were marked.  PostgreSQL is       *)
(* modelled by what these statements rely on: row locks taken with SKIP    *)
(* LOCKED, rows of an open transaction invisible to the others, now() fixed*)
(* at BEGIN, and a commit the client may not hear of.                      *)
(*                                                                         *)
(* One tick of the clock is one second.  Times are kept as countdowns, so  *)
(* that the state space is finite without a horizon.                       *)
(***************************************************************************)
EXTENDS Integers, FiniteSets

CONSTANTS Id,           \* row ids the identity column hands out
          Poison,       \* ids of messages the publisher always rejects
          Relay,        \* one relay per running instance
          BatchSize,    \* BatchSize[r]: rows per batch (may be zero or less)
          Interval,     \* ticks between two polls
          MaxExponent,  \* back-off exponent cap (12 in queries.sql)
          MaxBackoff,   \* back-off cap (one hour in queries.sql)
          Prompt,       \* TRUE: a due poll and an open batch take no tick
          MaxFaults     \* bound on crashes, cancels and failed calls

ASSUME IdAssumption == Id \subseteq Nat /\ Poison \subseteq Id
ASSUME SizeAssumption == BatchSize \in [Relay -> Int] /\ Interval \in Nat \ {0}
ASSUME BackoffAssumption == MaxExponent \in Nat \ {0} /\ MaxBackoff \in Nat \ {0}
ASSUME BoundAssumption == Prompt \in BOOLEAN /\ MaxFaults \in Nat

VARIABLES
  status,     \* status[m]: where row m is in its life
  attempts,   \* attempts[m]: the attempts column, capped at MaxExponent
  delay,      \* delay[m]: ticks until next_attempt_at
  pc,         \* pc[r]: where relay r is
  todo,       \* todo[r]: fetched rows not yet given to the publisher
  acked,      \* acked[r]: ids ProcessBatch has collected as published
  failed,     \* failed[r]: rows whose rejection the open batch recorded
  txAge,      \* txAge[r]: ticks since the open batch began, capped at MaxBackoff
  sleep,      \* sleep[r]: ticks until the ticker fires, 0 when it has
  cancelled,  \* relays whose context is done
  faults,     \* faults spent so far
  delivered,  \* history: messages the publisher's far end accepted
  dup,        \* history: messages accepted more than once
  excused     \* history: messages accepted in an attempt that did not count

rows   == <<status, attempts, delay>>
batch  == <<todo, acked, failed, txAge>>
run    == <<pc, sleep, cancelled, faults>>
broker == <<delivered, dup, excused>>
vars   == <<rows, batch, run, broker>>

Statuses == {"absent", "inserting", "aborted", "queued", "sent", "purged"}
Places   == {"waiting", "draining", "publishing", "stopped"}

TypeOK ==
  /\ status    \in [Id -> Statuses]
  /\ attempts  \in [Id -> 0..MaxExponent]
  /\ delay     \in [Id -> 0..MaxBackoff]
  /\ pc        \in [Relay -> Places]
  /\ todo      \in [Relay -> SUBSET Id]
  /\ acked     \in [Relay -> SUBSET Id]
  /\ failed    \in [Relay -> SUBSET Id]
  /\ txAge     \in [Relay -> 0..MaxBackoff]
  /\ sleep     \in [Relay -> 0..Interval]
  /\ cancelled \subseteq Relay
  /\ faults    \in 0..MaxFaults
  /\ delivered \subseteq Id /\ dup \subseteq Id /\ excused \subseteq Id

-----------------------------------------------------------------------------
(* Helpers *)

AtMost(x, bound) == IF x <= bound THEN x ELSE bound
\* Mutant: no clamp, a time in the past is a negative countdown.
MinusUnclamped(x, y) == x - y
Minus(x, y)      == IF y <= x THEN x - y ELSE 0

\* Mutant: every retry waits one second, whatever the attempts.
BackoffFlat(n) == AtMost(1, MaxBackoff)

\* least(make_interval(secs => power(2, least(attempts + 1, 12))), '1 hour')
Backoff(n) == AtMost(2 ^ AtMost(n, MaxExponent), MaxBackoff)

\* The rows relay r has locked FOR UPDATE.
Batch(r) == todo[r] \cup acked[r] \cup failed[r]
Locked   == UNION {Batch(r) : r \in Relay}

\* Mutant: rows of open writer transactions are read too.
DueUncommitted ==
  {m \in Id : status[m] \in {"inserting", "queued"} /\ delay[m] = 0} \ Locked

\* Mutant: FOR UPDATE SKIP LOCKED is missing.
DueUnlocked == {m \in Id : status[m] = "queued" /\ delay[m] = 0}

\* Mutant: a rejected message is never fetched again.
DueFirstAttempt ==
  {m \in Id : status[m] = "queued" /\ delay[m] = 0 /\ attempts[m] = 0} \ Locked

\* WHERE published_at IS NULL AND next_attempt_at <= now() ... SKIP LOCKED
Due == {m \in Id : status[m] = "queued" /\ delay[m] = 0} \ Locked

\* ORDER BY id LIMIT n
FirstOf(S, n) == {m \in S : Cardinality({k \in S : k <= m}) <= n}

\* Mutant: the n == 0 test is missing.
ContinuesOnEmpty(r, n) == ~(n < BatchSize[r])

\* Relay r's drain goes round again after a batch that published n messages.
Continues(r, n) == ~(n = 0 \/ n < BatchSize[r])

\* The row ProcessBatch hands to Publish next: the batch is in id order.
IsNext(r, m) == m \in todo[r] /\ \A k \in todo[r] : m <= k

Fault == faults < MaxFaults /\ faults' = faults + 1

\* Mutant: the transaction is left open, its locks stay.
EndTxLeak(r) ==
  /\ todo' = [todo EXCEPT ![r] = {}]
  /\ UNCHANGED <<acked, failed, txAge>>

\* The end of relay r's transaction, committed or not: its locks are gone.
EndTx(r) ==
  /\ todo'   = [todo   EXCEPT ![r] = {}]
  /\ acked'  = [acked  EXCEPT ![r] = {}]
  /\ failed' = [failed EXCEPT ![r] = {}]
  /\ txAge'  = [txAge  EXCEPT ![r] = 0]

\* WithinTx rolls back: what the far end accepted will be sent again.
Rollback(r) ==
  /\ EndTx(r)
  /\ excused' = excused \cup acked[r]
  /\ UNCHANGED <<rows, delivered, dup>>

\* The far end accepts m.
Deliver(m) ==
  /\ delivered' = delivered \cup {m}
  /\ dup' = IF m \in delivered THEN dup \cup {m} ELSE dup

-----------------------------------------------------------------------------
Init ==
  /\ status    = [m \in Id |-> "absent"]
  /\ attempts  = [m \in Id |-> 0]
  /\ delay     = [m \in Id |-> 0]
  /\ pc        = [r \in Relay |-> "waiting"]
  /\ todo      = [r \in Relay |-> {}]
  /\ acked     = [r \in Relay |-> {}]
  /\ failed    = [r \in Relay |-> {}]
  /\ txAge     = [r \in Relay |-> 0]
  /\ sleep     = [r \in Relay |-> Interval]
  /\ cancelled = {}
  /\ faults    = 0
  /\ delivered = {} /\ dup = {} /\ excused = {}

(* Writers.  Ids are drawn at the INSERT, in order; transactions commit in *)
(* any order, or abort and leave a gap.                                    *)

Enqueue(m) ==
  /\ status[m] = "absent"
  /\ \A k \in Id : k < m => status[k] # "absent"
  /\ status' = [status EXCEPT ![m] = "inserting"]
  /\ UNCHANGED <<attempts, delay, batch, run, broker>>

EndWriter(m, outcome) ==
  /\ status[m] = "inserting"
  /\ status' = [status EXCEPT ![m] = outcome]
  /\ UNCHANGED <<attempts, delay, batch, run, broker>>

CommitWriter(m) == EndWriter(m, "queued")
AbortWriter(m)  == EndWriter(m, "aborted")

(* Relay.Run and drain *)

\* case <-ticker.C.  The ticker keeps its own phase: after a late poll the
\* next one may be due sooner than a whole interval.
Poll(r) ==
  /\ pc[r] = "waiting" /\ sleep[r] = 0
  /\ pc' = [pc EXCEPT ![r] = "draining"]
  /\ \E d \in 1..Interval : sleep' = [sleep EXCEPT ![r] = d]
  /\ UNCHANGED <<rows, batch, cancelled, faults, broker>>

\* case <-ctx.Done(): the worker returns.
Stop(r) ==
  /\ pc[r] = "waiting" /\ r \in cancelled
  /\ pc' = [pc EXCEPT ![r] = "stopped"]
  /\ UNCHANGED <<rows, batch, sleep, cancelled, faults, broker>>

\* Mutant: the loop does not look at ctx.Err() and retries for ever.
EndDrainSpins(r) ==
  /\ pc[r] = "draining" /\ r \in cancelled
  /\ UNCHANGED vars

\* for ctx.Err() == nil ends the drain; so does a Begin or a fetch that the
\* cancelled context refuses.
EndDrain(r) ==
  /\ pc[r] = "draining" /\ r \in cancelled
  /\ pc' = [pc EXCEPT ![r] = "waiting"]
  /\ UNCHANGED <<rows, batch, sleep, cancelled, faults, broker>>

\* BEGIN and FetchUnpublishedOutbox: lock the first due rows, skipping those
\* another relay holds.  No rows: commit nothing and let drain decide.
Fetch(r) ==
  /\ pc[r] = "draining" /\ r \notin cancelled
  /\ LET fetched == FirstOf(Due, BatchSize[r]) IN
       /\ todo' = [todo EXCEPT ![r] = fetched]
       /\ pc' = [pc EXCEPT ![r] = IF fetched # {} THEN "publishing"
                                  ELSE IF Continues(r, 0) THEN "draining"
                                  ELSE "waiting"]
  /\ UNCHANGED <<rows, acked, failed, txAge, sleep, cancelled, faults, broker>>

\* BEGIN or the fetch fails: drain logs the error and ends.
FetchFails(r) ==
  /\ pc[r] = "draining" /\ Fault
  /\ pc' = [pc EXCEPT ![r] = "waiting"]
  /\ UNCHANGED <<rows, batch, sleep, cancelled, broker>>

(* The publish loop of ProcessBatch *)

Accept(r) == \E m \in Id \ Poison :
  /\ IsNext(r, m)
  /\ todo'  = [todo  EXCEPT ![r] = @ \ {m}]
  /\ acked' = [acked EXCEPT ![r] = @ \cup {m}]
  /\ Deliver(m)
  /\ UNCHANGED <<rows, failed, txAge, run, excused>>

\* Mutant: the id is appended although Publish returned an error.
RecordFailureAppends(r, m) ==
  /\ IsNext(r, m) /\ r \notin cancelled
  /\ todo'  = [todo  EXCEPT ![r] = @ \ {m}]
  /\ acked' = [acked EXCEPT ![r] = @ \cup {m}]
  /\ UNCHANGED <<rows, failed, txAge, pc, sleep, cancelled>>

\* Publish returns an error for m, and RecordOutboxFailure stores it.
RecordFailure(r, m) ==
  /\ IsNext(r, m) /\ r \notin cancelled
  /\ todo'   = [todo   EXCEPT ![r] = @ \ {m}]
  /\ failed' = [failed EXCEPT ![r] = @ \cup {m}]
  /\ UNCHANGED <<rows, acked, txAge, pc, sleep, cancelled>>

RejectPoison(r) == \E m \in Poison :
  /\ RecordFailure(r, m)
  /\ UNCHANGED <<faults, broker>>

RejectTransiently(r) == \E m \in Id \ Poison :
  /\ RecordFailure(r, m) /\ Fault
  /\ UNCHANGED broker

\* The far end accepted m but its acknowledgement was lost.
LoseAck(r) == \E m \in Id \ Poison :
  /\ RecordFailure(r, m) /\ Fault
  /\ Deliver(m)
  /\ excused' = excused \cup {m}

\* RecordOutboxFailure itself fails: the batch rolls back, drain ends.
RecordFails(r) ==
  /\ todo[r] # {} /\ Fault
  /\ Rollback(r)
  /\ pc' = [pc EXCEPT ![r] = "waiting"]
  /\ UNCHANGED <<sleep, cancelled>>

\* Publish returns an error and ctx.Err() is set, or MarkOutboxPublished or
\* the commit refuses the cancelled context: roll back, report nothing.
AbandonBatch(r) ==
  /\ pc[r] = "publishing" /\ r \in cancelled
  /\ Rollback(r)
  /\ pc' = [pc EXCEPT ![r] = "waiting"]
  /\ UNCHANGED <<sleep, cancelled, faults>>

\* Mutant: one rejection keeps the whole batch from being marked.
ApplyBatchAllOrNone(r) ==
  /\ pc[r] = "publishing" /\ todo[r] = {} /\ r \notin cancelled
  /\ status' = [m \in Id |-> IF m \in acked[r] /\ failed[r] = {}
                               THEN "sent" ELSE status[m]]
  /\ attempts' = [m \in Id |-> IF m \in failed[r]
                                 THEN AtMost(attempts[m] + 1, MaxExponent)
                                 ELSE attempts[m]]
  /\ delay' = [m \in Id |-> IF m \in failed[r]
                              THEN Minus(Backoff(attempts[m] + 1), txAge[r])
                              ELSE delay[m]]
  /\ EndTx(r)
  /\ UNCHANGED <<sleep, cancelled, broker>>

\* Mutant: published rows are not marked.
ApplyBatchUnmarked(r) ==
  /\ pc[r] = "publishing" /\ todo[r] = {} /\ r \notin cancelled
  /\ delay' = [m \in Id |-> IF m \in failed[r] THEN MaxBackoff ELSE delay[m]]
  /\ EndTx(r)
  /\ UNCHANGED <<status, attempts, sleep, cancelled, broker>>

\* MarkOutboxPublished and the recorded rejections take effect together.
\* next_attempt_at counts from now(), which is when the transaction began.
ApplyBatch(r) ==
  /\ pc[r] = "publishing" /\ todo[r] = {} /\ r \notin cancelled
  /\ status'   = [m \in Id |-> IF m \in acked[r] THEN "sent" ELSE status[m]]
  /\ attempts' = [m \in Id |-> IF m \in failed[r]
                                 THEN AtMost(attempts[m] + 1, MaxExponent)
                                 ELSE attempts[m]]
  /\ delay'    = [m \in Id |-> IF m \in failed[r]
                                 THEN Minus(Backoff(attempts[m] + 1), txAge[r])
                                 ELSE delay[m]]
  /\ EndTx(r)
  /\ UNCHANGED <<sleep, cancelled, broker>>

\* A batch that came back full and without a rejection lets drain go on.
Commit(r) ==
  /\ ApplyBatch(r)
  /\ pc' = [pc EXCEPT ![r] =
              IF failed[r] = {} /\ Continues(r, Cardinality(acked[r]))
                THEN "draining" ELSE "waiting"]
  /\ UNCHANGED faults

\* The commit takes effect but its reply is lost: drain sees an error.
CommitUnheard(r) ==
  /\ ApplyBatch(r) /\ Fault
  /\ pc' = [pc EXCEPT ![r] = "waiting"]

\* MarkOutboxPublished or the commit fails.
CommitFails(r) ==
  /\ pc[r] = "publishing" /\ todo[r] = {} /\ Fault
  /\ Rollback(r)
  /\ pc' = [pc EXCEPT ![r] = "waiting"]
  /\ UNCHANGED <<sleep, cancelled>>

(* The process around the relay *)

Cancel(r) ==
  /\ pc[r] # "stopped" /\ r \notin cancelled /\ Fault
  /\ cancelled' = cancelled \cup {r}
  /\ UNCHANGED <<rows, batch, pc, sleep, broker>>

\* The process dies: the server rolls its open transaction back.
Crash(r) ==
  /\ pc[r] # "stopped" /\ Fault
  /\ Rollback(r)
  /\ pc' = [pc EXCEPT ![r] = "stopped"]
  /\ UNCHANGED <<sleep, cancelled>>

Restart(r) ==
  /\ pc[r] = "stopped"
  /\ pc' = [pc EXCEPT ![r] = "waiting"]
  /\ sleep' = [sleep EXCEPT ![r] = Interval]
  /\ cancelled' = cancelled \ {r}
  /\ UNCHANGED <<rows, batch, faults, broker>>

\* Mutant: published_at IS NOT NULL is missing.
PurgeStatementAnyRow ==
  /\ \E D \in SUBSET {m \in Id : status[m] \in {"queued", "sent"}} :
       /\ D # {}
       /\ status' = [m \in Id |-> IF m \in D THEN "purged" ELSE status[m]]
  /\ UNCHANGED <<attempts, delay, batch, run, broker>>

(* One statement of PurgePublished, by the reaper of any instance.  Any row *)
(* that was marked may be older than the retention.                        *)
PurgeStatement ==
  /\ \E D \in SUBSET {m \in Id : status[m] = "sent"} :
       /\ D # {}
       /\ status' = [m \in Id |-> IF m \in D THEN "purged" ELSE status[m]]
  /\ UNCHANGED <<attempts, delay, batch, run, broker>>

\* A second passes.  With Prompt, never while a poll is due or a batch open.
Tick ==
  /\ Prompt => \A r \in Relay : pc[r] = "stopped" \/ (pc[r] = "waiting" /\ sleep[r] > 0)
  /\ delay' = [m \in Id |-> Minus(delay[m], 1)]
  /\ sleep' = [r \in Relay |-> Minus(sleep[r], 1)]
  /\ txAge' = [r \in Relay |-> IF pc[r] = "publishing"
                                 THEN AtMost(txAge[r] + 1, MaxBackoff) ELSE 0]
  /\ UNCHANGED <<status, attempts, todo, acked, failed, pc, cancelled, faults, broker>>

-----------------------------------------------------------------------------
Writer == \E m \in Id : Enqueue(m) \/ CommitWriter(m) \/ AbortWriter(m)

Publish(r) == Accept(r) \/ RejectPoison(r) \/ RejectTransiently(r) \/ LoseAck(r)

RelayStep(r) ==
  \/ Poll(r) \/ Stop(r) \/ EndDrain(r) \/ Fetch(r) \/ FetchFails(r)
  \/ Publish(r) \/ RecordFails(r) \/ AbandonBatch(r)
  \/ Commit(r) \/ CommitUnheard(r) \/ CommitFails(r)
  \/ Cancel(r) \/ Crash(r) \/ Restart(r)

Next == Writer \/ (\E r \in Relay : RelayStep(r)) \/ PurgeStatement \/ Tick

Spec == Init /\ [][Next]_vars

(* What the scheduler, the server and the publisher owe: a running relay   *)
(* goes on, a stopped instance is started again, and a message that is not *)
(* poison is accepted once MaxFaults faults have been spent.  Stop is fair *)
(* even if a poll is due each time: select picks among ready cases at      *)
(* random, so it does not pass ctx.Done() over for ever.                   *)
Fairness ==
  /\ WF_vars(Tick)
  /\ \A r \in Relay :
       /\ WF_vars(Poll(r)) /\ SF_vars(Stop(r)) /\ WF_vars(EndDrain(r))
       /\ WF_vars(Fetch(r)) /\ WF_vars(Publish(r)) /\ WF_vars(Commit(r))
       /\ WF_vars(AbandonBatch(r)) /\ WF_vars(Restart(r))

FairSpec == Spec /\ Fairness

-----------------------------------------------------------------------------
(* What the outbox promises *)

\* Publication is not lost: a row is marked, and later purged, only when the
\* publisher has accepted its message (ProcessBatch, MarkOutboxPublished).
NoLoss == \A m \in Id : status[m] \in {"sent", "purged"} => m \in delivered

\* Nothing is published for a change that did not commit: the event row is
\* part of the writer's transaction (Enqueue).
CommittedOnly == \A m \in delivered : status[m] \in {"queued", "sent", "purged"}

\* A message goes out twice only if an earlier attempt was lost: its batch
\* rolled back or its acknowledgement never came.  Neither a second relay nor
\* the rejection of another message of the batch is such a cause.
DuplicatesExcused == dup \subseteq excused

\* Two relays never work on the same row (FOR UPDATE SKIP LOCKED).
RowHeldOnce == \A r, s \in Relay : r # s => Batch(r) \cap Batch(s) = {}

\* The inductive invariant behind these: only an open batch holds rows, all of
\* them still queued; an id collected as published was accepted; and what was
\* accepted is marked, about to be marked, or excused.
OpenBatch == \A r \in Relay : pc[r] # "publishing" => Batch(r) = {}
BatchQueued == \A r \in Relay : \A m \in Batch(r) : status[m] = "queued"
AckedOnce == \A r \in Relay : acked[r] \subseteq delivered /\ acked[r] \cap todo[r] = {}
Accounted ==
  \A m \in delivered : \/ m \in excused
                       \/ status[m] \in {"sent", "purged"}
                       \/ \E r \in Relay : m \in acked[r]

IInv ==
  /\ TypeOK
  /\ OpenBatch /\ BatchQueued /\ RowHeldOnce /\ AckedOnce
  /\ NoLoss /\ CommittedOnly /\ Accounted /\ DuplicatesExcused

\* The outbox as its package comment puts it: published at least once.
stage == [m \in Id |->
            IF status[m] \in {"sent", "purged"} THEN "settled"
            ELSE IF status[m] # "queued" THEN "unborn"
            ELSE IF m \in delivered THEN "delivered" ELSE "owed"]

Promise == INSTANCE AtLeastOnce WITH Message <- Id

\* Every step of writers, relays, faults and the purge is a step of
\* AtLeastOnce or leaves it unchanged.
Implements == Promise!Spec

\* A rejected message backs off before it is fetched again (ProcessBatch): it
\* is not due at the moment the batch that recorded the rejection commits.
BacksOff ==
  [][\A r \in Relay : ApplyBatch(r) => \A m \in failed[r] : delay'[m] > 0]_vars

\* A committed message reaches the far end and is marked, however many
\* poison messages lie before it in the table.
EventuallySent ==
  \A m \in Id \ Poison : status[m] = "queued" ~> status[m] \in {"sent", "purged"}

\* A drain ends, all its rounds of fetching and publishing together: since rows
\* stop coming, a relay that polled is back at its ticker in the end, whatever its
\* batch size, and also beside messages that are rejected for ever (drain goes on
\* only after a batch that was full, not empty, and free of rejections).
DrainEnds ==
  \A r \in Relay :
    pc[r] \in {"draining", "publishing"} ~> pc[r] \in {"waiting", "stopped"}

\* A relay whose context is done returns, and leaves no row locked.
CancelStops ==
  \A r \in Relay : r \in cancelled ~> (pc[r] = "stopped" /\ Batch(r) = {})
=============================================================================
