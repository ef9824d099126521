---------------------------- MODULE Maintenance ----------------------------
(***************************************************************************)
(* The reapers of several instances on one database: rounds at start-up    *)
(* and at each tick (Run, runTasks), and their two tasks, PurgeExpired and *)
(* the batches of PurgePublished, while requests put claims and relays     *)
(* publish messages.                                                       *)
(*                                                                         *)
(* There is no date: a published row has an age, capped once it is past    *)
(* the retention, and a claim the rest of its life.  A row that is deleted *)
(* leaves its place to a new message, so the inflow never ends.            *)
(***************************************************************************)
EXTENDS Integers, FiniteSets

CONSTANTS Reaper,
          Row,        \* places of rows in outbox_messages
          Key,        \* keys of claims
          BatchSize,  \* purgeBatchSize
          Retention,  \* ticks a published row is kept
          TTL,        \* ticks a claim lives
          Interval,   \* ticks between two rounds
          MaxFaults   \* bound on failures, cancels and crashes

ASSUME BatchAssumption == BatchSize \in Nat \ {0}
ASSUME PeriodAssumption == Retention \in Nat /\ TTL \in Nat \ {0} /\ Interval \in Nat \ {0}
ASSUME FaultAssumption == MaxFaults \in Nat

Tasks == {"idempotency-keys", "outbox-messages"}

VARIABLES
  row,        \* row[m]: Free, Queued, or its age since it was published
  claim,      \* claim[k]: ticks until it expires, or None
  broken,     \* tasks that fail whenever they run
  pc,         \* pc[r]: where Run of r is
  sleep,      \* sleep[r]: ticks until the ticker fires
  told,       \* reapers whose context is done
  due,        \* due[r]: rows published before the cutoff of r's purge
  rows,       \* rows[r]: what r's running statement has selected
  keys,       \* keys[r]: likewise of idempotency_keys
  faults

tables   == <<row, claim>>
local    == <<sleep, told>>
reapVars == <<tables, broken, pc, local, due, rows, keys, faults>>

Free   == -2
Queued == -1
Old    == Retention + 1
None   == -1   \* no claim
Places == {"stopped", "starting", "keys", "deleting keys", "rows", "deleting rows", "waiting"}

ReapTypeOK ==
  /\ row \in [Row -> Free..Old]
  /\ claim \in [Key -> None..TTL]
  /\ broken \subseteq Tasks
  /\ pc \in [Reaper -> Places] /\ sleep \in [Reaper -> 0..Interval]
  /\ told \subseteq Reaper
  /\ due \in [Reaper -> SUBSET Row] /\ rows \in [Reaper -> SUBSET Row]
  /\ keys \in [Reaper -> SUBSET Key]
  /\ faults \in 0..MaxFaults

ReapInit ==
  /\ row = [m \in Row |-> Free] /\ claim = [k \in Key |-> None]
  /\ broken \in SUBSET Tasks
  /\ pc = [r \in Reaper |-> "starting"] /\ sleep = [r \in Reaper |-> 0]
  /\ told = {}
  /\ due = [r \in Reaper |-> {}] /\ rows = [r \in Reaper |-> {}]
  /\ keys = [r \in Reaper |-> {}]
  /\ faults = 0

Fault == faults < MaxFaults /\ faults' = faults + 1

Aged(m)    == row[m] >= 0
Expired(k) == claim[k] = 0

-----------------------------------------------------------------------------
(* Requests, relays and the clock *)

Enqueue(m) ==
  /\ row[m] = Free /\ row' = [row EXCEPT ![m] = Queued]
  /\ UNCHANGED <<claim, broken, pc, local, due, rows, keys, faults>>

MarkPublished(m) ==
  /\ row[m] = Queued /\ row' = [row EXCEPT ![m] = 0]
  /\ UNCHANGED <<claim, broken, pc, local, due, rows, keys, faults>>

\* PutIdempotencyKey: a new claim, or one that takes the place of an expired one.
PutClaim(k) ==
  /\ claim[k] = None \/ Expired(k)
  /\ claim' = [claim EXCEPT ![k] = TTL]
  /\ UNCHANGED <<row, broken, pc, local, due, rows, keys, faults>>

ReapTick ==
  /\ row' = [m \in Row |-> IF Aged(m) /\ row[m] < Old THEN row[m] + 1 ELSE row[m]]
  /\ claim' = [k \in Key |-> IF claim[k] \in 1..TTL THEN claim[k] - 1 ELSE claim[k]]
  /\ sleep' = [r \in Reaper |-> IF sleep[r] > 0 THEN sleep[r] - 1 ELSE 0]
  /\ UNCHANGED <<broken, pc, told, due, rows, keys, faults>>

-----------------------------------------------------------------------------
(* Run *)

Go(r, from, to) == pc[r] = from /\ pc' = [pc EXCEPT ![r] = to]

\* ctx.Err() is checked, then the first round runs before the ticker exists.
Start(r) ==
  /\ Go(r, "starting", IF r \in told THEN "stopped" ELSE "keys")
  /\ UNCHANGED <<tables, broken, local, due, rows, keys, faults>>

\* PurgePublished fixes its cutoff once.
BeginRows(r) == due' = [due EXCEPT ![r] = {m \in Row : row[m] = Old}]

\* Mutant: runTasks returns at the first error.
KeysFailReturns(r) ==
  /\ pc[r] \in {"keys", "deleting keys"}
  /\ \/ "idempotency-keys" \in broken /\ UNCHANGED faults
     \/ r \in told /\ UNCHANGED faults
     \/ Fault
  /\ pc' = [pc EXCEPT ![r] = "waiting"] /\ keys' = [keys EXCEPT ![r] = {}]
  /\ sleep' = [sleep EXCEPT ![r] = Interval]
  /\ UNCHANGED <<tables, broken, told, due, rows>>

\* PurgeExpired returns an error, which is logged; the next task runs.
KeysFail(r) ==
  /\ pc[r] \in {"keys", "deleting keys"}
  /\ \/ "idempotency-keys" \in broken /\ UNCHANGED faults
     \/ r \in told /\ UNCHANGED faults
     \/ Fault
  /\ pc' = [pc EXCEPT ![r] = "rows"] /\ keys' = [keys EXCEPT ![r] = {}]
  /\ BeginRows(r)
  /\ UNCHANGED <<tables, broken, local, rows>>

\* PurgeExpiredIdempotencyKeys begins: its snapshot.
SelectKeys(r) ==
  /\ "idempotency-keys" \notin broken /\ r \notin told
  /\ Go(r, "keys", "deleting keys")
  /\ keys' = [keys EXCEPT ![r] = {k \in Key : Expired(k)}]
  /\ UNCHANGED <<tables, broken, local, due, rows, faults>>

\* Mutant: what was selected is deleted, whatever it has become.
DeleteKeysUnseen(r) ==
  /\ Go(r, "deleting keys", "rows")
  /\ claim' = [k \in Key |-> IF k \in keys[r] THEN None ELSE claim[k]]
  /\ keys' = [keys EXCEPT ![r] = {}]
  /\ BeginRows(r)
  /\ UNCHANGED <<row, broken, local, rows, faults>>

\* It deletes what it has selected; a row that was updated since is looked at again.
DeleteKeys(r) ==
  /\ Go(r, "deleting keys", "rows")
  /\ claim' = [k \in Key |-> IF k \in keys[r] /\ Expired(k) THEN None ELSE claim[k]]
  /\ keys' = [keys EXCEPT ![r] = {}]
  /\ BeginRows(r)
  /\ UNCHANGED <<row, broken, local, rows, faults>>

\* The round is over.  After the first one, NewTicker starts; later, ticks that
\* came meanwhile are one.
EndRound(r) ==
  /\ pc' = [pc EXCEPT ![r] = "waiting"]
  /\ rows' = [rows EXCEPT ![r] = {}] /\ due' = [due EXCEPT ![r] = {}]

Rearm(r) == \E n \in 0..Interval : sleep' = [sleep EXCEPT ![r] = n]

RowsFail(r) ==
  /\ pc[r] \in {"rows", "deleting rows"}
  /\ \/ "outbox-messages" \in broken /\ UNCHANGED faults
     \/ r \in told /\ UNCHANGED faults
     \/ Fault
  /\ EndRound(r) /\ Rearm(r)
  /\ UNCHANGED <<tables, broken, told, keys>>

\* Mutant: each statement computes its own cutoff.
CandidatesNow(r) == {m \in Row : row[m] = Old}

\* Rows the cutoff allows that still exist.
Candidates(r) == due[r]

Least(m, n) == IF m < n THEN m ELSE n

\* DeletePublishedOutboxBefore begins: it selects at most BatchSize of them, in
\* no particular order.
SelectRows(r) ==
  /\ "outbox-messages" \notin broken /\ r \notin told
  /\ Go(r, "rows", "deleting rows")
  /\ \E S \in SUBSET Candidates(r) :
       /\ Cardinality(S) = Least(BatchSize, Cardinality(Candidates(r)))
       /\ rows' = [rows EXCEPT ![r] = S]
  /\ UNCHANGED <<tables, broken, local, due, keys, faults>>

Continues(n) == n >= BatchSize

\* It deletes those that no other purge has deleted, and counts them; a full batch
\* is followed by another.
DeleteRows(r) ==
  /\ pc[r] = "deleting rows"
  /\ row' = [m \in Row |-> IF m \in rows[r] THEN Free ELSE row[m]]
  /\ IF Continues(Cardinality(rows[r]))
       THEN /\ pc' = [pc EXCEPT ![r] = "rows"]
            /\ rows' = [s \in Reaper |-> rows[s] \ rows[r]]
            /\ due' = [s \in Reaper |-> due[s] \ rows[r]]
            /\ UNCHANGED sleep
       ELSE /\ pc' = [pc EXCEPT ![r] = "waiting"]
            /\ rows' = [s \in Reaper |-> rows[s] \ rows[r]]
            /\ due' = [s \in Reaper |-> IF s = r THEN {} ELSE due[s] \ rows[r]]
            /\ Rearm(r)
  /\ UNCHANGED <<claim, broken, told, keys, faults>>

\* Mutant: only the first round runs the first task.
NextRoundSkips(r) ==
  /\ sleep[r] = 0 /\ Go(r, "waiting", "rows") /\ BeginRows(r)
  /\ UNCHANGED <<tables, broken, local, rows, keys, faults>>

NextRound(r) ==
  /\ sleep[r] = 0 /\ Go(r, "waiting", "keys")
  /\ UNCHANGED <<tables, broken, local, due, rows, keys, faults>>

Stop(r) ==
  /\ r \in told /\ Go(r, "waiting", "stopped")
  /\ UNCHANGED <<tables, broken, local, due, rows, keys, faults>>

Cancel(r) ==
  /\ pc[r] # "stopped" /\ r \notin told /\ Fault
  /\ told' = told \cup {r}
  /\ UNCHANGED <<tables, broken, pc, sleep, due, rows, keys>>

\* The process dies, in a statement or between two.
Crash(r) ==
  /\ pc[r] # "stopped" /\ Fault
  /\ pc' = [pc EXCEPT ![r] = "stopped"]
  /\ rows' = [rows EXCEPT ![r] = {}] /\ due' = [due EXCEPT ![r] = {}]
  /\ keys' = [keys EXCEPT ![r] = {}]
  /\ UNCHANGED <<tables, broken, local>>

\* The instance is started again.
Restart(r) ==
  /\ Go(r, "stopped", "starting")
  /\ told' = told \ {r}
  /\ UNCHANGED <<tables, broken, sleep, due, rows, keys, faults>>

-----------------------------------------------------------------------------
\* What a running reaper does next by itself.
ReapStep(r) ==
  \/ Start(r) \/ SelectKeys(r) \/ DeleteKeys(r) \/ KeysFail(r)
  \/ SelectRows(r) \/ DeleteRows(r) \/ RowsFail(r) \/ NextRound(r)

ReapNext ==
  \/ \E r \in Reaper : ReapStep(r) \/ Stop(r) \/ Cancel(r) \/ Crash(r) \/ Restart(r)
  \/ \E m \in Row : Enqueue(m) \/ MarkPublished(m)
  \/ \E k \in Key : PutClaim(k)
  \/ ReapTick

ReapSpec == ReapInit /\ [][ReapNext]_reapVars

\* The clock goes on, a reaper takes its next step, a stopped instance is started
\* again, and select does not pass over ctx.Done() for ever.
ReapFairness ==
  /\ WF_reapVars(ReapTick)
  /\ \A r \in Reaper : WF_reapVars(ReapStep(r)) /\ SF_reapVars(Stop(r)) /\ WF_reapVars(Restart(r))

-----------------------------------------------------------------------------
\* A purge deletes what has outlived its use and nothing else: a published row that
\* is past the retention, never one that is queued (DeletePublishedOutboxBefore),
\* and an expired claim, never one that was renewed while the purge ran.
OnlyTheDead ==
  [][/\ \A m \in Row : row[m] # row'[m] /\ row'[m] = Free => row[m] = Old
     /\ \A k \in Key : claim[k] # claim'[k] /\ claim'[k] = None => Expired(k)]_reapVars

Purging(r) == pc[r] \in {"rows", "deleting rows"}

\* A purge ends although rows become purgeable as fast as it deletes them: its
\* cutoff is fixed (PurgePublished).
PurgeEnds == \A r \in Reaper : []<>~Purging(r)

\* Two purges at once take rows from each other's batches and stop early.
Apart == \A r, s \in Reaper : r # s => ~(Purging(r) /\ Purging(s))

\* The outbox stays bounded: a row past the retention goes in the end, although the
\* other task always fails (runTasks), if the purges do not for ever overlap.
RowsGo ==
  "outbox-messages" \notin broken /\ <>[]Apart => \A m \in Row : row[m] = Old ~> row[m] = Free

\* An expired claim goes, or is renewed, although the other task always fails.
ClaimsGo ==
  "idempotency-keys" \notin broken => \A k \in Key : claim[k] = 0 ~> claim[k] # 0

\* Both tables stay bounded, whichever of the tasks works.
Cleaned == RowsGo /\ ClaimsGo
=============================================================================
