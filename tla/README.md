# Verification of gophling (forge) in TLA+

This directory holds TLA+ models of the program in this repository, the TLC
configurations that check them, and proofs that TLAPS checks.  Paths below are
relative to the repository.

Modules are checked with `tlc -config <cfg> <module>`, and the proofs in each
module `*Proofs` with `tlapm <module>.tla`, all in this directory.
`PROJECT.json` lists the components, runs, mutants, findings, hazards and
theorems, and maps every definition to the lines it stands for.

## The system

The repository is a Go API scaffold: a service (`cmd/api`, `internal/`), and
`forge`, the command that turns the scaffold into a project and adds resources
to it (`cmd/forge`).

| Component | State | Operations | Interacts with |
|---|---|---|---|
| Outbox and relay (`internal/outbox`) | rows of `outbox_messages` (published_at, attempts, next_attempt_at); a ticker per relay | Enqueue, Run, drain, ProcessBatch, PurgePublished | writers share their transaction with Enqueue; relays of several instances meet at row locks; the reaper calls PurgePublished |
| Idempotency store (`internal/idempotency`) | rows of `idempotency_keys` (hash, response, expires_at) | Lookup, Put (in the create's transaction), PurgeExpired | create handlers, reaper |
| Idempotent create (`internal/modules/widget/idempotent.go`) | one transaction per request | createIdempotent, maybeReplay, CreateIdempotent | idempotency store, widget store, outbox |
| Widget store, service, handler (`internal/modules/widget`) | rows of `widgets` | Create, Get, List, Update, Delete | database, outbox |
| Transactions (`internal/platform/database`) | pool of connections | NewPool, WithinTx, Close | everything with state |
| Reaper (`internal/maintenance`) | a ticker | Run, runTasks | PurgeExpired, PurgePublished |
| Lifecycle (`cmd/api/main.go`, `internal/server/{server,health,admin}.go`) | readiness flag, signal and worker contexts, done channels | run, server.Run, shutdownHTTPServer | workers, pool, HTTP server |
| HTTP middleware (`internal/server`) | token buckets per client; otherwise none | RateLimit, RealIP, MaxBytes, CORS, ... | requests |
| Authentication (`internal/auth`) | principal in the request's context | SeedContext, Authenticate, Verify | router |
| `forge init` (`cmd/forge/init*.go`) | project files, journal `.forge-init-recovery` | prepareProject, recoverProject, rewriteTree | the user's editor, other forge processes |
| `forge new` (`createProject`) | a new directory | clone, initialize, clean up | `forge init` |
| `forge add resource` (`resource*.go`) | `.forge-resource.lock`, generated and shared files | addResource, applyChanges, writeChange | other generators, the user's editor |
| Developer and migration commands (`cmd/dev`, `cmd/migrate`) | none of their own | generate, check, migrate | tools, goose |

What is hard in it, and what makes each part correct:

- *Outbox.* Several relays, writers that commit out of id order, a broker whose
  acknowledgement may be lost, crashes between publishing and marking,
  cancellation at any point, poison messages.  Correct: at least once, only
  committed changes, no duplicate without a cause, no starvation, a relay that
  stops when told to.
- *Idempotent create.* Concurrent retries, stale lookups, a unique key that is
  waited for, expiry and purge during a request, lost answers.  Correct: one
  widget per claim, all or nothing, true replays; together, linearizability.
- *Init publication.* No transaction: files are replaced one by one while
  processes die, editors save, and other forge commands run.  Correct: a
  half-done tree can always be restored, nothing changes before the journal is
  active, edits are not overwritten unseen, one publisher.
- *Lifecycle.* Order of readiness, listener, workers and pool; early returns.
- *Widget store.* Writers that wait for each other's row lock, deletions and
  failures in between, a commit whose reply is lost, two queries for one page.
  Correct: the events of a widget tell its history, totals agree with pages, and
  answers with what was done.
- *Reaper.* Several instances whose purges overlap, a task that fails for ever,
  rows that become purgeable while a purge runs.  Correct: only what has
  outlived its use goes, all of that goes, and a purge ends.
- *Add resource.* A lock file without an owner, rollback of partial writes,
  versions and names chosen from what may be stale.  Correct: whole or not at
  all, one at a time, distinct names, nobody's work lost.
- *Rate limiter.* Eviction against refill, forged and chained headers, a limiter
  that outlives its entry.  Correct: a client has one bucket, its own.
- *Developer commands.* A stamp that vouches for tools while pins change, and a
  check that compares generated code with itself.  Correct: what passes is
  current.
- *Sequential parts.* Row keys, slice markers, migration numbers, the scanner of
  migrations, and which stage of the router answers first.

`PROJECT.json` lists the hazards line by line with the properties that watch
them; a hazard that no property watches yet says why.

## Modules

| Module | Kind | Content |
|---|---|---|
| `AtLeastOnce` | abstract | what an outbox promises: owed, delivered, settled |
| `Outbox` | detailed | writers, relays, faults, purge, clock; implements `AtLeastOnce` |
| `OncePerKey` | abstract | each request with a key served in one step |
| `IdempotentCreate` | detailed | requests, claims, expiry, purge; implements `OncePerKey` |
| `WidgetLog` | abstract | the events of a widget as one history |
| `WidgetStore` | detailed | clients, transactions, row locks, pages; implements `WidgetLog` |
| `Lifecycle` | detailed | one service process: run, HTTP server, workers, requests, pool, load balancer |
| `Maintenance` | detailed | reapers of several instances, claims and messages, clock |
| `RateLimit` | detailed | forwarded addresses, the map of limiters, buckets |
| `InitPublication` | detailed | forge processes, journal, editor, faults |
| `AddResource` | detailed | forge processes, lock file, shared files, rollback, developers |
| `Toolchain` | detailed | bootstrap and generate-check in several shells, edits |
| `Scanner` | against a reference | the scanner of migrations and a database's catalog |
| `Pipeline` | against a reference | which stage of the router answers a request |
| `Transform` | against a reference | slice markers and the renumbering of migrations |
| `RowKey` | against a reference | row keys of the idempotency store |
| `*Proofs` | proofs | about the module of the same name; `ServiceProofs`: `Maintenance`, `RateLimit`, `Pipeline`, `RowKey`; `ToolingProofs`: `Toolchain`, `Scanner`, `Transform` |
| `MC*` | checking | model values, constant functions and symmetry sets for the runs; `MCWidget`, `MCProcess` and `MCSequential` put several modules into one run |

Widget store and idempotent create use the same tables, and so do outbox and
reaper; each module has the steps of the others that it can meet: `Outbox` and
`IdempotentCreate` a purge of their rows, `Maintenance` the writers of both
tables, `WidgetStore` the outbox's rows and ids.  Three MC modules put modules
that share no state into one run: `MCWidget` `IdempotentCreate` and `WidgetStore`,
`MCProcess` `Lifecycle` and `Maintenance`, `MCSequential` `Scanner`, `Toolchain`,
`Pipeline`, `Transform`, `RowKey` and `RateLimit`.  A behaviour of such a run is
one of a single module, chosen by Init.

In the detailed modules, operators named in a comment that starts with
`Mutant:` are altered versions of the definition that follows them.  Nothing
uses them; they record which mistake each property is able to see.

### Outbox

`status[m]` is the life of a row: drawn by an INSERT (`inserting`), committed
(`queued`) or not (`aborted`), marked (`sent`), deleted (`purged`).  `attempts`
and `delay` are the columns of the same meaning, with next_attempt_at as a
countdown.  Per relay, `pc` is the place in Run, drain and ProcessBatch, `todo`
the rows not yet published, `acked` the slice `ids`, `failed` the rows whose
rejection is written but not committed, and `txAge` the age of the transaction,
which is how far now() lags.  `delivered`, `dup` and `excused` are history.

BEGIN and the fetch are one step, since nothing of a transaction without a
statement is visible.  Every call of the publisher is a step of its own, so
other relays, writers, the clock, cancellation and death come between any two.
A rejection is recorded in the step of the call that was rejected: its effect is
only visible at the commit.  `RecordFails`, `CommitFails`, `FetchFails` are
failing statements, `CommitUnheard` is a commit whose reply is lost, `LoseAck` a
message that was accepted although Publish returned an error, `AbandonBatch` a
batch whose context was cancelled.  The purge may delete any marked row: its
cutoff is a clock value and the model keeps no dates.

Abstractions: attempts count up to MaxExponent, because nothing reads more than
`least(attempts + 1, 12)`; ages count up to MaxBackoff, because only the
difference to a back-off matters; and last_error is dropped, with the failure to
store it kept (`RecordFails`).  The ticker's phase is free: after a poll the
next may be due in 1..Interval ticks.

### IdempotentCreate

A request goes through the first lookup, the INSERT of widget and event, the
computation of the expiry, PutIdempotencyKey, and the commit.  Widgets are named
by the request that creates them.  PutIdempotencyKey waits for an open
transaction that wrote the key (`Holder`), and then sees the committed row, but
compares its expiry with its own now(), `began`.  `FailCreate` is any failure at any
place: a statement, a cancelled context, the death of the server, a client that
has gone.  A retry is another request with the same key and hash.  `Refused`
requests are those that authorizeWrite, the length check or the subject check
stop.  There is one clock for database and application.  A hash is the request's
identity: SHA-256 collisions are left out.

`OncePerKey` sees what clients see.  The mapping reads a claim as granted while
it has not expired; a create that took longer than the whole lifetime of its
claim appears as a grant that has lapsed already.

### InitPublication

One process per command, `init` or `init -recover`.  The tree has a content per
file; a write is two steps, truncate and write, so that a death leaves a torn
file.  The snapshot, both validations, publication, removal and restoration
handle one file per step in any order (Go's maps have none), and other processes
and the editor come in between.  The journal is a value under its one fixed
name: claimed by a rename that fails if the name is taken, activated by a
rename of the manifest, retired by a rename.  `Exit` is the death of the process
or an early return at any place, `PublishFails` and `RestoreFails` failed file
operations.  `late[p]` is history: the pairs of a file and an edit that was saved
there after p read the file and before p rechecks it.

Left out: file modes, links, empty parent directories, power failures (fsync),
the temporary directories that have no fixed name, and edits of files that forge
has already written.  Activation, which reads the manifest and renames a new one
over it, is one step.

### Lifecycle

`main` is the place in run and server.Run: `starting` once the workers run,
`serving` in the select of server.Run, `draining` in the pause, `shutdown` in
srv.Shutdown, `cancel` and `waiting` for the workers, `deferred` in the deferred
calls.  `timer` is what main waits for: the pause, the deadline of Shutdown, or
waitCtx.  `signalled` is the signal context, from which the workers' context is
derived.  `cut` holds the requests whose connections srv.Close closed, which
cancels their contexts.  A request is `running` without and `querying` with a
connection of the pool; a busy worker has one.  `pool` is `closing` while
pool.Close waits for connections.  The workers are given up in any order rather
than in that of the slice; as a closed done channel stays closed, run reaches
the same states after the loop.  A worker in Stuck may never end what it does;
when it holds a connection then, pool.Close waits for ever, and so does `main` in
`deferred`.

`routed` and `probe` are a load balancer, which is not part of the repository.
It probes /readyz punctually, and sends requests while the last probe succeeded;
a probe may fail because the database does not answer.  Left out: the admin
server, telemetry, and start-up before the workers.

### WidgetStore

`pc` is the place of a client's request: `serving` before its first statement,
`wrote` when its transaction has written the row, `recorded` when the outbox row
is inserted too, `listing` between the two queries of a page.  An INSERT of the
outbox draws `nextId` while the transaction still holds the row of the widget
(`Holder`), so events of one widget get their ids in the order of its commits;
`CommitUnheard` is a commit whose reply is lost, `Fail` a failing statement,
commit or context.  A List keeps the snapshot of its transaction in `rows`.
Widgets are numbers in the order of (created_at, id); as created_at is the start
of a transaction, a new row may come anywhere in that order.  Decoding, which
ends in `BadRequest`, is free to refuse anything.

`WidgetLog` has one sequence of events per widget: a creation, updates, a
deletion.  The mapping `Told` sorts the rows of the outbox by id, which is how
the relay fetches them.

### Maintenance

`row` and `claim` are the two tables with ages instead of dates; a deleted row
leaves its place to a new message, so the inflow never ends.  `pc` is the place
in Run and runTasks of each instance's reaper, `due` the rows its cutoff allows
(fixed when the purge begins), `rows` and `keys` what a running statement has
selected: a DELETE selects rows, then removes those that still qualify.  Tasks
in `broken` always fail.

### RateLimit

Addresses have a form (IPv4, IPv4-mapped, IPv6), a network and a host.  A
request comes from a sender with a forged header through a route of proxies,
each of which appends its caller; RealIP walks that list from the right.
`entry`, `seen` and `lastSweep` are the map, under its mutex: get is one step,
and Allow a later one, because it runs after the unlock; a limiter may therefore
be in use while its entry is evicted and replaced.  `late` counts requests that
took longer than Stall between the two.  Tokens are whole: the clock's tick is a
unit in which a limiter gains Rate of them.

### AddResource

`lock` is the lock file with its holder; `files` the new files, `shared` the
three files that every resource edits: how often they list a resource, the
edits of developers, and whether the file is whole, since a rollback truncates
it and then writes it.  A process runs through `Plan`: it reads and edits in
memory (`preparing`), writes each target by create or rename (`writing`), and
after a failed write undoes what it wrote in reverse (`undoing`, `rewriting`).
A failed write leaves its target as it was (`WriteFails`) or, as writeChange ignores
the error of the os.Remove that follows, a part of it (`WriteLeavesPart`); `partial`
has these targets, which nobody reports.  A module directory has several files, so it
is partial as well when the rollback of its first ones fails, which is reported.
Processes die anywhere and leave the lock, a rollback step may fail, developers
save edits, add migrations and packages, remove stale locks, and regenerate the
code whose declarations the next run compares its names with.

### Toolchain, Scanner, Pipeline, Transform, RowKey

`Toolchain` follows bootstrap, generate and checkGenerated of several shells.  The
stamp is computed, compared, and written after a build that reads the pins again.
Then come, one after the other, the first snapshot, the check of the migrations'
versions, sqlc if there is any queries.sql, oapi-codegen, and the comparison.
`generated` has the output of each generator with the sources and pins it was made
from; a generator that is killed leaves its output cut short, which here is as good as
none.  `torn` collects the pins a stamp may vouch for wrongly because a build died or
was overlapped; `moved` the shells that were disturbed.

`Scanner` applies a statement to the scanner's map of names and to the catalog
of a database, in which relations are objects with a schema; statements that
the database would refuse do not occur.  Indexes of constraints and of CREATE INDEX
without a name are in the catalog too, marked as not `named`, since their names are
chosen by the server and the scanner does not know them.  `outside` remembers the kinds
of statement the scanner does not follow: one that uses such a name, ALTER INDEX on a
table, and SET SCHEMA.  `Pipeline` gives to each kind of request
the answer of each stage in the order of the router; the request is its only
state.  `Transform` reads a file line by line as strip does, next to a definition
of the well-formed files by nesting, and renames migrations one at a time.
`RowKey` has the escaping on strings of the two characters that are escaped and
any others (in the run, the two that escapes end with).

## Runs

| Run | Bounds | Shows |
|---|---|---|
| `outbox_safety` | 3 rows (1 poison), 2 relays, batch 2, 2 faults | DuplicatesExcused and the invariant IInv of the proofs (with NoLoss, CommittedOnly, RowHeldOnce); the outbox implements `AtLeastOnce` (Implements) |
| `outbox_live` | 3 rows, 2 poison ones before a good one; batches of 1 and of 0; 2 faults | EventuallySent, CancelStops and DrainEnds through crashes, cancels, restarts |
| `outbox_backoff` | 2 rows, 1 relay | *violated*: BacksOff |
| `init_safety` | 3 processes, a kept, a removed and a new file, 1 edit, 2 faults | HalfDoneHasJournal, NoLostEdit, OnePublisher, RecoveryRestores |
| `init_overlap` | the same without edits and faults; -recover may overlap | *violated*: OnePublisher |
| `widgets` | creates: request, retry, another body; 1 key, lifetime 1, clock to 2.  Others: 2 writers and a guest, 3 widgets, 2 values, 3 requests | OneWidgetPerClaim, the invariant CreateInv (with AllOrNothing, ReplayTrue), LosersReplay; linearizability (OneStepEach); nobody waits for ever (CreatesAnswered).  EventsTellRows, ListAgrees, AnswersTrue; the events refine `WidgetLog` (Implements); requests end (Answered) |
| `service_process` | process: 2 requests, relay and reaper (the relay may get stuck), periods 2, a probe each tick.  Reapers: 2, with 2 rows, 1 key, batch 1, 1 fault, any broken tasks | NoneRefused, WorkersFirst and the invariant IInv; a signalled process comes to its deferred calls, and exits unless a worker is held up (RunReturns).  OnlyTheDead, PurgeEnds, Cleaned |
| `lifecycle_stuck` | the process of `service_process` | *violated*: ShutdownEnds |
| `add_resource` | 2 terminals, 3 resources (2 share a component name), 3 runs, 2 faults, 1 edit, 1 file written by hand | AllOrNothing, NamesUnique, OwnWorkKept, LockTrue |
| `sequential` | 3 names and 5 statements; 2 shells, 1 edit, 1 fault; all requests; files of 6 lines; 5 migrations; subjects up to 3 and keys up to 2 characters; 4 requests, 3 senders, routes of up to 2 proxies, clock to 5, rate 1, burst 2 | ScanAgrees, CheckedAsPinned, AnswerRight, StripKeepsTheKept, NoMigrationLost, OneRowPerCall; OwnBucket, SenderPays, IdleAreGone |
| `scanner_indexes` | 3 names and 5 statements | *violated*: IndexesDisappear |
| `toolchain_leftover` | 1 shell, 1 edit | *violated*: LeftoverFails |

Why the bounds are enough.

- *Outbox.* Three rows and a batch of two give a full batch, a short one and an
  empty one, rows left for the other relay, and an id gap.  Two faults give a
  crash or lost acknowledgement followed by a second failure of the retry.  A
  back-off of 2 then 3 ticks against an interval of 1 separates due rows from
  rows that wait, and reaches the cap.
- *Idempotent create.* Three requests on one key give a holder, a waiter and a
  later one; a lifetime of one tick and a clock to two give a claim, its expiry,
  and a second claim.  Requests with different keys do not meet.
- *Init publication.* One file of each kind (kept, removed, new) meets every
  branch of publication and recovery; three processes give an init, a recovery,
  and another init; one edit comes at any point of them (the proofs cover any
  number of edits).
- *Lifecycle.* Two requests give one that ends in time and one that does not;
  periods of two ticks let each wait end early, at its deadline, or after it.
  NoneRefused needs DrainDelay greater than ProbeInterval, here 2 and 1; the
  default of DRAIN_DELAY is two seconds, so a deployment has to set it to more
  than the interval at which its load balancer probes.
- *Add resource.* Three runs give one that succeeds, one that meets what it left,
  and one that overlaps; two faults give a failed write whose rollback fails, or
  a death and a failed write after its lock was removed.  The resources that
  share a component name are refused by the contract and not by the generated
  code as long as that is stale.
- *Widget store.* Three requests give two writers of one row and a reader, or a
  create, an update and a delete; a page of one row at offsets 0 and 1 lies
  inside, at the end, and past the end of the table.
- *Rate limiter.* Four requests of one client use up a burst of two, and outlive
  an eviction (IdleAfter 2, a sweep each tick), refill and a late answer.  Requests
  are interchangeable and numbered as they come in.
- *Maintenance.* Two rows and batches of one give full batches, an empty one, and
  two purges that select the same row.
- *Sequential parts.* Five statements create two tables with an index, and rename
  and drop.  Code that is generated from nothing, from other sources than those there
  are, or from them stands at the start, so that one edit and one fault give current,
  stale and missing output at each step of a check, and tools of old pins.  Six lines
  nest blocks three deep; subjects of three characters hold a
  whole escape.

Symmetry is used for relays, processes, terminals and identical requests, in
runs of safety properties only (a refinement without fairness is one).  Deadlock
is checked for the outbox and the reaper, which never stop, and for the
lifecycle, whose load balancer never does (`service_process`); the other models run
finitely many
commands or requests and then stop.

### Findings

Five runs end in a violation.  Each states what a comment or a description in the
repository says.

1. `BacksOff` (`internal/outbox/queries.sql:24`).  next_attempt_at is computed
   from now(), which in PostgreSQL is the start of the transaction, that is,
   before the batch was published.  If the rest of the batch takes longer than
   the back-off, the rejected message is due again the moment the batch commits.
2. `OnePublisher` (`cmd/forge/init_recovery.go:114`).  `forge init -recover`
   drops the inactive journal of an init that still runs; that init then
   activates whatever journal has the name, and two can publish at once.
   `init_safety` shows that the promise holds when -recover is run alone.
3. `ShutdownEnds` (`cmd/api/main.go:71`).  The wait for workers is bounded "so a
   stuck worker cannot block shutdown indefinitely" (lines 184-186).  But the deferred
   pool.Close waits without a bound for connections in use, so a worker stuck with one
   keeps the process alive.  RunReturns says what does hold.
4. `IndexesDisappear` (`cmd/forge/resource_schema.go:123`).  PostgreSQL accepts ALTER
   INDEX for a table; the scanner then renames the table but not the owner of its
   indexes, so these stay known after the table is dropped, although "indexes disappear
   with their owning table, even after renames" (line 66).
5. `LeftoverFails` (`cmd/dev/main.go:166`).  Without any queries.sql generate skips
   sqlc, and what an earlier run left in internal/gen/db is in both snapshots: the
   check passes, although it should "fail if generated code is out of date with its
   sources" (`Taskfile.yml:46`; also `docs/architecture.md:57-58` and
   `docs/adr/0003-type-safe-codegen.md:21`).

### Observations

Behaviour that the models have and that contradicts no statement of the
repository, but that a reader may not expect:

- A request that loses the race for an idempotency key looks the claim up again;
  if that has expired by then, the request ends with a 500.  LosersReplay says
  that this is the only case.
- Rows commit out of id order, so relays may deliver events of different widgets,
  and after a rejection those of one widget, out of order; EventsTellRows and
  `WidgetLog` are about ids.
- updated_at is the start of the transaction and may go back from one update to
  the next.
- The limiter map takes note of get, and tokens are taken by a later Allow.
  WithinRate needs Burst at most Rate * (IdleAfter + 1 - Stall), which the
  configuration does not enforce: a slower limiter with a larger burst refills
  by being evicted.
- A build that dies leaves the old stamp with new tools, so going back to the old
  pins accepts them (CheckedAsPinned excuses pins in `torn`).
- The scanner does not know names that the server chose (every PRIMARY KEY has one),
  nor where SET SCHEMA has moved a table: ScanAgrees is about migrations without
  them, and about the names that statements give.
- A failed write of a new file whose removal fails too leaves a part of it that no
  error mentions (`cmd/forge/resource.go:296-298`); AllOrNothing is about what a run
  has completed.  It also takes for granted that the deferred os.Remove of the lock
  file (line 39), whose error is ignored, succeeds.
- Edits of a shared file that are saved while `forge add resource` runs may be
  overwritten, and so may those of the instant between the last validation and
  the write of `forge init`.
- The error handler of the validated operations adds a challenge to each 401, for
  which it cites RFC 9110; the 401 of auth.Middleware (mounted routes) and that of
  the admin server's tokenGuard carry none.
- renumberMigrations renames one file after the other, and a rename replaces what
  has the new name; NoMigrationLost holds because versions are distinct and
  positive, which checkMigrationVersions sees to.
- Overlapping purges take rows from each other's batches and stop early; with
  three rows, two reapers that always overlap can leave one row for ever, so
  Cleaned assumes that in the end purges do not overlap.

### Fairness

- Outbox: the clock ticks; a relay takes a due poll, goes on with its drain and
  its batch, and abandons a cancelled batch (weak fairness: goroutines and
  statements make progress); a stopped instance is started again by its
  supervisor.  `Stop` needs strong fairness: a relay whose ticker fires each
  time competes with ctx.Done() in one select, and Go chooses among ready cases
  at random.  Nothing is assumed of failing steps; there are at most MaxFaults
  of them, so that eventually the broker accepts what is not poison.
- `outbox_live` sets Prompt: no tick passes while a poll is due or a batch is
  open.  Without a bound on the time a batch takes, back-off cannot prevent
  starvation: the poison would always be due again.  It also needs fewer
  poison messages times interval than MaxBackoff (here 2 < 3; in the code 1800
  batches in an hour).
- IdempotentCreate and WidgetStore: a request whose next step is possible takes
  it.  Waiting for a key or a row is not possible until its holder ends, so the
  order of waiters is free.
- Lifecycle: run takes its next step when it can; time passes; a statement ends;
  a worker that is not stuck ends what it does and notices that its context is
  done; a handler whose connection was closed returns.  A handler that was not
  told to stop need not return, and nothing is assumed of clients.
- Maintenance: the clock ticks, a reaper takes its next step and a stopped
  instance is started again (weak); select does not pass over ctx.Done() for
  ever (strong fairness of Stop).
- A run of several modules takes the fairness of the module the behaviour is of:
  the fairness of `MCWidget` and `MCProcess` is a disjunction.
- The other runs claim safety only: a command may die at any point.

## Proofs

TLC checks the small instances above; the proofs hold for every value of the
constants that satisfies the named assumptions of the module (`*Assumption`).
TLC evaluates these assumptions on each run.  Each proof module has an inductive
invariant, a lemma per action or group of actions, `Invariance`, and theorems
that follow with PTL.

| Module | Theorem | Statement |
|---|---|---|
| `OutboxProofs` | `Invariance`, `TypeCorrect` | `Spec => []IInv`, `Spec => []TypeOK` |
| | `NothingLost`, `NothingInvented`, `NoStrayDuplicate`, `ExclusiveRows` | NoLoss, CommittedOnly, DuplicatesExcused, RowHeldOnce |
| | `Refinement` | `Spec => Implements`: the specification of `AtLeastOnce` |
| `IdempotentCreateProofs` | `Invariance`, `TypeCorrect` | `CreateSpec => []CreateInv`, `CreateSpec => []CreateTypeOK` |
| | `OnePerClaim`, `NothingByHalves`, `TrueReplays` | OneWidgetPerClaim, AllOrNothing, ReplayTrue |
| | `LosersAreTold` | `CreateSpec => LosersReplay` |
| | `Refinement` | `CreateSpec => OneStepEach`: the specification of `OncePerKey` |
| `WidgetStoreProofs` | `Invariance`, `TypeCorrect` | `Spec => []IInv`, `Spec => []TypeOK` |
| | `EventsAreTrue`, `TotalsAgree`, `AnswersAreTrue` | EventsTellRows, ListAgrees, AnswersTrue |
| | `KeepsHistories` | `Spec => Implements`: the specification of `WidgetLog` |
| `LifecycleProofs` | `Invariance`, `TypeCorrect` | `Spec => []IInv`, `Spec => []TypeOK` |
| | `AcceptedIsServed` | `Spec => []ServedInFull` |
| | `PoolClosesLast` | WorkersToldToStop, RequestsToldToStop, WorkersFirst |
| | `NobodyRefused` | `Spec => []NoneRefused` if ProbeInterval < DrainDelay |
| `ServiceProofs` | `Invariance`, `TypeCorrect` | `ReapSpec => []IInv`, `ReapSpec => []ReapTypeOK` (of `Maintenance`) |
| | `DeadOnly` | `ReapSpec => OnlyTheDead` |
| | `LimitInvariance`, `LimitTypeCorrect` | `LimitSpec => []LimitInv`, `LimitSpec => []LimitTypeOK` |
| | `BucketIsItsOwn`, `SenderAlwaysPays`, `IdleAlwaysGone` | OwnBucket, SenderPays, IdleAreGone |
| | `RouterAnswersRight` | `PipelineSpec => []AnswerRight` |
| | `RowKeysDiffer` | `RowKeySpec => []OneRowPerCall` |
| `InitPublicationProofs` | `TypeCorrect` | `Spec => []TypeOK` |
| | `Invariance` | `Spec => []IInv` if RecoverAlone, like all that follow |
| | `PublishesAlone`, `CanBeRestored`, `EditsSurvive` | OnePublisher, HalfDoneHasJournal and Backup, NoLostEdit |
| | `RecoveryIsComplete`, `JournalFirst` | RecoveryRestores, WriteAhead |
| `AddResourceProofs` | `Invariance`, `TypeCorrect` | `Spec => []IInv`, `Spec => []TypeOK` |
| | `OneAtATime`, `WholeOrNot`, `NamesStayUnique`, `OwnWorkStays` | LockTrue, AllOrNothing, NamesUnique, OwnWorkKept |
| `ToolingProofs` | `ToolInvariance`, `ChecksHold` | `ToolSpec => []ToolInv`, `ToolSpec => []CheckedAsPinned` |
| | `ScannerAgrees` | `ScanSpec => []ScanAgrees` |
| | `StripInvariance`, `StripRight` | `TransformSpec => []StripInv`, `TransformSpec => []StripKeepsTheKept` |
| | `RenumberRight` | `TransformSpec => []NoMigrationLost` |

### Why the invariants are needed

*Outbox.*  NoLoss is not inductive: a commit marks what is in `acked`, so one has
to know that those messages were delivered (AckedOnce), that the rows are still
queued (BatchQueued), and that only open batches hold rows (OpenBatch).
DuplicatesExcused needs Accounted: what was delivered is excused, marked, or
held in the `acked` of an open batch, so that a row in `todo` was never
delivered without an excuse; and RowHeldOnce, so that the row is not in the
`acked` of another relay.  For the refinement, each group of actions maps to Owe,
Deliver, Settle or a stutter of `AtLeastOnce`, with IInv excluding that a row is
settled before it is delivered.

*Idempotent create.*  OneWidgetPerClaim depends on what a request knows when it
commits.  ClaimsStand says that a claim names a committed widget of its key, with
that widget's expiry; Outlived, that any other widget of the key has outlived its
claim; Taken, that a request which has taken a key is its only holder and had
found no live claim.  AllOrNothing and ReplayTrue follow from the same facts.
For `OncePerKey` a commit is a grant if the claim has not run out, and a grant
that has lapsed otherwise; the purge and the clock are lapses or stutters.

*Widget store.*  The row lock (Course) makes a transaction the only one that can
draw an id for its widget's next event; Drawn says that this id is above all
the widget's events, so that the commit's event is the last one and tells the
row (EventsTellRows).  Counted bounds the ids.  TotalsAgree rests on lemmas about
pages (the ranks of n rows are 1..n, so a page has the number of rows that total,
limit and offset leave), proved by counting the rows from a row on and without
induction.  For `WidgetLog` the events of a widget are a sequence, in the order of
their ids; the refinement needs that ids are drawn under the row lock, so that the
event a commit adds has the highest id of its widget and comes last (NewComesLast,
CommitTells), and that the histories of the other widgets do not move (HistoryStep).

*Lifecycle.*  ServedInFull needs that the pool closes in the deferred calls only
(Course) and that by then every request that runs was cut or the listener had
failed (Requests); WorkersFirst needs that the wait ended with each worker gone
or given up (WaitedFor).  For NoneRefused, Unrouted says that while the balancer
still routes in the pause its next probe comes before the end of the pause, and
finds the instance not ready.

*Maintenance.*  A statement deletes what it selected some time ago.  Known says
that a purge's rows are among those its cutoff allowed and are still past the
retention; a place that is given to a new row has left every purge's sets in the
step that deleted the old row.

*Rate limiter.*  WithinRate looks at windows of the past, so the invariant says
what is left of each: Spent counts, for each admitted request, those admitted since
and the tokens left, against what the bucket held and gained since then.  An evicted
limiter counts as a full one, and Horizon is the last moment at which its tokens can
have been spent: seen plus Stall.  A request that lost its entry is late (Recent), and
if Refills holds a full bucket has by then been earned.  Charged is the other
direction, that missing tokens were spent by the same client, which with Owned (a
limiter serves one key) makes a refusal Earned.  SenderPays is Attributed, with a
lemma about the walk along the header: proxies append, so the first hop from the
right that is not a trusted proxy is the sender, whatever it wrote to its left.

*Router and row keys.*  Both keep no state beyond the request.  For the router,
OneDecides says that the first stage with an answer ends the request, and AnswerTells
which stage that was.  For row keys, flattening is a recursive function: that it
exists, and that each of its values is a beginning of the next (BeginsWith), is shown
at the least number for which it would fail (LeastNatural).  A row can then be
read from the left in one way (ReadsOnce): an escaped character has no colon first,
and tells which character it is (EscapedTells).

*strip.*  StripKeepsTheKept compares what a stack machine wrote with a definition of
the well-formed files that knows no order of reading.  StripInv relates them at each
line: of what has been read there is one way to pair ends with begins (Partials), the
begins left over are the stack, and what was written is in no dropped block that is
closed or open (Follows).  An end closes the last open begin, in each pairing there
may be (EndPairs), so the one pairing grows by one block; an end of another name
leaves no pairing, now or later, and strip reports it.

*renumberMigrations.*  A file's place is the number of versions up to its own, hence
different for each and never above its version (PlaceFacts, PlacesDiffer).  RenumberInv
says that the files up to `turn` have their new names and the others their old ones;
a new name is a place that has been passed, so it is no version still to come.

*Init publication.*  HalfDoneHasJournal needs who owns the journal: at most one
process is between claim and end (Owners), and Journalled says which journal it
finds there, which fails when a recovery may overlap (that is what `init_overlap`
shows) and holds by Alone otherwise.  Advanced says which files are already
published, removed or restored, so that a finished loop leaves a whole project or
scaffold.  The journal must also hold something to restore: Informed says that
what was compared twice is still there or was overwritten by an edit, and since
some file of the scaffold is not in the project (FilesAssumption), a snapshot
that passed both comparisons is one of the scaffold and not of another process's
project (Backup).  NoLostEdit is the part of Informed about edits.

*Add resource.*  AllOrNothing relates five targets that are written one at a
time.  Underway says of the process at work which of them it has written and what
it remembers of the shared files (Remembered: the file without its resource,
edits included), so that a completed run and a completed rollback leave the
resource whole or absent; a partial target counts for neither.  Settled says the same
of every other resource, unless a rollback failed.  NamesUnique needs that the highest
version was read under the
lock; that it exists needs the set of files to be finite.

*Tooling.*  A stamp that is not doubtful is that of all the tools there are,
unless a single build of other pins is under way (StampBacked, BuildsTrue);
Undisturbed follows a check from there through the generators to its verdict.  For
the scanner, its map and the catalog agree not only in names while `outside` is empty
(Followed): Described relates kinds and the owner of an index with the table the
catalog has for it (Catalogued), which is what dropping and renaming a table needs.

The invariants of `Outbox`, `IdempotentCreate` and `Lifecycle` (IInv, CreateInv,
IInv) are invariants of their runs as well.

### Assumptions

Besides bounds that are natural numbers and markers that are not values:

- `RecoverAlone` (InitPublication): -recover overlaps no other forge command.  It is a
  hypothesis of the theorems that need it, and `init_overlap` shows what fails without.
- ProbeInterval < DrainDelay for `NobodyRefused`, and Refills for WithinRate: both are
  settings that the configuration does not compare.
- RouteAssumption (RateLimit): the proxies of a route are trusted; one that is not
  is a sender like any other.
- SliceAssumption (Transform): the names of slices, of derived slices and "init" differ,
  as the tables of `forge` do.
- OtherAssumption (RowKey): the other characters are not "%" and ":".

### Model-checked only

- Liveness under fairness, which TLAPS does not reach: EventuallySent, CancelStops,
  DrainEnds, CreatesAnswered, Answered, RunReturns, PurgeEnds, Cleaned.
- The violated properties are false: BacksOff, OnePublisher without RecoverAlone,
  ShutdownEnds, IndexesDisappear, LeftoverFails.

## Not modelled

- Configuration (`internal/config`): parsing and range checks at start.  The
  constants of the modules stand for the settings.
- Observability, `cmd/migrate`, test support, scripts, deployments, documentation:
  output, thin commands around libraries, or no part of the program.
- Verification of tokens, SQL parsing of libraries, the OpenAPI validator: external;
  the models take their verdict as given.
- `forge new`: it works in a directory of its own that appears by one rename, and
  what it calls there is `forge init`.
- In `forge init`, the rewriting of names in text by patterns; in `forge add
  resource`, the rendering of templates and sqlTokens, which are lexical.
- Of generated code, what only converts between Go and JSON or SQL.
- Admin server and telemetry start-up; doctor and the full checks of `cmd/dev`,
  which only run other programs.
- The clock of an application server that differs from the database's: a claim's
  24 hours become longer or shorter by the difference.
