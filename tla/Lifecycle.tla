------------------------------ MODULE Lifecycle ------------------------------
(***************************************************************************)
(* Life of one service process: run of cmd/api with its workers, the HTTP  *)
(* server (server.Run, shutdownHTTPServer), readiness and the connection   *)
(* pool.  A load balancer probes /readyz and sends requests while it holds *)
(* the instance for ready; handlers and workers take connections from the  *)
(* pool and give them back.                                                *)
(*                                                                         *)
(* Times are countdowns.  The probe is punctual: no tick passes it by.     *)
(***************************************************************************)
EXTENDS Integers, FiniteSets

CONSTANTS Request,          \* requests of clients
          Worker,           \* background workers: relay and reaper
          Stuck,            \* workers whose current task never returns
          DrainDelay,       \* cfg.DrainDelay
          ShutdownTimeout,  \* cfg.ShutdownTimeout
          GracePeriod,      \* five seconds in run
          ProbeInterval     \* ticks between two probes of /readyz

ASSUME WorkerAssumption == Stuck \subseteq Worker
ASSUME TimeAssumption ==
  /\ DrainDelay \in Nat /\ ShutdownTimeout \in Nat /\ GracePeriod \in Nat
  /\ ProbeInterval \in Nat \ {0}

VARIABLES
  main,       \* where run is
  signalled,  \* the signal context is done
  ready,      \* the readiness flag of Health
  listener,   \* "off", "open", "closed" by Shutdown, or "failed"
  timer,      \* countdown of the sleep or deadline main waits for
  request,    \* request[q]: its state
  cut,        \* requests whose connection srv.Close closed
  worker,     \* worker[w]: its state
  cancelled,  \* cancelWorkers was called
  warned,     \* workers main gave up on
  pool,       \* "open", "closing" (Close is waiting), or "closed"
  routed,     \* the load balancer sends requests here
  probe       \* countdown to its next probe

process == <<main, signalled, ready, listener, timer>>
workers == <<worker, cancelled, warned>>
balancer == <<routed, probe>>
vars == <<process, request, cut, workers, pool, balancer>>

Phases == {"starting", "serving", "draining", "shutdown", "cancel",
           "waiting", "deferred", "exited"}
RequestStates == {"none", "running", "querying", "answered", "failed", "refused", "lost"}

TypeOK ==
  /\ main \in Phases /\ signalled \in BOOLEAN /\ ready \in BOOLEAN
  /\ listener \in {"off", "open", "closed", "failed"}
  /\ timer \in 0..DrainDelay \cup 0..ShutdownTimeout \cup 0..GracePeriod
  /\ request \in [Request -> RequestStates] /\ cut \subseteq Request
  /\ worker \in [Worker -> {"idle", "busy", "done"}] /\ warned \subseteq Worker
  /\ cancelled \in BOOLEAN /\ pool \in {"open", "closing", "closed"}
  /\ routed \in BOOLEAN /\ probe \in 0..ProbeInterval

-----------------------------------------------------------------------------
Init ==
  /\ main = "starting" /\ signalled = FALSE /\ ready = TRUE /\ listener = "off"
  /\ timer = 0
  /\ request = [q \in Request |-> "none"] /\ cut = {}
  /\ worker = [w \in Worker |-> "idle"] /\ cancelled = FALSE /\ warned = {}
  /\ pool = "open"
  /\ routed = FALSE /\ probe = ProbeInterval

Unfinished == {q \in Request : request[q] \in {"running", "querying"}}

\* Connections that have not been returned to the pool.
Acquired == {q \in Request : request[q] = "querying"}
              \cup {w \in Worker : worker[w] = "busy"}

\* workerCtx is derived from the signal context.
WorkersDone == signalled \/ cancelled

(* run and server.Run *)

Goto(from, to) == main = from /\ main' = to

\* The server starts to listen; server.Run waits for it or for the signal.
Serve ==
  /\ Goto("starting", "serving")
  /\ listener' \in {"open", "failed"}
  /\ UNCHANGED <<signalled, ready, timer, request, cut, workers, pool, balancer>>

\* Mutant: the early return does not cancel the workers.
RouterFailsBare ==
  /\ Goto("starting", "deferred")
  /\ UNCHANGED <<signalled, ready, listener, timer, request, cut, workers, pool, balancer>>

\* NewRouter fails: the deferred cancelWorkers and pool.Close run at once.
RouterFails ==
  /\ Goto("starting", "deferred")
  /\ cancelled' = TRUE
  /\ UNCHANGED <<signalled, ready, listener, timer, request, cut, worker, warned,
                 pool, balancer>>

\* ListenAndServe returns an error while the server runs.
ListenerFails ==
  /\ main \in {"serving", "draining"} /\ listener = "open"
  /\ listener' = "failed"
  /\ UNCHANGED <<main, signalled, ready, timer, request, cut, workers, pool, balancer>>

\* case err := <-serveErr: server.Run returns with requests still running.
ServeError ==
  /\ listener = "failed" /\ Goto("serving", "cancel")
  /\ UNCHANGED <<signalled, ready, listener, timer, request, cut, workers, pool, balancer>>

\* Mutant: readiness is not flipped.
DrainReady ==
  /\ signalled /\ Goto("serving", "draining")
  /\ timer' = DrainDelay
  /\ UNCHANGED <<signalled, ready, listener, request, cut, workers, pool, balancer>>

\* case <-ctx.Done(): readiness first, then the pause.
Drain ==
  /\ signalled /\ Goto("serving", "draining")
  /\ ready' = FALSE
  /\ timer' = DrainDelay
  /\ UNCHANGED <<signalled, listener, request, cut, workers, pool, balancer>>

\* Mutant: the pause is skipped.
ShutdownAtOnce ==
  /\ Goto("draining", "shutdown")
  /\ listener' = IF listener = "open" THEN "closed" ELSE listener
  /\ timer' = ShutdownTimeout
  /\ UNCHANGED <<signalled, ready, request, cut, workers, pool, balancer>>

\* srv.Shutdown closes the listener and waits.
Shutdown ==
  /\ timer = 0 /\ Goto("draining", "shutdown")
  /\ listener' = IF listener = "open" THEN "closed" ELSE listener
  /\ timer' = ShutdownTimeout
  /\ UNCHANGED <<signalled, ready, request, cut, workers, pool, balancer>>

\* Mutant: Shutdown does not wait for requests.
StoppedAtOnce ==
  /\ Goto("shutdown", "cancel")
  /\ UNCHANGED <<signalled, ready, listener, timer, request, cut, workers, pool, balancer>>

Stopped ==
  /\ Unfinished = {} /\ Goto("shutdown", "cancel")
  /\ UNCHANGED <<signalled, ready, listener, timer, request, cut, workers, pool, balancer>>

\* Mutant: Shutdown has no deadline.
ShutdownWaits ==
  /\ timer = 0 /\ Unfinished = {} /\ Goto("shutdown", "cancel")
  /\ UNCHANGED <<signalled, ready, listener, timer, request, cut, workers, pool, balancer>>

\* Mutant: active connections stay open when the deadline expires.
ShutdownExpiresOnly ==
  /\ timer = 0 /\ Goto("shutdown", "cancel")
  /\ UNCHANGED <<signalled, ready, listener, timer, request, cut, workers, pool, balancer>>

\* The deadline expires: srv.Close ends what still runs.
ShutdownExpires ==
  /\ timer = 0 /\ Goto("shutdown", "cancel")
  /\ cut' = Unfinished
  /\ UNCHANGED <<signalled, ready, listener, timer, request, workers, pool, balancer>>

\* Mutant: the grace period is added to what Shutdown left of its own.
CancelWorkersLater ==
  /\ Goto("cancel", "waiting")
  /\ cancelled' = TRUE
  /\ timer' = timer + GracePeriod
  /\ UNCHANGED <<signalled, ready, listener, request, cut, worker, warned, pool, balancer>>

\* cancelWorkers, and one deadline for all workers.
CancelWorkers ==
  /\ Goto("cancel", "waiting")
  /\ cancelled' = TRUE
  /\ timer' = GracePeriod
  /\ UNCHANGED <<signalled, ready, listener, request, cut, worker, warned, pool, balancer>>

\* Mutant: the workers are not waited for.
WorkersGoneAtOnce ==
  /\ Goto("waiting", "deferred")
  /\ UNCHANGED <<signalled, ready, listener, timer, request, cut, workers, pool, balancer>>

\* <-worker.done of every worker that was not given up.
WorkersGone ==
  /\ \A w \in Worker \ warned : worker[w] = "done"
  /\ Goto("waiting", "deferred")
  /\ UNCHANGED <<signalled, ready, listener, timer, request, cut, workers, pool, balancer>>

\* waitCtx is done and w is not: warn, and go on without it.
GiveUp(w) ==
  /\ main = "waiting" /\ timer = 0 /\ w \notin warned
  /\ worker[w] # "done"
  /\ warned' = warned \cup {w}
  /\ UNCHANGED <<process, request, cut, worker, cancelled, pool, balancer>>

\* pool.Close refuses new connections and waits for the acquired ones.
ClosePool ==
  /\ main = "deferred" /\ pool = "open"
  /\ pool' = "closing"
  /\ UNCHANGED <<process, request, cut, workers, balancer>>

\* The pool is closed, and the process exits with whatever still runs.
Exit ==
  /\ pool = "closing" /\ Acquired = {}
  /\ Goto("deferred", "exited")
  /\ pool' = "closed"
  /\ request' = [q \in Request |-> IF q \in Unfinished THEN "lost" ELSE request[q]]
  /\ worker' = [w \in Worker |-> "done"]
  /\ UNCHANGED <<signalled, ready, listener, timer, cut, cancelled, warned, balancer>>

(* Workers *)

\* A poll or a round of the reaper takes a connection.
Work(w) ==
  /\ worker[w] = "idle" /\ ~WorkersDone /\ pool = "open"
  /\ worker' = [worker EXCEPT ![w] = "busy"]
  /\ UNCHANGED <<process, request, cut, cancelled, warned, pool, balancer>>

\* The batch or statement ends, by itself or because its context is done.
EndWork(w) ==
  /\ worker[w] = "busy"
  /\ worker' = [worker EXCEPT ![w] = "idle"]
  /\ UNCHANGED <<process, request, cut, cancelled, warned, pool, balancer>>

StopWorker(w) ==
  /\ worker[w] = "idle" /\ WorkersDone
  /\ worker' = [worker EXCEPT ![w] = "done"]
  /\ UNCHANGED <<process, request, cut, cancelled, warned, pool, balancer>>

(* Requests *)

Become(q, from, to) == request[q] = from /\ request' = [request EXCEPT ![q] = to]

\* The load balancer sends a request.
Arrive(q) ==
  /\ routed
  /\ Become(q, "none", IF listener = "open" THEN "running" ELSE "refused")
  /\ UNCHANGED <<process, cut, workers, pool, balancer>>

\* The handler asks the pool for a connection.
Acquire(q) ==
  /\ Become(q, "running", IF q \notin cut /\ pool = "open" THEN "querying" ELSE "failed")
  /\ UNCHANGED <<process, cut, workers, pool, balancer>>

\* A statement or transaction ends; the handler goes on.
Release(q) ==
  /\ Become(q, "querying", "running")
  /\ UNCHANGED <<process, cut, workers, pool, balancer>>

\* The handler returns, of itself or because its context is done.
Answer(q) ==
  /\ request[q] \in {"running", "querying"}
  /\ Become(q, request[q], IF q \in cut THEN "failed" ELSE "answered")
  /\ UNCHANGED <<process, cut, workers, pool, balancer>>

(* The environment *)

Signal ==
  /\ ~signalled /\ signalled' = TRUE
  /\ UNCHANGED <<main, ready, listener, timer, request, cut, workers, pool, balancer>>

\* GET /readyz: 200 if the flag is set and the database answers a ping.
Probe ==
  /\ probe = 0
  /\ \E ping \in BOOLEAN : routed' = (listener = "open" /\ ready /\ ping)
  /\ probe' = ProbeInterval
  /\ UNCHANGED <<process, request, cut, workers, pool>>

Tick ==
  /\ probe > 0
  /\ probe' = probe - 1
  /\ timer' = IF timer > 0 THEN timer - 1 ELSE 0
  /\ UNCHANGED <<main, signalled, ready, listener, request, cut, workers, pool, routed>>

-----------------------------------------------------------------------------
Main ==
  \/ Serve \/ RouterFails \/ ServeError \/ Drain \/ Shutdown \/ Stopped
  \/ ShutdownExpires \/ CancelWorkers \/ WorkersGone \/ (\E w \in Worker : GiveUp(w))
  \/ ClosePool \/ Exit

Next ==
  \/ Main \/ ListenerFails
  \/ \E w \in Worker : Work(w) \/ EndWork(w) \/ StopWorker(w)
  \/ \E q \in Request : Arrive(q) \/ Acquire(q) \/ Release(q) \/ Answer(q)
  \/ Signal \/ Probe \/ Tick

Spec == Init /\ [][Next]_vars

\* run goes on when it can, time passes, statements end, and workers that are not
\* stuck end what they do.  A handler need not return before it is told to.
Fairness ==
  /\ WF_vars(Main) /\ WF_vars(Tick) /\ WF_vars(Probe)
  /\ \A w \in Worker \ Stuck : WF_vars(EndWork(w))
  /\ \A w \in Worker : WF_vars(StopWorker(w))
  /\ \A q \in Request : WF_vars(Release(q)) /\ WF_vars(q \in cut /\ Answer(q))

FairSpec == Spec /\ Fairness

-----------------------------------------------------------------------------
\* "Flip readiness so load balancers stop routing, pause, then stop accepting":
\* when the pause is longer than the interval of probes, no request of a load
\* balancer meets a closed listener (server.Run).
NoneRefused == \A q \in Request : request[q] = "refused" => listener = "failed"

\* A request that was accepted is served to its end by a healthy pool, unless
\* the shutdown deadline expired or the listener had failed (server.Run, run).
ServedInFull ==
  \A q \in Request : request[q] \in {"failed", "lost"} => q \in cut \/ listener = "failed"

\* Workers are told to stop before the pool closes, by whatever path run
\* returns: "the deferred cancel also guards the early-return paths".
WorkersToldToStop == pool # "open" => WorkersDone

\* A request that outlives the shutdown deadline has had its connection closed,
\* "so request contexts cancel database work before the caller closes its pool".
RequestsToldToStop == pool # "open" => listener = "failed" \/ Unfinished \subseteq cut

\* "Stop background workers and wait for them before the deferred pool.Close
\* runs": a worker still at work then had used up its grace period, or the
\* service never came to serve (run).
WorkersFirst ==
  pool # "open" /\ listener # "off" =>
    \A w \in Worker : worker[w] = "done" \/ w \in warned

\* Where run is, in terms of what it has done.
Course ==
  /\ main = "starting" => listener = "off"
  /\ listener = "off" => main \in {"starting", "deferred", "exited"}
  /\ listener = "closed" => main \notin {"starting", "serving", "draining"}
  /\ listener = "open" => main \in {"serving", "draining"}
  /\ main \in {"waiting", "deferred", "exited"} => cancelled
  /\ pool # "open" => main \in {"deferred", "exited"}

\* Before there is a listener there are no requests, and none is cut before the
\* deadline; after it those that run are cut, unless the listener had failed.
Requests ==
  /\ listener = "off" => ~routed /\ \A q \in Request : request[q] = "none"
  /\ main \in {"starting", "serving", "draining", "shutdown"} => cut = {}
  /\ main \in {"cancel", "waiting", "deferred", "exited"} =>
       listener = "failed" \/ Unfinished \subseteq cut

\* Once the wait is over, so is each worker, or it was given up.
WaitedFor ==
  main \in {"deferred", "exited"} /\ listener # "off" =>
    \A w \in Worker : worker[w] = "done" \/ w \in warned

\* The balancer learns that the instance is not ready before the pause ends.
Unrouted ==
  /\ main \in {"draining", "shutdown"} => ~ready
  /\ main = "draining" /\ listener = "open" /\ routed => probe < timer
  /\ listener = "closed" => ~ready /\ ~routed
  /\ NoneRefused

\* The invariant of the proofs: it is inductive and implies the ones above.
IInv ==
  /\ TypeOK /\ Course /\ Requests /\ WaitedFor /\ ServedInFull
  /\ ProbeInterval < DrainDelay => Unrouted

\* "Stop background workers and wait for them" within a bounded wait: run comes to
\* its deferred calls whatever its handlers and workers do, and when no worker is
\* then held up in what it does the process exits (run, shutdownHTTPServer).
RunReturns ==
  /\ signalled ~> main \in {"deferred", "exited"}
  /\ (main = "deferred" /\ \A w \in Stuck : worker[w] # "busy") ~> main = "exited"

\* "The wait is bounded ... so a stuck worker cannot block shutdown indefinitely":
\* a process that is told to stop exits (run).
ShutdownEnds == signalled ~> main = "exited"
=============================================================================
