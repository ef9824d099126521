-------------------------- MODULE LifecycleProofs --------------------------
(***************************************************************************)
(* Proofs about Lifecycle, for any requests, workers and periods: the      *)
(* inductive invariant and the safety properties it implies.  That nobody  *)
(* is refused needs a drain longer than the interval between two probes.   *)
(***************************************************************************)
EXTENDS Lifecycle, TLAPS

LEMMA InitIInv == Init => IInv
<1> SUFFICES ASSUME Init PROVE IInv
  OBVIOUS
<1> USE TimeAssumption, WorkerAssumption DEF Init
<1>1. TypeOK
  <2>1. timer \in 0..DrainDelay /\ probe \in 0..ProbeInterval
    OBVIOUS
  <2> QED
    BY <2>1 DEF TypeOK, Phases, RequestStates
<1>2. Course /\ Requests /\ WaitedFor /\ ServedInFull /\ Unrouted
  BY DEF Course, Requests, WaitedFor, ServedInFull, Unrouted, NoneRefused, Unfinished
<1> QED
  BY <1>1, <1>2 DEF IInv

-----------------------------------------------------------------------------
(* Steps of run that leave requests and workers as they are. *)

LEMMA StartStep == IInv /\ (Serve \/ RouterFails \/ ServeError) => IInv'
<1> SUFFICES ASSUME IInv, Serve \/ RouterFails \/ ServeError PROVE IInv'
  OBVIOUS
<1> USE DEF Serve, RouterFails, ServeError, Goto, workers, balancer
<1>1. TypeOK'
  BY DEF IInv, TypeOK, Phases
<1>2. Course'
  BY DEF IInv, Course
<1>3. Requests'
  BY DEF IInv, Course, Requests, Unfinished
<1>4. WaitedFor'
  BY DEF IInv, Course, WaitedFor
<1>5. ServedInFull'
  BY DEF IInv, Course, Requests, ServedInFull
<1>6. ProbeInterval < DrainDelay => Unrouted'
  BY DEF IInv, Course, Requests, Unrouted, NoneRefused
<1> QED
  BY <1>1, <1>2, <1>3, <1>4, <1>5, <1>6 DEF IInv

LEMMA DrainStep == IInv /\ (Drain \/ Shutdown \/ ListenerFails) => IInv'
<1> SUFFICES ASSUME IInv, Drain \/ Shutdown \/ ListenerFails PROVE IInv'
  OBVIOUS
<1> USE TimeAssumption DEF Drain, Shutdown, ListenerFails, Goto, workers, balancer
<1>1. TypeOK'
  <2>1. timer' \in 0..DrainDelay \cup 0..ShutdownTimeout \cup 0..GracePeriod
    BY DEF IInv, TypeOK
  <2> QED
    BY <2>1 DEF IInv, TypeOK, Phases
<1>2. Course'
  BY DEF IInv, Course
<1>3. Requests'
  BY DEF IInv, Course, Requests, Unfinished
<1>4. WaitedFor'
  BY DEF IInv, Course, WaitedFor
<1>5. ServedInFull'
  BY DEF IInv, ServedInFull
<1>6. ProbeInterval < DrainDelay => Unrouted'
  BY DEF IInv, TypeOK, Course, Unrouted, NoneRefused
<1> QED
  BY <1>1, <1>2, <1>3, <1>4, <1>5, <1>6 DEF IInv

LEMMA StopStep ==
  IInv /\ (Stopped \/ ShutdownExpires \/ CancelWorkers \/ WorkersGone) => IInv'
<1> SUFFICES ASSUME IInv, Stopped \/ ShutdownExpires \/ CancelWorkers \/ WorkersGone
             PROVE  IInv'
  OBVIOUS
<1> USE TimeAssumption
    DEF Stopped, ShutdownExpires, CancelWorkers, WorkersGone, Goto, workers, balancer
<1>1. TypeOK'
  <2>1. timer' \in 0..DrainDelay \cup 0..ShutdownTimeout \cup 0..GracePeriod
    BY DEF IInv, TypeOK
  <2> QED
    BY <2>1 DEF IInv, TypeOK, Phases, Unfinished
<1>2. Course'
  BY DEF IInv, Course
<1>3. Requests'
  BY DEF IInv, Course, Requests, Unfinished
<1>4. WaitedFor'
  BY DEF IInv, Course, WaitedFor
<1>5. ServedInFull'
  BY DEF IInv, Requests, ServedInFull
<1>6. ProbeInterval < DrainDelay => Unrouted'
  BY DEF IInv, Unrouted, NoneRefused
<1> QED
  BY <1>1, <1>2, <1>3, <1>4, <1>5, <1>6 DEF IInv

LEMMA GiveUpStep == ASSUME IInv, NEW w \in Worker, GiveUp(w) PROVE IInv'
<1> USE DEF GiveUp, process, balancer
<1>1. TypeOK' /\ Course'
  BY DEF IInv, TypeOK, Course
<1>2. Requests' /\ ServedInFull'
  BY DEF IInv, Requests, ServedInFull, Unfinished
<1>3. WaitedFor'
  BY DEF IInv, WaitedFor
<1>4. ProbeInterval < DrainDelay => Unrouted'
  BY DEF IInv, Unrouted, NoneRefused
<1> QED
  BY <1>1, <1>2, <1>3, <1>4 DEF IInv

LEMMA CloseStep == IInv /\ (ClosePool \/ Exit) => IInv'
<1> SUFFICES ASSUME IInv, ClosePool \/ Exit PROVE IInv'
  OBVIOUS
<1> USE DEF ClosePool, Exit, Goto, process, workers, balancer
<1>1. TypeOK'
  BY DEF IInv, TypeOK, Phases, RequestStates
<1>2. Course'
  BY DEF IInv, Course
<1>3. Requests'
  BY DEF IInv, TypeOK, Requests, Unfinished
<1>4. WaitedFor'
  BY DEF IInv, WaitedFor
<1>5. ServedInFull'
  BY DEF IInv, TypeOK, Requests, ServedInFull, Unfinished
<1>6. ProbeInterval < DrainDelay => Unrouted'
  BY DEF IInv, Unrouted, NoneRefused, Unfinished
<1> QED
  BY <1>1, <1>2, <1>3, <1>4, <1>5, <1>6 DEF IInv

-----------------------------------------------------------------------------
(* Workers, requests and the environment. *)

LEMMA WorkerStep ==
  ASSUME IInv, NEW w \in Worker, Work(w) \/ EndWork(w) \/ StopWorker(w)
  PROVE  IInv'
<1> USE DEF Work, EndWork, StopWorker, process, balancer
<1>1. TypeOK' /\ Course'
  BY DEF IInv, TypeOK, Course
<1>2. Requests' /\ ServedInFull'
  BY DEF IInv, Requests, ServedInFull, Unfinished
<1>3. WaitedFor'
  BY DEF IInv, TypeOK, WaitedFor
<1>4. ProbeInterval < DrainDelay => Unrouted'
  BY DEF IInv, Unrouted, NoneRefused
<1> QED
  BY <1>1, <1>2, <1>3, <1>4 DEF IInv

LEMMA RequestStep ==
  ASSUME IInv, NEW q \in Request, Arrive(q) \/ Acquire(q) \/ Release(q) \/ Answer(q)
  PROVE  IInv'
<1> USE DEF Arrive, Acquire, Release, Answer, Become, process, workers, balancer
<1>1. TypeOK' /\ Course'
  BY DEF IInv, TypeOK, RequestStates, Course
<1>2. Requests'
  BY DEF IInv, TypeOK, Course, Requests, Unfinished
<1>3. WaitedFor'
  BY DEF IInv, WaitedFor
<1>4. ServedInFull'
  BY DEF IInv, TypeOK, Course, Requests, ServedInFull, Unfinished
<1>5. ProbeInterval < DrainDelay => Unrouted'
  BY DEF IInv, TypeOK, Course, Requests, Unrouted, NoneRefused
<1> QED
  BY <1>1, <1>2, <1>3, <1>4, <1>5 DEF IInv

LEMMA EnvironmentStep == IInv /\ (Signal \/ Probe \/ Tick) => IInv'
<1> SUFFICES ASSUME IInv, Signal \/ Probe \/ Tick PROVE IInv'
  OBVIOUS
<1> USE TimeAssumption DEF Signal, Probe, Tick, process, workers, balancer
<1>1. TypeOK'
  <2>1. timer' \in 0..DrainDelay \cup 0..ShutdownTimeout \cup 0..GracePeriod
    BY DEF IInv, TypeOK
  <2>2. probe' \in 0..ProbeInterval
    BY DEF IInv, TypeOK
  <2>3. routed' \in BOOLEAN /\ signalled' \in BOOLEAN
    BY DEF IInv, TypeOK
  <2> QED
    BY <2>1, <2>2, <2>3 DEF IInv, TypeOK
<1>2. Course'
  <2>1. UNCHANGED <<main, listener, cancelled, pool>>
    OBVIOUS
  <2> QED
    BY <2>1 DEF IInv, Course
<1>3. Requests' /\ ServedInFull'
  <2>1. UNCHANGED <<main, listener, request, cut>>
    OBVIOUS
  <2>2. listener = "off" => ~routed'
    BY DEF IInv, TypeOK, Requests
  <2> QED
    BY <2>1, <2>2 DEF IInv, Requests, ServedInFull, Unfinished
<1>4. WaitedFor'
  BY DEF IInv, WaitedFor
<1>5. ProbeInterval < DrainDelay => Unrouted'
  BY DEF IInv, TypeOK, Course, Unrouted, NoneRefused
<1> QED
  BY <1>1, <1>2, <1>3, <1>4, <1>5 DEF IInv

LEMMA NextIInv == IInv /\ [Next]_vars => IInv'
<1>1. IInv /\ Main => IInv'
  BY StartStep, DrainStep, StopStep, GiveUpStep, CloseStep DEF Main
<1>2. IInv /\ UNCHANGED vars => IInv'
  BY DEF vars, process, workers, balancer, IInv, TypeOK, Course, Requests, WaitedFor,
         ServedInFull, Unrouted, NoneRefused, Unfinished
<1> QED
  BY <1>1, <1>2, DrainStep, WorkerStep, RequestStep, EnvironmentStep DEF Next

-----------------------------------------------------------------------------
\* The invariant holds in every reachable state of the process.
THEOREM Invariance == Spec => []IInv
  BY InitIInv, NextIInv, PTL DEF Spec

\* Every variable keeps its type; main never waits longer than one of its periods.
THEOREM TypeCorrect == Spec => []TypeOK
<1>1. IInv => TypeOK
  BY DEF IInv
<1> QED
  BY <1>1, Invariance, PTL

\* Every accepted request is served unless the deadline of Shutdown expired or
\* the listener had failed.
THEOREM AcceptedIsServed == Spec => []ServedInFull
<1>1. IInv => ServedInFull
  BY DEF IInv
<1> QED
  BY <1>1, Invariance, PTL

\* The pool closes only after workers and requests were told to stop, and the
\* workers were waited for, or given up after their grace period.
THEOREM PoolClosesLast ==
  Spec => [](WorkersToldToStop /\ RequestsToldToStop /\ WorkersFirst)
<1>1. IInv => WorkersToldToStop /\ RequestsToldToStop /\ WorkersFirst
  BY DEF IInv, Course, Requests, WaitedFor, WorkersToldToStop, WorkersDone,
         RequestsToldToStop, WorkersFirst
<1> QED
  BY <1>1, Invariance, PTL

\* Flipping readiness first keeps every request away from the closed listener,
\* if the pause is longer than the interval at which the balancer probes.
THEOREM NobodyRefused ==
  ASSUME ProbeInterval < DrainDelay
  PROVE  Spec => []NoneRefused
<1>1. IInv => NoneRefused
  BY DEF IInv, Unrouted
<1> QED
  BY <1>1, Invariance, PTL
=============================================================================
