---------------------------- MODULE MCSequential ----------------------------
(***************************************************************************)
(* Parts that share no state with each other, one of them at a time.       *)
(*                                                                         *)
(* Of the limiter: two addresses of one /64 and an IPv4 client that also   *)
(* comes in as a mapped address; no proxy, one trusted, or two; forged     *)
(* headers that name the other client, a trusted proxy, or no address.     *)
(***************************************************************************)
EXTENDS Scanner, Toolchain, Pipeline, Transform, RowKey, RateLimit

CONSTANTS s1, s2

VARIABLE part

others == <<scanVars, toolVars, request, transformVars, call, limitVars>>

MCOf == [d \in Derived |-> {"outbox", "idempotency"}]

V4(h)     == [form |-> "v4", net |-> 0, host |-> h]
Mapped(h) == [form |-> "mapped", net |-> 0, host |-> h]
V6(h)     == [form |-> "v6", net |-> 6, host |-> h]

MCSender  == {Mapped(1), V6(1), V6(2)}
MCProxy   == {Mapped(8), V4(8), V4(9)}
MCTrusted == {V4(8), V4(9)}
MCForged  == {<<V6(1)>>, <<V4(8)>>, <<Nil>>}
MCRoutes  == {<<>>, <<Mapped(8)>>, <<V4(9), V4(8)>>}

\* Requests are interchangeable: they are numbered as they come in.
InTurn == \A i, j \in Request : i < j /\ phase[i] = "new" => phase[j] = "new"

\* Versions have no order: those of the sources at first are called 1.  What is
\* generated then is not there, current or stale.
MCInit ==
  /\ part \in {"scanner", "toolchain", "router", "strip", "renumber", "key", "limit"}
  /\ ScanInit /\ PipelineInit /\ RowKeyInit /\ LimitInit
  /\ ToolInit /\ pins = 1 /\ contract = 1 /\ sql \in {1, Absent, Clashing}
  /\ generated \in [{"db", "api"} -> {Absent, <<1, 1>>, <<2, 1>>}]
  /\ (part # "toolchain" => generated = Nothing /\ sql = Absent)
  /\ TransformInit /\ (part # "strip" => chosen = {}) /\ (part # "renumber" => before = {})

MCNext ==
  /\ part' = part
  /\ \/ /\ part = "scanner" /\ Scan
        /\ UNCHANGED <<toolVars, request, transformVars, call, limitVars>>
     \/ /\ part = "toolchain" /\ Develop
        /\ UNCHANGED <<scanVars, request, transformVars, call, limitVars>>
     \/ /\ part = "router" /\ Receive
        /\ UNCHANGED <<scanVars, toolVars, transformVars, call, limitVars>>
     \/ /\ part = "strip" /\ Strip
        /\ UNCHANGED <<scanVars, toolVars, request, call, limitVars>>
     \/ /\ part = "renumber" /\ Renumber
        /\ UNCHANGED <<scanVars, toolVars, request, call, limitVars>>
     \/ /\ part = "key" /\ Claim
        /\ UNCHANGED <<scanVars, toolVars, request, transformVars, limitVars>>
     \/ /\ part = "limit" /\ LimitNext /\ InTurn'
        /\ UNCHANGED <<scanVars, toolVars, request, transformVars, call>>

MCSpec == MCInit /\ [][MCNext]_<<part, others>>
=============================================================================
