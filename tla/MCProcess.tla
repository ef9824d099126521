------------------------------ MODULE MCProcess ------------------------------
(***************************************************************************)
(* One process of the service, or the reapers of two: they share no state, *)
(* and a behaviour is of one of them.                                      *)
(***************************************************************************)
EXTENDS Lifecycle, Maintenance

CONSTANTS q1, q2, relay, reaper, a, b, k1

VARIABLE part

MCInit ==
  /\ part \in {"process", "reapers"}
  /\ Init /\ ReapInit /\ (part = "process" => broken = {})

MCNext ==
  /\ part' = part
  /\ \/ part = "process" /\ Next /\ UNCHANGED reapVars
     \/ part = "reapers" /\ ReapNext /\ UNCHANGED vars

MCSpec == MCInit /\ [][MCNext]_<<part, vars, reapVars>>

\* Each part has its own fairness.
MCFairSpec ==
  /\ MCSpec
  /\ (part = "process" /\ Fairness) \/ (part = "reapers" /\ ReapFairness)
=============================================================================
