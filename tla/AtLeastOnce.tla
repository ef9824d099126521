---------------------------- MODULE AtLeastOnce ----------------------------
(***************************************************************************)
(* What a transactional outbox promises its users, without relays, rows or *)
(* time: a message of a committed change is owed, it is delivered once or  *)
(* more, and only then is it settled.                                      *)
(***************************************************************************)
CONSTANT Message

VARIABLE stage  \* stage[m]: how far message m has come

Stages == {"unborn", "owed", "delivered", "settled"}

Init == stage = [m \in Message |-> "unborn"]

\* The change that message m reports commits.
Owe(m) ==
  /\ stage[m] = "unborn"
  /\ stage' = [stage EXCEPT ![m] = "owed"]

\* The far end accepts m for the first time; again is a stutter.
Deliver(m) ==
  /\ stage[m] = "owed"
  /\ stage' = [stage EXCEPT ![m] = "delivered"]

\* Some delivered messages are settled together.
Settle(M) ==
  /\ \A m \in M : stage[m] = "delivered"
  /\ stage' = [m \in Message |-> IF m \in M THEN "settled" ELSE stage[m]]

Next ==
  \/ \E m \in Message : Owe(m) \/ Deliver(m)
  \/ \E M \in SUBSET Message : Settle(M)

Spec == Init /\ [][Next]_stage
=============================================================================
