------------------------------ MODULE MCOutbox ------------------------------
(* Outbox for TLC: relays are interchangeable when their batches are of one *)
(* size.                                                                    *)
EXTENDS Outbox, TLC

CONSTANTS r1, r2

EqualBatches == [r \in Relay |-> 2]
\* One row at a time, and an instance configured with no rows at all.
UnequalBatches == [r \in Relay |-> IF r = r1 THEN 1 ELSE 0]

RelaySymmetry == Permutations(Relay)
=============================================================================
