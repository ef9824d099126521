------------------------------ MODULE MCWidget ------------------------------
(***************************************************************************)
(* The operations of the widget module: creates with an Idempotency-Key,   *)
(* or all others; a behaviour is of one of the two.                        *)
(*                                                                         *)
(* Creates: requests with one key, a first one, its retry, and another one *)
(* with a different body.  Others: two writers and a reader; one of the    *)
(* pages lies past the other's end.                                        *)
(***************************************************************************)
EXTENDS IdempotentCreate, WidgetStore

CONSTANTS first, retry, other, key, body1, body2, w1, w2, guest

VARIABLE keyed

MCKeyOf  == [q \in Request |-> key]
MCHashOf == [q \in Request |-> IF q = other THEN body2 ELSE body1]

MCInit == keyed \in BOOLEAN /\ CreateInit /\ Init

MCNext ==
  /\ keyed' = keyed
  /\ \/ keyed /\ CreateNext /\ UNCHANGED vars
     \/ ~keyed /\ Next /\ UNCHANGED createVars

MCSpec == MCInit /\ [][MCNext]_<<keyed, createVars, vars>>

\* Each part has its own fairness.
MCFairSpec == MCSpec /\ ((keyed /\ CreateFairness) \/ (~keyed /\ Fairness))
=============================================================================
