---------------------------- MODULE MCAddResource ----------------------------
(* Two terminals and three resources: a and its namesake share a component   *)
(* name, as Order and OrderList do; b shares none.                           *)
EXTENDS AddResource, TLC

CONSTANTS t1, t2, a, namesake, b, edit

MCNames == [r \in Resource |-> IF r = b THEN {"B", "BList"}
                               ELSE IF r = a THEN {"A", "AList"}
                               ELSE {"AList", "AListList"}]

TerminalSymmetry == Permutations(Terminal)
=============================================================================
