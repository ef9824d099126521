------------------------------ MODULE WidgetLog ------------------------------
(* What subscribers are promised of the events of each widget: one history    *)
(* that only grows at its end, begins with the creation, tells every change   *)
(* once and ends with the deletion.                                           *)
EXTENDS Sequences

CONSTANTS Widget, Value, None

VARIABLE log   \* log[w]: the events of w in the order of their ids

Created(v) == [type |-> "widget.created", value |-> v]
Updated(v) == [type |-> "widget.updated", value |-> v]
Deleted    == [type |-> "widget.deleted", value |-> None]

Alive(w) == log[w] # <<>> /\ log[w][Len(log[w])] # Deleted

Tell(w, event) == log' = [log EXCEPT ![w] = Append(@, event)]

Init == log = [w \in Widget |-> <<>>]

Next ==
  \E w \in Widget :
    \/ \E v \in Value : log[w] = <<>> /\ Tell(w, Created(v))
    \/ \E v \in Value : Alive(w) /\ Tell(w, Updated(v))
    \/ Alive(w) /\ Tell(w, Deleted)

Spec == Init /\ [][Next]_log
=============================================================================
