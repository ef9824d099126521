----------------------------- MODULE OncePerKey -----------------------------
(***************************************************************************)
(* What idempotent creates promise their clients, as if every request were *)
(* served in one step: a key stands for at most one widget at a time, and  *)
(* while it does, every other request with that key is answered with that  *)
(* widget or, if it asks for something else, with a conflict.              *)
(***************************************************************************)
CONSTANTS Request, Key, KeyOf, HashOf, Nobody

VARIABLES
  granted,  \* granted[k]: the request whose widget key k stands for, or Nobody
  widgets,  \* requests whose widget exists
  response  \* response[q]: what request q was told

Answers == [kind : {"pending", "refused", "conflict", "failed"}, widget : {Nobody}]
             \cup [kind : {"created", "replayed"}, widget : Request]

Reply(kind, w) == [kind |-> kind, widget |-> w]
Pending(q)     == response[q].kind = "pending"

Init ==
  /\ granted = [k \in Key |-> Nobody]
  /\ widgets = {}
  /\ response = [q \in Request |-> Reply("pending", Nobody)]

\* q is told something; the store stays as it is.
Tell(q, reply) ==
  /\ Pending(q)
  /\ response' = [response EXCEPT ![q] = reply]
  /\ UNCHANGED <<granted, widgets>>

Refuse(q) == Tell(q, Reply("refused", Nobody))
Fail(q)   == Tell(q, Reply("failed", Nobody))

Replay(q) == \E w \in Request :
  /\ granted[KeyOf[q]] = w /\ HashOf[w] = HashOf[q]
  /\ Tell(q, Reply("replayed", w))

Conflict(q) == \E w \in Request :
  /\ granted[KeyOf[q]] = w /\ HashOf[w] # HashOf[q]
  /\ Tell(q, Reply("conflict", Nobody))

\* q creates its widget, and hears of it or not.  A grant that took longer
\* than its lifetime to make has lapsed already.
Create(q) ==
  /\ Pending(q) /\ q \notin widgets
  /\ granted[KeyOf[q]] = Nobody
  /\ \E g \in {q, Nobody} : granted' = [granted EXCEPT ![KeyOf[q]] = g]
  /\ widgets' = widgets \cup {q}
  /\ \E reply \in {Reply("created", q), Reply("failed", Nobody)} :
       response' = [response EXCEPT ![q] = reply]

\* Grants lapse.
Lapse(S) ==
  /\ granted' = [k \in Key |-> IF k \in S THEN Nobody ELSE granted[k]]
  /\ UNCHANGED <<widgets, response>>

Next ==
  \/ \E q \in Request : Refuse(q) \/ Fail(q) \/ Replay(q) \/ Conflict(q) \/ Create(q)
  \/ \E S \in SUBSET Key : Lapse(S)

Spec == Init /\ [][Next]_<<granted, widgets, response>>
=============================================================================
