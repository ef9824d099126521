-------------------------- MODULE WidgetStoreProofs --------------------------
(***************************************************************************)
(* Proofs about WidgetStore, for any clients, widgets, values, pages and   *)
(* number of requests: the inductive invariant, that events tell what is   *)
(* in the rows, that a page agrees with its total, and that answers are    *)
(* true, and that every step is one of WidgetLog or changes nothing there. *)
(***************************************************************************)
EXTENDS WidgetStore, Sequences, FiniteSetTheorems, TLAPS

-----------------------------------------------------------------------------
(* Pages *)

\* How many rows LIMIT and OFFSET leave of a table.
Shown(n, limit, offset) ==
  IF n - offset <= 0 THEN 0 ELSE IF n - offset < limit THEN n - offset ELSE limit

LEMMA PageSize ==
  ASSUME NEW S \in SUBSET Nat, IsFiniteSet(S), NEW limit \in Nat, NEW offset \in Nat
  PROVE  /\ Cardinality(S) \in Nat
         /\ Cardinality(PageOf(S, limit, offset)) = Shown(Cardinality(S), limit, offset)
<1> DEFINE n        == Cardinality(S)
           Above(w) == {k \in S : k >= w}
           rank     == [w \in S |-> Cardinality(Above(w))]
           P        == PageOf(S, limit, offset)
           I        == {i \in 1..n : i \in (offset + 1)..(offset + limit)}
           last     == IF offset + limit < n THEN offset + limit ELSE n
<1>1. n \in Nat
  BY FS_CardinalityType
<1>2. ASSUME NEW w \in S
      PROVE  IsFiniteSet(Above(w)) /\ Cardinality(Above(w)) \in 1..n
  <2>1. Above(w) \in SUBSET S /\ w \in Above(w)
    OBVIOUS
  <2>2. IsFiniteSet(Above(w)) /\ Cardinality(Above(w)) <= n
    BY <2>1, FS_Subset
  <2>3. Cardinality(Above(w)) \in Nat /\ Cardinality(Above(w)) # 0
    BY <2>1, <2>2, FS_CardinalityType, FS_EmptySet
  <2> QED
    BY <1>1, <2>2, <2>3
<1>3. ASSUME NEW v \in S, NEW w \in S, v < w
      PROVE  Cardinality(Above(v)) # Cardinality(Above(w))
  <2>a. v \in Nat /\ w \in Nat /\ \A k \in S : k \in Nat
    OBVIOUS
  <2>b. \A k \in S : k >= w => k >= v
    BY <1>3, <2>a
  <2>c. v \in Above(v) /\ v \notin Above(w)
    BY <1>3, <2>a
  <2>1. Above(w) \in SUBSET Above(v) /\ v \in Above(v) /\ v \notin Above(w)
    BY <2>b, <2>c
  <2>2. IsFiniteSet(Above(v))
    BY <1>2
  <2>3. Cardinality(Above(v)) = Cardinality(Above(w)) => Above(v) = Above(w)
    BY ONLY <2>1, <2>2, FS_Subset
  <2> QED
    BY <2>1, <2>3
<1>4. rank \in Injection(S, 1..n)
  <2>1. rank \in [S -> 1..n]
    BY <1>2
  <2>2. ASSUME NEW v \in S, NEW w \in S, rank[v] = rank[w] PROVE v = w
    BY <1>3, <2>2
  <2> QED
    BY <2>1, <2>2 DEF Injection, IsInjective
<1> HIDE DEF rank
<1>5. rank \in Surjection(S, 1..n)
  <2>1. IsFiniteSet(1..n) /\ Cardinality(1..n) = n
    BY <1>1, FS_Interval
  <2> QED
    BY <1>4, <2>1, FS_Injection
<1>6. P = {w \in S : rank[w] \in I}
  BY <1>2 DEF PageOf, rank
<1>7. IsFiniteSet(P)
  BY <1>6, FS_Subset
<1>8. ExistsBijection(P, I)
  <2> DEFINE f == [w \in P |-> rank[w]]
  <2>1. f \in [P -> I]
    BY <1>6
  <2>2. \A v, w \in P : f[v] = f[w] => v = w
    BY <1>4, <1>6 DEF Injection, IsInjective
  <2>3. \A i \in I : \E w \in P : f[w] = i
    BY <1>5, <1>6 DEF Surjection
  <2>4. f \in Bijection(P, I)
    BY <2>1, <2>2, <2>3 DEF Bijection, Injection, Surjection, IsInjective
  <2> QED
    BY <2>4 DEF ExistsBijection
<1>9. Cardinality(P) = Cardinality(I)
  BY <1>7, <1>8, FS_Bijection
<1>10. I = (offset + 1)..last
  BY <1>1
<1>11. offset + 1 \in Int /\ last \in Int
  BY <1>1
<1> HIDE DEF I, last, P
<1>12. Cardinality(I) = IF offset + 1 > last THEN 0 ELSE last - (offset + 1) + 1
  BY <1>10, <1>11, FS_Interval
<1>13. Cardinality(I) = Shown(n, limit, offset)
  BY <1>1, <1>12 DEF Shown, last
<1> QED
  BY <1>1, <1>9, <1>13 DEF P

-----------------------------------------------------------------------------
(* The invariant *)

LEMMA InitIInv == Init => IInv
<1> SUFFICES ASSUME Init PROVE IInv
  OBVIOUS
<1> USE WidgetAssumption, BoundAssumption DEF Init
<1>1. TypeOK
  <2>1. Cardinality(Widget) \in Nat
    BY FS_CardinalityType
  <2> QED
    BY <2>1 DEF TypeOK, Places, Ops, Answers, Reply, NoPage
<1>2. Course /\ Drawn /\ EventsTellRows /\ Accounted
  BY FS_EmptySet DEF Course, Drawn, EventsTellRows, Writing, Present, Accounted
<1>3. Counted
  <2>1. Undrawn = {}
    BY DEF Undrawn
  <2> QED
    BY <2>1, FS_EmptySet DEF Counted
<1> QED
  BY <1>1, <1>2, <1>3 DEF IInv

\* How the set of requests that may draw an id, and its size, change with one client.
LEMMA UndrawnStep ==
  ASSUME TypeOK, NEW c \in Client, NEW place \in Places, pc' = [pc EXCEPT ![c] = place]
  PROVE  /\ Cardinality(Undrawn) \in Nat /\ Cardinality(Undrawn') \in Nat
         /\ Cardinality(Undrawn') <= Cardinality(Undrawn) + 1
         /\ pc[c] \in {"serving", "wrote"} => Cardinality(Undrawn') <= Cardinality(Undrawn)
         /\ place \notin {"serving", "wrote"} => Cardinality(Undrawn') <= Cardinality(Undrawn)
         /\ pc[c] \in {"serving", "wrote"} /\ place \notin {"serving", "wrote"}
              => Cardinality(Undrawn') = Cardinality(Undrawn) - 1
<1>1. IsFiniteSet(Undrawn)
  BY ClientAssumption, FS_Subset DEF Undrawn
<1>2. Undrawn' = IF place \in {"serving", "wrote"} THEN Undrawn \cup {c} ELSE Undrawn \ {c}
  BY DEF TypeOK, Undrawn
<1>3. c \in Undrawn <=> pc[c] \in {"serving", "wrote"}
  BY DEF Undrawn
<1>4. Cardinality(Undrawn) \in Nat
  BY <1>1, FS_CardinalityType
<1>5. Cardinality(Undrawn \cup {c}) = IF c \in Undrawn THEN Cardinality(Undrawn)
                                                      ELSE Cardinality(Undrawn) + 1
  BY <1>1, FS_AddElement
<1>6. IsFiniteSet(Undrawn \ {c})
      /\ Cardinality(Undrawn \ {c}) = IF c \in Undrawn THEN Cardinality(Undrawn) - 1
                                                      ELSE Cardinality(Undrawn)
  BY <1>1, FS_RemoveElement
<1>7. Cardinality(Undrawn \ {c}) \in Nat
  BY <1>6, FS_CardinalityType
<1> QED
  BY <1>2, <1>3, <1>4, <1>5, <1>6, <1>7

LEMMA UndrawnEnds ==
  ASSUME TypeOK, NEW c \in Client, pc' = [pc EXCEPT ![c] = "idle"]
  PROVE  /\ Cardinality(Undrawn) \in Nat /\ Cardinality(Undrawn') \in Nat
         /\ Cardinality(Undrawn') <= Cardinality(Undrawn)
<1>1. "idle" \in Places /\ "idle" \notin {"serving", "wrote"}
  BY DEF Places
<1> QED
  BY <1>1, UndrawnStep

\* A request arrives.
LEMMA AskStep ==
  ASSUME IInv, NEW c \in Client, Ask(c)
  PROVE  IInv'
<1>1. /\ pc[c] = "idle" /\ pc' = [pc EXCEPT ![c] = "serving"]
      /\ requests < MaxRequests /\ requests' = requests + 1
      /\ answer' = [answer EXCEPT ![c] = Reply(0)] /\ UNCHANGED <<store, tx>>
  BY DEF Ask, AskWidget, AskPage, Arrive
<1>2. /\ op' \in [Client -> Ops] /\ widget' \in [Client -> Widget \cup {None}]
      /\ value' \in [Client -> Value \cup {None}] /\ page' \in [Client -> Pages \cup {NoPage}]
      /\ \A d \in Client : d # c => op'[d] = op[d] /\ widget'[d] = widget[d] /\ value'[d] = value[d]
      /\ op'[c] \in {"get", "update", "delete"} => widget'[c] \in Widget
      /\ op'[c] \in {"create", "update"} => value'[c] \in Value
      /\ op'[c] = "delete" => value'[c] = None
  <2>1. CASE \E w \in Widget : AskWidget(c, "get", w, None) \/ AskWidget(c, "delete", w, None)
    BY <2>1 DEF IInv, TypeOK, Ops, AskWidget
  <2>2. CASE \E v \in Value : AskWidget(c, "create", None, v)
    BY <2>2 DEF IInv, TypeOK, Ops, AskWidget
  <2>3. CASE \E w \in Widget, v \in Value : AskWidget(c, "update", w, v)
    BY <2>3 DEF IInv, TypeOK, Ops, AskWidget
  <2>4. CASE \E p \in Pages : AskPage(c, p)
    BY <2>4 DEF IInv, TypeOK, Ops, AskPage
  <2> QED
    BY <2>1, <2>2, <2>3, <2>4 DEF Ask
<1> USE DEF store, tx
<1>3. TypeOK'
  <2>1. Reply(0) \in Answers
    BY WidgetAssumption, FS_CardinalityType DEF Answers, Reply
  <2>2. requests' \in 0..MaxRequests /\ pc' \in [Client -> Places] /\ answer' \in [Client -> Answers]
    BY <1>1, <2>1, BoundAssumption DEF IInv, TypeOK, Places
  <2> QED
    BY <1>1, <1>2, <2>2 DEF IInv, TypeOK
<1>4. \A d \in Client : /\ pc'[d] # "serving" => pc'[d] = pc[d] /\ value'[d] = value[d]
                        /\ pc'[d] # "serving" => op'[d] = op[d] /\ widget'[d] = widget[d]
  BY <1>1, <1>2 DEF IInv, TypeOK
<1>5. Course'
  <2>1. \A d \in Client : pc'[d] = "serving" /\ op'[d] \in {"get", "update", "delete"}
          => widget'[d] \in Widget
    BY <1>1, <1>2 DEF IInv, TypeOK, Course
  <2> QED
    BY <1>1, <1>4, <2>1 DEF IInv, Course, Writing, Present
<1>6. Drawn' /\ EventsTellRows'
  BY <1>1, <1>4 DEF IInv, Drawn, EventsTellRows
<1>8. Accounted'
  <2>1. \A d \in Client : d # c => pc'[d] = pc[d]
    BY <1>1 DEF IInv, TypeOK
  <2>2. pc'[c] = "serving"
    BY <1>1 DEF IInv, TypeOK
  <2> QED
    BY <1>1, <1>2, <2>1, <2>2 DEF IInv, Accounted, Writing
<1>7. Counted'
  <2>1. Cardinality(Undrawn) \in Nat /\ Cardinality(Undrawn') \in Nat
        /\ Cardinality(Undrawn') <= Cardinality(Undrawn) + 1
    BY <1>1, UndrawnStep DEF IInv, Places
  <2> QED
    BY <1>1, <2>1 DEF IInv, TypeOK, Counted
<1> QED
  BY <1>3, <1>5, <1>6, <1>7, <1>8 DEF IInv

\* A request ends and leaves the store as it is.
LEMMA EndStep ==
  ASSUME IInv, NEW c \in Client, NEW reply \in Answers, Finish(c, reply),
         UNCHANGED <<store, requests>>
  PROVE  IInv'
<1> USE DEF Finish, store
<1>1. TypeOK'
  BY BoundAssumption DEF IInv, TypeOK, Places, Ops
<1>2. \A d \in Client : pc'[d] # "idle" =>
        /\ d # c /\ pc'[d] = pc[d] /\ op'[d] = op[d] /\ widget'[d] = widget[d]
        /\ eventId'[d] = eventId[d] /\ value'[d] = value[d]
  BY DEF IInv, TypeOK
<1>3. Course'
  BY <1>2 DEF IInv, Course, Writing, Present
<1>4. Drawn' /\ EventsTellRows'
  BY <1>2 DEF IInv, Drawn, EventsTellRows
<1>5. Counted'
  <2>1. Cardinality(Undrawn) \in Nat /\ Cardinality(Undrawn') \in Nat
        /\ Cardinality(Undrawn') <= Cardinality(Undrawn)
    BY UndrawnStep DEF IInv, Places
  <2> QED
    BY <2>1 DEF IInv, TypeOK, Counted
<1>6. Accounted'
  BY <1>2 DEF IInv, Accounted, Writing
<1> QED
  BY <1>1, <1>3, <1>4, <1>5, <1>6 DEF IInv

\* Answers that show no page.
LEMMA StatusIsAnswer ==
  ASSUME NEW status \in {0, 200, 201, 204, 400, 403, 404, 500}
  PROVE  Reply(status) \in Answers
BY WidgetAssumption, FS_CardinalityType DEF Answers, Reply

LEMMA PageIsAnswer ==
  ASSUME IInv, NEW c \in Client
  PROVE  PageReply(page[c], PageOf(rows[c], page[c].limit, page[c].offset),
                   Cardinality(rows[c])) \in Answers
<1>1. rows[c] \in SUBSET Widget /\ IsFiniteSet(rows[c])
  BY WidgetAssumption, FS_Subset DEF IInv, TypeOK
<1>2. Cardinality(rows[c]) \in 0..Cardinality(Widget)
  BY <1>1, WidgetAssumption, FS_Subset, FS_CardinalityType
<1>3. PageOf(rows[c], page[c].limit, page[c].offset) \subseteq Widget
  BY <1>1 DEF PageOf
<1> QED
  BY <1>2, <1>3 DEF IInv, TypeOK, Answers, PageReply

LEMMA RefuseStep ==
  ASSUME IInv, NEW c \in Client,
         BadRequest(c) \/ Forbid(c) \/ Fail(c) \/ Miss(c) \/ Get(c) \/ ListCount(c)
  PROVE  IInv'
<1>1. CASE BadRequest(c) \/ Forbid(c) \/ Fail(c) \/ Miss(c) \/ Get(c)
  <2>1. UNCHANGED <<store, requests>>
        /\ \E status \in {200, 400, 403, 404, 500} : Finish(c, Reply(status))
    BY <1>1 DEF BadRequest, Forbid, Fail, Miss, Get
  <2> QED
    BY <2>1, StatusIsAnswer, EndStep
<1>2. CASE ListCount(c)
  BY <1>2, PageIsAnswer, EndStep DEF ListCount
<1> QED
  BY <1>1, <1>2

\* A statement takes its row, or a list its snapshot.
LEMMA TakeStep ==
  ASSUME IInv, NEW c \in Client,
         (\E w \in Widget : Insert(c, w)) \/ Change(c) \/ ListItems(c)
  PROVE  IInv'
<1> USE DEF Go
<1>1. PICK place \in {"wrote", "listing"} :
        /\ pc[c] = "serving" /\ pc' = [pc EXCEPT ![c] = place]
        /\ place = "listing" => op[c] = "list"
        /\ place = "wrote" => c \in Writer /\ op[c] \in Writes
  BY DEF Insert, Change, ListItems, MayWrite
<1>2. /\ UNCHANGED <<table, events, nextId, requests, op, value, page, eventId, answer>>
      /\ widget' \in [Client -> Widget \cup {None}] /\ used' \subseteq Widget /\ used \subseteq used'
      /\ rows' \in [Client -> SUBSET Widget]
      /\ \A d \in Client : d # c => widget'[d] = widget[d]
  <2>1. CASE \E w \in Widget : Insert(c, w)
    BY <2>1 DEF Insert, IInv, TypeOK, tx
  <2>2. CASE Change(c)
    BY <2>2 DEF Change, IInv, TypeOK, store, request, tx
  <2>3. CASE ListItems(c)
    BY <2>3 DEF ListItems, IInv, TypeOK, store, request, Present
  <2> QED
    BY <2>1, <2>2, <2>3
<1>3. place = "wrote" =>
        /\ widget'[c] \in used'
        /\ \A d \in Client : d # c /\ Writing(d) => widget[d] # widget'[c]
  <2>1. CASE \E w \in Widget : Insert(c, w)
    BY <2>1 DEF Insert, IInv, TypeOK, Course
  <2>2. CASE Change(c)
    <3>1. table[widget[c]] # None /\ Holder(widget[c]) = {} /\ widget' = widget /\ used' = used
      BY <2>2 DEF Change, store, request
    <3>2. widget[c] \in Widget
      BY <2>2 DEF Change, MayWrite, Go, IInv, TypeOK, Course
    <3>3. widget[c] \in used
      BY <3>1, <3>2 DEF IInv, Course, Present
    <3> QED
      BY <3>1, <3>3 DEF Holder, Writing
  <2>3. CASE ListItems(c)
    BY <2>3, <1>1 DEF ListItems, IInv, TypeOK
  <2> QED
    BY <2>1, <2>2, <2>3
<1>4. /\ pc' \in [Client -> Places] /\ pc'[c] = place
      /\ \A d \in Client : d # c => pc'[d] = pc[d]
  BY <1>1 DEF IInv, TypeOK, Places
<1>5. TypeOK'
  BY <1>2, <1>4 DEF IInv, TypeOK
<1>6. Course'
  BY <1>1, <1>2, <1>3, <1>4 DEF IInv, Course, Writing, Present
<1>7. Drawn' /\ EventsTellRows'
  BY <1>1, <1>2, <1>4 DEF IInv, Drawn, EventsTellRows
<1>8. Counted'
  <2>1. Cardinality(Undrawn) \in Nat /\ Cardinality(Undrawn') \in Nat
        /\ Cardinality(Undrawn') <= Cardinality(Undrawn)
    BY <1>1, UndrawnStep DEF IInv, Places
  <2> QED
    BY <1>2, <2>1 DEF IInv, TypeOK, Counted
<1>9. place = "wrote" =>
        /\ op[c] = "create" =>
             table[widget'[c]] = None /\ \A e \in events : e.widget # widget'[c]
        /\ op[c] # "create" => table[widget'[c]] # None
  <2>1. CASE \E w \in Widget : Insert(c, w)
    <3>1. PICK w \in Widget : Insert(c, w)
      BY <2>1
    <3>2. op[c] = "create" /\ widget'[c] = w /\ w \notin used
      BY <3>1 DEF Insert, IInv, TypeOK
    <3> QED
      BY <3>2 DEF IInv, Course, Present, Accounted
  <2>2. CASE Change(c)
    BY <2>2 DEF Change, request
  <2>3. CASE ListItems(c)
    BY <2>3, <1>1 DEF ListItems, IInv, TypeOK
  <2> QED
    BY <2>1, <2>2, <2>3
<1>10. Accounted'
  BY <1>1, <1>2, <1>4, <1>9 DEF IInv, Accounted, Writing
<1> QED
  BY <1>5, <1>6, <1>7, <1>8, <1>10 DEF IInv

\* outbox.Enqueue draws the event's id.
LEMMA RecordStep ==
  ASSUME IInv, NEW c \in Client, Record(c)
  PROVE  IInv'
<1> USE DEF Record, Go, request
<1>1. /\ pc[c] = "wrote" /\ pc' = [pc EXCEPT ![c] = "recorded"]
      /\ eventId' = [eventId EXCEPT ![c] = nextId] /\ nextId' = nextId + 1
      /\ UNCHANGED <<table, used, events, requests, request, rows, answer>>
  OBVIOUS
<1>2. /\ pc' \in [Client -> Places] /\ pc'[c] = "recorded" /\ eventId'[c] = nextId
      /\ \A d \in Client : d # c => pc'[d] = pc[d] /\ eventId'[d] = eventId[d]
  BY DEF IInv, TypeOK, Places
<1>3. /\ Cardinality(Undrawn) \in Nat /\ Cardinality(Undrawn') \in Nat
      /\ Cardinality(Undrawn') = Cardinality(Undrawn) - 1
  BY <1>1, UndrawnStep DEF IInv, Places
<1>4. nextId \in Nat /\ 1 <= nextId /\ nextId <= MaxRequests /\ MaxRequests \in Nat
  BY <1>3, BoundAssumption DEF IInv, TypeOK, Counted
<1>5. TypeOK'
  <2>1. eventId' \in [Client -> 0..MaxRequests] /\ nextId' \in 1..(MaxRequests + 1)
    BY <1>4 DEF IInv, TypeOK
  <2> QED
    BY <1>2, <2>1 DEF IInv, TypeOK
<1>6. Course'
  BY <1>1, <1>2 DEF IInv, Course, Writing, Present
<1>7. Drawn'
  <2>1. \A e \in events : e.id \in Nat /\ e.id < nextId
    BY BoundAssumption DEF IInv, TypeOK, Drawn
  <2>2. \A d \in Client : eventId[d] \in Nat
    BY BoundAssumption DEF IInv, TypeOK
  <2>3. \A e \in events : e.id < nextId'
    BY <1>1, <1>4, <2>1
  <2>4. ASSUME NEW d \in Client, pc'[d] = "recorded"
        PROVE  /\ 1 <= eventId'[d] /\ eventId'[d] < nextId'
               /\ \A e \in events :
                    e.id # eventId'[d] /\ (e.widget = widget[d] => e.id < eventId'[d])
    <3>1. CASE d = c
      BY <1>1, <1>2, <1>4, <2>1, <3>1
    <3>2. CASE d # c
      BY <1>1, <1>2, <1>4, <2>2, <2>4, <3>2 DEF IInv, Drawn
    <3> QED
      BY <3>1, <3>2
  <2>5. \A d, b \in Client :
          d # b /\ pc'[d] = "recorded" /\ pc'[b] = "recorded" => eventId'[d] # eventId'[b]
    BY <1>2, <1>4, <2>2 DEF IInv, Drawn
  <2> QED
    BY <1>1, <2>3, <2>4, <2>5 DEF Drawn
<1>8. Counted'
  BY <1>1, <1>3, <1>4 DEF IInv, TypeOK, Counted
<1>9. EventsTellRows'
  BY <1>1 DEF IInv, EventsTellRows
<1>10. Accounted'
  BY <1>1, <1>2 DEF IInv, Accounted, Writing
<1> QED
  BY <1>5, <1>6, <1>7, <1>8, <1>9, <1>10 DEF IInv

\* The event of a commit is new, and the latest of its widget.
LEMMA EventIsNew ==
  ASSUME IInv, NEW c \in Client, pc[c] = "recorded"
  PROVE  /\ Event(c) \notin events /\ Event(c).id = eventId[c] /\ Event(c).widget = widget[c]
         /\ Event(c).value = value[c]
         /\ Event(c) \in [id : 1..MaxRequests, widget : Widget, type : Types,
                          value : Value \cup {None}]
         /\ \A e \in events : e.widget = widget[c] => e.id < eventId[c]
<1>1. eventId[c] \in 1..MaxRequests /\ \A e \in events :
        e.id # eventId[c] /\ (e.widget = widget[c] => e.id < eventId[c])
  BY BoundAssumption DEF IInv, TypeOK, Drawn
<1>2. widget[c] \in Widget
  BY DEF IInv, TypeOK, Course, Writing
<1> QED
  BY <1>1, <1>2 DEF Event, Type, Types, IInv, TypeOK

LEMMA CommitStep ==
  ASSUME IInv, NEW c \in Client, Commit(c) \/ CommitUnheard(c)
  PROVE  IInv'
<1>1. /\ pc[c] = "recorded" /\ table' = [table EXCEPT ![widget[c]] = value[c]]
      /\ events' = events \cup {Event(c)} /\ UNCHANGED <<used, nextId, requests>>
      /\ \E status \in {200, 201, 204, 500} : Finish(c, Reply(status))
  BY DEF Commit, CommitUnheard, Apply
<1>2. /\ Event(c) \notin events /\ Event(c).id = eventId[c] /\ Event(c).widget = widget[c]
      /\ Event(c).value = value[c]
      /\ Event(c) \in [id : 1..MaxRequests, widget : Widget, type : Types,
                       value : Value \cup {None}]
      /\ \A e \in events : e.widget = widget[c] => e.id < eventId[c]
  BY <1>1, EventIsNew
<1> HIDE DEF Event
<1>3. PICK status \in {200, 201, 204, 500} : Finish(c, Reply(status))
  BY <1>1
<1>4. TypeOK'
  <2>1. Reply(status) \in Answers
    BY StatusIsAnswer
  <2>2. table' \in [Widget -> Value \cup {None}]
    <3>1. table \in [Widget -> Value \cup {None}] /\ value[c] \in Value \cup {None}
      BY DEF IInv, TypeOK
    <3>2. table' = [table EXCEPT ![widget[c]] = value[c]]
      BY <1>1
    <3> QED
      BY <3>1, <3>2
  <2>3. events' \subseteq [id : 1..MaxRequests, widget : Widget, type : Types,
                          value : Value \cup {None}]
    BY <1>1, <1>2 DEF IInv, TypeOK
  <2> QED
    BY <1>1, <1>3, <2>1, <2>2, <2>3, BoundAssumption DEF Finish, IInv, TypeOK, Places, Ops
<1>5. \A d \in Client : pc'[d] # "idle" =>
        /\ d # c /\ pc'[d] = pc[d] /\ op'[d] = op[d] /\ widget'[d] = widget[d]
        /\ eventId'[d] = eventId[d] /\ value'[d] = value[d]
  BY <1>3 DEF Finish, IInv, TypeOK
<1>6. Course'
  <2>1. widget[c] \in used
    BY <1>1 DEF IInv, Course, Writing
  <2>2. Present' \subseteq used
    BY <1>1, <2>1 DEF IInv, TypeOK, Course, Present
  <2> QED
    BY <1>1, <1>5, <2>2 DEF IInv, Course, Writing
<1>7. Drawn'
  <2>1. \A d \in Client : d # c /\ pc[d] = "recorded" =>
          eventId[d] # eventId[c] /\ widget[d] # widget[c]
    BY <1>1 DEF IInv, Drawn, Course, Writing
  <2>2. eventId[c] < nextId
    BY <1>1 DEF IInv, Drawn
  <2> QED
    BY <1>1, <1>2, <1>5, <2>1, <2>2 DEF IInv, Drawn
<1>8. Counted'
  <2>1. pc' = [pc EXCEPT ![c] = "idle"]
    BY <1>3 DEF Finish
  <2>2. TypeOK /\ Counted
    BY DEF IInv
  <2>3. Cardinality(Undrawn) \in Nat /\ Cardinality(Undrawn') \in Nat
        /\ Cardinality(Undrawn') <= Cardinality(Undrawn)
    BY <2>1, <2>2, UndrawnEnds
  <2> QED
    BY <1>1, <2>2, <2>3, BoundAssumption DEF TypeOK, Counted
<1>9. EventsTellRows'
  <2> SUFFICES ASSUME NEW w \in Widget
               PROVE  \/ table'[w] = None /\ \A e \in events' : e.widget # w
                      \/ \E e \in events' :
                           /\ e.widget = w /\ e.value = table'[w]
                           /\ \A d \in events' : d.widget = w => d.id <= e.id
    BY DEF EventsTellRows
  <2>1. CASE w = widget[c]
    <3>1. table'[w] = value[c]
      BY <1>1, <2>1 DEF IInv, TypeOK
    <3>2. \A d \in events' : d.widget = w => d.id <= Event(c).id
      <4>1. eventId[c] \in Nat /\ \A d \in events : d.id \in Nat
        BY BoundAssumption DEF IInv, TypeOK
      <4> QED
        BY <1>1, <1>2, <2>1, <4>1
    <3> QED
      BY <1>1, <1>2, <2>1, <3>1, <3>2
  <2>2. CASE w # widget[c]
    <3>1. table'[w] = table[w] /\ \A e \in events' : e.widget = w => e \in events
      BY <1>1, <1>2, <2>2 DEF IInv, TypeOK
    <3>2. events \subseteq events'
      BY <1>1
    <3> QED
      BY <3>1, <3>2 DEF IInv, EventsTellRows
  <2> QED
    BY <2>1, <2>2
<1>10. Accounted'
  <2>1. \A d \in Client : d # c /\ Writing(d) => widget[d] # widget[c]
    BY <1>1 DEF IInv, Course, Writing
  <2>2. widget[c] \in used /\ op[c] \in Writes
    BY <1>1 DEF IInv, Course, Writing
  <2>3. IsFiniteSet(events')
    BY <1>1, FS_AddElement DEF IInv, Accounted
  <2>4. \A e \in events' : e.widget \in used' /\ (e.type = "widget.deleted" <=> e.value = None)
    <3>1. Event(c).type = "widget.deleted" <=> Event(c).value = None
      BY <1>1, <2>2, WidgetAssumption DEF IInv, Accounted, Writing, Event, Type, Writes
    <3> QED
      BY <1>1, <1>2, <2>2, <3>1 DEF IInv, Accounted
  <2>5. \A d, e \in events' : d.id = e.id => d = e
    <3>1. \A e \in events : e.id # eventId[c]
      BY <1>1 DEF IInv, Drawn
    <3> QED
      BY <1>1, <1>2, <3>1 DEF IInv, Accounted
  <2>6. \A d \in Client : pc'[d] # "idle" /\ Writing(d) =>
          /\ table'[widget[d]] = table[widget[d]]
          /\ \A e \in events' : e.widget = widget[d] => e \in events
    <3>1. \A d \in Client : pc'[d] # "idle" => d # c
      BY <1>5
    <3>2. \A d \in Client : Writing(d) => widget[d] \in Widget
      BY DEF IInv, TypeOK, Course
    <3> QED
      BY <1>1, <1>2, <2>1, <3>1, <3>2 DEF IInv, TypeOK
  <2>7. ASSUME NEW d \in Client, pc'[d] = "serving" \/ Writing(d)'
        PROVE  /\ op'[d] \in {"create", "update"} => value'[d] \in Value
               /\ op'[d] = "delete" => value'[d] = None
               /\ Writing(d)' /\ op'[d] = "create" =>
                    table'[widget'[d]] = None /\ \A e \in events' : e.widget # widget'[d]
               /\ Writing(d)' /\ op'[d] # "create" => table'[widget'[d]] # None
    <3>1. /\ pc'[d] # "idle" /\ pc'[d] = pc[d] /\ op'[d] = op[d] /\ widget'[d] = widget[d]
          /\ value'[d] = value[d]
      BY <1>5, <2>7 DEF Writing
    <3>2. Writing(d)' <=> Writing(d)
      BY <3>1 DEF Writing
    <3> QED
      BY <2>6, <2>7, <3>1, <3>2 DEF IInv, Accounted
  <2> QED
    BY <2>3, <2>4, <2>5, <2>7 DEF Accounted
<1> QED
  BY <1>4, <1>6, <1>7, <1>8, <1>9, <1>10 DEF IInv

LEMMA NextIInv == IInv /\ [Next]_vars => IInv'
<1> SUFFICES ASSUME IInv, [Next]_vars PROVE IInv'
  OBVIOUS
<1>1. ASSUME NEW c \in Client, Ask(c) \/ BadRequest(c) \/ Serve(c) \/ Fail(c) PROVE IInv'
  <2>1. CASE Ask(c)
    BY <2>1, AskStep
  <2>2. CASE BadRequest(c) \/ Forbid(c) \/ Fail(c) \/ Miss(c) \/ Get(c) \/ ListCount(c)
    BY <2>2, RefuseStep
  <2>3. CASE (\E w \in Widget : Insert(c, w)) \/ Change(c) \/ ListItems(c)
    BY <2>3, TakeStep
  <2>4. CASE Record(c)
    BY <2>4, RecordStep
  <2>5. CASE Commit(c) \/ CommitUnheard(c)
    BY <2>5, CommitStep
  <2> QED
    BY <1>1, <2>1, <2>2, <2>3, <2>4, <2>5 DEF Serve
<1>2. CASE UNCHANGED vars
  <2>1. Undrawn' = Undrawn
    BY <1>2 DEF vars, Undrawn
  <2> QED
    BY <1>2, <2>1 DEF vars, store, request, tx, IInv, TypeOK, Course, Writing, Present,
                      Drawn, Counted, EventsTellRows, Accounted
<1> QED
  BY <1>1, <1>2 DEF Next

-----------------------------------------------------------------------------
\* Every reachable state satisfies the invariant.
THEOREM Invariance == Spec => []IInv
BY InitIInv, NextIInv, PTL DEF Spec

\* Every variable keeps its type; in particular a request draws one id at most.
THEOREM TypeCorrect == Spec => []TypeOK
BY Invariance, PTL DEF IInv

\* The last event of a widget tells what is in its row, however updates, deletes and
\* failures interleave (Update, Delete, insert).
THEOREM EventsAreTrue == Spec => []EventsTellRows
BY Invariance, PTL DEF IInv

\* The items of a page are as many as its total leaves for it (List).
THEOREM TotalsAgree == Spec => []ListAgrees
<1>1. ASSUME Init PROVE ListAgrees
  <2>1. \A c \in Client : answer[c] = [status |-> 0, page |-> [limit |-> 0, offset |-> 0],
                                      items |-> {}, total |-> 0]
    BY <1>1 DEF Init, Reply, NoPage
  <2>2. Cardinality({}) = 0
    BY FS_EmptySet
  <2> QED
    BY <2>1, <2>2 DEF ListAgrees
<1>2. ASSUME IInv, ListAgrees, [Next]_vars PROVE ListAgrees'
  <2> DEFINE Agrees(a) == Cardinality(a.items) =
               LET rest == a.total - a.page.offset IN
                 IF rest <= 0 THEN 0 ELSE IF rest < a.page.limit THEN rest ELSE a.page.limit
  <2>1. \A status : Agrees(Reply(status))
    BY FS_EmptySet DEF Reply, NoPage
  <2>2. ASSUME NEW c \in Client
        PROVE  Agrees(PageReply(page[c], PageOf(rows[c], page[c].limit, page[c].offset),
                                Cardinality(rows[c])))
    <3>1. rows[c] \in SUBSET Widget /\ page[c] \in Pages \cup {NoPage}
      BY <1>2 DEF IInv, TypeOK
    <3>2. rows[c] \in SUBSET Nat /\ IsFiniteSet(rows[c])
      BY <3>1, WidgetAssumption, FS_Subset
    <3>3. page[c].limit \in Nat /\ page[c].offset \in Nat
      <4>1. CASE page[c] = NoPage
        BY <4>1 DEF NoPage
      <4>2. CASE page[c] \in Pages
        BY <4>2, PageAssumption DEF Pages
      <4> QED
        BY <3>1, <4>1, <4>2
    <3> QED
      BY <3>2, <3>3, PageSize DEF PageReply, Shown
  <2>3. ASSUME NEW c \in Client PROVE Agrees(answer[c])
    BY <1>2 DEF ListAgrees
  <2>4. ASSUME NEW c \in Client PROVE Agrees(answer'[c])
    <3>1. \/ answer'[c] = answer[c] \/ \E status : answer'[c] = Reply(status)
          \/ answer'[c] = PageReply(page[c], PageOf(rows[c], page[c].limit, page[c].offset),
                                   Cardinality(rows[c]))
      <4>1. CASE UNCHANGED vars
        BY <4>1 DEF vars
      <4>2. ASSUME NEW d \in Client, Ask(d) \/ BadRequest(d) \/ Serve(d) \/ Fail(d)
            PROVE  answer' = answer \/ (\E status : answer' = [answer EXCEPT ![d] = Reply(status)])
                   \/ answer' = [answer EXCEPT ![d] =
                          PageReply(page[d], PageOf(rows[d], page[d].limit, page[d].offset),
                                    Cardinality(rows[d]))]
        <5>1. CASE Ask(d)
          BY <5>1 DEF Ask, AskWidget, AskPage, Arrive
        <5>2. CASE BadRequest(d) \/ Forbid(d) \/ Fail(d) \/ Miss(d) \/ Get(d)
          BY <5>2 DEF BadRequest, Forbid, Fail, Miss, Get, Finish
        <5>3. CASE Commit(d) \/ CommitUnheard(d)
          BY <5>3 DEF Commit, CommitUnheard, Finish
        <5>4. CASE ListCount(d)
          BY <5>4 DEF ListCount, Finish
        <5>5. CASE (\E w \in Widget : Insert(d, w)) \/ Change(d) \/ Record(d) \/ ListItems(d)
          BY <5>5 DEF Insert, Change, Record, ListItems, tx
        <5> QED
          BY <4>2, <5>1, <5>2, <5>3, <5>4, <5>5 DEF Serve
      <4>3. answer \in [Client -> Answers]
        BY <1>2 DEF IInv, TypeOK
      <4> QED
        BY <1>2, <4>1, <4>2, <4>3 DEF Next
    <3> HIDE DEF Agrees
    <3> QED
      BY <2>1, <2>2, <2>3, <3>1
  <2> QED
    BY <2>4 DEF ListAgrees
<1> QED
  BY <1>1, <1>2, Invariance, PTL DEF Spec

\* What a client is told is what was done (authorizeWrite, Update, Delete, insert,
\* statusFor).
THEOREM AnswersAreTrue == Spec => AnswersTrue
<1> DEFINE True(c) ==
      pc[c] # "idle" /\ pc'[c] = "idle" =>
        LET told == events' \ events IN
          /\ op[c] \in Writes /\ answer'[c].status \in Confirmed =>
               \E e \in told : e.widget = widget[c] /\ e.type = Type(op[c])
          /\ answer'[c].status \in {400, 403, 404} => told = {} /\ table' = table
          /\ told # {} => c \in Writer
<1>1. ASSUME IInv, [Next]_vars PROVE [\A c \in Client : True(c)]_vars
  <2>1. ASSUME NEW d \in Client, Ask(d) \/ BadRequest(d) \/ Serve(d) \/ Fail(d),
               NEW c \in Client, pc[c] # "idle", pc'[c] = "idle"
        PROVE  True(c)
    <3>1. CASE Ask(d)
      <4>1. pc' = [pc EXCEPT ![d] = "serving"] /\ pc[d] = "idle"
        BY <3>1 DEF Ask, AskWidget, AskPage, Arrive
      <4> QED
        BY <1>1, <2>1, <4>1 DEF IInv, TypeOK
    <3>2. CASE (\E w \in Widget : Insert(d, w)) \/ Change(d) \/ Record(d) \/ ListItems(d)
      <4>1. \E place \in {"wrote", "recorded", "listing"} : pc' = [pc EXCEPT ![d] = place]
        BY <3>2 DEF Insert, Change, Record, ListItems, Go
      <4> QED
        BY <1>1, <2>1, <4>1 DEF IInv, TypeOK
    <3>3. ASSUME NEW reply, Finish(d, reply)
          PROVE  c = d /\ answer'[c] = reply
      BY <1>1, <2>1, <3>3 DEF IInv, TypeOK, Finish
    <3>4. CASE BadRequest(d) \/ Forbid(d) \/ Fail(d) \/ Miss(d)
      <4>1. /\ UNCHANGED store
            /\ \E status \in {400, 403, 404, 500} : Finish(d, Reply(status))
        BY <3>4 DEF BadRequest, Forbid, Fail, Miss
      <4>2. \E status \in {400, 403, 404, 500} : answer'[c] = Reply(status)
        BY <3>3, <4>1
      <4>3. answer'[c].status \notin Confirmed
        BY <4>2 DEF Reply, Confirmed
      <4> QED
        BY <4>1, <4>3 DEF store
    <3>5. CASE Get(d) \/ ListCount(d)
      <4>1. UNCHANGED store /\ \E reply : Finish(d, reply)
        BY <3>5 DEF Get, ListCount
      <4>2. c = d
        BY <3>3, <4>1
      <4>3. op[c] \notin Writes
        BY <1>1, <3>5, <4>2 DEF Get, ListCount, IInv, Course, Writes
      <4> QED
        BY <4>1, <4>3 DEF store
    <3>6. CASE Commit(d) \/ CommitUnheard(d)
      <4>1. /\ pc[d] = "recorded" /\ events' = events \cup {Event(d)}
            /\ \E status \in {200, 201, 204, 500} : Finish(d, Reply(status))
        BY <3>6 DEF Commit, CommitUnheard, Apply
      <4>2. Event(d) \notin events
        BY <1>1, <4>1, EventIsNew
      <4>3. c = d /\ \E status \in {200, 201, 204, 500} : answer'[c] = Reply(status)
        BY <3>3, <4>1
      <4>4. answer'[c].status \notin {400, 403, 404}
        BY <4>3 DEF Reply
      <4>5. c \in Writer
        BY <1>1, <4>1, <4>3 DEF IInv, Course, Writing
      <4>6. Event(d).widget = widget[c] /\ Event(d).type = Type(op[c])
        BY <4>3 DEF Event
      <4> QED
        BY <4>1, <4>2, <4>4, <4>5, <4>6
    <3> QED
      BY <2>1, <3>1, <3>2, <3>4, <3>5, <3>6 DEF Serve
  <2> QED
    BY <1>1, <2>1 DEF Next
<1> QED
  BY <1>1, Invariance, PTL DEF Spec, AnswersTrue

-----------------------------------------------------------------------------
(* Histories *)

\* The rank of an event among others: how many have a lower id.
Below(S, e) == {d \in S : d.id < e.id}
Rank(S, e)  == Cardinality(Below(S, e)) + 1

\* A finite set of events that are told apart by their ids.
IsTale(S) == IsFiniteSet(S) /\ (\A e \in S : e.id \in Nat) /\ \A d, e \in S : d.id = e.id => d = e

\* Each place in the order of the ids is the rank of exactly one event.
LEMMA RanksAreOrder ==
  ASSUME NEW S, IsTale(S)
  PROVE  /\ Cardinality(S) \in Nat
         /\ \A e \in S : Rank(S, e) \in 1..Cardinality(S)
         /\ \A d, e \in S : Rank(S, d) = Rank(S, e) => d = e
         /\ \A k \in 1..Cardinality(S) : \E e \in S : Rank(S, e) = k
<1> DEFINE n == Cardinality(S)
           rank == [e \in S |-> Rank(S, e)]
<1> USE DEF IsTale
<1>1. n \in Nat
  BY FS_CardinalityType
<1>2. ASSUME NEW e \in S
      PROVE  /\ IsFiniteSet(Below(S, e)) /\ Cardinality(Below(S, e)) \in Nat
             /\ Rank(S, e) \in 1..n
  <2>1. Below(S, e) \subseteq S /\ e \in S /\ e \notin Below(S, e)
    BY DEF Below
  <2>2. IsFiniteSet(Below(S, e)) /\ Cardinality(Below(S, e)) <= n
    BY <2>1, FS_Subset
  <2>3. Cardinality(Below(S, e)) \in Nat /\ Cardinality(Below(S, e)) # n
    BY <2>1, <2>2, FS_Subset, FS_CardinalityType
  <2> QED
    BY <1>1, <2>2, <2>3 DEF Rank
<1>3. ASSUME NEW d \in S, NEW e \in S, d.id < e.id
      PROVE  Rank(S, d) # Rank(S, e)
  <2>1. Below(S, d) \subseteq Below(S, e) /\ d \in Below(S, e) /\ d \notin Below(S, d)
    BY <1>3 DEF Below
  <2>2. IsFiniteSet(Below(S, e))
    BY <1>2
  <2>3. Cardinality(Below(S, d)) # Cardinality(Below(S, e))
    BY <2>1, <2>2, FS_Subset
  <2> QED
    BY <1>2, <2>3 DEF Rank
<1>4. ASSUME NEW d \in S, NEW e \in S, Rank(S, d) = Rank(S, e)
      PROVE  d = e
  <2>1. ~(d.id < e.id) /\ ~(e.id < d.id)
    BY <1>3, <1>4
  <2> QED
    BY <2>1
<1>5. rank \in Injection(S, 1..n)
  BY <1>2, <1>4 DEF Injection, IsInjective
<1> HIDE DEF rank
<1>6. rank \in Surjection(S, 1..n)
  <2>1. IsFiniteSet(1..n) /\ Cardinality(1..n) = n
    BY <1>1, FS_Interval
  <2> QED
    BY <1>5, <2>1, FS_Injection
<1>7. \A k \in 1..n : \E e \in S : rank[e] = k
  BY <1>6 DEF Surjection
<1> QED
  BY <1>1, <1>2, <1>4, <1>7 DEF rank

\* Nth finds the event of a rank.
LEMMA NthHasRank ==
  ASSUME NEW S, IsTale(S), NEW k \in 1..Cardinality(S)
  PROVE  Nth(S, k) \in S /\ Rank(S, Nth(S, k)) = k
<1>1. Cardinality(S) \in Nat /\ \E e \in S : Rank(S, e) = k
  BY RanksAreOrder
<1>2. \A e \in S : IsFiniteSet(Below(S, e)) /\ Cardinality(Below(S, e)) \in Nat
  <2>1. \A e \in S : Below(S, e) \subseteq S
    BY DEF Below
  <2> QED
    BY <2>1, FS_Subset, FS_CardinalityType DEF IsTale
<1>3. \A e \in S : Rank(S, e) = k <=> Cardinality({d \in S : d.id < e.id}) = k - 1
  <2> SUFFICES ASSUME NEW e \in S
               PROVE  Rank(S, e) = k <=> Cardinality({d \in S : d.id < e.id}) = k - 1
    OBVIOUS
  <2>1. Cardinality(Below(S, e)) \in Nat /\ k \in Nat
    BY <1>1, <1>2
  <2>2. Rank(S, e) = k <=> Cardinality(Below(S, e)) = k - 1
    BY <2>1 DEF Rank
  <2> QED
    BY <2>2 DEF Below
<1> QED
  BY <1>1, <1>3 DEF Nth

\* An event above all others comes last, and the order of the others stays.
LEMMA NewComesLast ==
  ASSUME NEW S, IsTale(S), NEW e, e.id \in Nat, \A d \in S : d.id < e.id
  PROVE  /\ Cardinality(S) \in Nat /\ Cardinality(S \cup {e}) = Cardinality(S) + 1
         /\ Nth(S \cup {e}, Cardinality(S) + 1) = e
         /\ \A k \in 1..Cardinality(S) : Nth(S \cup {e}, k) = Nth(S, k)
<1> DEFINE T == S \cup {e}
           n == Cardinality(S)
<1>1. e \notin S
  BY DEF IsTale
<1>2. IsFiniteSet(T) /\ Cardinality(T) = n + 1 /\ n \in Nat
  BY <1>1, FS_AddElement, FS_CardinalityType DEF IsTale
<1>3. IsTale(T)
  BY <1>2 DEF IsTale
<1>4. Below(T, e) = S
  BY DEF Below
<1>5. \A d \in S : Below(T, d) = Below(S, d)
  BY DEF Below, IsTale
<1>6. Rank(T, e) = n + 1 /\ \A d \in S : Rank(T, d) = Rank(S, d)
  BY <1>4, <1>5 DEF Rank
<1> HIDE DEF T
<1>7. \A d, f \in T : Rank(T, d) = Rank(T, f) => d = f
  BY <1>3, RanksAreOrder
<1>8. \A k \in 1..(n + 1) : Nth(T, k) \in T /\ Rank(T, Nth(T, k)) = k
  BY <1>2, <1>3, NthHasRank
<1>9. Nth(T, n + 1) = e
  <2>1. e \in T /\ n + 1 \in 1..(n + 1)
    BY <1>2 DEF T
  <2> QED
    BY <1>6, <1>7, <1>8, <2>1
<1>10. ASSUME NEW k \in 1..n PROVE Nth(T, k) = Nth(S, k)
  <2>1. Nth(S, k) \in S /\ Rank(S, Nth(S, k)) = k
    BY NthHasRank
  <2>2. k \in 1..(n + 1)
    BY <1>2
  <2>3. Nth(S, k) \in T /\ Rank(T, Nth(S, k)) = k
    BY <1>6, <2>1 DEF T
  <2> QED
    BY <1>7, <1>8, <2>2, <2>3
<1> QED
  BY <1>2, <1>9, <1>10 DEF T

\* An event with the highest id is the last.
LEMMA HighestIsLast ==
  ASSUME NEW S, IsTale(S), NEW e \in S, \A d \in S : d.id <= e.id
  PROVE  Cardinality(S) \in Nat \ {0} /\ Nth(S, Cardinality(S)) = e
<1> DEFINE T == S \ {e}
<1>1. IsTale(T) /\ e.id \in Nat /\ \A d \in T : d.id < e.id
  <2>1. IsFiniteSet(T)
    BY FS_RemoveElement DEF IsTale
  <2> QED
    BY <2>1 DEF IsTale
<1>2. T \cup {e} = S
  OBVIOUS
<1> HIDE DEF T
<1>3. /\ Cardinality(T) \in Nat /\ Cardinality(T \cup {e}) = Cardinality(T) + 1
      /\ Nth(T \cup {e}, Cardinality(T) + 1) = e
  BY <1>1, NewComesLast
<1> QED
  BY <1>2, <1>3

\* Told, in a state of the invariant.
LEMMA Tales ==
  ASSUME IInv, NEW w \in Widget
  PROVE  IsTale(About(w))
<1>1. IsFiniteSet(About(w))
  BY FS_Subset DEF IInv, Accounted, About
<1>2. \A e \in events : e.id \in Nat
  BY BoundAssumption DEF IInv, TypeOK
<1> QED
  BY <1>1, <1>2 DEF IsTale, About, IInv, Accounted

\* A widget has a row exactly if it has a history that does not end in its deletion.
LEMMA AliveIsThere ==
  ASSUME IInv, NEW w \in Widget
  PROVE  /\ table[w] # None <=> Told(w) # <<>> /\ Told(w)[Len(Told(w))] # History!Deleted
         /\ (\A e \in events : e.widget # w) => Told(w) = <<>>
<1> DEFINE n == Cardinality(About(w))
<1>1. CASE \A e \in events : e.widget # w
  <2>1. n = 0
    BY <1>1, FS_EmptySet DEF About
  <2>2. Told(w) = <<>>
    BY <2>1 DEF Told
  <2>3. table[w] = None
    BY <1>1 DEF IInv, EventsTellRows
  <2> QED
    BY <2>2, <2>3
<1>2. CASE \E e \in events : e.widget = w
  <2>1. PICK e \in events : /\ e.widget = w /\ e.value = table[w]
                            /\ \A d \in events : d.widget = w => d.id <= e.id
    BY <1>2 DEF IInv, EventsTellRows
  <2>2. e \in About(w) /\ \A d \in About(w) : d.id <= e.id
    BY <2>1 DEF About
  <2>3. n \in Nat \ {0} /\ Nth(About(w), n) = e
    BY <2>2, Tales, HighestIsLast
  <2> HIDE DEF n
  <2>4. Told(w) \in Seq({[type |-> Nth(About(w), k).type, value |-> Nth(About(w), k).value] :
                             k \in 1..n})
        /\ Len(Told(w)) = n
    BY <2>3 DEF Told, n
  <2>5. Told(w)[n] = [type |-> e.type, value |-> e.value]
    BY <2>3 DEF Told, n
  <2>6. e.type = "widget.deleted" <=> e.value = None
    BY DEF IInv, Accounted
  <2>7. [type |-> e.type, value |-> e.value] = History!Deleted <=> e.value = None
    BY <2>6 DEF History!Deleted
  <2> QED
    BY <1>2, <2>1, <2>3, <2>4, <2>5, <2>7
<1> QED
  BY <1>1, <1>2

\* A commit tells one more event of its widget, the right one, and none of others.
LEMMA CommitTells ==
  ASSUME IInv, NEW c \in Client, Apply(c)
  PROVE  History!Next
<1>w. PICK w \in Widget : w = widget[c]
  BY DEF Apply, IInv, TypeOK, Course, Writing
<1> DEFINE event == [type |-> Event(c).type, value |-> Event(c).value]
<1>1. /\ pc[c] = "recorded" /\ events' = events \cup {Event(c)}
      /\ op[c] \in Writes
  BY DEF Apply, IInv, TypeOK, Course, Writing
<1>2. /\ Event(c).widget = w /\ Event(c).id = eventId[c] /\ Event(c).id \in Nat
      /\ \A e \in events : e.widget = w => e.id < eventId[c]
  BY <1>1, <1>w, EventIsNew, BoundAssumption DEF IInv, TypeOK
<1>3. Told(w)' = Append(Told(w), event)
  <2>1. About(w)' = About(w) \cup {Event(c)}
    BY <1>1, <1>2 DEF About
  <2>2. IsTale(About(w)) /\ \A d \in About(w) : d.id < Event(c).id
    BY <1>1, <1>2, Tales DEF About
  <2> DEFINE n == Cardinality(About(w))
             T == About(w) \cup {Event(c)}
  <2>3. /\ n \in Nat /\ Cardinality(T) = n + 1 /\ Nth(T, n + 1) = Event(c)
        /\ \A k \in 1..n : Nth(T, k) = Nth(About(w), k)
    <3>n. PICK new : new = Event(c)
      OBVIOUS
    <3>1. IsTale(About(w)) /\ new.id \in Nat /\ \A d \in About(w) : d.id < new.id
      BY <1>2, <2>2, <3>n
    <3> DEFINE A == About(w)
    <3> HIDE DEF A
    <3>2. /\ Cardinality(A) \in Nat /\ Cardinality(A \cup {new}) = Cardinality(A) + 1
          /\ Nth(A \cup {new}, Cardinality(A) + 1) = new
          /\ \A k \in 1..Cardinality(A) : Nth(A \cup {new}, k) = Nth(A, k)
      BY <3>1, NewComesLast DEF A
    <3> QED
      BY <3>2, <3>n DEF A
  <2>4. Told(w)' = [k \in 1..Cardinality(T) |->
                      [type |-> Nth(T, k).type, value |-> Nth(T, k).value]]
    BY <2>1 DEF Told, Nth
  <2>5. Told(w) = [k \in 1..n |-> [type |-> Nth(About(w), k).type,
                                  value |-> Nth(About(w), k).value]]
    BY DEF Told
  <2> HIDE DEF n, T
  <2>6. Told(w) \in Seq({[type |-> Nth(About(w), k).type, value |-> Nth(About(w), k).value] :
                            k \in 1..n})
        /\ Len(Told(w)) = n
    BY <2>3, <2>5
  <2>7. Append(Told(w), event) =
          [k \in 1..(n + 1) |-> IF k = n + 1 THEN event ELSE Told(w)[k]]
    BY <2>3, <2>6
  <2> QED
    BY <2>3, <2>4, <2>5, <2>7
<1>4. \A x \in Widget : x # w => Told(x)' = Told(x)
  <2>1. \A x \in Widget : x # w => About(x)' = About(x)
    BY <1>1, <1>2 DEF About
  <2> QED
    BY <2>1 DEF Told, Nth
<1> DEFINE told == [x \in Widget |-> Told(x)]
<1>5. told' = [told EXCEPT ![w] = Append(@, event)]
  BY <1>1, <1>3, <1>4
<1>6. /\ table[w] # None <=> told[w] # <<>> /\ told[w][Len(told[w])] # History!Deleted
      /\ (\A e \in events : e.widget # w) => told[w] = <<>>
  BY <1>1, AliveIsThere
<1>7. \/ op[c] = "create" /\ told[w] = <<>> /\ event = History!Created(value[c]) /\ value[c] \in Value
      \/ op[c] = "update" /\ event = History!Updated(value[c]) /\ value[c] \in Value
         /\ table[w] # None
      \/ op[c] = "delete" /\ event = History!Deleted /\ table[w] # None
  BY <1>w, <1>1, <1>6 DEF IInv, Accounted, Writing, Writes, Event, Type, History!Created,
                    History!Updated, History!Deleted
<1> HIDE DEF event, told
<1>8. told = [x \in Widget |-> Told(x)]
  BY DEF told
<1>9. History!Tell(w, event)
  BY <1>5 DEF History!Tell, told
<1>10. \/ \E v \in Value : told[w] = <<>> /\ event = History!Created(v)
       \/ \E v \in Value : History!Alive(w) /\ event = History!Updated(v)
       \/ History!Alive(w) /\ event = History!Deleted
  BY <1>6, <1>7, <1>8 DEF History!Alive
<1> QED
  BY <1>8, <1>9, <1>10 DEF History!Next

LEMMA HistoryStep == IInv /\ [Next]_vars => [History!Next]_[w \in Widget |-> Told(w)]
<1> SUFFICES ASSUME IInv, [Next]_vars
             PROVE  History!Next \/ \A w \in Widget : Told(w)' = Told(w)
  OBVIOUS
<1>1. CASE events' = events
  BY <1>1 DEF Told, About, Nth
<1>2. CASE \E c \in Client : Apply(c)
  BY <1>2, CommitTells
<1>3. events' = events \/ \E c \in Client : Apply(c)
  <2>1. CASE UNCHANGED vars
    BY <2>1 DEF vars, store
  <2>2. ASSUME NEW c \in Client, Ask(c) \/ BadRequest(c) \/ Serve(c) \/ Fail(c)
        PROVE  events' = events \/ Apply(c)
    <3>1. CASE Ask(c)
      BY <3>1 DEF Ask, AskWidget, AskPage, Arrive, store
    <3>2. CASE BadRequest(c) \/ Forbid(c) \/ Fail(c) \/ Miss(c) \/ Get(c) \/ ListCount(c)
      BY <3>2 DEF BadRequest, Forbid, Fail, Miss, Get, ListCount, store
    <3>3. CASE (\E w \in Widget : Insert(c, w)) \/ Change(c) \/ Record(c) \/ ListItems(c)
      BY <3>3 DEF Insert, Change, Record, ListItems, store
    <3>4. CASE Commit(c) \/ CommitUnheard(c)
      BY <3>4 DEF Commit, CommitUnheard
    <3> QED
      BY <2>2, <3>1, <3>2, <3>3, <3>4 DEF Serve
  <2> QED
    BY <2>1, <2>2 DEF Next
<1> QED
  BY <1>1, <1>2, <1>3

\* The store keeps the promise of WidgetLog: the events of each widget are one
\* history that only grows at its end, begins with the creation, tells every change
\* once and ends with the deletion (insert, Update, Delete, Enqueue).
THEOREM KeepsHistories == Spec => Implements
<1>1. Init => History!Init
  <2> SUFFICES ASSUME Init, NEW w \in Widget PROVE Told(w) = <<>>
    BY DEF History!Init
  <2>1. IInv /\ events = {}
    BY InitIInv DEF Init
  <2> QED
    BY <2>1, AliveIsThere
<1> QED
  BY <1>1, HistoryStep, Invariance, PTL DEF Spec, Implements, History!Spec
=============================================================================
