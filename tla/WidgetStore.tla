----------------------------- MODULE WidgetStore -----------------------------
(***************************************************************************)
(* The widget operations from handler to table: ListWidgets, CreateWidget  *)
(* without a key, GetWidget, UpdateWidget and DeleteWidget with their      *)
(* service and repository.  Writes run in READ COMMITTED transactions that *)
(* lock the row they change and insert the event that reports it; List     *)
(* reads its page and its total in one REPEATABLE READ transaction.        *)
(*                                                                         *)
(* Widgets are numbers in the order of (created_at, id); created_at is the *)
(* start of a transaction, so a new row may come anywhere in that order.   *)
(***************************************************************************)
EXTENDS Integers, FiniteSets

CONSTANTS Client,       \* callers, one request at a time each
          Writer,       \* those whose principal has widgets:write
          Widget,       \* ids
          Value,        \* name, description and status together
          Limit,        \* page sizes that are asked for
          Offset,       \* page offsets that are asked for
          MaxRequests,  \* bound on requests
          None

ASSUME ClientAssumption == Writer \subseteq Client /\ IsFiniteSet(Client)
ASSUME WidgetAssumption ==
  Widget \subseteq Nat /\ IsFiniteSet(Widget) /\ None \notin Value \cup Nat
ASSUME PageAssumption == Limit \subseteq Nat /\ Offset \subseteq Nat
ASSUME BoundAssumption == MaxRequests \in Nat

VARIABLES
  table,     \* table[w]: the committed row of widgets, or None
  used,      \* ids that an INSERT has drawn
  events,    \* committed rows of outbox_messages
  nextId,    \* the identity column of outbox_messages
  requests,  \* requests served so far
  pc,        \* pc[c]: where the request of client c is
  op,        \* op[c]: its operation
  widget,    \* widget[c]: the row it is about
  value,     \* value[c]: what it writes
  eventId,   \* eventId[c]: the id its event drew, 0 before
  page,      \* page[c]: limit and offset
  rows,      \* rows[c]: the snapshot of its transaction
  answer     \* answer[c]: the last response, a page with what was asked for

store   == <<table, used, events, nextId>>
request == <<op, widget, value, page>>
tx      == <<eventId, rows>>
vars    == <<store, requests, pc, request, tx, answer>>

Ops    == {"create", "update", "delete", "get", "list"}
Writes == {"create", "update", "delete"}
Places == {"idle", "serving", "wrote", "recorded", "listing"}
Pages  == [limit : Limit, offset : Offset]

\* A response: its status, and what a page and its total held.
NoPage  == [limit |-> 0, offset |-> 0]
Answers == [status : {0, 200, 201, 204, 400, 403, 404, 500}, page : Pages \cup {NoPage},
            items : SUBSET Widget, total : 0..Cardinality(Widget)]
Reply(status) == [status |-> status, page |-> NoPage, items |-> {}, total |-> 0]
PageReply(p, items, total) ==
  [status |-> 200, page |-> p, items |-> items, total |-> total]

Type(o) == CASE o = "create" -> "widget.created"
             [] o = "update" -> "widget.updated"
             [] OTHER        -> "widget.deleted"
Types == {"widget.created", "widget.updated", "widget.deleted"}

TypeOK ==
  /\ table \in [Widget -> Value \cup {None}] /\ used \subseteq Widget
  /\ events \subseteq [id : 1..MaxRequests, widget : Widget, type : Types,
                       value : Value \cup {None}]
  /\ nextId \in 1..(MaxRequests + 1) /\ requests \in 0..MaxRequests
  /\ pc \in [Client -> Places] /\ op \in [Client -> Ops]
  /\ widget \in [Client -> Widget \cup {None}] /\ value \in [Client -> Value \cup {None}]
  /\ page \in [Client -> Pages \cup {NoPage}]
  /\ eventId \in [Client -> 0..MaxRequests] /\ rows \in [Client -> SUBSET Widget]
  /\ answer \in [Client -> Answers]

-----------------------------------------------------------------------------
Present == {w \in Widget : table[w] # None}

\* Clients whose open transaction has written row w.
Holder(w) == {c \in Client : pc[c] \in {"wrote", "recorded"} /\ widget[c] = w}

\* Mutant: OFFSET counts from one.
PageOfShifted(S, limit, offset) ==
  {w \in S : Cardinality({k \in S : k >= w}) \in offset..(offset + limit)}

\* ORDER BY created_at DESC, id DESC LIMIT $1 OFFSET $2
PageOf(S, limit, offset) ==
  {w \in S : Cardinality({k \in S : k >= w}) \in (offset + 1)..(offset + limit)}

Go(c, from, to) == pc[c] = from /\ pc' = [pc EXCEPT ![c] = to]

\* The handler returns; an open transaction has ended.
Finish(c, reply) ==
  /\ pc' = [pc EXCEPT ![c] = "idle"]
  /\ op' = [op EXCEPT ![c] = "get"] /\ widget' = [widget EXCEPT ![c] = None]
  /\ value' = [value EXCEPT ![c] = None] /\ page' = [page EXCEPT ![c] = NoPage]
  /\ answer' = [answer EXCEPT ![c] = reply]
  /\ eventId' = [eventId EXCEPT ![c] = 0]
  /\ rows' = [rows EXCEPT ![c] = {}]

Init ==
  /\ table = [w \in Widget |-> None] /\ used = {} /\ events = {} /\ nextId = 1
  /\ requests = 0
  /\ pc = [c \in Client |-> "idle"] /\ op = [c \in Client |-> "get"]
  /\ widget = [c \in Client |-> None]
  /\ value = [c \in Client |-> None]
  /\ page = [c \in Client |-> NoPage]
  /\ eventId = [c \in Client |-> 0] /\ rows = [c \in Client |-> {}]
  /\ answer = [c \in Client |-> Reply(0)]

-----------------------------------------------------------------------------
(* Requests *)

Arrive(c) ==
  /\ pc[c] = "idle" /\ requests < MaxRequests
  /\ requests' = requests + 1
  /\ pc' = [pc EXCEPT ![c] = "serving"]
  /\ answer' = [answer EXCEPT ![c] = Reply(0)]
  /\ UNCHANGED <<store, tx>>

AskWidget(c, o, w, v) ==
  /\ Arrive(c)
  /\ op' = [op EXCEPT ![c] = o] /\ widget' = [widget EXCEPT ![c] = w]
  /\ value' = [value EXCEPT ![c] = v]
  /\ UNCHANGED page

AskPage(c, p) ==
  /\ Arrive(c)
  /\ op' = [op EXCEPT ![c] = "list"] /\ page' = [page EXCEPT ![c] = p]
  /\ UNCHANGED <<widget, value>>

Ask(c) ==
  \/ \E w \in Widget : AskWidget(c, "get", w, None) \/ AskWidget(c, "delete", w, None)
  \/ \E v \in Value : AskWidget(c, "create", None, v)
  \/ \E w \in Widget, v \in Value : AskWidget(c, "update", w, v)
  \/ \E p \in Pages : AskPage(c, p)

\* A parameter or a body that does not bind or decode.
BadRequest(c) ==
  /\ pc[c] = "serving"
  /\ Finish(c, Reply(400))
  /\ UNCHANGED <<store, requests>>

\* authorizeWrite returns ErrForbidden.
Forbid(c) ==
  /\ pc[c] = "serving" /\ op[c] \in Writes /\ c \notin Writer
  /\ Finish(c, Reply(403))
  /\ UNCHANGED <<store, requests>>

\* A statement, the commit or the context fails: everything rolls back, 500.
Fail(c) ==
  /\ pc[c] # "idle"
  /\ Finish(c, Reply(500))
  /\ UNCHANGED <<store, requests>>

\* Mutant: the repository is called without authorizeWrite.
MayWriteAny(c) == op[c] \in Writes

MayWrite(c) == op[c] \in Writes /\ c \in Writer

(* Writes *)

\* BEGIN and CreateWidget: the id is new.
Insert(c, w) ==
  /\ op[c] = "create" /\ MayWrite(c) /\ w \notin used
  /\ Go(c, "serving", "wrote")
  /\ widget' = [widget EXCEPT ![c] = w]
  /\ used' = used \cup {w}
  /\ UNCHANGED <<table, events, nextId, requests, op, value, page, tx, answer>>

\* Mutant: the row is read without FOR UPDATE and then written.
ChangeUnlocked(c) ==
  /\ op[c] \in {"update", "delete"} /\ MayWrite(c)
  /\ table[widget[c]] # None
  /\ Go(c, "serving", "wrote")
  /\ UNCHANGED <<store, requests, request, tx, answer>>

\* BEGIN and UpdateWidget or DeleteWidget: wait for the transaction that holds
\* the row, then write it if it is there.
Change(c) ==
  /\ op[c] \in {"update", "delete"} /\ MayWrite(c)
  /\ Holder(widget[c]) = {} /\ table[widget[c]] # None
  /\ Go(c, "serving", "wrote")
  /\ UNCHANGED <<store, requests, request, tx, answer>>

\* Mutant: a missing row is no error, and the event goes out.
MissIgnored(c) ==
  /\ op[c] \in {"update", "delete"} /\ MayWrite(c)
  /\ Holder(widget[c]) = {} /\ table[widget[c]] = None
  /\ Go(c, "serving", "wrote")
  /\ UNCHANGED <<store, requests, request, tx, answer>>

\* Mutant: a statement that finds no row is tried again.
MissRetries(c) ==
  /\ pc[c] = "serving" /\ op[c] \in {"update", "delete"} /\ MayWrite(c)
  /\ Holder(widget[c]) = {} /\ table[widget[c]] = None
  /\ UNCHANGED vars

\* No row: roll back with ErrNotFound.
Miss(c) ==
  /\ pc[c] = "serving" /\ op[c] \in {"update", "delete"} /\ MayWrite(c)
  /\ Holder(widget[c]) = {} /\ table[widget[c]] = None
  /\ Finish(c, Reply(404))
  /\ UNCHANGED <<store, requests>>

\* outbox.Enqueue draws the event's id while the row is locked.
Record(c) ==
  /\ Go(c, "wrote", "recorded")
  /\ eventId' = [eventId EXCEPT ![c] = nextId]
  /\ nextId' = nextId + 1
  /\ UNCHANGED <<table, used, events, requests, request, rows, answer>>

Event(c) == [id |-> eventId[c], widget |-> widget[c], type |-> Type(op[c]), value |-> value[c]]

\* The transaction commits: the row and its event.
Apply(c) ==
  /\ pc[c] = "recorded"
  /\ table' = [table EXCEPT ![widget[c]] = value[c]]
  /\ events' = events \cup {Event(c)}
  /\ UNCHANGED <<used, nextId, requests>>

Commit(c) ==
  /\ Apply(c)
  /\ Finish(c, Reply(CASE op[c] = "create" -> 201 [] op[c] = "update" -> 200 [] OTHER -> 204))

\* The commit takes effect but its reply is lost.
CommitUnheard(c) == Apply(c) /\ Finish(c, Reply(500))

(* Reads *)

Get(c) ==
  /\ pc[c] = "serving" /\ op[c] = "get"
  /\ Finish(c, Reply(IF table[widget[c]] = None THEN 404 ELSE 200))
  /\ UNCHANGED <<store, requests>>

\* ListWidgets: its snapshot is that of the transaction.
ListItems(c) ==
  /\ op[c] = "list" /\ Go(c, "serving", "listing")
  /\ rows' = [rows EXCEPT ![c] = Present]
  /\ UNCHANGED <<store, requests, request, eventId, answer>>

\* Mutant: the default READ COMMITTED, a snapshot for each statement.
ListCountFresh(c) ==
  /\ pc[c] = "listing"
  /\ Finish(c, PageReply(page[c], PageOf(rows[c], page[c].limit, page[c].offset),
                      Cardinality(Present)))
  /\ UNCHANGED <<store, requests>>

\* CountWidgets in the same snapshot, and the response.
ListCount(c) ==
  /\ pc[c] = "listing"
  /\ Finish(c, PageReply(page[c], PageOf(rows[c], page[c].limit, page[c].offset),
                      Cardinality(rows[c])))
  /\ UNCHANGED <<store, requests>>

-----------------------------------------------------------------------------
Serve(c) ==
  \/ Forbid(c) \/ (\E w \in Widget : Insert(c, w)) \/ Change(c) \/ Miss(c)
  \/ Record(c) \/ Commit(c) \/ CommitUnheard(c)
  \/ Get(c) \/ ListItems(c) \/ ListCount(c)

Next == \E c \in Client : Ask(c) \/ BadRequest(c) \/ Serve(c) \/ Fail(c)

Spec == Init /\ [][Next]_vars

\* Handlers and statements go on; a lock is waited for until it is given up.
Fairness == \A c \in Client : WF_vars(Serve(c))

-----------------------------------------------------------------------------
\* Whoever reads the events of a widget in the order of their ids knows what is in
\* its row: each change is reported in its own transaction, and its id is drawn
\* while the row is locked (Update, Delete, insert).
EventsTellRows ==
  \A w \in Widget :
    \/ table[w] = None /\ \A e \in events : e.widget # w
    \/ \E e \in events :
         /\ e.widget = w /\ e.value = table[w]
         /\ \A d \in events : d.widget = w => d.id <= e.id

\* Where a transaction stands: its client may write, its row is locked, and a row
\* of its own stands for what it inserts.
Writing(c) == pc[c] \in {"wrote", "recorded"}
Course ==
  /\ \A c \in Client :
       /\ Writing(c) => c \in Writer /\ op[c] \in Writes /\ widget[c] \in used
       /\ pc[c] = "serving" /\ op[c] \in {"get", "update", "delete"} => widget[c] \in Widget
       /\ pc[c] = "listing" => op[c] = "list"
  /\ \A c, d \in Client : c # d /\ Writing(c) /\ Writing(d) => widget[c] # widget[d]
  /\ Present \subseteq used

\* Ids of events are drawn once, and while its row is locked a transaction holds
\* the highest one of its widget.
Drawn ==
  /\ \A e \in events : e.id < nextId
  /\ \A c \in Client : pc[c] = "recorded" =>
       /\ 1 <= eventId[c] /\ eventId[c] < nextId
       /\ \A e \in events : e.id # eventId[c] /\ (e.widget = widget[c] => e.id < eventId[c])
  /\ \A c, d \in Client :
       c # d /\ pc[c] = "recorded" /\ pc[d] = "recorded" => eventId[c] # eventId[d]

\* Each request draws at most one id.
Undrawn == {c \in Client : pc[c] \in {"serving", "wrote"}}
Counted == nextId + Cardinality(Undrawn) <= requests + 1

\* A row to be inserted has no history, and one to be changed is there; an event
\* says deleted if there is nothing left.
Accounted ==
  /\ \A c \in Client :
       /\ pc[c] = "serving" \/ Writing(c) =>
            /\ op[c] \in {"create", "update"} => value[c] \in Value
            /\ op[c] = "delete" => value[c] = None
       /\ Writing(c) /\ op[c] = "create" =>
            table[widget[c]] = None /\ \A e \in events : e.widget # widget[c]
       /\ Writing(c) /\ op[c] # "create" => table[widget[c]] # None
  /\ IsFiniteSet(events)
  /\ \A e \in events : e.widget \in used /\ (e.type = "widget.deleted" <=> e.value = None)
  /\ \A d, e \in events : d.id = e.id => d = e

\* The invariant of the proofs.
IInv == TypeOK /\ Course /\ Drawn /\ Counted /\ EventsTellRows /\ Accounted

\* What a client is told is what was done: a write that was confirmed has its
\* event, and "a missing row rolls back so no event is left behind" (Delete); so
\* does every other request that was refused.
Confirmed == {200, 201, 204}
AnswersTrue ==
  [][\A c \in Client :
       pc[c] # "idle" /\ pc'[c] = "idle" =>
         LET told == events' \ events IN
           /\ op[c] \in Writes /\ answer'[c].status \in Confirmed =>
                \E e \in told : e.widget = widget[c] /\ e.type = Type(op[c])
           /\ answer'[c].status \in {400, 403, 404} => told = {} /\ table' = table
           /\ told # {} => c \in Writer]_vars

\* "The total always agrees with the items returned" (List), whatever commits
\* between the two queries.
ListAgrees ==
  \A c \in Client :
    LET a == answer[c]
        rest == a.total - a.page.offset
    IN Cardinality(a.items) =
         IF rest <= 0 THEN 0 ELSE IF rest < a.page.limit THEN rest ELSE a.page.limit

\* The events of w in the order in which the relay fetches them.
About(w) == {e \in events : e.widget = w}

Nth(S, k) == CHOOSE e \in S : Cardinality({d \in S : d.id < e.id}) = k - 1

Told(w) ==
  [k \in 1..Cardinality(About(w)) |->
     [type |-> Nth(About(w), k).type, value |-> Nth(About(w), k).value]]

History == INSTANCE WidgetLog WITH log <- [w \in Widget |-> Told(w)]

\* The events of each widget are one history that only grows at its end.
Implements == History!Spec

\* Every request is answered: nobody waits for a row lock for ever.
Answered == \A c \in Client : []<>(pc[c] = "idle")
=============================================================================
