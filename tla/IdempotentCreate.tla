-------------------------- MODULE IdempotentCreate --------------------------
(***************************************************************************)
(* POST /v1/widgets with an Idempotency-Key: lookup, create and claim in   *)
(* one transaction, and replay when another request holds the key          *)
(* (createIdempotent, maybeReplay, pgRepository.CreateIdempotent, Store).  *)
(* Requests run concurrently, a client's retries are requests of their own *)
(* with the same key, and each widget is named by the request that created *)
(* it.  Claims expire and are purged while requests are under way.         *)
(*                                                                         *)
(* The clock is the database's and the application's at once.              *)
(***************************************************************************)
EXTENDS Integers, FiniteSets

CONSTANTS Request,   \* requests, retries included
          Key,       \* row keys: subject and Idempotency-Key together
          KeyOf,     \* KeyOf[q]: the row key of request q
          HashOf,    \* HashOf[q]: its fingerprint (subject, path and body)
          TTL,       \* ticks a claim lives
          MaxNow,    \* bound on the clock
          Nobody

ASSUME RequestAssumption ==
  /\ KeyOf \in [Request -> Key]
  /\ DOMAIN HashOf = Request /\ Nobody \notin Request
ASSUME ClockAssumption == TTL \in Nat /\ MaxNow \in Nat

VARIABLES
  now,       \* the clock
  claims,    \* claims[k]: the committed row of idempotency_keys, or NoClaim
  widgets,   \* committed widgets
  announced, \* widgets whose widget.created event is committed
  place,     \* place[q]: where request q is
  began,     \* began[q]: now() of its transaction
  stamp,     \* stamp[q]: the expiry it computed for its claim
  claimedAt, \* claimedAt[q]: when its Put took the key (history)
  response   \* response[q]: the response

records    == <<claims, widgets, announced>>
attempt    == <<began, stamp, claimedAt>>
createVars == <<now, records, place, attempt, response>>

NoClaim == [widget |-> Nobody, hash |-> Nobody, expires |-> 0]
\* Mutant: the fingerprint is not stored.
ClaimNoHash(q) == [widget |-> q, hash |-> Nobody, expires |-> stamp[q]]

Claim(q) == [widget |-> q, hash |-> HashOf[q], expires |-> stamp[q]]
Times   == 0..(MaxNow + TTL)

Promise == INSTANCE OncePerKey
             WITH granted <- [k \in Key |-> IF claims[k].expires > now
                                              THEN claims[k].widget ELSE Nobody]

CreatePlaces == {"idle", "create", "inserted", "putting", "claimed", "reserved", "done"}

CreateTypeOK ==
  /\ now \in 0..MaxNow
  /\ claims \in [Key -> {NoClaim} \cup
                {[widget |-> q, hash |-> HashOf[q], expires |-> t] : q \in Request, t \in Times}]
  /\ widgets \subseteq Request /\ announced \subseteq Request
  /\ place \in [Request -> CreatePlaces]
  /\ began \in [Request -> Times] /\ stamp \in [Request -> Times]
  /\ claimedAt \in [Request -> Times]
  /\ response \in [Request -> Promise!Answers]

-----------------------------------------------------------------------------
\* Mutant: a claim is served in the tick it expires, too.
LiveInclusive(k) == claims[k] # NoClaim /\ claims[k].expires >= now

\* GetIdempotencyKey: WHERE key = $1 AND expires_at > now()
Live(k) == claims[k] # NoClaim /\ claims[k].expires > now

\* The request whose open transaction has written the row of key k.
KeyHolder(k) == {q \in Request : KeyOf[q] = k /\ place[q] = "claimed"}

\* Mutant: the stored request_hash is not compared.
LookupAnswerAnyBody(q) ==
  LET claim == claims[KeyOf[q]] IN Promise!Reply("replayed", claim.widget)

\* Lookup of a live claim: the stored response, or ErrConflict.
LookupAnswer(q) ==
  LET claim == claims[KeyOf[q]] IN
    IF claim.hash = HashOf[q] THEN Promise!Reply("replayed", claim.widget)
                              ELSE Promise!Reply("conflict", Nobody)

Respond(q, reply) ==
  /\ place' = [place EXCEPT ![q] = "done"]
  /\ response' = [response EXCEPT ![q] = reply]

Move(q, from, to) == place[q] = from /\ place' = [place EXCEPT ![q] = to]

CreateInit ==
  /\ now = 0
  /\ claims = [k \in Key |-> NoClaim]
  /\ widgets = {} /\ announced = {}
  /\ place = [q \in Request |-> "idle"]
  /\ began = [q \in Request |-> 0]
  /\ stamp = [q \in Request |-> 0]
  /\ claimedAt = [q \in Request |-> 0]
  /\ response = [q \in Request |-> Promise!Reply("pending", Nobody)]

\* authorizeWrite, the length of the key and the empty subject.
Refuse(q) ==
  /\ place[q] = "idle"
  /\ Respond(q, Promise!Reply("refused", Nobody))
  /\ UNCHANGED <<now, records, attempt>>

\* The first maybeReplay.
Lookup(q) ==
  /\ place[q] = "idle"
  /\ IF Live(KeyOf[q])
       THEN Respond(q, LookupAnswer(q))
       ELSE Move(q, "idle", "create") /\ UNCHANGED response
  /\ UNCHANGED <<now, records, attempt>>

\* BEGIN, the widget and its event: visible to nobody yet.
InsertWidget(q) ==
  /\ Move(q, "create", "inserted")
  /\ began' = [began EXCEPT ![q] = now]
  /\ UNCHANGED <<now, records, stamp, claimedAt, response>>

\* ExpiresAt is computed before PutIdempotencyKey is sent.
Stamp(q) ==
  /\ Move(q, "inserted", "putting")
  /\ stamp' = [stamp EXCEPT ![q] = now + TTL]
  /\ UNCHANGED <<now, records, began, claimedAt, response>>

\* Mutant: the conflicting row is always overwritten.
PutOverwrites(q) ==
  /\ place[q] = "putting" /\ KeyHolder(KeyOf[q]) = {}
  /\ Move(q, "putting", "claimed") /\ claimedAt' = [claimedAt EXCEPT ![q] = now]
  /\ UNCHANGED <<now, records, began, stamp, response>>

\* PutIdempotencyKey waits for a transaction that has written the key, then
\* inserts, overwrites a row that had expired when this transaction began, or
\* changes nothing: zero rows roll everything back (ErrIdempotencyReserved).
Put(q) ==
  /\ place[q] = "putting" /\ KeyHolder(KeyOf[q]) = {}
  /\ LET claim == claims[KeyOf[q]] IN
       IF claim = NoClaim \/ claim.expires <= began[q]
         THEN /\ Move(q, "putting", "claimed")
              /\ claimedAt' = [claimedAt EXCEPT ![q] = now]
         ELSE /\ Move(q, "putting", "reserved")
              /\ UNCHANGED claimedAt
  /\ UNCHANGED <<now, records, began, stamp, response>>

\* Mutant: the event is written after the commit, and may be missed.
ApplyWithoutEvent(q) ==
  /\ place[q] = "claimed"
  /\ claims' = [claims EXCEPT ![KeyOf[q]] = Claim(q)]
  /\ widgets' = widgets \cup {q}
  /\ UNCHANGED <<now, announced, attempt>>

\* The transaction commits: widget, event and claim together.
ApplyCreate(q) ==
  /\ place[q] = "claimed"
  /\ claims' = [claims EXCEPT ![KeyOf[q]] = Claim(q)]
  /\ widgets' = widgets \cup {q}
  /\ announced' = announced \cup {q}
  /\ UNCHANGED <<now, attempt>>

CommitCreate(q) == ApplyCreate(q) /\ Respond(q, Promise!Reply("created", q))

\* The commit takes effect but the server dies or never hears of it.
CreateUnheard(q) == ApplyCreate(q) /\ Respond(q, Promise!Reply("failed", Nobody))

\* Mutant: the loser of a race is not looked up again.
LookupAgainFails(q) ==
  /\ place[q] = "reserved" /\ Respond(q, Promise!Reply("failed", Nobody))
  /\ UNCHANGED <<now, records, attempt>>

\* Mutant: the loser of a race waits for a response to replay.
LookupAgainWaits(q) ==
  /\ place[q] = "reserved" /\ Live(KeyOf[q])
  /\ Respond(q, LookupAnswer(q))
  /\ UNCHANGED <<now, records, attempt>>

\* The second maybeReplay.  If it finds nothing, err is still
\* ErrIdempotencyReserved and writeError answers 500.
LookupAgain(q) ==
  /\ place[q] = "reserved"
  /\ Respond(q, IF Live(KeyOf[q]) THEN LookupAnswer(q)
                                 ELSE Promise!Reply("failed", Nobody))
  /\ UNCHANGED <<now, records, attempt>>

\* A statement fails, the context is done, the server dies or the client goes
\* away: an open transaction rolls back.
FailCreate(q) ==
  /\ place[q] # "done"
  /\ Respond(q, Promise!Reply("failed", Nobody))
  /\ UNCHANGED <<now, records, attempt>>

\* PurgeExpired.  It waits for rows that open transactions have overwritten,
\* and leaves those that are committed with a new expiry.
PurgeExpired ==
  /\ \E S \in SUBSET {k \in Key : claims[k] # NoClaim /\ claims[k].expires <= now
                                    /\ KeyHolder(k) = {}} :
       /\ S # {}
       /\ claims' = [k \in Key |-> IF k \in S THEN NoClaim ELSE claims[k]]
  /\ UNCHANGED <<now, widgets, announced, place, attempt, response>>

Tick ==
  /\ now < MaxNow
  /\ now' = now + 1
  /\ UNCHANGED <<records, place, attempt, response>>

ServeCreate(q) ==
  \/ Refuse(q) \/ Lookup(q) \/ InsertWidget(q) \/ Stamp(q) \/ Put(q)
  \/ CommitCreate(q) \/ CreateUnheard(q) \/ LookupAgain(q)

CreateNext ==
  \/ \E q \in Request : ServeCreate(q) \/ FailCreate(q)
  \/ PurgeExpired
  \/ Tick

CreateSpec == CreateInit /\ [][CreateNext]_createVars

\* Handlers run: each request that can take its next step does.
CreateFairness == \A q \in Request : WF_createVars(ServeCreate(q))

-----------------------------------------------------------------------------
\* One key makes one widget at a time: a second one is claimed only after the
\* first one's claim has run out (PutIdempotencyKey), however the lookups,
\* transactions, expiries and purges of the requests interleave.
OneWidgetPerClaim ==
  \A p, q \in widgets :
    p # q /\ KeyOf[p] = KeyOf[q] =>
      stamp[p] <= claimedAt[q] \/ stamp[q] <= claimedAt[p]

\* A widget has its event and an event its widget, whatever fails, and a claim
\* never stands for a widget that was rolled back.
AllOrNothing ==
  /\ widgets = announced
  /\ \A k \in Key : claims[k] # NoClaim => claims[k].widget \in widgets

\* A replay shows a committed widget that another request with the same key
\* and the same fingerprint created.
ReplayTrue ==
  \A q \in Request : response[q].kind = "replayed" =>
    LET w == response[q].widget IN
      /\ w \in widgets /\ w # q
      /\ KeyOf[w] = KeyOf[q] /\ HashOf[w] = HashOf[q]

\* A claim stands for a committed widget of its key until that expires.
ClaimsStand ==
  \A k \in Key : claims[k] # NoClaim =>
    LET w == claims[k].widget IN
      w \in widgets /\ KeyOf[w] = k /\ stamp[w] = claims[k].expires

\* A widget that its key no longer stands for has outlived its claim.
Outlived ==
  \A w \in widgets : claims[KeyOf[w]].widget = w \/ stamp[w] <= now

\* A request that has taken its key is the only one, and found no widget there
\* whose claim had not run out.
Taken ==
  \A q \in Request : place[q] = "claimed" =>
    /\ KeyHolder(KeyOf[q]) = {q}
    /\ \A w \in widgets : KeyOf[w] = KeyOf[q] => stamp[w] <= claimedAt[q]

\* Requests end once: before, they have neither a widget nor an answer.
CreateCourse ==
  \A q \in Request :
    /\ began[q] <= now /\ claimedAt[q] <= now
    /\ place[q] # "done" => q \notin widgets /\ response[q] = Promise!Reply("pending", Nobody)

\* The invariant of the proofs.
CreateInv ==
  /\ CreateTypeOK /\ ClaimsStand /\ Outlived /\ Taken /\ CreateCourse
  /\ OneWidgetPerClaim /\ AllOrNothing /\ ReplayTrue

\* Seen from outside, each request is served in one step of OncePerKey.
OneStepEach == Promise!Spec

\* Every request that has begun is answered: waiting for another's transaction ends.
CreatesAnswered == \A q \in Request : []<>(place[q] \in {"idle", "done"})

\* "another request already claimed the key; the caller should replay the
\* stored response" (ErrIdempotencyReserved): a request that lost the race is
\* left without an answer of its own only if no claim on the key is live any
\* more; otherwise it is given the stored response, or a conflict.
LosersReplay ==
  [][\A q \in Request :
       place[q] = "reserved" /\ LookupAgain(q) =>
         \/ response'[q].kind \in {"replayed", "conflict"}
         \/ \A w \in widgets : KeyOf[w] = KeyOf[q] => stamp[w] <= now]_createVars
=============================================================================
