----------------------- MODULE IdempotentCreateProofs -----------------------
(***************************************************************************)
(* Proofs about IdempotentCreate, for any requests, keys, fingerprints and *)
(* lifetime of claims: the inductive invariant, the safety properties it   *)
(* implies, and that the creates implement OncePerKey.                     *)
(***************************************************************************)
EXTENDS IdempotentCreate, TLAPS

\* A row of idempotency_keys is empty or the claim of a request.
LEMMA ClaimCases ==
  ASSUME CreateTypeOK, NEW k \in Key, claims[k] # NoClaim
  PROVE  /\ claims[k].widget \in Request /\ claims[k].expires \in Times
         /\ claims[k].hash = HashOf[claims[k].widget]
BY DEF CreateTypeOK

LEMMA InitIInv == CreateInit => CreateInv
<1> SUFFICES ASSUME CreateInit PROVE CreateInv
  OBVIOUS
<1> USE RequestAssumption, ClockAssumption DEF CreateInit
<1>1. CreateTypeOK
  BY DEF CreateTypeOK, Times, CreatePlaces, Promise!Answers, Promise!Reply
<1>2. ClaimsStand /\ Outlived /\ Taken /\ CreateCourse
  BY DEF ClaimsStand, Outlived, Taken, CreateCourse
<1>3. OneWidgetPerClaim /\ AllOrNothing /\ ReplayTrue
  BY DEF OneWidgetPerClaim, AllOrNothing, ReplayTrue, Promise!Reply
<1> QED
  BY <1>1, <1>2, <1>3 DEF CreateInv

-----------------------------------------------------------------------------
(* Steps of a request that leave the store and the answers as they are. *)

LEMMA QuietStep ==
  ASSUME CreateInv, NEW q \in Request, InsertWidget(q) \/ Stamp(q) \/ Put(q)
  PROVE  CreateInv'
<1> USE RequestAssumption, ClockAssumption DEF InsertWidget, Stamp, Put, Move, records
<1>a. /\ place[q] \in {"create", "inserted", "putting"} /\ q \notin widgets
      /\ UNCHANGED <<now, claims, widgets, announced, response>>
      /\ place' \in [Request -> CreatePlaces] /\ place'[q] \notin {"idle", "done"}
      /\ \A p \in Request : p # q => place'[p] = place[p] /\ stamp'[p] = stamp[p]
                                     /\ began'[p] = began[p] /\ claimedAt'[p] = claimedAt[p]
  BY DEF CreateInv, CreateTypeOK, CreatePlaces, CreateCourse
<1>1. CreateTypeOK'
  <2>1. began' \in [Request -> Times] /\ stamp' \in [Request -> Times]
        /\ claimedAt' \in [Request -> Times]
    BY DEF CreateInv, CreateTypeOK, Times
  <2> QED
    BY <1>a, <2>1 DEF CreateInv, CreateTypeOK
<1>2. ClaimsStand'
  <2>1. \A w \in widgets : stamp'[w] = stamp[w]
    BY <1>a DEF CreateInv, CreateTypeOK
  <2> QED
    BY <1>a, <2>1 DEF CreateInv, ClaimsStand
<1>3. Outlived'
  <2> SUFFICES ASSUME NEW w \in widgets
               PROVE  claims[KeyOf[w]].widget = w \/ stamp'[w] <= now
    BY <1>a DEF Outlived
  <2>1. w \in Request /\ stamp'[w] = stamp[w]
    BY <1>a DEF CreateInv, CreateTypeOK
  <2> QED
    BY <2>1 DEF CreateInv, Outlived
<1>4. Taken'
  <2> SUFFICES ASSUME NEW p \in Request, place'[p] = "claimed"
               PROVE  /\ KeyHolder(KeyOf[p])' = {p}
                      /\ \A w \in widgets : KeyOf[w] = KeyOf[p] => stamp'[w] <= claimedAt'[p]
    BY <1>a DEF Taken
  <2>1. \A w \in widgets : w \in Request /\ stamp'[w] = stamp[w] /\ stamp[w] \in Times
    BY <1>a DEF CreateInv, CreateTypeOK
  <2>2. CASE p = q
    <3>1. Put(q) /\ KeyHolder(KeyOf[q]) = {} /\ claimedAt'[q] = now
      BY <2>2 DEF CreateInv, CreateTypeOK
    <3>2. KeyHolder(KeyOf[q])' = {q}
      BY <3>1, <2>2, <1>a DEF KeyHolder, CreateInv, CreateTypeOK
    <3> DEFINE claim == claims[KeyOf[q]]
    <3>3. claim = NoClaim \/ (claim # NoClaim /\ claim.expires <= began[q])
      BY <3>1, <2>2 DEF CreateInv, CreateTypeOK
    <3>4. ASSUME NEW w \in widgets, KeyOf[w] = KeyOf[q] PROVE stamp[w] <= now
      <4>1. now \in Nat /\ began[q] <= now /\ began[q] \in Nat /\ stamp[w] \in Nat
        BY <2>1 DEF CreateInv, CreateTypeOK, CreateCourse, Times
      <4>2. CASE claim = NoClaim
        <5>1. claims[KeyOf[w]].widget # w
          BY <4>2, <3>4, <2>1 DEF NoClaim
        <5> QED
          BY <5>1 DEF CreateInv, Outlived
      <4>3. CASE claim # NoClaim /\ claim.expires <= began[q]
        <5>1. claim.expires \in Times /\ stamp[claim.widget] = claim.expires
          BY <4>3, ClaimCases DEF CreateInv, ClaimsStand
        <5>2. CASE claim.widget = w
          BY <5>1, <5>2, <4>1, <4>3 DEF Times
        <5>3. CASE claim.widget # w
          BY <5>3, <3>4 DEF CreateInv, Outlived
        <5> QED
          BY <5>2, <5>3
      <4> QED
        BY <4>2, <4>3, <3>3
    <3> QED
      BY <2>1, <2>2, <3>1, <3>2, <3>4
  <2>3. CASE p # q
    <3>1. place[p] = "claimed" /\ claimedAt'[p] = claimedAt[p]
      BY <1>a, <2>3
    <3>2. KeyHolder(KeyOf[p]) = {p}
          /\ \A w \in widgets : KeyOf[w] = KeyOf[p] => stamp[w] <= claimedAt[p]
      BY <3>1 DEF CreateInv, Taken
    <3>3. q \notin KeyHolder(KeyOf[p])'
      <4>1. CASE KeyOf[q] = KeyOf[p]
        <5>1. KeyHolder(KeyOf[q]) # {}
          BY <4>1, <3>2
        <5>2. place'[q] # "claimed"
          BY <5>1 DEF CreateInv, CreateTypeOK
        <5> QED
          BY <5>2 DEF KeyHolder
      <4>2. CASE KeyOf[q] # KeyOf[p]
        BY <4>2 DEF KeyHolder
      <4> QED
        BY <4>1, <4>2
    <3>4. KeyHolder(KeyOf[p])' = {p}
      BY <3>2, <3>3, <1>a DEF KeyHolder
    <3> QED
      BY <3>1, <3>2, <3>4, <2>1
  <2> QED
    BY <2>2, <2>3
<1>5. CreateCourse'
  BY <1>a DEF CreateInv, CreateCourse, CreateTypeOK, Times
<1>6. OneWidgetPerClaim'
  <2>1. \A w \in widgets : w \in Request /\ w # q
    BY <1>a DEF CreateInv, CreateTypeOK
  <2> QED
    BY <1>a, <2>1 DEF CreateInv, OneWidgetPerClaim
<1>7. AllOrNothing' /\ ReplayTrue'
  BY <1>a DEF CreateInv, AllOrNothing, ReplayTrue
<1> QED
  BY <1>1, <1>2, <1>3, <1>4, <1>5, <1>6, <1>7 DEF CreateInv

-----------------------------------------------------------------------------
(* Answers *)

\* What a lookup tells a request that has not ended.
LEMMA LookupIsTrue ==
  ASSUME CreateInv, NEW q \in Request, place[q] # "done", Live(KeyOf[q])
  PROVE  LET w == claims[KeyOf[q]].widget IN
           /\ w \in widgets /\ w \in Request /\ w # q /\ KeyOf[w] = KeyOf[q]
           /\ claims[KeyOf[q]].expires > now
           /\ LookupAnswer(q) = IF HashOf[w] = HashOf[q] THEN Promise!Reply("replayed", w)
                                                       ELSE Promise!Reply("conflict", Nobody)
<1>1. KeyOf[q] \in Key /\ claims[KeyOf[q]] # NoClaim /\ claims[KeyOf[q]].expires > now
  BY RequestAssumption DEF Live
<1>2. claims[KeyOf[q]].hash = HashOf[claims[KeyOf[q]].widget]
      /\ claims[KeyOf[q]].widget \in Request
  BY <1>1, ClaimCases DEF CreateInv
<1>3. claims[KeyOf[q]].widget \in widgets /\ KeyOf[claims[KeyOf[q]].widget] = KeyOf[q]
  BY <1>1 DEF CreateInv, ClaimsStand
<1>4. q \notin widgets
  BY DEF CreateInv, CreateCourse
<1> QED
  BY <1>1, <1>2, <1>3, <1>4 DEF LookupAnswer

\* A request ends and the store stays as it is.
LEMMA EndStep ==
  ASSUME CreateInv, NEW q \in Request, place[q] # "done",
         NEW reply \in Promise!Answers, Respond(q, reply), UNCHANGED <<now, records, attempt>>,
         reply.kind = "replayed" =>
           /\ reply.widget \in widgets /\ reply.widget # q
           /\ KeyOf[reply.widget] = KeyOf[q] /\ HashOf[reply.widget] = HashOf[q]
  PROVE  CreateInv'
<1> USE DEF Respond, records, attempt
<1>a. /\ place' \in [Request -> CreatePlaces] /\ place'[q] = "done" /\ response'[q] = reply
      /\ \A p \in Request : p # q => place'[p] = place[p] /\ response'[p] = response[p]
  BY DEF CreateInv, CreateTypeOK, CreatePlaces
<1>1. CreateTypeOK'
  BY <1>a DEF CreateInv, CreateTypeOK
<1>2. ClaimsStand' /\ Outlived' /\ OneWidgetPerClaim' /\ AllOrNothing'
  BY DEF CreateInv, ClaimsStand, Outlived, OneWidgetPerClaim, AllOrNothing
<1>3. Taken'
  <2> SUFFICES ASSUME NEW p \in Request, place'[p] = "claimed"
               PROVE  /\ KeyHolder(KeyOf[p])' = {p}
                      /\ \A w \in widgets : KeyOf[w] = KeyOf[p] => stamp[w] <= claimedAt[p]
    BY DEF Taken
  <2>1. place[p] = "claimed" /\ p # q
    BY <1>a
  <2>2. /\ KeyHolder(KeyOf[p]) = {p}
        /\ \A w \in widgets : KeyOf[w] = KeyOf[p] => stamp[w] <= claimedAt[p]
    BY <2>1 DEF CreateInv, Taken
  <2>3. KeyHolder(KeyOf[p])' \subseteq KeyHolder(KeyOf[p])
    BY <1>a DEF KeyHolder
  <2> QED
    BY <2>1, <2>2, <2>3 DEF KeyHolder
<1>4. CreateCourse'
  BY <1>a DEF CreateInv, CreateCourse
<1>5. ReplayTrue'
  BY <1>a DEF CreateInv, ReplayTrue
<1> QED
  BY <1>1, <1>2, <1>3, <1>4, <1>5 DEF CreateInv

LEMMA LookupStep ==
  ASSUME CreateInv, NEW q \in Request, Lookup(q) \/ LookupAgain(q), Live(KeyOf[q])
  PROVE  CreateInv'
<1>1. place[q] # "done" /\ Respond(q, LookupAnswer(q)) /\ UNCHANGED <<now, records, attempt>>
  BY DEF Lookup, LookupAgain
<1> DEFINE w == claims[KeyOf[q]].widget
<1>2. /\ w \in widgets /\ w \in Request /\ w # q /\ KeyOf[w] = KeyOf[q]
      /\ LookupAnswer(q) = IF HashOf[w] = HashOf[q] THEN Promise!Reply("replayed", w)
                                                  ELSE Promise!Reply("conflict", Nobody)
  BY <1>1, LookupIsTrue
<1>3. LookupAnswer(q) \in Promise!Answers
  BY <1>2 DEF Promise!Answers, Promise!Reply
<1>4. LookupAnswer(q).kind = "replayed" => LookupAnswer(q).widget = w /\ HashOf[w] = HashOf[q]
  BY <1>2 DEF Promise!Reply
<1> QED
  BY <1>1, <1>2, <1>3, <1>4, EndStep

\* The first lookup finds nothing.
LEMMA MissStep ==
  ASSUME CreateInv, NEW q \in Request, Lookup(q), ~Live(KeyOf[q])
  PROVE  CreateInv'
<1> USE DEF Lookup, Move, records, attempt
<1>a. /\ place[q] = "idle" /\ UNCHANGED <<now, records, attempt, response>>
      /\ place' \in [Request -> CreatePlaces] /\ place'[q] = "create"
      /\ \A p \in Request : p # q => place'[p] = place[p]
  BY DEF CreateInv, CreateTypeOK, CreatePlaces
<1>1. CreateTypeOK' /\ ClaimsStand' /\ Outlived' /\ OneWidgetPerClaim' /\ AllOrNothing' /\ ReplayTrue'
  BY <1>a DEF CreateInv, CreateTypeOK, ClaimsStand, Outlived, OneWidgetPerClaim, AllOrNothing, ReplayTrue
<1>2. Taken'
  <2>1. \A k \in Key : KeyHolder(k)' = KeyHolder(k)
    BY <1>a DEF KeyHolder
  <2> QED
    BY <1>a, <2>1, RequestAssumption DEF CreateInv, Taken
<1>3. CreateCourse'
  BY <1>a DEF CreateInv, CreateCourse
<1> QED
  BY <1>1, <1>2, <1>3 DEF CreateInv

\* Refusals and failures.
LEMMA GiveUpStep ==
  ASSUME CreateInv, NEW q \in Request,
         Refuse(q) \/ FailCreate(q) \/ (LookupAgain(q) /\ ~Live(KeyOf[q]))
  PROVE  CreateInv'
<1>1. place[q] # "done" /\ UNCHANGED <<now, records, attempt>>
      /\ \E kind \in {"refused", "failed"} : Respond(q, Promise!Reply(kind, Nobody))
  BY DEF Refuse, FailCreate, LookupAgain
<1>2. \A kind \in {"refused", "failed"} :
        Promise!Reply(kind, Nobody) \in Promise!Answers /\ Promise!Reply(kind, Nobody).kind # "replayed"
  BY DEF Promise!Reply, Promise!Answers
<1> QED
  BY <1>1, <1>2, EndStep

-----------------------------------------------------------------------------
(* The transaction commits. *)

\* What the commit relies on: the key stands for nobody else any more.
LEMMA KeyIsFree ==
  ASSUME CreateInv, NEW q \in Request, place[q] = "claimed"
  PROVE  /\ KeyOf[q] \in Key /\ q \notin widgets /\ claimedAt[q] <= now
         /\ \A w \in widgets : KeyOf[w] = KeyOf[q] => stamp[w] <= claimedAt[q] /\ stamp[w] <= now
         /\ claims[KeyOf[q]] # NoClaim => claims[KeyOf[q]].expires <= now
<1>1. KeyOf[q] \in Key /\ q \notin widgets /\ claimedAt[q] <= now
  BY RequestAssumption DEF CreateInv, CreateCourse
<1>2. \A w \in widgets : KeyOf[w] = KeyOf[q] => stamp[w] <= claimedAt[q]
  BY DEF CreateInv, Taken
<1>3. now \in Nat /\ claimedAt[q] \in Nat /\ \A w \in widgets : stamp[w] \in Nat
  BY ClockAssumption DEF CreateInv, CreateTypeOK, Times
<1>4. \A w \in widgets : KeyOf[w] = KeyOf[q] => stamp[w] <= now
  BY <1>1, <1>2, <1>3
<1>5. claims[KeyOf[q]] # NoClaim => claims[KeyOf[q]].expires <= now
  BY <1>1, <1>4 DEF CreateInv, ClaimsStand
<1> QED
  BY <1>1, <1>2, <1>4, <1>5

LEMMA CommitStep ==
  ASSUME CreateInv, NEW q \in Request, CommitCreate(q) \/ CreateUnheard(q)
  PROVE  CreateInv'
<1> USE RequestAssumption DEF CommitCreate, CreateUnheard, ApplyCreate, Respond, attempt, Claim
<1>a. /\ place[q] = "claimed" /\ UNCHANGED <<now, began, stamp, claimedAt>>
      /\ widgets' = widgets \cup {q} /\ announced' = announced \cup {q}
      /\ place' \in [Request -> CreatePlaces] /\ place'[q] = "done"
      /\ response' \in [Request -> Promise!Answers]
      /\ response'[q].kind # "replayed"
      /\ \A p \in Request : p # q => place'[p] = place[p] /\ response'[p] = response[p]
  BY DEF CreateInv, CreateTypeOK, CreatePlaces, Promise!Reply, Promise!Answers
<1>b. /\ KeyOf[q] \in Key /\ q \notin widgets /\ claimedAt[q] <= now
      /\ \A w \in widgets : KeyOf[w] = KeyOf[q] => stamp[w] <= claimedAt[q] /\ stamp[w] <= now
  BY <1>a, KeyIsFree
<1>c. /\ claims'[KeyOf[q]] = Claim(q) /\ Claim(q) # NoClaim
      /\ \A k \in Key : k # KeyOf[q] => claims'[k] = claims[k]
  BY <1>a, <1>b DEF CreateInv, CreateTypeOK, NoClaim
<1>1. CreateTypeOK'
  <2>1. claims' \in [Key -> {NoClaim} \cup
          {[widget |-> p, hash |-> HashOf[p], expires |-> t] : p \in Request, t \in Times}]
    BY <1>a, <1>b DEF CreateInv, CreateTypeOK
  <2> QED
    BY <1>a, <2>1 DEF CreateInv, CreateTypeOK
<1>2. ClaimsStand'
  BY <1>a, <1>c DEF CreateInv, ClaimsStand
<1>3. Outlived'
  <2> SUFFICES ASSUME NEW w \in widgets'
               PROVE  claims'[KeyOf[w]].widget = w \/ stamp[w] <= now
    BY <1>a DEF Outlived
  <2>1. w \in Request /\ KeyOf[w] \in Key
    BY <1>a DEF CreateInv, CreateTypeOK
  <2>2. CASE w = q
    BY <2>2, <1>c
  <2>3. CASE w # q /\ KeyOf[w] = KeyOf[q]
    BY <2>3, <1>a, <1>b
  <2>4. CASE KeyOf[w] # KeyOf[q]
    BY <2>1, <2>4, <1>a, <1>c DEF CreateInv, Outlived
  <2> QED
    BY <2>2, <2>3, <2>4
<1>4. Taken'
  <2> SUFFICES ASSUME NEW p \in Request, place'[p] = "claimed"
               PROVE  /\ KeyHolder(KeyOf[p])' = {p}
                      /\ \A w \in widgets' : KeyOf[w] = KeyOf[p] => stamp[w] <= claimedAt[p]
    BY <1>a DEF Taken
  <2>1. place[p] = "claimed" /\ p # q
    BY <1>a
  <2>2. /\ KeyHolder(KeyOf[p]) = {p}
        /\ \A w \in widgets : KeyOf[w] = KeyOf[p] => stamp[w] <= claimedAt[p]
    BY <2>1 DEF CreateInv, Taken
  <2>3. KeyOf[q] # KeyOf[p]
    BY <1>a, <2>1, <2>2 DEF KeyHolder
  <2>4. KeyHolder(KeyOf[p])' = {p}
    BY <1>a, <2>1, <2>2 DEF KeyHolder
  <2> QED
    BY <1>a, <2>2, <2>3, <2>4
<1>5. CreateCourse'
  BY <1>a DEF CreateInv, CreateCourse
<1>6. OneWidgetPerClaim'
  <2>1. \A w \in widgets : KeyOf[w] = KeyOf[q] => stamp[w] <= claimedAt[q]
    BY <1>b
  <2> QED
    BY <1>a, <2>1 DEF CreateInv, OneWidgetPerClaim
<1>7. AllOrNothing'
  BY <1>a, <1>c DEF CreateInv, AllOrNothing, Claim
<1>8. ReplayTrue'
  BY <1>a DEF CreateInv, ReplayTrue
<1> QED
  BY <1>1, <1>2, <1>3, <1>4, <1>5, <1>6, <1>7, <1>8 DEF CreateInv

-----------------------------------------------------------------------------
(* The purge and the clock. *)

LEMMA PurgeStep == CreateInv /\ PurgeExpired => CreateInv'
<1> SUFFICES ASSUME CreateInv, PurgeExpired PROVE CreateInv'
  OBVIOUS
<1> USE RequestAssumption DEF attempt
<1>1. PICK S \in SUBSET {k \in Key : claims[k] # NoClaim /\ claims[k].expires <= now
                                      /\ KeyHolder(k) = {}} :
        claims' = [k \in Key |-> IF k \in S THEN NoClaim ELSE claims[k]]
  BY DEF PurgeExpired
<1>2. UNCHANGED <<now, widgets, announced, place, attempt, response>>
  BY DEF PurgeExpired
<1>3. CreateTypeOK'
  BY <1>1, <1>2 DEF CreateInv, CreateTypeOK
<1>4. ClaimsStand' /\ AllOrNothing'
  BY <1>1, <1>2 DEF CreateInv, ClaimsStand, AllOrNothing
<1>5. Outlived'
  <2> SUFFICES ASSUME NEW w \in widgets, ~(stamp[w] <= now)
               PROVE  claims'[KeyOf[w]].widget = w
    BY <1>2 DEF Outlived
  <2>1. w \in Request /\ KeyOf[w] \in Key /\ stamp[w] \in Nat /\ now \in Nat
    BY ClockAssumption DEF CreateInv, CreateTypeOK, Times
  <2>2. claims[KeyOf[w]].widget = w
    BY <2>1 DEF CreateInv, Outlived
  <2>3. claims[KeyOf[w]] # NoClaim
    BY <2>1, <2>2 DEF NoClaim
  <2>4. claims[KeyOf[w]].expires = stamp[w]
    BY <2>1, <2>2, <2>3 DEF CreateInv, ClaimsStand
  <2>5. KeyOf[w] \notin S
    BY <2>1, <2>4
  <2> QED
    BY <1>1, <2>1, <2>2, <2>5
<1>6. Taken' /\ CreateCourse' /\ OneWidgetPerClaim' /\ ReplayTrue'
  BY <1>2 DEF CreateInv, Taken, KeyHolder, CreateCourse, OneWidgetPerClaim, ReplayTrue
<1> QED
  BY <1>3, <1>4, <1>5, <1>6 DEF CreateInv

LEMMA TickStep == CreateInv /\ Tick => CreateInv'
<1> SUFFICES ASSUME CreateInv, Tick PROVE CreateInv'
  OBVIOUS
<1> USE ClockAssumption DEF Tick, records, attempt
<1>1. CreateTypeOK'
  BY DEF CreateInv, CreateTypeOK
<1>2. Outlived'
  <2>1. now \in Nat /\ now' = now + 1 /\ \A w \in widgets : stamp[w] \in Nat
    BY DEF CreateInv, CreateTypeOK, Times
  <2> QED
    BY <2>1 DEF CreateInv, Outlived
<1>3. CreateCourse'
  <2>1. now \in Nat /\ now' = now + 1 /\ \A q \in Request : began[q] \in Nat /\ claimedAt[q] \in Nat
    BY DEF CreateInv, CreateTypeOK, Times
  <2> QED
    BY <2>1 DEF CreateInv, CreateCourse
<1>4. ClaimsStand' /\ Taken' /\ OneWidgetPerClaim' /\ AllOrNothing' /\ ReplayTrue'
  BY DEF CreateInv, ClaimsStand, Taken, KeyHolder, OneWidgetPerClaim, AllOrNothing, ReplayTrue
<1> QED
  BY <1>1, <1>2, <1>3, <1>4 DEF CreateInv

LEMMA NextIInv == CreateInv /\ [CreateNext]_createVars => CreateInv'
<1> SUFFICES ASSUME CreateInv, [CreateNext]_createVars PROVE CreateInv'
  OBVIOUS
<1>1. ASSUME NEW q \in Request, ServeCreate(q) \/ FailCreate(q) PROVE CreateInv'
  <2>1. CASE InsertWidget(q) \/ Stamp(q) \/ Put(q)
    BY <2>1, QuietStep
  <2>2. CASE Lookup(q) \/ LookupAgain(q)
    BY <2>2, LookupStep, MissStep, GiveUpStep
  <2>3. CASE Refuse(q) \/ FailCreate(q)
    BY <2>3, GiveUpStep
  <2>4. CASE CommitCreate(q) \/ CreateUnheard(q)
    BY <2>4, CommitStep
  <2> QED
    BY <1>1, <2>1, <2>2, <2>3, <2>4 DEF ServeCreate
<1>2. CASE UNCHANGED createVars
  BY <1>2 DEF createVars, records, attempt, CreateInv, CreateTypeOK, ClaimsStand, Outlived, Taken, KeyHolder, CreateCourse,
              OneWidgetPerClaim, AllOrNothing, ReplayTrue
<1> QED
  BY <1>1, <1>2, PurgeStep, TickStep DEF CreateNext

-----------------------------------------------------------------------------
\* Every reachable state satisfies the invariant.
THEOREM Invariance == CreateSpec => []CreateInv
BY InitIInv, NextIInv, PTL DEF CreateSpec

\* Every variable keeps its type, and a claim carries the fingerprint of the
\* request that made it (Put).
THEOREM TypeCorrect == CreateSpec => []CreateTypeOK
BY Invariance, PTL DEF CreateInv

\* However requests with one key interleave, a second widget is claimed only after
\* the first one's claim has run out (PutIdempotencyKey).
THEOREM OnePerClaim == CreateSpec => []OneWidgetPerClaim
BY Invariance, PTL DEF CreateInv

\* Widget, event and claim exist together or not at all (CreateIdempotent).
THEOREM NothingByHalves == CreateSpec => []AllOrNothing
BY Invariance, PTL DEF CreateInv

\* A replay shows what another request with the same key and body created
\* (maybeReplay).
THEOREM TrueReplays == CreateSpec => []ReplayTrue
BY Invariance, PTL DEF CreateInv

\* A request that lost the race is answered with what won, or with a conflict,
\* unless no claim on its key is live any more (createIdempotent).
THEOREM LosersAreTold == CreateSpec => LosersReplay
<1> DEFINE Told(q) ==
      place[q] = "reserved" /\ LookupAgain(q) =>
         \/ response'[q].kind \in {"replayed", "conflict"}
         \/ \A w \in widgets : KeyOf[w] = KeyOf[q] => stamp[w] <= now
<1>1. ASSUME CreateInv, NEW q \in Request, LookupAgain(q)
      PROVE  \/ response'[q].kind \in {"replayed", "conflict"}
             \/ \A w \in widgets : KeyOf[w] = KeyOf[q] => stamp[w] <= now
  <2>1. CASE Live(KeyOf[q])
    <3>1. response'[q] = LookupAnswer(q)
      BY <1>1, <2>1 DEF LookupAgain, Respond, CreateInv, CreateTypeOK
    <3> QED
      BY <3>1 DEF LookupAnswer, Promise!Reply
  <2>2. CASE ~Live(KeyOf[q])
    <3> SUFFICES ASSUME NEW w \in widgets, KeyOf[w] = KeyOf[q] PROVE stamp[w] <= now
      OBVIOUS
    <3>1. w \in Request /\ KeyOf[w] \in Key /\ now \in Nat /\ stamp[w] \in Nat
      BY <1>1, RequestAssumption, ClockAssumption DEF CreateInv, CreateTypeOK, Times
    <3>2. CASE claims[KeyOf[w]].widget = w
      <4>1. claims[KeyOf[w]] # NoClaim
        BY <3>1, <3>2, RequestAssumption DEF NoClaim
      <4>2. claims[KeyOf[w]].expires = stamp[w]
        BY <1>1, <3>1, <3>2, <4>1 DEF CreateInv, ClaimsStand
      <4> QED
        BY <2>2, <3>1, <4>1, <4>2 DEF Live
    <3>3. CASE claims[KeyOf[w]].widget # w
      BY <1>1, <3>3 DEF CreateInv, Outlived
    <3> QED
      BY <3>2, <3>3
  <2> QED
    BY <2>1, <2>2
<1>2. CreateInv /\ [CreateNext]_createVars => [\A q \in Request : Told(q)]_createVars
  BY <1>1
<1> QED
  BY <1>2, Invariance, PTL DEF CreateSpec, LosersReplay

-----------------------------------------------------------------------------
(* The refinement of OncePerKey. *)

Granted == [k \in Key |-> IF claims[k].expires > now THEN claims[k].widget ELSE Nobody]

\* A request is told what its key stands for, or that it failed, and the store
\* stays as it is.
LEMMA TellMaps ==
  ASSUME CreateInv, NEW q \in Request,
         Refuse(q) \/ Lookup(q) \/ LookupAgain(q) \/ FailCreate(q)
  PROVE  Promise!Next \/ UNCHANGED <<Granted, widgets, response>>
<1> USE DEF Respond, records
<1>1. UNCHANGED <<Granted, widgets>>
  BY DEF Refuse, Lookup, LookupAgain, FailCreate, Granted
<1>2. CASE (Lookup(q) \/ LookupAgain(q)) /\ Live(KeyOf[q])
  <2> DEFINE w == claims[KeyOf[q]].widget
  <2>1. place[q] # "done" /\ response' = [response EXCEPT ![q] = LookupAnswer(q)]
    BY <1>2 DEF Lookup, LookupAgain
  <2>2. /\ w \in Request /\ claims[KeyOf[q]].expires > now
        /\ LookupAnswer(q) = IF HashOf[w] = HashOf[q] THEN Promise!Reply("replayed", w)
                                                    ELSE Promise!Reply("conflict", Nobody)
    BY <2>1, <1>2, LookupIsTrue
  <2>3. Granted[KeyOf[q]] = w
    BY <2>2, RequestAssumption DEF Granted
  <2>4. Promise!Pending(q)
    BY <2>1 DEF CreateInv, CreateCourse, Promise!Pending, Promise!Reply
  <2>5. Promise!Replay(q) \/ Promise!Conflict(q)
    BY <1>1, <2>1, <2>2, <2>3, <2>4
    DEF Granted, Promise!Replay, Promise!Conflict, Promise!Tell
  <2> QED
    BY <2>5 DEF Promise!Next
<1>3. CASE Lookup(q) /\ ~Live(KeyOf[q])
  BY <1>1, <1>3 DEF Lookup
<1>4. CASE Refuse(q) \/ FailCreate(q) \/ (LookupAgain(q) /\ ~Live(KeyOf[q]))
  <2>1. place[q] # "done" /\ \E kind \in {"refused", "failed"} :
          response' = [response EXCEPT ![q] = Promise!Reply(kind, Nobody)]
    BY <1>4 DEF Refuse, FailCreate, LookupAgain
  <2>2. Promise!Pending(q)
    BY <2>1 DEF CreateInv, CreateCourse, Promise!Pending, Promise!Reply
  <2>3. Promise!Refuse(q) \/ Promise!Fail(q)
    BY <1>1, <2>1, <2>2 DEF Granted, Promise!Refuse, Promise!Fail, Promise!Tell
  <2> QED
    BY <2>3 DEF Promise!Next
<1> QED
  BY <1>2, <1>3, <1>4

\* The commit of a create is the step in which the abstract one happens.
LEMMA CommitMaps ==
  ASSUME CreateInv, NEW q \in Request, CommitCreate(q) \/ CreateUnheard(q)
  PROVE  Promise!Next
<1> USE RequestAssumption DEF CommitCreate, CreateUnheard, ApplyCreate, Respond, attempt
<1>1. /\ place[q] = "claimed" /\ now' = now /\ widgets' = widgets \cup {q}
      /\ claims' = [claims EXCEPT ![KeyOf[q]] = Claim(q)]
      /\ \E reply \in {Promise!Reply("created", q), Promise!Reply("failed", Nobody)} :
           response' = [response EXCEPT ![q] = reply]
  OBVIOUS
<1>2. /\ KeyOf[q] \in Key /\ q \notin widgets
      /\ claims[KeyOf[q]] # NoClaim => claims[KeyOf[q]].expires <= now
  BY <1>1, KeyIsFree
<1>3. Promise!Pending(q)
  BY <1>1 DEF CreateInv, CreateCourse, Promise!Pending, Promise!Reply
<1>4. Granted[KeyOf[q]] = Nobody
  <2>1. CASE claims[KeyOf[q]] = NoClaim
    BY <1>2, <2>1 DEF Granted, NoClaim
  <2>2. CASE claims[KeyOf[q]] # NoClaim
    <3>1. claims[KeyOf[q]].expires \in Nat /\ now \in Nat
      BY <1>2, <2>2, ClaimCases, ClockAssumption DEF CreateInv, CreateTypeOK, Times
    <3> QED
      BY <1>2, <2>2, <3>1 DEF Granted
  <2> QED
    BY <2>1, <2>2
<1>5. \E g \in {q, Nobody} : Granted' = [Granted EXCEPT ![KeyOf[q]] = g]
  <2>1. claims'[KeyOf[q]] = Claim(q) /\ \A k \in Key : k # KeyOf[q] => claims'[k] = claims[k]
    BY <1>1, <1>2 DEF CreateInv, CreateTypeOK
  <2>2. Granted'[KeyOf[q]] \in {q, Nobody}
    BY <1>2, <2>1 DEF Granted, Claim
  <2>3. \A k \in Key : k # KeyOf[q] => Granted'[k] = Granted[k]
    BY <1>1, <2>1 DEF Granted
  <2>4. Granted' = [Granted EXCEPT ![KeyOf[q]] = Granted'[KeyOf[q]]]
    BY <2>3 DEF Granted
  <2> QED
    BY <2>2, <2>4
<1>6. Promise!Create(q)
  BY <1>1, <1>2, <1>3, <1>4, <1>5 DEF Granted, Promise!Create
<1> QED
  BY <1>6 DEF Promise!Next

\* A tick lets the grants lapse whose claims expire in it; the purge deletes
\* nothing that is granted.
LEMMA TickMaps == CreateInv /\ Tick => Promise!Next
<1> SUFFICES ASSUME CreateInv, Tick PROVE Promise!Next
  OBVIOUS
<1> DEFINE S == {k \in Key : ~(claims[k].expires > now + 1)}
<1>1. now' = now + 1 /\ UNCHANGED <<claims, widgets, response>> /\ now \in Nat
  BY ClockAssumption DEF Tick, records, CreateInv, CreateTypeOK
<1>2. \A k \in Key : claims[k].expires \in Nat
  BY ClaimCases, ClockAssumption DEF CreateInv, Times, NoClaim
<1>3. Granted' = [k \in Key |-> IF k \in S THEN Nobody ELSE Granted[k]]
  BY <1>1, <1>2 DEF Granted
<1>4. PICK T \in SUBSET Key : Granted' = [k \in Key |-> IF k \in T THEN Nobody ELSE Granted[k]]
  BY <1>3
<1>5. Promise!Lapse(T)
  BY <1>1, <1>4 DEF Granted, Promise!Lapse
<1> QED
  BY <1>5 DEF Promise!Next

LEMMA PurgeMaps == CreateInv /\ PurgeExpired => UNCHANGED <<Granted, widgets, response>>
<1> SUFFICES ASSUME CreateInv, PurgeExpired PROVE UNCHANGED <<Granted, widgets, response>>
  OBVIOUS
<1>1. PICK S \in SUBSET {k \in Key : claims[k] # NoClaim /\ claims[k].expires <= now
                                      /\ KeyHolder(k) = {}} :
        claims' = [k \in Key |-> IF k \in S THEN NoClaim ELSE claims[k]]
  BY DEF PurgeExpired
<1>2. UNCHANGED <<now, widgets, response>> /\ now \in Nat
  BY ClockAssumption DEF PurgeExpired, CreateInv, CreateTypeOK
<1>3. \A k \in Key : claims[k].expires \in Nat
  BY ClaimCases, ClockAssumption DEF CreateInv, Times, NoClaim
<1>4. ASSUME NEW k \in Key PROVE Granted'[k] = Granted[k]
  BY <1>1, <1>2, <1>3 DEF Granted, NoClaim
<1> QED
  BY <1>2, <1>4 DEF Granted

LEMMA StepMaps == CreateInv /\ [CreateNext]_createVars => [Promise!Next]_<<Granted, widgets, response>>
<1> SUFFICES ASSUME CreateInv, [CreateNext]_createVars
             PROVE  Promise!Next \/ UNCHANGED <<Granted, widgets, response>>
  OBVIOUS
<1>1. ASSUME NEW q \in Request, ServeCreate(q) \/ FailCreate(q)
      PROVE  Promise!Next \/ UNCHANGED <<Granted, widgets, response>>
  <2>1. CASE InsertWidget(q) \/ Stamp(q) \/ Put(q)
    BY <2>1 DEF InsertWidget, Stamp, Put, records, Granted
  <2>2. CASE Refuse(q) \/ Lookup(q) \/ LookupAgain(q) \/ FailCreate(q)
    BY <2>2, TellMaps
  <2>3. CASE CommitCreate(q) \/ CreateUnheard(q)
    BY <2>3, CommitMaps
  <2> QED
    BY <1>1, <2>1, <2>2, <2>3 DEF ServeCreate
<1>2. CASE UNCHANGED createVars
  BY <1>2 DEF createVars, records, Granted
<1> QED
  BY <1>1, <1>2, TickMaps, PurgeMaps DEF CreateNext

\* The creates are linearizable: seen from outside, each request is served in one
\* step of OncePerKey.
THEOREM Refinement == CreateSpec => OneStepEach
<1>1. CreateInit => Promise!Init
  BY RequestAssumption DEF CreateInit, Promise!Init, NoClaim
<1>2. CreateInv /\ [CreateNext]_createVars => [Promise!Next]_<<Granted, widgets, response>>
  BY StepMaps
<1> QED
  BY <1>1, <1>2, Invariance, PTL DEF CreateSpec, OneStepEach, Promise!Spec, Granted
=============================================================================
