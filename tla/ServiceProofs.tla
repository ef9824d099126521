---------------------------- MODULE ServiceProofs ----------------------------
(***************************************************************************)
(* Proofs about the parts of the server that keep little state: what the   *)
(* reapers' purges select they may delete (Maintenance); a client has its  *)
(* bucket, no more of it and no less (RateLimit); the router's answer is   *)
(* the right one (Pipeline); a row key tells caller and key apart          *)
(* (RowKey).                                                               *)
(***************************************************************************)
EXTENDS Maintenance, RateLimit, Pipeline, RowKey, SequenceTheorems, WellFoundedInduction,
        TLAPS

-----------------------------------------------------------------------------
(* The reapers *)

\* A purge only knows rows past the retention, and selects among them: what is past
\* the retention stays so until it is deleted, and is then taken from every purge.
Known ==
  \A r \in Reaper :
    /\ rows[r] \subseteq due[r]
    /\ \A m \in due[r] : row[m] = Old

IInv == ReapTypeOK /\ Known

LEMMA Codes ==
  /\ Free \in Free..Old /\ Queued \in Free..Old /\ Old \in Free..Old /\ None \in None..TTL
  /\ Free # Old /\ Queued # Old
BY PeriodAssumption DEF Free, Queued, Old, None

LEMMA FaultCounts ==
  ASSUME ReapTypeOK, Fault \/ UNCHANGED faults
  PROVE  faults' \in 0..MaxFaults
<1>1. faults \in 0..MaxFaults
  BY DEF ReapTypeOK
<1> QED
  BY <1>1, FaultAssumption DEF Fault

LEMMA InitIInv == ReapInit => IInv
<1> SUFFICES ASSUME ReapInit PROVE IInv
  OBVIOUS
<1> USE PeriodAssumption DEF ReapInit
<1>1. row \in [Row -> Free..Old] /\ claim \in [Key -> None..TTL] /\ broken \subseteq Tasks
  BY DEF Free, Old, None
<1>2. pc \in [Reaper -> Places] /\ sleep \in [Reaper -> 0..Interval] /\ told \subseteq Reaper
  BY DEF Places
<1>3. /\ due \in [Reaper -> SUBSET Row] /\ rows \in [Reaper -> SUBSET Row]
      /\ keys \in [Reaper -> SUBSET Key] /\ faults \in 0..MaxFaults
  BY FaultAssumption
<1>4. Known
  BY DEF Known
<1> QED
  BY <1>1, <1>2, <1>3, <1>4 DEF IInv, ReapTypeOK

LEMMA WritersStep ==
  ASSUME IInv,
         \/ \E m \in Row : Enqueue(m) \/ MarkPublished(m)
         \/ \E k \in Key : PutClaim(k)
         \/ ReapTick
  PROVE  IInv'
<1> USE PeriodAssumption DEF IInv, ReapTypeOK, Known, Free, Queued, Old, None
<1>1. CASE \E m \in Row : Enqueue(m) \/ MarkPublished(m)
  BY <1>1 DEF Enqueue, MarkPublished, local
<1>2. CASE \E k \in Key : PutClaim(k)
  BY <1>2 DEF PutClaim, local
<1>3. CASE ReapTick
  BY <1>3 DEF ReapTick, Aged
<1> QED
  BY <1>1, <1>2, <1>3

\* Steps of a round that delete nothing.
LEMMA RoundStep ==
  ASSUME IInv, NEW r \in Reaper,
         \/ Start(r) \/ SelectKeys(r) \/ KeysFail(r) \/ SelectRows(r) \/ RowsFail(r)
         \/ NextRound(r)
  PROVE  IInv'
<1>1. faults' \in 0..MaxFaults
  BY FaultCounts DEF IInv, Start, SelectKeys, KeysFail, SelectRows, RowsFail, NextRound
<1> USE DEF IInv, ReapTypeOK, Known, Places, Go, tables, local
<1>2. CASE Start(r) \/ SelectKeys(r) \/ NextRound(r)
  BY <1>1, <1>2 DEF Start, SelectKeys, NextRound
<1>3. CASE KeysFail(r)
  BY <1>1, <1>3 DEF KeysFail, BeginRows
<1>4. CASE SelectRows(r)
  <2>1. PICK S \in SUBSET due[r] : rows' = [rows EXCEPT ![r] = S]
    BY <1>4 DEF SelectRows, Candidates
  <2>2. rows' \in [Reaper -> SUBSET Row] /\ \A s \in Reaper : rows'[s] \subseteq due[s]
    BY <2>1
  <2>3. pc' \in [Reaper -> Places]
    BY <1>4 DEF SelectRows
  <2> QED
    BY <1>1, <1>4, <2>2, <2>3 DEF SelectRows
<1>5. CASE RowsFail(r)
  <2>1. pc' \in [Reaper -> Places]
    BY <1>5 DEF RowsFail, EndRound
  <2>2. sleep' \in [Reaper -> 0..Interval]
    BY <1>5 DEF RowsFail, Rearm
  <2>3. rows' \in [Reaper -> SUBSET Row] /\ due' \in [Reaper -> SUBSET Row] /\ Known'
    BY <1>5 DEF RowsFail, EndRound
  <2> QED
    BY <1>1, <1>5, <2>1, <2>2, <2>3 DEF RowsFail
<1> QED
  BY <1>2, <1>3, <1>4, <1>5

LEMMA DeleteStep ==
  ASSUME IInv, NEW r \in Reaper, DeleteKeys(r) \/ DeleteRows(r)
  PROVE  IInv'
<1> USE PeriodAssumption, FaultAssumption DEF IInv, ReapTypeOK, Known, Places
<1>1. CASE DeleteKeys(r)
  <2>1. /\ pc' \in [Reaper -> Places] /\ keys' \in [Reaper -> SUBSET Key]
    BY <1>1 DEF DeleteKeys, Go
  <2>2. claim' \in [Key -> None..TTL]
    <3>1. claim' = [k \in Key |-> IF k \in keys[r] /\ Expired(k) THEN None ELSE claim[k]]
      BY <1>1 DEF DeleteKeys
    <3> QED
      BY <3>1, Codes
  <2>3. due' \in [Reaper -> SUBSET Row] /\ Known'
    BY <1>1 DEF DeleteKeys, BeginRows
  <2> QED
    BY <1>1, <2>1, <2>2, <2>3 DEF DeleteKeys, local
<1>2. CASE DeleteRows(r)
  <2>1. row' = [m \in Row |-> IF m \in rows[r] THEN Free ELSE row[m]]
    BY <1>2 DEF DeleteRows
  <2>2. rows' = [s \in Reaper |-> rows[s] \ rows[r]]
    BY <1>2 DEF DeleteRows
  <2>3. \/ due' = [s \in Reaper |-> due[s] \ rows[r]]
        \/ due' = [s \in Reaper |-> IF s = r THEN {} ELSE due[s] \ rows[r]]
    BY <1>2 DEF DeleteRows
  <2>4. pc' \in [Reaper -> Places] /\ sleep' \in [Reaper -> 0..Interval]
    BY <1>2 DEF DeleteRows, Rearm
  <2>5. row' \in [Row -> Free..Old]
    BY <2>1, Codes
  <2>6. rows' \in [Reaper -> SUBSET Row] /\ due' \in [Reaper -> SUBSET Row]
    BY <2>2, <2>3
  <2>7. rows'[r] = {}
    BY <2>2
  <2>8. \A s \in Reaper : rows'[s] \subseteq due'[s] /\ \A m \in due'[s] : row'[m] = Old
    <3> TAKE s \in Reaper
    <3>1. /\ rows'[s] = rows[s] \ rows[r]
          /\ \/ due'[s] = due[s] \ rows[r]
             \/ s = r /\ due'[s] = {}
      BY <2>2, <2>3
    <3>2. rows[s] \subseteq due[s] /\ due[s] \subseteq Row /\ \A m \in due[s] : row[m] = Old
      OBVIOUS
    <3>3. \A m \in Row \ rows[r] : row'[m] = row[m]
      BY <2>1
    <3> QED
      BY <2>7, <3>1, <3>2, <3>3
  <2> QED
    BY <1>2, <2>4, <2>5, <2>6, <2>8 DEF DeleteRows
<1> QED
  BY <1>1, <1>2

LEMMA InstanceStep ==
  ASSUME IInv, NEW r \in Reaper, Stop(r) \/ Cancel(r) \/ Crash(r) \/ Restart(r)
  PROVE  IInv'
<1>1. faults' \in 0..MaxFaults
  BY FaultCounts DEF IInv, Stop, Cancel, Crash, Restart
<1> USE DEF IInv, ReapTypeOK, Known, Places, Go, tables, local
<1>2. CASE Stop(r) \/ Restart(r)
  BY <1>1, <1>2 DEF Stop, Restart
<1>3. CASE Cancel(r)
  BY <1>1, <1>3 DEF Cancel
<1>4. CASE Crash(r)
  BY <1>1, <1>4 DEF Crash
<1> QED
  BY <1>2, <1>3, <1>4

\* Every reachable state has the types of the tables and knows only dead rows.
THEOREM Invariance == ReapSpec => []IInv
<1>1. IInv /\ [ReapNext]_reapVars => IInv'
  <2> SUFFICES ASSUME IInv, [ReapNext]_reapVars PROVE IInv'
    OBVIOUS
  <2>1. CASE UNCHANGED reapVars
    BY <2>1 DEF IInv, ReapTypeOK, Known, reapVars, tables, local
  <2> QED
    BY <2>1, WritersStep, RoundStep, DeleteStep, InstanceStep DEF ReapNext, ReapStep
<1> QED
  BY InitIInv, <1>1, PTL DEF ReapSpec

\* The variables of the maintenance model keep their types.
THEOREM TypeCorrect == ReapSpec => []ReapTypeOK
BY Invariance, PTL DEF IInv

\* A purge deletes rows that are past the retention and claims that have expired,
\* and nothing else, whatever happens between its selection and its deletion.
THEOREM DeadOnly == ReapSpec => OnlyTheDead
<1> DEFINE
      Dead(m)   == row[m] # row'[m] /\ row'[m] = Free => row[m] = Old
      Lapsed(k) == claim[k] # claim'[k] /\ claim'[k] = None => Expired(k)
<1>1. ASSUME IInv, ReapNext, NEW m \in Row PROVE Dead(m)
  <2> USE <1>1, PeriodAssumption DEF IInv, ReapTypeOK, Free, Queued, Old
  <2>1. CASE \E r \in Reaper : DeleteRows(r)
    BY <2>1 DEF DeleteRows, Known
  <2>2. CASE \E n \in Row : Enqueue(n) \/ MarkPublished(n)
    BY <2>2 DEF Enqueue, MarkPublished
  <2>3. CASE ReapTick
    BY <2>3 DEF ReapTick, Aged
  <2>4. CASE row' = row
    BY <2>4
  <2> QED
    BY <2>1, <2>2, <2>3, <2>4 DEF ReapNext, ReapStep, Start, SelectKeys, DeleteKeys, KeysFail,
       SelectRows, RowsFail, NextRound, Stop, Cancel, Crash, Restart, PutClaim, tables
<1>2. ASSUME IInv, ReapNext, NEW k \in Key PROVE Lapsed(k)
  <2> USE <1>2, PeriodAssumption DEF IInv, ReapTypeOK, None, Expired
  <2>1. CASE \E r \in Reaper : DeleteKeys(r)
    BY <2>1 DEF DeleteKeys
  <2>2. CASE \E j \in Key : PutClaim(j)
    BY <2>2 DEF PutClaim
  <2>3. CASE ReapTick
    BY <2>3 DEF ReapTick
  <2>4. CASE claim' = claim
    BY <2>4
  <2> QED
    BY <2>1, <2>2, <2>3, <2>4 DEF ReapNext, ReapStep, Start, SelectKeys, DeleteRows, KeysFail,
       SelectRows, RowsFail, NextRound, Stop, Cancel, Crash, Restart, Enqueue,
       MarkPublished, tables
<1>3. IInv /\ [ReapNext]_reapVars =>
        [/\ \A m \in Row : Dead(m)
         /\ \A k \in Key : Lapsed(k)]_reapVars
  BY <1>1, <1>2
<1> QED
  BY Invariance, <1>3, PTL DEF ReapSpec, OnlyTheDead

-----------------------------------------------------------------------------
(* The rate limiter *)

Waiting == {q \in Request : phase[q] = "waiting"}

\* Limiter n may be asked about a request of key k, now or later.
Serves(n, k) == entry[k] = n \/ \E q \in Waiting : got[q] = n /\ key[q] = k

\* A limiter serves one key only, and is made by a request that came.
Owned ==
  /\ \A q \in Waiting : key[q] \in Keys /\ got[q] \in Request
  /\ \A n \in Request, j, k \in Keys : Serves(n, j) /\ Serves(n, k) => j = k
  /\ \A n \in Request, k \in Keys : Serves(n, k) => bucket[n] # Nil
  /\ \A n \in Request : bucket[n] # Nil => phase[n] # "new" /\ bucket[n].last <= now

Attributed ==
  \A q \in Waiting :
    sender[q] \in Sender /\ (~IsTrusted(sender[q]) => key[q] = KeyOf(sender[q]))

\* No entry was idle at the last sweep; a request that lost its entry is late.
Recent ==
  /\ lastSweep <= now
  /\ \A k \in Keys : entry[k] # Nil => seen[k] <= now /\ lastSweep <= seen[k] + IdleAfter
  /\ \A q \in Waiting :
       /\ since[q] <= now
       /\ IF got[q] = entry[key[q]] THEN since[q] <= seen[key[q]]
                                   ELSE since[q] + IdleAfter < now

\* Requests of k admitted since the i-th.
Since(k, i) == Len(admitted[k]) - i + 1

\* What k has to spend, and the last time at which it spent some in time.
Tokens(k)  == IF entry[k] = Nil THEN Burst ELSE Level(bucket[entry[k]])
Horizon(k) == IF entry[k] = Nil \/ now < seen[k] + Stall THEN now ELSE seen[k] + Stall

\* Tokens gained in d ticks.
Gain(d) == Rate * d

\* c requests were admitted since time t, l of them late, and x tokens are left at
\* time at: they have been there or were gained since, and those spent in time by h.
Fits(c, t, l, x, h, at) ==
  /\ t <= at /\ h <= at
  /\ c + x <= Burst + Gain(at - t) + l
  /\ c <= l \/ (t <= h /\ c <= Burst + Gain(h - t) + l)

Spent ==
  \A k \in Keys : \A i \in DOMAIN admitted[k] :
    Fits(Since(k, i), admitted[k][i], late[k], Tokens(k), Horizon(k), now)

\* Tokens missing from a limiter were spent by requests of its key.
Charged(n, k) ==
  \/ bucket[n].tokens = Burst
  \/ \E i \in DOMAIN admitted[k] :
       Since(k, i) + bucket[n].tokens >= Burst + Rate * (bucket[n].last - admitted[k][i])

LimitInv ==
  /\ LimitTypeOK /\ Owned /\ Attributed /\ Recent
  /\ \A n \in Request, k \in Keys : Serves(n, k) => Charged(n, k)
  /\ Refills => Spent /\ WithinRate

-----------------------------------------------------------------------------
(* Addresses *)

\* A set of natural numbers that is not empty has a least one.
LEMMA LeastNatural ==
  ASSUME NEW S \in SUBSET Nat, S # {}
  PROVE  \E v \in S : \A n \in S : v <= n
<1>1. PICK v \in S : \A n \in S : <<n, v>> \notin OpToRel(<, Nat)
  BY WFMin, NatLessThanWellFounded
<1>2. ASSUME NEW n \in S PROVE v <= n
  <2>1. n \in Nat /\ v \in Nat
    OBVIOUS
  <2>2. n < v => <<n, v>> \in OpToRel(<, Nat)
    BY <2>1 DEF OpToRel
  <2>3. ~(n < v)
    BY <1>1, <2>2
  <2> QED
    BY <2>1, <2>3
<1> QED
  BY <1>2

LEMMA GreatestPlace ==
  ASSUME NEW n \in Nat, NEW S \in SUBSET 1..n, S # {}
  PROVE  \E v \in S : \A i \in S : i <= v
<1> DEFINE T == {n - i : i \in S}
<1>0. \A i \in S : i \in Nat /\ n - i \in Nat
  OBVIOUS
<1>1. T \in SUBSET Nat /\ T # {}
  BY <1>0
<1>2. PICK d \in T : \A m \in T : d <= m
  BY <1>1, LeastNatural
<1>3. PICK v \in S : d = n - v
  BY <1>2
<1>4. \A i \in S : n - v <= n - i
  BY <1>2, <1>3
<1> QED
  BY <1>4

LEMMA UnmapTwice ==
  ASSUME NEW a \in Address
  PROVE  /\ Unmap(a) \in Address /\ Unmap(Unmap(a)) = Unmap(a)
         /\ KeyOf(Unmap(a)) = KeyOf(a) /\ IsTrusted(Unmap(a)) = IsTrusted(a)
BY DEF Address, Unmap, KeyOf, IsTrusted

\* Two addresses have one key exactly if they are one client.
LEMMA KeysTellClients ==
  ASSUME NEW a \in Address, NEW b \in Address
  PROVE  KeyOf(a) = KeyOf(b) <=> SameClient(a, b)
<1>1. CASE Unmap(a).form = "v6" /\ Unmap(b).form = "v6"
  <2>1. a.form = "v6" /\ b.form = "v6" /\ Unmap(a) = a /\ Unmap(b) = b
    BY <1>1 DEF Address, Unmap
  <2>2. KeyOf(a) = [form |-> "v6", net |-> a.net, host |-> 0]
        /\ KeyOf(b) = [form |-> "v6", net |-> b.net, host |-> 0]
    BY <2>1 DEF KeyOf
  <2> QED
    BY <2>1, <2>2 DEF SameClient
<1>2. CASE Unmap(a).form # "v6" \/ Unmap(b).form # "v6"
  <2>1. ~(a.form = "v6" /\ b.form = "v6")
    BY <1>2 DEF Address, Unmap
  <2>2. Unmap(a).form = KeyOf(a).form /\ Unmap(b).form = KeyOf(b).form
    BY DEF KeyOf
  <2>3. KeyOf(a) = KeyOf(b) <=> Unmap(a) = Unmap(b)
    BY <1>2, <2>2 DEF KeyOf
  <2> QED
    BY <2>1, <2>3 DEF SameClient
<1> QED
  BY <1>1, <1>2

\* What RealIP attributes a request to has a key, and behind trusted proxies it is
\* its sender, unless that is trusted itself, whatever the sender put into the header.
LEMMA RealIPSender ==
  ASSUME NEW s \in Sender, NEW h \in Forged, NEW route \in Routes
  PROVE  LET client == RealIP(Peer(s, route), Header(s, h, route)) IN
           KeyOf(client) \in Keys /\ (~IsTrusted(s) => KeyOf(client) = KeyOf(s))
<1> DEFINE peer   == Peer(s, route)
           hops   == Header(s, h, route)
           S      == Stops(hops)
           client == RealIP(peer, hops)
           n      == Len(h) + Len(route)
<1> SUFFICES KeyOf(client) \in Keys /\ (~IsTrusted(s) => KeyOf(client) = KeyOf(s))
  OBVIOUS
<1>0. /\ route \in Seq(Proxy) /\ h \in Seq(Address \cup {Nil}) /\ s \in Address /\ s # Nil
      /\ \A i \in 1..Len(route) : IsTrusted(route[i]) /\ route[i] \in Proxy
      /\ Len(h) \in Nat /\ Len(route) \in Nat
  <2>1. route \in Seq({p \in Proxy : IsTrusted(p)}) /\ h \in Seq(Address \cup {Nil})
        /\ s \in Address /\ s # Nil
    BY RouteAssumption, AddressAssumption
  <2>2. \A i \in 1..Len(route) : route[i] \in {p \in Proxy : IsTrusted(p)}
    BY <2>1
  <2>3. Len(h) \in Nat /\ Len(route) \in Nat
    BY <2>1
  <2>4. route \in Seq(Proxy)
    BY <2>1, <2>2
  <2> QED
    BY <2>1, <2>2, <2>3, <2>4
<1>u. \A x : x \in Hops <=> x # Nil /\ \E f \in Forged : \E i \in DOMAIN f : x = f[i]
  <2>1. \A x : x \in Hops <=> x # Nil /\ \E f \in Forged : x \in Listed(f)
    <3>1. \A G, x : x \in UNION G <=> \E g \in G : x \in g
      OBVIOUS
    <3>2. \A x : x \in UNION {Listed(f) : f \in Forged} <=> \E f \in Forged : x \in Listed(f)
      BY ONLY <3>1
    <3> QED
      BY ONLY <3>2 DEF Hops
  <2> QED
    BY <2>1 DEF Listed
<1>h. \A i \in 1..Len(h) : h[i] \in Address \cup {Nil} /\ (h[i] # Nil => h[i] \in Hops)
  <2>1. \A i \in 1..Len(h) : h[i] \in Address \cup {Nil} /\ i \in DOMAIN h
    BY <1>0
  <2> QED
    BY <2>1, <1>u
<1>1. ASSUME NEW a \in Sender \cup Proxy \cup Hops
      PROVE  a \in Address /\ KeyOf(a) \in Keys /\ KeyOf(Unmap(a)) \in Keys
             /\ KeyOf(Unmap(a)) = KeyOf(a)
  <2>1. Hops \subseteq Address
    <3>1. ASSUME NEW f \in Forged, NEW i \in DOMAIN f PROVE f[i] \in Address \cup {Nil}
      <4>1. f \in Seq(Address \cup {Nil})
        BY AddressAssumption
      <4> QED
        BY <4>1
    <3> QED
      BY <3>1, <1>u
  <2>2. a \in Address
    BY <2>1, AddressAssumption
  <2> QED
    BY <2>2, UnmapTwice DEF Keys
<1>2. CASE route = <<>>
  <2>1. peer = s /\ hops = h
    BY <1>2 DEF Peer, Header
  <2>c. client = IF IsTrusted(s) THEN ForwardedClient(Unmap(s), h) ELSE s
    BY <2>1 DEF RealIP
  <2>s. S = Stops(h)
    BY <2>1
  <2> HIDE DEF client, S
  <2>2. CASE ~IsTrusted(s)
    BY <1>1, <2>c, <2>2
  <2>3. CASE IsTrusted(s) /\ S = {}
    <3>1. client = Unmap(s)
      BY <2>c, <2>s, <2>3 DEF ForwardedClient
    <3> QED
      BY <1>1, <2>3, <3>1
  <2>4. CASE IsTrusted(s) /\ S # {}
    <3>1. S \in SUBSET 1..Len(h)
      BY <1>0, <2>s DEF Stops
    <3>2. \E i \in S : \A j \in S : j <= i
      BY <1>0, <2>4, <3>1, GreatestPlace
    <3>3. PICK i \in S : client = IF h[i] = Nil THEN Unmap(s) ELSE Unmap(h[i])
      BY <2>c, <2>s, <2>4, <3>2 DEF ForwardedClient
    <3>4. h[i] # Nil => h[i] \in Hops
      BY <1>h, <3>1
    <3> QED
      BY <1>1, <2>4, <3>3, <3>4
  <2> QED
    BY <2>2, <2>3, <2>4
<1>3. CASE route # <<>>
  <2>1. /\ Len(route) >= 1 /\ peer = route[Len(route)] /\ IsTrusted(peer) /\ peer \in Proxy
        /\ hops = h \o <<s>> \o SubSeq(route, 1, Len(route) - 1)
    <3>1. Len(route) >= 1
      BY <1>0, <1>3
    <3>2. peer = route[Len(route)] /\ hops = h \o <<s>> \o SubSeq(route, 1, Len(route) - 1)
      BY <1>3 DEF Peer, Header
    <3>3. Len(route) \in 1..Len(route)
      BY <1>0, <3>1
    <3> HIDE DEF peer, hops
    <3> QED
      BY <1>0, <3>1, <3>2, <3>3
  <2>2. /\ DOMAIN hops = 1..n
        /\ \A i \in 1..Len(h) : hops[i] = h[i]
        /\ hops[Len(h) + 1] = s
        /\ \A i \in (Len(h) + 2)..n : hops[i] = route[i - Len(h) - 1]
    <3> DEFINE A    == Address \cup Proxy \cup {Nil}
               back == SubSeq(route, 1, Len(route) - 1)
               to   == h \o <<s>>
    <3>1. /\ back \in Seq(A) /\ Len(back) = Len(route) - 1
          /\ \A i \in 1..(Len(route) - 1) : back[i] = route[i]
      <4>1. route \in Seq(A)
        BY <1>0
      <4> QED
        BY <4>1, <2>1, <1>0
    <3>2. /\ to \in Seq(A) /\ Len(to) = Len(h) + 1 /\ to[Len(h) + 1] = s
          /\ \A i \in 1..Len(h) : to[i] = h[i]
      <4>1. h \in Seq(A) /\ s \in A
        BY <1>0
      <4> QED
        BY <4>1, <1>0
    <3>3. hops = to \o back
      BY <2>1
    <3> HIDE DEF A, back, to, hops
    <3>4. /\ Len(hops) = n /\ DOMAIN hops = 1..n
          /\ \A i \in 1..(Len(h) + 1) : hops[i] = to[i]
          /\ \A i \in (Len(h) + 2)..n : hops[i] = back[i - (Len(h) + 1)]
      <4>1. hops \in Seq(A) /\ Len(hops) = Len(to) + Len(back)
        BY <3>1, <3>2, <3>3, ConcatProperties
      <4>2. \A i \in 1..Len(hops) : hops[i] = IF i <= Len(to) THEN to[i] ELSE back[i - Len(to)]
        BY <3>1, <3>2, <3>3, ConcatProperties
      <4>3. Len(to) + Len(back) = n
        BY <1>0, <3>1, <3>2
      <4> HIDE DEF n
      <4>4. n \in Nat /\ Len(h) + 1 <= n /\ Len(to) = Len(h) + 1
        BY <1>0, <2>1, <3>1, <3>2, <4>3
      <4> QED
        BY <1>0, <4>1, <4>2, <4>3, <4>4
    <3>5. \A i \in (Len(h) + 2)..n : hops[i] = route[i - Len(h) - 1]
      <4> TAKE i \in (Len(h) + 2)..n
      <4>1. i - (Len(h) + 1) \in 1..(Len(route) - 1)
        BY <1>0
      <4>2. i - (Len(h) + 1) = i - Len(h) - 1
        BY <1>0
      <4> QED
        BY <3>1, <3>4, <4>1, <4>2
    <3> QED
      BY <1>0, <3>2, <3>4, <3>5
  <2>c. client = ForwardedClient(Unmap(peer), hops)
    BY <2>1 DEF RealIP
  <2>p. KeyOf(Unmap(peer)) \in Keys
    BY <1>1, <2>1
  <2> HIDE DEF hops, client, peer
  <2>3. \A i \in (Len(h) + 2)..n : hops[i] # Nil /\ IsTrusted(hops[i])
    <3> TAKE i \in (Len(h) + 2)..n
    <3>1. i - Len(h) - 1 \in 1..Len(route)
      BY <1>0
    <3>2. hops[i] \in Proxy /\ IsTrusted(hops[i])
      BY <1>0, <2>2, <3>1
    <3> QED
      BY <3>2, AddressAssumption
  <2>4. S \in SUBSET 1..(Len(h) + 1)
    <3>1. ASSUME NEW i \in S PROVE i \in 1..(Len(h) + 1)
      <4>1. i \in 1..n /\ (hops[i] = Nil \/ ~IsTrusted(hops[i]))
        BY <2>2 DEF Stops
      <4>2. i \notin (Len(h) + 2)..n
        BY <2>3, <4>1
      <4> QED
        BY <1>0, <4>1, <4>2
    <3> QED
      BY <3>1
  <2>5. ~IsTrusted(s) => Len(h) + 1 \in S
    <3>1. Len(h) + 1 \in 1..n
      BY <1>0, <2>1
    <3> QED
      BY <2>2, <3>1 DEF Stops
  <2>6. CASE S = {}
    <3>1. client = Unmap(peer)
      BY <2>c, <2>6 DEF ForwardedClient
    <3> QED
      BY <2>5, <2>6, <2>p, <3>1
  <2>7. CASE S # {}
    <3>1. Len(h) + 1 \in Nat
      BY <1>0
    <3>2. \E i \in S : \A j \in S : j <= i
      BY <2>4, <2>7, <3>1, GreatestPlace
    <3>3. PICK i \in S : /\ \A j \in S : j <= i
                         /\ client = IF hops[i] = Nil THEN Unmap(peer) ELSE Unmap(hops[i])
      BY <2>c, <2>7, <3>2 DEF ForwardedClient
    <3>4. i \in 1..(Len(h) + 1)
      BY <2>4
    <3>5. hops[i] # Nil => hops[i] \in Sender \cup Hops
      <4>1. i \in 1..Len(h) \/ i = Len(h) + 1
        BY <1>0, <3>4
      <4> QED
        BY <1>h, <2>2, <4>1
    <3>6. ~IsTrusted(s) => hops[i] = s
      <4>1. Len(h) + 1 \in S => i = Len(h) + 1
        BY <1>0, <3>3, <3>4
      <4> QED
        BY <2>2, <2>5, <4>1
    <3> QED
      BY <1>0, <1>1, <2>p, <3>3, <3>5, <3>6
  <2> QED
    BY <2>6, <2>7
<1> QED
  BY <1>2, <1>3

-----------------------------------------------------------------------------
(* Tokens *)

LEMMA Numbers ==
  Rate \in Nat /\ Burst \in Nat /\ SweepEvery \in Nat /\ IdleAfter \in Nat /\ Stall \in Nat
  /\ MaxNow \in Nat
BY BoundsAssumption

LEMMA Products ==
  ASSUME NEW a \in Int, NEW b \in Int
  PROVE  /\ Gain(a) \in Int /\ Gain(0) = 0
         /\ Gain(a + b) = Gain(a) + Gain(b)
         /\ a <= b => Gain(a) <= Gain(b)
         /\ Gain(1) = Rate
BY Numbers, Z3 DEF Gain

LEMMA Gains ==
  ASSUME NEW a \in Int, NEW b \in Int, NEW c \in Int, a <= b, b <= c
  PROVE  /\ Gain(c - a) \in Int /\ Gain(c - b) \in Int /\ Gain(b - a) \in Int
         /\ Gain(c - a) = Gain(c - b) + Gain(b - a)
         /\ 0 <= Gain(c - b) /\ 0 <= Gain(b - a)
<1>1. c - a \in Int /\ c - b \in Int /\ b - a \in Int /\ c - a = (c - b) + (b - a)
      /\ 0 <= c - b /\ 0 <= b - a /\ 0 \in Int
  OBVIOUS
<1>2. Gain(c - a) = Gain(c - b) + Gain(b - a)
  BY <1>1, Products
<1>3. 0 <= Gain(c - b) /\ 0 <= Gain(b - a)
  BY <1>1, Products
<1> QED
  BY <1>1, <1>2, <1>3, Products

LEMMA GainNext ==
  ASSUME NEW a \in Int, NEW b \in Int
  PROVE  Gain((a + 1) - b) = Gain(a - b) + Rate /\ Gain(a - b) \in Int
<1>1. PICK d \in Int : d = a - b
  OBVIOUS
<1>2. Gain(d + 1) = Gain(d) + Rate /\ Gain(d) \in Int
  BY Products
<1>3. (a + 1) - b = d + 1
  BY <1>1
<1> QED
  BY <1>1, <1>2, <1>3

LEMMA GainSince ==
  ASSUME NEW a \in Int, NEW b \in Int, a <= b
  PROVE  Gain(b - a) \in Nat
<1>1. b - a \in Int /\ 0 <= b - a /\ 0 \in Int
  OBVIOUS
<1>2. Gain(b - a) \in Int /\ Gain(0) = 0 /\ Gain(0) <= Gain(b - a)
  BY <1>1, Products
<1> QED
  BY <1>2

\* What is left in a bucket.
LEMMA LevelBounds ==
  ASSUME NEW b \in Buckets, now \in 0..MaxNow, b.last <= now
  PROVE  /\ Level(b) \in 0..Burst
         /\ Gain(now - b.last) \in Nat
         /\ Level(b) <= b.tokens + Gain(now - b.last)
         /\ Level(b) = Burst \/ Level(b) = b.tokens + Gain(now - b.last)
         /\ b.tokens = Burst => Level(b) = Burst
         /\ b.last = now => Level(b) = b.tokens
<1>1. b.tokens \in 0..Burst /\ b.last \in Nat /\ now \in Nat
  BY Numbers DEF Buckets
<1>2. Gain(now - b.last) \in Int /\ 0 <= Gain(now - b.last)
  BY <1>1, Gains
<1>3. b.last = now => Gain(now - b.last) = 0
  BY <1>1, Products
<1> QED
  BY <1>1, <1>2, <1>3, Numbers DEF Level, Gain

LEMMA LevelTicks ==
  ASSUME NEW b \in Buckets, now \in 0..MaxNow, b.last <= now, now' = now + 1
  PROVE  Level(b)' <= Level(b) + Rate
<1>1. b.tokens \in 0..Burst /\ b.last \in Nat /\ now \in Nat
  BY Numbers DEF Buckets
<1>2. Gain(now' - b.last) = Gain(now - b.last) + Rate /\ Gain(now - b.last) \in Int
  <2>1. now' = now + 1 /\ now \in Int /\ b.last \in Int
    BY <1>1
  <2>2. Gain((now + 1) - b.last) = Gain(now - b.last) + Rate /\ Gain(now - b.last) \in Int
    BY <2>1, GainNext
  <2> QED
    BY <2>1, <2>2
<1> QED
  BY <1>1, <1>2, Numbers DEF Level, Gain

\* Time passes: no more is gained than is allowed.
LEMMA FitsTick ==
  ASSUME NEW c \in Int, NEW t \in Int, NEW l \in Int, NEW x \in Int, NEW h \in Int, NEW at \in Int,
         Fits(c, t, l, x, h, at), NEW y \in Int, y <= x + Rate,
         NEW g \in Int, h <= g, g <= at + 1
  PROVE  Fits(c, t, l, y, g, at + 1)
<1>1. t <= at /\ h <= at /\ c + x <= Burst + Gain(at - t) + l
  BY DEF Fits
<1>2. Gain((at + 1) - t) = Gain(at - t) + Rate /\ Gain(at - t) \in Int
  BY GainNext
<1>3. t <= h => Gain(h - t) \in Int /\ Gain(g - t) \in Int
                /\ Gain(h - t) <= Gain(g - t)
  <2>1. h - t \in Int /\ g - t \in Int /\ h - t <= g - t
    OBVIOUS
  <2> QED
    BY <2>1, Products
<1> QED
  BY <1>1, <1>2, <1>3, Numbers DEF Fits

\* The entry is used again.
LEMMA FitsSeen ==
  ASSUME NEW c \in Int, NEW t \in Int, NEW l \in Int, NEW x \in Int, NEW h \in Int, NEW at \in Int,
         Fits(c, t, l, x, h, at), NEW g \in Int, h <= g, g <= at
  PROVE  Fits(c, t, l, x, g, at)
<1>1. t <= h => Gain(h - t) \in Int /\ Gain(g - t) \in Int
                /\ Gain(h - t) <= Gain(g - t)
  <2>1. h - t \in Int /\ g - t \in Int /\ h - t <= g - t
    OBVIOUS
  <2> QED
    BY <2>1, Products
<1> QED
  BY <1>1, Numbers DEF Fits

\* A full bucket replaces one that has been idle for as long as it takes to refill.
LEMMA FitsEvict ==
  ASSUME NEW c \in Int, NEW t \in Int, NEW l \in Int, NEW x \in Nat, NEW h \in Int, NEW at \in Int,
         Fits(c, t, l, x, h, at), Refills, h + (IdleAfter + 1 - Stall) <= at
  PROVE  Fits(c, t, l, Burst, at, at)
<1>1. t <= at /\ h <= at /\ c + x <= Burst + Gain(at - t) + l
      /\ (c <= l \/ (t <= h /\ c <= Burst + Gain(h - t) + l))
  BY DEF Fits
<1>2. Gain(at - t) \in Int /\ 0 <= Gain(at - t)
  BY <1>1, Gains
<1>3. Burst <= Gain(at - h) /\ Gain(at - h) \in Int
  <2>1. IdleAfter + 1 - Stall \in Int /\ IdleAfter + 1 - Stall <= at - h /\ at - h \in Int
    BY Numbers
  <2>2. Gain(IdleAfter + 1 - Stall) \in Int /\ Gain(at - h) \in Int
        /\ Gain(IdleAfter + 1 - Stall) <= Gain(at - h)
    BY <2>1, Products
  <2> QED
    BY <2>2, Numbers DEF Refills, Gain
<1>4. c <= Gain(at - t) + l
  <2>1. CASE c <= l
    BY <1>2, <2>1
  <2>2. CASE t <= h /\ c <= Burst + Gain(h - t) + l
    <3>1. Gain(at - t) = Gain(at - h) + Gain(h - t) /\ Gain(h - t) \in Int
      BY <1>1, <2>2, Gains
    <3> QED
      BY <1>2, <1>3, <2>2, <3>1, Numbers
  <2> QED
    BY <1>1, <2>1, <2>2
<1> QED
  BY <1>1, <1>2, <1>4, Numbers DEF Fits

\* A token is spent in time; a request is admitted late.
LEMMA FitsAdmit ==
  ASSUME NEW c \in Int, NEW t \in Int, NEW l \in Int, NEW x \in Nat, NEW h \in Int, NEW at \in Int,
         Fits(c, t, l, x, h, at)
  PROVE  /\ x >= 1 => Fits(c + 1, t, l, x - 1, at, at)
         /\ \A y \in Int : y <= x => Fits(c + 1, t, l + 1, y, h, at)
<1>1. t <= at /\ h <= at /\ c + x <= Burst + Gain(at - t) + l /\ Gain(at - t) \in Int
  BY GainSince DEF Fits
<1>2. x >= 1 => Fits(c + 1, t, l, x - 1, at, at)
  BY <1>1, Numbers DEF Fits
<1>3. t <= h => Gain(h - t) \in Int
  BY GainSince DEF Fits
<1>4. ASSUME NEW y \in Int, y <= x PROVE Fits(c + 1, t, l + 1, y, h, at)
  BY <1>1, <1>3, <1>4, Numbers DEF Fits
<1> QED
  BY <1>2, <1>4

LEMMA FitsFirst ==
  ASSUME NEW l \in Nat, NEW x \in Int, x <= Burst, NEW h \in Int, NEW at \in Int, h <= at
  PROVE  /\ x >= 1 => Fits(1, at, l, x - 1, at, at)
         /\ l >= 1 => Fits(1, at, l, x, h, at)
<1>1. at - at = 0 /\ Gain(0) = 0
  BY Products
<1>2. x >= 1 => 1 + (x - 1) <= Burst + 0 + l /\ 1 <= Burst + 0 + l
  BY Numbers
<1>3. l >= 1 => 1 + x <= Burst + 0 + l
  BY Numbers
<1> QED
  BY <1>1, <1>2, <1>3, Numbers DEF Fits

-----------------------------------------------------------------------------
(* Requests *)

LEMMA LimitInitInv == LimitInit => LimitInv
<1> SUFFICES ASSUME LimitInit PROVE LimitInv
  OBVIOUS
<1> USE Numbers, AddressAssumption DEF LimitInit
<1>1. LimitTypeOK
  BY DEF LimitTypeOK
<1>2. Waiting = {} /\ \A n \in Request, k \in Keys : ~Serves(n, k)
  BY DEF Waiting, Serves
<1>3. Owned /\ Attributed /\ Recent
  BY <1>2 DEF Owned, Attributed, Recent
<1>4. Spent /\ WithinRate
  BY DEF Spent, WithinRate
<1> QED
  BY <1>1, <1>2, <1>3, <1>4 DEF LimitInv

LEMMA Typed ==
  ASSUME LimitInv
  PROVE  /\ now \in Nat /\ now \in 0..MaxNow
         /\ \A k \in Keys : /\ seen[k] \in Nat /\ late[k] \in Nat /\ entry[k] \in Request \cup {Nil}
                            /\ Len(admitted[k]) \in Nat /\ DOMAIN admitted[k] = 1..Len(admitted[k])
                            /\ \A i \in 1..Len(admitted[k]) : admitted[k][i] \in Nat
         /\ \A n \in Request : bucket[n] # Nil =>
              /\ bucket[n] \in Buckets /\ bucket[n].last <= now
              /\ bucket[n].tokens \in 0..Burst /\ bucket[n].last \in Nat
              /\ Level(bucket[n]) \in 0..Burst
<1>1. now \in Nat /\ now \in 0..MaxNow
  BY Numbers DEF LimitInv, LimitTypeOK
<1>2. ASSUME NEW k \in Keys
      PROVE  /\ seen[k] \in Nat /\ late[k] \in Nat /\ entry[k] \in Request \cup {Nil}
             /\ Len(admitted[k]) \in Nat /\ DOMAIN admitted[k] = 1..Len(admitted[k])
             /\ \A i \in 1..Len(admitted[k]) : admitted[k][i] \in Nat
  <2>1. admitted[k] \in Seq(0..MaxNow) /\ seen[k] \in Nat /\ late[k] \in Nat
        /\ entry[k] \in Request \cup {Nil}
    BY Numbers DEF LimitInv, LimitTypeOK
  <2> QED
    BY <2>1, Numbers
<1>3. ASSUME NEW n \in Request, bucket[n] # Nil
      PROVE  /\ bucket[n] \in Buckets /\ bucket[n].last <= now
             /\ bucket[n].tokens \in 0..Burst /\ bucket[n].last \in Nat
             /\ Level(bucket[n]) \in 0..Burst
  <2>1. bucket[n] \in Buckets /\ bucket[n].last <= now
    BY <1>3 DEF LimitInv, LimitTypeOK, Owned
  <2> QED
    BY <1>1, <2>1, LevelBounds, Numbers DEF Buckets
<1> QED
  BY <1>1, <1>2, <1>3

\* What a key has to spend is in 0..Burst, and the horizon is not ahead of the clock.
LEMMA TokensTyped ==
  ASSUME LimitInv, NEW k \in Keys
  PROVE  /\ Tokens(k) \in 0..Burst /\ Horizon(k) \in Nat /\ Horizon(k) <= now
         /\ entry[k] # Nil => bucket[entry[k]] # Nil /\ seen[k] <= now
<1>1. entry[k] # Nil => bucket[entry[k]] # Nil
  BY Typed DEF LimitInv, Owned, Serves
<1>2. Tokens(k) \in 0..Burst
  BY <1>1, Typed, Numbers DEF Tokens
<1>3. Horizon(k) \in Nat /\ Horizon(k) <= now
  BY Typed, Numbers DEF Horizon
<1> QED
  BY <1>1, <1>2, <1>3 DEF LimitInv, Recent

\* What get does for a request q of key k.
GetDone(q, k) ==
  /\ \A j \in Keys \ {k} : /\ entry'[j] = IF Evicted(j) THEN Nil ELSE entry[j]
                           /\ seen'[j] = IF Evicted(j) THEN 0 ELSE seen[j]
  /\ entry'[k] = IF Evicted(k) \/ entry[k] = Nil THEN q ELSE entry[k]
  /\ seen'[k] = now
  /\ bucket' = IF Evicted(k) \/ entry[k] = Nil
                 THEN [bucket EXCEPT ![q] = [tokens |-> Burst, last |-> now]] ELSE bucket
  /\ q \notin Waiting /\ Waiting' = Waiting \cup {q}
  /\ key'[q] = k /\ got'[q] = entry'[k] /\ since'[q] = now
  /\ \A p \in Waiting : key'[p] = key[p] /\ got'[p] = got[p] /\ since'[p] = since[p]
  /\ bucket[q] = Nil /\ \A j \in Keys : entry[j] # q
  /\ \A p \in Waiting : got[p] # q

LEMMA GetFacts ==
  ASSUME LimitInv, NEW q \in Request, NEW k \in Keys, phase[q] = "new",
         phase' = [phase EXCEPT ![q] = "waiting"], Get(q, k)
  PROVE  GetDone(q, k)
<1> USE DEF LimitInv, LimitTypeOK
<1>1. q \notin Waiting /\ Waiting' = Waiting \cup {q} /\ \A p \in Waiting : p # q
  BY DEF Waiting
<1>2. bucket[q] = Nil
  BY DEF Owned
<1>3. \A j \in Keys : ~Serves(q, j)
  BY <1>2 DEF Owned
<1>4. (\A j \in Keys : entry[j] # q) /\ \A p \in Waiting : got[p] # q
  BY <1>3 DEF Serves, Owned
<1>5. Swept \in [Keys -> Request \cup {Nil}]
      /\ \A j \in Keys : Swept[j] = IF Evicted(j) THEN Nil ELSE entry[j]
  BY DEF Swept
<1>6. /\ entry' = IF Swept[k] = Nil THEN [Swept EXCEPT ![k] = q] ELSE Swept
      /\ bucket' = IF Swept[k] = Nil
                     THEN [bucket EXCEPT ![q] = [tokens |-> Burst, last |-> now]] ELSE bucket
      /\ seen' = [j \in Keys |-> IF j = k THEN now ELSE IF Evicted(j) THEN 0 ELSE seen[j]]
      /\ key' = [key EXCEPT ![q] = k]
      /\ got' = [got EXCEPT ![q] = entry'[k]] /\ since' = [since EXCEPT ![q] = now]
  BY DEF Get
<1>7. key'[q] = k /\ got'[q] = entry'[k] /\ since'[q] = now
      /\ \A p \in Waiting : key'[p] = key[p] /\ got'[p] = got[p] /\ since'[p] = since[p]
  BY <1>1, <1>6 DEF Waiting
<1>8. Swept[k] = Nil <=> Evicted(k) \/ entry[k] = Nil
  BY <1>5
<1> QED
  BY <1>1, <1>2, <1>4, <1>5, <1>6, <1>7, <1>8 DEF GetDone

LEMMA GetServes ==
  ASSUME LimitInv, NEW q \in Request, NEW k \in Keys, phase[q] = "new",
         phase' = [phase EXCEPT ![q] = "waiting"], Get(q, k),
         NEW n \in Request, NEW j \in Keys, Serves(n, j)'
  PROVE  \/ n # q /\ Serves(n, j) /\ bucket'[n] = bucket[n]
         \/ n = q /\ j = k /\ bucket'[q] = [tokens |-> Burst, last |-> now]
<1>0. GetDone(q, k)
  BY GetFacts
<1> USE <1>0 DEF GetDone
<1>1. CASE entry'[j] = n
  <2>1. CASE j # k
    <3>1. entry[j] = n
      BY <1>1, <2>1, AddressAssumption
    <3> QED
      BY <3>1 DEF Serves, LimitInv, LimitTypeOK
  <2>2. CASE j = k /\ (Evicted(k) \/ entry[k] = Nil)
    BY <1>1, <2>2 DEF LimitInv, LimitTypeOK
  <2>3. CASE j = k /\ ~(Evicted(k) \/ entry[k] = Nil)
    BY <1>1, <2>3 DEF Serves
  <2> QED
    BY <2>1, <2>2, <2>3
<1>2. CASE \E p \in Waiting' : got'[p] = n /\ key'[p] = j
  <2>1. PICK p \in Waiting' : got'[p] = n /\ key'[p] = j
    BY <1>2
  <2>2. CASE p = q
    <3>1. entry'[j] = n
      BY <2>1, <2>2
    <3> QED
      BY <1>1, <3>1
  <2>3. CASE p # q
    <3>1. p \in Waiting /\ got[p] = n /\ key[p] = j
      BY <2>1, <2>3
    <3> QED
      BY <3>1 DEF Serves, LimitInv, LimitTypeOK
  <2> QED
    BY <2>2, <2>3
<1> QED
  BY <1>1, <1>2 DEF Serves

LEMMA ArriveStep ==
  ASSUME LimitInv, NEW q \in Request, NEW s \in Sender, NEW h \in Forged, NEW route \in Routes,
         Arrive(q, s, h, route)
  PROVE  LimitInv'
<1>k. PICK k \in Keys : /\ k = KeyOf(RealIP(Peer(s, route), Header(s, h, route)))
                        /\ ~IsTrusted(s) => k = KeyOf(s)
  BY RealIPSender
<1>1. /\ phase[q] = "new" /\ phase' = [phase EXCEPT ![q] = "waiting"]
      /\ sender' = [sender EXCEPT ![q] = s] /\ Get(q, k) /\ UNCHANGED <<now, admitted, late>>
  BY <1>k DEF Arrive
<1>2. GetDone(q, k)
  BY <1>1, GetFacts
<1>3. \A n \in Request, j \in Keys : Serves(n, j)' =>
        \/ n # q /\ Serves(n, j) /\ bucket'[n] = bucket[n]
        \/ n = q /\ j = k /\ bucket'[q] = [tokens |-> Burst, last |-> now]
  BY <1>1, GetServes
<1> HIDE DEF Get
<1>4. LimitTypeOK'
  <2>1. now \in 0..MaxNow /\ [tokens |-> Burst, last |-> now] \in Buckets
    BY Numbers DEF LimitInv, LimitTypeOK, Buckets
  <2>2. /\ entry' \in [Keys -> Request \cup {Nil}] /\ seen' \in [Keys -> 0..MaxNow]
        /\ bucket' \in [Request -> Buckets \cup {Nil}] /\ lastSweep' \in 0..MaxNow
        /\ key' \in [Request -> Keys \cup {Nil}] /\ got' \in [Request -> Request \cup {Nil}]
        /\ since' \in [Request -> 0..MaxNow]
    <3>1. Swept \in [Keys -> Request \cup {Nil}]
      BY DEF Swept, LimitInv, LimitTypeOK
    <3>2. entry' \in [Keys -> Request \cup {Nil}]
      BY <1>1, <3>1 DEF Get
    <3>3. bucket' \in [Request -> Buckets \cup {Nil}]
      BY <1>1, <2>1 DEF Get, LimitInv, LimitTypeOK
    <3>4. seen' \in [Keys -> 0..MaxNow] /\ lastSweep' \in 0..MaxNow
      BY <1>1, <2>1, Numbers DEF Get, LimitInv, LimitTypeOK
    <3>5. key' \in [Request -> Keys \cup {Nil}] /\ since' \in [Request -> 0..MaxNow]
      BY <1>1, <2>1 DEF Get, LimitInv, LimitTypeOK
    <3>6. got' \in [Request -> Request \cup {Nil}]
      BY <1>1, <3>2 DEF Get, LimitInv, LimitTypeOK
    <3> QED
      BY <3>2, <3>3, <3>4, <3>5, <3>6
  <2> QED
    BY <1>1, <2>2 DEF LimitInv, LimitTypeOK
<1> USE <1>2 DEF GetDone
<1>5. Owned'
  <2>1. \A p \in Waiting' : key'[p] \in Keys /\ got'[p] \in Request
    <3>1. entry'[k] \in Request
      BY DEF LimitInv, LimitTypeOK
    <3> QED
      BY <3>1 DEF LimitInv, Owned
  <2>2. \A n \in Request, i, j \in Keys : Serves(n, i)' /\ Serves(n, j)' => i = j
    BY <1>3 DEF LimitInv, Owned
  <2>3. \A n \in Request, j \in Keys : Serves(n, j)' => bucket'[n] # Nil
    BY <1>3, <1>4, AddressAssumption, Numbers, Typed DEF LimitInv, Owned
  <2>4. \A n \in Request : bucket'[n] # Nil => phase'[n] # "new" /\ bucket'[n].last <= now'
    <3> SUFFICES ASSUME NEW n \in Request, bucket'[n] # Nil
                 PROVE  phase'[n] # "new" /\ bucket'[n].last <= now'
      OBVIOUS
    <3>1. CASE n = q
      <4>1. bucket'[q] = [tokens |-> Burst, last |-> now]
        BY <3>1 DEF LimitInv, LimitTypeOK
      <4> QED
        BY <1>1, <3>1, <4>1, Typed DEF LimitInv, LimitTypeOK
    <3>2. CASE n # q
      BY <1>1, <3>2 DEF LimitInv, LimitTypeOK, Owned
    <3> QED
      BY <3>1, <3>2
  <2> QED
    BY <2>1, <2>2, <2>3, <2>4 DEF Owned
<1>6. Attributed'
  <2>1. ASSUME NEW p \in Waiting'
        PROVE  sender'[p] \in Sender /\ (~IsTrusted(sender'[p]) => key'[p] = KeyOf(sender'[p]))
    <3>1. CASE p = q
      <4>1. sender'[q] = s /\ key'[q] = k
        BY <1>1 DEF LimitInv, LimitTypeOK
      <4> QED
        BY <1>k, <3>1, <4>1
    <3>2. CASE p # q
      <4>1. p \in Waiting /\ sender'[p] = sender[p] /\ key'[p] = key[p]
        BY <1>1, <3>2 DEF LimitInv, LimitTypeOK, Waiting
      <4> QED
        BY <4>1 DEF LimitInv, Attributed
    <3> QED
      BY <3>1, <3>2
  <2> QED
    BY <2>1 DEF Attributed
<1>7. Recent'
  <2>1. lastSweep' = IF now - lastSweep > SweepEvery THEN now ELSE lastSweep
    BY <1>1 DEF Get
  <2>2. lastSweep \in Nat /\ lastSweep <= now /\ now' = now /\ now \in Nat
    BY <1>1, Typed, Numbers DEF LimitInv, LimitTypeOK, Recent
  <2>3. ASSUME NEW j \in Keys, entry'[j] # Nil
        PROVE  seen'[j] <= now /\ lastSweep' <= seen'[j] + IdleAfter
    <3>1. CASE j = k
      BY <2>1, <2>2, <3>1, Numbers
    <3>2. CASE j # k
      <4>1. entry[j] # Nil /\ ~Evicted(j) /\ seen'[j] = seen[j]
        BY <2>3, <3>2
      <4>2. seen[j] \in Nat /\ seen[j] <= now /\ lastSweep <= seen[j] + IdleAfter
        BY <4>1, Typed DEF LimitInv, Recent
      <4>3. now - lastSweep > SweepEvery => now - seen[j] <= IdleAfter
        BY <2>2, <4>1, <4>2, Numbers DEF Evicted
      <4> QED
        BY <2>1, <2>2, <4>1, <4>2, <4>3, Numbers
    <3> QED
      BY <3>1, <3>2
  <2>4. ASSUME NEW p \in Waiting'
        PROVE  /\ since'[p] <= now
               /\ IF got'[p] = entry'[key'[p]] THEN since'[p] <= seen'[key'[p]]
                                             ELSE since'[p] + IdleAfter < now
    <3>1. CASE p = q
      BY <2>2, <3>1
    <3>2. CASE p # q
      <4> DEFINE j == key[p]
      <4>1. /\ p \in Waiting /\ key'[p] = j /\ got'[p] = got[p] /\ since'[p] = since[p]
            /\ j \in Keys /\ got[p] \in Request /\ got[p] # q /\ since[p] \in Nat
        BY <3>2, Numbers DEF LimitInv, LimitTypeOK, Owned, Waiting
      <4>2. /\ since[p] <= now
            /\ IF got[p] = entry[j] THEN since[p] <= seen[j] ELSE since[p] + IdleAfter < now
        BY <4>1 DEF LimitInv, Recent
      <4>3. got[p] # Nil
        BY <4>1, AddressAssumption
      <4>4. seen[j] \in Nat
        BY <4>1, Typed
      <4> HIDE DEF j
      <4>5. CASE Evicted(j)
        <5>1. entry'[j] # got[p]
          BY <4>1, <4>3, <4>5
        <5>2. now - seen[j] > IdleAfter
          BY <4>5 DEF Evicted
        <5> QED
          BY <2>2, <4>1, <4>2, <4>4, <5>1, <5>2, Numbers
      <4>6. CASE ~Evicted(j) /\ entry[j] = Nil
        BY <4>1, <4>2, <4>3, <4>6
      <4>7. CASE ~Evicted(j) /\ entry[j] # Nil
        <5>1. entry'[j] = entry[j] /\ seen'[j] \in {seen[j], now}
          BY <4>1, <4>7
        <5> QED
          BY <2>2, <4>1, <4>2, <5>1
      <4> QED
        BY <4>5, <4>6, <4>7
    <3> QED
      BY <3>1, <3>2
  <2>5. lastSweep' <= now
    BY <2>1, <2>2
  <2> QED
    BY <2>2, <2>3, <2>4, <2>5 DEF Recent
<1>8. \A n \in Request, j \in Keys : Serves(n, j)' => Charged(n, j)'
  BY <1>1, <1>3 DEF LimitInv, Charged, Since
<1>9. ASSUME Refills PROVE Spent' /\ WithinRate'
  <2>1. Spent /\ WithinRate
    BY <1>9 DEF LimitInv
  <2>2. WithinRate'
    BY <1>1, <2>1 DEF WithinRate
  <2>3. ASSUME NEW j \in Keys, NEW i \in DOMAIN admitted[j]
        PROVE  Fits(Since(j, i), admitted[j][i], late[j], Tokens(j)', Horizon(j)', now)
    <3> DEFINE c == Since(j, i)
               t == admitted[j][i]
               l == late[j]
    <3>1. /\ c \in Int /\ t \in Nat /\ l \in Nat /\ now \in Nat /\ now' = now
          /\ seen[j] \in Nat /\ entry[j] \in Request \cup {Nil}
      BY <1>1, Typed DEF Since
    <3>2. Fits(c, t, l, Tokens(j), Horizon(j), now)
      BY <2>1 DEF Spent
    <3>3. Tokens(j) \in 0..Burst /\ Tokens(j) \in Nat /\ Horizon(j) \in Nat /\ Horizon(j) <= now
      BY TokensTyped, Numbers
    <3> SUFFICES Fits(c, t, l, Tokens(j)', Horizon(j)', now)
      OBVIOUS
    <3> HIDE DEF c, t, l
    <3>4. CASE Evicted(j) \/ entry[j] = Nil
      <4>1. Tokens(j)' = Burst /\ Horizon(j)' = now
        <5>1. CASE j # k
          <6>1. entry'[j] = Nil
            BY <3>4, <5>1
          <6> QED
            BY <3>1, <6>1 DEF Tokens, Horizon
        <5>2. CASE j = k
          <6>1. entry'[j] = q /\ seen'[j] = now
                /\ bucket' = [bucket EXCEPT ![q] = [tokens |-> Burst, last |-> now]]
            BY <3>4, <5>2
          <6>2. bucket'[q] = [tokens |-> Burst, last |-> now]
            BY <6>1 DEF LimitInv, LimitTypeOK
          <6>3. Level([tokens |-> Burst, last |-> now]) = Burst
            <7>1. [tokens |-> Burst, last |-> now] \in Buckets /\ now \in 0..MaxNow
              BY Typed, Numbers DEF Buckets
            <7>2. now <= now
              BY <3>1
            <7> QED
              BY <7>1, <7>2, LevelBounds
          <6>5. Tokens(j)' = Burst
            BY <6>1, <6>2, <6>3, AddressAssumption, <3>1 DEF Tokens, Level
          <6>6. Horizon(j)' = now
            BY <3>1, <6>1, Numbers DEF Horizon
          <6> QED
            BY <6>5, <6>6
        <5> QED
          BY <5>1, <5>2
      <4>2. Fits(c, t, l, Burst, now, now)
        <5>1. CASE entry[j] = Nil
          <6>1. Tokens(j) = Burst /\ Horizon(j) = now
            BY <5>1 DEF Tokens, Horizon
          <6> QED
            BY <3>2, <6>1
        <5>2. CASE Evicted(j)
          <6>1. now - seen[j] > IdleAfter /\ entry[j] # Nil
            BY <5>2 DEF Evicted
          <6>2. Horizon(j) <= seen[j] + Stall
            BY <3>1, <6>1, Numbers DEF Horizon
          <6>3. Horizon(j) + (IdleAfter + 1 - Stall) <= now
            BY <3>1, <3>3, <6>1, <6>2, Numbers
          <6> QED
            BY <1>9, <3>1, <3>2, <3>3, <6>3, FitsEvict
        <5> QED
          BY <3>4, <5>1, <5>2
      <4> QED
        BY <4>1, <4>2
    <3>5. CASE ~Evicted(j) /\ entry[j] # Nil
      <4>1. entry'[j] = entry[j] /\ seen'[j] \in {seen[j], now} /\ entry[j] # q
        BY <3>5
      <4>2. bucket'[entry[j]] = bucket[entry[j]]
        BY <3>1, <3>5, <4>1 DEF LimitInv, LimitTypeOK
      <4>3. Tokens(j)' = Tokens(j)
        BY <3>1, <3>5, <4>1, <4>2 DEF Tokens, Level
      <4>4. seen[j] <= now
        BY <3>5, TokensTyped
      <4>5. Horizon(j)' \in Nat /\ Horizon(j) <= Horizon(j)' /\ Horizon(j)' <= now
        BY <3>1, <3>5, <4>1, <4>4, Numbers DEF Horizon
      <4>6. PICK x \in Int, o \in Int, g \in Int :
               x = Tokens(j) /\ o = Horizon(j) /\ g = Horizon(j)'
        BY <3>3, <4>5
      <4>7. c \in Int /\ t \in Int /\ l \in Int /\ now \in Int
        BY <3>1
      <4>8. Fits(c, t, l, x, o, now) /\ o <= g /\ g <= now
        BY <3>2, <4>5, <4>6
      <4>9. Fits(c, t, l, x, g, now)
        BY <4>7, <4>8, FitsSeen
      <4> QED
        BY <4>3, <4>6, <4>9
    <3> QED
      BY <3>4, <3>5
  <2>4. Spent'
    BY <1>1, <2>3 DEF Spent, Since
  <2> QED
    BY <2>2, <2>4
<1> QED
  BY <1>4, <1>5, <1>6, <1>7, <1>8, <1>9 DEF LimitInv, Refills

\* A request leaves the limiter, which may have changed the tokens of limiters.
LEMMA Decided ==
  ASSUME LimitInv, NEW q \in Request, phase[q] = "waiting", Decide(q), UNCHANGED <<now, map>>,
         bucket' \in [Request -> Buckets \cup {Nil}],
         \A n \in Request : bucket'[n] # Nil <=> bucket[n] # Nil,
         \A n \in Request : bucket'[n] # Nil => bucket'[n].last <= now,
         admitted' \in [Keys -> Seq(0..MaxNow)], late' \in [Keys -> Nat]
  PROVE  /\ LimitTypeOK' /\ Owned' /\ Attributed' /\ Recent'
         /\ \A n \in Request, j \in Keys : Serves(n, j)' => Serves(n, j)
<1>1. now' = now /\ entry' = entry /\ seen' = seen /\ lastSweep' = lastSweep
  BY DEF map
<1>2. /\ phase' = [phase EXCEPT ![q] = "done"] /\ sender' = [sender EXCEPT ![q] = Nil]
      /\ key' = [key EXCEPT ![q] = Nil] /\ got' = [got EXCEPT ![q] = Nil]
      /\ since' = [since EXCEPT ![q] = 0]
  BY DEF Decide
<1>3. LimitTypeOK'
  BY <1>1, <1>2, Numbers DEF LimitInv, LimitTypeOK
<1>4. /\ Waiting' = Waiting \ {q}
      /\ \A p \in Waiting' : /\ p \in Waiting /\ sender'[p] = sender[p] /\ key'[p] = key[p]
                             /\ got'[p] = got[p] /\ since'[p] = since[p]
  BY <1>2 DEF Waiting, LimitInv, LimitTypeOK
<1>5. \A n \in Request, j \in Keys : Serves(n, j)' => Serves(n, j)
  BY <1>1, <1>4 DEF Serves
<1>6. Owned'
  <2>1. \A n \in Request : phase[n] # "new" => phase'[n] # "new"
    BY <1>2 DEF LimitInv, LimitTypeOK
  <2> QED
    BY <1>1, <1>4, <1>5, <2>1 DEF LimitInv, Owned
<1>7. Attributed'
  BY <1>4 DEF LimitInv, Attributed, IsTrusted, KeyOf
<1>8. Recent'
  BY <1>1, <1>4 DEF LimitInv, Recent
<1> QED
  BY <1>3, <1>5, <1>6, <1>7, <1>8

LEMMA TurnedAwayStep ==
  ASSUME LimitInv, NEW q \in Request, Refuse(q)
  PROVE  LimitInv'
<1>1. /\ phase[q] = "waiting" /\ Decide(q) /\ UNCHANGED <<now, map, bucket, admitted, late>>
      /\ entry' = entry /\ seen' = seen
  BY DEF Refuse, map
<1>2. \A n \in Request : bucket'[n] # Nil => bucket'[n].last <= now
  BY <1>1 DEF LimitInv, Owned
<1>3. /\ bucket' \in [Request -> Buckets \cup {Nil}] /\ admitted' \in [Keys -> Seq(0..MaxNow)]
      /\ late' \in [Keys -> Nat]
  BY <1>1 DEF LimitInv, LimitTypeOK
<1>4. /\ LimitTypeOK' /\ Owned' /\ Attributed' /\ Recent'
      /\ \A n \in Request, j \in Keys : Serves(n, j)' => Serves(n, j)
  BY <1>1, <1>2, <1>3, Decided
<1>5. \A n \in Request, j \in Keys : Serves(n, j)' => Charged(n, j)'
  BY <1>1, <1>4 DEF LimitInv, Charged, Since
<1>6. ASSUME Refills PROVE Spent' /\ WithinRate'
  <2>1. Spent /\ WithinRate
    BY <1>6 DEF LimitInv
  <2> QED
    BY <1>1, <2>1 DEF WithinRate, Spent, Since, Tokens, Horizon, Fits, Level, Gain
<1> QED
  BY <1>4, <1>5, <1>6 DEF LimitInv, Refills

\* The limiter that a waiting request has is there, and what is left in it.
LEMMA GotLimiter ==
  ASSUME LimitInv, NEW q \in Waiting
  PROVE  /\ key[q] \in Keys /\ got[q] \in Request /\ Serves(got[q], key[q])
         /\ bucket[got[q]] # Nil /\ Charged(got[q], key[q])
         /\ since[q] \in Nat /\ since[q] <= now
<1>1. key[q] \in Keys /\ got[q] \in Request
  BY DEF LimitInv, Owned
<1>2. Serves(got[q], key[q])
  BY DEF Serves
<1>3. since[q] \in Nat /\ since[q] <= now
  BY Numbers DEF LimitInv, LimitTypeOK, Recent, Waiting
<1> QED
  BY <1>1, <1>2, <1>3 DEF LimitInv, Owned

\* What Admit does for a request q of key k with limiter n, in which x tokens were left.
AdmitDone(q, k, n, x) ==
  /\ k \in Keys /\ n \in Request /\ x \in 1..Burst /\ x = Level(bucket[n])
  /\ bucket[n] # Nil /\ Serves(n, k) /\ n = got[q] /\ k = key[q]
  /\ now' = now /\ entry' = entry /\ seen' = seen
  /\ \A m \in Request \ {n} : bucket'[m] = bucket[m]
  /\ bucket'[n] = [tokens |-> x - 1, last |-> now] /\ bucket'[n] # Nil
  /\ \A j \in Keys \ {k} : admitted'[j] = admitted[j] /\ late'[j] = late[j]
  /\ Len(admitted'[k]) = Len(admitted[k]) + 1
  /\ \A i \in 1..Len(admitted[k]) : admitted'[k][i] = admitted[k][i]
  /\ admitted'[k][Len(admitted[k]) + 1] = now
  /\ DOMAIN admitted'[k] = 1..(Len(admitted[k]) + 1)
  /\ late'[k] = IF now - since[q] > Stall THEN late[k] + 1 ELSE late[k]

LEMMA AdmitFacts ==
  ASSUME LimitInv, NEW q \in Request, Admit(q)
  PROVE  /\ \E k, n, x : AdmitDone(q, k, n, x)
         /\ LimitTypeOK' /\ Owned' /\ Attributed' /\ Recent'
         /\ \A n \in Request, j \in Keys : Serves(n, j)' => Serves(n, j)
<1> DEFINE k == key[q]
           n == got[q]
           x == Level(bucket[n])
<1>1. /\ phase[q] = "waiting" /\ x >= 1 /\ Decide(q) /\ UNCHANGED <<now, map>>
      /\ bucket' = [bucket EXCEPT ![n] = [tokens |-> x - 1, last |-> now]]
      /\ admitted' = [admitted EXCEPT ![k] = Append(admitted[k], now)]
      /\ late' = [late EXCEPT ![k] = IF now - since[q] > Stall THEN late[k] + 1 ELSE late[k]]
  BY DEF Admit, LimitInv, LimitTypeOK
<1>2. /\ q \in Waiting /\ k \in Keys /\ n \in Request /\ Serves(n, k) /\ bucket[n] # Nil
  BY <1>1, GotLimiter DEF Waiting
<1>3. x \in 1..Burst
  BY <1>1, <1>2, Typed, Numbers
<1> HIDE DEF k, n, x
<1>4. [tokens |-> x - 1, last |-> now] \in Buckets
      /\ [tokens |-> x - 1, last |-> now] # Nil
  <2>1. x - 1 \in 0..Burst /\ x - 1 \in Nat /\ now \in 0..MaxNow /\ now \in Nat
    BY <1>3, Typed, Numbers
  <2> QED
    BY <2>1, AddressAssumption DEF Buckets
<1>5. /\ bucket' \in [Request -> Buckets \cup {Nil}]
      /\ \A m \in Request \ {n} : bucket'[m] = bucket[m]
      /\ bucket'[n] = [tokens |-> x - 1, last |-> now]
  BY <1>1, <1>2, <1>4 DEF LimitInv, LimitTypeOK
<1>6. admitted[k] \in Seq(0..MaxNow) /\ now \in 0..MaxNow /\ late[k] \in Nat
  BY <1>2 DEF LimitInv, LimitTypeOK
<1>7. admitted' \in [Keys -> Seq(0..MaxNow)] /\ late' \in [Keys -> Nat]
  BY <1>1, <1>2, <1>6 DEF LimitInv, LimitTypeOK
<1>8. bucket'[n].last = now /\ now <= now
  BY <1>5, <1>6, Numbers
<1>9. \A m \in Request : bucket'[m] # Nil <=> bucket[m] # Nil
  BY <1>2, <1>4, <1>5
<1>10. \A m \in Request : bucket'[m] # Nil => bucket'[m].last <= now
  BY <1>5, <1>8, Typed
<1>11. /\ LimitTypeOK' /\ Owned' /\ Attributed' /\ Recent'
       /\ \A m \in Request, j \in Keys : Serves(m, j)' => Serves(m, j)
  BY <1>1, <1>5, <1>7, <1>9, <1>10, Decided
<1>12. /\ admitted'[k] = Append(admitted[k], now)
       /\ \A j \in Keys \ {k} : admitted'[j] = admitted[j] /\ late'[j] = late[j]
       /\ late'[k] = IF now - since[q] > Stall THEN late[k] + 1 ELSE late[k]
  BY <1>1, <1>2 DEF LimitInv, LimitTypeOK
<1>13. /\ Len(admitted'[k]) = Len(admitted[k]) + 1
       /\ \A i \in 1..Len(admitted[k]) : admitted'[k][i] = admitted[k][i]
       /\ admitted'[k][Len(admitted[k]) + 1] = now
       /\ DOMAIN admitted'[k] = 1..(Len(admitted[k]) + 1)
  BY <1>6, <1>12
<1>14. AdmitDone(q, k, n, x)
  <2>1. n = got[q] /\ k = key[q] /\ x = Level(bucket[n])
    BY DEF k, n, x
  <2>2. now' = now /\ entry' = entry /\ seen' = seen
    BY <1>1 DEF map
  <2> QED
    BY <1>2, <1>3, <1>4, <1>5, <1>12, <1>13, <2>1, <2>2 DEF AdmitDone
<1> QED
  BY <1>11, <1>14

\* The requests admitted before keep their places.
LEMMA AdmitKeeps ==
  ASSUME LimitInv, NEW q \in Request, NEW k, NEW n, NEW x, AdmitDone(q, k, n, x),
         NEW i \in DOMAIN admitted[k]
  PROVE  /\ i \in Nat /\ i \in DOMAIN admitted'[k] /\ admitted'[k][i] = admitted[k][i]
         /\ Since(k, i)' = Since(k, i) + 1 /\ Since(k, i) \in Nat /\ admitted[k][i] \in Nat
<1>1. PICK len \in Nat : len = Len(admitted[k]) /\ DOMAIN admitted[k] = 1..len
  BY Typed DEF AdmitDone
<1>2. i \in 1..len /\ i \in 1..(len + 1) /\ len - i + 1 \in Nat
      /\ (len + 1) - i + 1 = (len - i + 1) + 1
  BY <1>1
<1>3. /\ Len(admitted'[k]) = len + 1 /\ DOMAIN admitted'[k] = 1..(len + 1)
      /\ admitted'[k][i] = admitted[k][i] /\ admitted[k][i] \in Nat
  BY <1>1, <1>2, Typed DEF AdmitDone
<1> QED
  BY <1>1, <1>2, <1>3 DEF Since

\* The token an admitted request takes is charged to its key.
LEMMA AdmitCharges ==
  ASSUME LimitInv, NEW q \in Request, NEW k, NEW n, NEW x, AdmitDone(q, k, n, x),
         NEW m \in Request, NEW j \in Keys, Serves(m, j)
  PROVE  Charged(m, j)'
<1>1. Charged(m, j) /\ Len(admitted[j]) \in Nat
  BY Typed DEF LimitInv
<1>0. /\ k \in Keys /\ n \in Request /\ x \in 1..Burst /\ x = Level(bucket[n])
      /\ bucket[n] # Nil /\ Serves(n, k) /\ now' = now
      /\ \A p \in Request \ {n} : bucket'[p] = bucket[p]
      /\ bucket'[n] = [tokens |-> x - 1, last |-> now]
      /\ \A i \in Keys \ {k} : admitted'[i] = admitted[i]
      /\ DOMAIN admitted'[k] = 1..(Len(admitted[k]) + 1)
      /\ Len(admitted'[k]) = Len(admitted[k]) + 1
      /\ admitted'[k][Len(admitted[k]) + 1] = now
  BY DEF AdmitDone
<1>2. CASE j # k
  <2>1. m # n
    BY <1>0, <1>2 DEF LimitInv, Owned
  <2> QED
    BY <1>0, <1>1, <1>2, <2>1 DEF Charged, Since
<1>3. CASE j = k /\ m # n
  <2>1. CASE bucket[m].tokens = Burst
    BY <1>0, <1>3, <2>1 DEF Charged
  <2>2. CASE \E i \in DOMAIN admitted[k] :
               Since(k, i) + bucket[m].tokens >= Burst + Rate * (bucket[m].last - admitted[k][i])
    <3>1. PICK i \in DOMAIN admitted[k] :
            Since(k, i) + bucket[m].tokens >= Burst + Gain(bucket[m].last - admitted[k][i])
      BY <2>2 DEF Gain
    <3>2. bucket[m] # Nil
      BY DEF LimitInv, Owned
    <3>3. bucket[m].tokens \in Nat /\ bucket[m].last \in Nat /\ admitted[k][i] \in Nat
      BY <3>2, Typed, AdmitKeeps, Numbers
    <3>4. bucket[m].last - admitted[k][i] \in Int
      BY <3>3
    <3>5. Gain(bucket[m].last - admitted[k][i]) \in Int
      BY <3>4, Products
    <3>6. i \in DOMAIN admitted'[k] /\ admitted'[k][i] = admitted[k][i]
          /\ Since(k, i)' = Since(k, i) + 1 /\ Since(k, i) \in Nat
      BY AdmitKeeps
    <3>7. Since(k, i)' + bucket[m].tokens >= Burst + Gain(bucket[m].last - admitted[k][i])
      BY <3>1, <3>3, <3>5, <3>6, Numbers
    <3> QED
      BY <1>0, <1>3, <3>6, <3>7 DEF Charged, Gain
  <2> QED
    BY <1>1, <1>3, <2>1, <2>2 DEF Charged
<1>4. CASE j = k /\ m = n
  <2>0. /\ bucket[n] \in Buckets /\ bucket[n].last <= now /\ bucket[n].tokens \in 0..Burst
        /\ bucket[n].last \in Nat /\ now \in 0..MaxNow /\ now \in Nat
    BY <1>0, Typed
  <2>1. x = Burst \/ (bucket[n].tokens # Burst /\ x = bucket[n].tokens + Gain(now - bucket[n].last))
    BY <1>0, <2>0, LevelBounds
  <2>2. CASE x = Burst
    <3> DEFINE i == Len(admitted[k]) + 1
    <3>1. i \in DOMAIN admitted'[k] /\ admitted'[k][i] = now /\ Len(admitted'[k]) - i + 1 = 1
      BY <1>0, <1>1, <1>4, <2>0
    <3>2. now - now = 0 /\ Rate * 0 = 0
      BY <2>0, Numbers
    <3>3. 1 + (x - 1) >= Burst + 0
      BY <1>0, <2>2, Numbers
    <3>4. 1 + bucket'[n].tokens >= Burst + Rate * (bucket'[n].last - admitted'[k][i])
      BY <1>0, <3>1, <3>2, <3>3
    <3> QED
      BY <1>0, <1>4, <3>1, <3>4 DEF Charged, Since
  <2>3. CASE bucket[n].tokens # Burst /\ x = bucket[n].tokens + Gain(now - bucket[n].last)
    <3>1. PICK i \in DOMAIN admitted[k] :
            Since(k, i) + bucket[n].tokens >= Burst + Gain(bucket[n].last - admitted[k][i])
      BY <1>1, <1>4, <2>3 DEF Charged, Gain
    <3>2. /\ i \in DOMAIN admitted'[k] /\ admitted'[k][i] = admitted[k][i]
          /\ Since(k, i)' = Since(k, i) + 1 /\ Since(k, i) \in Nat
          /\ admitted[k][i] \in Nat
      BY AdmitKeeps
    <3>3. PICK a \in Int, b \in Int : a = now - bucket[n].last /\ b = bucket[n].last - admitted[k][i]
      BY <2>0, <3>2
    <3>4. Gain(a + b) = Gain(a) + Gain(b) /\ Gain(a) \in Int /\ Gain(b) \in Int
      BY Products
    <3>5. a + b = now - admitted[k][i]
      BY <2>0, <3>2, <3>3
    <3>6. (Since(k, i) + 1) + (x - 1) >= Burst + Gain(now - admitted[k][i])
      <4>1. /\ x = bucket[n].tokens + Gain(a) /\ Gain(now - admitted[k][i]) = Gain(a) + Gain(b)
            /\ Since(k, i) + bucket[n].tokens >= Burst + Gain(b)
        BY <2>3, <3>1, <3>3, <3>4, <3>5
      <4>2. Since(k, i) \in Nat /\ bucket[n].tokens \in Int /\ x \in Int
        BY <1>0, <2>0, <3>2
      <4> HIDE DEF Gain
      <4> QED
        BY <3>4, <4>1, <4>2, Numbers
    <3> QED
      BY <1>0, <1>4, <3>2, <3>6 DEF Charged, Gain
  <2> QED
    BY <2>1, <2>2, <2>3
<1> QED
  BY <1>2, <1>3, <1>4

\* The key of an admitted request spends a token in time, or one more is late.
LEMMA AdmitSpends ==
  ASSUME LimitInv, NEW q \in Request, NEW k, NEW n, NEW x, AdmitDone(q, k, n, x), q \in Waiting,
         Refills
  PROVE  /\ Tokens(k)' \in Nat /\ Tokens(k)' <= Tokens(k)
         /\ \/ /\ late'[k] = late[k] /\ Tokens(k) >= 1 /\ Tokens(k)' = Tokens(k) - 1
               /\ Horizon(k)' = now
            \/ late'[k] = late[k] + 1 /\ Horizon(k)' = Horizon(k)
<1>0. /\ k \in Keys /\ n \in Request /\ x \in 1..Burst /\ x = Level(bucket[n])
      /\ bucket[n] # Nil /\ now' = now /\ entry' = entry /\ seen' = seen
      /\ n = got[q] /\ k = key[q]
      /\ \A p \in Request \ {n} : bucket'[p] = bucket[p]
      /\ bucket'[n] = [tokens |-> x - 1, last |-> now]
      /\ late'[k] = IF now - since[q] > Stall THEN late[k] + 1 ELSE late[k]
  BY DEF AdmitDone
<1>1. /\ since[q] \in Nat /\ since[q] <= now /\ now \in Nat /\ now \in 0..MaxNow
      /\ seen[k] \in Nat /\ entry[k] \in Request \cup {Nil} /\ n # Nil
      /\ Tokens(k) \in Nat /\ Horizon(k)' = Horizon(k)
  <2>1. since[q] \in Nat /\ since[q] <= now /\ now \in Nat /\ now \in 0..MaxNow
    BY GotLimiter, Typed
  <2>2. seen[k] \in Nat /\ entry[k] \in Request \cup {Nil} /\ n # Nil
    BY <1>0, Typed, AddressAssumption
  <2>3. Tokens(k) \in Nat /\ Horizon(k)' = Horizon(k)
    BY <1>0, TokensTyped, Numbers DEF Horizon
  <2> QED
    BY <2>1, <2>2, <2>3
<1>2. Level(bucket'[n]) = x - 1 /\ x - 1 \in Nat
  <2>1. [tokens |-> x - 1, last |-> now] \in Buckets /\ now <= now /\ x - 1 \in Nat
    BY <1>0, <1>1, Numbers DEF Buckets
  <2> QED
    BY <1>0, <1>1, <2>1, LevelBounds
<1>3. CASE entry[k] = n
  <2>1. Tokens(k) = x /\ Tokens(k)' = x - 1
    <3>1. Tokens(k)' = Level(bucket'[n])
      BY <1>0, <1>1, <1>3 DEF Tokens, Level
    <3> QED
      BY <1>0, <1>1, <1>2, <1>3, <3>1 DEF Tokens
  <2>2. since[q] <= seen[k]
    BY <1>0, <1>3 DEF LimitInv, Recent
  <2>3. now - since[q] <= Stall => Horizon(k) = now
    <3>1. seen[k] <= now
      BY <1>0, <1>1, <1>3, TokensTyped
    <3> QED
      BY <1>1, <2>2, <3>1, Numbers DEF Horizon
  <2> QED
    BY <1>0, <1>1, <1>2, <2>1, <2>3, Numbers
<1>4. CASE entry[k] # n
  <2>1. since[q] + IdleAfter < now
    BY <1>0, <1>4 DEF LimitInv, Recent
  <2>2. ~(now - since[q] <= Stall)
    <3> SUFFICES ASSUME now - since[q] <= Stall PROVE FALSE
      OBVIOUS
    <3>1. PICK d \in Int : d = IdleAfter + 1 - Stall /\ d <= 0
      BY <1>1, <2>1, Numbers
    <3>2. Gain(d) <= Gain(0) /\ Gain(0) = 0 /\ Gain(d) \in Int
      BY <3>1, Products
    <3>3. Burst <= Gain(d)
      BY <3>1 DEF Refills, Gain
    <3> QED
      BY <1>0, <3>2, <3>3, Numbers
  <2>3. Tokens(k)' = Tokens(k)
    BY <1>0, <1>1, <1>4 DEF Tokens, Level
  <2> QED
    BY <1>0, <1>1, <2>1, <2>2, <2>3, Numbers
<1> QED
  BY <1>3, <1>4

LEMMA AdmitFits ==
  ASSUME LimitInv, NEW q \in Request, NEW k, NEW n, NEW x, AdmitDone(q, k, n, x), q \in Waiting,
         Refills
  PROVE  Spent' /\ WithinRate'
<1>0. /\ k \in Keys /\ now' = now /\ entry' = entry /\ seen' = seen
      /\ n \in Request /\ Serves(n, k)
      /\ \A p \in Request \ {n} : bucket'[p] = bucket[p]
      /\ \A j \in Keys \ {k} : admitted'[j] = admitted[j] /\ late'[j] = late[j]
      /\ Len(admitted'[k]) = Len(admitted[k]) + 1
      /\ \A i \in 1..Len(admitted[k]) : admitted'[k][i] = admitted[k][i]
      /\ admitted'[k][Len(admitted[k]) + 1] = now
      /\ DOMAIN admitted'[k] = 1..(Len(admitted[k]) + 1)
  BY DEF AdmitDone
<1>1. /\ Tokens(k)' \in Nat /\ Tokens(k)' <= Tokens(k)
      /\ \/ /\ late'[k] = late[k] /\ Tokens(k) >= 1 /\ Tokens(k)' = Tokens(k) - 1
            /\ Horizon(k)' = now
         \/ late'[k] = late[k] + 1 /\ Horizon(k)' = Horizon(k)
  BY AdmitSpends
<1>2. Spent /\ WithinRate
  BY DEF LimitInv
<1>3. /\ Tokens(k) \in Nat /\ Tokens(k) <= Burst /\ Horizon(k) \in Int /\ Horizon(k) <= now
      /\ now \in Int /\ late[k] \in Nat /\ now <= now
  BY <1>0, TokensTyped, Typed, Numbers
<1>4. PICK len \in Nat : len = Len(admitted[k]) /\ DOMAIN admitted[k] = 1..len
  BY <1>0, Typed
<1>5. ASSUME NEW i \in DOMAIN admitted[k]
      PROVE  Fits(Since(k, i)', admitted'[k][i], late'[k], Tokens(k)', Horizon(k)', now)
  <2>1. PICK c \in Int, t \in Int : /\ c = Since(k, i) /\ t = admitted[k][i]
                                    /\ Since(k, i)' = c + 1 /\ admitted'[k][i] = t
    BY AdmitKeeps
  <2>2. Fits(c, t, late[k], Tokens(k), Horizon(k), now)
    BY <1>0, <1>2, <2>1 DEF Spent
  <2>3. /\ Tokens(k) >= 1 => Fits(c + 1, t, late[k], Tokens(k) - 1, now, now)
        /\ \A y \in Int : y <= Tokens(k) => Fits(c + 1, t, late[k] + 1, y, Horizon(k), now)
    <3>1. PICK l \in Int, y \in Nat, h \in Int, a \in Int :
            l = late[k] /\ y = Tokens(k) /\ h = Horizon(k) /\ a = now
      BY <1>3
    <3>2. Fits(c, t, l, y, h, a)
      BY <2>2, <3>1
    <3> QED
      BY <3>1, <3>2, FitsAdmit
  <2> QED
    BY <1>1, <1>3, <2>1, <2>3
<1>6. Fits(1, now, late'[k], Tokens(k)', Horizon(k)', now)
  <2>1. CASE late'[k] = late[k] /\ Tokens(k) >= 1 /\ Tokens(k)' = Tokens(k) - 1 /\ Horizon(k)' = now
    <3>1. PICK l \in Nat, y \in Int, a \in Int : l = late[k] /\ y = Tokens(k) /\ a = now
      BY <1>3
    <3>2. Fits(1, a, l, y - 1, a, a)
      BY <1>3, <2>1, <3>1, FitsFirst
    <3> QED
      BY <2>1, <3>1, <3>2
  <2>2. CASE late'[k] = late[k] + 1 /\ Horizon(k)' = Horizon(k)
    <3>1. late[k] + 1 \in Nat /\ late[k] + 1 >= 1 /\ Tokens(k)' \in Int /\ Tokens(k)' <= Burst
      BY <1>1, <1>3, Numbers
    <3> QED
      BY <1>3, <2>2, <3>1, FitsFirst
  <2> QED
    BY <1>1, <2>1, <2>2
<1>7. ASSUME NEW i \in DOMAIN admitted'[k]
      PROVE  Fits(Since(k, i)', admitted'[k][i], late'[k], Tokens(k)', Horizon(k)', now)
  <2>1. i \in 1..len \/ i = len + 1
    BY <1>0, <1>4
  <2>2. CASE i \in 1..len
    BY <1>4, <1>5, <2>2
  <2>3. CASE i = len + 1
    <3>1. Since(k, i)' = 1 /\ admitted'[k][i] = now
      BY <1>0, <1>4, <2>3 DEF Since
    <3> QED
      BY <1>6, <3>1
  <2> QED
    BY <2>1, <2>2, <2>3
<1>8. Spent'
  <2> SUFFICES ASSUME NEW j \in Keys, NEW i \in DOMAIN admitted'[j]
               PROVE  Fits(Since(j, i)', admitted'[j][i], late'[j], Tokens(j)', Horizon(j)', now)
    BY <1>0 DEF Spent
  <2>1. CASE j = k
    BY <1>7, <2>1
  <2>2. CASE j # k
    <3>1. entry[j] # n
      BY <1>0, <2>2 DEF LimitInv, Owned, Serves
    <3>2. entry[j] \in Request \cup {Nil}
      BY Typed
    <3>3. Tokens(j)' = Tokens(j) /\ Horizon(j)' = Horizon(j) /\ Since(j, i)' = Since(j, i)
          /\ admitted'[j] = admitted[j] /\ late'[j] = late[j]
      BY <1>0, <2>2, <3>1, <3>2 DEF Tokens, Horizon, Since, Level
    <3> QED
      BY <1>2, <3>3 DEF Spent
  <2> QED
    BY <2>1, <2>2
<1>9. WithinRate'
  <2> SUFFICES ASSUME NEW j \in Keys, NEW a \in DOMAIN admitted'[j], NEW b \in DOMAIN admitted'[j], a <= b
               PROVE  b - a + 1 <= Burst + Rate * (admitted'[j][b] - admitted'[j][a]) + late'[j]
    BY DEF WithinRate
  <2>1. CASE j # k
    BY <1>0, <1>2, <2>1 DEF WithinRate
  <2>2. CASE j = k /\ b # len + 1
    <3>1. a \in DOMAIN admitted[k] /\ b \in DOMAIN admitted[k]
      BY <1>0, <1>4, <2>2
    <3>2. b - a + 1 <= Burst + Rate * (admitted[k][b] - admitted[k][a]) + late[k]
      BY <1>0, <1>2, <3>1 DEF WithinRate
    <3>3. admitted'[k][a] = admitted[k][a] /\ admitted'[k][b] = admitted[k][b]
      BY <3>1, AdmitKeeps
    <3>4. admitted[k][a] \in Nat /\ admitted[k][b] \in Nat /\ a \in Nat /\ b \in Nat
      BY <3>1, AdmitKeeps
    <3>5. PICK d \in Int : d = admitted[k][b] - admitted[k][a]
      BY <3>4
    <3>6. Rate * d \in Int /\ b - a + 1 <= Burst + Rate * d + late[k]
      BY <3>2, <3>5, Products DEF Gain
    <3>7. late'[k] \in Nat /\ late'[k] >= late[k]
      BY <1>1, <1>3
    <3>8. b - a + 1 <= Burst + Rate * d + late'[k]
      <4>1. PICK g \in Int : g = Rate * d
        BY <3>6
      <4> QED
        BY <1>3, <3>4, <3>6, <3>7, <4>1, Numbers
    <3> QED
      BY <2>2, <3>3, <3>5, <3>8
  <2>3. CASE j = k /\ b = len + 1
    <3>1. PICK t \in Int : t = admitted'[k][a] /\ t <= now
      <4>1. CASE a = len + 1
        BY <1>0, <1>3, <1>4, <4>1
      <4>2. CASE a # len + 1
        <5>1. a \in DOMAIN admitted[k]
          BY <1>0, <1>4, <2>3, <4>2
        <5> QED
          BY <1>7, <2>3, <5>1, AdmitKeeps DEF Fits
      <4> QED
        BY <4>1, <4>2
    <3>2. Since(k, a)' = b - a + 1 /\ b - a + 1 \in Int
      BY <1>0, <1>4, <2>3 DEF Since
    <3>3. b - a + 1 + Tokens(k)' <= Burst + Gain(now - t) + late'[k]
      BY <1>7, <2>3, <3>1, <3>2 DEF Fits
    <3>4. Gain(now - t) \in Int /\ late'[k] \in Int
      BY <1>1, <1>3, <3>1, GainSince
    <3>5. b - a + 1 <= Burst + Gain(now - t) + late'[k]
      BY <1>1, <3>2, <3>3, <3>4, Numbers
    <3> QED
      BY <1>0, <1>4, <2>3, <3>1, <3>5 DEF Gain
  <2> QED
    BY <2>1, <2>2, <2>3
<1> QED
  BY <1>8, <1>9

LEMMA AdmitStep ==
  ASSUME LimitInv, NEW q \in Request, Admit(q)
  PROVE  LimitInv'
<1>1. PICK k, n, x : AdmitDone(q, k, n, x)
  BY AdmitFacts
<1>2. /\ LimitTypeOK' /\ Owned' /\ Attributed' /\ Recent'
      /\ \A m \in Request, j \in Keys : Serves(m, j)' => Serves(m, j)
  BY AdmitFacts
<1>3. q \in Waiting
  BY DEF Admit, Waiting
<1>4. \A m \in Request, j \in Keys : Serves(m, j)' => Charged(m, j)'
  BY <1>1, <1>2, AdmitCharges
<1>5. Refills => Spent' /\ WithinRate'
  BY <1>1, <1>3, AdmitFits
<1> QED
  BY <1>2, <1>4, <1>5 DEF LimitInv, Refills

LEMMA SinceTyped ==
  ASSUME LimitInv, NEW k \in Keys, NEW i \in DOMAIN admitted[k]
  PROVE  /\ Since(k, i) \in Int /\ admitted[k][i] \in Nat /\ late[k] \in Int
         /\ Len(admitted[k]) - i + 2 = Since(k, i) + 1
<1>1. PICK len \in Nat : len = Len(admitted[k]) /\ DOMAIN admitted[k] = 1..len
  BY Typed
<1>2. i \in 1..len /\ len - i + 1 \in Int /\ len - i + 2 = (len - i + 1) + 1
  BY <1>1
<1> QED
  BY <1>1, <1>2, Typed DEF Since

LEMMA ClockStep ==
  ASSUME LimitInv, ClockTicks
  PROVE  LimitInv'
<1>1. /\ now' = now + 1 /\ now < MaxNow /\ now \in Nat /\ now \in 0..MaxNow
      /\ entry' = entry /\ seen' = seen /\ lastSweep' = lastSweep /\ bucket' = bucket
      /\ phase' = phase /\ sender' = sender /\ key' = key /\ got' = got /\ since' = since
      /\ admitted' = admitted /\ late' = late
  BY Typed DEF ClockTicks, map, attribution
<1>2. LimitTypeOK'
  <2>1. now' \in 0..MaxNow
    BY <1>1, Numbers
  <2> QED
    BY <1>1, <2>1 DEF LimitInv, LimitTypeOK
<1>3. Waiting' = Waiting /\ \A n \in Request, j \in Keys : Serves(n, j)' <=> Serves(n, j)
  BY <1>1 DEF Waiting, Serves
<1>4. Owned'
  <2>1. \A n \in Request : bucket'[n] # Nil => bucket'[n].last <= now'
    BY <1>1, Typed
  <2> QED
    BY <1>1, <1>3, <2>1 DEF LimitInv, Owned
<1>5. Attributed'
  BY <1>1, <1>3 DEF LimitInv, Attributed, IsTrusted, KeyOf
<1>6. Recent'
  <2>1. lastSweep \in Nat /\ lastSweep <= now
    BY Numbers DEF LimitInv, LimitTypeOK, Recent
  <2>2. ASSUME NEW j \in Keys, entry[j] # Nil
        PROVE  seen[j] <= now + 1 /\ lastSweep <= seen[j] + IdleAfter
    BY <1>1, <2>2, Typed DEF LimitInv, Recent
  <2>3. ASSUME NEW q \in Waiting
        PROVE  /\ since[q] <= now + 1
               /\ IF got[q] = entry[key[q]] THEN since[q] <= seen[key[q]]
                                           ELSE since[q] + IdleAfter < now + 1
    <3>1. since[q] \in Nat
      BY GotLimiter
    <3> QED
      BY <1>1, <3>1, Numbers DEF LimitInv, Recent
  <2> QED
    BY <1>1, <1>3, <2>1, <2>2, <2>3 DEF Recent
<1>7. \A n \in Request, j \in Keys : Serves(n, j)' => Charged(n, j)'
  BY <1>1, <1>3 DEF LimitInv, Charged, Since
<1>8. ASSUME Refills PROVE Spent' /\ WithinRate'
  <2>1. Spent /\ WithinRate
    BY <1>8 DEF LimitInv
  <2>2. WithinRate'
    BY <1>1, <2>1 DEF WithinRate
  <2>3. ASSUME NEW j \in Keys, NEW i \in DOMAIN admitted[j]
        PROVE  Fits(Since(j, i), admitted[j][i], late[j], Tokens(j)', Horizon(j)', now + 1)
    <3>1. PICK c \in Int, t \in Int, l \in Int, x \in Int, h \in Int, a \in Int :
            /\ c = Since(j, i) /\ t = admitted[j][i] /\ l = late[j]
            /\ x = Tokens(j) /\ h = Horizon(j) /\ a = now
      <4>1. Since(j, i) \in Int /\ admitted[j][i] \in Int /\ late[j] \in Int
        BY SinceTyped
      <4>2. Tokens(j) \in Int /\ Horizon(j) \in Int /\ now \in Int
        BY <1>1, TokensTyped, Numbers
      <4> QED
        BY <4>1, <4>2
    <3>2. Fits(c, t, l, x, h, a)
      BY <2>1, <3>1 DEF Spent
    <3>3. PICK y \in Int : y = Tokens(j)' /\ y <= x + Rate
      <4>1. CASE entry[j] = Nil
        BY <1>1, <3>1, <4>1, Numbers DEF Tokens
      <4>2. CASE entry[j] # Nil
        <5>1. /\ bucket[entry[j]] \in Buckets /\ bucket[entry[j]].last <= now
              /\ entry[j] \in Request
          BY <4>2, Typed, TokensTyped
        <5>2. Level(bucket[entry[j]])' <= Level(bucket[entry[j]]) + Rate
          <6>1. PICK b \in Buckets : b = bucket[entry[j]] /\ b.last <= now
            BY <5>1
          <6>2. Level(b)' <= Level(b) + Rate
            BY <1>1, <6>1, LevelTicks
          <6> QED
            BY <1>1, <6>1, <6>2 DEF Level
        <5>3. Tokens(j)' \in Int
          <6>1. [tokens |-> bucket[entry[j]].tokens, last |-> bucket[entry[j]].last] \in Buckets
            BY <5>1 DEF Buckets
          <6>2. bucket[entry[j]].tokens \in Nat /\ bucket[entry[j]].last \in Nat
            BY <4>2, <5>1, Typed, Numbers, TokensTyped
          <6>3. Gain((now + 1) - bucket[entry[j]].last) \in Int
            BY <1>1, <6>2, Products
          <6> QED
            BY <1>1, <4>2, <6>2, <6>3, Numbers DEF Tokens, Level, Gain
        <5> QED
          BY <1>1, <3>1, <4>2, <5>2, <5>3 DEF Tokens
      <4> QED
        BY <4>1, <4>2
    <3>4. PICK g \in Int : g = Horizon(j)' /\ h <= g /\ g <= a + 1
      <4>1. seen[j] \in Nat
        BY Typed
      <4> QED
        BY <1>1, <3>1, <4>1, Numbers DEF Horizon
    <3>5. Fits(c, t, l, y, g, a + 1)
      BY <3>2, <3>3, <3>4, FitsTick
    <3> QED
      BY <3>1, <3>3, <3>4, <3>5
  <2>4. Spent'
    BY <1>1, <2>3 DEF Spent, Since
  <2> QED
    BY <2>2, <2>4
<1> QED
  BY <1>2, <1>4, <1>5, <1>6, <1>7, <1>8 DEF LimitInv, Refills

LEMMA LimitStep == LimitInv /\ [LimitNext]_limitVars => LimitInv'
<1> SUFFICES ASSUME LimitInv, [LimitNext]_limitVars PROVE LimitInv'
  OBVIOUS
<1>1. ASSUME NEW q \in Request, NEW s \in Sender, NEW h \in Forged, NEW route \in Routes,
             Arrive(q, s, h, route)
      PROVE  LimitInv'
  BY <1>1, ArriveStep
<1>2. ASSUME NEW q \in Request, Admit(q) PROVE LimitInv'
  BY <1>2, AdmitStep
<1>3. ASSUME NEW q \in Request, Refuse(q) PROVE LimitInv'
  BY <1>3, TurnedAwayStep
<1>4. CASE ClockTicks
  BY <1>4, ClockStep
<1>5. CASE UNCHANGED limitVars
  <2>1. /\ now' = now /\ entry' = entry /\ seen' = seen /\ lastSweep' = lastSweep
        /\ bucket' = bucket /\ phase' = phase /\ sender' = sender /\ key' = key /\ got' = got
        /\ since' = since /\ admitted' = admitted /\ late' = late
    BY <1>5 DEF limitVars, map, attribution
  <2>2. LimitTypeOK' /\ Owned' /\ Attributed' /\ Recent'
    BY <2>1 DEF LimitInv, LimitTypeOK, Owned, Attributed, Recent, Serves, Waiting, IsTrusted, KeyOf
  <2>3. \A n \in Request, j \in Keys : Serves(n, j)' => Charged(n, j)'
    BY <2>1 DEF LimitInv, Serves, Waiting, Charged, Since
  <2>4. Refills => Spent' /\ WithinRate'
    BY <2>1 DEF LimitInv, Spent, WithinRate, Since, Tokens, Horizon, Fits, Level, Gain
  <2> QED
    BY <2>2, <2>3, <2>4 DEF LimitInv, Refills
<1> QED
  BY <1>1, <1>2, <1>3, <1>4, <1>5 DEF LimitNext

\* The invariant of the rate limiter.
THEOREM LimitInvariance == LimitSpec => []LimitInv
<1> QED
  BY LimitInitInv, LimitStep, PTL DEF LimitSpec

\* The types of the clock, the map of limiters, their buckets and the requests on their way.
THEOREM LimitTypeCorrect == LimitSpec => []LimitTypeOK
<1>1. LimitInv => LimitTypeOK
  BY DEF LimitInv
<1> QED
  BY <1>1, LimitInvariance, PTL

\* However many requests come through trusted proxies with whatever headers, and however
\* their turns at the limiter are mixed, two that wait share a bucket exactly if one
\* client sent them (RealIP, rateLimitKey).
THEOREM SenderAlwaysPays == LimitSpec => []SenderPays
<1>1. LimitInv => SenderPays
  <2> SUFFICES ASSUME LimitInv, NEW q \in Request, NEW r \in Request,
                      phase[q] = "waiting", ~IsTrusted(sender[q]),
                      phase[r] = "waiting", ~IsTrusted(sender[r])
               PROVE  key[q] = key[r] <=> SameClient(sender[q], sender[r])
    BY DEF SenderPays
  <2>1. /\ sender[q] \in Address /\ key[q] = KeyOf(sender[q])
        /\ sender[r] \in Address /\ key[r] = KeyOf(sender[r])
    BY AddressAssumption DEF LimitInv, Attributed, Waiting
  <2> QED
    BY <2>1, KeysTellClients
<1> QED
  BY <1>1, LimitInvariance, PTL

\* When a request has passed, what was idle for both periods is gone (get).
THEOREM IdleAlwaysGone == LimitSpec => IdleAreGone
<1>1. LimitInv /\ LimitInv' /\ [LimitNext]_limitVars =>
        [\A q \in Request : phase[q] = "new" /\ phase'[q] = "waiting" =>
           \A k \in Keys : entry'[k] # Nil => now - seen'[k] <= IdleAfter + SweepEvery]_limitVars
  <2> SUFFICES ASSUME LimitInv, LimitInv', LimitNext, NEW p \in Request,
                      phase[p] = "new", phase'[p] = "waiting", NEW j \in Keys, entry'[j] # Nil
               PROVE  now - seen'[j] <= IdleAfter + SweepEvery
    OBVIOUS
  <2>1. PICK q \in Request, s \in Sender, h \in Forged, route \in Routes : Arrive(q, s, h, route)
    <3>1. ASSUME NEW q \in Request, Admit(q) \/ Refuse(q) PROVE phase'[p] # "waiting" \/ phase[p] # "new"
      BY <3>1 DEF Admit, Refuse, Decide, LimitInv, LimitTypeOK
    <3>2. ~ClockTicks
      BY DEF ClockTicks
    <3> QED
      BY <3>1, <3>2 DEF LimitNext
  <2>2. lastSweep' = IF now - lastSweep > SweepEvery THEN now ELSE lastSweep
    BY <2>1 DEF Arrive, Get
  <2>3. now' = now /\ now \in Nat /\ lastSweep \in Nat /\ lastSweep <= now
    BY <2>1, Typed, Numbers DEF Arrive, LimitInv, LimitTypeOK, Recent
  <2>4. seen'[j] \in Nat /\ lastSweep' <= seen'[j] + IdleAfter
    BY Numbers DEF LimitInv, LimitTypeOK, Recent
  <2> QED
    BY <2>2, <2>3, <2>4, Numbers
<1> QED
  BY <1>1, LimitInvariance, LimitStep, PTL DEF LimitSpec, IdleAreGone

\* No client is admitted more than its bucket allows, in any window and whatever is
\* evicted in it, and one that is refused has used up its own tokens (get, Allow).
THEOREM BucketIsItsOwn == LimitSpec => OwnBucket
<1>1. LimitInv /\ LimitInv' /\ [LimitNext]_limitVars =>
        [/\ WithinRate'
         /\ \A q \in Request :
              phase[q] = "waiting" /\ phase'[q] = "done" /\ admitted' = admitted => Earned(q)]_limitVars
  <2> SUFFICES ASSUME LimitInv, LimitInv', LimitNext
               PROVE  /\ WithinRate'
                      /\ \A q \in Request :
                           phase[q] = "waiting" /\ phase'[q] = "done" /\ admitted' = admitted
                             => Earned(q)
    OBVIOUS
  <2>1. WithinRate'
    <3>1. CASE Refills
      BY <3>1 DEF LimitInv, Refills
    <3>2. CASE ~Refills
      BY <3>2 DEF WithinRate, Refills
    <3> QED
      BY <3>1, <3>2
  <2>2. ASSUME NEW q \in Request, phase[q] = "waiting", phase'[q] = "done", admitted' = admitted
        PROVE  Earned(q)
    <3>1. q \in Waiting
      BY <2>2 DEF Waiting
    <3>2. Refuse(q)
      <4>1. ASSUME NEW p \in Request, Admit(p) PROVE FALSE
        <5>1. PICK k, n, x : AdmitDone(p, k, n, x)
          BY <4>1, AdmitFacts
        <5>2. k \in Keys /\ Len(admitted'[k]) = Len(admitted[k]) + 1
          BY <5>1 DEF AdmitDone
        <5>3. Len(admitted[k]) \in Nat
          BY <5>2, Typed
        <5> QED
          BY <2>2, <5>2, <5>3
      <4>2. ASSUME NEW p \in Request, Refuse(p), p # q PROVE FALSE
        BY <2>2, <4>2 DEF Refuse, Decide, LimitInv, LimitTypeOK
      <4>3. ASSUME NEW p \in Request, NEW s \in Sender, NEW h \in Forged, NEW route \in Routes,
                   Arrive(p, s, h, route)
            PROVE  FALSE
        BY <2>2, <4>3 DEF Arrive, LimitInv, LimitTypeOK
      <4>4. ~ClockTicks
        BY <2>2 DEF ClockTicks
      <4> QED
        BY <4>1, <4>2, <4>3, <4>4 DEF LimitNext
    <3> DEFINE k == key[q]
               b == bucket[got[q]]
    <3>3. /\ k \in Keys /\ Charged(got[q], k) /\ b \in Buckets /\ b.last <= now
          /\ now \in 0..MaxNow /\ now \in Nat /\ b.tokens \in 0..Burst /\ b.last \in Nat
      BY <3>1, GotLimiter, Typed
    <3>4. Level(b) < 1
      BY <3>2 DEF Refuse
    <3>5. CASE b.tokens = Burst
      <4>1. Burst = 0
        BY <3>3, <3>4, <3>5, LevelBounds, Numbers
      <4> QED
        BY <4>1 DEF Earned
    <3>6. CASE b.tokens # Burst
      <4>1. PICK i \in DOMAIN admitted[k] : Since(k, i) + b.tokens >= Burst + Gain(b.last - admitted[k][i])
        BY <3>3, <3>6 DEF Charged, Gain
      <4>2. PICK t \in Nat, c \in Int : /\ t = admitted[k][i] /\ c = Since(k, i)
                                        /\ Len(admitted[k]) - i + 2 = c + 1
        BY <3>3, SinceTyped
      <4>3. CASE Burst = 0
        BY <4>3 DEF Earned
      <4>4. CASE Burst # 0
        <5>1. b.tokens + Gain(now - b.last) < 1
          BY <3>3, <3>4, <4>4, LevelBounds, Numbers
        <5>2. PICK d \in Int, e \in Int : d = now - b.last /\ e = b.last - t
          <6> HIDE DEF b
          <6> QED
            BY <3>3
        <5>3. Gain(d + e) = Gain(d) + Gain(e) /\ Gain(d) \in Int /\ Gain(e) \in Int
          BY Products
        <5>4. d + e = now - t
          BY <3>3, <5>2
        <5>5. Gain(now - t) = Gain(d) + Gain(e) /\ b.tokens + Gain(d) < 1
              /\ c + b.tokens >= Burst + Gain(e)
          BY <4>1, <4>2, <5>1, <5>2, <5>3, <5>4
        <5>6. c + 1 > Burst + Gain(now - t)
          <6> HIDE DEF Gain, b
          <6> QED
            BY <3>3, <5>3, <5>5, Numbers
        <5>7. \E m \in DOMAIN admitted[k] :
                Len(admitted[k]) - m + 2 > Burst + Rate * (now - admitted[k][m])
          BY <4>2, <5>6 DEF Gain
        <5> QED
          BY <5>7 DEF Earned
      <4> QED
        BY <4>3, <4>4
    <3> QED
      BY <3>5, <3>6
  <2> QED
    BY <2>1, <2>2
<1> QED
  BY <1>1, LimitInvariance, LimitStep, PTL DEF LimitSpec, OwnBucket

-----------------------------------------------------------------------------
(* The router *)

LEMMA Stages ==
  ASSUME NEW q
  PROVE  /\ DOMAIN Order = 1..9
         /\ Stage(Order[1], q) = CORS(q) /\ Stage(Order[2], q) = Limit(q)
         /\ Stage(Order[3], q) = MaxBytes(q) /\ Stage(Order[4], q) = Route(q)
         /\ Stage(Order[5], q) = Bind(q) /\ Stage(Order[6], q) = SingleJSONDocument(q)
         /\ Stage(Order[7], q) = Validate(q) /\ Stage(Order[8], q) = Mounted(q)
         /\ Stage(Order[9], q) = Handle(q)
         /\ Order[1] = "CORS"
BY DEF Order, Stage

\* The handler answers what no stage did.
LEMMA HandlerAnswers ==
  ASSUME NEW q
  PROVE  Handle(q).called /\ Handle(q) # Pass
BY DEF Handle, Recoverer, Says, Pass

\* One stage decides, and those before it passed the request on.
LEMMA OneDecides ==
  ASSUME NEW q
  PROVE  /\ Deciding(q) \in 1..9 /\ Answer(q) = Stage(Order[Deciding(q)], q)
         /\ Answer(q) # Pass
         /\ \A j \in 1..(Deciding(q) - 1) : Stage(Order[j], q) = Pass
<1> DEFINE S == {i \in 1..9 : Stage(Order[i], q) # Pass}
<1>1. 9 \in S
  BY Stages, HandlerAnswers
<1>2. PICK i \in S : \A j \in S : i <= j
  BY <1>1, LeastNatural
<1>3. \A j \in 1..(i - 1) : Stage(Order[j], q) = Pass
  BY <1>2
<1>4. \E d \in DOMAIN Order :
        Stage(Order[d], q) # Pass /\ \A j \in 1..(d - 1) : Stage(Order[j], q) = Pass
  BY <1>2, <1>3, Stages
<1> QED
  BY <1>4, Stages DEF Deciding, Answer

LEMMA Fields ==
  /\ Pass.status = 0 /\ ~Pass.called /\ Pass.challenge = "no"
  /\ \A n \in Nat : Says(n).status = n /\ ~Says(n).called /\ Says(n).challenge = "no"
  /\ \A n \in Nat \ {0} : Says(n) # Pass
  /\ \A q : /\ Unauthorized(q).status = 401 /\ ~Unauthorized(q).called
            /\ Unauthorized(q).challenge =
                 IF q.credentials = "none" THEN "plain" ELSE "invalid_token"
            /\ Unauthorized(q) # Pass
BY DEF Says, Pass, Unauthorized

\* What a stage may answer.
LEMMA Replies ==
  ASSUME NEW q \in Requests
  PROVE  /\ CORS(q) \in {Pass, Says(204)} /\ Limit(q) \in {Pass, Says(429)}
         /\ Route(q) \in {Pass, Says(404), Says(405)} /\ Bind(q) \in {Pass, Says(400)}
         /\ Mounted(q) \in {Pass, Says(401)} /\ (Mounted(q) # Pass => q.target = "mount")
         /\ MaxBytes(q) \in {Pass, Says(413)} /\ (MaxBytes(q) # Pass => q.size # "fits")
         /\ \/ SingleJSONDocument(q) \in {Pass, Says(400)}
            \/ SingleJSONDocument(q) = Says(413) /\ q.size # "fits"
         /\ \/ Security(q) = Pass /\ Verified(q) /\ q.size = "fits"
            \/ Security(q) = Says(413) /\ q.size # "fits"
            \/ Security(q) = Unauthorized(q) /\ ~Verified(q) /\ q.size = "fits"
         /\ \/ Validate(q) \in {Pass, Says(400)} /\ (q.target \in Protected => Security(q) = Pass)
            \/ Validate(q) = Security(q) /\ q.target \in Protected
<1>1. CORS(q) \in {Pass, Says(204)} /\ Limit(q) \in {Pass, Says(429)}
  BY DEF CORS, Limit
<1>2. Route(q) \in {Pass, Says(404), Says(405)} /\ Bind(q) \in {Pass, Says(400)}
  BY DEF Route, Bind
<1>3. /\ Mounted(q) \in {Pass, Says(401)} /\ (Mounted(q) # Pass => q.target = "mount")
      /\ MaxBytes(q) \in {Pass, Says(413)} /\ (MaxBytes(q) # Pass => q.size # "fits")
  BY DEF Mounted, MaxBytes
<1>4. \/ SingleJSONDocument(q) \in {Pass, Says(400)}
      \/ SingleJSONDocument(q) = Says(413) /\ q.size # "fits"
  <2>1. CASE q.target \notin Operations \/ q.body = "not json"
    BY <2>1 DEF SingleJSONDocument
  <2>2. CASE ~(q.target \notin Operations \/ q.body = "not json") /\ q.size = "streamed"
    BY <2>2 DEF SingleJSONDocument
  <2>3. CASE ~(q.target \notin Operations \/ q.body = "not json") /\ q.size # "streamed"
    BY <2>3 DEF SingleJSONDocument
  <2> QED
    BY <2>1, <2>2, <2>3
<1>5. \/ Security(q) = Pass /\ Verified(q) /\ q.size = "fits"
      \/ Security(q) = Says(413) /\ q.size # "fits"
      \/ Security(q) = Unauthorized(q) /\ ~Verified(q) /\ q.size = "fits"
  <2>1. CASE q.size # "fits"
    BY <2>1 DEF Security
  <2>2. CASE q.size = "fits" /\ Verified(q)
    BY <2>2 DEF Security
  <2>3. CASE q.size = "fits" /\ ~Verified(q)
    BY <2>3 DEF Security
  <2> QED
    BY <2>1, <2>2, <2>3
<1>6. \/ Validate(q) \in {Pass, Says(400)} /\ (q.target \in Protected => Security(q) = Pass)
      \/ Validate(q) = Security(q) /\ q.target \in Protected
  BY DEF Validate
<1> QED
  BY <1>1, <1>2, <1>3, <1>4, <1>5, <1>6

\* How a handler ends.
LEMMA Ends ==
  ASSUME NEW q
  PROVE  /\ Handle(q).called /\ Handle(q).status \in {0, 200, 403, 500} /\ Handle(q).challenge = "no"
         /\ Handle(q).status = 200 /\ q.target \in Protected => q.credentials = "writer"
<1>1. CASE q.handler # "returns"
  BY <1>1 DEF Handle, Recoverer, Says, Pass
<1>2. CASE q.handler = "returns" /\ q.target \in Protected /\ q.credentials # "writer"
  BY <1>2 DEF Handle, Says, Pass
<1>3. CASE q.handler = "returns" /\ ~(q.target \in Protected /\ q.credentials # "writer")
  BY <1>3 DEF Handle, Says, Pass
<1> QED
  BY <1>1, <1>2, <1>3

\* What an answer tells of the stage that gave it, and of those that passed.
LEMMA AnswerTells ==
  ASSUME NEW q \in Requests
  PROVE  \/ /\ Answer(q) = Handle(q) /\ Mounted(q) = Pass
            /\ Validate(q) = Pass
         \/ Answer(q) = Unauthorized(q) /\ Security(q) = Answer(q) /\ q.target \in Protected
         \/ Answer(q) = Says(401) /\ q.target = "mount"
         \/ Answer(q) = Says(413) /\ q.size # "fits"
         \/ Answer(q) \in {Says(204), Says(400), Says(404), Says(405), Says(429)}
<1>1. PICK d \in 1..9 : /\ Answer(q) = Stage(Order[d], q) /\ Answer(q) # Pass
                        /\ \A j \in 1..(d - 1) : Stage(Order[j], q) = Pass
  BY OneDecides
<1>2. d = 1 \/ d = 2 \/ d = 3 \/ d = 4 \/ d = 5 \/ d = 6 \/ d = 7 \/ d = 8 \/ d = 9
  BY <1>1
<1>3. CASE d = 1 \/ d = 2 \/ d = 3 \/ d = 4 \/ d = 5 \/ d = 6
  <2>1. Answer(q) \in {CORS(q), Limit(q), MaxBytes(q), Route(q), Bind(q), SingleJSONDocument(q)}
    BY <1>1, <1>3, Stages
  <2> QED
    BY <1>1, <2>1, Replies
<1>4. CASE d = 7
  <2>1. Answer(q) = Validate(q)
    BY <1>1, <1>4, Stages
  <2> QED
    BY <1>1, <2>1, Replies
<1>5. CASE d = 8
  <2>1. Answer(q) = Mounted(q)
    BY <1>1, <1>5, Stages
  <2> QED
    BY <1>1, <2>1, Replies
<1>6. CASE d = 9
  <2>1. 7 \in 1..(d - 1) /\ 8 \in 1..(d - 1)
    BY <1>6
  <2>2. Answer(q) = Handle(q) /\ Validate(q) = Pass /\ Mounted(q) = Pass
    BY <1>1, <1>6, <2>1, Stages
  <2> QED
    BY <2>2
<1> QED
  BY <1>2, <1>3, <1>4, <1>5, <1>6

\* Whatever is wrong with a request, the answer is the right one (NewRouter): no
\* handler runs unverified, a refusal is for the reason there is, and the page that
\* may read it can.
THEOREM RouterAnswersRight == PipelineSpec => []AnswerRight
<1>1. PipelineInit => request \in Requests \cup {NoRequest}
  BY DEF PipelineInit
<1>2. request \in Requests \cup {NoRequest} /\ [Receive]_request
        => (request \in Requests \cup {NoRequest})'
  BY DEF Receive
<1>3. request \in Requests \cup {NoRequest} => AnswerRight
  <2> SUFFICES ASSUME request \in Requests PROVE AnswerRight
    BY DEF AnswerRight, NoneUnverified, RefusedForTheReason, AllowedReadAnswers
  <2>1. PICK q \in Requests : q = request
    OBVIOUS
  <2>a. PICK a : a = Answer(q)
    OBVIOUS
  <2>0. AllowedReadAnswers
    <3>1. Order[1] = "CORS" /\ 1 \in 1..Deciding(request)
      BY OneDecides, Stages
    <3> QED
      BY <3>1 DEF AllowedReadAnswers, Readable
  <2>2. CASE a = Handle(q) /\ Mounted(q) = Pass /\ Validate(q) = Pass
    <3>1. a.called /\ a.status \notin {401, 413} /\ a.challenge = "no"
          /\ (a.status = 200 /\ q.target \in Protected => q.credentials = "writer")
      BY <2>2, Ends
    <3>2. q.target \in Protected => Verified(q) /\ q.size = "fits"
      BY <2>2, Replies, Fields
    <3>3. ~Refused(q)
      BY <2>2, Fields DEF Validate
    <3>4. q.target = "mount" => Verified(q)
      BY <2>2, Fields DEF Mounted
    <3> QED
      BY <2>0, <2>1, <2>a, <3>1, <3>2, <3>3, <3>4 DEF AnswerRight, NoneUnverified, RefusedForTheReason
  <2>3. CASE a = Unauthorized(q) /\ Security(q) = a /\ q.target \in Protected
    <3>1. ~Verified(q) /\ q.size = "fits"
      BY <2>3, Replies, Fields
    <3>2. ~a.called /\ a.status = 401 /\ a.challenge # "no"
          /\ (a.challenge = "invalid_token" => q.credentials # "none")
      BY <2>3, Fields
    <3> QED
      BY <2>0, <2>1, <2>a, <3>1, <3>2 DEF AnswerRight, NoneUnverified, RefusedForTheReason
  <2>4. CASE a = Says(401) /\ q.target = "mount"
    <3>1. ~a.called /\ "mount" \notin Protected
      BY <2>4, Fields DEF Protected
    <3> QED
      BY <2>0, <2>1, <2>a, <2>4, <3>1 DEF AnswerRight, NoneUnverified, RefusedForTheReason
  <2>5. CASE a = Says(413) /\ q.size # "fits"
    <3>1. ~a.called /\ a.status = 413 /\ a.challenge = "no"
      BY <2>5, Fields
    <3> QED
      BY <2>0, <2>1, <2>a, <2>5, <3>1 DEF AnswerRight, NoneUnverified, RefusedForTheReason
  <2>6. CASE a \in {Says(204), Says(400), Says(404), Says(405), Says(429)}
    <3>1. ~a.called /\ a.status \in {204, 400, 404, 405, 429} /\ a.challenge = "no"
      BY <2>6, Fields
    <3> QED
      BY <2>0, <2>1, <2>a, <3>1 DEF AnswerRight, NoneUnverified, RefusedForTheReason
  <2> QED
    BY <2>1, <2>a, <2>2, <2>3, <2>4, <2>5, <2>6, AnswerTells
<1> QED
  BY <1>1, <1>2, <1>3, PTL DEF PipelineSpec

-----------------------------------------------------------------------------
(* Row keys *)

\* F[m] is what the first m parts of p make.
Builds(F, p, m) == F = [i \in 1..m |-> IF i = 1 THEN p[i] ELSE F[i - 1] \o p[i]]

LEMMA SomethingBuilds ==
  ASSUME NEW n \in Nat, NEW p, NEW m \in 1..n
  PROVE  \E F : Builds(F, p, m)
<1> DEFINE S == {k \in 1..n : \A F : ~Builds(F, p, k)}
<1> SUFFICES ASSUME S # {} PROVE FALSE
  OBVIOUS
<1>1. PICK v \in S : \A k \in S : v <= k
  <2>1. S \in SUBSET Nat
    OBVIOUS
  <2> HIDE DEF S
  <2> QED
    BY <2>1, LeastNatural
<1>2. CASE v = 1
  <2> DEFINE G == [i \in 1..1 |-> p[i]]
  <2>1. Builds(G, p, 1)
    BY DEF Builds
  <2> QED
    BY <1>2, <2>1
<1>3. CASE v # 1
  <2>1. v \in 1..n /\ v - 1 \in 1..n /\ ~(v <= v - 1)
    BY <1>3
  <2>2. PICK F : Builds(F, p, v - 1)
    BY <1>1, <2>1
  <2> DEFINE G == [i \in 1..v |-> IF i = v THEN F[v - 1] \o p[v] ELSE F[i]]
  <2>3. \A i \in 1..(v - 1) : F[i] = IF i = 1 THEN p[i] ELSE F[i - 1] \o p[i]
    BY <2>2 DEF Builds
  <2>4. \A i \in 1..v : G[i] = IF i = 1 THEN p[i] ELSE G[i - 1] \o p[i]
    <3> SUFFICES ASSUME NEW i \in 1..v PROVE G[i] = IF i = 1 THEN p[i] ELSE G[i - 1] \o p[i]
      OBVIOUS
    <3>1. CASE i = v
      <4>1. G[i] = F[v - 1] \o p[v] /\ G[v - 1] = F[v - 1]
        <5>1. v \in 1..v /\ v - 1 \in 1..v /\ v - 1 # v
          BY <2>1
        <5> QED
          BY <3>1, <5>1
      <4> HIDE DEF G
      <4> QED
        BY <1>3, <3>1, <4>1
    <3>2. CASE i # v
      <4>1. i \in 1..(v - 1) /\ G[i] = F[i]
        BY <2>1, <3>2
      <4>2. i # 1 => G[i - 1] = F[i - 1]
        BY <2>1, <4>1
      <4> HIDE DEF G
      <4> QED
        BY <2>3, <4>1, <4>2
    <3> QED
      BY <3>1, <3>2
  <2>5. G = [i \in 1..v |-> G[i]]
    OBVIOUS
  <2>6. Builds(G, p, v)
    <3> HIDE DEF G
    <3> QED
      BY <2>4, <2>5 DEF Builds
  <2> QED
    BY <2>6
<1> QED
  BY <1>2, <1>3

\* Flattening appends one part after the other.
LEMMA Flattens ==
  ASSUME NEW n \in Nat, n > 0, NEW p, Len(p) = n
  PROVE  \E F : Builds(F, p, n) /\ FlattenSeq(p) = F[n]
<1> DEFINE G == CHOOSE F : F = [i \in 1..Len(p) |-> IF i = 1 THEN p[i] ELSE F[i - 1] \o p[i]]
<1>1. FlattenSeq(p) = G[n]
  BY DEF FlattenSeq
<1>2. \E F : Builds(F, p, n)
  BY SomethingBuilds
<1>3. G = [i \in 1..Len(p) |-> IF i = 1 THEN p[i] ELSE G[i - 1] \o p[i]]
  BY <1>2 DEF Builds
<1> QED
  BY <1>1, <1>3 DEF Builds

\* What is written after k parts begins with what was written after i of them.
Laid(F, C, k) ==
  /\ F[k] \in Seq(C)
  /\ \A i \in 1..k : Len(F[i]) <= Len(F[k]) /\ \A j \in 1..Len(F[i]) : F[k][j] = F[i][j]

LEMMA BeginsWith ==
  ASSUME NEW C, NEW n \in Nat, NEW p \in [1..n -> Seq(C)], NEW F, Builds(F, p, n), NEW m \in 1..n
  PROVE  Laid(F, C, m)
<1> DEFINE S == {k \in 1..n : ~Laid(F, C, k)}
<1>0. S = {} => Laid(F, C, m)
  <2>1. ~Laid(F, C, m) => m \in S
    OBVIOUS
  <2> HIDE DEF S
  <2> QED
    BY <2>1
<1>1. S # {} => \E v \in S : \A k \in S : v <= k
  <2>1. S \in SUBSET Nat
    OBVIOUS
  <2> HIDE DEF S
  <2> QED
    BY <2>1, LeastNatural
<1>2. ASSUME NEW v \in S, \A k \in S : v <= k PROVE FALSE
  <2>1. \A i \in 1..n : F[i] = IF i = 1 THEN p[i] ELSE F[i - 1] \o p[i]
    BY DEF Builds
  <2>2. CASE v = 1
    <3>1. F[1] \in Seq(C) /\ 1 \in 1..n
      BY <2>1, <2>2
    <3>2. Len(F[1]) \in Nat
      BY <3>1
    <3>3. Laid(F, C, 1)
      BY <3>1, <3>2 DEF Laid
    <3> QED
      BY <2>2, <3>3
  <2>3. CASE v # 1
    <3>1. v \in 1..n /\ v - 1 \in 1..n /\ ~(v <= v - 1)
      BY <2>3
    <3>2. Laid(F, C, v - 1)
      BY <1>2, <3>1
    <3>3. PICK a, b : a = F[v - 1] /\ b = p[v]
      OBVIOUS
    <3>4. a \in Seq(C) /\ b \in Seq(C) /\ F[v] = a \o b
      BY <2>1, <2>3, <3>1, <3>2, <3>3 DEF Laid
    <3>5. /\ F[v] \in Seq(C) /\ Len(F[v]) = Len(a) + Len(b) /\ Len(a) \in Nat /\ Len(b) \in Nat
          /\ \A j \in 1..Len(a) : F[v][j] = a[j]
      BY <3>4
    <3>6. ASSUME NEW i \in 1..v
          PROVE  Len(F[i]) <= Len(F[v]) /\ \A j \in 1..Len(F[i]) : F[v][j] = F[i][j]
      <4>1. CASE i = v
        BY <3>5, <4>1
      <4>2. CASE i # v
        <5>1. i \in 1..(v - 1)
          BY <3>1, <4>2
        <5>2. Len(F[i]) <= Len(a) /\ \A j \in 1..Len(F[i]) : a[j] = F[i][j]
          BY <3>2, <3>3, <5>1 DEF Laid
        <5>3. F[i] \in Seq(C)
          <6>1. i \in 1..n /\ ~(v <= i)
            BY <3>1, <5>1
          <6>2. Laid(F, C, i)
            BY <1>2, <6>1
          <6> QED
            BY <6>2 DEF Laid
        <5>4. Len(F[i]) \in Nat
          BY <5>3
        <5>5. Len(F[i]) <= Len(F[v]) /\ \A j \in 1..Len(F[i]) : j \in 1..Len(a)
          BY <3>5, <5>2, <5>4
        <5> QED
          BY <3>5, <5>2, <5>5
      <4> QED
        BY <4>1, <4>2
    <3>7. Laid(F, C, v)
      BY <3>5, <3>6 DEF Laid
    <3> QED
      BY <3>7
  <2> QED
    BY <2>2, <2>3
<1>3. S = {}
  <2> HIDE DEF S
  <2> QED
    BY <1>1, <1>2
<1> HIDE DEF S
<1> QED
  BY <1>0, <1>3

\* Row r has the escaped characters of s from the places that L gives, then a colon,
\* then the key k.
Reads(r, s, k, L) ==
  /\ L[0] = 0
  /\ \A i \in 1..Len(s) :
       /\ L[i] = L[i - 1] + Len(Escaped(s[i]))
       /\ \A j \in 1..Len(Escaped(s[i])) : r[L[i - 1] + j] = Escaped(s[i])[j]
  /\ r[L[Len(s)] + 1] = ":"
  /\ Len(r) = L[Len(s)] + 1 + Len(k)
  /\ \A j \in 1..Len(k) : r[L[Len(s)] + 1 + j] = k[j]

\* An escaped character has no colon first, and tells which character it is.
LEMMA EscapedTells ==
  ASSUME NEW c \in Letter, NEW d \in Letter
  PROVE  /\ Escaped(c) \in Seq(Letter \cup {"2", "3", "5", "A"})
         /\ 1 \in 1..Len(Escaped(c)) /\ Len(Escaped(c)) \in Nat /\ Escaped(c)[1] # ":"
         /\ Escaped(c)[1] = "%" => 3 \in 1..Len(Escaped(c))
         /\ /\ Escaped(c)[1] = Escaped(d)[1]
            /\ Escaped(c)[1] = "%" => Escaped(c)[3] = Escaped(d)[3]
            => c = d
<1>1. ASSUME NEW e \in Letter
      PROVE  \/ e = "%" /\ Escaped(e) = <<"%", "2", "5">>
             \/ e = ":" /\ Escaped(e) = <<"%", "3", "A">>
             \/ e # "%" /\ e # ":" /\ Escaped(e) = <<e>>
  BY DEF Escaped
<1>2. <<"%", "2", "5">> \in Seq(Letter \cup {"2", "3", "5", "A"})
      /\ <<"%", "3", "A">> \in Seq(Letter \cup {"2", "3", "5", "A"})
      /\ <<c>> \in Seq(Letter \cup {"2", "3", "5", "A"})
  BY DEF Letter
<1>3. Escaped(c) \in Seq(Letter \cup {"2", "3", "5", "A"})
  BY <1>1, <1>2
<1>4. /\ 1 \in 1..Len(Escaped(c)) /\ Len(Escaped(c)) \in Nat /\ Escaped(c)[1] # ":"
      /\ Escaped(c)[1] = "%" => 3 \in 1..Len(Escaped(c))
  <2>2. PICK w : w = Len(Escaped(c)) /\ w \in {1, 3} /\ (Escaped(c)[1] = "%" => w = 3)
                 /\ Escaped(c)[1] # ":"
    <3>1. PICK e : e = Escaped(c)
      OBVIOUS
    <3>2. Len(e) \in {1, 3} /\ (e[1] = "%" => Len(e) = 3) /\ e[1] # ":"
      <4>1. CASE e = <<"%", "2", "5">> \/ e = <<"%", "3", "A">>
        BY <4>1
      <4>2. CASE c # "%" /\ c # ":" /\ e = <<c>>
        BY <4>2
      <4> QED
        BY <1>1, <3>1, <4>1, <4>2
    <3> QED
      BY <3>1, <3>2
  <2>3. 1 \in 1..w /\ w \in Nat /\ (w = 3 => 3 \in 1..w)
    BY <2>2
  <2> QED
    BY <2>2, <2>3
<1>5. ASSUME Escaped(c)[1] = Escaped(d)[1], Escaped(c)[1] = "%" => Escaped(c)[3] = Escaped(d)[3]
      PROVE  c = d
  BY <1>1, <1>5
<1> QED
  BY <1>3, <1>4, <1>5

\* c has a, then b.
Joined(c, a, b) ==
  /\ Len(c) = Len(a) + Len(b)
  /\ \A j \in 1..Len(a) : c[j] = a[j]
  /\ \A j \in 1..Len(b) : c[Len(a) + j] = b[j]

LEMMA Concatenated ==
  ASSUME NEW C, NEW a \in Seq(C), NEW b \in Seq(C), NEW c, c = a \o b
  PROVE  c \in Seq(C) /\ Joined(c, a, b)
BY DEF Joined

LEMMA RowReads ==
  ASSUME NEW s \in Seq(Letter), s # <<>>, NEW k \in Seq(Letter)
  PROVE  \E L \in [0..Len(s) -> Nat] : Reads(idempotencyRowKey(s, k), s, k, L)
<1> DEFINE C == Letter \cup {"2", "3", "5", "A"}
<1>0. /\ \A c \in Letter : Escaped(c) \in Seq(C) /\ Len(Escaped(c)) \in Nat
      /\ k \in Seq(C) /\ Len(k) \in Nat /\ <<":">> \in Seq(C)
  BY EscapedTells DEF Letter
<1> HIDE DEF C
<1>1. PICK n \in Nat : n = Len(s) /\ n > 0 /\ DOMAIN s = 1..n /\ \A i \in 1..n : s[i] \in Letter
  <2>1. Len(s) \in Nat /\ Len(s) > 0
    BY EmptySeq
  <2> QED
    BY <2>1
<1>2. PICK p : p = [i \in 1..n |-> Escaped(s[i])]
  OBVIOUS
<1>3. p \in [1..n -> Seq(C)] /\ Len(p) = n /\ \A i \in 1..n : p[i] = Escaped(s[i])
  <2>1. p \in Seq(Seq(C))
    BY <1>0, <1>1, <1>2
  <2> QED
    BY <1>0, <1>1, <1>2, <2>1
<1>4. PICK F : Builds(F, p, n) /\ FlattenSeq(p) = F[n]
  BY <1>1, <1>3, Flattens
<1>5. ASSUME NEW m \in 1..n
      PROVE  /\ F[m] \in Seq(C) /\ Len(F[m]) \in Nat
             /\ \A i \in 1..m : Len(F[i]) <= Len(F[m]) /\ \A j \in 1..Len(F[i]) : F[m][j] = F[i][j]
  <2>1. Builds(F, p, n) /\ p \in [1..n -> Seq(C)]
    BY <1>3, <1>4
  <2>2. Laid(F, C, m)
    BY <2>1, BeginsWith
  <2> QED
    BY <2>2 DEF Laid
<1>6. PICK r : r = idempotencyRowKey(s, k) /\ r = (F[n] \o <<":">>) \o k
  BY <1>1, <1>2, <1>4 DEF idempotencyRowKey, subjectEscaper
<1> DEFINE L == [i \in 0..n |-> IF i = 0 THEN 0 ELSE Len(F[i])]
<1>7. L \in [0..n -> Nat] /\ L[0] = 0 /\ \A i \in 1..n : L[i] = Len(F[i])
  BY <1>1, <1>5
<1> HIDE DEF L
<1>8. /\ Len(r) = L[n] + 1 + Len(k) /\ r[L[n] + 1] = ":"
      /\ \A j \in 1..L[n] : r[j] = F[n][j]
      /\ \A j \in 1..Len(k) : r[L[n] + 1 + j] = k[j]
  <2>1. PICK a \in Seq(C), l \in Nat : a = F[n] /\ l = Len(a) /\ l = L[n]
    <3>1. n \in 1..n
      BY <1>1
    <3>2. F[n] \in Seq(C) /\ Len(F[n]) \in Nat /\ L[n] = Len(F[n])
      BY <1>5, <1>7, <3>1
    <3> QED
      BY <3>2
  <2>2. PICK b : b = a \o <<":">>
    OBVIOUS
  <2>3. /\ b \in Seq(C) /\ Len(b) = l + 1 /\ b[l + 1] = ":"
        /\ \A j \in 1..l : b[j] = a[j]
    <3>1. PICK e \in Seq(C) : e = <<":">> /\ Len(e) = 1 /\ e[1] = ":" /\ 1 \in 1..1
      <4>1. Len(<<":">>) = 1 /\ <<":">>[1] = ":" /\ 1 \in 1..1
        OBVIOUS
      <4>2. PICK e : e = <<":">>
        OBVIOUS
      <4>3. e \in Seq(C) /\ Len(e) = 1 /\ e[1] = ":"
        BY <1>0, <4>1, <4>2
      <4> QED
        BY <4>1, <4>2, <4>3
    <3>2. b \in Seq(C) /\ Joined(b, a, e)
      BY <2>2, <3>1, Concatenated
    <3> QED
      BY <2>1, <3>1, <3>2 DEF Joined
  <2>4. r = b \o k
    BY <1>6, <2>1, <2>2
  <2>5. /\ Len(r) = Len(b) + Len(k)
        /\ \A j \in 1..Len(b) : r[j] = b[j]
        /\ \A j \in 1..Len(k) : r[Len(b) + j] = k[j]
    <3>1. Joined(r, b, k)
      BY <1>0, <2>3, <2>4, Concatenated
    <3> QED
      BY <3>1 DEF Joined
  <2>6. l + 1 \in 1..(l + 1) /\ \A j \in 1..l : j \in 1..(l + 1)
    OBVIOUS
  <2> QED
    BY <2>1, <2>3, <2>5, <2>6
<1>9. ASSUME NEW i \in 1..n
      PROVE  /\ L[i] = L[i - 1] + Len(Escaped(s[i]))
             /\ \A j \in 1..Len(Escaped(s[i])) : r[L[i - 1] + j] = Escaped(s[i])[j]
  <2>1. PICK e \in Seq(C) : e = Escaped(s[i]) /\ e = p[i] /\ Len(e) \in Nat
    BY <1>0, <1>1, <1>3
  <2>2. F[i] = IF i = 1 THEN p[i] ELSE F[i - 1] \o p[i]
    BY <1>4 DEF Builds
  <2>3. /\ L[i] = L[i - 1] + Len(e) /\ L[i - 1] \in Nat /\ L[i] \in Nat
        /\ \A j \in 1..Len(e) : F[i][L[i - 1] + j] = e[j]
    <3>1. CASE i = 1
      BY <1>7, <2>1, <2>2, <3>1
    <3>2. CASE i # 1
      <4>1. i - 1 \in 1..n
        BY <3>2
      <4>2. PICK a \in Seq(C) : a = F[i - 1] /\ L[i - 1] = Len(a) /\ Len(a) \in Nat
        BY <1>5, <1>7, <4>1
      <4>3. F[i] = a \o e
        BY <2>1, <2>2, <3>2, <4>2
      <4>4. /\ Len(F[i]) = Len(a) + Len(e)
            /\ \A j \in 1..Len(e) : F[i][Len(a) + j] = e[j]
        <5>1. Joined(F[i], a, e)
          BY <4>3, Concatenated
        <5> QED
          BY <5>1 DEF Joined
      <4> QED
        <5>1. L[i] = Len(a) + Len(e)
          BY <1>7, <4>4
        <5>2. L[i - 1] = Len(a) /\ Len(a) \in Nat /\ Len(e) \in Nat
          BY <2>1, <4>2
        <5>3. L[i] = L[i - 1] + Len(e) /\ L[i - 1] \in Nat /\ L[i] \in Nat
          BY <5>1, <5>2
        <5> QED
          BY <4>4, <5>2, <5>3
    <3> QED
      BY <3>1, <3>2
  <2>4. ASSUME NEW j \in 1..Len(e) PROVE r[L[i - 1] + j] = e[j]
    <3>1. PICK h \in Nat : h = L[i - 1] + j
      BY <2>1, <2>3
    <3>2. h \in 1..L[i]
      BY <2>1, <2>3, <3>1
    <3>3. n \in 1..n /\ i \in 1..n
      BY <1>1
    <3>4. L[i] = Len(F[i]) /\ L[n] = Len(F[n]) /\ L[n] \in Nat
      BY <1>5, <1>7, <3>3
    <3>5. L[i] <= L[n] /\ F[n][h] = F[i][h]
      BY <1>5, <3>2, <3>3, <3>4
    <3>6. h \in 1..L[n]
      BY <2>3, <3>2, <3>4, <3>5
    <3> QED
      BY <1>8, <2>3, <3>1, <3>5, <3>6
  <2> QED
    BY <2>1, <2>3, <2>4
<1>10. Reads(r, s, k, L)
  BY <1>1, <1>7, <1>8, <1>9 DEF Reads
<1> QED
  BY <1>1, <1>6, <1>7, <1>10

\* A row can be read in one way.
LEMMA ReadsOnce ==
  ASSUME NEW r, NEW s \in Seq(Letter), NEW k \in Seq(Letter), NEW t \in Seq(Letter), NEW l \in Seq(Letter),
         NEW L \in [0..Len(s) -> Nat], NEW M \in [0..Len(t) -> Nat],
         Reads(r, s, k, L), Reads(r, t, l, M), Len(s) <= Len(t)
  PROVE  s = t /\ k = l
<1>0. PICK n \in Nat, m \in Nat : n = Len(s) /\ m = Len(t) /\ n <= m
  OBVIOUS
<1>1. /\ L[0] = 0 /\ r[L[n] + 1] = ":" /\ Len(r) = L[n] + 1 + Len(k)
      /\ \A j \in 1..Len(k) : r[L[n] + 1 + j] = k[j]
      /\ \A i \in 1..n : L[i] = L[i - 1] + Len(Escaped(s[i]))
      /\ \A i \in 1..n : \A j \in 1..Len(Escaped(s[i])) : r[L[i - 1] + j] = Escaped(s[i])[j]
  BY <1>0 DEF Reads
<1>2. /\ M[0] = 0 /\ r[M[m] + 1] = ":" /\ Len(r) = M[m] + 1 + Len(l)
      /\ \A j \in 1..Len(l) : r[M[m] + 1 + j] = l[j]
      /\ \A i \in 1..m : M[i] = M[i - 1] + Len(Escaped(t[i]))
      /\ \A i \in 1..m : \A j \in 1..Len(Escaped(t[i])) : r[M[i - 1] + j] = Escaped(t[i])[j]
  BY <1>0 DEF Reads
<1>3. /\ \A i \in 0..n : L[i] \in Nat
      /\ \A i \in 0..m : M[i] \in Nat
      /\ \A i \in 1..n : s[i] \in Letter
      /\ \A i \in 1..m : t[i] \in Letter
  <2>1. s \in [1..n -> Letter] /\ t \in [1..m -> Letter]
    BY <1>0
  <2>2. L \in [0..n -> Nat] /\ M \in [0..m -> Nat]
    BY <1>0
  <2> QED
    BY <2>1, <2>2
<1> DEFINE S == {i \in 1..n : ~(L[i] = M[i] /\ s[i] = t[i])}
<1>4. S # {} => \E v \in S : \A i \in S : v <= i
  <2>1. S \in SUBSET Nat
    OBVIOUS
  <2> HIDE DEF S
  <2> QED
    BY <2>1, LeastNatural
<1>5. ASSUME NEW v \in S, \A i \in S : v <= i PROVE FALSE
  <2>1. v \in 1..n /\ v \in 1..m /\ v - 1 \in 0..n /\ v - 1 \in 0..m
    BY <1>0
  <2>2. L[v - 1] = M[v - 1]
    <3>1. CASE v = 1
      BY <1>1, <1>2, <3>1
    <3>2. CASE v # 1
      <4>1. v - 1 \in 1..n /\ ~(v <= v - 1)
        BY <2>1, <3>2
      <4> QED
        BY <1>5, <4>1
    <3> QED
      BY <3>1, <3>2
  <2>3. PICK c \in Letter, d \in Letter : c = s[v] /\ d = t[v]
    BY <1>3, <2>1
  <2>4. /\ 1 \in 1..Len(Escaped(c)) /\ 1 \in 1..Len(Escaped(d))
        /\ Escaped(c)[1] = "%" => 3 \in 1..Len(Escaped(c))
        /\ Escaped(d)[1] = "%" => 3 \in 1..Len(Escaped(d))
    BY EscapedTells
  <2>5. PICK b \in Nat : b = L[v - 1]
    BY <1>3, <2>1
  <2>6. /\ \A j \in 1..Len(Escaped(c)) : r[b + j] = Escaped(c)[j]
        /\ \A j \in 1..Len(Escaped(d)) : r[b + j] = Escaped(d)[j]
    BY <1>1, <1>2, <2>1, <2>2, <2>3, <2>5
  <2>7. Escaped(c)[1] = Escaped(d)[1]
    BY <2>4, <2>6
  <2>8. Escaped(c)[1] = "%" => Escaped(c)[3] = Escaped(d)[3]
    <3> SUFFICES ASSUME Escaped(c)[1] = "%" PROVE Escaped(c)[3] = Escaped(d)[3]
      OBVIOUS
    <3>1. 3 \in 1..Len(Escaped(c)) /\ 3 \in 1..Len(Escaped(d))
      BY <2>4, <2>7
    <3> QED
      BY <2>6, <3>1
  <2>9. c = d
    BY <2>7, <2>8, EscapedTells
  <2>10. L[v] = M[v] /\ s[v] = t[v]
    <3>1. s[v] = t[v]
      BY <2>3, <2>9
    <3>2. L[v] = L[v - 1] + Len(Escaped(s[v])) /\ M[v] = M[v - 1] + Len(Escaped(t[v]))
      BY <1>1, <1>2, <2>1
    <3> QED
      BY <2>2, <3>1, <3>2
  <2> QED
    BY <2>10
<1>6. \A i \in 1..n : L[i] = M[i] /\ s[i] = t[i]
  <2>1. S = {}
    <3> HIDE DEF S
    <3> QED
      BY <1>4, <1>5
  <2> QED
    BY <2>1
<1>7. L[n] = M[n] /\ n \in 0..n /\ n \in 0..m
  <2>1. n = 0 \/ n \in 1..n
    OBVIOUS
  <2> QED
    <3>1. n \in 0..n /\ n \in 0..m
      BY <1>0
    <3>2. n = 0 => L[n] = M[n]
      BY <1>1, <1>2
    <3> QED
      BY <1>6, <2>1, <3>1, <3>2
<1>8. n = m
  <2> SUFFICES ASSUME n # m PROVE FALSE
    OBVIOUS
  <2>1. n + 1 \in 1..m /\ (n + 1) - 1 = n
    BY <1>0
  <2>2. PICK d \in Letter : d = t[n + 1]
    BY <1>3, <2>1
  <2>3. 1 \in 1..Len(Escaped(d)) /\ Escaped(d)[1] # ":"
    BY EscapedTells
  <2>4. r[M[n] + 1] = Escaped(d)[1]
    BY <1>2, <2>1, <2>2, <2>3
  <2> QED
    BY <1>1, <1>7, <2>3, <2>4
<1>9. s = t
  BY <1>0, <1>6, <1>8, SeqEqual
<1>10. Len(k) = Len(l) /\ \A j \in 1..Len(k) : k[j] = l[j]
  <2>1. Len(k) \in Nat /\ Len(l) \in Nat /\ L[n] \in Nat
    BY <1>3, <1>7
  <2>2. Len(k) = Len(l)
    BY <1>1, <1>2, <1>7, <1>8, <2>1
  <2> QED
    BY <1>1, <1>2, <1>7, <1>8, <2>2
<1>11. k = l
  BY <1>10, SeqEqual
<1> QED
  BY <1>9, <1>11

LEMMA CallsAreSequences ==
  ASSUME NEW c \in Calls
  PROVE  /\ c = [subject |-> c.subject, key |-> c.key]
         /\ c.subject \in Seq(Letter) /\ c.subject # <<>> /\ c.key \in Seq(Letter)
<1>1. ASSUME NEW n \in Nat, NEW s \in Strings(n) PROVE s \in Seq(Letter)
  BY DEF Strings
<1>2. c.subject \in Strings(MaxSubject) /\ c.subject # <<>> /\ c.key \in Strings(MaxKey)
  BY DEF Calls
<1>3. c = [subject |-> c.subject, key |-> c.key]
  BY DEF Calls
<1> QED
  BY <1>1, <1>2, <1>3, LengthAssumption

\* The first ":" of a row key ends the subject: whatever the length of subjects and
\* keys and whatever they hold, no two callers have a row key in common, and no two
\* keys of one caller.
THEOREM RowKeysDiffer == RowKeySpec => []OneRowPerCall
<1>1. RowKeyInit => call \in Calls \cup {NoCall}
  BY DEF RowKeyInit
<1>2. call \in Calls \cup {NoCall} /\ [Claim]_call => (call \in Calls \cup {NoCall})'
  BY DEF Claim
<1>3. call \in Calls \cup {NoCall} => OneRowPerCall
  <2> SUFFICES ASSUME call \in Calls, NEW other \in Calls,
                      Rows[other] = idempotencyRowKey(call.subject, call.key)
               PROVE  other = call
    BY DEF OneRowPerCall
  <2>1. PICK c \in Calls : c = call
    OBVIOUS
  <2>2. PICK s \in Seq(Letter), k \in Seq(Letter) :
          s # <<>> /\ s = c.subject /\ k = c.key /\ c = [subject |-> s, key |-> k]
    BY CallsAreSequences
  <2>3. PICK t \in Seq(Letter), l \in Seq(Letter) :
          t # <<>> /\ t = other.subject /\ l = other.key /\ other = [subject |-> t, key |-> l]
    BY CallsAreSequences
  <2>4. PICK r : r = idempotencyRowKey(s, k) /\ r = idempotencyRowKey(t, l)
    BY <2>1, <2>2, <2>3 DEF Rows
  <2>5. PICK L \in [0..Len(s) -> Nat] : Reads(r, s, k, L)
    BY <2>2, <2>4, RowReads
  <2>6. PICK M \in [0..Len(t) -> Nat] : Reads(r, t, l, M)
    BY <2>3, <2>4, RowReads
  <2>7. Len(s) <= Len(t) \/ Len(t) <= Len(s)
    <3>1. Len(s) \in Nat /\ Len(t) \in Nat
      OBVIOUS
    <3> QED
      BY <3>1
  <2>8. s = t /\ k = l
    BY <2>5, <2>6, <2>7, ReadsOnce
  <2> QED
    BY <2>1, <2>2, <2>3, <2>8
<1> QED
  BY <1>1, <1>2, <1>3, PTL DEF RowKeySpec
=============================================================================
