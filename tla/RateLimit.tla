----------------------------- MODULE RateLimit -----------------------------
(***************************************************************************)
(* RealIP followed by RateLimit: the address a request is attributed to,   *)
(* its limiter in the map of ipLimiters, the sweep of idle limiters, and   *)
(* Allow, which runs after the map is unlocked.                            *)
(*                                                                         *)
(* The clock counts ticks, and a limiter gains Rate tokens in each.  A     *)
(* limiter is an object that may outlive its entry in the map, for as long *)
(* as a request that got it has not called Allow; it is named by the       *)
(* request that made it.                                                   *)
(***************************************************************************)
EXTENDS Integers, Sequences, FiniteSets

CONSTANTS Request,     \* requests
          Sender,      \* addresses clients connect from
          Proxy,       \* addresses of proxies
          Trusted,     \* addresses in the trusted prefixes, unmapped
          Forged,      \* X-Forwarded-For lists that clients send
          Routes,      \* sequences of proxies that requests come through
          Rate, Burst, \* tokens per tick, size of a bucket
          SweepEvery,  \* one minute
          IdleAfter,   \* three minutes
          Stall,       \* how long a request may take from get to Allow
          MaxNow,      \* bound on the clock
          Nil

ASSUME BoundsAssumption == {Rate, Burst, SweepEvery, IdleAfter, Stall, MaxNow} \subseteq Nat

VARIABLES
  now,       \* the clock
  entry,     \* entry[k]: the limiter of key k in the map, or Nil
  seen,      \* seen[k]: when that entry was last used
  bucket,    \* bucket[n]: tokens and last of limiter n
  lastSweep,
  phase,     \* phase[q]: new, waiting for Allow, or done
  sender,    \* sender[q]: the client that sent q
  key,       \* key[q]: what q was attributed to
  got,       \* got[q]: the limiter get returned
  since,     \* since[q]: when get returned it
  admitted,  \* history: admitted[k], the times at which requests were admitted
  late       \* history: late[k], how many of them had taken longer than Stall

map == <<entry, seen, lastSweep>>
attribution == <<sender, key, got, since>>
limitVars == <<now, map, bucket, phase, attribution, admitted, late>>

-----------------------------------------------------------------------------
(* Addresses: v4, an IPv4-mapped IPv6 address, or v6, with a /64 and a host *)

\* Unmap: a mapped address and the IPv4 address in it are one.
Unmap(a) == IF a.form = "mapped" THEN [a EXCEPT !.form = "v4"] ELSE a

\* Mutant: every IPv6 address has a bucket of its own.
KeyOfHost(a) == Unmap(a)

\* rateLimitKey: an IPv6 client is its /64.
KeyOf(a) == IF Unmap(a).form = "v6" THEN [form |-> "v6", net |-> a.net, host |-> 0]
                                    ELSE Unmap(a)

IsTrusted(a) == Unmap(a) \in Trusted

\* parseAddr fails on Nil, which is no address.
Stops(hops) == {i \in DOMAIN hops : hops[i] = Nil \/ ~IsTrusted(hops[i])}

\* Mutant: the leftmost hop is the client.
ForwardedFirst(peer, hops) ==
  IF hops = <<>> \/ hops[1] = Nil THEN peer ELSE Unmap(hops[1])

\* forwardedClient: from the right, the first hop that is not a trusted proxy;
\* the peer if there is none or it is no address.
ForwardedClient(peer, hops) ==
  LET S == Stops(hops)
      i == CHOOSE i \in S : \A j \in S : j <= i
  IN IF S = {} \/ hops[i] = Nil THEN peer ELSE Unmap(hops[i])

\* RealIP: the header counts only if the peer is a trusted proxy.
RealIP(peer, hops) == IF IsTrusted(peer) THEN ForwardedClient(Unmap(peer), hops) ELSE peer

\* Each proxy of the route appends the address it was called from.
Peer(s, route)       == IF route = <<>> THEN s ELSE route[Len(route)]
Header(s, h, route)  == IF route = <<>> THEN h
                        ELSE h \o <<s>> \o SubSeq(route, 1, Len(route) - 1)

\* The addresses that forged headers hold, and the keys there may be.
Listed(h) == {h[i] : i \in DOMAIN h}
Hops == (UNION {Listed(h) : h \in Forged}) \ {Nil}
Keys == {KeyOf(a) : a \in Sender \cup Proxy \cup Hops}

Address == [form : {"v4", "mapped", "v6"}, net : Nat, host : Nat]
ASSUME AddressAssumption ==
  /\ Sender \cup Proxy \subseteq Address /\ Forged \subseteq Seq(Address \cup {Nil})
  /\ Nil \notin Address \cup Request \cup [tokens : Nat, last : Nat]

\* A proxy that is not trusted is a sender like any other.
ASSUME RouteAssumption == Routes \subseteq Seq({p \in Proxy : IsTrusted(p)})

-----------------------------------------------------------------------------
Buckets == [tokens : 0..Burst, last : 0..MaxNow]

LimitTypeOK ==
  /\ now \in 0..MaxNow /\ lastSweep \in 0..MaxNow
  /\ entry \in [Keys -> Request \cup {Nil}] /\ seen \in [Keys -> 0..MaxNow]
  /\ bucket \in [Request -> Buckets \cup {Nil}]
  /\ phase \in [Request -> {"new", "waiting", "done"}]
  /\ sender \in [Request -> Sender \cup {Nil}] /\ key \in [Request -> Keys \cup {Nil}]
  /\ got \in [Request -> Request \cup {Nil}] /\ since \in [Request -> 0..MaxNow]
  /\ admitted \in [Keys -> Seq(0..MaxNow)]
  /\ late \in [Keys -> Nat]

LimitInit ==
  /\ now = 0 /\ lastSweep = 0
  /\ entry = [k \in Keys |-> Nil] /\ seen = [k \in Keys |-> 0]
  /\ bucket = [n \in Request |-> Nil]
  /\ phase = [q \in Request |-> "new"] /\ sender = [q \in Request |-> Nil]
  /\ key = [q \in Request |-> Nil] /\ got = [q \in Request |-> Nil]
  /\ since = [q \in Request |-> 0]
  /\ admitted = [k \in Keys |-> <<>>] /\ late = [k \in Keys |-> 0]

\* Mutant: an entry is evicted as soon as a sweep finds it unused since the last.
EvictedEarly(k) ==
  /\ now - lastSweep > SweepEvery /\ entry[k] # Nil /\ now - seen[k] > SweepEvery

\* Mutant: the sweep takes the wrong ones.
EvictedFresh(k) ==
  /\ now - lastSweep > SweepEvery /\ entry[k] # Nil /\ now - seen[k] <= IdleAfter

\* Entries the sweep of get deletes.
Evicted(k) ==
  /\ now - lastSweep > SweepEvery /\ entry[k] # Nil /\ now - seen[k] > IdleAfter

Swept == [k \in Keys |-> IF Evicted(k) THEN Nil ELSE entry[k]]

\* get(k) for request q, under the mutex: sweep, then take or create the limiter.
Get(q, k) ==
  /\ lastSweep' = IF now - lastSweep > SweepEvery THEN now ELSE lastSweep
  /\ IF Swept[k] = Nil
       THEN /\ entry' = [Swept EXCEPT ![k] = q]
            /\ bucket' = [bucket EXCEPT ![q] = [tokens |-> Burst, last |-> now]]
       ELSE entry' = Swept /\ UNCHANGED bucket
  /\ seen' = [j \in Keys |-> IF j = k THEN now ELSE IF Evicted(j) THEN 0 ELSE seen[j]]
  /\ key' = [key EXCEPT ![q] = k]
  /\ got' = [got EXCEPT ![q] = entry'[k]] /\ since' = [since EXCEPT ![q] = now]

\* A request from s with header h comes in through a route.
Arrive(q, s, h, route) ==
  /\ phase[q] = "new"
  /\ phase' = [phase EXCEPT ![q] = "waiting"] /\ sender' = [sender EXCEPT ![q] = s]
  /\ Get(q, KeyOf(RealIP(Peer(s, route), Header(s, h, route))))
  /\ UNCHANGED <<now, admitted, late>>

\* Mutant: no tokens are gained.
LevelStale(b) == b.tokens

\* advance of golang.org/x/time/rate.
Level(b) == LET n == b.tokens + Rate * (now - b.last) IN IF n > Burst THEN Burst ELSE n

\* The limiter has decided on q.
Decide(q) ==
  /\ phase' = [phase EXCEPT ![q] = "done"] /\ sender' = [sender EXCEPT ![q] = Nil]
  /\ key' = [key EXCEPT ![q] = Nil] /\ got' = [got EXCEPT ![q] = Nil]
  /\ since' = [since EXCEPT ![q] = 0]

Admit(q) ==
  LET n == got[q] IN
  /\ phase[q] = "waiting" /\ Level(bucket[n]) >= 1
  /\ bucket' = [bucket EXCEPT ![n] = [tokens |-> Level(@) - 1, last |-> now]]
  /\ Decide(q)
  /\ admitted' = [admitted EXCEPT ![key[q]] = Append(@, now)]
  /\ late' = [late EXCEPT ![key[q]] = IF now - since[q] > Stall THEN @ + 1 ELSE @]
  /\ UNCHANGED <<now, map>>

\* 429; a refused request changes nothing.
Refuse(q) ==
  /\ phase[q] = "waiting" /\ Level(bucket[got[q]]) < 1
  /\ Decide(q)
  /\ UNCHANGED <<now, map, bucket, admitted, late>>

ClockTicks ==
  /\ now < MaxNow /\ now' = now + 1
  /\ UNCHANGED <<map, bucket, phase, attribution, admitted, late>>

LimitNext ==
  \/ \E q \in Request :
       \/ \E s \in Sender, h \in Forged, route \in Routes : Arrive(q, s, h, route)
       \/ Admit(q) \/ Refuse(q)
  \/ ClockTicks

LimitSpec == LimitInit /\ [][LimitNext]_limitVars

-----------------------------------------------------------------------------
\* Eviction forgets nothing that matters: a limiter refills while it is idle.
\* seen is set by get, and tokens are taken by Allow.
Refills == Burst <= Rate * (IdleAfter + 1 - Stall)

\* "a per-client token bucket" (RateLimit): no client has more than Burst and Rate
\* a tick admitted in any window, although its limiter is evicted and replaced by a
\* full one.  Extra are requests that took longer than Stall from get to Allow.
WithinRate ==
  Refills => \A k \in Keys : \A i, j \in DOMAIN admitted[k] :
    i <= j => j - i + 1 <= Burst + Rate * (admitted[k][j] - admitted[k][i]) + late[k]

\* A refusal of q is earned by requests of the same client that were admitted:
\* neither other clients nor an eviction use up its tokens.
Earned(q) ==
  LET times == admitted[key[q]] IN
    \/ Burst = 0
    \/ \E i \in DOMAIN times : Len(times) - i + 2 > Burst + Rate * (now - times[i])

\* A client has its bucket, no more of it and no less.
OwnBucket ==
  [][/\ WithinRate'
     /\ \A q \in Request :
          phase[q] = "waiting" /\ phase'[q] = "done" /\ admitted' = admitted => Earned(q)]_limitVars

\* One client: an IPv4 address, mapped or not, or a whole /64.
SameClient(a, b) ==
  \/ a.form = "v6" /\ b.form = "v6" /\ a.net = b.net
  \/ Unmap(a) = Unmap(b)

\* "a client cannot spoof its address" (RealIP): what a client writes into the
\* header has no influence on the bucket it uses, whatever trusted proxies are on
\* the way: two requests share a bucket exactly if they come from one client.
SenderPays ==
  \A q, r \in {x \in Request : phase[x] = "waiting" /\ ~IsTrusted(sender[x])} :
    key[q] = key[r] <=> SameClient(sender[q], sender[r])

\* "Idle limiters are evicted so the map does not grow without bound": whenever a
\* request has passed, every entry was used within the two periods.
IdleAreGone ==
  [][\A q \in Request : phase[q] = "new" /\ phase'[q] = "waiting" =>
       \A k \in Keys : entry'[k] # Nil => now - seen'[k] <= IdleAfter + SweepEvery]_limitVars
=============================================================================
