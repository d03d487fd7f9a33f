-------------------------------- MODULE RateLimit --------------------------------
(***************************************************************************)
(* The rate limiter of the HTTP server (internal/api/middleware/           *)
(* ratelimit.go) and the address it limits (realip.go).  Buckets are kept  *)
(* in a map of limited size: an address that was not seen for three        *)
(* minutes is forgotten, by a clean-up or to make room, and when there is  *)
(* no room a new address is refused.                                       *)
(*                                                                         *)
(* A tick is the time one token takes to come back.                        *)
(***************************************************************************)
EXTENDS Naturals, FiniteSets

CONSTANTS Addresses,   \* client addresses
          Proxies,     \* trusted reverse proxies
          Burst,       \* tokens of a full bucket (5 and 40 in the code)
          Idle,        \* the three minutes in ticks (15 and 900 in the code)
          Cap,         \* entries of the map (100000 in the code)
          Absent,      \* a header a request does not have
          Malformed    \* a header that holds no address

ASSUME RateLimitAssumption ==
  /\ {Burst, Idle, Cap} \subseteq Nat /\ Burst > 0
  /\ Idle >= Burst
  /\ Proxies \subseteq Addresses /\ {Absent, Malformed} \intersect Addresses = {}

VARIABLES visitors,  \* visitors[a]: the bucket and the ticks since a was seen
          sweep      \* ticks since the last clean-up

limitVars == <<visitors, sweep>>

\* An address that is not in the map: its bucket is full.
Unseen == [tokens |-> Burst, since |-> Idle + 1, listed |-> FALSE]

Visitors == [tokens : 0..Burst, since : 0..(Idle + 1), listed : BOOLEAN]

LimitInit == visitors = [a \in Addresses |-> Unseen] /\ sweep = 0

------------------------------------------------------------------------------
(* The address a request counts for: the peer, or what a trusted proxy says in the
   first of three headers that is there. *)

ForwardedClientIP(headers) ==
  LET there == {i \in 1..3 : headers[i] # Absent}
  IN  IF there = {} THEN Absent ELSE headers[CHOOSE i \in there : \A j \in there : i <= j]

ClientIP(peer, headers) ==
  IF peer \in Proxies /\ ForwardedClientIP(headers) \in Addresses
  THEN ForwardedClientIP(headers) ELSE peer

------------------------------------------------------------------------------
(* The map *)

Listed == {a \in Addresses : visitors[a].listed}

\* Slip: an address is forgotten as soon as it pauses.
ExpiredEarly(a) == visitors[a].listed /\ visitors[a].since > 0

Expired(a) == visitors[a].listed /\ visitors[a].since > Idle

Swept == [a \in Addresses |-> IF Expired(a) THEN Unseen ELSE visitors[a]]

\* What the map holds when address a asks: with no room, the expired go first.
MakesRoom(a) ==
  IF ~visitors[a].listed /\ Cardinality(Listed) >= Cap THEN Swept ELSE visitors

Room(a, held) == held[a].listed \/ Cardinality({x \in Addresses : held[x].listed}) < Cap

\* A request that finds a token passes; one that does not is told to come back.
Limit(peer, headers) ==
  LET a    == ClientIP(peer, headers)
      held == MakesRoom(a)
      left == IF held[a].listed THEN held[a].tokens ELSE Burst
  IN  /\ visitors' = IF ~Room(a, held) THEN held
                     ELSE [held EXCEPT ![a] = [tokens |-> IF left > 0 THEN left - 1 ELSE left,
                                               since |-> 0, listed |-> TRUE]]
      /\ UNCHANGED sweep

\* Slip: tokens are saved up without end.
RefilledAlways(tokens) == tokens + 1

Refilled(tokens) == IF tokens < Burst THEN tokens + 1 ELSE tokens

Waited(ticks) == IF ticks <= Idle THEN ticks + 1 ELSE ticks

\* A token comes back to every bucket.
Tick ==
  /\ visitors' = [a \in Addresses |->
       LET v == visitors[a] IN
       IF v.listed THEN [tokens |-> Refilled(v.tokens), since |-> Waited(v.since), listed |-> TRUE]
       ELSE v]
  /\ sweep' = IF sweep < Idle THEN sweep + 1 ELSE sweep

\* Every three minutes.
CleanUp == sweep = Idle /\ sweep' = 0 /\ visitors' = Swept

Headers == [1..3 -> {Absent, Malformed} \union Addresses]

LimitNext ==
  \/ \E peer \in Addresses, headers \in Headers : Limit(peer, headers)
  \/ Tick \/ CleanUp

LimitSpec == LimitInit /\ [][LimitNext]_limitVars

------------------------------------------------------------------------------
(* Properties *)

\* Every variable has its type.
LimitTypeOK == visitors \in [Addresses -> Visitors] /\ sweep \in 0..Idle

\* Forgetting an address is never noticed: what the limiter does is what one bucket
\* for every address would do, so nobody gains tokens by leaving and coming back,
\* nor loses any (ratelimit.go:46).
Bucket == INSTANCE TokenBucket WITH bucket <- [a \in Addresses |-> visitors[a].tokens]

OneBucketForEver == Bucket!BucketSpec
=============================================================================
