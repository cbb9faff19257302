----------------------------- MODULE RateLimiter -----------------------------
(***************************************************************************)
(* The rate limiter in front of every request (internal/policy/            *)
(* ratelimit.go): a PerRouteLimiter asks the limiter all routes share,     *)
(* then that of the route, if it has one.  A RateLimiter makes the bucket  *)
(* of a client when it first sees it, refills it only when it is asked,    *)
(* has room for so many and drops those not used for a while.              *)
(*                                                                         *)
(* Each limiter has a lock of its own, held for one call of Allow or one   *)
(* Cleanup: these are the steps.  Time comes in ticks, and so do tokens    *)
(* (the code's are fractions): there are Unit ticks in the minute that     *)
(* ratePerMinute refers to, so that a bucket gains ratePerMinute units per *)
(* tick.  The gateway's rate limiting ends with the process; that the      *)
(* cleanup stops just before is left out.                                  *)
(***************************************************************************)
EXTENDS Integers, FiniteSets

CONSTANTS
  Requests,   \* requests, one goroutine each
  Clients,    \* client keys: peer addresses without the port
  Routes,     \* routes with a limiter of their own
  Elsewhere,  \* the routes without one
  Global,     \* PerRouteLimiter.global
  Unit,       \* units in a token, and ticks in a minute
  Rate,       \* ratePerMinute of each limiter
  Burst,      \* burst of each limiter
  MaxBuckets, \* maxBuckets
  Cutoff,     \* the five minutes of Cleanup
  Interval,   \* the interval of StartCleanup
  MaxClock    \* bound on the clock

Limiters == Routes \cup {Global}

\* Allow, creating a bucket.
Capacity == [l \in Limiters |-> Unit * (IF Burst[l] < 1 THEN Rate[l] ELSE Burst[l])]

\* The last conjunct: a bucket fills in less than the time Cleanup waits.  That
\* of the global limiter does (its burst is its rate, and the cutoff is five
\* minutes); SetRoute does not see to it.
ASSUME LimiterAssumption ==
  /\ IsFiniteSet(Clients)
  /\ Elsewhere \notin Routes
  /\ Global \notin Routes \cup {Elsewhere}
  /\ Unit \in Nat \ {0}
  /\ Rate \in [Limiters -> Nat]
  /\ Burst \in [Limiters -> Nat]
  /\ MaxBuckets \in Nat
  /\ Cutoff \in Nat
  /\ Interval \in Nat \ {0}
  /\ MaxClock \in Nat
  /\ \A l \in Limiters : Capacity[l] <= Rate[l] * Cutoff

VARIABLES
  clock,
  tracked,  \* rl.buckets: the clients with a bucket, of each limiter
  tokens,   \* Bucket.Tokens
  last,     \* Bucket.LastCheck
  passed,   \* calls of Allow that returned true
  asking,   \* the client and route of each request the global limiter let through
  sweep     \* limiters that the cleanup under way has yet to do

buckets == <<tracked, tokens, last, passed>>
vars    == <<clock, buckets, asking, sweep>>

Nothing == [client |-> Elsewhere, route |-> Elsewhere]

TypeOK ==
  /\ clock \in 0..MaxClock
  /\ tracked \in [Limiters -> SUBSET Clients]
  /\ tokens \in [Limiters -> [Clients -> Nat]]
  /\ \A l \in Limiters, c \in Clients : tokens[l][c] <= Capacity[l]
  /\ last \in [Limiters -> [Clients -> 0..clock]]
  /\ passed \in [Limiters -> [Clients -> Nat]]
  /\ asking \in [Requests -> [client : Clients, route : Routes] \cup {Nothing}]
  /\ sweep \in SUBSET Limiters

Init ==
  /\ clock = 0
  /\ tracked = [l \in Limiters |-> {}]
  /\ tokens = [l \in Limiters |-> [c \in Clients |-> 0]]
  /\ last = [l \in Limiters |-> [c \in Clients |-> 0]]
  /\ passed = [l \in Limiters |-> [c \in Clients |-> 0]]
  /\ asking = [r \in Requests |-> Nothing]
  /\ sweep = {}

-----------------------------------------------------------------------------
(* RateLimiter.Allow *)

Least(a, b) == IF a <= b THEN a ELSE b

\* What a bucket holds once refilled; a new one is full.
Refill(l, c) ==
  IF c \in tracked[l]
  THEN Least(Capacity[l], tokens[l][c] + Rate[l] * (clock - last[l][c]))
  ELSE Capacity[l]

\* Variant: a new bucket is made as long as there is no more than room for.
RoomForOneMore(l, c) == c \in tracked[l] \/ Cardinality(tracked[l]) <= MaxBuckets

Room(l, c) == c \in tracked[l] \/ Cardinality(tracked[l]) < MaxBuckets

\* The bucket is in the map, refilled and stamped, whatever the answer.
Keep(l, c, held) ==
  /\ tracked' = [tracked EXCEPT ![l] = @ \cup {c}]
  /\ tokens' = [tokens EXCEPT ![l][c] = held]
  /\ last' = [last EXCEPT ![l][c] = clock]

Admits(l, c) ==
  /\ Room(l, c)
  /\ Refill(l, c) >= Unit
  /\ Keep(l, c, Refill(l, c) - Unit)
  /\ passed' = [passed EXCEPT ![l][c] = @ + 1]

\* Variant: a refused call leaves the time of the last check as it was.
RefusesUnstamped(l, c) ==
  /\ Room(l, c)
  /\ Refill(l, c) < Unit
  /\ tracked' = [tracked EXCEPT ![l] = @ \cup {c}]
  /\ tokens' = [tokens EXCEPT ![l][c] = Refill(l, c)]
  /\ UNCHANGED <<last, passed>>

Refuses(l, c) ==
  /\ Room(l, c)
  /\ Refill(l, c) < Unit
  /\ Keep(l, c, Refill(l, c))
  /\ UNCHANGED passed

\* maxBuckets: a new client is turned away rather than tracked.
TurnsAway(l, c) ==
  /\ ~Room(l, c)
  /\ UNCHANGED buckets

-----------------------------------------------------------------------------
(* PerRouteLimiter.Allow, called by Middleware for every request *)

\* A route without a limiter leaves it at the first answer.
Ask(r, c, route) ==
  /\ asking[r] = Nothing
  /\ \/ /\ Admits(Global, c)
        /\ asking' = IF route \in Routes
                     THEN [asking EXCEPT ![r] = [client |-> c, route |-> route]]
                     ELSE asking
     \/ /\ Refuses(Global, c) \/ TurnsAway(Global, c)
        /\ UNCHANGED asking
  /\ UNCHANGED <<clock, sweep>>

\* A token of the global limiter is spent, whatever the route's says.
AskRoute(r) ==
  LET l == asking[r].route  c == asking[r].client IN
  /\ asking[r] # Nothing
  /\ Admits(l, c) \/ Refuses(l, c) \/ TurnsAway(l, c)
  /\ asking' = [asking EXCEPT ![r] = Nothing]
  /\ UNCHANGED <<clock, sweep>>

-----------------------------------------------------------------------------
(* Cleanup *)

\* Variants: the buckets used since the cutoff are dropped; only the global
\* limiter is cleaned.
StaleReversed(l) == {c \in tracked[l] : last[l][c] >= clock - Cutoff}
StaleGlobally(l) == {c \in tracked[l] : l = Global /\ last[l][c] < clock - Cutoff}

Stale(l) == {c \in tracked[l] : last[l][c] < clock - Cutoff}

\* The global limiter first.
Clean(l) ==
  /\ l \in sweep
  /\ l = Global \/ Global \notin sweep
  /\ sweep' = sweep \ {l}
  /\ tracked' = [tracked EXCEPT ![l] = @ \ Stale(l)]
  /\ tokens' = [tokens EXCEPT ![l] = [c \in Clients |-> IF c \in Stale(l) THEN 0 ELSE @[c]]]
  /\ last' = [last EXCEPT ![l] = [c \in Clients |-> IF c \in Stale(l) THEN 0 ELSE @[c]]]
  /\ UNCHANGED <<clock, passed, asking>>

\* A cleanup is done before the next tick: it takes no time to speak of.
Tick ==
  /\ clock < MaxClock
  /\ sweep = {}
  /\ clock' = clock + 1
  /\ sweep' = IF (clock + 1) % Interval = 0 THEN Limiters ELSE {}
  /\ UNCHANGED <<buckets, asking>>

Next ==
  \/ \E r \in Requests : AskRoute(r) \/ \E c \in Clients, route \in Routes \cup {Elsewhere} : Ask(r, c, route)
  \/ \E l \in Limiters : Clean(l)
  \/ Tick

Spec == Init /\ [][Next]_vars

-----------------------------------------------------------------------------
\* The buckets that come, go and are refilled when asked are as good as one for
\* every client that is always there and always filling, for however long a
\* client stays away and however Allow and Cleanup interleave (Allow, Cleanup).
Ideal == INSTANCE TokenBuckets WITH
           level <- [l \in Limiters |-> [c \in Clients |-> Refill(l, c)]]

ImplementsBuckets == Ideal!Spec

\* A client that hammers, pauses and comes back gets its burst and its rate, and
\* no more (Allow, Cleanup).
Limited == Ideal!Limited

\* The memory of the clients is bounded in number and in time: no more than
\* maxBuckets, and none longer than the cutoff and one interval after its last
\* request, on any limiter (Allow, StartCleanup).
Bounded ==
  \A l \in Limiters :
    /\ Cardinality(tracked[l]) <= MaxBuckets
    /\ sweep = {} => \A c \in tracked[l] : clock - last[l][c] < Cutoff + Interval
=============================================================================
