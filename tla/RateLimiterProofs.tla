-------------------------- MODULE RateLimiterProofs --------------------------
(***************************************************************************)
(* That the limiter is as good as ideal buckets, for any number of clients,*)
(* routes and requests, any rates and any bursts that fill within the      *)
(* cutoff.  The steps of the limiter are mapped, one by one, to those of   *)
(* TokenBuckets; Limited is then an invariant of the buckets.              *)
(***************************************************************************)
EXTENDS RateLimiter, FiniteSetTheorems, TLAPS

USE DEF Limiters

-----------------------------------------------------------------------------
(* Arithmetic *)

LEMMA OneMore ==
  ASSUME NEW r \in Nat, NEW k \in Nat, NEW a \in 0..k
  PROVE  r * ((k + 1) - a) = r * (k - a) + r
  OBVIOUS

LEMMA Grows ==
  ASSUME NEW r \in Nat, NEW a \in Nat, NEW b \in Nat, a <= b
  PROVE  r * a <= r * b
<1>1. PICK d \in Nat : b = a + d
  <2>1. b - a \in Nat /\ b = a + (b - a)
    OBVIOUS
  <2> QED BY <2>1
<1>2. r * (a + d) = r * a + r * d
  OBVIOUS
<1>3. r * d \in Nat /\ r * a \in Nat
  OBVIOUS
<1> QED BY <1>1, <1>2, <1>3

LEMMA CapacityType == Capacity \in [Limiters -> Nat]
<1>1. ASSUME NEW l \in Limiters
      PROVE  Unit * (IF Burst[l] < 1 THEN Rate[l] ELSE Burst[l]) \in Nat
  <2>1. Unit \in Nat /\ Rate[l] \in Nat /\ Burst[l] \in Nat
    BY LimiterAssumption
  <2> QED BY <2>1
<1> QED BY <1>1 DEF Capacity

\* What a bucket holds is never more than fits, nor less than nothing.
LEMMA RefillType ==
  ASSUME TypeOK, NEW l \in Limiters, NEW c \in Clients
  PROVE  Refill(l, c) \in Nat /\ Refill(l, c) <= Capacity[l]
<1>1. Capacity[l] \in Nat
  BY CapacityType
<1>2. tokens[l][c] \in Nat /\ Rate[l] \in Nat /\ clock - last[l][c] \in Nat
  BY LimiterAssumption DEF TypeOK
<1>3. Rate[l] * (clock - last[l][c]) \in Nat
  BY <1>2
<1> QED BY <1>1, <1>2, <1>3 DEF Refill, Least

-----------------------------------------------------------------------------
(* Types *)

LEMMA InitType == Init => TypeOK
<1>1. SUFFICES ASSUME Init PROVE TypeOK
  OBVIOUS
<1>2. clock \in 0..MaxClock /\ sweep \in SUBSET Limiters
  BY LimiterAssumption, <1>1 DEF Init
<1>3. tracked \in [Limiters -> SUBSET Clients] /\ asking \in [Requests -> {Nothing}]
  BY <1>1 DEF Init
<1>4. /\ tokens \in [Limiters -> [Clients -> Nat]]
      /\ last \in [Limiters -> [Clients -> 0..clock]]
      /\ passed \in [Limiters -> [Clients -> Nat]]
  BY <1>1 DEF Init
<1>5. \A l \in Limiters, c \in Clients : tokens[l][c] <= Capacity[l]
  BY CapacityType, <1>1 DEF Init
<1> QED BY <1>2, <1>3, <1>4, <1>5 DEF TypeOK

\* The buckets keep their type, whatever a bucket is left to hold within its
\* capacity.
BucketType ==
  /\ tracked \in [Limiters -> SUBSET Clients]
  /\ tokens \in [Limiters -> [Clients -> Nat]]
  /\ \A l \in Limiters, c \in Clients : tokens[l][c] <= Capacity[l]
  /\ last \in [Limiters -> [Clients -> 0..clock]]
  /\ passed \in [Limiters -> [Clients -> Nat]]

LEMMA KeepType ==
  ASSUME TypeOK, NEW l \in Limiters, NEW c \in Clients,
         NEW held \in Nat, held <= Capacity[l], Keep(l, c, held), clock' = clock,
         passed' \in [Limiters -> [Clients -> Nat]]
  PROVE  BucketType'
<1>1. clock \in Nat
  BY LimiterAssumption DEF TypeOK
<1>2. tracked' \in [Limiters -> SUBSET Clients]
  BY DEF TypeOK, Keep
<1>3. tokens' \in [Limiters -> [Clients -> Nat]]
  BY DEF TypeOK, Keep
<1>4. last' \in [Limiters -> [Clients -> 0..clock']]
  BY <1>1 DEF TypeOK, Keep
<1>5. \A k \in Limiters, d \in Clients : tokens'[k][d] <= Capacity[k]
  BY DEF TypeOK, Keep
<1>6. Capacity' = Capacity
  BY DEF Capacity
<1> QED BY <1>2, <1>3, <1>4, <1>5, <1>6 DEF BucketType

LEMMA AllowType ==
  ASSUME TypeOK, NEW l \in Limiters, NEW c \in Clients, clock' = clock,
         Admits(l, c) \/ Refuses(l, c) \/ TurnsAway(l, c)
  PROVE  BucketType'
<1>1. Unit \in Nat \ {0} /\ Refill(l, c) \in Nat /\ Refill(l, c) <= Capacity[l] /\ Capacity[l] \in Nat
  BY LimiterAssumption, RefillType, CapacityType
<1>2. CASE Admits(l, c)
  <2>1. Refill(l, c) - Unit \in Nat /\ Refill(l, c) - Unit <= Capacity[l]
    BY <1>1, <1>2 DEF Admits
  <2>2. passed' \in [Limiters -> [Clients -> Nat]]
    BY <1>2 DEF Admits, TypeOK
  <2> QED BY <1>2, <2>1, <2>2, KeepType DEF Admits
<1>3. CASE Refuses(l, c)
  <2>1. passed' \in [Limiters -> [Clients -> Nat]]
    BY <1>3 DEF Refuses, TypeOK
  <2> QED BY <1>1, <1>3, <2>1, KeepType DEF Refuses
<1>4. CASE TurnsAway(l, c)
  BY <1>4 DEF TurnsAway, buckets, TypeOK, BucketType, Capacity
<1> QED BY <1>2, <1>3, <1>4

LEMMA CleanType ==
  ASSUME TypeOK, NEW l \in Limiters, Clean(l)
  PROVE  BucketType'
<1>1. clock \in Nat /\ clock' = clock
  BY LimiterAssumption DEF TypeOK, Clean
<1>2. tracked' \in [Limiters -> SUBSET Clients] /\ passed' \in [Limiters -> [Clients -> Nat]]
  BY DEF TypeOK, Clean
<1>3. tokens' \in [Limiters -> [Clients -> Nat]]
  BY DEF TypeOK, Clean
<1>4. last' \in [Limiters -> [Clients -> 0..clock']]
  BY <1>1 DEF TypeOK, Clean
<1>5. ASSUME NEW k \in Limiters, NEW d \in Clients
      PROVE  tokens'[k][d] <= Capacity[k]
  <2>1. Capacity[k] \in Nat
    BY CapacityType
  <2>2. tokens'[k][d] \in {0, tokens[k][d]}
    BY DEF TypeOK, Clean
  <2> QED BY <2>1, <2>2 DEF TypeOK
<1>6. Capacity' = Capacity
  BY DEF Capacity
<1> QED BY <1>2, <1>3, <1>4, <1>5, <1>6 DEF BucketType

LEMMA StepType == TypeOK /\ [Next]_vars => TypeOK'
<1>1. SUFFICES ASSUME TypeOK, [Next]_vars PROVE TypeOK'
  OBVIOUS
<1>2. clock \in Nat /\ MaxClock \in Nat /\ Global \in Limiters
  BY LimiterAssumption, <1>1 DEF TypeOK
<1>3. ASSUME NEW r \in Requests, NEW c \in Clients, NEW route \in Routes \cup {Elsewhere},
             Ask(r, c, route)
      PROVE  TypeOK'
  <2>1. BucketType'
    BY <1>1, <1>2, <1>3, AllowType DEF Ask
  <2>2. asking' \in [Requests -> [client : Clients, route : Routes] \cup {Nothing}]
    BY <1>1, <1>3 DEF Ask, TypeOK
  <2> QED BY <1>1, <1>3, <2>1, <2>2 DEF Ask, TypeOK, BucketType
<1>4. ASSUME NEW r \in Requests, AskRoute(r)
      PROVE  TypeOK'
  <2>1. asking[r].route \in Limiters /\ asking[r].client \in Clients
    BY <1>1, <1>4 DEF TypeOK, AskRoute
  <2>2. BucketType'
    BY <1>1, <1>4, <2>1, AllowType DEF AskRoute
  <2>3. asking' \in [Requests -> [client : Clients, route : Routes] \cup {Nothing}]
    BY <1>1, <1>4 DEF AskRoute, TypeOK
  <2> QED BY <1>1, <1>4, <2>2, <2>3 DEF AskRoute, TypeOK, BucketType
<1>5. ASSUME NEW l \in Limiters, Clean(l)
      PROVE  TypeOK'
  BY <1>1, <1>5, CleanType DEF Clean, TypeOK, BucketType
<1>6. CASE Tick
  <2>1. clock' \in 0..MaxClock /\ sweep' \in SUBSET Limiters
    BY <1>1, <1>2, <1>6 DEF Tick, TypeOK
  <2>2. last' \in [Limiters -> [Clients -> 0..clock']]
    BY <1>1, <1>2, <1>6 DEF Tick, TypeOK, buckets
  <2>3. Capacity' = Capacity /\ Nothing' = Nothing
    BY DEF Capacity, Nothing
  <2> QED BY <1>1, <1>6, <2>1, <2>2, <2>3 DEF Tick, TypeOK, buckets
<1>7. CASE UNCHANGED vars
  BY <1>1, <1>7 DEF vars, buckets, TypeOK, Capacity
<1> QED BY <1>1, <1>3, <1>4, <1>5, <1>6, <1>7 DEF Next

\* The limiter's state keeps its types: above all, no bucket is ever overdrawn
\* nor holds more than its burst (Allow, Cleanup).
THEOREM Types == Spec => []TypeOK
  BY InitType, StepType, PTL DEF Spec

-----------------------------------------------------------------------------
(* The refinement *)

\* TokenBuckets' level.
Level == [l \in Limiters |-> [c \in Clients |-> Refill(l, c)]]

LEMMA InitImplements == Init => Ideal!Init
  BY DEF Init, Ideal!Init, Refill

\* A bucket just kept holds what it was left to hold.
LEMMA KeepLevel ==
  ASSUME TypeOK, NEW l \in Limiters, NEW c \in Clients,
         NEW held \in Nat, held <= Capacity[l], Keep(l, c, held), clock' = clock
  PROVE  Level' = [Level EXCEPT ![l][c] = held]
<1>1. clock \in Nat /\ Rate[l] \in Nat /\ Capacity[l] \in Nat /\ Capacity' = Capacity
  BY LimiterAssumption, CapacityType DEF TypeOK, Capacity
<1>2. Refill(l, c)' = held
  <2>1. c \in tracked'[l] /\ tokens'[l][c] = held /\ last'[l][c] = clock
    BY DEF Keep, TypeOK
  <2>2. Rate[l] * (clock - clock) = 0
    BY <1>1
  <2> QED BY <1>1, <2>1, <2>2 DEF Refill, Least
<1>3. ASSUME NEW k \in Limiters, NEW d \in Clients, k # l \/ d # c
      PROVE  Refill(k, d)' = Refill(k, d)
  <2>1. /\ d \in tracked'[k] <=> d \in tracked[k]
        /\ tokens'[k][d] = tokens[k][d]
        /\ last'[k][d] = last[k][d]
    BY <1>3 DEF Keep, TypeOK
  <2> QED BY <1>1, <2>1 DEF Refill
<1> QED BY <1>2, <1>3 DEF Level

\* Allow takes a token from a bucket, or leaves all of them as they are.
LEMMA AllowImplements ==
  ASSUME TypeOK, NEW l \in Limiters, NEW c \in Clients, clock' = clock,
         Admits(l, c) \/ Refuses(l, c) \/ TurnsAway(l, c)
  PROVE  Ideal!Pass(l, c) \/ UNCHANGED <<Level, passed>>
<1>1. Unit \in Nat \ {0} /\ Refill(l, c) \in Nat /\ Refill(l, c) <= Capacity[l] /\ Capacity[l] \in Nat
  BY LimiterAssumption, RefillType, CapacityType
<1>2. Level[l][c] = Refill(l, c) /\ Level[l] \in [Clients -> {Level[l][d] : d \in Clients}]
  BY DEF Level
<1>3. CASE Admits(l, c)
  <2>1. Refill(l, c) - Unit \in Nat /\ Refill(l, c) - Unit <= Capacity[l]
    BY <1>1, <1>3 DEF Admits
  <2>2. Level' = [Level EXCEPT ![l][c] = Refill(l, c) - Unit]
    BY <1>3, <2>1, KeepLevel DEF Admits
  <2>3. Level' = [Level EXCEPT ![l][c] = @ - Unit]
    BY <1>2, <2>2 DEF Level
  <2> QED BY <1>2, <1>3, <2>3 DEF Admits, Ideal!Pass, Level
<1>4. CASE Refuses(l, c)
  <2>1. Level' = [Level EXCEPT ![l][c] = Refill(l, c)]
    BY <1>1, <1>4, KeepLevel DEF Refuses
  <2>2. [Level EXCEPT ![l][c] = Level[l][c]] = Level
    <3>1. [Level[l] EXCEPT ![c] = Level[l][c]] = Level[l]
      BY <1>2
    <3>2. Level \in [Limiters -> {Level[k] : k \in Limiters}]
      BY DEF Level
    <3>3. [Level EXCEPT ![l] = Level[l]] = Level
      BY <3>2
    <3>4. QED
      BY <3>1, <3>3
  <2>3. Level' = Level
    BY <1>2, <2>1, <2>2
  <2> QED BY <1>4, <2>3 DEF Refuses
<1>5. CASE TurnsAway(l, c)
  BY <1>5 DEF TurnsAway, buckets, Level, Refill, Capacity, Least
<1> QED BY <1>3, <1>4, <1>5

\* What Cleanup forgets had time to fill.
LEMMA StaleIsFull ==
  ASSUME TypeOK, NEW l \in Limiters, NEW c \in Stale(l)
  PROVE  Refill(l, c) = Capacity[l]
<1>1. c \in Clients /\ c \in tracked[l] /\ last[l][c] < clock - Cutoff
  BY DEF Stale, TypeOK
<1>2. /\ Cutoff \in Nat /\ Rate[l] \in Nat /\ Capacity[l] \in Nat /\ clock \in Nat
      /\ last[l][c] \in 0..clock /\ tokens[l][c] \in Nat
      /\ Capacity[l] <= Rate[l] * Cutoff
  BY <1>1, LimiterAssumption, CapacityType DEF TypeOK
<1>3. clock - last[l][c] \in Nat /\ Cutoff <= clock - last[l][c]
  BY <1>1, <1>2
<1>4. Rate[l] * Cutoff <= Rate[l] * (clock - last[l][c])
  BY <1>2, <1>3, Grows
<1>5. Rate[l] * Cutoff \in Nat /\ Rate[l] * (clock - last[l][c]) \in Nat
  BY <1>2, <1>3
<1> QED BY <1>1, <1>2, <1>4, <1>5 DEF Refill, Least

LEMMA CleanImplements ==
  ASSUME TypeOK, NEW l \in Limiters, Clean(l)
  PROVE  UNCHANGED <<clock, Level, passed>>
<1>1. clock' = clock /\ passed' = passed /\ Capacity' = Capacity
  BY DEF Clean, Capacity
<1>2. ASSUME NEW k \in Limiters, NEW d \in Clients
      PROVE  Refill(k, d)' = Refill(k, d)
  <2>1. CASE k = l /\ d \in Stale(l)
    <3>1. d \notin tracked'[k]
      BY <2>1 DEF Clean, TypeOK
    <3> QED BY <1>1, <2>1, <3>1, StaleIsFull DEF Refill
  <2>2. CASE ~(k = l /\ d \in Stale(l))
    <3>1. /\ d \in tracked'[k] <=> d \in tracked[k]
          /\ tokens'[k][d] = tokens[k][d]
          /\ last'[k][d] = last[k][d]
      BY <2>2 DEF Clean, TypeOK
    <3> QED BY <1>1, <3>1 DEF Refill
  <2> QED BY <2>1, <2>2
<1> QED BY <1>1, <1>2 DEF Level

\* A tick is worth one Rate to every bucket, kept or forgotten.
LEMMA TickImplements ==
  ASSUME TypeOK, Tick
  PROVE  Ideal!Fill
<1>1. /\ clock \in Nat /\ clock' = clock + 1 /\ clock < MaxClock /\ passed' = passed
      /\ tracked' = tracked /\ tokens' = tokens /\ last' = last /\ Capacity' = Capacity
  BY LimiterAssumption DEF TypeOK, Tick, buckets, Capacity
<1>2. ASSUME NEW l \in Limiters, NEW c \in Clients
      PROVE  Refill(l, c)' = Least(Capacity[l], Refill(l, c) + Rate[l])
  <2>1. Capacity[l] \in Nat /\ Rate[l] \in Nat /\ tokens[l][c] \in Nat /\ last[l][c] \in 0..clock
    BY LimiterAssumption, CapacityType DEF TypeOK
  <2>2. CASE c \in tracked[l]
    <3> DEFINE gain == Rate[l] * (clock - last[l][c])
    <3>1. gain \in Nat
      BY <1>1, <2>1
    <3>2. Rate[l] * ((clock + 1) - last[l][c]) = gain + Rate[l]
      BY <1>1, <2>1, OneMore
    <3>3. Refill(l, c) = Least(Capacity[l], tokens[l][c] + gain)
      BY <2>2 DEF Refill
    <3>4. Refill(l, c)' = Least(Capacity[l], tokens[l][c] + (gain + Rate[l]))
      BY <1>1, <2>2, <3>2 DEF Refill, Least
    <3> HIDE DEF gain
    <3> QED BY <2>1, <3>1, <3>3, <3>4 DEF Least
  <2>3. CASE c \notin tracked[l]
    BY <1>1, <2>1, <2>3 DEF Refill, Least
  <2> QED BY <2>2, <2>3
<1> QED BY <1>1, <1>2 DEF Ideal!Fill, Ideal!Least, Least

LEMMA StepImplements == TypeOK /\ [Next]_vars => [Ideal!Next]_<<clock, Level, passed>>
<1>1. SUFFICES ASSUME TypeOK, [Next]_vars PROVE [Ideal!Next]_<<clock, Level, passed>>
  OBVIOUS
<1>2. Global \in Limiters
  OBVIOUS
<1>3. ASSUME NEW r \in Requests, NEW c \in Clients, NEW route \in Routes \cup {Elsewhere},
             Ask(r, c, route)
      PROVE  Ideal!Pass(Global, c) \/ UNCHANGED <<clock, Level, passed>>
  BY <1>1, <1>2, <1>3, AllowImplements DEF Ask
<1>4. ASSUME NEW r \in Requests, AskRoute(r)
      PROVE  \/ \E l \in Limiters, c \in Clients : Ideal!Pass(l, c)
             \/ UNCHANGED <<clock, Level, passed>>
  <2>1. asking[r].route \in Limiters /\ asking[r].client \in Clients
    BY <1>1, <1>4 DEF TypeOK, AskRoute
  <2> QED BY <1>1, <1>4, <2>1, AllowImplements DEF AskRoute
<1>5. ASSUME NEW l \in Limiters, Clean(l)
      PROVE  UNCHANGED <<clock, Level, passed>>
  BY <1>1, <1>5, CleanImplements
<1>6. CASE Tick
  BY <1>1, <1>6, TickImplements DEF Ideal!Next
<1>7. CASE UNCHANGED vars
  BY <1>7 DEF vars, buckets, Level, Refill, Capacity, Least
<1> QED BY <1>1, <1>2, <1>3, <1>4, <1>5, <1>6, <1>7 DEF Next, Ideal!Next

\* The limiter implements the ideal buckets: a bucket that is made late, refilled
\* when asked and forgotten when idle cannot be told from one that is always
\* there (Allow, Cleanup).
THEOREM Implements == Spec => ImplementsBuckets
<1>1. [Ideal!Next]_<<clock, Level, passed>> <=> [Ideal!Next]_(Ideal!vars)
  BY DEF Ideal!vars, Level
<1> QED BY <1>1, InitImplements, StepImplements, Types, PTL DEF Spec, ImplementsBuckets, Ideal!Spec

-----------------------------------------------------------------------------
(* The limit *)

\* What has passed and what is left to pass came with the bucket or has flowed
\* into it since.
Paid ==
  \A l \in Limiters, c \in Clients :
    Unit * passed[l][c] + Level[l][c] <= Capacity[l] + Rate[l] * clock

LEMMA InitPaid == Init => Paid
<1>1. SUFFICES ASSUME Init, NEW l \in Limiters, NEW c \in Clients
               PROVE  Unit * passed[l][c] + Level[l][c] <= Capacity[l] + Rate[l] * clock
  BY DEF Paid
<1>2. passed[l][c] = 0 /\ Level[l][c] = Capacity[l] /\ clock = 0
  BY <1>1 DEF Init, Level, Refill
<1>3. Unit \in Nat /\ Rate[l] \in Nat /\ Capacity[l] \in Nat
  BY LimiterAssumption, CapacityType
<1> QED BY <1>2, <1>3

LEMMA StepPaid ==
  TypeOK /\ Paid /\ [Ideal!Next]_<<clock, Level, passed>> => Paid'
<1>1. SUFFICES ASSUME TypeOK, Paid, [Ideal!Next]_<<clock, Level, passed>>,
                      NEW l \in Limiters, NEW c \in Clients
               PROVE  Unit * passed'[l][c] + Level'[l][c] <= Capacity[l] + Rate[l] * clock'
  BY DEF Paid, Capacity
<1>2. /\ Unit \in Nat \ {0} /\ Rate[l] \in Nat /\ Capacity[l] \in Nat /\ clock \in Nat
      /\ passed[l][c] \in Nat /\ Level[l][c] \in Nat
  BY <1>1, LimiterAssumption, CapacityType, RefillType DEF TypeOK, Level
<1>3. Unit * passed[l][c] + Level[l][c] <= Capacity[l] + Rate[l] * clock
  BY <1>1 DEF Paid
<1>4. CASE Ideal!Fill
  <2>1. passed'[l][c] = passed[l][c] /\ clock' = clock + 1
    BY <1>4 DEF Ideal!Fill
  <2>2. Level'[l][c] <= Level[l][c] + Rate[l] /\ Level'[l][c] \in Nat
    <3>1. Level' = [k \in Limiters |-> [d \in Clients |-> Ideal!Least(Capacity[k], Level[k][d] + Rate[k])]]
      BY <1>4 DEF Ideal!Fill, Level
    <3>2. Level'[l][c] = Ideal!Least(Capacity[l], Level[l][c] + Rate[l])
      BY <3>1
    <3> QED BY <1>2, <3>2 DEF Ideal!Least
  <2>3. Rate[l] * (clock + 1) = Rate[l] * clock + Rate[l] /\ Rate[l] * clock \in Nat
    BY <1>2
  <2>4. Unit * passed[l][c] \in Nat
    BY <1>2
  <2> QED BY <1>2, <1>3, <2>1, <2>2, <2>3, <2>4
<1>5. ASSUME NEW k \in Limiters, NEW d \in Clients, Ideal!Pass(k, d)
      PROVE  Unit * passed'[l][c] + Level'[l][c] <= Capacity[l] + Rate[l] * clock'
  <2>1. clock' = clock /\ Level' = [Level EXCEPT ![k][d] = @ - Unit]
    BY <1>5 DEF Ideal!Pass, Level
  <2>2. passed' = [passed EXCEPT ![k][d] = @ + 1]
    BY <1>5 DEF Ideal!Pass
  <2>3. CASE k = l /\ d = c
    <3>1. passed'[l][c] = passed[l][c] + 1 /\ Level'[l][c] = Level[l][c] - Unit
      BY <1>1, <2>1, <2>2, <2>3 DEF TypeOK, Level
    <3>2. Unit * (passed[l][c] + 1) = Unit * passed[l][c] + Unit
      BY <1>2
    <3>3. Unit * passed[l][c] \in Nat /\ Rate[l] * clock \in Nat
      BY <1>2
    <3> QED BY <1>2, <1>3, <2>1, <3>1, <3>2, <3>3
  <2>4. CASE ~(k = l /\ d = c)
    <3>1. passed'[l][c] = passed[l][c]
      BY <1>1, <2>2, <2>4 DEF TypeOK
    <3>2. Level \in [Limiters -> [Clients -> Int]]
      BY <1>1, RefillType DEF Level
    <3>3. Level'[l][c] = Level[l][c]
      BY <2>1, <2>4, <3>2
    <3> QED BY <1>3, <2>1, <3>1, <3>3
  <2> QED BY <2>3, <2>4
<1>6. CASE UNCHANGED <<clock, Level, passed>>
  BY <1>3, <1>6
<1> QED BY <1>1, <1>4, <1>5, <1>6 DEF Ideal!Next

LEMMA PaidLimits == TypeOK /\ Paid => Limited
<1>1. SUFFICES ASSUME TypeOK, Paid, NEW l \in Limiters, NEW c \in Clients
               PROVE  Unit * passed[l][c] <= Capacity[l] + Rate[l] * clock
  BY DEF Limited, Ideal!Limited
<1>2. Level[l][c] \in Nat /\ Unit * passed[l][c] \in Nat /\ Capacity[l] + Rate[l] * clock \in Nat
  <2>1. /\ Unit \in Nat /\ Rate[l] \in Nat /\ Capacity[l] \in Nat /\ clock \in Nat
        /\ passed[l][c] \in Nat /\ Level[l][c] \in Nat
    BY <1>1, LimiterAssumption, CapacityType, RefillType DEF TypeOK, Level
  <2> QED BY <2>1
<1>3. Unit * passed[l][c] + Level[l][c] <= Capacity[l] + Rate[l] * clock
  BY <1>1 DEF Paid
<1> QED BY <1>2, <1>3

\* No client gets more through a limiter than its burst and its rate, however it
\* times its requests, its pauses and its returns (Allow, Cleanup).
THEOREM Limit == Spec => []Limited
<1>1. TypeOK /\ Paid /\ [Next]_vars => Paid'
  BY StepImplements, StepPaid
<1> QED BY <1>1, InitPaid, PaidLimits, Types, PTL DEF Spec

-----------------------------------------------------------------------------
(* The bounds *)

\* The time of the last cleanup that came due.
Due == clock - (clock % Interval)

\* A limiter already cleaned has no bucket older than the cutoff was then.
Swept ==
  /\ sweep # {} => clock % Interval = 0
  /\ \A l \in Limiters \ sweep : \A c \in tracked[l] : last[l][c] >= Due - Cutoff

Sized == \A l \in Limiters : Cardinality(tracked[l]) <= MaxBuckets

LEMMA Remainder ==
  ASSUME NEW k \in Nat, NEW i \in Nat \ {0}
  PROVE  /\ k % i \in 0..(i - 1)
         /\ (k + 1) % i # 0 => (k + 1) % i = (k % i) + 1
<1>1. k % i \in 0..(i - 1) /\ k = i * (k \div i) + (k % i) /\ k \div i \in Int
  OBVIOUS
<1>2. (k + 1) % i \in 0..(i - 1) /\ k + 1 = i * ((k + 1) \div i) + ((k + 1) % i) /\ (k + 1) \div i \in Int
  OBVIOUS
<1> DEFINE p == k \div i  q == (k + 1) \div i  a == k % i  b == (k + 1) % i
<1>3. p \in Int /\ q \in Int /\ a \in 0..(i - 1) /\ b \in 0..(i - 1) /\ i * q + b = i * p + a + 1
  BY <1>1, <1>2
<1> HIDE DEF p, q, a, b
<1>4. b # 0 => q = p
  <2>1. i * (q - p) = a + 1 - b /\ q - p \in Int
    BY <1>3
  <2>2. ASSUME q - p >= 1 PROVE i * (q - p) >= i
    BY <1>3, <2>2
  <2>3. ASSUME q - p <= -1 PROVE i * (q - p) <= -i
    BY <1>3, <2>3
  <2> QED BY <1>3, <2>1, <2>2, <2>3
<1>5. b # 0 => b = a + 1
  BY <1>3, <1>4
<1> QED BY <1>1, <1>5 DEF a, b

LEMMA InitBounded == Init => Swept /\ Sized
<1>1. SUFFICES ASSUME Init PROVE Swept /\ Sized
  OBVIOUS
<1>2. Cardinality({}) = 0 /\ MaxBuckets \in Nat
  BY FS_EmptySet, LimiterAssumption
<1>3. Sized
  BY <1>1, <1>2 DEF Init, Sized
<1>4. Swept
  BY <1>1 DEF Init, Swept
<1> QED BY <1>3, <1>4

LEMMA TrackedFinite ==
  ASSUME TypeOK, NEW l \in Limiters
  PROVE  IsFiniteSet(tracked[l]) /\ Cardinality(tracked[l]) \in Nat
<1>1. tracked[l] \in SUBSET Clients /\ IsFiniteSet(Clients)
  BY LimiterAssumption DEF TypeOK
<1> QED BY <1>1, FS_Subset, FS_CardinalityType

LEMMA AllowSized ==
  ASSUME TypeOK, Sized, NEW l \in Limiters, NEW c \in Clients,
         Admits(l, c) \/ Refuses(l, c) \/ TurnsAway(l, c)
  PROVE  Sized'
<1>1. CASE TurnsAway(l, c)
  BY <1>1 DEF TurnsAway, buckets, Sized
<1>2. CASE Room(l, c) /\ tracked' = [tracked EXCEPT ![l] = @ \cup {c}]
  <2>1. Cardinality(tracked[l] \cup {c}) <= MaxBuckets
    <3>1. /\ IsFiniteSet(tracked[l]) /\ Cardinality(tracked[l]) \in Nat
          /\ MaxBuckets \in Nat /\ Cardinality(tracked[l]) <= MaxBuckets
      BY TrackedFinite, LimiterAssumption DEF Sized
    <3>2. Cardinality(tracked[l] \cup {c})
            = IF c \in tracked[l] THEN Cardinality(tracked[l]) ELSE Cardinality(tracked[l]) + 1
      BY <3>1, FS_AddElement
    <3> QED BY <1>2, <3>1, <3>2 DEF Room
  <2> QED BY <1>2, <2>1 DEF Sized, TypeOK
<1> QED BY <1>1, <1>2 DEF Admits, Refuses, Keep

LEMMA AllowSwept ==
  ASSUME TypeOK, Swept, NEW l \in Limiters, NEW c \in Clients,
         Admits(l, c) \/ Refuses(l, c) \/ TurnsAway(l, c),
         clock' = clock, sweep' = sweep
  PROVE  Swept'
<1>1. CASE TurnsAway(l, c)
  BY <1>1 DEF TurnsAway, buckets, Swept, Due
<1>2. CASE /\ tracked' = [tracked EXCEPT ![l] = @ \cup {c}]
           /\ last' = [last EXCEPT ![l][c] = clock]
  <2>1. clock \in Nat /\ Due \in Int /\ clock >= Due - Cutoff
    <3>1. clock \in Nat /\ Interval \in Nat \ {0} /\ Cutoff \in Nat
      BY LimiterAssumption DEF TypeOK
    <3>2. clock % Interval \in 0..(Interval - 1)
      BY <3>1, Remainder
    <3> QED BY <3>1, <3>2 DEF Due
  <2>2. ASSUME NEW k \in Limiters \ sweep, NEW d \in tracked'[k]
        PROVE  last'[k][d] >= Due - Cutoff
    <3>1. CASE k = l /\ d = c
      BY <1>2, <2>1, <3>1 DEF TypeOK
    <3>2. CASE ~(k = l /\ d = c)
      <4>1. d \in tracked[k] /\ d \in Clients
        BY <1>2, <2>2, <3>2 DEF TypeOK
      <4>2. last'[k][d] = last[k][d]
        BY <1>2, <3>2, <4>1 DEF TypeOK
      <4> QED BY <4>1, <4>2 DEF Swept
    <3> QED BY <3>1, <3>2
  <2> QED BY <2>2 DEF Swept, Due
<1> QED BY <1>1, <1>2 DEF Admits, Refuses, Keep

LEMMA CleanBounded ==
  ASSUME TypeOK, Sized, Swept, NEW l \in Limiters, Clean(l)
  PROVE  Sized' /\ Swept'
<1>1. Sized'
  <2>1. Cardinality(tracked[l] \ Stale(l)) <= MaxBuckets
    <3>1. /\ IsFiniteSet(tracked[l]) /\ Cardinality(tracked[l]) \in Nat
          /\ MaxBuckets \in Nat /\ Cardinality(tracked[l]) <= MaxBuckets
      BY TrackedFinite, LimiterAssumption DEF Sized
    <3>2. (tracked[l] \ Stale(l)) \in SUBSET tracked[l]
      OBVIOUS
    <3>3. /\ IsFiniteSet(tracked[l] \ Stale(l))
          /\ Cardinality(tracked[l] \ Stale(l)) <= Cardinality(tracked[l])
      BY <3>1, <3>2, FS_Subset
    <3>4. Cardinality(tracked[l] \ Stale(l)) \in Nat
      BY <3>3, FS_CardinalityType
    <3> QED BY <3>1, <3>3, <3>4
  <2> QED BY <2>1 DEF Sized, TypeOK, Clean
<1>2. clock' = clock /\ Due' = Due /\ clock \in Nat /\ clock % Interval = 0 /\ Due = clock
  BY LimiterAssumption DEF TypeOK, Clean, Swept, Due
<1>3. ASSUME NEW k \in Limiters \ sweep', NEW d \in tracked'[k]
      PROVE  last'[k][d] >= Due - Cutoff
  <2>1. d \in Clients /\ d \in tracked[k] /\ ~(k = l /\ d \in Stale(l))
    BY <1>3 DEF Clean, TypeOK
  <2>2. last'[k][d] = last[k][d]
    BY <2>1 DEF Clean, TypeOK
  <2>3. CASE k = l
    <3>1. ~(last[k][d] < clock - Cutoff) /\ last[k][d] \in Nat /\ Cutoff \in Nat
      BY <1>2, <2>1, <2>3, LimiterAssumption DEF Stale, TypeOK
    <3> QED BY <1>2, <2>2, <3>1
  <2>4. CASE k # l
    BY <1>3, <2>1, <2>2, <2>4 DEF Clean, Swept
  <2> QED BY <2>3, <2>4
<1> QED BY <1>1, <1>2, <1>3 DEF Swept

LEMMA TickBounded ==
  ASSUME TypeOK, Sized, Swept, Tick
  PROVE  Sized' /\ Swept'
<1>1. clock' = clock + 1 /\ tracked' = tracked /\ last' = last /\ sweep = {} /\ clock \in Nat
  BY LimiterAssumption DEF Tick, buckets, TypeOK
<1>2. Interval \in Nat \ {0}
  BY LimiterAssumption
<1>3. Sized'
  BY <1>1 DEF Sized
<1>4. CASE (clock + 1) % Interval = 0
  <2>1. sweep' = Limiters
    BY <1>4 DEF Tick
  <2>2. clock' % Interval = 0
    BY <1>1, <1>4
  <2>3. Swept'
    BY <2>1, <2>2 DEF Swept
  <2> QED BY <1>3, <2>3
<1>5. CASE (clock + 1) % Interval # 0
  <2>1. sweep' = {}
    BY <1>5 DEF Tick
  <2>2. Due' = Due
    <3>1. clock % Interval \in 0..(Interval - 1) /\ (clock + 1) % Interval = (clock % Interval) + 1
      BY <1>1, <1>2, <1>5, Remainder
    <3> QED BY <1>1, <3>1 DEF Due
  <2>3. \A l \in Limiters : \A c \in tracked[l] : last[l][c] >= Due - Cutoff
    BY <1>1 DEF Swept
  <2>4. Swept'
    BY ONLY <1>1, <2>1, <2>2, <2>3 DEF Swept
  <2> QED BY <1>3, <2>4
<1> QED BY <1>3, <1>4, <1>5

LEMMA StepBounded == TypeOK /\ Sized /\ Swept /\ [Next]_vars => Sized' /\ Swept'
<1>1. SUFFICES ASSUME TypeOK, Sized, Swept, [Next]_vars PROVE Sized' /\ Swept'
  OBVIOUS
<1>2. ASSUME NEW r \in Requests, NEW c \in Clients, NEW route \in Routes \cup {Elsewhere},
             Ask(r, c, route)
      PROVE  Sized' /\ Swept'
  BY <1>1, <1>2, AllowSized, AllowSwept DEF Ask
<1>3. ASSUME NEW r \in Requests, AskRoute(r)
      PROVE  Sized' /\ Swept'
  <2>1. asking[r].route \in Limiters /\ asking[r].client \in Clients
    BY <1>1, <1>3 DEF TypeOK, AskRoute
  <2> QED BY <1>1, <1>3, <2>1, AllowSized, AllowSwept DEF AskRoute
<1>4. ASSUME NEW l \in Limiters, Clean(l)
      PROVE  Sized' /\ Swept'
  BY <1>1, <1>4, CleanBounded
<1>5. CASE Tick
  BY <1>1, <1>5, TickBounded
<1>6. CASE UNCHANGED vars
  BY <1>1, <1>6 DEF vars, buckets, Sized, Swept, Due
<1> QED BY <1>1, <1>2, <1>3, <1>4, <1>5, <1>6 DEF Next

LEMMA BoundedHolds == TypeOK /\ Sized /\ Swept => Bounded
<1>1. SUFFICES ASSUME TypeOK, Swept, sweep = {}, NEW l \in Limiters, NEW c \in tracked[l]
               PROVE  clock - last[l][c] < Cutoff + Interval
  BY DEF Bounded, Sized
<1>2. clock \in Nat /\ last[l][c] \in Nat /\ Cutoff \in Nat /\ Interval \in Nat \ {0}
  BY <1>1, LimiterAssumption DEF TypeOK
<1>3. last[l][c] >= Due - Cutoff
  BY <1>1 DEF Swept
<1>4. clock % Interval \in 0..(Interval - 1)
  BY <1>2, Remainder
<1> QED BY <1>2, <1>3, <1>4 DEF Due

\* No limiter ever tracks more clients than its maximum, nor any of them for
\* longer than the cutoff and one interval after its last request (Allow,
\* StartCleanup).
THEOREM Memory == Spec => []Bounded
  BY InitBounded, StepBounded, BoundedHolds, Types, PTL DEF Spec
=============================================================================
