---------------------------- MODULE TokenBuckets ----------------------------
(***************************************************************************)
(* What a rate limiter promises: every client has, from the start and for  *)
(* ever, a bucket of its own that fills at a steady rate and that every    *)
(* request let through takes one token from.                               *)
(***************************************************************************)
EXTENDS Integers

CONSTANTS
  Limiters,  \* each keeps buckets of its own
  Clients,
  Unit,      \* units in a token, a positive number
  Capacity,  \* units that fit into a bucket of each limiter
  Rate,      \* units that flow into it per tick of the clock
  MaxClock   \* bound on the clock

VARIABLES
  clock,
  level,   \* units in each bucket
  passed   \* requests let through

vars == <<clock, level, passed>>

Least(a, b) == IF a <= b THEN a ELSE b

Init ==
  /\ clock = 0
  /\ level = [l \in Limiters |-> [c \in Clients |-> Capacity[l]]]
  /\ passed = [l \in Limiters |-> [c \in Clients |-> 0]]

Fill ==
  /\ clock < MaxClock
  /\ clock' = clock + 1
  /\ level' = [l \in Limiters |-> [c \in Clients |-> Least(Capacity[l], level[l][c] + Rate[l])]]
  /\ UNCHANGED passed

Pass(l, c) ==
  /\ level[l][c] >= Unit
  /\ level' = [level EXCEPT ![l][c] = @ - Unit]
  /\ passed' = [passed EXCEPT ![l][c] = @ + 1]
  /\ UNCHANGED clock

Next == Fill \/ \E l \in Limiters, c \in Clients : Pass(l, c)

Spec == Init /\ [][Next]_vars

\* A client gets through what fits into its bucket and what has flowed into it
\* since, and not one request more.
Limited ==
  \A l \in Limiters, c \in Clients :
    Unit * passed[l][c] <= Capacity[l] + Rate[l] * clock
=============================================================================
