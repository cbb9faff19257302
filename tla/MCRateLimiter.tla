---------------------------- MODULE MCRateLimiter ----------------------------
(* RateLimiter for TLC.                                                      *)
EXTENDS RateLimiter, TLC

\* The global limiter as NewPerRouteLimiter makes it, its burst being its rate;
\* one of a route that leaves the burst to default.
MCRate  == [l \in Limiters |-> 1]
MCBurst == [l \in Limiters |-> IF l = Global THEN 1 ELSE 0]

Symmetric == Permutations(Clients) \cup Permutations(Requests)
=============================================================================
