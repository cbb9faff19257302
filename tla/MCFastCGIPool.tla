---------------------------- MODULE MCFastCGIPool ----------------------------
(* FastCGIPool for TLC.                                                      *)
EXTENDS FastCGIPool, TLC

\* A dial always finds a name: a request dials at most once.
ASSUME EnoughClients == Cardinality(Clients) >= Cardinality(Requests)

Symmetric == Permutations(Requests) \cup Permutations(Clients)
=============================================================================
