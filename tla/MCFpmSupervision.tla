-------------------------- MODULE MCFpmSupervision --------------------------
(***************************************************************************)
(* FpmSupervision on a small instance: the two goroutines the gateway has, *)
(* and as many process identities as can be referred to at once.           *)
(***************************************************************************)
EXTENDS FpmSupervision

\* With the identities of the instance no launch is held up for want of one.
ASSUME EnoughMasters == Cardinality(Masters) > 3
=============================================================================
