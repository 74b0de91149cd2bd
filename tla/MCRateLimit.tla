----------------------------- MODULE MCRateLimit -----------------------------
(***************************************************************************)
(* RateLimit for TLC: the calls are interchangeable.                       *)
(***************************************************************************)
EXTENDS RateLimit, TLC

Interchangeable == Permutations(Caller)
=============================================================================
