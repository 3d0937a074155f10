------------------------------ MODULE MCRateLimit ------------------------------
(***************************************************************************)
(* Small instances of RateLimit.                                           *)
(***************************************************************************)
EXTENDS RateLimit, TLC

CONSTANTS p1, p2

Attempts == Permutations({p1, p2})
=============================================================================
