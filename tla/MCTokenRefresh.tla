---------------------------- MODULE MCTokenRefresh ----------------------------
(***************************************************************************)
(* Small instances of TokenRefresh: two overlapping requests.              *)
(***************************************************************************)
EXTENDS TokenRefresh, TLC

CONSTANTS p1, p2

Requests == Permutations({p1, p2})
=============================================================================
