---------------------------- MODULE MCLocalAccounts ----------------------------
(***************************************************************************)
(* Small instances of LocalAccounts.  Two accounts, so that there can be a *)
(* last administrator and one before; two passwords, so that a configured  *)
(* one can match or differ from a chosen one.                              *)
(***************************************************************************)
EXTENDS LocalAccounts, TLC

CONSTANTS u1, u2, c1, c2, p1, p2

TwoChoices == Permutations({c1, c2})
TwoProcesses == Permutations({p1, p2})
=============================================================================
