--------------------------- MODULE MCTransactions ---------------------------
(***************************************************************************)
(* Instances of Transactions for TLC.                                      *)
(***************************************************************************)
EXTENDS Transactions, TLC

CONSTANTS c1, c2, g1, d1, d2, q1, q2

TwoProfiles == c1 :> q1 @@ c2 :> q2 @@ g1 :> q1
Alike == Permutations(Process) \cup Permutations(Doc)
=============================================================================
