------------------------------ MODULE MCUploads ------------------------------
(***************************************************************************)
(* Instances of Uploads for TLC: a request and its retry.                  *)
(***************************************************************************)
EXTENDS Uploads

CONSTANTS u1, u2, k1, c1, c2

RetryKey == [u \in Upload |-> k1]
=============================================================================
