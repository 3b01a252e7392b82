---------------------------- MODULE MCLockFreeQueue ----------------------------
(* Instances of LockFreeQueue for TLC. *)
EXTENDS LockFreeQueue

CONSTANTS p1, p2, c1, c2
=============================================================================
