------------------------------ MODULE MCNetServer ------------------------------
(* An instance of NetServer for TLC: one session that receives and one that *)
(* does not.                                                                 *)
EXTENDS NetServer

TwoAndNone == <<2, 0>>
=============================================================================
