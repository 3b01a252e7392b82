------------------------------ MODULE MCSnowflake ------------------------------
(* Instances of Snowflake for TLC. *)
EXTENDS Snowflake

CONSTANTS a, b,          \* nodes
          t1, t2, t3     \* threads

(* Two threads share the generator of a. *)
Threads == [t \in Caller |-> IF t = t3 THEN b ELSE a]

(* The nodes' numbers: each differs in both, so that the parts of an id     *)
(* could be taken for each other.                                           *)
Workers     == [n \in Node |-> IF n = a THEN 0 ELSE 1]
Datacenters == [n \in Node |-> IF n = a THEN 1 ELSE 0]
=============================================================================
