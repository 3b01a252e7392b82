----------------------------- MODULE QueuePromise -----------------------------
(***************************************************************************)
(* What engine::utils::Queue promises to the threads that use it: a bounded *)
(* queue whose operations take effect at once, one after the other.         *)
(***************************************************************************)
EXTENDS Integers, Sequences

CONSTANTS Capacity, Values

VARIABLES
    put,   \* the values that may be taken, or were, in order
    got    \* the values that were taken, in order

vars == <<put, got>>

Init == put = <<>> /\ got = <<>>

Put == /\ Len(put) - Len(got) < Capacity
       /\ \E v \in Values : put' = Append(put, v)
       /\ UNCHANGED got

Get == /\ Len(got) < Len(put)
       /\ got' = Append(got, put[Len(got) + 1])
       /\ UNCHANGED put

Reset == put' = <<>> /\ got' = <<>>

Next == Put \/ Get \/ Reset

Spec == Init /\ [][Next]_vars
=============================================================================
