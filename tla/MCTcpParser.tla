------------------------------ MODULE MCTcpParser ------------------------------
(* Instances of TcpParser for TLC. *)
EXTENDS TcpParser, FiniteSets

(* What the bytes at p read as: a length between low and high that changes  *)
(* with p, so that reading it at a wrong place gives a wrong length.        *)
StreamOf(low, high, step) ==
    [p \in 1..MaxStream |-> low + ((p * step + p \div 3) % (high - low + 1))]

(* Short frames only, frames of all sizes, a frame too large for the buffer *)
(* pool between two short ones, frames shorter than a length, and one that  *)
(* says 0.                                                                  *)
MixedStreams ==
    {StreamOf(2, 4, 1), StreamOf(2, 9, 5),
     [StreamOf(3, 9, 7) EXCEPT ![1] = 4, ![5] = MaxAlloc + 1, ![6 + MaxAlloc] = 3],
     StreamOf(1, 3, 1), [StreamOf(1, 9, 5) EXCEPT ![1] = 4, ![5] = 3, ![8] = 0]}

(* Frames as the senders make them, and reads four times the buffer.        *)
PlainStream == {StreamOf(2, 5, 1)}
=============================================================================
