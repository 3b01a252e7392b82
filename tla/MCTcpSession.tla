----------------------------- MODULE MCTcpSession -----------------------------
(* Instances of TcpSession for TLC. *)
EXTENDS TcpSession, TLC

CONSTANTS a, b

TwoSenders     == {a, b}
OneSender      == {a}
AllModes       == Mode
AllApis        == {"chars", "buffer"}
AcceptMode     == {"accept"}
OneOfEachSide  == {"accept", "async_connect"}

SenderSymmetry == Permutations(Sender)
=============================================================================
