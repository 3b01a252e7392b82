---------------------------- MODULE SessionPromise ----------------------------
(***************************************************************************)
(* What a session promises to the application that sends on it (the        *)
(* interface basic_session of engine/net/decl.h with the events of         *)
(* basic_data_handler): it comes up once, goes down once and for good, and  *)
(* the peer gets a growing prefix of what was accepted while it is up.      *)
(***************************************************************************)
EXTENDS Integers, Sequences

CONSTANT Frame

VARIABLES
    accepted,   \* frames accepted, in order
    delivered,  \* frames the peer was given
    status      \* "idle", "up" after on_connect, "down" after on_close

vars == <<accepted, delivered, status>>

Init == accepted = <<>> /\ delivered = <<>> /\ status = "idle"

ComeUp == /\ status = "idle" /\ status' = "up"
          /\ UNCHANGED <<accepted, delivered>>

GoDown == /\ status \in {"idle", "up"} /\ status' = "down"
          /\ UNCHANGED <<accepted, delivered>>

(* Frames are accepted from on_connect on, even by a session that is down. *)
Accept == /\ status # "idle"
          /\ \E f \in Frame : accepted' = Append(accepted, f)
          /\ UNCHANGED <<delivered, status>>

Deliver == /\ status = "up" /\ Len(delivered) < Len(accepted)
           /\ delivered' = Append(delivered, accepted[Len(delivered) + 1])
           /\ UNCHANGED <<accepted, status>>

Next == ComeUp \/ GoDown \/ Accept \/ Deliver

Spec == Init /\ [][Next]_vars
=============================================================================
