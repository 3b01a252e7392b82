----------------------------- MODULE UnittestProofs -----------------------------
(***************************************************************************)
(* Theorems about the programs of src/unittest that have no state in common *)
(* (see MCParts): what keeps the server alive, the traffic of the robots,   *)
(* the message queue, and the programs about counts and queues.             *)
(***************************************************************************)
EXTENDS Lifetime, Robots, MessageQueue, LockFreeTest, SequenceTheorems,
        FiniteSetTheorems, WellFoundedInduction, NaturalsInduction, TLAPS

(* Every nonempty set of numbers has a least one.                           *)
Less == {ss \in Nat \X Nat : ss[1] < ss[2]}
LEMMA LessFounded == IsWellFoundedOn(Less, Nat)
  BY NatLessThanWellFounded DEF OpToRel, Less
LEMMA LeastNumber ==
    ASSUME NEW T, T \subseteq Nat, T # {}
    PROVE  \E n \in T : \A k \in T : n <= k
<1>1. \E x \in T : \A y \in T : ~(<<y, x>> \in Less)
  BY LessFounded, WFMin
<1>2. PICK n \in T : \A y \in T : ~(<<y, n>> \in Less) BY <1>1
<1>3. \A y \in T : ~(y < n)
  <2>1. ASSUME NEW y \in T, y < n PROVE FALSE
    <3>1. <<y, n>> \in Less BY <2>1 DEF Less
    <3> QED BY <3>1, <1>2
  <2> QED BY <2>1
<1> QED BY <1>3

-----------------------------------------------------------------------------
(* Lifetime, for any number of sessions, packets and handlers of close():    *)
(* what outlives what.                                                       *)

LifeSpec == LifeInit /\ [][LifeNext]_l_vars

Packets == [sid : LifeSid, msgid : {"connected", "closeed", "message"}]
LifeTypes == /\ l_listener \in {"none", "listening", "closed"}
             /\ l_accept \in LifeSid \cup {NoOne} /\ l_made \in Nat
             /\ l_socket \in [LifeSid -> {"new", "open", "closed"}]
             /\ l_queue \in Seq(Packets)
             /\ {l_sessions, l_reading, l_kept} \subseteq SUBSET LifeSid
             /\ l_closes \in [LifeSid -> Nat]

(* The parts of the invariant.  The server lives exactly as long as something *)
(* holds it; only a listener that still accepts has an accept outstanding; an *)
(* open socket is registered or about to be closed; and the packet that tells *)
(* of a closed socket is in the queue or was dispatched.                      *)
Accepting == l_accept # NoOne => l_listener = "listening"
LivesHeld == Alive <=> ServerHeld
OpenHeld  == \A s \in LifeSid : l_socket[s] = "open" => s \in l_sessions \/ l_closes[s] > 0
InQueue(p) == \E i \in DOMAIN l_queue : l_queue[i] = p
Known(p)   == p \in l_told \/ InQueue(p)
EndKnown  == \A s \in LifeSid : l_socket[s] = "closed" => Known(Packet_(s, "closeed"))
LifeInv == LifeTypes /\ Accepting /\ LivesHeld /\ OpenHeld /\ EndKnown

-----------------------------------------------------------------------------
(* The invariant holds before the listener is started.                      *)
LEMMA LifeStarts == LifeInit => LifeInv
<1> SUFFICES ASSUME LifeInit PROVE LifeInv
  OBVIOUS
<1>1. LifeTypes BY LifetimeConstants DEF LifeInit, LifeTypes
<1>2. Accepting /\ LivesHeld BY DEF LifeInit, Accepting, LivesHeld, Alive, ServerHeld
<1>3. OpenHeld /\ EndKnown BY DEF LifeInit, OpenHeld, EndKnown
<1> QED BY <1>1, <1>2, <1>3 DEF LifeInv

(* push_back of a packet: the others stay. *)
LEMMA PacketQueued ==
    ASSUME LifeTypes, NEW s \in LifeSid, NEW m \in {"connected", "closeed", "message"}, Queue_(s, m)
    PROVE  /\ l_queue' \in Seq(Packets)
           /\ InQueue(Packet_(s, m))'
           /\ \A p : InQueue(p) => InQueue(p)'
<1> DEFINE new == Packet_(s, m)
<1>1. new \in Packets /\ l_queue \in Seq(Packets) /\ l_queue' = Append(l_queue, new)
  BY DEF LifeTypes, Packets, Packet_, Queue_
<1>2. /\ l_queue' \in Seq(Packets) /\ Len(l_queue') = Len(l_queue) + 1 /\ Len(l_queue) \in Nat
      /\ \A i \in 1..Len(l_queue) : l_queue'[i] = l_queue[i]
      /\ l_queue'[Len(l_queue) + 1] = new
      /\ DOMAIN l_queue = 1..Len(l_queue) /\ DOMAIN l_queue' = 1..Len(l_queue')
  BY <1>1, AppendProperties, LenProperties
<1>3. InQueue(new)'
  <2>1. Len(l_queue) + 1 \in DOMAIN l_queue' BY <1>2
  <2> QED BY <2>1, <1>2 DEF InQueue
<1>4. ASSUME NEW p, InQueue(p) PROVE InQueue(p)'
  <2>1. PICK i \in 1..Len(l_queue) : l_queue[i] = p BY <1>4, <1>2 DEF InQueue
  <2>2. i \in DOMAIN l_queue' /\ l_queue'[i] = p BY <2>1, <1>2
  <2> QED BY <2>2 DEF InQueue
<1> QED BY <1>2, <1>3, <1>4

(* pop_front of the packet that is dispatched: the others stay. *)
LEMMA PacketDispatched ==
    ASSUME LifeTypes, l_queue # << >>, l_queue' = Tail(l_queue)
    PROVE  /\ l_queue' \in Seq(Packets) /\ Head(l_queue) \in Packets
           /\ \A p : InQueue(p) => p = Head(l_queue) \/ InQueue(p)'
<1>1. l_queue \in Seq(Packets) BY DEF LifeTypes
<1>2. /\ l_queue' \in Seq(Packets) /\ Head(l_queue) \in Packets
      /\ Head(l_queue) = l_queue[1] /\ Len(l_queue') = Len(l_queue) - 1 /\ Len(l_queue) \in Nat
      /\ \A i \in 1..(Len(l_queue) - 1) : l_queue'[i] = l_queue[i + 1]
      /\ DOMAIN l_queue = 1..Len(l_queue) /\ DOMAIN l_queue' = 1..(Len(l_queue) - 1)
  BY <1>1, HeadTailProperties, LenProperties
<1>3. ASSUME NEW p, InQueue(p), p # Head(l_queue) PROVE InQueue(p)'
  <2>1. PICK i \in 1..Len(l_queue) : l_queue[i] = p BY <1>3, <1>2 DEF InQueue
  <2>2. i - 1 \in 1..(Len(l_queue) - 1) BY <2>1, <1>2, <1>3
  <2>3. i - 1 \in DOMAIN l_queue' /\ l_queue'[i - 1] = p BY <2>1, <2>2, <1>2
  <2> QED BY <2>3 DEF InQueue
<1> QED BY <1>2, <1>3

(* After every action the server is alive exactly when something holds it. *)
LEMMA ReferenceCount ==
    ASSUME NEW end \in {"gone", "terminated"}, OnThread(end)
    PROVE  LivesHeld'
  BY DEF OnThread, LivesHeld, Alive

-----------------------------------------------------------------------------
(* The application's thread. *)
LEMMA AppStep ==
    ASSUME LifeInv,
           LifeListen \/ LifeConnect \/ LifeConnectFails \/ LifeUpdate \/ AppDrops
           \/ \E s \in LifeSid : AppCloses(s) \/ AppForgets(s)
    PROVE  LifeInv'
<1> USE DEF LifeInv
<1>1. CASE LifeListen
  <2>1. LivesHeld' BY <1>1, ReferenceCount DEF LifeListen
  <2>2. /\ l_listener' = "listening" /\ l_accept' \in LifeSid /\ l_made' \in Nat
        /\ UNCHANGED <<l_kept, l_socket, l_sessions, l_queue, l_reading, l_closes, l_told>>
    BY <1>1, LifetimeConstants DEF LifeListen, NewOne, AfterListen, Pushed, l_owners, LifeSid
  <2>3. LifeTypes' /\ Accepting' BY <2>2 DEF LifeTypes, Accepting
  <2>4. OpenHeld' /\ EndKnown' BY <2>2 DEF OpenHeld, EndKnown, Known, InQueue
  <2> QED BY <2>1, <2>3, <2>4
<1>2. CASE LifeConnect
  <2>1. LivesHeld' BY <1>2, ReferenceCount DEF LifeConnect
  <2>2. PICK s \in LifeSid : /\ NewOne(s) /\ Queue_(s, "connected")
                             /\ l_socket' = [l_socket EXCEPT ![s] = "open"]
                             /\ l_sessions' = l_sessions \cup {s} /\ l_reading' = l_reading \cup {s}
    BY <1>2 DEF LifeConnect
  <2>3. l_made' \in Nat /\ UNCHANGED <<l_listener, l_accept, l_kept, l_closes, l_told>>
    BY <1>2, <2>2 DEF LifeConnect, NewOne, l_owners, l_listening, LifeSid
  <2>4. l_queue' \in Seq(Packets) /\ \A p : InQueue(p) => InQueue(p)' BY <2>2, PacketQueued
  <2>5. LifeTypes' /\ Accepting' BY <2>2, <2>3, <2>4 DEF LifeTypes, Accepting
  <2>6. OpenHeld' /\ EndKnown' BY <2>2, <2>3, <2>4 DEF LifeTypes, OpenHeld, EndKnown, Known
  <2> QED BY <2>1, <2>5, <2>6
<1>3. CASE LifeConnectFails
  <2>1. LivesHeld' BY <1>3, ReferenceCount DEF LifeConnectFails
  <2>2. PICK s \in LifeSid : /\ NewOne(s) /\ l_closes' = [l_closes EXCEPT ![s] = 1]
                             /\ l_socket' \in {l_socket, [l_socket EXCEPT ![s] = "open"]}
    BY <1>3 DEF LifeConnectFails
  <2>3. l_made' \in Nat /\ UNCHANGED <<l_listener, l_accept, l_kept, l_sessions, l_queue, l_reading, l_told>>
    BY <1>3, <2>2 DEF LifeConnectFails, NewOne, l_owners, l_listening, LifeSid
  <2>4. LifeTypes' /\ Accepting' BY <2>2, <2>3 DEF LifeTypes, Accepting
  <2>5. OpenHeld' /\ EndKnown' BY <2>2, <2>3 DEF LifeTypes, OpenHeld, EndKnown, Known, InQueue
  <2> QED BY <2>1, <2>4, <2>5
<1>4. CASE LifeUpdate
  <2>1. LivesHeld' BY <1>4, ReferenceCount DEF LifeUpdate
  <2>2. /\ l_queue # << >> /\ l_queue' = Tail(l_queue) /\ l_told' = l_told \cup {Head(l_queue)}
        /\ l_kept' \in {l_kept, l_kept \cup {Head(l_queue).sid}}
        /\ UNCHANGED <<l_listener, l_accept, l_made, l_socket, l_sessions, l_reading, l_closes>>
    BY <1>4 DEF LifeUpdate, l_listening
  <2>3. /\ l_queue' \in Seq(Packets) /\ Head(l_queue) \in Packets
        /\ \A p : InQueue(p) => p = Head(l_queue) \/ InQueue(p)'
    BY <2>2, PacketDispatched
  <2>4. LifeTypes' /\ Accepting' BY <2>2, <2>3 DEF LifeTypes, Accepting, Packets
  <2>5. OpenHeld' /\ EndKnown' BY <2>2, <2>3 DEF OpenHeld, EndKnown, Known
  <2> QED BY <2>1, <2>4, <2>5
<1>5. CASE AppDrops \/ \E s \in LifeSid : AppForgets(s)
  <2>1. LivesHeld' BY <1>5, ReferenceCount DEF AppDrops, AppForgets
  <2>2. /\ l_kept' \subseteq l_kept
        /\ UNCHANGED <<l_listener, l_accept, l_made, l_socket, l_sessions, l_queue, l_reading, l_closes, l_told>>
    BY <1>5 DEF AppDrops, AppForgets, l_listening
  <2>3. LifeTypes' /\ Accepting' BY <2>2 DEF LifeTypes, Accepting
  <2>4. OpenHeld' /\ EndKnown' BY <2>2 DEF OpenHeld, EndKnown, Known, InQueue
  <2> QED BY <2>1, <2>3, <2>4
<1>6. ASSUME NEW s \in LifeSid, AppCloses(s) PROVE LifeInv'
  <2>1. LivesHeld' BY <1>6, ReferenceCount DEF AppCloses
  <2>2. /\ l_closes' = [l_closes EXCEPT ![s] = @ + 1]
        /\ UNCHANGED <<l_listener, l_accept, l_made, l_socket, l_sessions, l_queue, l_reading, l_kept, l_told>>
    BY <1>6 DEF AppCloses, PostClose, l_listening, l_owners
  <2>3. LifeTypes' /\ Accepting' BY <2>2 DEF LifeTypes, Accepting
  <2>4. OpenHeld' /\ EndKnown' BY <2>2 DEF LifeTypes, OpenHeld, EndKnown, Known, InQueue
  <2> QED BY <2>1, <2>3, <2>4
<1> QED BY <1>1, <1>2, <1>3, <1>4, <1>5, <1>6

(* The io thread. *)
LEMMA IoStep ==
    ASSUME LifeInv,
           Returns \/ LifeAccepts \/ LifeAcceptFails
           \/ \E s \in LifeSid : LifeReads(s) \/ LifeParseFails(s) \/ LifeReadFails(s) \/ LifeCloses(s)
    PROVE  LifeInv'
<1> USE DEF LifeInv
<1>1. CASE Returns
  <2>1. LivesHeld' BY <1>1, ReferenceCount DEF Returns
  <2>2. UNCHANGED <<l_listener, l_accept, l_made, l_socket, l_sessions, l_queue, l_reading, l_closes, l_kept, l_told>>
    BY <1>1 DEF Returns, l_listening, l_owners
  <2>3. LifeTypes' /\ Accepting' BY <2>2 DEF LifeTypes, Accepting
  <2>4. OpenHeld' /\ EndKnown' BY <2>2 DEF OpenHeld, EndKnown, Known, InQueue
  <2> QED BY <2>1, <2>3, <2>4
<1>2. CASE LifeAccepts
  <2>1. LivesHeld' BY <1>2, ReferenceCount DEF LifeAccepts
  <2>2. /\ l_accept \in LifeSid /\ Queue_(l_accept, "connected")
        /\ l_socket' = [l_socket EXCEPT ![l_accept] = "open"]
        /\ l_sessions' = l_sessions \cup {l_accept} /\ l_reading' = l_reading \cup {l_accept}
        /\ UNCHANGED <<l_listener, l_kept, l_closes, l_told>>
    BY <1>2 DEF LifeAccepts, l_owners, LifeTypes
  <2>3. l_made' \in Nat /\ l_accept' \in LifeSid \cup {NoOne}
    BY <1>2, LifetimeConstants DEF LifeAccepts, LifeTypes, LifeSid
  <2>4. l_queue' \in Seq(Packets) /\ \A p : InQueue(p) => InQueue(p)' BY <2>2, PacketQueued
  <2>5. LifeTypes' BY <2>2, <2>3, <2>4 DEF LifeTypes
  <2>6. Accepting' BY <2>2, <1>2 DEF LifeAccepts, Accepting
  <2>7. OpenHeld' /\ EndKnown' BY <2>2, <2>4 DEF LifeTypes, OpenHeld, EndKnown, Known
  <2> QED BY <2>1, <2>5, <2>6, <2>7
<1>3. CASE LifeAcceptFails
  <2>1. LivesHeld' BY <1>3, ReferenceCount DEF LifeAcceptFails
  <2>2. /\ l_accept' = NoOne /\ l_listener' = "closed"
        /\ UNCHANGED <<l_made, l_socket, l_sessions, l_queue, l_reading, l_closes, l_kept, l_told>>
    BY <1>3 DEF LifeAcceptFails, l_owners
  <2>3. LifeTypes' /\ Accepting' BY <2>2 DEF LifeTypes, Accepting
  <2>4. OpenHeld' /\ EndKnown' BY <2>2 DEF OpenHeld, EndKnown, Known, InQueue
  <2> QED BY <2>1, <2>3, <2>4
<1>4. ASSUME NEW s \in LifeSid, LifeReads(s) PROVE LifeInv'
  <2>1. LivesHeld' BY <1>4, ReferenceCount DEF LifeReads
  <2>2. /\ Queue_(s, "message") /\ l_reading' \subseteq l_reading
        /\ l_closes' \in {l_closes, [l_closes EXCEPT ![s] = @ + 1]}
        /\ UNCHANGED <<l_listener, l_accept, l_made, l_socket, l_sessions, l_kept, l_told>>
    BY <1>4 DEF LifeReads, PostClose, l_listening, l_owners
  <2>3. l_queue' \in Seq(Packets) /\ \A p : InQueue(p) => InQueue(p)' BY <2>2, PacketQueued
  <2>4. LifeTypes' /\ Accepting' BY <2>2, <2>3 DEF LifeTypes, Accepting
  <2>5. \A t \in LifeSid : l_closes'[t] >= l_closes[t] BY <2>2 DEF LifeTypes
  <2>6. OpenHeld' BY <2>2, <2>5 DEF LifeTypes, OpenHeld
  <2>7. EndKnown' BY <2>2, <2>3 DEF EndKnown, Known
  <2> QED BY <2>1, <2>4, <2>6, <2>7
<1>5. ASSUME NEW s \in LifeSid, LifeParseFails(s) \/ LifeReadFails(s) PROVE LifeInv'
  <2>1. LivesHeld' BY <1>5, ReferenceCount DEF LifeParseFails, LifeReadFails
  <2>2. /\ l_reading' \subseteq l_reading /\ l_closes' = [l_closes EXCEPT ![s] = @ + 1]
        /\ UNCHANGED <<l_listener, l_accept, l_made, l_socket, l_sessions, l_queue, l_kept, l_told>>
    BY <1>5 DEF LifeParseFails, LifeReadFails, PostClose, l_listening, l_owners
  <2>3. LifeTypes' /\ Accepting' BY <2>2 DEF LifeTypes, Accepting
  <2>4. OpenHeld' /\ EndKnown' BY <2>2 DEF LifeTypes, OpenHeld, EndKnown, Known, InQueue
  <2> QED BY <2>1, <2>3, <2>4
<1>6. ASSUME NEW s \in LifeSid, LifeCloses(s) PROVE LifeInv'
  <2>1. LivesHeld' BY <1>6, ReferenceCount DEF LifeCloses
  <2>2. /\ l_closes[s] > 0 /\ l_closes' = [l_closes EXCEPT ![s] = @ - 1]
        /\ UNCHANGED <<l_listener, l_accept, l_made, l_reading, l_kept, l_told>>
    BY <1>6 DEF LifeCloses, l_listening, l_owners
  <2>3. CASE l_socket[s] = "open"
    <3>1. l_socket' = [l_socket EXCEPT ![s] = "closed"] /\ l_sessions' = l_sessions \ {s} /\ Queue_(s, "closeed")
      BY <1>6, <2>3 DEF LifeCloses
    <3>2. /\ l_queue' \in Seq(Packets) /\ InQueue(Packet_(s, "closeed"))'
          /\ \A p : InQueue(p) => InQueue(p)'
      BY <3>1, PacketQueued
    <3>3. LifeTypes' /\ Accepting' BY <2>2, <3>1, <3>2 DEF LifeTypes, Accepting
    <3>4. OpenHeld' BY <2>2, <3>1 DEF LifeTypes, OpenHeld
    <3>5. EndKnown' BY <2>2, <3>1, <3>2 DEF LifeTypes, EndKnown, Known, Packet_
    <3> QED BY <2>1, <3>3, <3>4, <3>5
  <2>4. CASE l_socket[s] # "open"
    <3>1. UNCHANGED <<l_socket, l_sessions, l_queue>> BY <1>6, <2>4 DEF LifeCloses
    <3>2. LifeTypes' /\ Accepting' BY <2>2, <3>1 DEF LifeTypes, Accepting
    <3>3. OpenHeld' /\ EndKnown' BY <2>2, <2>4, <3>1 DEF LifeTypes, OpenHeld, EndKnown, Known, InQueue
    <3> QED BY <2>1, <3>2, <3>3
  <2> QED BY <2>3, <2>4
<1> QED BY <1>1, <1>2, <1>3, <1>4, <1>5, <1>6

(* Every step of the sessions, the handlers and the owners keeps the        *)
(* invariant.                                                               *)
LEMMA LifeStep == LifeInv /\ [LifeNext]_l_vars => LifeInv'
<1> SUFFICES ASSUME LifeInv, [LifeNext]_l_vars PROVE LifeInv'
  OBVIOUS
<1>1. CASE LifeNext BY <1>1, AppStep, IoStep DEF LifeNext
<1>2. CASE UNCHANGED l_vars
  <2>1. UNCHANGED <<l_server, l_app, l_kept, l_listener, l_accept, l_made, l_socket, l_sessions, l_queue,
                    l_reading, l_closes, l_running, l_told>>
    BY <1>2 DEF l_vars, l_owners, l_listening
  <2>2. LifeTypes' /\ Accepting' /\ OpenHeld' /\ EndKnown'
    BY <2>1 DEF LifeInv, LifeTypes, Accepting, OpenHeld, EndKnown, Known, InQueue
  <2>3. LivesHeld' BY <2>1 DEF LifeInv, LivesHeld, Alive, ServerHeld, SessionHeld
  <2> QED BY <2>2, <2>3 DEF LifeInv
<1> QED BY <1>1, <1>2

-----------------------------------------------------------------------------
(* listen, connect, close, update and the handlers of the io thread: an        *)
(* outstanding accept finds its listener and its server alive, and the server  *)
(* goes only when it has never listened and the application was told of the    *)
(* end of every session that was open.                                         *)
THEOREM OwnersOutliveHolds == LifeSpec => []OwnersOutlive
<1>1. LifeInv => OwnersOutlive
  <2> SUFFICES ASSUME LifeInv PROVE OwnersOutlive
    OBVIOUS
  <2>1. l_accept # NoOne => Alive /\ l_listener = "listening"
    BY DEF LifeInv, Accepting, LivesHeld, ServerHeld
  <2>2. ASSUME ~Alive
        PROVE  /\ l_listener = "none"
               /\ \A s \in LifeSid : l_socket[s] # "new" => l_socket[s] = "closed" /\ Packet_(s, "closeed") \in l_told
    <3>1. l_listener = "none" BY <2>2 DEF LifeInv, LifeTypes, LivesHeld, ServerHeld
    <3>2. ASSUME NEW s \in LifeSid, l_socket[s] # "new"
          PROVE  l_socket[s] = "closed" /\ Packet_(s, "closeed") \in l_told
      <4>1. ~SessionHeld(s) BY <2>2 DEF LifeInv, LivesHeld, ServerHeld
      <4>2. l_socket[s] = "closed" BY <4>1, <3>2 DEF LifeInv, LifeTypes, OpenHeld, SessionHeld
      <4>3. ~InQueue(Packet_(s, "closeed")) BY <4>1 DEF SessionHeld, InQueue, Packet_
      <4> QED BY <4>2, <4>3 DEF LifeInv, EndKnown, Known
    <3> QED BY <3>1, <3>2
  <2> QED BY <2>1, <2>2 DEF OwnersOutlive, Alive
<1> QED BY <1>1, LifeStarts, LifeStep, PTL DEF LifeSpec

-----------------------------------------------------------------------------
(* The traffic between robots and server, for any number of both.           *)
RobotsSpec == RobotsInit /\ [][RobotsNext]_e_vars

Queues == [Side -> [Robot -> [Msgid -> Nat]]]
Wires  == [Robot -> [Side -> Nat]]
Links  == {"none", "connected", "failed", "broken"}
RobotsTypes == /\ e_robots \in 0..MaxRobots
               /\ e_link \in [Robot -> Links]
               /\ e_ends \in [Robot -> SUBSET Side] /\ e_told \in [Robot -> SUBSET Side]
               /\ e_wire \in Wires /\ e_queue \in Queues

(* The messages of a robot that go round, and what its link allows.         *)
Around(w, q, c) == w[c]["client"] + w[c]["server"]
                   + q["client"][c]["message"] + q["server"][c]["message"]
                   + q["client"][c]["connected"] + q["server"][c]["connected"]
EndsOf(ends) == (IF "client" \in ends THEN 1 ELSE 0) + (IF "server" \in ends THEN 1 ELSE 0)
Allowed(link, k, n) == CASE link = "connected" -> n = k
                         [] link = "broken"    -> n <= k
                         [] OTHER              -> n = 0
Told(told, q, c) == \A x \in Side : q[x][c]["closeed"] <= (IF x \in told THEN 1 ELSE 0)
Untold(link, told) == link \in {"none", "connected"} => told = {}
RobotsInv == /\ RobotsTypes
             /\ \A c \in Robot : /\ Allowed(e_link[c], EndsOf(e_ends[c]), Around(e_wire, e_queue, c))
                                 /\ Told(e_told[c], e_queue, c)
                                 /\ Untold(e_link[c], e_told[c])

(* As many ends as there are of the two. *)
LEMMA KnownIs ==
    ASSUME NEW S \in SUBSET Side
    PROVE  Cardinality(S) = EndsOf(S)
<1>1. Cardinality({}) = 0 /\ IsFiniteSet({}) BY FS_EmptySet
<1>2. Cardinality({"client"}) = 1 /\ Cardinality({"server"}) = 1 /\ IsFiniteSet({"client"})
  BY FS_Singleton
<1>3. Cardinality({"client"} \cup {"server"}) = 2
  <2>1. "server" \notin {"client"} OBVIOUS
  <2> QED BY <2>1, <1>2, FS_AddElement
<1>4. S = {} \/ S = {"client"} \/ S = {"server"} \/ S = {"client"} \cup {"server"}
  BY DEF Side
<1>5. CASE S = {} BY <1>1, <1>5 DEF EndsOf
<1>6. CASE S = {"client"} BY <1>2, <1>6 DEF EndsOf
<1>7. CASE S = {"server"} BY <1>2, <1>7 DEF EndsOf
<1>8. CASE S = {"client"} \cup {"server"} BY <1>3, <1>8 DEF EndsOf
<1> QED BY <1>4, <1>5, <1>6, <1>7, <1>8

LEMMA OneMorePacket ==
    ASSUME RobotsTypes, NEW x \in Side, NEW c \in Robot, NEW m \in Msgid
    PROVE  /\ Gets(x, c, m) \in Queues
           /\ \A y \in Side, d \in Robot, n \in Msgid :
                Gets(x, c, m)[y][d][n] = IF y = x /\ d = c /\ n = m THEN e_queue[y][d][n] + 1
                                                                     ELSE e_queue[y][d][n]
<1> DEFINE f == [e_queue[x][c] EXCEPT ![m] = @ + 1]
           g == [e_queue[x] EXCEPT ![c] = f]
<1>0. e_queue[x] \in [Robot -> [Msgid -> Nat]] /\ e_queue[x][c] \in [Msgid -> Nat]
  BY DEF RobotsTypes, Queues
<1>1. f \in [Msgid -> Nat] /\ \A n \in Msgid : f[n] = IF n = m THEN e_queue[x][c][n] + 1 ELSE e_queue[x][c][n]
  BY <1>0
<1>2. Gets(x, c, m) = [e_queue EXCEPT ![x] = g] BY DEF Gets
<1> HIDE DEF f
<1>3. g \in [Robot -> [Msgid -> Nat]] /\ \A d \in Robot : g[d] = IF d = c THEN f ELSE e_queue[x][d]
  BY <1>0, <1>1
<1> HIDE DEF g
<1>4. [e_queue EXCEPT ![x] = g] \in Queues
      /\ \A y \in Side : [e_queue EXCEPT ![x] = g][y] = IF y = x THEN g ELSE e_queue[y]
  BY <1>3 DEF RobotsTypes, Queues
<1> QED BY <1>1, <1>2, <1>3, <1>4

LEMMA Counts6 ==
    ASSUME RobotsTypes, NEW c \in Robot
    PROVE  /\ \A x \in Side, m \in Msgid : e_queue[x][c][m] \in Nat
           /\ \A x \in Side : e_wire[c][x] \in Nat
BY DEF RobotsTypes, Queues, Wires

(* The same numbers, one by one. *)
LEMMA AroundNumbers ==
    ASSUME RobotsTypes, NEW c \in Robot
    PROVE  /\ e_wire[c]["client"] \in Nat /\ e_wire[c]["server"] \in Nat
           /\ e_queue["client"][c]["message"] \in Nat /\ e_queue["server"][c]["message"] \in Nat
           /\ e_queue["client"][c]["connected"] \in Nat /\ e_queue["server"][c]["connected"] \in Nat
BY Counts6 DEF Side, Msgid

(* A robot that nothing happens to. *)
LEMMA OtherRobot ==
    ASSUME RobotsInv, NEW d \in Robot, e_link'[d] = e_link[d], e_ends'[d] = e_ends[d], e_told'[d] = e_told[d],
           e_wire'[d] = e_wire[d], \A x \in Side, m \in Msgid : e_queue'[x][d][m] = e_queue[x][d][m]
    PROVE  /\ Allowed(e_link'[d], EndsOf(e_ends'[d]), Around(e_wire', e_queue', d))
           /\ Told(e_told'[d], e_queue', d) /\ Untold(e_link'[d], e_told'[d])
<1>1. Around(e_wire', e_queue', d) = Around(e_wire, e_queue, d) BY DEF Around, Side, Msgid
<1>2. Told(e_told'[d], e_queue', d) BY DEF RobotsInv, Told, Side, Msgid
<1> QED BY <1>1, <1>2 DEF RobotsInv

(* The next robot to connect is one that has not been.                      *)
LEMMA NextIs ==
    ASSUME RobotsTypes, Undone
    PROVE  NextRobot \in Robot /\ e_link[NextRobot] = "none"
<1> DEFINE T == {c \in Robot : e_link[c] = "none"}
<1>1. T # {} /\ T \subseteq Nat
  <2>1. PICK c \in 1..e_robots : e_link[c] = "none" BY DEF Undone
  <2>2. e_robots \in 0..MaxRobots BY DEF RobotsTypes
  <2>3. c \in Robot BY <2>1, <2>2, RobotConstants DEF Robot
  <2>4. T \subseteq Nat BY RobotConstants DEF Robot
  <2> QED BY <2>1, <2>3, <2>4
<1>2. PICK c \in T : \A k \in T : c <= k BY <1>1, LeastNumber
<1>3. \A d \in 1..(c - 1) : e_link[d] # "none"
  <2>1. ASSUME NEW d \in 1..(c - 1), e_link[d] = "none" PROVE FALSE
    <3>1. d \in T /\ d < c BY <2>1, RobotConstants DEF Robot
    <3> QED BY <3>1, <1>2
  <2> QED BY <2>1
<1>4. \E e \in Robot : e_link[e] = "none" /\ \A d \in 1..(e - 1) : e_link[d] # "none"
  BY <1>3
<1> QED BY <1>4 DEF NextRobot

LEMMA RobotsStep == RobotsInv /\ [RobotsNext]_e_vars => RobotsInv'
<1> SUFFICES ASSUME RobotsInv, [RobotsNext]_e_vars PROVE RobotsInv'
  OBVIOUS
<1>t. RobotsTypes BY DEF RobotsInv
<1>q. UNCHANGED <<e_link, e_ends, e_told, e_wire, e_queue>> /\ e_robots' \in 0..MaxRobots => RobotsInv'
  BY OtherRobot DEF RobotsInv, RobotsTypes
(* What happens to one robot. *)
<1>o. ASSUME NEW c \in Robot, UNCHANGED e_robots,
             NEW l \in Links, NEW ends \in SUBSET Side, NEW told \in SUBSET Side,
             e_link' = [e_link EXCEPT ![c] = l], e_ends' = [e_ends EXCEPT ![c] = ends],
             e_told' = [e_told EXCEPT ![c] = told],
             e_wire' \in Wires, \A d \in Robot : d # c => e_wire'[d] = e_wire[d],
             e_queue' \in Queues,
             \A x \in Side, d \in Robot, m \in Msgid :
                d # c => e_queue'[x][d][m] = e_queue[x][d][m],
             Allowed(l, EndsOf(ends), Around(e_wire', e_queue', c)), Told(told, e_queue', c), Untold(l, told)
      PROVE  RobotsInv'
  <2>1. /\ e_link' \in [Robot -> Links] /\ e_link'[c] = l /\ \A d \in Robot : d # c => e_link'[d] = e_link[d]
        /\ e_ends' \in [Robot -> SUBSET Side] /\ e_ends'[c] = ends
        /\ \A d \in Robot : d # c => e_ends'[d] = e_ends[d]
        /\ e_told' \in [Robot -> SUBSET Side] /\ e_told'[c] = told
        /\ \A d \in Robot : d # c => e_told'[d] = e_told[d]
    BY <1>o, <1>t DEF RobotsTypes
  <2>2. RobotsTypes' BY <1>o, <1>t, <2>1 DEF RobotsTypes
  <2>3. \A d \in Robot : d # c =>
           /\ Allowed(e_link'[d], EndsOf(e_ends'[d]), Around(e_wire', e_queue', d))
           /\ Told(e_told'[d], e_queue', d) /\ Untold(e_link'[d], e_told'[d])
    BY <1>o, <2>1, OtherRobot
  <2> QED BY <1>o, <2>1, <2>2, <2>3 DEF RobotsInv
<1>c. ASSUME NEW c \in Robot
      PROVE  /\ Allowed(e_link[c], EndsOf(e_ends[c]), Around(e_wire, e_queue, c))
             /\ Told(e_told[c], e_queue, c) /\ Untold(e_link[c], e_told[c])
             /\ e_link[c] \in Links /\ e_ends[c] \in SUBSET Side /\ e_told[c] \in SUBSET Side
             /\ \A x \in Side, m \in Msgid : e_queue[x][c][m] \in Nat
             /\ \A x \in Side : e_wire[c][x] \in Nat
  BY <1>t, <1>c, Counts6 DEF RobotsInv, RobotsTypes
<1>e. \A c \in Robot : /\ e_link = [e_link EXCEPT ![c] = e_link[c]]
                       /\ e_ends = [e_ends EXCEPT ![c] = e_ends[c]]
                       /\ e_told = [e_told EXCEPT ![c] = e_told[c]]
  BY <1>t DEF RobotsTypes
<1>w. e_wire \in Wires /\ e_queue \in Queues BY <1>t DEF RobotsTypes
<1>1. CASE RobotConnects
  <2>c. PICK c \in Robot : c = NextRobot BY <1>1, <1>t, NextIs DEF RobotConnects, RobotFails
  <2>1. /\ c \in Robot /\ e_link[c] = "none" /\ e_wire' = e_wire /\ e_robots' = e_robots
        /\ e_link' = [e_link EXCEPT ![c] = "connected"] /\ e_ends' = [e_ends EXCEPT ![c] = {"client"}]
        /\ e_told' = e_told /\ e_queue' = Gets("client", c, "connected")
    BY <1>1, <2>c, <1>t, NextIs DEF RobotConnects, e_programs
  <2>2. /\ e_queue' \in Queues
        /\ \A y \in Side, d \in Robot, n \in Msgid :
             e_queue'[y][d][n] = IF y = "client" /\ d = c /\ n = "connected"
                                 THEN e_queue[y][d][n] + 1 ELSE e_queue[y][d][n]
    BY <2>1, <1>t, OneMorePacket DEF Side, Msgid
  <2>5. Allowed("none", EndsOf(e_ends[c]), Around(e_wire, e_queue, c)) /\ e_told[c] = {}
    BY <2>1, <1>c DEF Untold
  <2>6. Around(e_wire, e_queue, c) = 0 BY <2>5 DEF Allowed
  <2>7. Around(e_wire', e_queue', c) = Around(e_wire, e_queue, c) + 1
    BY <2>1, <2>2, <1>t, <1>w, Counts6, SMTT(60) DEF Around, Side, Msgid
  <2>3. Allowed("connected", EndsOf({"client"}), Around(e_wire', e_queue', c)) BY <2>6, <2>7 DEF Allowed, EndsOf
  <2>4. Told(e_told[c], e_queue', c) /\ Untold("connected", e_told[c])
    BY <2>1, <2>2, <2>5, <1>c DEF Told, Untold, Side, Msgid
  <2>8. {"client"} \in SUBSET Side /\ "connected" \in Links BY DEF Side, Links
  <2>s. e_told' = [e_told EXCEPT ![c] = e_told[c]]
    BY <2>1, <1>e
  <2>k. e_told[c] \in SUBSET Side BY <2>1, <1>c
  <2>q. \A y \in Side, d \in Robot, n \in Msgid : d # c => e_queue'[y][d][n] = e_queue[y][d][n] BY <2>2
  <2>v. e_queue' \in Queues /\ e_wire' \in Wires /\ \A d \in Robot : d # c => e_wire'[d] = e_wire[d]
    BY <2>1, <2>2, <1>w
  <2> QED BY <2>1, <2>3, <2>4, <2>8, <2>s, <2>k, <2>q, <2>v, <1>o
<1>2. CASE RobotFails
  <2>c. PICK c \in Robot : c = NextRobot BY <1>2, <1>t, NextIs DEF RobotConnects, RobotFails
  <2>1. /\ c \in Robot /\ e_link[c] = "none" /\ e_wire' = e_wire /\ e_robots' = e_robots
        /\ e_link' = [e_link EXCEPT ![c] = "failed"] /\ e_ends' = e_ends
        /\ \/ e_queue' = e_queue /\ e_told' = e_told
           \/ e_queue' = Gets("client", c, "closeed") /\ e_told' = [e_told EXCEPT ![c] = {"client"}]
    BY <1>2, <2>c, <1>t, NextIs DEF RobotFails, e_programs
  <2>2. /\ e_queue' \in Queues
        /\ \A y \in Side, d \in Robot, n \in Msgid :
             n # "closeed" \/ d # c => e_queue'[y][d][n] = e_queue[y][d][n]
    BY <2>1, <1>t, <1>w, OneMorePacket DEF Side, Msgid
  <2>3. Allowed("failed", EndsOf(e_ends[c]), Around(e_wire', e_queue', c))
    BY <2>1, <2>2, <1>c DEF Allowed, Around, Side, Msgid
  <2>4. "failed" \in Links /\ {"client"} \in SUBSET Side BY DEF Links, Side
  <2>5. CASE e_queue' = e_queue /\ e_told' = e_told
    <3>1. Told(e_told[c], e_queue', c) /\ Untold("failed", e_told[c]) BY <2>1, <2>5, <1>c DEF Told, Untold
    <3>s. e_ends' = [e_ends EXCEPT ![c] = e_ends[c]] /\ e_told' = [e_told EXCEPT ![c] = e_told[c]]
      BY <2>1, <1>e, <2>5
    <3>k. e_ends[c] \in SUBSET Side /\ e_told[c] \in SUBSET Side BY <2>1, <1>c
    <3> QED BY <3>1, <2>1, <2>2, <2>3, <2>4, <2>5, <3>s, <3>k, <1>o, <1>w
  <2>6. CASE e_queue' = Gets("client", c, "closeed") /\ e_told' = [e_told EXCEPT ![c] = {"client"}]
    <3>1. \A y \in Side : e_queue[y][c]["closeed"] = 0
      BY <2>1, <1>c DEF Untold, Told, Side, Msgid
    <3>2. \A y \in Side : e_queue'[y][c]["closeed"] = IF y = "client" THEN 1 ELSE 0
      BY <2>1, <2>6, <3>1, <1>t, OneMorePacket DEF Side, Msgid
    <3>3. Told({"client"}, e_queue', c) /\ Untold("failed", {"client"})
      BY <3>2 DEF Told, Untold, Side
    <3>s. e_ends' = [e_ends EXCEPT ![c] = e_ends[c]]
      BY <2>1, <1>e
    <3>k. e_ends[c] \in SUBSET Side BY <2>1, <1>c
    <3>q. \A y \in Side, d \in Robot, n \in Msgid : d # c => e_queue'[y][d][n] = e_queue[y][d][n] BY <2>2
    <3>v. e_queue' \in Queues /\ e_wire' \in Wires /\ \A d \in Robot : d # c => e_wire'[d] = e_wire[d]
      BY <2>1, <2>2, <1>w
    <3> QED BY <3>3, <2>1, <2>3, <2>4, <2>6, <3>s, <3>k, <3>q, <3>v, <1>o
  <2> QED BY <2>1, <2>5, <2>6
<1>3. ASSUME NEW c \in Robot, ServerAccepts(c) PROVE RobotsInv'
  <2>1. /\ e_link[c] \in {"connected", "broken"} /\ "server" \notin e_ends[c]
        /\ e_wire' = e_wire /\ e_robots' = e_robots /\ e_link' = e_link /\ e_told' = e_told
        /\ e_ends' = [e_ends EXCEPT ![c] = e_ends[c] \cup {"server"}]
        /\ e_queue' = Gets("server", c, "connected")
    BY <1>3 DEF ServerAccepts, e_programs
  <2>2. /\ e_queue' \in Queues
        /\ \A y \in Side, d \in Robot, n \in Msgid :
             e_queue'[y][d][n] = IF y = "server" /\ d = c /\ n = "connected"
                                 THEN e_queue[y][d][n] + 1 ELSE e_queue[y][d][n]
    BY <2>1, <1>t, OneMorePacket DEF Side, Msgid
  <2>5. Around(e_wire', e_queue', c) = Around(e_wire, e_queue, c) + 1
    BY <2>1, <2>2, <1>c, SMTT(30) DEF Around, Side, Msgid
  <2>6. EndsOf(e_ends[c] \cup {"server"}) = EndsOf(e_ends[c]) + 1 BY <2>1 DEF EndsOf
  <2>7. Around(e_wire, e_queue, c) \in Nat BY <1>t, AroundNumbers DEF Around
  <2>8. EndsOf(e_ends[c]) \in Nat BY DEF EndsOf
  <2>3. Allowed(e_link[c], EndsOf(e_ends[c] \cup {"server"}), Around(e_wire', e_queue', c))
    BY <2>1, <2>5, <2>6, <2>7, <2>8, <1>c DEF Allowed
  <2>4. Told(e_told[c], e_queue', c)
    BY <2>1, <2>2, <1>c DEF Told, Side, Msgid
  <2>9. e_ends[c] \cup {"server"} \in SUBSET Side BY <1>c DEF Side
  <2>u. Untold(e_link[c], e_told[c]) BY <2>1, <1>c
  <2>s. e_link' = [e_link EXCEPT ![c] = e_link[c]] /\ e_told' = [e_told EXCEPT ![c] = e_told[c]]
    BY <2>1, <1>e
  <2>k. e_link[c] \in Links /\ e_told[c] \in SUBSET Side BY <2>1, <1>c
  <2>q. \A y \in Side, d \in Robot, n \in Msgid : d # c => e_queue'[y][d][n] = e_queue[y][d][n] BY <2>2
  <2>v. e_queue' \in Queues /\ e_wire' \in Wires /\ \A d \in Robot : d # c => e_wire'[d] = e_wire[d]
    BY <2>1, <2>2, <1>w
  <2> QED BY <2>1, <2>3, <2>4, <2>9, <2>u, <2>s, <2>k, <2>q, <2>v, <1>o
<1>4. ASSUME NEW c \in Robot, LinkBreaks(c) PROVE RobotsInv'
  <2>1. /\ e_link[c] = "connected" /\ e_robots' = e_robots /\ e_wire' = e_wire /\ e_queue' = e_queue
        /\ e_ends' = e_ends /\ e_told' = e_told
        /\ e_link' = [e_link EXCEPT ![c] = "broken"]
    BY <1>4 DEF LinkBreaks, e_programs
  <2>2. EndsOf(e_ends[c]) \in Nat BY DEF EndsOf
  <2>3. Allowed("broken", EndsOf(e_ends[c]), Around(e_wire', e_queue', c))
    BY <2>1, <2>2, <1>c DEF Allowed
  <2>4. Told(e_told[c], e_queue', c) /\ Untold("broken", e_told[c]) /\ "broken" \in Links
    BY <2>1, <1>c DEF Told, Untold, Links
  <2>s. e_ends' = [e_ends EXCEPT ![c] = e_ends[c]] /\ e_told' = [e_told EXCEPT ![c] = e_told[c]]
    BY <2>1, <1>e
  <2>k. e_ends[c] \in SUBSET Side /\ e_told[c] \in SUBSET Side BY <2>1, <1>c
  <2> QED BY <2>1, <2>3, <2>4, <2>s, <2>k, <1>o, <1>w
<1>8. ASSUME NEW x \in Side, NEW c \in Robot, EndTold(x, c) PROVE RobotsInv'
  <2>1. /\ e_link[c] = "broken" /\ x \notin e_told[c] /\ e_robots' = e_robots /\ e_wire' = e_wire
        /\ e_ends' = e_ends /\ e_link' = e_link
        /\ e_told' = [e_told EXCEPT ![c] = e_told[c] \cup {x}]
        /\ e_queue' = Gets(x, c, "closeed")
    BY <1>8 DEF EndTold, e_programs
  <2>2. /\ e_queue' \in Queues
        /\ \A y \in Side, d \in Robot, n \in Msgid :
             e_queue'[y][d][n] = IF y = x /\ d = c /\ n = "closeed"
                                 THEN e_queue[y][d][n] + 1 ELSE e_queue[y][d][n]
    BY <2>1, <1>t, OneMorePacket DEF Msgid
  <2>3. Allowed("broken", EndsOf(e_ends[c]), Around(e_wire', e_queue', c))
    <3>1. Around(e_wire', e_queue', c) = Around(e_wire, e_queue, c) BY <2>1, <2>2 DEF Around, Side, Msgid
    <3> QED BY <3>1, <2>1, <1>c
  <2>4. Told(e_told[c] \cup {x}, e_queue', c) /\ Untold("broken", e_told[c] \cup {x})
    BY <2>1, <2>2, <1>c DEF Told, Untold, Msgid
  <2>5. e_told[c] \cup {x} \in SUBSET Side BY <1>c
  <2>s. e_link' = [e_link EXCEPT ![c] = e_link[c]] /\ e_ends' = [e_ends EXCEPT ![c] = e_ends[c]]
    BY <2>1, <1>e
  <2>k. e_link[c] \in Links /\ e_ends[c] \in SUBSET Side BY <2>1, <1>c
  <2>l. /\ Allowed(e_link[c], EndsOf(e_ends[c]), Around(e_wire', e_queue', c))
        /\ Untold(e_link[c], e_told[c] \cup {x})
    BY <2>1, <2>3, <2>4
  <2>r. e_robots' = e_robots /\ e_told' = [e_told EXCEPT ![c] = e_told[c] \cup {x}] BY <2>1
  <2>q. \A y \in Side, d \in Robot, n \in Msgid : d # c => e_queue'[y][d][n] = e_queue[y][d][n] BY <2>2
  <2>v. e_queue' \in Queues /\ e_wire' \in Wires /\ \A d \in Robot : d # c => e_wire'[d] = e_wire[d]
    BY <2>1, <2>2, <1>w
  <2> QED BY <2>r, <2>4, <2>5, <2>l, <2>s, <2>k, <2>q, <2>v, <1>o
<1>5. ASSUME NEW x \in Side, NEW c \in Robot, Arrives(x, c) PROVE RobotsInv'
  <2>1. /\ e_wire[c][x] > 0 /\ e_robots' = e_robots
        /\ e_link' = e_link /\ e_ends' = e_ends /\ e_told' = e_told
        /\ e_wire' = [e_wire EXCEPT ![c][x] = @ - 1]
        /\ e_queue' = Gets(x, c, "message")
    BY <1>5 DEF Arrives, e_programs, e_links
  <2>2. /\ e_queue' \in Queues
        /\ \A y \in Side, d \in Robot, n \in Msgid :
             e_queue'[y][d][n] = IF y = x /\ d = c /\ n = "message"
                                 THEN e_queue[y][d][n] + 1 ELSE e_queue[y][d][n]
    BY <2>1, <1>t, OneMorePacket DEF Msgid
  <2>5. /\ e_wire' \in Wires
        /\ \A y \in Side : e_wire'[c][y] = IF y = x THEN e_wire[c][y] - 1 ELSE e_wire[c][y]
        /\ \A d \in Robot : d # c => e_wire'[d] = e_wire[d]
    BY <2>1, <1>w, <1>c DEF Wires
  <2>3. Allowed(e_link[c], EndsOf(e_ends[c]), Around(e_wire', e_queue', c))
    <3>1. Around(e_wire', e_queue', c) = Around(e_wire, e_queue, c)
      BY <2>2, <2>5, <1>t, AroundNumbers DEF Around, Side, Msgid
    <3> QED BY <3>1, <1>c
  <2>4. Told(e_told[c], e_queue', c)
    BY <2>1, <2>2, <1>c DEF Told, Side, Msgid
  <2>u. Untold(e_link[c], e_told[c]) BY <1>c
  <2>s. e_link' = [e_link EXCEPT ![c] = e_link[c]] /\ e_ends' = [e_ends EXCEPT ![c] = e_ends[c]] /\ e_told' = [e_told EXCEPT ![c] = e_told[c]]
    BY <2>1, <1>e
  <2>k. e_link[c] \in Links /\ e_ends[c] \in SUBSET Side /\ e_told[c] \in SUBSET Side BY <2>1, <1>c
  <2>q. \A y \in Side, d \in Robot, n \in Msgid : d # c => e_queue'[y][d][n] = e_queue[y][d][n] BY <2>2
  <2>v. e_queue' \in Queues /\ e_wire' \in Wires /\ \A d \in Robot : d # c => e_wire'[d] = e_wire[d]
    BY <2>2, <2>5
  <2> QED BY <2>1, <2>3, <2>4, <2>5, <2>u, <2>s, <2>k, <2>q, <2>v, <1>o
<1>6. ASSUME NEW x \in Side, NEW c \in Robot, NEW m \in Msgid, Dispatch(x, c, m)
      PROVE  RobotsInv'
  <2>1. /\ e_queue[x][c][m] > 0 /\ e_robots' = e_robots
        /\ e_link' = e_link /\ e_ends' = e_ends /\ e_told' = e_told
        /\ e_queue' = [e_queue EXCEPT ![x][c][m] = @ - 1]
        /\ e_wire' = IF Answers(x, m) /\ e_link[c] = "connected"
                     THEN [e_wire EXCEPT ![c][Other(x)] = @ + 1] ELSE e_wire
    BY <1>6 DEF Dispatch, e_programs, e_links
  <2>2. /\ e_queue' \in Queues
        /\ \A y \in Side, d \in Robot, n \in Msgid :
             e_queue'[y][d][n] = IF y = x /\ d = c /\ n = m
                                 THEN e_queue[y][d][n] - 1 ELSE e_queue[y][d][n]
    <3> DEFINE f == [e_queue[x][c] EXCEPT ![m] = @ - 1]
               g == [e_queue[x] EXCEPT ![c] = f]
    <3>0. e_queue[x] \in [Robot -> [Msgid -> Nat]] /\ e_queue[x][c] \in [Msgid -> Nat]
      BY <1>w DEF Queues
    <3>1. /\ f \in [Msgid -> Nat]
          /\ \A n \in Msgid : f[n] = IF n = m THEN e_queue[x][c][n] - 1 ELSE e_queue[x][c][n]
      BY <3>0, <2>1
    <3>2. e_queue' = [e_queue EXCEPT ![x] = g] BY <2>1
    <3> HIDE DEF f
    <3>3. /\ g \in [Robot -> [Msgid -> Nat]]
          /\ \A d \in Robot : g[d] = IF d = c THEN f ELSE e_queue[x][d]
      BY <3>0, <3>1
    <3> HIDE DEF g
    <3>4. e_queue' \in Queues /\ \A y \in Side : e_queue'[y] = IF y = x THEN g ELSE e_queue[y]
      BY <3>2, <3>3, <1>w DEF Queues
    <3> QED BY <3>1, <3>3, <3>4
  <2>3. Told(e_told[c], e_queue', c)
    BY <2>2, <1>c DEF Told, Side, Msgid
  <2>4. CASE e_link[c] = "connected"
    <3>1. m \in {"connected", "message"} BY <2>4, <2>1, <1>c DEF Told, Untold, Msgid
    <3>2. e_wire' = [e_wire EXCEPT ![c][Other(x)] = @ + 1] /\ Other(x) \in Side
      BY <2>1, <2>4, <3>1 DEF Answers, EveryPacket, Other, Side
    <3>3. /\ e_wire' \in Wires
          /\ \A y \in Side : e_wire'[c][y] = IF y = Other(x) THEN e_wire[c][y] + 1 ELSE e_wire[c][y]
          /\ \A d \in Robot : d # c => e_wire'[d] = e_wire[d]
      BY <3>2, <1>w, <1>c DEF Wires
    <3>4. Around(e_wire', e_queue', c) = Around(e_wire, e_queue, c)
      <4>1. ASSUME NEW n \in Msgid
            PROVE  /\ e_queue'["client"][c][n] = IF x = "client" /\ n = m THEN e_queue["client"][c][n] - 1
                                                                        ELSE e_queue["client"][c][n]
                   /\ e_queue'["server"][c][n] = IF x = "server" /\ n = m THEN e_queue["server"][c][n] - 1
                                                                        ELSE e_queue["server"][c][n]
        BY <2>2 DEF Side
      <4>2. /\ e_wire'[c]["client"] = IF x = "server" THEN e_wire[c]["client"] + 1 ELSE e_wire[c]["client"]
            /\ e_wire'[c]["server"] = IF x = "client" THEN e_wire[c]["server"] + 1 ELSE e_wire[c]["server"]
        BY <3>3 DEF Side, Other
      <4>3. "message" \in Msgid /\ "connected" \in Msgid /\ "client" \in Side /\ "server" \in Side
        BY DEF Msgid, Side
      <4>4. x = "client" \/ x = "server" BY DEF Side
      <4>5. CASE x = "client" /\ m = "message"
        BY <4>1, <4>2, <4>3, <4>5, <1>t, AroundNumbers DEF Around
      <4>6. CASE x = "client" /\ m = "connected"
        BY <4>1, <4>2, <4>3, <4>6, <1>t, AroundNumbers DEF Around
      <4>7. CASE x = "server" /\ m = "message"
        BY <4>1, <4>2, <4>3, <4>7, <1>t, AroundNumbers DEF Around
      <4>8. CASE x = "server" /\ m = "connected"
        BY <4>1, <4>2, <4>3, <4>8, <1>t, AroundNumbers DEF Around
      <4> QED BY <4>4, <4>5, <4>6, <4>7, <4>8, <3>1
    <3>5. Allowed(e_link[c], EndsOf(e_ends[c]), Around(e_wire', e_queue', c)) BY <3>4, <1>c
    <3>6. \A y \in Side, d \in Robot, n \in Msgid : d # c => e_queue'[y][d][n] = e_queue[y][d][n]
      BY <2>2
    <3> QED BY <2>1, <2>2, <2>3, <3>3, <3>5, <3>6, <1>o, <1>c, <1>e
  <2>5. CASE e_link[c] # "connected"
    <3>1. e_wire' = e_wire BY <2>1, <2>5
    <3>2. \/ m = "closeed" /\ Around(e_wire', e_queue', c) = Around(e_wire, e_queue, c)
          \/ m # "closeed" /\ Around(e_wire', e_queue', c) = Around(e_wire, e_queue, c) - 1
      <4>1. ASSUME NEW n \in Msgid
            PROVE  /\ e_queue'["client"][c][n] = IF x = "client" /\ n = m THEN e_queue["client"][c][n] - 1
                                                                        ELSE e_queue["client"][c][n]
                   /\ e_queue'["server"][c][n] = IF x = "server" /\ n = m THEN e_queue["server"][c][n] - 1
                                                                        ELSE e_queue["server"][c][n]
        BY <2>2 DEF Side
      <4>2. "message" \in Msgid /\ "connected" \in Msgid /\ "client" \in Side /\ "server" \in Side
        BY DEF Msgid, Side
      <4>3. (x = "client" \/ x = "server") /\ (m = "message" \/ m = "connected" \/ m = "closeed")
        BY DEF Side, Msgid
      <4>4. CASE m = "closeed"
        BY <4>1, <4>2, <4>4, <3>1, <1>t, AroundNumbers DEF Around
      <4>5. CASE m = "message" /\ x = "client"
        BY <4>1, <4>2, <4>5, <3>1, <1>t, AroundNumbers DEF Around
      <4>6. CASE m = "message" /\ x = "server"
        BY <4>1, <4>2, <4>6, <3>1, <1>t, AroundNumbers DEF Around
      <4>7. CASE m = "connected" /\ x = "client"
        BY <4>1, <4>2, <4>7, <3>1, <1>t, AroundNumbers DEF Around
      <4>8. CASE m = "connected" /\ x = "server"
        BY <4>1, <4>2, <4>8, <3>1, <1>t, AroundNumbers DEF Around
      <4> QED BY <4>3, <4>4, <4>5, <4>6, <4>7, <4>8
    <3>3. m # "closeed" => Around(e_wire, e_queue, c) > 0
      BY <2>1, <1>c DEF Around, Side, Msgid
    <3>4. Around(e_wire, e_queue, c) \in Nat BY <1>c DEF Around, Side, Msgid
    <3>8. EndsOf(e_ends[c]) \in Nat BY DEF EndsOf
    <3>5. Allowed(e_link[c], EndsOf(e_ends[c]), Around(e_wire', e_queue', c))
      BY <3>2, <3>3, <3>4, <3>8, <2>5, <1>c DEF Allowed
    <3>6. \A y \in Side, d \in Robot, n \in Msgid : d # c => e_queue'[y][d][n] = e_queue[y][d][n]
      BY <2>2
    <3>7. e_wire' \in Wires /\ \A d \in Robot : d # c => e_wire'[d] = e_wire[d]
      BY <3>1, <1>w
    <3> QED BY <2>1, <2>2, <2>3, <3>5, <3>6, <3>7, <1>o, <1>c, <1>e
  <2> QED BY <2>4, <2>5
<1>7. CASE ClientAsks \/ ClientLoops \/ ServerAsks \/ (\E x \in Side : Report(x)) \/ UNCHANGED e_vars
  <2>1. UNCHANGED <<e_link, e_ends, e_told, e_wire, e_queue>> /\ e_robots' \in 0..MaxRobots
    BY <1>7, <1>t DEF ClientAsks, ClientLoops, ServerAsks, Report, e_vars, e_programs, e_links,
                     RobotsTypes
  <2> QED BY <2>1, <1>q
<1> QED BY <1>1, <1>2, <1>3, <1>4, <1>5, <1>6, <1>7, <1>8 DEF RobotsNext

LEMMA RobotsStart == RobotsInit => RobotsInv
<1> SUFFICES ASSUME RobotsInit PROVE RobotsInv OBVIOUS
<1>1. RobotsTypes BY RobotConstants DEF RobotsInit, RobotsTypes, Wires, Queues, Links
<1>2. \A c \in Robot : Around(e_wire, e_queue, c) = 0 /\ e_link[c] = "none" /\ e_told[c] = {}
  BY DEF RobotsInit, Around, Side, Msgid
<1>3. \A c \in Robot : Told({}, e_queue, c) BY DEF RobotsInit, Told, Side, Msgid
<1> QED BY <1>1, <1>2, <1>3 DEF RobotsInv, Allowed, Untold

(* The dispatchers of t_asio_client.cpp and t_asio_server.cpp: the messages   *)
(* between robots and server neither dry up nor grow.                         *)
THEOREM TrafficConstantHolds == RobotsSpec => []TrafficConstant
<1>1. RobotsInv => TrafficConstant
  <2>1. \A c \in Robot : GoingRound(c) = Around(e_wire, e_queue, c)
    BY DEF GoingRound, Around
  <2>2. RobotsInv => \A c \in Robot : Cardinality(e_ends[c]) = EndsOf(e_ends[c])
    BY KnownIs DEF RobotsInv, RobotsTypes
  <2> QED BY <2>1, <2>2 DEF RobotsInv, TrafficConstant, Allowed, Told
<1> QED BY <1>1, RobotsStart, RobotsStep, PTL DEF RobotsSpec

-----------------------------------------------------------------------------
(* The message queue of the unit tests, for any number of threads.          *)
MessageSpec == MessageInit /\ [][MessageNext]_q_vars

(* The messages of the pops one after the other: f[n] is those of the first n. *)
Batch == [messages : Seq(Nat), waited : BOOLEAN]
InTurn(f, b) == /\ f \in [0..Len(b) -> Seq(Nat)] /\ f[0] = << >>
               /\ \A n \in 1..Len(b) : f[n] = f[n - 1] \o b[n].messages
MessageTypes == /\ q_queue \in Seq(Nat) /\ q_pushed \in Seq(Nat) /\ q_batches \in Seq(Batch)
                /\ q_notify \in BOOLEAN
                /\ q_pc \in [Pushers \cup Poppers -> {"out", "notify", "test", "take", "asleep"}]
Taking == \E f : InTurn(f, q_batches) /\ f[Len(q_batches)] \o q_queue = q_pushed
Waited == \A n \in 1..Len(q_batches) : q_batches[n].waited => q_batches[n].messages # << >>
Awake == q_notify /\ q_queue # << >> /\ Waiting # {} =>
           \/ \E t \in Pushers : q_pc[t] = "notify"
           \/ \E t \in Poppers : q_pc[t] # "asleep"
MessageInv == MessageTypes /\ Taking /\ Waited /\ Awake

(* The recursion of Joined has one solution. *)
LEMMA JoinedIs ==
    ASSUME q_batches \in Seq(Batch), NEW f, InTurn(f, q_batches)
    PROVE  Joined = f
<1> DEFINE e(g) == [n \in 0..Len(q_batches) |->
                      IF n = 0 THEN << >> ELSE g[n - 1] \o q_batches[n].messages]
<1>0. Len(q_batches) \in Nat BY LenProperties
<1>1. f = e(f)
  <2>1. ASSUME NEW n \in 0..Len(q_batches) PROVE f[n] = e(f)[n]
    <3>1. CASE n = 0 BY <3>1 DEF InTurn
    <3>2. CASE n # 0
      <4>1. n \in 1..Len(q_batches) BY <3>2, <1>0
      <4> QED BY <4>1, <3>2 DEF InTurn
    <3> QED BY <3>1, <3>2
  <2> QED BY <2>1 DEF InTurn
<1>2. Joined = (CHOOSE g : g = e(g)) BY DEF Joined
<1> DEFINE j == CHOOSE g : g = e(g)
<1>3. j = e(j) BY <1>1
<1> HIDE DEF j
<1>4. /\ \A n \in 0..Len(q_batches) : j[n] = IF n = 0 THEN << >> ELSE j[n - 1] \o q_batches[n].messages
      /\ DOMAIN j = 0..Len(q_batches) /\ j = [n \in DOMAIN j |-> j[n]]
  BY <1>3
<1> HIDE DEF e
<1> DEFINE T == {n \in 0..Len(q_batches) : j[n] # f[n]}
<1>5. T = {}
  <2>1. SUFFICES ASSUME T # {} PROVE FALSE OBVIOUS
  <2>0. T \subseteq Nat BY <1>0
  <2>2. PICK n \in T : \A k \in T : n <= k BY <2>1, <2>0, LeastNumber
  <2>8. 0 \in 0..Len(q_batches) BY <1>0
  <2>9. j[0] = << >> BY <2>8, <1>4, Zenon
  <2>7. j[0] = << >> /\ f[0] = << >> BY <2>9 DEF InTurn
  <2>3. n # 0 /\ n \in 1..Len(q_batches) BY <1>0, <2>7
  <2>4. n - 1 \in 0..Len(q_batches) /\ n - 1 \notin T BY <2>2, <2>3, <1>0
  <2>5. j[n] = j[n - 1] \o q_batches[n].messages BY <2>3, <1>4, <1>0
  <2>6. f[n] = f[n - 1] \o q_batches[n].messages BY <2>3 DEF InTurn
  <2> QED BY <2>4, <2>5, <2>6
<1>6. j = f
  <2>1. \A n \in 0..Len(q_batches) : j[n] = f[n] BY <1>5
  <2>2. DOMAIN f = 0..Len(q_batches) /\ f = [n \in DOMAIN f |-> f[n]] BY DEF InTurn
  <2> QED BY <2>1, <2>2, <1>4
<1> QED BY <1>2, <1>6 DEF j

(* A message at the end of the queue, and a pop of all of it.               *)
LEMMA JoinsPushed ==
    ASSUME NEW s \in Seq(Nat), NEW q \in Seq(Nat), NEW n \in Nat
    PROVE  s \o Append(q, n) = Append(s \o q, n)
<1>1. Append(q, n) = q \o <<n>> /\ <<n>> \in Seq(Nat) BY AppendIsConcat
<1>2. s \o q \in Seq(Nat) /\ Append(s \o q, n) = (s \o q) \o <<n>> BY AppendIsConcat, ConcatProperties
<1> QED BY <1>1, <1>2, ConcatAssociative
LEMMA JoinsTaken ==
    ASSUME NEW b \in Seq(Batch), NEW x \in Batch, NEW f, InTurn(f, b)
    PROVE  \E g : InTurn(g, Append(b, x)) /\ g[Len(b) + 1] = f[Len(b)] \o x.messages
<1> DEFINE k == Len(b)
           c == Append(b, x)
           g == [n \in 0..k + 1 |-> IF n = k + 1 THEN f[k] \o x.messages ELSE f[n]]
<1>1. /\ k \in Nat /\ Len(c) = k + 1 /\ c[k + 1] = x /\ \A n \in 1..k : c[n] = b[n]
  BY LenProperties, AppendProperties
<1>2. f[k] \o x.messages \in Seq(Nat)
  <2>1. f[k] \in Seq(Nat) /\ x.messages \in Seq(Nat) BY <1>1 DEF InTurn, Batch
  <2> QED BY <2>1, ConcatProperties
<1> HIDE DEF c, k
<1>3. g \in [0..(k + 1) -> Seq(Nat)] /\ g[0] = << >> /\ g[k + 1] = f[k] \o x.messages
  BY <1>1, <1>2 DEF InTurn, k
<1>4. ASSUME NEW n \in 1..(k + 1) PROVE g[n] = g[n - 1] \o c[n].messages
  <2>1. CASE n = k + 1
    <3>1. g[n - 1] = f[k] BY <2>1, <1>1
    <3> QED BY <3>1, <2>1, <1>1, <1>3
  <2>2. CASE n # k + 1
    <3>1. n \in 1..k /\ n - 1 \in 0..k BY <2>2, <1>1
    <3>2. g[n] = f[n] /\ g[n - 1] = f[n - 1] BY <3>1, <1>1
    <3> QED BY <3>1, <3>2, <1>1 DEF InTurn, k
  <2> QED BY <2>1, <2>2
<1> HIDE DEF g
<1>5. InTurn(g, c) BY <1>1, <1>3, <1>4 DEF InTurn
<1> QED BY <1>3, <1>5 DEF c, k

(* A queue that was just made. *)
LEMMA MessagesStart == MessageInit => MessageInv
<1> SUFFICES ASSUME MessageInit PROVE MessageInv OBVIOUS
<1>1. MessageTypes BY EmptySeq DEF MessageInit, MessageTypes
<1>2. Taking
  <2> DEFINE f == [n \in 0..0 |-> << >>]
  <2>1. Len(q_batches) = 0 BY DEF MessageInit
  <2>2. InTurn(f, q_batches) BY <2>1, EmptySeq DEF InTurn
  <2>3. f[Len(q_batches)] \o q_queue = q_pushed
    BY <2>1, EmptySeq, ConcatEmptySeq DEF MessageInit
  <2> QED BY <2>2, <2>3 DEF Taking
<1>3. Waited /\ Awake BY DEF Waited, Awake, MessageInit
<1> QED BY <1>1, <1>2, <1>3 DEF MessageInv

LEMMA MessagesStep == MessageInv /\ [MessageNext]_q_vars => MessageInv'
<1> SUFFICES ASSUME MessageInv, [MessageNext]_q_vars PROVE MessageInv'
  OBVIOUS
<1>t. MessageTypes BY DEF MessageInv
<1>k. ASSUME UNCHANGED <<q_queue, q_batches, q_pushed>> PROVE Taking' /\ Waited'
  BY <1>k DEF MessageInv, Taking, Waited
<1>1. ASSUME NEW t \in Pushers, PushMessage(t) PROVE MessageInv'
  <2> DEFINE n == Len(q_pushed) + 1
  <2>1. /\ q_queue' = Append(q_queue, n) /\ q_pushed' = Append(q_pushed, n) /\ n \in Nat
        /\ q_pc' = [q_pc EXCEPT ![t] = "notify"] /\ UNCHANGED <<q_notify, q_batches>>
    BY <1>1, <1>t, LenProperties DEF PushMessage, MessageTypes
  <2> HIDE DEF n
  <2>2. MessageTypes' BY <2>1, <1>t, AppendProperties DEF MessageTypes
  <2>3. Taking'
    <3>1. PICK f : InTurn(f, q_batches) /\ f[Len(q_batches)] \o q_queue = q_pushed
      BY DEF MessageInv, Taking
    <3>2. f[Len(q_batches)] \in Seq(Nat)
      <4>1. Len(q_batches) \in 0..Len(q_batches) BY <1>t, LenProperties DEF MessageTypes
      <4> QED BY <3>1, <4>1 DEF InTurn
    <3>3. f[Len(q_batches)] \o q_queue' = q_pushed'
      BY <2>1, <3>1, <3>2, <1>t, JoinsPushed DEF MessageTypes
    <3> QED BY <2>1, <3>1, <3>3 DEF Taking
  <2>4. Waited' BY <2>1 DEF MessageInv, Waited
  <2>5. Awake' BY <2>1, <1>t DEF Awake, MessageTypes
  <2> QED BY <2>2, <2>3, <2>4, <2>5 DEF MessageInv
<1>2. ASSUME NEW t \in Pushers, PushNotifies(t) PROVE MessageInv'
  <2>1. MessageTypes' BY <1>2, <1>t DEF PushNotifies, MessageTypes, Waiting
  <2>2. Awake'
    <3>1. CASE q_notify /\ Waiting # {}
      <4>1. PICK w \in Waiting : q_pc' = [q_pc EXCEPT ![t] = "out", ![w] = "test"]
        BY <1>2, <3>1 DEF PushNotifies
      <4>2. w \in Poppers BY DEF Waiting
      <4>3. q_pc'[w] = "test" BY <4>1, <4>2, <1>t DEF MessageTypes
      <4> QED BY <4>2, <4>3 DEF Awake
    <3>2. CASE ~(q_notify /\ Waiting # {})
      <4>1. q_pc' = [q_pc EXCEPT ![t] = "out"] /\ q_notify' = q_notify BY <1>2, <3>2 DEF PushNotifies
      <4>2. \A w \in Poppers : q_pc'[w] = q_pc[w] BY <4>1, <1>t, MessageConstants DEF MessageTypes
      <4> QED BY <4>1, <4>2, <3>2 DEF Awake, Waiting
    <3> QED BY <3>1, <3>2
  <2> QED BY <1>2, <1>k, <2>1, <2>2 DEF PushNotifies, MessageInv
<1>3. ASSUME NEW t \in Poppers, PopEnter(t) PROVE MessageInv'
  <2>1. MessageTypes' BY <1>3, <1>t DEF PopEnter, MessageTypes
  <2>2. q_pc'[t] # "asleep" BY <1>3, <1>t DEF PopEnter, MessageTypes
  <2> QED BY <1>3, <1>k, <2>1, <2>2 DEF PopEnter, MessageInv, Awake
<1>4. ASSUME NEW t \in Poppers, PopWaits(t) PROVE MessageInv'
  <2>1. MessageTypes' BY <1>4, <1>t DEF PopWaits, MessageTypes
  <2>2. Awake' BY <1>4 DEF PopWaits, MustWait, Awake
  <2> QED BY <1>4, <1>k, <2>1, <2>2 DEF PopWaits, MessageInv
<1>5. ASSUME NEW t \in Poppers, PopTakes(t) PROVE MessageInv'
  <2> DEFINE x == [messages |-> q_queue, waited |-> q_pc[t] = "test"]
  <2>1. /\ q_batches' = Append(q_batches, x) /\ q_queue' = << >> /\ q_pushed' = q_pushed
        /\ q_pc' = [q_pc EXCEPT ![t] = "out"] /\ q_notify' = q_notify
        /\ q_pc[t] = "test" => q_queue # << >>
    BY <1>5 DEF PopTakes, MustWait
  <2>2. x \in Batch BY <1>t DEF Batch, MessageTypes
  <2>3. x.waited => x.messages # << >> BY <2>1
  <2>4. x.messages = q_queue OBVIOUS
  <2> HIDE DEF x
  <2>5. MessageTypes' BY <2>1, <2>2, <1>t, AppendProperties, EmptySeq DEF MessageTypes
  <2>6. /\ Len(q_batches) \in Nat /\ Len(q_batches') = Len(q_batches) + 1
        /\ q_batches'[Len(q_batches) + 1] = x
        /\ \A n \in 1..Len(q_batches) : q_batches'[n] = q_batches[n]
    BY <2>1, <2>2, <1>t, LenProperties, AppendProperties DEF MessageTypes
  <2>7. Taking'
    <3>1. PICK f : InTurn(f, q_batches) /\ f[Len(q_batches)] \o q_queue = q_pushed
      BY DEF MessageInv, Taking
    <3>2. PICK g : InTurn(g, q_batches') /\ g[Len(q_batches) + 1] = f[Len(q_batches)] \o x.messages
      BY <2>1, <2>2, <3>1, <1>t, JoinsTaken DEF MessageTypes
    <3>3. g[Len(q_batches')] = q_pushed BY <3>1, <3>2, <2>4, <2>6
    <3>4. q_pushed \o << >> = q_pushed BY <1>t, ConcatEmptySeq DEF MessageTypes
    <3>5. g[Len(q_batches')] \o q_queue' = q_pushed' BY <3>3, <3>4, <2>1
    <3> QED BY <3>2, <3>5 DEF Taking
  <2>8. Waited'
    <3>1. SUFFICES ASSUME NEW n \in 1..Len(q_batches') PROVE q_batches'[n].waited => q_batches'[n].messages # << >>
      BY DEF Waited
    <3>2. CASE n = Len(q_batches) + 1 BY <3>2, <2>6, <2>3
    <3>3. CASE n \in 1..Len(q_batches) BY <3>3, <2>6 DEF MessageInv, Waited
    <3> QED BY <3>2, <3>3, <2>6
  <2>9. Awake' BY <2>1 DEF Awake
  <2> QED BY <2>5, <2>7, <2>8, <2>9 DEF MessageInv
<1>6. CASE DisableNotify
  <2>1. MessageTypes' BY <1>6, <1>t DEF DisableNotify, MessageTypes
  <2> QED BY <1>6, <1>k, <2>1 DEF DisableNotify, MessageInv, Awake
<1>7. CASE UNCHANGED q_vars
  BY <1>7, <1>k DEF q_vars, MessageInv, MessageTypes, Awake, Waiting
<1> QED BY <1>1, <1>2, <1>3, <1>4, <1>5, <1>6, <1>7 DEF MessageNext

(* Push, Pop and disable_notify: no message is lost or taken twice, and while *)
(* Notify is set nobody sleeps over messages with no one left to wake him.    *)
THEOREM MessagesKeptHolds == MessageSpec => []MessagesKept
<1>1. MessageInv => MessagesKept
  <2> SUFFICES ASSUME MessageInv PROVE MessagesKept OBVIOUS
  <2>1. PICK f : InTurn(f, q_batches) /\ f[Len(q_batches)] \o q_queue = q_pushed
    BY DEF MessageInv, Taking
  <2>2. Joined = f BY <2>1, JoinedIs DEF MessageInv, MessageTypes
  <2>3. DOMAIN q_batches = 1..Len(q_batches) BY LenProperties DEF MessageInv, MessageTypes
  <2> QED BY <2>1, <2>2, <2>3 DEF MessageInv, MessagesKept, Waited, Awake
<1> QED BY <1>1, MessagesStart, MessagesStep, PTL DEF MessageSpec

-----------------------------------------------------------------------------
(* The programs of t_lockfree.cpp, for any number of threads, values and     *)
(* items.                                                                    *)
TestSpec == TestInit /\ [][TestNext]_t_vars

TestTypes == /\ t_program \in {"none", "atomic_test", "co_lock_free", "producer_consumer"}
             /\ t_pc \in [TestThreads -> {"loop", "load", "enqueue"}] /\ t_count \in Nat
             /\ t_j \in [TestThreads -> Nat] /\ t_item \in [TestThreads -> Nat]
             /\ t_queue \in [TestThreads -> Seq(Nat)] /\ t_printed \in [TestThreads -> Seq(Nat)]
             /\ t_dequeued \in [TestValues -> Nat] /\ t_main \in {"join", "collect", "check"}
(* What each program leaves alone. *)
Apart == /\ t_program \in {"none", "co_lock_free"} => \A t \in TestThreads : t_pc[t] = "loop"
         /\ t_program = "atomic_test" => \A t \in TestThreads : t_pc[t] # "enqueue"
         /\ t_main # "join" => t_program = "co_lock_free"
(* What a thread has printed is behind the count, and behind what it will load. *)
Printed == \A t \in TestThreads :
             /\ \A i \in 1..Len(t_printed[t]) : /\ t_printed[t][i] <= t_count
                                                /\ t_pc[t] = "load" => t_printed[t][i] < t_count
             /\ \A i, k \in 1..Len(t_printed[t]) : i < k => t_printed[t][i] < t_printed[t][k]
(* The items, those taken and those waiting, are the numbers from 1 on. *)
Numbered == /\ \A t \in TestThreads : t # 0 => t_pc[t] = "loop"
            /\ \A i \in 1..Len(t_printed[0]) : t_printed[0][i] = i
            /\ \A i \in 1..Len(t_queue[0]) : t_queue[0][i] = Len(t_printed[0]) + i
            /\ t_count = Len(t_printed[0]) + Len(t_queue[0]) + (IF t_pc[0] = "loop" THEN 0 ELSE 1)
            /\ t_pc[0] = "enqueue" => t_item[0] = t_count
(* Of what a producer made, the first so many have been collected. *)
Collected(t) == t_j[t] - Len(t_queue[t])
Valued == /\ \A t \in TestThreads :
               /\ t_j[t] <= PerProducer /\ Collected(t) >= 0
               /\ \A i \in 1..Len(t_queue[t]) : t_queue[t][i] = Value(t, Collected(t) + i - 1)
               /\ \A j \in 0..(PerProducer - 1) :
                    t_dequeued[Value(t, j)] = IF j < Collected(t) THEN 1 ELSE 0
          /\ t_main # "join" => \A t \in TestThreads : t_j[t] = PerProducer
          /\ t_main = "check" => \A t \in TestThreads : t_queue[t] = << >>
TestInv == /\ TestTypes /\ Apart
           /\ t_program \in {"none", "atomic_test"} => Printed
           /\ t_program \in {"none", "producer_consumer"} => Numbered
           /\ t_program \in {"none", "co_lock_free"} => Valued

(* The values of a producer are a block of the numbers.                     *)
LEMMA Threads ==
    /\ Cardinality(TestThreads) \in Nat \ {0} /\ TestThreads = 0..(Cardinality(TestThreads) - 1)
    /\ PerProducer \in Nat \ {0} /\ Bulk \in Nat \ {0} /\ 0 \in TestThreads
<1>1. Cardinality(TestThreads) \in Nat BY TestConstants, FS_CardinalityType
<1> QED BY <1>1, TestConstants
LEMMA TimesLess ==
    ASSUME NEW a \in Nat, NEW b \in Nat, a < b, NEW p \in Nat
    PROVE  a * p + p <= b * p
<1>1. (b - a - 1) \in Nat OBVIOUS
<1>2. (b - a - 1) * p >= 0 BY <1>1
<1>3. (b - a - 1) * p = b * p - a * p - p OBVIOUS
<1>4. a * p \in Int /\ b * p \in Int OBVIOUS
<1> QED BY <1>2, <1>3, <1>4
LEMMA ValueIn ==
    ASSUME NEW t \in TestThreads, NEW j \in 0..(PerProducer - 1)
    PROVE  Value(t, j) \in TestValues /\ Value(t, j) \in Nat
<1> DEFINE n == Cardinality(TestThreads)
<1>1. n \in Nat /\ t \in Nat /\ t < n /\ PerProducer \in Nat BY Threads
<1>2. t * PerProducer + PerProducer <= n * PerProducer BY <1>1, TimesLess
<1>3. t * PerProducer \in Nat /\ n * PerProducer \in Nat /\ n * PerProducer = PerProducer * n BY <1>1
<1> QED BY <1>1, <1>2, <1>3 DEF Value, TestValues
LEMMA ValueOnce ==
    ASSUME NEW t \in TestThreads, NEW j \in 0..(PerProducer - 1),
           NEW s \in TestThreads, NEW k \in 0..(PerProducer - 1), Value(t, j) = Value(s, k)
    PROVE  t = s /\ j = k
<1>1. t \in Nat /\ s \in Nat /\ PerProducer \in Nat BY Threads
<1>2. t * PerProducer \in Int /\ s * PerProducer \in Int BY <1>1
<1>3. t * PerProducer + j = s * PerProducer + k BY DEF Value
<1>4. ~(t < s)
  <2>1. SUFFICES ASSUME t < s PROVE FALSE OBVIOUS
  <2>2. t * PerProducer + PerProducer <= s * PerProducer BY <1>1, <2>1, TimesLess
  <2> QED BY <2>2, <1>1, <1>2, <1>3
<1>5. ~(s < t)
  <2>1. SUFFICES ASSUME s < t PROVE FALSE OBVIOUS
  <2>2. s * PerProducer + PerProducer <= t * PerProducer BY <1>1, <2>1, TimesLess
  <2> QED BY <2>2, <1>1, <1>2, <1>3
<1>6. t = s BY <1>1, <1>4, <1>5
<1> QED BY <1>1, <1>2, <1>3, <1>6
LEMMA ValueAll ==
    ASSUME NEW v \in TestValues
    PROVE  \E t \in TestThreads : \E j \in 0..(PerProducer - 1) : v = Value(t, j)
<1> DEFINE n == Cardinality(TestThreads)
           p == PerProducer
           T == {t \in Nat : v < (t + 1) * p}
<1>1. n \in Nat \ {0} /\ p \in Nat \ {0} /\ v \in Nat /\ v < p * n /\ TestThreads = 0..(n - 1)
  <2>1. n \in Nat \ {0} /\ p \in Nat \ {0} /\ TestThreads = 0..(n - 1) BY Threads
  <2>2. p * n \in Nat BY <2>1
  <2> QED BY <2>1, <2>2 DEF TestValues
<1> HIDE DEF n, p
<1>2. (n - 1) \in T
  <2>1. (n - 1 + 1) = n /\ n * p = p * n /\ n - 1 \in Nat BY <1>1
  <2> QED BY <2>1, <1>1
<1>3. PICK t \in T : \A k \in T : t <= k BY <1>2, LeastNumber
<1>4. t \in Nat /\ t \in TestThreads BY <1>1, <1>2, <1>3
<1>5. t * p <= v
  <2>1. CASE t = 0 BY <2>1, <1>1
  <2>2. CASE t # 0
    <3>1. t - 1 \in Nat /\ t - 1 \notin T BY <2>2, <1>3, <1>4
    <3>2. ~(v < (t - 1 + 1) * p) BY <3>1
    <3>3. t - 1 + 1 = t /\ t * p \in Int BY <1>1, <1>4
    <3> QED BY <3>2, <3>3, <1>1
  <2> QED BY <2>1, <2>2
<1>6. v < t * p + p
  <2>1. (t + 1) * p = t * p + p BY <1>1, <1>4
  <2> QED BY <2>1, <1>3
<1>7. t * p \in Int /\ v - t * p \in 0..(p - 1) BY <1>1, <1>4, <1>5, <1>6
<1>8. v = Value(t, v - t * p) BY <1>1, <1>7 DEF Value, p
<1> QED BY <1>4, <1>7, <1>8 DEF p

(* Nothing has run yet. *)
LEMMA TestStarts == TestInit => TestInv
<1> SUFFICES ASSUME TestInit PROVE TestInv OBVIOUS
<1>0. \A t \in TestThreads : t_queue[t] = << >> /\ t_printed[t] = << >> /\ t_j[t] = 0 /\ t_pc[t] = "loop"
  BY DEF TestInit
<1>1. TestTypes BY EmptySeq DEF TestInit, TestTypes
<1>2. Apart BY DEF TestInit, Apart
<1>3. Printed BY <1>0 DEF Printed
<1>4. Numbered BY <1>0, Threads DEF Numbered, TestInit
<1>5. Valued
  <2>1. \A t \in TestThreads : Collected(t) = 0 BY <1>0 DEF Collected
  <2>2. \A t \in TestThreads : \A j \in 0..(PerProducer - 1) : t_dequeued[Value(t, j)] = 0
    BY ValueIn DEF TestInit
  <2>3. t_main = "join" BY DEF TestInit
  <2> QED BY <1>0, <2>1, <2>2, <2>3, Threads DEF Valued
<1> QED BY <1>1, <1>2, <1>3, <1>4, <1>5 DEF TestInv

(* What a step of one thread may change of the others. *)
LEMMA CountStep ==
    ASSUME TestInv, NEW t \in TestThreads, Increments(t) \/ Counted(t)
    PROVE  TestInv'
<1>t. TestTypes BY DEF TestInv
<1>1. CASE Increments(t)
  <2>1. /\ t_pc[t] = "loop" /\ t_count' = t_count + 1 /\ t_pc' = [t_pc EXCEPT ![t] = "load"]
        /\ t_program \in {"atomic_test", "producer_consumer"}
        /\ t_program = "producer_consumer" => t = 0
        /\ UNCHANGED <<t_program, t_j, t_item, t_queue, t_printed, t_dequeued, t_main>>
    BY <1>1 DEF Increments
  <2>2. TestTypes' BY <2>1, <1>t DEF TestTypes
  <2>3. Apart' BY <2>1, <1>t DEF TestInv, Apart, TestTypes
  <2>4. t_program = "atomic_test" => Printed'
    <3>1. SUFFICES ASSUME t_program = "atomic_test" PROVE Printed' OBVIOUS
    <3>2. Printed BY <3>1 DEF TestInv
    <3>3. \A s \in TestThreads : \A i \in 1..Len(t_printed[s]) : t_printed[s][i] \in Nat
      BY <1>t, ElementOfSeq DEF TestTypes
    <3> QED BY <2>1, <3>2, <3>3, <1>t, SMTT(30) DEF Printed, TestTypes
  <2>5. t_program = "producer_consumer" => Numbered'
    <3>1. SUFFICES ASSUME t_program = "producer_consumer" PROVE Numbered' OBVIOUS
    <3>2. Numbered BY <3>1 DEF TestInv
    <3>3. Len(t_printed[0]) \in Nat /\ Len(t_queue[0]) \in Nat BY <1>t, Threads, LenProperties DEF TestTypes
    <3>4. t = 0 /\ t_pc'[0] = "load" /\ \A s \in TestThreads : s # 0 => t_pc'[s] = t_pc[s]
      BY <3>1, <2>1, <1>t DEF TestTypes
    <3> QED BY <2>1, <3>2, <3>3, <3>4, <1>t DEF Numbered, TestTypes
  <2> QED BY <2>1, <2>2, <2>3, <2>4, <2>5 DEF TestInv
<1>2. CASE Counted(t)
  <2>1. /\ t_program = "atomic_test" /\ t_pc[t] = "load"
        /\ t_printed' = [t_printed EXCEPT ![t] = Append(t_printed[t], t_count)]
        /\ t_pc' = [t_pc EXCEPT ![t] = "loop"]
        /\ UNCHANGED <<t_program, t_count, t_j, t_item, t_queue, t_dequeued, t_main>>
    BY <1>2 DEF Counted
  <2>2. TestTypes'
    <3>1. Append(t_printed[t], t_count) \in Seq(Nat) BY <1>t, AppendProperties DEF TestTypes
    <3> QED BY <2>1, <3>1, <1>t DEF TestTypes
  <2>3. Apart' BY <2>1, <1>t DEF TestInv, Apart, TestTypes
  <2>4. Printed'
    <3>2. Printed BY <2>1 DEF TestInv
    <3>3. /\ t_printed[t] \in Seq(Nat) /\ t_count \in Nat /\ t_printed'[t] = Append(t_printed[t], t_count)
          /\ t_pc'[t] = "loop"
          /\ \A s \in TestThreads : s # t => t_printed'[s] = t_printed[s] /\ t_pc'[s] = t_pc[s]
      BY <2>1, <1>t DEF TestTypes
    <3> DEFINE p == t_printed[t]
               r == Append(p, t_count)
    <3>4. /\ Len(p) \in Nat /\ Len(r) = Len(p) + 1 /\ r[Len(p) + 1] = t_count
          /\ \A i \in 1..Len(p) : r[i] = p[i] /\ p[i] \in Nat
      BY <3>3, LenProperties, AppendProperties, ElementOfSeq
    <3>5. \A i \in 1..Len(p) : p[i] < t_count BY <3>2, <2>1 DEF Printed
    <3>6. \A i, k \in 1..Len(p) : i < k => p[i] < p[k] BY <3>2 DEF Printed
    <3> HIDE DEF p, r
    <3>7. \A i \in 1..Len(r) : r[i] <= t_count BY <3>3, <3>4, <3>5
    <3>8. ASSUME NEW i \in 1..Len(r), NEW k \in 1..Len(r), i < k PROVE r[i] < r[k]
      <4>1. i \in 1..Len(p) /\ r[i] = p[i] BY <3>4, <3>8
      <4>2. CASE k = Len(p) + 1 BY <4>1, <4>2, <3>4, <3>5
      <4>3. CASE k \in 1..Len(p) BY <4>1, <4>3, <3>4, <3>6, <3>8
      <4> QED BY <4>2, <4>3, <3>4
    <3>9. t_printed'[t] = r BY <3>3 DEF r, p
    <3>10. ASSUME NEW s \in TestThreads
           PROVE  /\ \A i \in 1..Len(t_printed'[s]) : /\ t_printed'[s][i] <= t_count'
                                                      /\ t_pc'[s] = "load" => t_printed'[s][i] < t_count'
                  /\ \A i, k \in 1..Len(t_printed'[s]) : i < k => t_printed'[s][i] < t_printed'[s][k]
      <4>1. CASE s = t BY <4>1, <3>3, <3>7, <3>8, <3>9, <2>1
      <4>2. CASE s # t BY <4>2, <3>2, <3>3, <2>1 DEF Printed
      <4> QED BY <4>1, <4>2
    <3> QED BY <3>10 DEF Printed
  <2> QED BY <2>1, <2>2, <2>3, <2>4 DEF TestInv
<1> QED BY <1>1, <1>2

LEMMA ItemStep ==
    ASSUME TestInv, NEW t \in TestThreads, ItemMade(t) \/ ItemEnqueued(t)
    PROVE  TestInv'
<1>t. TestTypes BY DEF TestInv
<1>p. t_program = "producer_consumer"
  BY DEF ItemMade, ItemEnqueued, TestInv, TestTypes, Apart
<1>n. Numbered BY <1>p DEF TestInv
<1>z. t = 0 BY <1>n DEF ItemMade, ItemEnqueued, Numbered
<1>l. /\ t_queue[0] \in Seq(Nat) /\ Len(t_printed[0]) \in Nat /\ Len(t_queue[0]) \in Nat /\ t_item[0] \in Nat
  BY <1>t, Threads, LenProperties DEF TestTypes
<1>m. PICK m \in Nat, k \in Nat : m = Len(t_printed[0]) /\ k = Len(t_queue[0]) BY <1>l
<1>1. CASE ItemMade(t)
  <2>1. /\ t_pc[t] = "load" /\ t_item' = [t_item EXCEPT ![t] = t_count] /\ t_pc' = [t_pc EXCEPT ![t] = "enqueue"]
        /\ UNCHANGED <<t_program, t_count, t_j, t_queue, t_printed, t_dequeued, t_main>>
    BY <1>1 DEF ItemMade
  <2>2. TestTypes' BY <2>1, <1>t DEF TestTypes
  <2>3. Apart' BY <2>1, <1>p DEF TestInv, Apart
  <2>4. /\ t_pc'[0] = "enqueue" /\ t_item'[0] = t_count /\ t_pc[0] = "load"
        /\ \A s \in TestThreads : s # 0 => t_pc'[s] = t_pc[s]
    BY <2>1, <1>t, <1>z DEF TestTypes
  <2>5. Numbered' BY <2>1, <2>4, <1>n DEF Numbered
  <2> QED BY <2>1, <2>2, <2>3, <2>5, <1>p DEF TestInv
<1>2. CASE ItemEnqueued(t)
  <2>1. /\ t_pc[t] = "enqueue" /\ t_queue' = [t_queue EXCEPT ![t] = Append(t_queue[t], t_item[t])]
        /\ t_pc' = [t_pc EXCEPT ![t] = "loop"]
        /\ UNCHANGED <<t_program, t_count, t_j, t_item, t_printed, t_dequeued, t_main>>
    BY <1>2 DEF ItemEnqueued
  <2>2. Append(t_queue[0], t_item[0]) \in Seq(Nat) BY <1>l, AppendProperties
  <2>3. TestTypes' BY <2>1, <2>2, <1>t, <1>z DEF TestTypes
  <2>4. Apart' BY <2>1, <1>p DEF TestInv, Apart
  <2>5. /\ t_pc'[0] = "loop" /\ t_pc[0] = "enqueue" /\ t_queue'[0] = Append(t_queue[0], t_item[0])
        /\ \A s \in TestThreads : s # 0 => t_pc'[s] = t_pc[s]
    BY <2>1, <1>t, <1>z DEF TestTypes
  <2>6. /\ Len(t_queue'[0]) = Len(t_queue[0]) + 1 /\ t_queue'[0][Len(t_queue[0]) + 1] = t_item[0]
        /\ \A i \in 1..Len(t_queue[0]) : t_queue'[0][i] = t_queue[0][i]
    BY <2>5, <1>l, AppendProperties
  <2>7. t_item[0] = t_count /\ t_count = Len(t_printed[0]) + Len(t_queue[0]) + 1
    BY <2>5, <1>n DEF Numbered
  <2>8. \A i \in 1..Len(t_queue'[0]) : t_queue'[0][i] = Len(t_printed[0]) + i
    <3>1. \A i \in 1..Len(t_queue[0]) : t_queue[0][i] = Len(t_printed[0]) + i BY <1>n DEF Numbered
    <3>2. ASSUME NEW i \in 1..(Len(t_queue[0]) + 1) PROVE t_queue'[0][i] = Len(t_printed[0]) + i
      <4>1. CASE i = Len(t_queue[0]) + 1
        <5>1. t_queue'[0][i] = t_count BY <4>1, <2>6, <2>7
        <5>2. t_count = m + k + 1 /\ i = k + 1 BY <4>1, <2>7, <1>m
        <5>3. t_count = m + i BY <5>2
        <5> QED BY <5>1, <5>3, <1>m
      <4>2. CASE i \in 1..Len(t_queue[0]) BY <4>2, <3>1, <2>6
      <4> QED BY <4>1, <4>2, <1>l
    <3> QED BY <3>2, <2>6
  <2>11. t_count' = t_count /\ t_printed' = t_printed BY <2>1
  <2>9. t_count' = Len(t_printed'[0]) + Len(t_queue'[0]) + 0
    <3>1. Len(t_queue'[0]) = Len(t_queue[0]) + 1 BY <2>6
    <3>2. Len(t_queue'[0]) = k + 1 /\ Len(t_printed'[0]) = m BY <3>1, <2>11, <1>m
    <3>3. t_count' = m + k + 1 BY <2>7, <2>11, <1>m
    <3>4. t_count' = m + (k + 1) + 0 BY <3>3
    <3> QED BY <3>2, <3>4
  <2>10. Numbered' BY <2>1, <2>5, <2>8, <2>9, <1>n DEF Numbered
  <2> QED BY <2>1, <2>3, <2>4, <2>10, <1>p DEF TestInv
<1> QED BY <1>1, <1>2

LEMMA BulkStep == ASSUME TestInv, BulkConsumed PROVE TestInv'
<1> DEFINE b == BulkSize
           q == t_queue[0]
           p == t_printed[0]
<1>t. TestTypes BY DEF TestInv
<1>1. /\ t_program = "producer_consumer"
      /\ t_printed' = [t_printed EXCEPT ![0] = p \o SubSeq(q, 1, b)]
      /\ t_queue' = [t_queue EXCEPT ![0] = SubSeq(q, b + 1, Len(q))]
      /\ UNCHANGED <<t_program, t_pc, t_count, t_j, t_item, t_dequeued, t_main>>
  BY DEF BulkConsumed
<1>2. q \in Seq(Nat) /\ p \in Seq(Nat) /\ Len(q) \in Nat /\ Len(p) \in Nat
  BY <1>t, Threads, LenProperties DEF TestTypes
<1>3. b \in Nat /\ b <= Len(q) BY <1>2, Threads DEF BulkSize
<1>n. Numbered BY <1>1 DEF TestInv
<1>4. /\ \A i \in 1..Len(p) : p[i] = i
      /\ \A i \in 1..Len(q) : q[i] = Len(p) + i
      /\ t_count = Len(p) + Len(q) + (IF t_pc[0] = "loop" THEN 0 ELSE 1)
  BY <1>n DEF Numbered
<1> HIDE DEF b, q, p
<1> DEFINE x == SubSeq(q, 1, b)
           r == SubSeq(q, b + 1, Len(q))
<1>5. x \in Seq(Nat) /\ Len(x) = b /\ \A i \in 1..b : x[i] = q[i]
  <2>1. \A i \in 1..b : q[i] \in Nat BY <1>2, <1>3, ElementOfSeq
  <2> QED BY <1>2, <1>3, <2>1, SubSeqProperties
<1>6. r \in Seq(Nat) /\ Len(r) = Len(q) - b /\ \A i \in 1..Len(q) - b : r[i] = q[b + i]
  <2>1. \A i \in b + 1..Len(q) : q[i] \in Nat BY <1>2, <1>3, ElementOfSeq
  <2> QED BY <1>2, <1>3, <2>1, SubSeqProperties
<1> HIDE DEF x, r
<1>7. /\ p \o x \in Seq(Nat) /\ Len(p \o x) = Len(p) + b
      /\ \A i \in 1..(Len(p) + b) : (p \o x)[i] = IF i <= Len(p) THEN p[i] ELSE x[i - Len(p)]
  BY <1>2, <1>5, ConcatProperties
<1>8. t_printed'[0] = p \o x /\ t_queue'[0] = r
  BY <1>1, <1>t, Threads DEF TestTypes, x, r
<1>9. \A i \in 1..Len(t_printed'[0]) : t_printed'[0][i] = i
  <2>1. ASSUME NEW i \in 1..(Len(p) + b) PROVE (p \o x)[i] = i
    <3>1. CASE i <= Len(p)
      <4>1. (p \o x)[i] = p[i] BY <3>1, <1>7
      <4>2. i \in 1..Len(p) BY <3>1, <1>2, <1>3
      <4> QED BY <4>1, <4>2, <1>4
    <3>2. CASE i > Len(p)
      <4>1. i - Len(p) \in 1..b BY <3>2, <1>2, <1>3
      <4>2. x[i - Len(p)] = q[i - Len(p)] BY <4>1, <1>5
      <4>3. q[i - Len(p)] = Len(p) + (i - Len(p)) BY <4>1, <1>2, <1>3, <1>4
      <4>4. (p \o x)[i] = x[i - Len(p)] BY <3>2, <1>2, <1>7
      <4>5. Len(p) + (i - Len(p)) = i BY <1>2, <1>3
      <4> QED BY <4>2, <4>3, <4>4, <4>5
    <3>3. i \in Int /\ Len(p) \in Int BY <1>2
    <3>4. i <= Len(p) \/ i > Len(p) BY <3>3
    <3> QED BY <3>1, <3>2, <3>4, Zenon
  <2> QED BY <2>1, <1>7, <1>8
<1>10. \A i \in 1..Len(t_queue'[0]) : t_queue'[0][i] = Len(t_printed'[0]) + i
  <2>1. Len(t_queue'[0]) = Len(q) - b /\ Len(t_printed'[0]) = Len(p) + b
    BY <1>6, <1>7, <1>8
  <2>2. ASSUME NEW i \in 1..(Len(q) - b) PROVE r[i] = (Len(p) + b) + i
    <3>1. b + i \in 1..Len(q) BY <1>2, <1>3
    <3>2. q[b + i] = Len(p) + (b + i) BY <3>1, <1>4
    <3>3. Len(p) + (b + i) = (Len(p) + b) + i BY <1>2, <1>3
    <3> QED BY <3>2, <3>3, <1>6
  <2> QED BY <2>1, <2>2, <1>8
<1>11. t_count' = Len(t_printed'[0]) + Len(t_queue'[0]) + (IF t_pc'[0] = "loop" THEN 0 ELSE 1)
  <2>1. Len(t_queue'[0]) = Len(q) - b /\ Len(t_printed'[0]) = Len(p) + b
    BY <1>6, <1>7, <1>8
  <2>2. t_count' = t_count /\ t_pc' = t_pc BY <1>1
  <2>3. Len(p) + b + (Len(q) - b) = Len(p) + Len(q) BY <1>2, <1>3
  <2> QED BY <2>1, <2>2, <2>3, <1>4
<1>12. Numbered' BY <1>1, <1>9, <1>10, <1>11, <1>n DEF Numbered
<1>13. TestTypes' BY <1>1, <1>6, <1>7, <1>t DEF TestTypes, x, r
<1>14. Apart' BY <1>1 DEF TestInv, Apart
<1> QED BY <1>1, <1>12, <1>13, <1>14 DEF TestInv

LEMMA ProduceStep == ASSUME TestInv, NEW t \in TestThreads, Produces(t) PROVE TestInv'
<1>t. TestTypes BY DEF TestInv
<1> DEFINE q == t_queue[t]
           v == Value(t, t_j[t])
<1>1. /\ t_program = "co_lock_free" /\ t_j[t] < PerProducer
      /\ t_queue' = [t_queue EXCEPT ![t] = Append(q, v)] /\ t_j' = [t_j EXCEPT ![t] = t_j[t] + 1]
      /\ UNCHANGED <<t_program, t_pc, t_count, t_item, t_printed, t_dequeued, t_main>>
  BY DEF Produces
<1>v. Valued BY <1>1 DEF TestInv
<1>2. t_j[t] \in Nat /\ q \in Seq(Nat) /\ Len(q) \in Nat /\ PerProducer \in Nat
  BY <1>t, LenProperties, Threads DEF TestTypes
<1>3. v \in Nat
  <2>1. t_j[t] \in 0..(PerProducer - 1) BY <1>1, <1>2
  <2> QED BY <2>1, ValueIn
<1> HIDE DEF v
<1>4. /\ Append(q, v) \in Seq(Nat) /\ Len(Append(q, v)) = Len(q) + 1 /\ Append(q, v)[Len(q) + 1] = v
      /\ \A i \in 1..Len(q) : Append(q, v)[i] = q[i]
  BY <1>2, <1>3, AppendProperties
<1>5. TestTypes' BY <1>1, <1>2, <1>4, <1>t DEF TestTypes
<1>6. Apart' BY <1>1 DEF TestInv, Apart
<1>7. /\ t_queue'[t] = Append(q, v) /\ t_j'[t] = t_j[t] + 1
      /\ \A s \in TestThreads : s # t => t_queue'[s] = t_queue[s] /\ t_j'[s] = t_j[s]
  BY <1>1, <1>t DEF TestTypes
<1>8. t_main = "join" BY <1>1, <1>2, <1>v, <1>t DEF Valued, TestTypes
<1>9. \A s \in TestThreads : Collected(s)' = Collected(s)
  <2>1. Collected(t)' = t_j'[t] - Len(t_queue'[t]) BY DEF Collected
  <2>2. t_j'[t] - Len(t_queue'[t]) = (t_j[t] + 1) - (Len(q) + 1) BY <1>4, <1>7
  <2>3. Collected(t)' = Collected(t) BY <2>1, <2>2, <1>2 DEF Collected
  <2>4. \A s \in TestThreads : s # t => Collected(s)' = Collected(s) BY <1>7 DEF Collected
  <2> QED BY <2>3, <2>4
<1>10. ASSUME NEW s \in TestThreads
       PROVE  /\ t_j'[s] <= PerProducer
              /\ \A i \in 1..Len(t_queue'[s]) : t_queue'[s][i] = Value(s, Collected(s) + i - 1)
  <2>1. CASE s # t BY <2>1, <1>7, <1>v DEF Valued
  <2>2. CASE s = t
    <3>1. t_j'[t] <= PerProducer BY <1>1, <1>2, <1>7
    <3>2. Collected(t) + (Len(q) + 1) - 1 = t_j[t] BY <1>2 DEF Collected
    <3>3. v = Value(t, Collected(t) + (Len(q) + 1) - 1) BY <3>2 DEF v
    <3>4. \A i \in 1..Len(q) : q[i] = Value(t, Collected(t) + i - 1) BY <1>v DEF Valued
    <3> HIDE DEF q
    <3>5. \A i \in 1..Len(Append(q, v)) : Append(q, v)[i] = Value(t, Collected(t) + i - 1)
      BY <3>3, <3>4, <1>2, <1>4
    <3> QED BY <2>2, <3>1, <3>5, <1>7
  <2> QED BY <2>1, <2>2
<1>11. Valued' BY <1>1, <1>8, <1>9, <1>10, <1>v DEF Valued
<1> QED BY <1>1, <1>5, <1>6, <1>11 DEF TestInv

LEMMA CollectStep == ASSUME TestInv, Collects PROVE TestInv'
<1>t. TestTypes BY DEF TestInv
<1>1. PICK t \in TestThreads :
        /\ t_queue[t] # << >>
        /\ t_dequeued' = [t_dequeued EXCEPT ![Head(t_queue[t])] = @ + 1]
        /\ t_queue' = [t_queue EXCEPT ![t] = Tail(@)]
  BY DEF Collects
<1>2. /\ t_main = "collect" /\ t_program = "co_lock_free"
      /\ UNCHANGED <<t_program, t_pc, t_count, t_j, t_item, t_printed, t_main>>
  BY DEF Collects, TestInv, Apart
<1>v. Valued BY <1>2 DEF TestInv
<1> DEFINE q == t_queue[t]
           k == Collected(t)
<1>3. /\ q \in Seq(Nat) /\ q # << >> /\ Len(q) \in Nat \ {0} /\ Head(q) = q[1] /\ Tail(q) \in Seq(Nat)
      /\ Len(Tail(q)) = Len(q) - 1 /\ \A i \in 1..(Len(q) - 1) : Tail(q)[i] = q[i + 1]
  BY <1>1, <1>t, EmptySeq, LenProperties, HeadTailProperties DEF TestTypes
<1>4. t_j[t] = PerProducer /\ PerProducer \in Nat \ {0} BY <1>2, <1>v, Threads DEF Valued
<1>5. k \in 0..(PerProducer - 1) /\ q[1] = Value(t, k)
  <2>1. k \in Nat /\ k < PerProducer BY <1>3, <1>4, <1>v DEF Collected, Valued
  <2>2. 1 \in 1..Len(q) /\ k + 1 - 1 = k BY <1>3, <2>1
  <2>3. q[1] = Value(t, k + 1 - 1) BY <2>2, <1>v DEF Valued
  <2> QED BY <2>1, <2>2, <2>3, <1>4
<1>6. Value(t, k) \in TestValues BY <1>5, ValueIn
<1>7. /\ t_queue'[t] = Tail(q) /\ \A s \in TestThreads : s # t => t_queue'[s] = t_queue[s]
      /\ \A v \in TestValues : t_dequeued'[v] = IF v = Value(t, k) THEN t_dequeued[v] + 1 ELSE t_dequeued[v]
  BY <1>1, <1>3, <1>5, <1>t DEF TestTypes
<1>8. TestTypes' BY <1>1, <1>2, <1>3, <1>5, <1>6, <1>t DEF TestTypes
<1>9. Apart' BY <1>2 DEF TestInv, Apart
<1>10. /\ Collected(t)' = k + 1
       /\ \A s \in TestThreads : s # t => Collected(s)' = Collected(s)
  BY <1>2, <1>3, <1>4, <1>7 DEF Collected
<1> HIDE DEF q, k
<1>11. ASSUME NEW s \in TestThreads
       PROVE  /\ Collected(s)' >= 0
              /\ \A i \in 1..Len(t_queue'[s]) : t_queue'[s][i] = Value(s, Collected(s)' + i - 1)
  <2>1. CASE s # t BY <2>1, <1>7, <1>10, <1>v DEF Valued
  <2>2. CASE s = t
    <3>1. \A i \in 1..Len(q) : q[i] = Value(t, k + i - 1) BY <1>v DEF Valued, q, k
    <3>2. \A i \in 1..(Len(q) - 1) : Tail(q)[i] = Value(t, k + (i + 1) - 1) BY <3>1, <1>3
    <3>3. \A i \in 1..(Len(q) - 1) : k + (i + 1) - 1 = (k + 1) + i - 1 BY <1>3, <1>5
    <3>4. \A i \in 1..(Len(q) - 1) : Tail(q)[i] = Value(t, (k + 1) + i - 1) BY <3>2, <3>3
    <3> QED BY <2>2, <3>4, <1>3, <1>5, <1>7, <1>10
  <2> QED BY <2>1, <2>2
<1>12. ASSUME NEW s \in TestThreads, NEW j \in 0..(PerProducer - 1)
       PROVE  t_dequeued'[Value(s, j)] = IF j < Collected(s)' THEN 1 ELSE 0
  <2>1. Value(s, j) \in TestValues BY ValueIn
  <2>2. t_dequeued[Value(s, j)] = IF j < Collected(s) THEN 1 ELSE 0 BY <1>v DEF Valued
  <2>3. CASE s = t /\ j = k BY <2>1, <2>2, <2>3, <1>5, <1>7, <1>10 DEF k
  <2>4. CASE ~(s = t /\ j = k)
    <3>1. Value(s, j) # Value(t, k) BY <2>4, <1>5, ValueOnce
    <3>2. t_dequeued'[Value(s, j)] = t_dequeued[Value(s, j)] BY <3>1, <2>1, <1>7
    <3>3. CASE s # t BY <3>2, <3>3, <2>2, <1>10
    <3>4. CASE s = t /\ j # k
      <4>1. (j < k) <=> (j < k + 1) BY <3>4, <1>5, <1>4
      <4> QED BY <3>2, <3>4, <4>1, <2>2, <1>10 DEF k
    <3> QED BY <2>4, <3>3, <3>4
  <2> QED BY <2>3, <2>4
<1>13. Valued' BY <1>2, <1>11, <1>12, <1>v DEF Valued
<1> QED BY <1>2, <1>8, <1>9, <1>13 DEF TestInv

LEMMA TestStep == TestInv /\ [TestNext]_t_vars => TestInv'
<1> SUFFICES ASSUME TestInv, [TestNext]_t_vars PROVE TestInv'
  OBVIOUS
<1>t. TestTypes BY DEF TestInv
<1>1. CASE TestExcutes
  <2>1. /\ t_program = "none" /\ t_program' \in {"atomic_test", "co_lock_free", "producer_consumer"}
        /\ UNCHANGED <<t_pc, t_count, t_j, t_item, t_queue, t_printed, t_dequeued, t_main>>
    BY <1>1 DEF TestExcutes
  <2>2. TestTypes' BY <2>1, <1>t DEF TestTypes
  <2>3. Apart' BY <2>1, <1>t DEF TestInv, Apart, TestTypes
  <2>4. Printed' BY <2>1 DEF TestInv, Printed
  <2>5. Numbered' BY <2>1 DEF TestInv, Numbered
  <2>6. Valued' BY <2>1 DEF TestInv, Valued, Collected
  <2> QED BY <2>2, <2>3, <2>4, <2>5, <2>6 DEF TestInv
<1>2. CASE \E t \in TestThreads : Increments(t) \/ Counted(t) BY <1>2, CountStep
<1>3. CASE \E t \in TestThreads : ItemMade(t) \/ ItemEnqueued(t) BY <1>3, ItemStep
<1>4. CASE \E t \in TestThreads : Produces(t) BY <1>4, ProduceStep
<1>5. CASE BulkConsumed BY <1>5, BulkStep
<1>6. CASE Collects BY <1>6, CollectStep
<1>7. CASE Joins \/ NothingLeft
  <2>1. /\ t_program = "co_lock_free" /\ t_main' \in {"collect", "check"}
        /\ t_main' = "check" => \A t \in TestThreads : t_queue[t] = << >>
        /\ \A t \in TestThreads : t_j[t] = PerProducer
        /\ UNCHANGED <<t_program, t_pc, t_count, t_j, t_item, t_queue, t_printed, t_dequeued>>
    BY <1>7 DEF Joins, NothingLeft, TestInv, Apart, Valued
  <2>2. TestTypes' BY <2>1, <1>t DEF TestTypes
  <2>3. Apart' BY <2>1 DEF TestInv, Apart
  <2>4. Valued' BY <2>1 DEF TestInv, Valued, Collected
  <2> QED BY <2>1, <2>2, <2>3, <2>4 DEF TestInv
<1>8. CASE UNCHANGED t_vars
  BY <1>8 DEF t_vars, TestInv, TestTypes, Apart, Printed, Numbered, Valued, Collected
<1> QED BY <1>1, <1>2, <1>3, <1>4, <1>5, <1>6, <1>7, <1>8 DEF TestNext

(* t_lockfree.cpp: a thread never prints the same count twice, the consumer   *)
(* gets the items numbered without a gap, and the assertions of co_lock_free  *)
(* hold.                                                                      *)
THEOREM TestsRightHolds == TestSpec => []TestsRight
<1>1. TestInv => TestsRight
  <2> SUFFICES ASSUME TestInv PROVE TestsRight OBVIOUS
  <2>1. \A t \in TestThreads : /\ t_printed[t] \in Seq(Nat) /\ DOMAIN t_printed[t] = 1..Len(t_printed[t])
                               /\ t_queue[t] \in Seq(Nat) /\ Len(t_queue[t]) \in Nat /\ Len(t_printed[t]) \in Nat
    BY LenProperties DEF TestInv, TestTypes
  <2>2. t_program = "atomic_test" =>
          \A t \in TestThreads : \A i, k \in DOMAIN t_printed[t] : i < k => t_printed[t][i] < t_printed[t][k]
    BY <2>1 DEF TestInv, Printed
  <2>3. ASSUME t_program = "producer_consumer"
        PROVE  \A i \in DOMAIN (t_printed[0] \o t_queue[0]) : (t_printed[0] \o t_queue[0])[i] = i
    <3> DEFINE p == t_printed[0]
               q == t_queue[0]
    <3>1. /\ p \in Seq(Nat) /\ q \in Seq(Nat) /\ Len(p) \in Nat /\ Len(q) \in Nat BY <2>1, Threads
    <3>2. /\ \A i \in 1..Len(p) : p[i] = i
          /\ \A i \in 1..Len(q) : q[i] = Len(p) + i
      BY <2>3 DEF TestInv, Numbered
    <3> HIDE DEF p, q
    <3>3. /\ p \o q \in Seq(Nat) /\ Len(p \o q) = Len(p) + Len(q)
          /\ \A i \in 1..(Len(p) + Len(q)) : (p \o q)[i] = IF i <= Len(p) THEN p[i] ELSE q[i - Len(p)]
      BY <3>1, ConcatProperties
    <3>4. DOMAIN (p \o q) = 1..(Len(p) + Len(q)) BY <3>3, LenProperties
    <3>5. ASSUME NEW i \in 1..(Len(p) + Len(q)) PROVE (p \o q)[i] = i
      <4>1. CASE i <= Len(p) BY <4>1, <3>1, <3>2, <3>3
      <4>2. CASE i > Len(p)
        <5>1. i - Len(p) \in 1..Len(q) BY <4>2, <3>1
        <5>2. q[i - Len(p)] = Len(p) + (i - Len(p)) BY <5>1, <3>2
        <5> QED BY <4>2, <5>2, <3>1, <3>3
      <4> QED BY <4>1, <4>2, <3>1
    <3> QED BY <3>4, <3>5 DEF p, q
  <2>4. ASSUME t_main = "check", NEW v \in TestValues PROVE t_dequeued[v] = 1
    <3>1. PICK t \in TestThreads : \E j \in 0..(PerProducer - 1) : v = Value(t, j) BY ValueAll
    <3>2. PICK j \in 0..(PerProducer - 1) : v = Value(t, j) BY <3>1
    <3>3. Valued BY <2>4 DEF TestInv, Apart
    <3>4. t_j[t] = PerProducer /\ t_queue[t] = << >> BY <2>4, <3>3 DEF Valued
    <3>5. Collected(t) = PerProducer BY <3>4, Threads DEF Collected
    <3> QED BY <3>2, <3>3, <3>5, Threads DEF Valued
  <2> QED BY <2>2, <2>3, <2>4 DEF TestsRight
<1> QED BY <1>1, TestStarts, TestStep, PTL DEF TestSpec

==============================================================================
