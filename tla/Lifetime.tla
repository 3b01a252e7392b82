------------------------------ MODULE Lifetime ------------------------------
(* Who keeps a server_base, its tcp_listener and its sessions alive, and on *)
(* which thread the server is destroyed (src/engine/net).  The application  *)
(* has one thread, the context_pool one io thread.  A handler holds its     *)
(* session from the moment it is pending until it has returned; a session   *)
(* and a listener hold the server (data_handler_); sessions_, acceptors_    *)
(* and the packets of msg_queue_ hold them while the server lives.          *)
(* ~server_base stops the contexts and joins their threads: on the io       *)
(* thread that ends the program.  Writes are left out: their handlers hold  *)
(* the session as those of reads do.                                        *)
EXTENDS Integers, Sequences, SequencesExt

CONSTANTS MaxSessions,  \* bound: sessions made
          MaxPackets,   \* bound: packets in msg_queue_
          MaxCloses     \* bound: handlers of close() waiting for one session

ASSUME LifetimeConstants == {MaxSessions, MaxPackets, MaxCloses} \subseteq Nat

LifeSid == 1..MaxSessions
NoOne == 0

VARIABLES l_server,    \* "alive", "gone" (on the application's thread), "terminated" (on the io thread)
          l_app,       \* the application holds the server
          l_listener,  \* "none", "listening", "closed", "destroyed"
          l_accept,    \* the session given to async_accept
          l_made,      \* sessions made
          l_socket,    \* of each session: "new", "open", "closed"
          l_sessions,  \* sessions_
          l_queue,     \* msg_queue_: [sid, msgid]
          l_reading,   \* sessions with a read outstanding, or its handler
          l_closes,    \* of each session: handlers of close() waiting
          l_running,   \* the session of the handler the io thread is in
          l_kept,      \* sessions the application holds
          l_told       \* history: packets update() dispatched
l_owners == <<l_app, l_kept>>
l_listening == <<l_listener, l_accept>>
l_vars == <<l_server, l_owners, l_listening, l_made, l_socket, l_sessions, l_queue, l_reading,
            l_closes, l_running, l_told>>

LifeInit == /\ l_server = "alive" /\ l_app = TRUE /\ l_listener = "none" /\ l_accept = NoOne
            /\ l_made = 0 /\ l_socket = [s \in LifeSid |-> "new"] /\ l_sessions = {}
            /\ l_queue = << >> /\ l_reading = {} /\ l_closes = [s \in LifeSid |-> 0]
            /\ l_running = NoOne /\ l_kept = {} /\ l_told = {}

(* listen() puts the listener into acceptors_; without that it goes when listen() returns. *)
NotPushed == "destroyed"
Pushed    == "listening"
AfterListen == Pushed

(* A session holds the server as its data_handler_ while anything holds the session. *)
SessionHeld(s) == \/ s \in l_sessions \cup l_reading \cup l_kept \cup {l_accept, l_running}
                  \/ l_closes[s] > 0
                  \/ \E i \in DOMAIN l_queue : l_queue[i].sid = s
ServerHeld == l_app \/ l_listener \in {"listening", "closed"} \/ \E s \in LifeSid : SessionHeld(s)

(* At the end of every action: the server goes with its last reference. *)
OnThread(end) == l_server' = IF ServerHeld' THEN "alive" ELSE end

Packet_(s, msgid) == [sid |-> s, msgid |-> msgid]
Alive == l_server = "alive"
NewOne(s) == l_made < MaxSessions /\ s = l_made + 1 /\ l_made' = s
Queue_(s, msgid) == Len(l_queue) < MaxPackets /\ l_queue' = Append(l_queue, Packet_(s, msgid))

-----------------------------------------------------------------------------
(* The application's thread. *)
AppCalls == Alive /\ l_app

(* listen(): a failure of the resolver, of open, bind or listen leaves nothing behind. *)
LifeListen == /\ AppCalls /\ l_listener = "none"
              /\ l_listener' = AfterListen
              /\ \E s \in LifeSid : NewOne(s) /\ l_accept' = s
              /\ UNCHANGED <<l_owners, l_socket, l_sessions, l_queue, l_reading, l_closes, l_running, l_told>>
              /\ OnThread("gone")

(* connect(): on success start() registers the session, reports it and reads. *)
LifeConnect == /\ AppCalls
               /\ \E s \in LifeSid : /\ NewOne(s) /\ Queue_(s, "connected")
                                     /\ l_socket' = [l_socket EXCEPT ![s] = "open"]
                                     /\ l_sessions' = l_sessions \cup {s} /\ l_reading' = l_reading \cup {s}
               /\ UNCHANGED <<l_owners, l_listening, l_closes, l_running, l_told>>
               /\ OnThread("gone")
(* A failure posts close(), of a socket that the attempt has opened or, when the name does not resolve, has not. *)
LifeConnectFails == /\ AppCalls
                    /\ \E s \in LifeSid : /\ NewOne(s) /\ l_closes' = [l_closes EXCEPT ![s] = 1]
                                          /\ l_socket' \in {l_socket, [l_socket EXCEPT ![s] = "open"]}
                    /\ UNCHANGED <<l_owners, l_listening, l_sessions, l_queue, l_reading, l_running, l_told>>
                    /\ OnThread("gone")
(* update(): a packet is dispatched and dropped; the application may keep its session. *)
LifeUpdate == /\ AppCalls /\ l_queue # << >>
              /\ LET p == Head(l_queue) IN
                   /\ l_told' = l_told \cup {p}
                   /\ l_kept' \in {l_kept, l_kept \cup {p.sid}}
              /\ l_queue' = Tail(l_queue)
              /\ UNCHANGED <<l_app, l_listening, l_made, l_socket, l_sessions, l_reading, l_closes, l_running>>
              /\ OnThread("gone")
PostClose(s) == l_closes[s] < MaxCloses /\ l_closes' = [l_closes EXCEPT ![s] = @ + 1]
AppCloses(s) == /\ Alive /\ s \in l_kept /\ PostClose(s)
                /\ UNCHANGED <<l_owners, l_listening, l_made, l_socket, l_sessions, l_queue, l_reading, l_running, l_told>>
                /\ OnThread("gone")
AppForgets(s) == /\ Alive /\ s \in l_kept /\ l_kept' = l_kept \ {s}
                 /\ UNCHANGED <<l_app, l_listening, l_made, l_socket, l_sessions, l_queue, l_reading, l_closes, l_running, l_told>>
                 /\ OnThread("gone")
AppDrops == /\ AppCalls /\ l_app' = FALSE
            /\ UNCHANGED <<l_kept, l_listening, l_made, l_socket, l_sessions, l_queue, l_reading, l_closes, l_running, l_told>>
            /\ OnThread("gone")

-----------------------------------------------------------------------------
(* The io thread: a handler does its work, and holds its session until it returns. *)
Enters(s) == Alive /\ l_running = NoOne /\ l_running' = s
Returns == /\ Alive /\ l_running # NoOne /\ l_running' = NoOne
           /\ UNCHANGED <<l_owners, l_listening, l_made, l_socket, l_sessions, l_queue, l_reading, l_closes, l_told>>
           /\ OnThread("terminated")

(* accept_handler(): start(), and the next accept (none, at the bound); or an error, which closes the acceptor. *)
LifeAccepts == LET s == l_accept IN
               /\ s # NoOne /\ Enters(s) /\ Queue_(s, "connected")
               /\ l_socket' = [l_socket EXCEPT ![s] = "open"]
               /\ l_sessions' = l_sessions \cup {s} /\ l_reading' = l_reading \cup {s}
               /\ IF l_made < MaxSessions THEN l_made' = l_made + 1 /\ l_accept' = l_made'
                                          ELSE l_accept' = NoOne /\ UNCHANGED l_made
               /\ UNCHANGED <<l_owners, l_listener, l_closes, l_told>>
               /\ OnThread("terminated")
LifeAcceptFails == /\ l_accept # NoOne /\ Enters(l_accept)
                   /\ l_accept' = NoOne /\ l_listener' = "closed"
                   /\ UNCHANGED <<l_owners, l_made, l_socket, l_sessions, l_queue, l_reading, l_closes, l_told>>
                   /\ OnThread("terminated")
(* A read with a message goes on reading; on a closed socket the next read fails at once and posts close(). *)
LifeReads(s) == /\ s \in l_reading /\ Enters(s) /\ Queue_(s, "message")
                /\ IF l_socket[s] = "open" THEN UNCHANGED <<l_reading, l_closes>>
                                           ELSE l_reading' = l_reading \ {s} /\ PostClose(s)
                /\ UNCHANGED <<l_owners, l_listening, l_made, l_socket, l_sessions, l_told>>
                /\ OnThread("terminated")
(* After a parse error close() is posted, and the next read starts nevertheless. *)
LifeParseFails(s) == /\ s \in l_reading /\ l_socket[s] = "open" /\ Enters(s) /\ PostClose(s)
                     /\ UNCHANGED <<l_owners, l_listening, l_made, l_socket, l_sessions, l_queue, l_reading, l_told>>
                     /\ OnThread("terminated")
LifeReadFails(s) == /\ s \in l_reading /\ Enters(s) /\ PostClose(s)
                    /\ l_reading' = l_reading \ {s}
                    /\ UNCHANGED <<l_owners, l_listening, l_made, l_socket, l_sessions, l_queue, l_told>>
                    /\ OnThread("terminated")
(* The handler of close(): the first one on an open socket closes it and calls on_close. *)
LifeCloses(s) == /\ l_closes[s] > 0 /\ Enters(s)
                 /\ l_closes' = [l_closes EXCEPT ![s] = @ - 1]
                 /\ IF l_socket[s] = "open"
                    THEN /\ l_socket' = [l_socket EXCEPT ![s] = "closed"]
                         /\ l_sessions' = l_sessions \ {s} /\ Queue_(s, "closeed")
                    ELSE UNCHANGED <<l_socket, l_sessions, l_queue>>
                 /\ UNCHANGED <<l_owners, l_listening, l_made, l_reading, l_told>>
                 /\ OnThread("terminated")

LifeNext == \/ LifeListen \/ LifeConnect \/ LifeConnectFails \/ LifeUpdate \/ AppDrops \/ Returns
            \/ LifeAccepts \/ LifeAcceptFails
            \/ \E s \in LifeSid : AppCloses(s) \/ AppForgets(s) \/ LifeReads(s)
                                  \/ LifeParseFails(s) \/ LifeReadFails(s) \/ LifeCloses(s)

-----------------------------------------------------------------------------
(* An outstanding accept, whose handler is bound to the listener's address and   *)
(* holds nothing, finds the listener alive; and the server goes, on whatever     *)
(* thread, only when it has never listened and the application was told of the   *)
(* end of every session that was open.                                           *)
OwnersOutlive ==
  /\ l_accept # NoOne => l_server = "alive" /\ l_listener = "listening"
  /\ l_server # "alive" =>
       /\ l_listener = "none"
       /\ \A s \in LifeSid : l_socket[s] # "new" => l_socket[s] = "closed" /\ Packet_(s, "closeed") \in l_told
=============================================================================
