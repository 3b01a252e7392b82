------------------------------- MODULE NetServer -------------------------------
(***************************************************************************)
(* server_base (engine/net/server_base.cpp) with a tcp_listener             *)
(* (engine/net/tcp_listener.h) and the sessions both open: who calls        *)
(* on_connect, on_message and on_close on which thread, the map sessions_,  *)
(* and the queue msg_queue_ from those threads to the thread that calls     *)
(* update().                                                                *)
(*                                                                          *)
(* The io threads are 0..(Contexts - 1), one per context of the pool; Main  *)
(* is the application's thread.  context_pool::next() may return any        *)
(* context: its counter is incremented without protection by Main and by    *)
(* thread 0.  A session's reads and its close run on the io thread it was   *)
(* created on; its insides are in TcpSession.                               *)
(*                                                                          *)
(* msg_queue_ is a moodycamel::ConcurrentQueue (external): a FIFO for each  *)
(* thread that enqueues, and a consumer that may take the head of any.      *)
(***************************************************************************)
EXTENDS Integers, Sequences, SequencesExt

CONSTANTS
    Contexts,      \* number of io threads
    MaxSessions,   \* bound: sessions created
    Reads          \* bound: messages each session is handed

ASSUME ConstantsAssumption ==
    Contexts \in Nat \ {0} /\ MaxSessions \in Nat /\ Reads \in [1..MaxSessions -> Nat]

Main     == Contexts
IoThread == 0..(Contexts - 1)
Thread   == 0..Contexts
Sid      == 1..MaxSessions      \* session ids, in the order they are made
NoSid    == 0

VARIABLES
    listener,      \* "new", "listening" or "closed": its acceptor_
    accepting,     \* the session given to async_accept, or NoSid
    clients,       \* peers that want to connect to the listener
    last_id,       \* ids id_generate_ has made
    home,          \* the io thread of each session
    socket,        \* of each session: "new", "open", "close_posted", "closed"
    reading,       \* of each session: a read is outstanding, or its handler
    parsing,       \* the sessions inside recv_and_decode()
    reads,         \* of each session: messages handed over
    before,        \* history, of each session: reads when its last read began
    todo, cur,     \* of each thread: what is left of a callback, on whom
    accepted,      \* history: the sessions accept_handler started
    spin_lock_,    \* who holds it: {} or {thread}
    seen,          \* of each thread: sessions_ as it found it
    sessions_,
    msg_queue_,    \* of each thread: the packets it enqueued
    dispatched     \* history, of each session: the packets given to dispatcher_

acceptor == <<listener, accepting, clients, accepted>>
created  == <<last_id, home>>
received == <<parsing, reads, before>>
session  == <<socket, reading, received>>
threads  == <<todo, cur>>
registry == <<spin_lock_, seen, sessions_>>
queue    == <<msg_queue_, dispatched>>
vars     == <<acceptor, created, session, threads, registry, queue>>

(* What msg_queue_ carries; n, a history, is the number of the message, or  *)
(* of "closeed" the number of messages handed over before.                  *)
Packet(s, msgid, n) == [sid |-> s, msgid |-> msgid, n |-> n]

Init ==
    /\ listener = "new" /\ accepting = NoSid /\ clients = 0 /\ accepted = {}
    /\ last_id = 0 /\ home = [s \in Sid |-> 0]
    /\ socket = [s \in Sid |-> "new"] /\ reading = [s \in Sid |-> FALSE]
    /\ parsing = {} /\ reads = [s \in Sid |-> 0] /\ before = [s \in Sid |-> 0]
    /\ todo = [t \in Thread |-> <<>>] /\ cur = [t \in Thread |-> NoSid]
    /\ spin_lock_ = {} /\ seen = [t \in Thread |-> {}] /\ sessions_ = {}
    /\ msg_queue_ = [t \in Thread |-> <<>>] /\ dispatched = [s \in Sid |-> <<>>]

-----------------------------------------------------------------------------
(* What the callbacks consist of, with the faults the mutants use.          *)

OnConnect == <<"lock", "insert", "enqueue_connected">>

Start == OnConnect \o <<"do_recv">>

AcceptOnce    == Start
AcceptHandler == Start \o <<"do_accept">>

OnClose == <<"lock", "erase", "enqueue_closeed">>

LockIgnored == TRUE
Unlocked    == spin_lock_ = {}

(* The thread that runs the handlers of a session's reads: its context's.   *)
AcceptThread(s) == 0
Reader(s)       == home[s]

(* The contexts context_pool::next() returns. *)
Indexes == IoThread

(* Between two handlers: no callback of this module to finish, and (on an   *)
(* io thread) no read to parse.                                             *)
Idle(t) == todo[t] = <<>>
Free(t) == Idle(t) /\ \A s \in parsing : Reader(s) # t

Calls(t, s, steps) ==
    todo' = [todo EXCEPT ![t] = steps] /\ cur' = [cur EXCEPT ![t] = s]

(* Thread t goes on to the next step of its callback. *)
Does(t, step) ==
    /\ ~Idle(t) /\ Head(todo[t]) = step
    /\ todo' = [todo EXCEPT ![t] = Tail(@)]
    /\ cur' = [cur EXCEPT ![t] = IF Len(todo[t]) = 1 THEN NoSid ELSE @]

Enqueue(t, packet) ==
    /\ msg_queue_' = [msg_queue_ EXCEPT ![t] = Append(@, packet)]
    /\ UNCHANGED dispatched

(* A new session: an id, and a context of the pool. *)
NewSession(s) ==
    /\ last_id < MaxSessions
    /\ s = last_id + 1 /\ last_id' = s
    /\ \E c \in Indexes : home' = [home EXCEPT ![s] = c]

-----------------------------------------------------------------------------
(* The listener: listen() on Main and, after each accept, do_accept() on    *)
(* thread 0.                                                                *)

(* listen() succeeds (when it fails the acceptor is as before, or closed,   *)
(* and the program has no listener), and goes on to do_accept().            *)
Listen ==
    /\ listener = "new" /\ Idle(Main)
    /\ listener' = "listening"
    /\ Calls(Main, NoSid, <<"do_accept">>)
    /\ UNCHANGED <<accepting, clients, accepted, created, session, registry, queue>>

(* A new session waits for the next connection (none, at the bound).        *)
DoAccept(t) ==
    /\ Does(t, "do_accept")
    /\ IF last_id = MaxSessions
       THEN UNCHANGED <<created, accepting>>
       ELSE \E s \in Sid : NewSession(s) /\ accepting' = s
    /\ UNCHANGED <<listener, clients, accepted, session, registry, queue>>

(* accept_handler with a connection. *)
Accepted ==
    /\ accepting # NoSid /\ clients > 0 /\ Free(0) /\ listener = "listening"
    /\ clients' = clients - 1 /\ accepting' = NoSid
    /\ accepted' = accepted \cup {accepting}
    /\ socket' = [socket EXCEPT ![accepting] = "open"]
    /\ Calls(0, accepting, AcceptHandler)
    /\ UNCHANGED <<listener, created, reading, received, registry, queue>>

(* accept_handler with an error: the listener closes, for good. *)
AcceptFails ==
    /\ accepting # NoSid /\ Free(0) /\ listener = "listening"
    /\ listener' = "closed" /\ accepting' = NoSid
    /\ UNCHANGED <<clients, accepted, created, session, threads, registry, queue>>

-----------------------------------------------------------------------------
(* server_base::connect() on Main: the connection is made, or the address   *)
(* does not resolve, or connecting fails and a close of the open socket is  *)
(* posted.                                                                  *)
Connect ==
    /\ Idle(Main)
    /\ \E s \in Sid :
        /\ NewSession(s)
        /\ \/ /\ socket' = [socket EXCEPT ![s] = "open"]
              /\ Calls(Main, s, Start)
           \/ UNCHANGED <<socket, threads>>
           \/ socket' = [socket EXCEPT ![s] = "close_posted"] /\ UNCHANGED threads
    /\ UNCHANGED <<acceptor, reading, received, registry, queue>>

-----------------------------------------------------------------------------
(* on_connect and on_close.                                                 *)

Lock(t) ==
    /\ Does(t, "lock") /\ Unlocked
    /\ spin_lock_' = {t} /\ seen' = [seen EXCEPT ![t] = sessions_]
    /\ UNCHANGED <<acceptor, created, session, sessions_, queue>>

LeftLocked(t) == spin_lock_' = spin_lock_ /\ seen' = [seen EXCEPT ![t] = {}]
Unlock(t)     == spin_lock_' = {} /\ seen' = [seen EXCEPT ![t] = {}]

Insert(t) ==
    /\ Does(t, "insert")
    /\ sessions_' = seen[t] \cup {cur[t]} /\ Unlock(t)
    /\ UNCHANGED <<acceptor, created, session, queue>>

Erase(t) ==
    /\ Does(t, "erase")
    /\ sessions_' = seen[t] \ {cur[t]} /\ Unlock(t)
    /\ UNCHANGED <<acceptor, created, session, queue>>

EnqueueConnected(t) ==
    /\ Does(t, "enqueue_connected")
    /\ Enqueue(t, Packet(cur[t], "connected", 0))
    /\ UNCHANGED <<acceptor, created, session, registry>>

EnqueueCloseed(t) ==
    /\ Does(t, "enqueue_closeed")
    /\ Enqueue(t, Packet(cur[t], "closeed", reads[cur[t]]))
    /\ UNCHANGED <<acceptor, created, session, registry>>

(* start() is back from on_connect and begins to read. *)
DoRecv(t) ==
    /\ Does(t, "do_recv")
    /\ reading' = [reading EXCEPT ![cur[t]] = TRUE]
    /\ UNCHANGED <<acceptor, created, socket, received, registry, queue>>

Callback(t) ==
    \/ Lock(t) \/ Insert(t) \/ Erase(t) \/ EnqueueConnected(t) \/ EnqueueCloseed(t)
    \/ DoRecv(t) \/ DoAccept(t)

-----------------------------------------------------------------------------
(* The handlers of a session, on its io thread.                             *)

(* A read has bytes that complete a message (one that completes none leaves *)
(* no trace here), and the parser runs.                                     *)
Read(s) ==
    /\ reading[s] /\ s \notin parsing /\ Free(Reader(s)) /\ reads[s] < Reads[s]
    /\ parsing' = parsing \cup {s} /\ before' = [before EXCEPT ![s] = reads[s]]
    /\ UNCHANGED <<acceptor, created, socket, reading, reads, threads, registry, queue>>

(* The parser hands over the next whole frame of what it was given.         *)
OnMessage(s) ==
    /\ s \in parsing /\ reads[s] < Reads[s]
    /\ reads' = [reads EXCEPT ![s] = @ + 1]
    /\ Enqueue(Reader(s), Packet(s, "message", reads[s] + 1))
    /\ UNCHANGED <<acceptor, created, socket, reading, parsing, before, threads, registry>>

(* It has handed over the last one, and found an error in what follows or   *)
(* not.  Once the socket is closed there is no next read.                   *)
Decoded(s) ==
    /\ s \in parsing /\ reads[s] > before[s]
    /\ parsing' = parsing \ {s}
    /\ reading' = [reading EXCEPT ![s] = socket[s] # "closed"]
    /\ \/ UNCHANGED socket
       \/ socket[s] = "open" /\ socket' = [socket EXCEPT ![s] = "close_posted"]
    /\ UNCHANGED <<acceptor, created, reads, before, threads, registry, queue>>

(* The read fails: the peer is gone, or close() has aborted it. *)
ReadFails(s) ==
    /\ reading[s] /\ Free(Reader(s))
    /\ reading' = [reading EXCEPT ![s] = FALSE]
    /\ socket' = [socket EXCEPT ![s] = IF @ = "open" THEN "close_posted" ELSE @]
    /\ UNCHANGED <<acceptor, created, received, threads, registry, queue>>

(* A write fails. *)
WriteFails(s) ==
    /\ socket[s] = "open" /\ reading[s] /\ Free(home[s])
    /\ socket' = [socket EXCEPT ![s] = "close_posted"]
    /\ UNCHANGED <<acceptor, created, reading, received, threads, registry, queue>>

(* The handler that close() posted. *)
RunClose(s) ==
    /\ socket[s] = "close_posted" /\ Free(home[s])
    /\ socket' = [socket EXCEPT ![s] = "closed"]
    /\ Calls(home[s], s, OnClose)
    /\ UNCHANGED <<acceptor, created, reading, received, registry, queue>>

(* update() on Main dispatches the first packet of one of the threads. *)
Update(t) ==
    /\ Idle(Main) /\ msg_queue_[t] # <<>>
    /\ LET packet == Head(msg_queue_[t])
       IN  dispatched' = [dispatched EXCEPT ![packet.sid] = Append(@, packet)]
    /\ msg_queue_' = [msg_queue_ EXCEPT ![t] = Tail(@)]
    /\ UNCHANGED <<acceptor, created, session, threads, registry>>

(* A peer asks for a connection. *)
ClientComes ==
    /\ listener = "listening" /\ clients + last_id < MaxSessions
    /\ clients' = clients + 1
    /\ UNCHANGED <<listener, accepting, accepted, created, session, threads, registry, queue>>

Next ==
    \/ Listen \/ Accepted \/ AcceptFails \/ Connect \/ ClientComes
    \/ \E t \in Thread : Callback(t) \/ Update(t)
    \/ \E s \in Sid : \/ Read(s) \/ OnMessage(s) \/ Decoded(s)
                      \/ ReadFails(s) \/ WriteFails(s) \/ RunClose(s)

(* Threads inside a callback or the parser go on; the application calls     *)
(* update() over and over; posted handlers run, and a closed socket's read  *)
(* is aborted.                                                              *)
Fairness ==
    /\ \A t \in Thread : WF_vars(Callback(t)) /\ WF_vars(Update(t))
    /\ \A s \in Sid : WF_vars(OnMessage(s) \/ Decoded(s))
    /\ \A s \in Sid : WF_vars(RunClose(s)) /\ WF_vars(socket[s] = "closed" /\ ReadFails(s))
    /\ WF_vars(Accepted)

Safety == Init /\ [][Next]_vars
Spec   == Safety /\ Fairness

-----------------------------------------------------------------------------
(* Properties.                                                              *)

(* Where a packet was dispatched, if it was. *)
At(s, msgid) == {i \in DOMAIN dispatched[s] : dispatched[s][i].msgid = msgid}

(* Some thread still has this step to do for session s. *)
Pending(s, step) == \E t \in Thread : cur[t] = s /\ Contains(todo[t], step)

(* sessions_ holds the sessions that are up and no other: no insert is lost *)
(* or undone by a concurrent one, and none comes after its erase.  When the *)
(* application is told of an end, the server has the session no more, and   *)
(* when it is told that one is connected, the server has it, unless its     *)
(* close is under way.                                                      *)
SessionsMatch ==
    \A s \in Sid :
        /\ socket[s] \in {"open", "close_posted"} /\ reading[s] => s \in sessions_
        /\ socket[s] = "closed" /\ ~Pending(s, "erase") => s \notin sessions_
        /\ At(s, "closeed") # {} => s \notin sessions_
        /\ At(s, "connected") # {} /\ socket[s] # "closed" => s \in sessions_

(* The messages of a session reach the application in the order they were   *)
(* received, and "closeed" after those handed over before the close.  What   *)
(* comes after "closeed" was handed over later, all of it by one read that   *)
(* was complete when the socket was closed (it may hold many messages).  A  *)
(* session that was accepted on its own io thread, as all are when there is *)
(* one io thread, is told of before anything else about it.  (Otherwise     *)
(* "connected" comes from the accepting or connecting thread and the         *)
(* messages from another, and update() may find the messages first.)        *)
OrderPerSession ==
    /\ \A s \in Sid : \A i, j \in DOMAIN dispatched[s] :
        i < j /\ dispatched[s][j].msgid = "message" =>
            /\ dispatched[s][i].msgid \in {"message", "closeed"} =>
                  dispatched[s][i].n < dispatched[s][j].n
            /\ dispatched[s][i].msgid = "closeed" => before[s] <= dispatched[s][i].n
    /\ \A s \in accepted :
        home[s] = 0 /\ dispatched[s] # <<>> => dispatched[s][1].msgid = "connected"

(* A listener that is open has an accept outstanding or is about to start   *)
(* one: it accepts every peer, until an accept fails.                       *)
ClientsServed == clients > 0 ~> clients = 0 \/ listener = "closed" \/ last_id = MaxSessions

(* The end of a session that was up reaches the application. *)
CloseReported ==
    \A s \in Sid : socket[s] = "close_posted" ~> At(s, "closeed") # {}
=============================================================================
