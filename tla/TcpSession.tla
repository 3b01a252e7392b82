------------------------------ MODULE TcpSession ------------------------------
(***************************************************************************)
(* One tcp_session (engine/net/tcp_session.h): the session's socket, its    *)
(* two output buffers, the asio io_context it was created on, and the       *)
(* threads that reach it.                                                   *)
(*                                                                          *)
(*   - the io thread runs the handlers of the session's io_context one at a *)
(*     time, in the order they became ready: `ioq` is that queue;           *)
(*   - the opener is the thread that brings the session up: the accept      *)
(*     thread of the listener, the caller of connect(), or the io thread    *)
(*     itself, according to `mode`;                                         *)
(*   - the senders call send() from threads of their own, once on_connect   *)
(*     has made the session known to the application;                       *)
(*   - the kernel and the peer (external) complete asynchronous operations. *)
(*                                                                          *)
(* A frame is the argument of one call of send(); a buffer is the sequence  *)
(* of the frames it holds.  The kernel takes the frames of an async_write   *)
(* out of cache_buffer_ one by one, from the memory the code passed to it.  *)
(***************************************************************************)
EXTENDS Integers, Sequences, FiniteSets

CONSTANTS
    Sender,     \* threads that call send()
    MaxSends,   \* bound: calls of send() by each sender
    MaxReads,   \* bound: reads that complete with data
    MaxCloses,  \* bound: calls of close() by the application
    Modes,      \* the ways the session may be opened
    Apis        \* the overloads of send() the application may choose from

Mode == {"accept",          \* accept_handler on another io_context's thread
         "accept_own",      \* accept_handler on the session's own io thread
         "connect",         \* connect(), on the caller's thread
         "async_connect"}   \* async_connect(), start() on the io thread

ASSUME ConstantsAssumption ==
    /\ MaxSends \in Nat /\ MaxReads \in Nat /\ MaxCloses \in Nat
    /\ Modes \subseteq Mode
    /\ Apis \subseteq {"chars", "buffer"}

VARIABLES
    ioq,            \* handlers posted to context_, in the order they will run
    open,           \* socket_.is_open()
    send_buffer_, cache_buffer_, sending_,
    holder,         \* who holds write_mutex_: {} or {sender}
    pc,             \* of each sender
    seen,           \* of each sender: send_buffer_ as its append() found it
    calls,          \* of each sender: calls of send() so far
    mode, api,      \* how the session is opened, and written to
    opener,         \* pc of the thread that opens it
    writing,        \* async_writes outstanding in the kernel
    taken,          \* frames of cache_buffer_ the kernel took in this write
    reading,        \* async_reads outstanding in the kernel
    broken,         \* the connection failed; no more frames leave the host
    wire,           \* frames given to the peer
    reads, closes,  \* bound counters: reads with data, application's close()
    sent,           \* history: frames in the order they entered send_buffer_
    events          \* history: calls made on data_handler_

buffers == <<send_buffer_, cache_buffer_, sending_>>
senders == <<holder, pc, seen, calls>>
choice  == <<mode, api>>
opening == <<choice, opener>>
kernel  == <<writing, taken, reading, broken, wire>>
bounds  == <<reads, closes>>
vars    == <<ioq, open, buffers, senders, opening, kernel, bounds, sent, events>>

Frame == Sender \X Nat      \* the k-th frame of sender s is <<s, k>>

(* A handler posted to the io_context.  Only "append", the lambda of        *)
(* send(buffer), carries a frame.                                           *)
Plain == {"flush",                         \* lambda of send(data, length)
          "close",                         \* lambda of close()
          "read", "read_failed",           \* handler of async_read_some
          "written", "write_failed",       \* handler of async_write
          "connected", "connect_failed"}   \* accept_handler, async_connect

H(op)   == [op |-> op]
Add(f)  == [op |-> "append", frame |-> f]
Handler == [op : Plain] \cup [op : {"append"}, frame : Frame]

Events == [connect : Nat, close : Nat, late : Nat]

Init ==
    /\ ioq = <<>> /\ open = FALSE
    /\ send_buffer_ = <<>> /\ cache_buffer_ = <<>> /\ sending_ = FALSE
    /\ holder = {}
    /\ pc = [s \in Sender |-> "idle"]
    /\ seen = [s \in Sender |-> <<>>]
    /\ calls = [s \in Sender |-> 0]
    /\ mode \in Modes /\ api \in Apis /\ opener = "new"
    /\ writing = 0 /\ taken = 0 /\ reading = 0 /\ broken = FALSE /\ wire = <<>>
    /\ reads = 0 /\ closes = 0
    /\ sent = <<>>
    /\ events = [connect |-> 0, close |-> 0, late |-> 0]

-----------------------------------------------------------------------------
(* The conditions and the small effects the handlers are made of.  Each is  *)
(* followed by the faults it could have; the runs' mutants use the faults.  *)

(* write_mutex_ can be taken: senders and do_send spin until then. *)
LockIgnored == TRUE
Unlocked    == holder = {}

(* The lambdas of send() go on to do_send() unless a write is under way. *)
AlwaysFlush == TRUE
MayFlush    == ~sending_

(* What the handler of async_write leaves in cache_buffer_. *)
CacheKept       == cache_buffer_
CacheAfterWrite == <<>>

(* The handler of async_write finds more to send. *)
NeverMore == FALSE
More      == send_buffer_ # <<>>

(* The lambda of close() goes on, and leaves the socket closed with no read *)
(* outstanding.                                                             *)
CloseAlways     == TRUE
CloseRuns       == open
LeftOpen        == TRUE
OpenAfterClose  == FALSE
ReadsAfterClose == 0

(* A failed read or write posts close() behind the handlers q. *)
ErrorIgnored(q) == q
CloseOnError(q) == Append(q, H("close"))

(* accept_handler on the session's own thread starts it there only. *)
StartedTwice == "start"
AfterAccept  == "done"

-----------------------------------------------------------------------------
(* start(): on_connect, then do_recv.  An async_read_some on a closed       *)
(* socket completes at once with an error.                                  *)

OnConnect == events' = [events EXCEPT !.connect = @ + 1]

DoRecv(q) ==
    IF open
    THEN reading' = reading + 1 /\ ioq' = q
    ELSE reading' = reading /\ ioq' = Append(q, H("read_failed"))

(* The opener resolves the address and connects or, in accept_handler, gets *)
(* a socket that is already connected.  On a failure close() is posted; a   *)
(* failed socket_.connect leaves the socket open, a failed resolve does not.*)
Accept ==
    /\ opener = "new" /\ mode \in {"accept", "accept_own"}
    /\ open' = TRUE
    /\ IF mode = "accept"
       THEN opener' = "start" /\ ioq' = ioq
       ELSE opener' = AfterAccept /\ ioq' = Append(ioq, H("connected"))
    /\ UNCHANGED <<buffers, senders, choice, kernel, bounds, sent, events>>

ResolveFails ==
    /\ opener = "new" /\ mode \in {"connect", "async_connect"}
    /\ opener' = "done"
    /\ ioq' = Append(ioq, H("close"))
    /\ UNCHANGED <<open, buffers, senders, choice, kernel, bounds, sent, events>>

Connect ==
    /\ opener = "new" /\ mode = "connect"
    /\ open' = TRUE
    /\ \/ opener' = "start" /\ ioq' = ioq
       \/ opener' = "done" /\ ioq' = Append(ioq, H("close"))
    /\ UNCHANGED <<buffers, senders, choice, kernel, bounds, sent, events>>

AsyncConnect ==
    /\ opener = "new" /\ mode = "async_connect"
    /\ open' = TRUE /\ opener' = "connecting"
    /\ UNCHANGED <<ioq, buffers, senders, choice, kernel, bounds, sent, events>>

(* The kernel completes the async_connect. *)
ConnectCompletes ==
    /\ opener = "connecting" /\ opener' = "done"
    /\ \E op \in {"connected", "connect_failed"} : ioq' = Append(ioq, H(op))
    /\ UNCHANGED <<open, buffers, senders, choice, kernel, bounds, sent, events>>

(* start() on a thread other than the io thread: on_connect publishes the   *)
(* session, and only then does the thread go into async_read_some.          *)
StartOnConnect ==
    /\ opener = "start" /\ opener' = "recv"
    /\ OnConnect
    /\ UNCHANGED <<ioq, open, buffers, senders, choice, kernel, bounds, sent>>

StartRecvCall ==
    /\ opener = "recv" /\ opener' = "in_recv"
    /\ UNCHANGED <<ioq, open, buffers, senders, choice, kernel, bounds, sent, events>>

StartRecvReturn ==
    /\ opener = "in_recv" /\ opener' = "done"
    /\ DoRecv(ioq)
    /\ UNCHANGED <<open, buffers, senders, choice, writing, taken, broken, wire,
                   bounds, sent, events>>

Opener == \/ Accept \/ ResolveFails \/ Connect \/ AsyncConnect
          \/ StartOnConnect \/ StartRecvCall \/ StartRecvReturn

-----------------------------------------------------------------------------
(* send(data, length): append under write_mutex_, unlock, post the flush.   *)
(* append() reads the string and writes it back.                            *)

CanSend(s) ==
    /\ events.connect > 0 /\ pc[s] = "idle" /\ calls[s] < MaxSends

SendLock(s) ==
    /\ api = "chars" /\ CanSend(s) /\ Unlocked
    /\ holder' = {s}
    /\ seen' = [seen EXCEPT ![s] = send_buffer_]
    /\ pc' = [pc EXCEPT ![s] = "append"]
    /\ calls' = [calls EXCEPT ![s] = @ + 1]
    /\ UNCHANGED <<ioq, open, buffers, opening, kernel, bounds, sent, events>>

SendAppend(s) ==
    /\ pc[s] = "append"
    /\ send_buffer_' = Append(seen[s], <<s, calls[s]>>)
    /\ sent' = Append(sent, <<s, calls[s]>>)
    /\ holder' = {}
    /\ pc' = [pc EXCEPT ![s] = "post"]
    /\ UNCHANGED <<ioq, open, cache_buffer_, sending_, seen, calls, opening,
                   kernel, bounds, events>>

SendPost(s) ==
    /\ pc[s] = "post"
    /\ ioq' = Append(ioq, H("flush"))
    /\ pc' = [pc EXCEPT ![s] = "idle"]
    /\ UNCHANGED <<open, buffers, holder, seen, calls, opening, kernel, bounds,
                   sent, events>>

(* send(buffer): the append itself is posted, and takes no lock. *)
SendBuffer(s) ==
    /\ api = "buffer" /\ CanSend(s)
    /\ calls' = [calls EXCEPT ![s] = @ + 1]
    /\ ioq' = Append(ioq, Add(<<s, calls[s] + 1>>))
    /\ UNCHANGED <<open, buffers, holder, pc, seen, opening, kernel, bounds,
                   sent, events>>

(* close() called by the application: posts, and returns. *)
Close ==
    /\ events.connect > 0 /\ closes < MaxCloses
    /\ closes' = closes + 1
    /\ ioq' = Append(ioq, H("close"))
    /\ UNCHANGED <<open, buffers, senders, opening, kernel, reads, sent, events>>

-----------------------------------------------------------------------------
(* The io thread.                                                           *)

(* do_send() with `out` in send_buffer_ and `cache` in cache_buffer_, when  *)
(* the handlers left to run are q.  The swap waits for write_mutex_.        *)
DoSend(q, out, cache) ==
    /\ ioq' = q /\ taken' = 0
    /\ \/ /\ ~open
          /\ send_buffer_' = out /\ cache_buffer_' = cache /\ sending_' = FALSE
          /\ writing' = writing
       \/ /\ open /\ Unlocked
          /\ send_buffer_' = cache /\ cache_buffer_' = out
          /\ IF out = <<>> THEN sending_' = FALSE /\ writing' = writing
                           ELSE sending_' = TRUE /\ writing' = writing + 1

Runs(op) == ioq # <<>> /\ Head(ioq).op = op

RunFlush ==
    /\ Runs("flush")
    /\ IF MayFlush
       THEN DoSend(Tail(ioq), send_buffer_, cache_buffer_)
       ELSE ioq' = Tail(ioq) /\ UNCHANGED <<buffers, writing, taken>>
    /\ UNCHANGED <<open, senders, opening, reading, broken, wire, bounds, sent,
                   events>>

RunAppend ==
    /\ Runs("append")
    /\ LET f   == Head(ioq).frame
           out == Append(send_buffer_, f)
       IN  /\ sent' = Append(sent, f)
           /\ IF MayFlush
              THEN DoSend(Tail(ioq), out, cache_buffer_)
              ELSE /\ ioq' = Tail(ioq) /\ send_buffer_' = out
                   /\ UNCHANGED <<cache_buffer_, sending_, writing, taken>>
    /\ UNCHANGED <<open, senders, opening, reading, broken, wire, bounds, events>>

(* The handler of async_write. *)
RunWritten ==
    /\ Runs("written") /\ Unlocked
    /\ IF More
       THEN DoSend(Tail(ioq), send_buffer_, CacheAfterWrite)
       ELSE /\ ioq' = Tail(ioq)
            /\ sending_' = FALSE /\ cache_buffer_' = CacheAfterWrite /\ taken' = 0
            /\ UNCHANGED <<send_buffer_, writing>>
    /\ UNCHANGED <<open, senders, opening, reading, broken, wire, bounds, sent,
                   events>>

RunWriteFailed ==
    /\ Runs("write_failed")
    /\ sending_' = FALSE
    /\ ioq' = CloseOnError(Tail(ioq))
    /\ UNCHANGED <<open, send_buffer_, cache_buffer_, senders, opening, kernel,
                   bounds, sent, events>>

(* The handler of async_read_some.  The parser hands complete messages to   *)
(* on_message, or fails on the data and close() is posted; in both cases    *)
(* the next read is started.                                                *)
RunRead ==
    /\ Runs("read")
    /\ \E parse_error \in BOOLEAN :
         DoRecv(IF parse_error THEN CloseOnError(Tail(ioq)) ELSE Tail(ioq))
    /\ events' = IF events.close > 0 THEN [events EXCEPT !.late = @ + 1]
                                     ELSE events
    /\ UNCHANGED <<open, buffers, senders, opening, writing, taken, broken, wire,
                   bounds, sent>>

RunReadFailed ==
    /\ Runs("read_failed")
    /\ ioq' = CloseOnError(Tail(ioq))
    /\ UNCHANGED <<open, buffers, senders, opening, kernel, bounds, sent, events>>

(* accept_handler, or the handler of async_connect, on the io thread. *)
RunConnected ==
    /\ Runs("connected")
    /\ OnConnect
    /\ DoRecv(Tail(ioq))
    /\ UNCHANGED <<open, buffers, senders, opening, writing, taken, broken, wire,
                   bounds, sent>>

RunConnectFailed ==
    /\ Runs("connect_failed")
    /\ ioq' = CloseOnError(Tail(ioq))
    /\ UNCHANGED <<open, buffers, senders, opening, kernel, bounds, sent, events>>

(* The lambda of close(): nothing on a closed socket; else shutdown, close, *)
(* which aborts what is outstanding, and on_close.                          *)
Aborted(op, n) == [i \in 1..n |-> H(op)]

RunClose ==
    /\ Runs("close")
    /\ IF CloseRuns
       THEN /\ open' = OpenAfterClose
            /\ ioq' = Tail(ioq) \o Aborted("read_failed", reading)
                                \o Aborted("write_failed", writing)
            /\ reading' = ReadsAfterClose /\ writing' = 0
            /\ events' = [events EXCEPT !.close = @ + 1]
       ELSE ioq' = Tail(ioq) /\ UNCHANGED <<open, reading, writing, events>>
    /\ UNCHANGED <<buffers, senders, opening, taken, broken, wire, bounds, sent>>

IoThread == \/ RunFlush \/ RunAppend \/ RunWritten \/ RunWriteFailed
            \/ RunRead \/ RunReadFailed \/ RunConnected \/ RunConnectFailed
            \/ RunClose

-----------------------------------------------------------------------------
(* The kernel and the peer (external).                                      *)

WriteProgress ==
    /\ writing > 0 /\ ~broken /\ taken < Len(cache_buffer_)
    /\ taken' = taken + 1
    /\ wire' = Append(wire, cache_buffer_[taken + 1])
    /\ UNCHANGED <<ioq, open, buffers, senders, opening, writing, reading, broken,
                   bounds, sent, events>>

WriteCompletes ==
    /\ writing > 0 /\ ~broken /\ taken >= Len(cache_buffer_)
    /\ writing' = writing - 1
    /\ ioq' = Append(ioq, H("written"))
    /\ UNCHANGED <<open, buffers, senders, opening, taken, reading, broken, wire,
                   bounds, sent, events>>

WriteFails ==
    /\ writing > 0 /\ broken
    /\ writing' = writing - 1
    /\ ioq' = Append(ioq, H("write_failed"))
    /\ UNCHANGED <<open, buffers, senders, opening, taken, reading, broken, wire,
                   bounds, sent, events>>

ReadCompletes ==
    /\ reading > 0 /\ ~broken /\ reads < MaxReads
    /\ reads' = reads + 1 /\ reading' = reading - 1
    /\ ioq' = Append(ioq, H("read"))
    /\ UNCHANGED <<open, buffers, senders, opening, writing, taken, broken, wire,
                   closes, sent, events>>

(* End of file, or an error of the connection. *)
ReadFails ==
    /\ reading > 0
    /\ reading' = reading - 1
    /\ ioq' = Append(ioq, H("read_failed"))
    /\ UNCHANGED <<open, buffers, senders, opening, writing, taken, broken, wire,
                   bounds, sent, events>>

Break ==
    /\ open /\ ~broken /\ opener # "connecting"
    /\ broken' = TRUE
    /\ UNCHANGED <<ioq, open, buffers, senders, opening, writing, taken, reading,
                   wire, bounds, sent, events>>

Kernel == \/ WriteProgress \/ WriteCompletes \/ WriteFails
          \/ ReadCompletes \/ ReadFails \/ Break \/ ConnectCompletes

Send(s) == SendLock(s) \/ SendAppend(s) \/ SendPost(s) \/ SendBuffer(s)

Next == \/ Opener
        \/ \E s \in Sender : Send(s)
        \/ Close
        \/ IoThread
        \/ Kernel

(* Every thread that can run does: the io thread in io_context::run(), the  *)
(* opener, and a sender inside send().  The peer takes what is sent and an  *)
(* operation on a broken connection fails; nothing makes a peer send.       *)
Fairness ==
    /\ WF_vars(Opener)
    /\ WF_vars(IoThread)
    /\ \A s \in Sender : WF_vars(SendAppend(s) \/ SendPost(s))
    /\ WF_vars(WriteProgress \/ WriteCompletes \/ WriteFails)
    /\ WF_vars(broken /\ ReadFails)
    /\ WF_vars(ConnectCompletes)

Safety == Init /\ [][Next]_vars
Spec   == Safety /\ Fairness
-----------------------------------------------------------------------------
(* Properties.                                                              *)

(* Every variable keeps its type; in particular the frames in the buffers   *)
(* and on the wire are frames some sender passed to send().                 *)
TypeOK ==
    /\ ioq \in Seq(Handler) /\ open \in BOOLEAN
    /\ send_buffer_ \in Seq(Frame) /\ cache_buffer_ \in Seq(Frame)
    /\ sending_ \in BOOLEAN
    /\ holder \in SUBSET Sender
    /\ pc \in [Sender -> {"idle", "append", "post"}]
    /\ seen \in [Sender -> Seq(Frame)]
    /\ calls \in [Sender -> Nat]
    /\ mode \in Modes /\ api \in Apis
    /\ opener \in {"new", "start", "recv", "in_recv", "connecting", "done"}
    /\ writing \in Nat /\ taken \in Nat /\ reading \in Nat
    /\ broken \in BOOLEAN /\ wire \in Seq(Frame)
    /\ reads \in Nat /\ closes \in Nat
    /\ sent \in Seq(Frame)
    /\ events \in Events

(* Handlers of the kinds K waiting in the queue. *)
Queued(K) == {i \in DOMAIN ioq : ioq[i].op \in K}

(* While the connection is up: nothing broke it and close() has not run. *)
Healthy == ~broken /\ events.close = 0

(* The peer gets the frames in the order they entered send_buffer_, none    *)
(* twice and none skipped, whatever fails: after a failed write do_send     *)
(* swaps the unsent cache_buffer_ back (tcp_session.h:221).                 *)
InOrder ==
    /\ Len(wire) <= Len(sent)
    /\ \A i \in 1..Len(wire) : wire[i] = sent[i]

(* While the connection is up no frame is lost between the two buffers: the *)
(* wire, the rest of the write under way and send_buffer_ are what was sent.*)
NothingLost ==
    Healthy => wire \o SubSeq(cache_buffer_, taken + 1, Len(cache_buffer_))
                    \o send_buffer_ = sent

(* At most one async_write is outstanding, and sending_ says that one is or *)
(* that its handler has yet to run: a second one would interleave two       *)
(* buffers on the stream (tcp_session.h:164, 228-232).                      *)
OneWrite ==
    /\ writing <= 1
    /\ sending_ <=> writing = 1 \/ Queued({"written", "write_failed"}) # {}

(* The memory given to async_write is not touched before it completes: the  *)
(* swap in do_send never moves a buffer the kernel is reading.              *)
BufferStable == [][writing > 0 /\ writing' > 0 => cache_buffer_' = cache_buffer_]_vars

(* recv_buffer_ has one user at a time: the kernel, a handler yet to run,   *)
(* or the opener about to start the first read.                             *)
OneRead ==
    reading + Cardinality(Queued({"read", "read_failed", "connected"}))
            + (IF opener \in {"start", "recv", "in_recv"} THEN 1 ELSE 0) <= 1

(* on_connect and on_close are called at most once, on_close when the       *)
(* socket is closed, and without on_connect only in a session that connects *)
(* by itself.  A read that completed before close() ran is still decoded    *)
(* after on_close: the messages that follow come from one read at most.     *)
CloseOnce ==
    /\ events.close <= 1 /\ events.connect <= 1
    /\ events.close = 1 => ~open
    /\ events.close > events.connect => mode \in {"connect", "async_connect"}
    /\ events.late <= 1

(* What docs/asio.md:395 asks of its users, and tcp_session does not do: a  *)
(* thread that is inside a read of the socket has it to itself; no other    *)
(* thread writes to it or closes it meanwhile.                              *)
SocketOneThread ==
    [][opener = "in_recv" /\ opener' = "in_recv"
         => ~(writing' > writing) /\ open' = open]_vars

(* Every frame reaches the peer, unless the connection fails or is closed.  *)
Delivered ==
    \A n \in 1..(Cardinality(Sender) * MaxSends) :
        Len(sent) >= n ~> Len(wire) >= n \/ ~Healthy

(* A connection that broke after on_connect is reported by on_close, and a  *)
(* close() the application asked for is carried out and reported.           *)
FailureReported ==
    /\ broken /\ events.connect > 0 ~> events.close = 1
    /\ closes > 0 ~> ~open /\ events.close = 1

-----------------------------------------------------------------------------
(* What the session promises, whatever its buffers and handlers.            *)
Promise == INSTANCE SessionPromise WITH
    Frame     <- Sender \X (1..MaxSends),
    accepted  <- sent,
    delivered <- wire,
    status    <- IF events.close > 0 THEN "down"
                 ELSE IF events.connect > 0 THEN "up" ELSE "idle"

(* The session implements the promise of SessionPromise. *)
ImplementsPromise == Promise!Spec
=============================================================================
