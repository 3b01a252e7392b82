------------------------------- MODULE TcpParser -------------------------------
(***************************************************************************)
(* tcp_parser::recv_and_decode (engine/net/tcp_parser.cpp) and the          *)
(* buffer_stream it keeps (engine/net/buffer_stream.cpp): cutting the byte  *)
(* stream of a session into messages.                                       *)
(*                                                                          *)
(* The peer's stream is the sequence of positions 1, 2, 3, ...; array_      *)
(* holds positions instead of bytes.  stream[p] is the number that the four *)
(* bytes from position p on would give when read as a length.  Where a      *)
(* frame starts it is the frame's total length, and elsewhere it is         *)
(* whatever the data happen to be: a parser that reads a length off a       *)
(* frame's start, or a buffer that moved bytes wrongly, cuts in the wrong   *)
(* place.  The parser takes any length, also one that is shorter than the   *)
(* length itself, or 0: then it hands over empty messages for ever.         *)
(***************************************************************************)
EXTENDS Integers, Sequences

CONSTANTS
    InitSize,   \* buffer_stream's first allocation (2048 in tcp_parser.h)
    MaxRecv,    \* the most one read delivers (max_recv_buffer_size)
    LenField,   \* sizeof(uint32_t)
    MaxAlloc,   \* buffer_pool_manager::alloc fails from this size on (65536)
    MaxStream,  \* bound: how much of the stream the peer sends
    MaxEmpty,   \* bound: messages after which no empty one is handed over
    Streams     \* the streams a peer may send

ASSUME SizesAssumption ==
    /\ InitSize \in Nat \ {0} /\ MaxRecv \in Nat \ {0} /\ LenField \in Nat \ {0}
    /\ MaxAlloc \in Nat /\ MaxStream \in Nat /\ MaxEmpty \in Nat

ASSUME StreamsAssumption == Streams \subseteq [1..MaxStream -> Nat]

VARIABLES
    stream,                      \* the peer's stream
    array_, read_, write_, size_,
    fed,                         \* how much of the stream was received
    decoding,                    \* inside the loop of recv_and_decode
    result,                      \* what recv_and_decode returned last
    messages                     \* history: what on_message was called with, and
                                 \* where the length of each was read

bufs == <<array_, read_, write_, size_>>
parser_vars == <<stream, bufs, fed, decoding, result, messages>>

ParserInit ==
    /\ stream \in Streams
    /\ array_ = <<>> /\ read_ = 0 /\ write_ = 0 /\ size_ = InitSize
    /\ fed = 0
    /\ decoding = FALSE /\ result = "parse_ok"
    /\ messages = <<>>

writeable_length == size_ - write_
readable_length  == write_ - read_

(* append() asks for twice the size it has, once, when n more do not fit.   *)
Grown(n)      == IF n > writeable_length THEN size_ + size_ ELSE size_

(* The frame at read_addr(): its length, and where the stream has it.       *)
HeadPos     == array_[read_ + 1]
AfterLength == stream[HeadPos] + LenField   \* as if the length left itself out
TotalLen    == stream[HeadPos]

(* Where the next frame is read from, after one was taken and after alloc   *)
(* failed.                                                                  *)
SkipFrame      == read_ + TotalLen
ReadAfterTake  == read_ + TotalLen
ReadAfterError == read_

(* retrieve(): memmove of what is left to the front of the array.           *)
MovedFromStart(r, len) == SubSeq(array_, 1, len)
Moved(r, len)          == SubSeq(array_, r + 1, r + len)

-----------------------------------------------------------------------------
(* A read completes with n bytes: recv_and_decode() appends them...         *)
Receive(n) ==
    /\ ~decoding
    /\ fed + n <= MaxStream
    /\ size_' = Grown(n)
    /\ array_' = SubSeq(array_, 1, write_) \o [i \in 1..n |-> fed + i]
    /\ write_' = write_ + n
    /\ fed' = fed + n
    /\ decoding' = TRUE
    /\ UNCHANGED <<stream, read_, result, messages>>

(* ... and takes out frames: alloc, copy_from, offset_read, retrieve,       *)
(* on_message.                                                              *)
HasLength  == readable_length >= LenField
StrictFrame == readable_length > TotalLen
HasFrame    == readable_length >= TotalLen

(* The loop returns parse_ok: fewer bytes are left than a length has, or    *)
(* than the frame has.                                                      *)
Incomplete == HasLength => ~HasFrame

Take ==
    /\ decoding /\ HasLength
    /\ HasFrame /\ TotalLen < MaxAlloc
    /\ TotalLen = 0 => Len(messages) < MaxEmpty
    /\ messages' = Append(messages, [head |-> HeadPos, bytes |-> SubSeq(array_, read_ + 1, read_ + TotalLen)])
    /\ LET r == ReadAfterTake
       IN  /\ array_' = Moved(r, write_ - r)
           /\ read_' = 0 /\ write_' = write_ - r
    /\ UNCHANGED <<stream, size_, fed, decoding, result>>

AllocFails ==
    /\ decoding /\ HasLength
    /\ HasFrame /\ TotalLen >= MaxAlloc
    /\ decoding' = FALSE /\ result' = "parse_error"
    /\ read_' = ReadAfterError
    /\ UNCHANGED <<stream, array_, write_, size_, fed, messages>>

Wait ==
    /\ decoding
    /\ Incomplete
    /\ decoding' = FALSE /\ result' = "parse_ok"
    /\ UNCHANGED <<stream, bufs, fed, messages>>

ParserNext == (\E n \in 1..MaxRecv : Receive(n)) \/ Take \/ AllocFails \/ Wait

Fairness == WF_parser_vars(Take \/ AllocFails \/ Wait)

ParserSpec == ParserInit /\ [][ParserNext]_parser_vars /\ Fairness

-----------------------------------------------------------------------------
(* Properties.                                                              *)

(* Types; the array holds positions of the stream up to write_. *)
TypeOK ==
    /\ stream \in Streams
    /\ array_ \in Seq(1..MaxStream) /\ Len(array_) = write_
    /\ read_ \in Nat /\ write_ \in Nat /\ size_ \in Nat /\ read_ <= write_
    /\ fed \in 0..MaxStream
    /\ decoding \in BOOLEAN /\ result \in {"parse_ok", "parse_error"}
    /\ messages \in Seq([head : 1..MaxStream, bytes : Seq(1..MaxStream)])

(* The messages are the frames of the stream: each is as long as its first  *)
(* bytes say, is a piece of the stream without holes, and begins where the  *)
(* one before it ended, however the stream was cut into reads and whatever  *)
(* lengths are in it.                                                       *)
Framed ==
    /\ messages # <<>> => messages[1].head = 1
    /\ \A k \in 1..Len(messages) :
          /\ Len(messages[k].bytes) = stream[messages[k].head]
          /\ \A i \in 1..Len(messages[k].bytes) : messages[k].bytes[i] = messages[k].head + i - 1
    /\ \A k \in 1..(Len(messages) - 1) :
          messages[k + 1].head = messages[k].head + Len(messages[k].bytes)

(* Where the messages taken so far end in the stream. *)
Consumed == fed - readable_length

(* What is buffered is exactly the part of the stream that was received and *)
(* not yet handed over: nothing is lost or kept twice by append, realloc    *)
(* and memmove.                                                             *)
BufferIsRest ==
    /\ \A i \in 1..readable_length : array_[read_ + i] = Consumed + i
    /\ Consumed = IF messages = <<>> THEN 0
                  ELSE messages[Len(messages)].head + Len(messages[Len(messages)].bytes) - 1

(* The session goes back to reading only when no whole message is left in   *)
(* the buffer: a message is delivered with the read that completed it.      *)
NoMessageWaits ==
    ~decoding /\ result = "parse_ok" /\ readable_length >= LenField
        => readable_length < stream[array_[read_ + 1]]

(* The bytes appended fit in what append() allocated: it doubles once, so   *)
(* this rests on a read never being larger than the buffer.                 *)
WithinCapacity == write_ <= size_

(* After parse_error nothing more is delivered, though the session reads on *)
(* until its close() has run (tcp_session.h:198-203).                       *)
ErrorIsFinal == [][result = "parse_error" => messages' = messages]_parser_vars

=============================================================================
