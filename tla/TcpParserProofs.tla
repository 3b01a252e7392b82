---------------------------- MODULE TcpParserProofs ----------------------------
(***************************************************************************)
(* Theorems about TcpParser: what it delivers and what it keeps, for every  *)
(* stream, every size of the buffer and every way the stream is cut into    *)
(* reads.                                                                   *)
(***************************************************************************)
EXTENDS TcpParser, SequenceTheorems, TLAPS

Byte == 1..MaxStream
Message == [head : Byte, bytes : Seq(Byte)]

-----------------------------------------------------------------------------
(* The two changes of array_: append and retrieve.                          *)

(* What an append does to a sequence.                                       *)
LEMMA Appended ==
    ASSUME NEW a \in Seq(Byte), NEW n \in Nat, NEW f \in Nat, f + n <= MaxStream,
           MaxStream \in Nat
    PROVE  LET b == SubSeq(a, 1, Len(a)) \o [i \in 1..n |-> f + i]
           IN  /\ b \in Seq(Byte) /\ Len(b) = Len(a) + n
               /\ \A i \in 1..Len(a) : b[i] = a[i]
               /\ \A i \in 1..n : b[Len(a) + i] = f + i
<1> DEFINE r == [i \in 1..n |-> f + i]
<1>1. SubSeq(a, 1, Len(a)) = a BY SubSeqFull
<1>2. r \in [1..n -> Byte] BY DEF Byte
<1>3. r \in Seq(Byte) BY <1>2
<1>4. Len(r) = n BY <1>3
<1>5. \A i \in 1..n : r[i] = f + i OBVIOUS
<1> HIDE DEF r
<1>6. /\ a \o r \in Seq(Byte) /\ Len(a \o r) = Len(a) + n
      /\ \A i \in 1..(Len(a) + n) :
            (a \o r)[i] = IF i <= Len(a) THEN a[i] ELSE r[i - Len(a)]
  BY <1>3, <1>4, ConcatProperties
<1>7. \A i \in 1..Len(a) : (a \o r)[i] = a[i] BY <1>6
<1>8. \A i \in 1..n : (a \o r)[Len(a) + i] = f + i
  <2> TAKE i \in 1..n
  <2>1. /\ Len(a) + i \in 1..(Len(a) + n) /\ ~(Len(a) + i <= Len(a))
        /\ Len(a) + i - Len(a) = i
    OBVIOUS
  <2> QED BY <2>1, <1>6, <1>5
<1> QED BY <1>1, <1>6, <1>7, <1>8 DEF r

(* A piece of a sequence is what the indices say.                           *)
LEMMA Piece ==
    ASSUME NEW a \in Seq(Byte), NEW m \in 0..Len(a), NEW n \in m..Len(a)
    PROVE  /\ SubSeq(a, m + 1, n) \in Seq(Byte)
           /\ Len(SubSeq(a, m + 1, n)) = n - m
           /\ \A i \in 1..(n - m) : SubSeq(a, m + 1, n)[i] = a[m + i]
<1>1. \A i \in (m + 1)..n : a[i] \in Byte OBVIOUS
<1>2. /\ SubSeq(a, m + 1, n) \in Seq(Byte)
      /\ Len(SubSeq(a, m + 1, n)) = IF m + 1 <= n THEN n - (m + 1) + 1 ELSE 0
      /\ \A i \in 1..(n - (m + 1) + 1) : SubSeq(a, m + 1, n)[i] = a[m + 1 + i - 1]
  BY <1>1, SubSeqProperties
<1>3. n - (m + 1) + 1 = n - m /\ \A i \in Int : m + 1 + i - 1 = m + i OBVIOUS
<1> QED BY <1>2, <1>3

-----------------------------------------------------------------------------
(* The inductive invariant: between two steps nothing that was read is      *)
(* still in front of the buffer.                                            *)
ParserInv ==
    /\ TypeOK
    /\ read_ = 0
    /\ Framed
    /\ BufferIsRest

(* The part of it that speaks of the buffer, with read_ = 0. *)
LEMMA BufferFacts ==
    ASSUME ParserInv
    PROVE  /\ array_ \in Seq(Byte) /\ Len(array_) = write_
           /\ write_ \in Nat /\ fed \in Nat /\ fed <= MaxStream
           /\ readable_length = write_ /\ Consumed = fed - write_
           /\ \A i \in 1..write_ : array_[i] = fed - write_ + i
BY SizesAssumption DEF ParserInv, TypeOK, BufferIsRest, Consumed, readable_length, Byte

(* The frame at the head of the buffer. *)
LEMMA HeadFacts ==
    ASSUME ParserInv, HasLength
    PROVE  /\ HeadPos = fed - write_ + 1 /\ HeadPos \in Byte
           /\ TotalLen = stream[HeadPos] /\ TotalLen \in Nat
           /\ LenField \in Nat /\ LenField >= 1 /\ write_ >= LenField
<1>1. LenField \in Nat /\ LenField >= 1 BY SizesAssumption
<1>2. write_ >= LenField BY <1>1, BufferFacts DEF HasLength
<1>3. HeadPos = array_[1] BY DEF ParserInv, HeadPos
<1>4. 1 \in 1..write_ BY <1>1, <1>2, BufferFacts
<1>5. array_[1] = fed - write_ + 1 /\ array_[1] \in Byte
  BY <1>4, BufferFacts
<1>6. stream \in [1..MaxStream -> Nat]
  BY StreamsAssumption DEF ParserInv, TypeOK
<1> QED BY <1>1, <1>2, <1>3, <1>5, <1>6 DEF TotalLen, Byte

-----------------------------------------------------------------------------
(* The steps.                                                               *)

(* An empty parser satisfies the invariant.                                 *)
LEMMA InitInv == ParserInit => ParserInv
<1> SUFFICES ASSUME ParserInit PROVE ParserInv OBVIOUS
<1>1. <<>> \in Seq(1..MaxStream) /\ <<>> \in Seq([head : 1..MaxStream, bytes : Seq(1..MaxStream)])
  BY EmptySeq
<1>2. Len(array_) = 0 /\ Len(messages) = 0 BY EmptySeq DEF ParserInit
<1>3. TypeOK
  <2>1. stream \in Streams /\ decoding \in BOOLEAN /\ result \in {"parse_ok", "parse_error"}
    BY DEF ParserInit
  <2>2. array_ \in Seq(1..MaxStream) /\ messages \in Seq([head : 1..MaxStream, bytes : Seq(1..MaxStream)])
    BY <1>1, Zenon DEF ParserInit
  <2>3. read_ = 0 /\ write_ = 0 /\ size_ \in Nat /\ fed = 0
    BY SizesAssumption DEF ParserInit
  <2> QED BY <2>1, <2>2, <2>3, <1>2, SizesAssumption DEF TypeOK
<1>4. Framed BY <1>2 DEF ParserInit, Framed
<1>5. BufferIsRest BY DEF ParserInit, BufferIsRest, Consumed, readable_length
<1> QED BY <1>2, <1>3, <1>4, <1>5 DEF ParserInit, ParserInv

(* Data that arrives keeps the invariant (tcp_parser.h).                    *)
LEMMA ReceiveInv ==
    ASSUME ParserInv, NEW n \in 1..MaxRecv, Receive(n)
    PROVE  ParserInv'
<1>1. n \in Nat /\ MaxStream \in Nat /\ fed + n <= MaxStream
  BY SizesAssumption DEF Receive
<1>2. /\ array_' \in Seq(Byte) /\ Len(array_') = write_ + n
      /\ \A i \in 1..write_ : array_'[i] = array_[i]
      /\ \A i \in 1..n : array_'[write_ + i] = fed + i
  <2> DEFINE b == SubSeq(array_, 1, Len(array_)) \o [i \in 1..n |-> fed + i]
  <2>1. array_' = b BY BufferFacts DEF Receive
  <2>2. /\ b \in Seq(Byte) /\ Len(b) = Len(array_) + n
        /\ \A i \in 1..Len(array_) : b[i] = array_[i]
        /\ \A i \in 1..n : b[Len(array_) + i] = fed + i
    <3>1. /\ array_ \in Seq(Byte) /\ fed \in Nat /\ n \in Nat
          /\ fed + n <= MaxStream /\ MaxStream \in Nat
      BY <1>1, BufferFacts
    <3> QED BY <3>1, Appended
  <2> HIDE DEF b
  <2> QED BY <2>1, <2>2, BufferFacts
<1>3. /\ write_' = write_ + n /\ fed' = fed + n /\ read_' = 0
      /\ stream' = stream /\ messages' = messages /\ result' = result
      /\ decoding' = TRUE
  BY DEF Receive, ParserInv
<1>4. size_' \in Nat BY <1>1 DEF Receive, Grown, ParserInv, TypeOK
<1>5. TypeOK'
  <2>1. array_' \in Seq(1..MaxStream) BY <1>2 DEF Byte
  <2>2. write_' \in Nat /\ read_' \in Nat /\ read_' <= write_' /\ Len(array_') = write_'
    BY <1>1, <1>2, <1>3, BufferFacts
  <2>3. fed' \in 0..MaxStream BY <1>1, <1>3, BufferFacts
  <2> QED BY <2>1, <2>2, <2>3, <1>3, <1>4 DEF TypeOK, ParserInv
<1>6. Framed' BY <1>3 DEF ParserInv, Framed
<1>7. Consumed' = Consumed /\ readable_length' = write_ + n
  BY <1>1, <1>3, BufferFacts DEF Consumed, readable_length
<1>8. \A i \in 1..(write_ + n) : array_'[i] = Consumed + i
  <2> SUFFICES ASSUME NEW i \in 1..(write_ + n) PROVE array_'[i] = Consumed + i
    OBVIOUS
  <2>1. CASE i <= write_
    BY <2>1, <1>1, <1>2, BufferFacts
  <2>2. CASE i > write_
    <3>1. i - write_ \in 1..n /\ write_ + (i - write_) = i BY <2>2, <1>1, BufferFacts
    <3>2. array_'[write_ + (i - write_)] = fed + (i - write_) BY <3>1, <1>2
    <3> QED BY <3>1, <3>2, BufferFacts
  <2> QED BY <2>1, <2>2, BufferFacts
<1>9. BufferIsRest'
  <2>1. \A i \in 1..readable_length' : array_'[read_' + i] = Consumed' + i
    BY <1>1, <1>3, <1>7, <1>8, BufferFacts
  <2> QED BY <2>1, <1>3, <1>7 DEF BufferIsRest, ParserInv
<1> QED BY <1>3, <1>5, <1>6, <1>9 DEF ParserInv

(* What a frame that was taken looks like, and the rest of the buffer. *)
LEMMA TakeFacts ==
    ASSUME ParserInv, Take
    PROVE  /\ \E m \in Seq(Byte) :
                 /\ messages' = Append(messages, [head |-> Consumed + 1, bytes |-> m])
                 /\ Len(m) = TotalLen /\ Consumed + 1 \in Byte
                 /\ \A i \in 1..Len(m) : m[i] = Consumed + i
                 /\ stream[Consumed + 1] = Len(m)
                 /\ Consumed' = Consumed + Len(m)
           /\ array_' \in Seq(Byte) /\ Len(array_') = write_'
           /\ write_' = write_ - TotalLen /\ write_' \in Nat /\ read_' = 0
           /\ \A i \in 1..write_' : array_'[i] = Consumed' + i
<1>1. HasLength /\ TotalLen <= write_ BY BufferFacts DEF Take, HasFrame
<1>2. /\ TotalLen \in Nat /\ TotalLen = stream[Consumed + 1]
      /\ HeadPos = Consumed + 1 /\ HeadPos \in Byte
  BY <1>1, HeadFacts, BufferFacts
<1> DEFINE m == SubSeq(array_, 1, TotalLen)
<1> DEFINE b == SubSeq(array_, TotalLen + 1, write_)
<1>3. /\ messages' = Append(messages, [head |-> Consumed + 1, bytes |-> m]) /\ array_' = b
      /\ read_' = 0 /\ write_' = write_ - TotalLen
      /\ fed' = fed /\ stream' = stream
  <2>1. /\ messages' = Append(messages, [head |-> HeadPos, bytes |-> SubSeq(array_, 0 + 1, 0 + TotalLen)])
        /\ array_' = SubSeq(array_, 0 + TotalLen + 1,
                            0 + TotalLen + (write_ - (0 + TotalLen)))
        /\ read_' = 0 /\ write_' = write_ - (0 + TotalLen)
        /\ fed' = fed /\ stream' = stream
    BY DEF Take, ReadAfterTake, Moved, ParserInv
  <2>2. /\ 0 + 1 = 1 /\ 0 + TotalLen = TotalLen
        /\ TotalLen + (write_ - TotalLen) = write_
    BY <1>2, BufferFacts
  <2> QED BY <2>1, <2>2, <1>2
<1>4. /\ m \in Seq(Byte) /\ Len(m) = TotalLen
      /\ \A i \in 1..TotalLen : m[i] = array_[i]
  <2>1. 0 \in 0..Len(array_) /\ TotalLen \in 0..Len(array_) BY <1>1, <1>2, BufferFacts
  <2>2. /\ SubSeq(array_, 0 + 1, TotalLen) \in Seq(Byte)
        /\ Len(SubSeq(array_, 0 + 1, TotalLen)) = TotalLen - 0
        /\ \A i \in 1..(TotalLen - 0) : SubSeq(array_, 0 + 1, TotalLen)[i] = array_[0 + i]
    BY <2>1, BufferFacts, Piece
  <2>3. 0 + 1 = 1 /\ TotalLen - 0 = TotalLen /\ \A i \in 1..TotalLen : 0 + i = i BY <1>2
  <2> QED BY <2>2, <2>3
<1>5. /\ b \in Seq(Byte) /\ Len(b) = write_ - TotalLen
      /\ \A i \in 1..(write_ - TotalLen) : b[i] = array_[TotalLen + i]
  <2>1. TotalLen \in 0..Len(array_) /\ write_ \in TotalLen..Len(array_)
    BY <1>1, <1>2, BufferFacts
  <2> QED BY <2>1, BufferFacts, Piece
<1> HIDE DEF m, b
<1>6. Consumed' = Consumed + TotalLen
  BY <1>2, <1>3, BufferFacts DEF Consumed, readable_length
<1>7. \A i \in 1..Len(m) : m[i] = Consumed + i
  BY <1>1, <1>2, <1>4, BufferFacts
<1>8. \A i \in 1..write_' : array_'[i] = Consumed' + i
  <2> SUFFICES ASSUME NEW i \in 1..write_' PROVE array_'[i] = Consumed' + i OBVIOUS
  <2>1. i \in 1..(write_ - TotalLen) /\ array_'[i] = array_[TotalLen + i]
    BY <1>3, <1>5
  <2>2. TotalLen + i \in 1..write_ BY <2>1, <1>1, <1>2, BufferFacts
  <2>3. array_[TotalLen + i] = fed - write_ + (TotalLen + i) BY <2>2, BufferFacts
  <2>4. Consumed' = fed - write_ + TotalLen BY <1>6, BufferFacts
  <2> HIDE DEF Consumed, TotalLen
  <2> QED BY <2>1, <2>3, <2>4, <1>2, BufferFacts
<1>9. write_' \in Nat BY <1>1, <1>2, <1>3, BufferFacts
<1> QED BY <1>2, <1>3, <1>4, <1>5, <1>6, <1>7, <1>8, <1>9

(* Taking a message keeps the invariant.                                    *)
LEMMA TakeInv ==
    ASSUME ParserInv, Take
    PROVE  ParserInv'
<1>1. PICK m \in Seq(Byte) :
          /\ messages' = Append(messages, [head |-> Consumed + 1, bytes |-> m])
          /\ Len(m) = TotalLen /\ Consumed + 1 \in Byte
          /\ \A i \in 1..Len(m) : m[i] = Consumed + i
          /\ stream[Consumed + 1] = Len(m)
          /\ Consumed' = Consumed + Len(m)
  BY TakeFacts
<1>2. stream' = stream /\ fed' = fed /\ size_' = size_ /\ decoding' = decoding
      /\ result' = result
  BY DEF Take
<1>3. messages \in Seq(Message) BY DEF ParserInv, TypeOK, Byte, Message
<1> DEFINE c == Len(messages)
<1> DEFINE new == [head |-> Consumed + 1, bytes |-> m]
<1>a. new \in Message /\ new.head = Consumed + 1 /\ new.bytes = m BY <1>1 DEF Message
<1> HIDE DEF new
<1>4. /\ c \in Nat /\ messages' \in Seq(Message) /\ Len(messages') = c + 1
      /\ messages'[c + 1] = new /\ \A k \in 1..c : messages'[k] = messages[k]
  <2>1. messages' = Append(messages, new) BY <1>1 DEF new
  <2> QED BY <2>1, <1>a, <1>3, AppendProperties
<1>5. Consumed \in Int /\ Len(m) \in Nat
  BY SizesAssumption, BufferFacts
<1>6. \A k \in 1..c : messages[k].head \in Int /\ Len(messages[k].bytes) \in Nat
  <2> TAKE k \in 1..c
  <2>1. messages[k] \in Message BY <1>3
  <2>2. messages[k].head \in Byte /\ messages[k].bytes \in Seq(Byte) BY <2>1 DEF Message
  <2>3. Len(messages[k].bytes) \in Nat BY <2>2, LenProperties
  <2> QED BY <2>2, <2>3 DEF Byte
<1> HIDE DEF c
<1>7. TypeOK'
  <2>1. array_' \in Seq(1..MaxStream) BY TakeFacts DEF Byte
  <2>2. messages' \in Seq([head : 1..MaxStream, bytes : Seq(1..MaxStream)]) BY <1>4 DEF Byte, Message
  <2>3. write_' \in Nat /\ read_' \in Nat /\ read_' <= write_' /\ Len(array_') = write_'
    BY TakeFacts
  <2> QED BY <2>1, <2>2, <2>3, <1>2 DEF TypeOK, ParserInv
<1>8. Consumed = IF c = 0 THEN 0 ELSE messages[c].head + Len(messages[c].bytes) - 1
  BY <1>3 DEF c, ParserInv, BufferIsRest
<1>10. messages'[1].head = 1
  <2>1. CASE c = 0 BY <2>1, <1>4, <1>a, <1>8
  <2>2. CASE c # 0
    <3>1. messages # <<>> /\ 1 \in 1..c BY <2>2, <1>4 DEF c
    <3> QED BY <3>1, <1>4 DEF ParserInv, Framed
  <2> QED BY <2>1, <2>2
<1>11. \A k \in 1..(c + 1) :
          /\ Len(messages'[k].bytes) = stream'[messages'[k].head]
          /\ \A i \in 1..Len(messages'[k].bytes) : messages'[k].bytes[i] = messages'[k].head + i - 1
  <2> TAKE k \in 1..(c + 1)
  <2>1. CASE k \in 1..c BY <2>1, <1>2, <1>4 DEF c, ParserInv, Framed
  <2>2. CASE k = c + 1
    <3>1. Len(m) = stream[new.head] BY <1>1, <1>a
    <3>2. \A i \in 1..Len(m) : m[i] = new.head + i - 1 BY <1>1, <1>5, <1>a
    <3> QED BY <2>2, <3>1, <3>2, <1>2, <1>4, <1>a
  <2>3. k \in 1..c \/ k = c + 1 BY <1>4
  <2> QED BY <2>1, <2>2, <2>3, Zenon
<1>12. \A k \in 1..c : messages'[k + 1].head = messages'[k].head + Len(messages'[k].bytes)
  <2> TAKE k \in 1..c
  <2>1. CASE k = c
    <3>1. /\ messages'[k + 1] = new /\ messages'[k] = messages[c] /\ c # 0 /\ c \in 1..c
      BY <2>1, <1>4
    <3>2. messages[c].head \in Int /\ Len(messages[c].bytes) \in Nat BY <3>1, <1>6
    <3> QED BY <3>1, <3>2, <1>5, <1>a, <1>8
  <2>2. CASE k # c
    <3>1. k \in 1..(c - 1) /\ k + 1 \in 1..c BY <2>2, <1>4
    <3> QED BY <3>1, <1>4 DEF c, ParserInv, Framed
  <2> QED BY <2>1, <2>2
<1>13. Framed'
  <2>1. Len(messages') - 1 = c BY <1>4
  <2> QED BY <2>1, <1>4, <1>10, <1>11, <1>12 DEF Framed
<1>14. BufferIsRest'
  <2>1. readable_length' = write_' BY TakeFacts DEF readable_length
  <2>2. \A i \in 1..readable_length' : array_'[read_' + i] = Consumed' + i
    BY <2>1, TakeFacts
  <2>3. messages' # <<>> BY <1>4
  <2>4. Consumed' = new.head + Len(new.bytes) - 1 BY <1>1, <1>5, <1>a
  <2> QED BY <2>2, <2>3, <2>4, <1>4 DEF BufferIsRest
<1> QED BY <1>4, <1>7, <1>13, <1>14, TakeFacts DEF ParserInv

(* The remaining steps keep the invariant.                                  *)
LEMMA OthersInv ==
    ASSUME ParserInv, AllocFails \/ Wait \/ UNCHANGED parser_vars
    PROVE  ParserInv'
<1>1. /\ UNCHANGED <<stream, bufs, fed, messages>>
      /\ decoding' \in BOOLEAN /\ result' \in {"parse_ok", "parse_error"}
  BY DEF AllocFails, Wait, parser_vars, bufs, ReadAfterError, ParserInv, TypeOK
<1>2. TypeOK' BY <1>1 DEF ParserInv, TypeOK, bufs
<1>3. Framed' /\ BufferIsRest'
  BY <1>1 DEF ParserInv, Framed, BufferIsRest, Consumed, readable_length, bufs
<1> QED BY <1>1, <1>2, <1>3 DEF ParserInv, bufs

(* The invariant the properties of the parser follow from.                  *)
THEOREM ParserCorrect == ParserSpec => []ParserInv
<1>1. ParserInv /\ [ParserNext]_parser_vars => ParserInv'
  <2> SUFFICES ASSUME ParserInv, [ParserNext]_parser_vars PROVE ParserInv' OBVIOUS
  <2>1. CASE \E n \in 1..MaxRecv : Receive(n) BY <2>1, ReceiveInv
  <2>2. CASE Take BY <2>2, TakeInv
  <2>3. CASE AllocFails \/ Wait \/ UNCHANGED parser_vars BY <2>3, OthersInv
  <2> QED BY <2>1, <2>2, <2>3 DEF ParserNext
<1> QED BY InitInv, <1>1, PTL DEF ParserSpec

(* However the stream is cut into reads, the messages delivered are its     *)
(* frames, in order and without holes.                                      *)
THEOREM FramedHolds == ParserSpec => []Framed
<1>1. ParserInv => Framed BY DEF ParserInv
<1> QED BY <1>1, ParserCorrect, PTL

(* The buffer holds what was received and not delivered, no more, no less.  *)
THEOREM BufferIsRestHolds == ParserSpec => []BufferIsRest
<1>1. ParserInv => BufferIsRest BY DEF ParserInv
<1> QED BY <1>1, ParserCorrect, PTL

-----------------------------------------------------------------------------
(* Between two reads no whole frame is buffered, and after an error the     *)
(* frame that was refused is still at the head of the buffer.               *)
ErrorStays ==
    result = "parse_error" => HasLength /\ HasFrame /\ TotalLen >= MaxAlloc

LoopInv == ParserInv /\ NoMessageWaits /\ ErrorStays

(* Data that arrives behind a length that was read does not change it.      *)
LEMMA HeadKept ==
    ASSUME ParserInv, NEW n \in 1..MaxRecv, Receive(n), HasLength
    PROVE  HasLength' /\ TotalLen' = TotalLen /\ (HasFrame => HasFrame')
<1>1. ParserInv' BY ReceiveInv
<1>2. /\ write_' = write_ + n /\ fed' = fed + n /\ stream' = stream /\ n \in Nat
      /\ read_ = 0 /\ read_' = 0
  BY SizesAssumption DEF Receive, ParserInv
<1>3. readable_length = write_ /\ readable_length' = write_ + n /\ write_ \in Nat
  BY <1>2, BufferFacts DEF readable_length
<1>4. HasLength' BY <1>2, <1>3, HeadFacts DEF HasLength
<1>5. HeadPos = fed - write_ + 1 BY HeadFacts
<1>6. HeadPos' = fed' - write_' + 1
  <2>1. array_'[1] = fed' - write_' + 1
    <3>1. \A i \in 1..readable_length' : array_'[read_' + i] = Consumed' + i
      BY <1>1 DEF ParserInv, BufferIsRest
    <3>2. Consumed' = fed' - write_' BY <1>2, <1>3, BufferFacts DEF Consumed
    <3>3. 1 \in 1..readable_length' BY <1>2, <1>3, HeadFacts
    <3>4. array_'[0 + 1] = Consumed' + 1 BY <1>2, <3>1, <3>3
    <3> QED BY <3>2, <3>4
  <2> QED BY <1>2, <2>1 DEF HeadPos
<1>7. HeadPos' = HeadPos BY <1>2, <1>5, <1>6, BufferFacts
<1>8. TotalLen' = TotalLen BY <1>2, <1>7 DEF TotalLen
<1>9. HasFrame => HasFrame' BY <1>2, <1>3, <1>8, HeadFacts DEF HasFrame
<1> QED BY <1>4, <1>8, <1>9

(* What holds between the iterations of the parse loop.                     *)
THEOREM LoopCorrect == ParserSpec => []LoopInv
<1>1. ParserInit => LoopInv
  BY InitInv, SizesAssumption
     DEF LoopInv, NoMessageWaits, ErrorStays, ParserInit, readable_length
<1>2. LoopInv /\ [ParserNext]_parser_vars => LoopInv'
  <2> SUFFICES ASSUME LoopInv, [ParserNext]_parser_vars PROVE LoopInv' OBVIOUS
  <2>1. ParserInv BY DEF LoopInv
  <2>2. ASSUME NEW n \in 1..MaxRecv, Receive(n) PROVE LoopInv'
    <3>1. ParserInv' BY <2>1, <2>2, ReceiveInv
    <3>2. decoding' = TRUE /\ result' = result BY <2>2 DEF Receive
    <3>3. ErrorStays' BY <2>1, <2>2, <3>2, HeadKept DEF LoopInv, ErrorStays
    <3> QED BY <3>1, <3>2, <3>3 DEF LoopInv, NoMessageWaits
  <2>3. CASE Take
    <3>1. ParserInv' BY <2>1, <2>3, TakeInv
    <3>2. decoding' = TRUE /\ result' = result /\ TotalLen < MaxAlloc /\ HasLength
      BY <2>3 DEF Take
    <3>3. result # "parse_error"
      BY <2>1, <3>2, HeadFacts, SizesAssumption DEF LoopInv, ErrorStays
    <3> QED BY <3>1, <3>2, <3>3 DEF LoopInv, NoMessageWaits, ErrorStays
  <2>4. CASE AllocFails
    <3>1. ParserInv' BY <2>1, <2>4, OthersInv
    <3>2. HasLength' /\ HasFrame' /\ TotalLen' >= MaxAlloc /\ result' = "parse_error"
      BY <2>4 DEF AllocFails, ReadAfterError, HasLength, HasFrame, TotalLen, HeadPos,
                  readable_length
    <3> QED BY <3>1, <3>2 DEF LoopInv, NoMessageWaits, ErrorStays
  <2>5. CASE Wait
    <3>1. ParserInv' BY <2>1, <2>5, OthersInv
    <3>2. /\ UNCHANGED <<stream, array_, read_, write_>>
          /\ result' = "parse_ok" /\ (HasLength => ~HasFrame)
      BY <2>5 DEF Wait, Incomplete, bufs
    <3>3. HasLength => readable_length < stream[array_[read_ + 1]]
      BY <2>1, <3>2, HeadFacts, BufferFacts DEF HasFrame, TotalLen, HeadPos
    <3>4. NoMessageWaits'
      BY <3>2, <3>3 DEF NoMessageWaits, HasLength, readable_length
    <3> QED BY <3>1, <3>2, <3>4 DEF LoopInv, ErrorStays
  <2>6. CASE UNCHANGED parser_vars
    <3>1. ParserInv' BY <2>1, <2>6, OthersInv
    <3> QED BY <3>1, <2>6 DEF LoopInv, NoMessageWaits, ErrorStays, HasLength, HasFrame,
                              TotalLen, HeadPos, readable_length, parser_vars, bufs
  <2> QED BY <2>2, <2>3, <2>4, <2>5, <2>6 DEF ParserNext
<1> QED BY <1>1, <1>2, PTL DEF ParserSpec

(* A message is delivered with the read that completes it: none is left in  *)
(* the buffer when the session goes back to reading.                        *)
THEOREM NoMessageWaitsHolds == ParserSpec => []NoMessageWaits
<1>1. LoopInv => NoMessageWaits BY DEF LoopInv
<1> QED BY <1>1, LoopCorrect, PTL

(* After parse_error no message is delivered any more. *)
THEOREM ErrorIsFinalHolds == ParserSpec => ErrorIsFinal
<1>1. LoopInv /\ [ParserNext]_parser_vars => [result = "parse_error" => messages' = messages]_parser_vars
  <2> SUFFICES ASSUME LoopInv, [ParserNext]_parser_vars, result = "parse_error"
               PROVE  messages' = messages
    OBVIOUS
  <2>1. ParserInv BY DEF LoopInv
  <2>2. CASE \E n \in 1..MaxRecv : Receive(n) BY <2>2 DEF Receive
  <2>3. CASE Take
    <3>1. HasLength /\ TotalLen < MaxAlloc /\ TotalLen >= MaxAlloc
      BY <2>3 DEF Take, LoopInv, ErrorStays
    <3> QED BY <2>1, <3>1, HeadFacts, SizesAssumption
  <2>4. CASE AllocFails \/ Wait \/ UNCHANGED parser_vars BY <2>4 DEF AllocFails, Wait, parser_vars
  <2> QED BY <2>2, <2>3, <2>4 DEF ParserNext
<1> QED BY <1>1, LoopCorrect, PTL DEF ParserSpec, ErrorIsFinal

-----------------------------------------------------------------------------
(* append() doubles the array once.  That is enough as long as a read is no *)
(* larger than the array was at first.                                      *)
CapacityInv == size_ >= InitSize /\ WithinCapacity

(* What append() writes fits in the array, when a read is no larger than    *)
(* buffer_stream's first allocation (the code's is a quarter of a read).    *)
THEOREM WithinCapacityHolds == MaxRecv <= InitSize => (ParserSpec => []WithinCapacity)
<1> SUFFICES ASSUME MaxRecv <= InitSize PROVE ParserSpec => []WithinCapacity OBVIOUS
<1>1. ParserInit => CapacityInv BY SizesAssumption DEF ParserInit, CapacityInv, WithinCapacity
<1>2. ParserInv /\ CapacityInv /\ [ParserNext]_parser_vars => CapacityInv'
  <2> SUFFICES ASSUME ParserInv, CapacityInv, [ParserNext]_parser_vars PROVE CapacityInv' OBVIOUS
  <2>1. /\ size_ \in Nat /\ write_ \in Nat /\ write_ <= size_ /\ size_ >= InitSize
        /\ InitSize \in Nat /\ MaxRecv \in Nat
    BY SizesAssumption DEF ParserInv, TypeOK, CapacityInv, WithinCapacity
  <2>2. CASE \E n \in 1..MaxRecv : Receive(n)
    BY <2>1, <2>2 DEF Receive, Grown, writeable_length, CapacityInv, WithinCapacity
  <2>3. CASE Take
    <3>1. TotalLen \in Nat BY <2>3, HeadFacts DEF Take
    <3> QED BY <2>1, <2>3, <3>1, TakeFacts DEF Take, CapacityInv, WithinCapacity
  <2>4. CASE AllocFails \/ Wait \/ UNCHANGED parser_vars
    BY <2>1, <2>4 DEF AllocFails, Wait, parser_vars, bufs, CapacityInv, WithinCapacity
  <2> QED BY <2>2, <2>3, <2>4 DEF ParserNext
<1>3. CapacityInv => WithinCapacity BY DEF CapacityInv
<1> QED BY <1>1, <1>2, <1>3, ParserCorrect, PTL DEF ParserSpec
=============================================================================
