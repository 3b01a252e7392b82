--------------------------- MODULE LockFreeQueueProofs ---------------------------
(***************************************************************************)
(* Theorems about LockFreeQueue with one producer and any number of         *)
(* consumers, for rings of any size and any number of calls.                *)
(***************************************************************************)
EXTENDS LockFreeQueue, SequenceTheorems, TLAPS

(* The producers are at most one.  (With two, Fifo fails: LockFreeQueue.)   *)
OneProducer == \A p, q \in Producer : p = q

-----------------------------------------------------------------------------
(* The parts of the invariant.                                              *)

Labels == {"idle", "full", "full_other", "load", "reserved", "exchange", "assign",
           "assigning", "publish", "empty", "empty_other", "done", "told_none",
           "index", "read", "take"}
Operands == {"none", "enqueue", "dequeue", "index"}
QueueTypes ==
    /\ m_enqueue_num \in Int /\ m_dequeue_num \in Nat
    /\ m_data \in [Slot -> Value \cup {Torn}]
    /\ pc \in [Thread -> Labels]
    /\ operand \in [Thread -> [of : Operands, num : Int]]
    /\ old_num \in [Thread -> Int]
    /\ value \in [Consumer -> Value \cup {Torn}]
    /\ calls \in [Producer -> 0..MaxCalls]
    /\ enqueued \in Seq(Value) /\ dequeued \in Seq(Value \cup {Torn})

Inside(p) == pc[p] \in {"assign", "assigning", "publish"}

(* The counters say how many values went in and came out, and each value    *)
(* that is published and not taken is in its slot.                          *)
Counted ==
    /\ m_enqueue_num \in {Reserved, Len(enqueued)}
    /\ m_enqueue_num = Reserved <=> \E p \in Producer : Inside(p)
    /\ m_dequeue_num = Len(dequeued) /\ Len(dequeued) <= Published
    /\ \A i \in 1..Len(dequeued) : dequeued[i] = enqueued[i]
    /\ \A i \in Len(dequeued)..(Published - 1) : m_data[Index(i)] = enqueued[i + 1]

(* What producer p has learnt of the counters stays true: consumers only    *)
(* make room.                                                               *)
Producing(p) ==
    /\ pc[p] = "full_other" =>
        /\ operand[p].of = "enqueue" => operand[p].num = Len(enqueued)
        /\ operand[p].of = "dequeue" => operand[p].num <= Len(dequeued)
        /\ operand[p].of \in {"enqueue", "dequeue"}
    /\ pc[p] \in {"load", "reserved", "exchange"} => Len(enqueued) - Len(dequeued) < Size
    /\ pc[p] \in {"reserved", "exchange"} => old_num[p] = Len(enqueued)
    /\ Inside(p) =>
        /\ Len(enqueued) > 0 /\ old_num[p] = Len(enqueued) - 1
        /\ old_num[p] - Len(dequeued) < Size
        /\ enqueued[Len(enqueued)] = <<p, calls[p]>>
    /\ pc[p] = "publish" => m_data[Index(old_num[p])] = <<p, calls[p]>>

(* What consumer c has learnt: its old_num was the counter, the slot it     *)
(* reads was published, and while nobody else takes the value it has read   *)
(* the right one.                                                           *)
Consuming(c) ==
    /\ pc[c] \in {"empty", "empty_other", "index", "read", "take"} =>
        old_num[c] \in 0..Len(dequeued)
    /\ pc[c] = "empty_other" =>
        /\ operand[c].of = "enqueue" => operand[c].num <= Published
        /\ operand[c].of = "dequeue" => operand[c].num >= old_num[c]
        /\ operand[c].of \in {"enqueue", "dequeue"}
    /\ pc[c] \in {"index", "read", "take"} => old_num[c] < Published
    /\ pc[c] = "read" => operand[c].num \in old_num[c]..Len(dequeued)
    /\ pc[c] = "take" /\ old_num[c] = Len(dequeued) => value[c] = enqueued[old_num[c] + 1]

QueueInv ==
    /\ QueueTypes /\ Counted
    /\ \A p \in Producer : Producing(p)
    /\ \A c \in Consumer : Consuming(c)

-----------------------------------------------------------------------------
(* The ring.                                                                *)

(* Two numbers that are less than Size apart have slots of their own.       *)
LEMMA OwnSlots ==
    ASSUME NEW a \in Nat, NEW b \in Nat, a < b, b - a < Size
    PROVE  Index(a) # Index(b)
<1> DEFINE x == a \div Size
<1> DEFINE y == b \div Size
<1> SUFFICES ASSUME a % Size = b % Size PROVE FALSE
  BY DEF Index
<1>1. /\ a = Size * x + (a % Size) /\ b = Size * y + (b % Size)
      /\ x \in Nat /\ y \in Nat /\ a % Size \in Nat /\ Size \in Nat \ {0}
  BY SizeAssumption
<1> HIDE DEF x, y
<1>2. Size * (y - x) = b - a BY <1>1
<1>3. CASE y <= x
  <2>1. Size * (y - x) <= 0 BY <1>1, <1>3
  <2> QED BY <2>1, <1>2
<1>4. CASE y > x
  <2>1. Size * (y - x) >= Size BY <1>1, <1>4
  <2> QED BY <2>1, <1>2, <1>1
<1> QED BY <1>1, <1>3, <1>4

(* Every number has a slot. *)
LEMMA HasSlot == ASSUME NEW a \in Nat PROVE Index(a) \in Slot
  BY SizeAssumption DEF Index, Slot

(* A queue that was just made, or cleared, is empty. *)
LEMMA QueueStarts == Init => QueueInv
<1> SUFFICES ASSUME Init PROVE QueueInv
  OBVIOUS
<1>1. QueueTypes
  <2>1. None \in [of : Operands, num : Int] /\ NoNum \in Int BY DEF None, NoNum, Operands
  <2> QED BY <2>1, SizesAssumption DEF Init, QueueTypes, Labels
<1>2. Counted
  <2>1. Len(enqueued) = 0 /\ Len(dequeued) = 0 /\ Published = 0 BY DEF Init, Published, Reserved
  <2> QED BY <2>1, ThreadsAssumption DEF Init, Counted, Inside, Thread, Reserved
<1>3. \A p \in Producer : Producing(p) BY DEF Init, Producing, Inside, Thread
<1>4. \A c \in Consumer : Consuming(c) BY DEF Init, Consuming, Thread
<1> QED BY <1>1, <1>2, <1>3, <1>4 DEF QueueInv

-----------------------------------------------------------------------------
(* What the steps of others leave true.                                     *)

(* The values that went in stay, and others may follow. *)
Grows == /\ Len(enqueued) <= Len(enqueued') /\ Len(enqueued') \in Nat
         /\ \A i \in 1..Len(enqueued) : enqueued'[i] = enqueued[i]

(* A consumer does not mind that values are published, or taken by others.  *)
LEMMA ConsumerKept ==
    ASSUME QueueInv, NEW c \in Consumer, Grows,
           Published <= Published', Published' \in Int,
           Published <= Len(enqueued), Published \in Int,
           Len(dequeued) <= Len(dequeued'), Len(dequeued') \in Nat,
           pc'[c] = pc[c], operand'[c] = operand[c], old_num'[c] = old_num[c],
           value'[c] = value[c]
    PROVE  Consuming(c)'
<1>1. Len(dequeued) \in Nat /\ Len(enqueued) \in Nat /\ old_num[c] \in Int /\ operand[c].num \in Int
  BY DEF QueueInv, QueueTypes, Thread
<1>2. Consuming(c) BY DEF QueueInv
<1>3. pc[c] = "take" /\ old_num[c] = Len(dequeued)' => value[c] = enqueued'[old_num[c] + 1]
  <2> SUFFICES ASSUME pc[c] = "take", old_num[c] = Len(dequeued)'
               PROVE  value[c] = enqueued'[old_num[c] + 1]
    OBVIOUS
  <2>1. old_num[c] \in 0..Len(dequeued) /\ old_num[c] < Published BY <1>2 DEF Consuming
  <2>2. old_num[c] = Len(dequeued) BY <2>1, <1>1
  <2>3. old_num[c] + 1 \in 1..Len(enqueued) BY <2>1, <1>1
  <2> QED BY <2>2, <2>3, <1>2 DEF Consuming, Grows
<1> QED BY <1>1, <1>2, <1>3 DEF Consuming

(* A producer does not mind that consumers take values. *)
LEMMA ProducerKept ==
    ASSUME QueueInv, NEW p \in Producer,
           UNCHANGED <<enqueued, m_data, calls>>,
           Len(dequeued) <= Len(dequeued'), Len(dequeued') \in Nat,
           pc'[p] = pc[p], operand'[p] = operand[p], old_num'[p] = old_num[p]
    PROVE  Producing(p)' /\ (Inside(p)' <=> Inside(p))
<1>1. Len(dequeued) \in Nat /\ Len(enqueued) \in Nat /\ old_num[p] \in Int /\ operand[p].num \in Int /\ Size \in Nat
  BY SizeAssumption DEF QueueInv, QueueTypes, Thread
<1>2. Producing(p) BY DEF QueueInv
<1> QED BY <1>1, <1>2 DEF Producing, Inside

(* The lengths are numbers, and what is published went in.                  *)
LEMMA Lengths ==
    ASSUME QueueTypes
    PROVE  /\ Len(enqueued) \in Nat /\ Len(dequeued) \in Nat
           /\ Published \in Int /\ Published <= Len(enqueued)
<1>1. Len(enqueued) \in Nat /\ Len(dequeued) \in Nat BY DEF QueueTypes
<1> QED BY <1>1 DEF Published

(* A step of producer p keeps the invariant if it keeps p's own part of it. *)
LEMMA ByProducer ==
    ASSUME QueueInv, OneProducer, NEW p \in Producer,
           \A c \in Consumer : /\ pc'[c] = pc[c] /\ operand'[c] = operand[c]
                               /\ old_num'[c] = old_num[c],
           UNCHANGED <<value, dequeued>>, Grows, Published <= Published',
           QueueTypes', Counted', Producing(p)'
    PROVE  QueueInv'
<1>1. \A q \in Producer : Producing(q)' BY DEF OneProducer
<1>2. /\ Published \in Int /\ Published' \in Int /\ Published <= Len(enqueued)
      /\ Len(dequeued) \in Nat
  BY Lengths DEF QueueInv, QueueTypes, Published
<1>3. \A c \in Consumer : Consuming(c)'
  BY <1>2, ConsumerKept
<1> QED BY <1>1, <1>3 DEF QueueInv

(* So does a step of consumer c that keeps c's.                             *)
LEMMA ByConsumer ==
    ASSUME QueueInv, NEW c \in Consumer,
           \A t \in Thread \ {c} : /\ pc'[t] = pc[t] /\ operand'[t] = operand[t]
                                   /\ old_num'[t] = old_num[t],
           \A d \in Consumer \ {c} : value'[d] = value[d],
           UNCHANGED <<m_enqueue_num, m_data, calls, enqueued>>,
           Len(dequeued) <= Len(dequeued'), Len(dequeued') <= Published,
           m_dequeue_num' = Len(dequeued)',
           \A i \in 1..Len(dequeued') : dequeued'[i] = enqueued[i],
           QueueTypes', Consuming(c)'
    PROVE  QueueInv'
<1>1. /\ Published \in Int /\ Published <= Len(enqueued) /\ Len(enqueued) \in Nat
      /\ Len(dequeued) \in Nat /\ Len(dequeued') \in Nat
  BY Lengths DEF QueueInv, QueueTypes
<1>2. Published' = Published BY DEF Published
<1>3. \A p \in Producer : Producing(p)' /\ (Inside(p)' <=> Inside(p))
  <2>1. \A p \in Producer : p \in Thread \ {c} BY ThreadsAssumption DEF Thread
  <2> QED BY <2>1, <1>1, ProducerKept
<1>4. \A d \in Consumer \ {c} : Consuming(d)'
  <2>1. Grows BY <1>1 DEF Grows
  <2>2. \A d \in Consumer \ {c} : d \in Thread \ {c} BY DEF Thread
  <2>3. Published <= Published' BY <1>1, <1>2
  <2> QED BY <2>1, <2>2, <2>3, <1>1, <1>2, ConsumerKept
<1>5. Counted'
  <2>1. Len(dequeued)' <= Published' BY <1>2
  <2>2. \A i \in Len(dequeued')..(Published' - 1) : m_data'[Index(i)] = enqueued'[i + 1]
    BY <1>1, <1>2 DEF QueueInv, Counted, Index
  <2> QED BY <1>3, <2>1, <2>2 DEF QueueInv, Counted
<1> QED BY <1>3, <1>4, <1>5 DEF QueueInv

-----------------------------------------------------------------------------
(* Enqueue.                                                                 *)

(* The steps of producer p that move no counter and assign to no slot.      *)
LEMMA ProducerMoves ==
    ASSUME QueueInv, OneProducer, NEW p \in Producer, NEW to \in Labels,
           pc' = [pc EXCEPT ![p] = to],
           Inside(p) <=> to \in {"assign", "assigning", "publish"},
           \A t \in Thread \ {p} : operand'[t] = operand[t] /\ old_num'[t] = old_num[t],
           operand' \in [Thread -> [of : Operands, num : Int]],
           old_num' \in [Thread -> Int], calls' \in [Producer -> 0..MaxCalls],
           UNCHANGED <<nums, m_data, value, hist>>, Producing(p)'
    PROVE  QueueInv'
<1>1. QueueTypes' BY DEF QueueInv, QueueTypes, nums, hist
<1>2. Published' = Published /\ Published \in Int BY Lengths DEF Published, nums, hist, QueueInv
<1>3. Grows BY Lengths DEF Grows, hist, QueueInv
<1>4. \A q \in Producer : q = p /\ (Inside(q)' <=> Inside(q))
  BY DEF OneProducer, Inside, QueueInv, QueueTypes, Thread
<1>5. Counted' BY <1>2, <1>4 DEF QueueInv, Counted, nums, hist, Index
<1>6. \A c \in Consumer : c \in Thread \ {p} /\ pc'[c] = pc[c]
  BY ThreadsAssumption DEF Thread, QueueInv, QueueTypes
<1> QED BY <1>1, <1>2, <1>3, <1>5, <1>6, ByProducer DEF hist

(* A producer that calls, waits for room, or looks at m_enqueue_num         *)
(* (lockfree_queue.hpp:75): what it learnt stays true.                      *)
LEMMA EnqueueLooks ==
    ASSUME QueueInv, OneProducer, NEW p \in Producer,
           \/ EnqueueCall(p) \/ LoadOperand(p, "full", "full_other") \/ WaitFull(p)
           \/ LoadEnqueueNum(p) \/ WaitReserved(p) \/ ReserveFails(p)
    PROVE  QueueInv'
<1> USE DEF Goto, Inside
<1>0. /\ p \in Thread /\ Len(enqueued) \in Nat /\ Len(dequeued) \in Nat /\ Size \in Nat
      /\ pc \in [Thread -> Labels] /\ operand \in [Thread -> [of : Operands, num : Int]]
      /\ old_num \in [Thread -> Int] /\ calls \in [Producer -> 0..MaxCalls]
      /\ m_enqueue_num \in Int /\ m_dequeue_num \in Nat
  BY SizeAssumption DEF QueueInv, QueueTypes, Thread
<1>1. Producing(p) BY DEF QueueInv
<1>2. ~Inside(p) => m_enqueue_num = Len(enqueued) BY DEF QueueInv, Counted, OneProducer
<1>3. m_dequeue_num = Len(dequeued) BY DEF QueueInv, Counted
<1>4. CASE EnqueueCall(p)
  <2>1. Producing(p)' BY <1>0, <1>4 DEF EnqueueCall, Producing
  <2>2. calls' \in [Producer -> 0..MaxCalls]
    <3>1. calls[p] + 1 \in 0..MaxCalls BY <1>0, <1>4, SizesAssumption DEF EnqueueCall
    <3>2. calls' = [calls EXCEPT ![p] = calls[p] + 1] BY <1>4 DEF EnqueueCall
    <3> QED BY <1>0, <3>1, <3>2
  <2>3. "full" \in Labels BY DEF Labels
  <2> QED BY <1>0, <1>4, <2>1, <2>2, <2>3, ProducerMoves DEF EnqueueCall
<1>5. CASE LoadOperand(p, "full", "full_other")
  <2>1. operand' \in [Thread -> [of : Operands, num : Int]]
    <3>1. PICK r \in [of : Operands, num : Int] : operand' = [operand EXCEPT ![p] = r]
      <4>1. /\ [of |-> "enqueue", num |-> m_enqueue_num] \in [of : Operands, num : Int]
            /\ [of |-> "dequeue", num |-> m_dequeue_num] \in [of : Operands, num : Int]
        BY <1>0 DEF Operands
      <4> QED BY <4>1, <1>5 DEF LoadOperand
    <3> QED BY <1>0, <3>1
  <2>2. Producing(p)' BY <1>0, <1>1, <1>2, <1>3, <1>5 DEF LoadOperand, Producing, hist
  <2>3. \A t \in Thread \ {p} : operand'[t] = operand[t] BY <1>0, <1>5 DEF LoadOperand
  <2>4. "full_other" \in Labels BY DEF Labels
  <2> QED BY <1>0, <1>5, <2>1, <2>2, <2>3, <2>4, ProducerMoves DEF LoadOperand
<1>6. CASE WaitFull(p)
  <2>1. operand' \in [Thread -> [of : Operands, num : Int]]
    BY <1>0, <1>6 DEF WaitFull, Operands, None
  <2>2. pc'[p] = "load" => Len(enqueued) - Len(dequeued) < Size
    <3> SUFFICES ASSUME ~Full(p) PROVE Len(enqueued) - Len(dequeued) < Size
      BY <1>0, <1>6 DEF WaitFull
    <3>1. pc[p] = "full_other" BY <1>6 DEF WaitFull
    <3>2. EnqueueOperand(p) = Len(enqueued) BY <3>1, <1>1, <1>2 DEF EnqueueOperand, Producing
    <3>3. DequeueOperand(p) <= Len(dequeued) /\ DequeueOperand(p) \in Int
      BY <3>1, <1>0, <1>1, <1>3 DEF DequeueOperand, Producing
    <3> QED BY <1>0, <3>2, <3>3 DEF Full
  <2>3. pc'[p] \in {"full", "load"} BY <1>0, <1>6 DEF WaitFull
  <2>4. Producing(p)' BY <2>2, <2>3, <1>6 DEF WaitFull, Producing, hist
  <2>5. \A t \in Thread \ {p} : operand'[t] = operand[t] BY <1>0, <1>6 DEF WaitFull
  <2>6. "full" \in Labels /\ "load" \in Labels BY DEF Labels
  <2> QED BY <1>0, <1>6, <2>1, <2>4, <2>5, <2>6, ProducerMoves DEF WaitFull
<1>7. CASE LoadEnqueueNum(p)
  <2>1. old_num' \in [Thread -> Int] BY <1>0, <1>7 DEF LoadEnqueueNum
  <2>2. Producing(p)' BY <1>0, <1>1, <1>2, <1>7 DEF LoadEnqueueNum, Producing, hist
  <2>3. \A t \in Thread \ {p} : old_num'[t] = old_num[t] BY <1>0, <1>7 DEF LoadEnqueueNum
  <2>4. "reserved" \in Labels BY DEF Labels
  <2> QED BY <1>0, <1>7, <2>1, <2>2, <2>3, <2>4, ProducerMoves DEF LoadEnqueueNum
<1>8. CASE WaitReserved(p) \/ ReserveFails(p)
  <2>1. PICK to \in {"load", "exchange"} : pc' = [pc EXCEPT ![p] = to]
    BY <1>8 DEF WaitReserved, ReserveFails
  <2>2. /\ pc[p] \in {"reserved", "exchange"}
        /\ UNCHANGED <<nums, m_data, flags, operand, old_num, value, calls, clears, hist>>
    BY <1>8 DEF WaitReserved, ReserveFails
  <2>3. Producing(p)' BY <1>0, <1>1, <2>1, <2>2 DEF Producing, hist
  <2>4. to \in Labels BY DEF Labels
  <2> QED BY <1>0, <2>1, <2>2, <2>3, <2>4, ProducerMoves
<1> QED BY <1>4, <1>5, <1>6, <1>7, <1>8

(* The compare-exchange of line 95: the value has its place in the order.   *)
LEMMA ReserveStep ==
    ASSUME QueueInv, OneProducer, NEW p \in Producer, Reserve(p)
    PROVE  QueueInv'
<1> USE DEF Inside
<1> DEFINE v == <<p, calls[p]>>
<1>0. /\ p \in Thread /\ Len(enqueued) \in Nat /\ Len(dequeued) \in Nat /\ Size \in Nat
      /\ enqueued \in Seq(Value) /\ v \in Value /\ pc \in [Thread -> Labels]
  BY SizeAssumption DEF QueueInv, QueueTypes, Thread, Value
<1>1. /\ pc[p] = "exchange" /\ pc' = [pc EXCEPT ![p] = "assign"]
      /\ m_enqueue_num' = Reserved /\ enqueued' = Append(enqueued, v)
      /\ UNCHANGED <<m_dequeue_num, m_data, operand, old_num, value, calls, dequeued>>
  BY DEF Reserve, Goto
<1>2. /\ enqueued' \in Seq(Value) /\ Len(enqueued') = Len(enqueued) + 1
      /\ enqueued'[Len(enqueued) + 1] = v
      /\ \A i \in 1..Len(enqueued) : enqueued'[i] = enqueued[i]
  BY <1>0, <1>1, AppendProperties
<1>3. m_enqueue_num = Len(enqueued) BY <1>1 DEF QueueInv, Counted, OneProducer
<1>4. Published = Len(enqueued) /\ Published' = Len(enqueued)
  BY <1>0, <1>1, <1>2, <1>3 DEF Published, Reserved
<1>5. pc'[p] = "assign" /\ \A c \in Consumer : c # p /\ c \in Thread /\ pc'[c] = pc[c]
  BY <1>0, <1>1, ThreadsAssumption DEF Thread
<1>6. QueueTypes'
  <2>1. pc' \in [Thread -> Labels] BY <1>0, <1>1 DEF Labels
  <2>2. m_enqueue_num' \in Int BY <1>1 DEF Reserved
  <2> QED BY <2>1, <2>2, <1>1, <1>2 DEF QueueInv, QueueTypes
<1>7. Counted'
  <2>1. Inside(p)' BY <1>5
  <2> QED BY <2>1, <1>0, <1>1, <1>2, <1>4 DEF QueueInv, Counted, Index
<1>8. Producing(p)' BY <1>0, <1>1, <1>2, <1>5 DEF QueueInv, Producing
<1>9. Grows BY <1>0, <1>2 DEF Grows
<1> QED BY <1>0, <1>1, <1>4, <1>5, <1>6, <1>7, <1>8, <1>9, ByProducer

(* The assignment of line 96: the slot holds no value that is not taken.    *)
LEMMA AssignStep ==
    ASSUME QueueInv, OneProducer, NEW p \in Producer, AssignBegins(p) \/ AssignEnds(p)
    PROVE  QueueInv'
<1> USE DEF Inside
<1>1. PICK to \in {"assigning", "publish"}, w \in {Torn, <<p, calls[p]>>} :
        /\ pc[p] \in {"assign", "assigning"} /\ pc' = [pc EXCEPT ![p] = to]
        /\ to = "publish" => w = <<p, calls[p]>>
        /\ m_data' = [m_data EXCEPT ![Index(old_num[p])] = w]
        /\ UNCHANGED <<nums, operand, old_num, value, calls, hist>>
  BY DEF AssignBegins, AssignEnds, Goto
<1>2. /\ p \in Thread /\ Len(enqueued) \in Nat /\ Len(dequeued) \in Nat /\ Size \in Nat
      /\ pc \in [Thread -> Labels] /\ m_data \in [Slot -> Value \cup {Torn}] /\ w \in Value \cup {Torn}
  BY SizeAssumption DEF QueueInv, QueueTypes, Thread, Value
<1>3. /\ Len(enqueued) > 0 /\ old_num[p] = Len(enqueued) - 1
      /\ old_num[p] - Len(dequeued) < Size /\ Producing(p)
  BY <1>1 DEF QueueInv, Producing
<1>4. old_num[p] \in Nat /\ Index(old_num[p]) \in Slot BY <1>2, <1>3, HasSlot
<1>5. Published = Len(enqueued) - 1 /\ Published' = Published
  BY <1>1 DEF QueueInv, Counted, Published, nums, hist
<1>6. \A i \in Len(dequeued)..(Published - 1) : m_data'[Index(i)] = m_data[Index(i)]
  <2> SUFFICES ASSUME NEW i \in Len(dequeued)..(Published - 1)
               PROVE  m_data'[Index(i)] = m_data[Index(i)]
    OBVIOUS
  <2>1. i \in Nat /\ i < old_num[p] /\ old_num[p] - i < Size BY <1>2, <1>3, <1>5
  <2>2. Index(i) # Index(old_num[p]) BY <2>1, <1>4, OwnSlots
  <2> QED BY <2>2, <1>1, <1>2, <1>4
<1>7. pc'[p] = to /\ \A c \in Consumer : c # p /\ c \in Thread /\ pc'[c] = pc[c]
  BY <1>1, <1>2, ThreadsAssumption DEF Thread
<1>8. QueueTypes'
  <2>1. pc' \in [Thread -> Labels] BY <1>1, <1>2 DEF Labels
  <2>2. m_data' \in [Slot -> Value \cup {Torn}] BY <1>1, <1>2
  <2> QED BY <2>1, <2>2, <1>1 DEF QueueInv, QueueTypes, nums, hist
<1>9. Counted'
  <2>1. Inside(p)' BY <1>7
  <2>2. Inside(p) BY <1>1
  <2> QED BY <2>1, <2>2, <1>1, <1>5, <1>6 DEF QueueInv, Counted, nums, hist, Index
<1>10. Producing(p)'
  <2>1. to = "publish" => m_data'[Index(old_num[p])] = <<p, calls[p]>> BY <1>1, <1>2, <1>4
  <2> QED BY <2>1, <1>1, <1>3, <1>7 DEF Producing, hist, Index
<1>11. Grows BY <1>1, <1>2 DEF Grows, hist
<1>12. Published <= Published' BY <1>2, <1>5
<1> QED BY <1>1, <1>7, <1>8, <1>9, <1>10, <1>11, <1>12, ByProducer DEF hist

(* The counter is set past the slot (line 97): its value may be taken.      *)
LEMMA PublishStep ==
    ASSUME QueueInv, OneProducer, NEW p \in Producer, Publish(p)
    PROVE  QueueInv'
<1> USE DEF Inside
<1>0. /\ p \in Thread /\ Len(enqueued) \in Nat /\ Len(dequeued) \in Nat
      /\ pc \in [Thread -> Labels] /\ old_num \in [Thread -> Int]
  BY DEF QueueInv, QueueTypes, Thread
<1>1. /\ pc[p] = "publish" /\ pc' = [pc EXCEPT ![p] = "idle"]
      /\ m_enqueue_num' = old_num[p] + 1 /\ old_num' = [old_num EXCEPT ![p] = NoNum]
      /\ UNCHANGED <<m_dequeue_num, m_data, operand, value, calls, enqueued, dequeued>>
  BY DEF Publish, Goto, hist
<1>2. /\ Len(enqueued) > 0 /\ old_num[p] = Len(enqueued) - 1
      /\ m_data[Index(old_num[p])] = enqueued[Len(enqueued)]
  BY <1>1 DEF QueueInv, Producing
<1>3. Published = Len(enqueued) - 1 /\ Published' = Len(enqueued) /\ m_enqueue_num' = Len(enqueued)
  <2>1. m_enqueue_num' = Len(enqueued) BY <1>0, <1>1, <1>2
  <2>2. Inside(p) BY <1>1
  <2>3. m_enqueue_num = Reserved BY <2>2 DEF QueueInv, Counted
  <2>4. Len(enqueued) # Reserved /\ enqueued' = enqueued BY <1>0, <1>1 DEF Reserved
  <2> QED BY <2>1, <2>3, <2>4 DEF Published
<1>4. \A t \in Thread \ {p} : pc'[t] = pc[t] /\ old_num'[t] = old_num[t] BY <1>0, <1>1
<1>5. pc'[p] = "idle" /\ \A c \in Consumer : c \in Thread \ {p}
  BY <1>0, <1>1, ThreadsAssumption DEF Thread
<1>6. QueueTypes' BY <1>0, <1>1, <1>3 DEF QueueInv, QueueTypes, Labels, NoNum
<1>7. Counted'
  <2>1. \A q \in Producer : ~Inside(q)' BY <1>5 DEF OneProducer
  <2>2. \A i \in Len(dequeued)..(Published' - 1) : m_data[Index(i)] = enqueued[i + 1]
    <3> SUFFICES ASSUME NEW i \in Len(dequeued)..(Published' - 1)
                 PROVE  m_data[Index(i)] = enqueued[i + 1]
      OBVIOUS
    <3>1. CASE i = old_num[p] BY <3>1, <1>0, <1>2
    <3>2. CASE i # old_num[p]
      <4>1. i \in Len(dequeued)..(Published - 1) BY <3>2, <1>0, <1>2, <1>3
      <4> QED BY <4>1 DEF QueueInv, Counted
    <3> QED BY <3>1, <3>2
  <2>3. Len(dequeued) <= Published' BY <1>0, <1>3 DEF QueueInv, Counted
  <2> QED BY <2>1, <2>2, <2>3, <1>0, <1>1, <1>3 DEF QueueInv, Counted, Reserved, Index
<1>8. Producing(p)' BY <1>5 DEF Producing
<1>9. Grows /\ Published <= Published' BY <1>0, <1>1, <1>3 DEF Grows
<1> QED BY <1>1, <1>4, <1>5, <1>6, <1>7, <1>8, <1>9, ByProducer

(* Every step of Enqueue keeps the invariant.                               *)
LEMMA EnqueueSteps ==
    ASSUME QueueInv, OneProducer, NEW p \in Producer, EnqueueCall(p) \/ Enqueue(p)
    PROVE  QueueInv'
  BY EnqueueLooks, ReserveStep, AssignStep, PublishStep DEF Enqueue

-----------------------------------------------------------------------------
(* Dequeue.                                                                 *)

(* The steps of consumer c that do not take a value.                        *)
LEMMA ConsumerMoves ==
    ASSUME QueueInv, NEW c \in Consumer, NEW to \in Labels,
           pc' = [pc EXCEPT ![c] = to],
           \A t \in Thread \ {c} : operand'[t] = operand[t] /\ old_num'[t] = old_num[t],
           \A d \in Consumer \ {c} : value'[d] = value[d],
           operand' \in [Thread -> [of : Operands, num : Int]],
           old_num' \in [Thread -> Int], value' \in [Consumer -> Value \cup {Torn}],
           UNCHANGED <<nums, m_data, calls, hist>>, Consuming(c)'
    PROVE  QueueInv'
<1>1. QueueTypes' BY DEF QueueInv, QueueTypes, nums, hist
<1>2. \A t \in Thread \ {c} : pc'[t] = pc[t] BY DEF QueueInv, QueueTypes
<1>3. Len(dequeued) \in Nat /\ Len(dequeued) <= Published BY DEF QueueInv, QueueTypes, Counted
<1>4. /\ m_dequeue_num' = Len(dequeued)' /\ Len(dequeued') = Len(dequeued)
      /\ \A i \in 1..Len(dequeued') : dequeued'[i] = enqueued[i]
  BY DEF QueueInv, Counted, nums, hist
<1> QED BY <1>1, <1>2, <1>3, <1>4, ByConsumer DEF nums, hist

(* A consumer that calls, looks at the counters or reads a slot             *)
(* (lockfree_queue.hpp:102): what it learnt was true, and a value it read   *)
(* is right unless another consumer was faster.                             *)
LEMMA DequeueLooks ==
    ASSUME QueueInv, NEW c \in Consumer,
           \/ DequeueCall(c) \/ LoadDequeueNum(c) \/ LoadOperand(c, "empty", "empty_other")
           \/ TestEmpty(c) \/ TestDone(c) \/ LoadIndex(c) \/ ReadSlot(c) \/ TakeFails(c)
    PROVE  QueueInv'
<1> USE DEF Goto
<1>0. /\ c \in Thread /\ Len(enqueued) \in Nat /\ Len(dequeued) \in Nat
      /\ Published \in Int /\ Published <= Len(enqueued) /\ Len(dequeued) <= Published
      /\ pc \in [Thread -> Labels] /\ operand \in [Thread -> [of : Operands, num : Int]]
      /\ old_num \in [Thread -> Int] /\ value \in [Consumer -> Value \cup {Torn}]
      /\ m_enqueue_num \in {Reserved, Len(enqueued)} /\ m_dequeue_num = Len(dequeued)
      /\ m_enqueue_num \in Int /\ m_enqueue_num <= Published
  <2>1. m_enqueue_num <= Published BY Lengths DEF QueueInv, Counted, Published, Reserved
  <2> QED BY <2>1, Lengths DEF QueueInv, QueueTypes, Thread, Counted
<1>1. Consuming(c) BY DEF QueueInv
<1>p. hist' = hist /\ nums' = nums => Published' = Published BY DEF hist, nums, Published
<1>l. {"load", "empty", "empty_other", "done", "told_none", "index", "read", "take"} \subseteq Labels
  BY DEF Labels
<1>2. CASE DequeueCall(c)
  <2>1. Consuming(c)' BY <1>0, <1>2 DEF DequeueCall, Consuming
  <2> QED BY <1>0, <1>l, <1>2, <2>1, ConsumerMoves DEF DequeueCall
<1>3. CASE LoadDequeueNum(c)
  <2>1. old_num' \in [Thread -> Int] /\ old_num'[c] = Len(dequeued) /\ pc'[c] = "empty"
    BY <1>0, <1>3 DEF LoadDequeueNum
  <2>2. Consuming(c)' BY <1>0, <1>3, <2>1 DEF LoadDequeueNum, Consuming, hist
  <2>3. \A t \in Thread \ {c} : old_num'[t] = old_num[t] BY <1>0, <1>3 DEF LoadDequeueNum
  <2> QED BY <1>0, <1>l, <1>3, <2>1, <2>2, <2>3, ConsumerMoves DEF LoadDequeueNum
<1>4. CASE LoadOperand(c, "empty", "empty_other")
  <2>1. /\ operand' \in [Thread -> [of : Operands, num : Int]]
        /\ operand'[c] \in {[of |-> "enqueue", num |-> m_enqueue_num], [of |-> "dequeue", num |-> m_dequeue_num]}
        /\ pc[c] = "empty" /\ pc'[c] = "empty_other"
        /\ UNCHANGED <<nums, old_num, value, hist>>
    <3>1. PICK o \in {[of |-> "enqueue", num |-> m_enqueue_num], [of |-> "dequeue", num |-> m_dequeue_num]} :
            operand' = [operand EXCEPT ![c] = o]
      BY <1>4 DEF LoadOperand
    <3>2. o \in [of : Operands, num : Int] BY <1>0 DEF Operands
    <3>3. operand' \in [Thread -> [of : Operands, num : Int]] /\ operand'[c] = o BY <1>0, <3>1, <3>2
    <3> QED BY <1>0, <1>4, <3>3 DEF LoadOperand
  <2>2. Consuming(c)' BY <1>0, <1>1, <1>p, <2>1 DEF Consuming, hist
  <2>3. \A t \in Thread \ {c} : operand'[t] = operand[t] BY <1>0, <1>4 DEF LoadOperand
  <2> QED BY <1>0, <1>l, <1>4, <2>1, <2>2, <2>3, ConsumerMoves DEF LoadOperand
<1>5. CASE TestEmpty(c)
  <2>1. /\ operand' \in [Thread -> [of : Operands, num : Int]]
        /\ pc[c] = "empty_other" /\ pc'[c] \in {"done", "index"}
        /\ pc' = [pc EXCEPT ![c] = pc'[c]]
        /\ UNCHANGED <<nums, old_num, value, hist>>
    BY <1>0, <1>5 DEF TestEmpty, Operands, None
  <2>2. pc'[c] = "index" => old_num[c] < Published
    <3> SUFFICES ASSUME ~Empty(c) PROVE old_num[c] < Published
      BY <1>0, <1>5 DEF TestEmpty
    <3>1. EnqueueOperand(c) <= Published /\ EnqueueOperand(c) \in Int
      BY <1>0, <1>1, <2>1 DEF EnqueueOperand, Consuming
    <3>2. old_num[c] <= DequeueOperand(c) /\ DequeueOperand(c) \in Int /\ old_num[c] \in Int
      BY <1>0, <1>1, <2>1 DEF DequeueOperand, Consuming
    <3> QED BY <1>0, <3>1, <3>2 DEF Empty
  <2>3. Consuming(c)' BY <1>0, <1>1, <1>p, <2>1, <2>2 DEF Consuming, hist
  <2>4. \A t \in Thread \ {c} : operand'[t] = operand[t] BY <1>0, <1>5 DEF TestEmpty
  <2> QED BY <1>0, <1>l, <1>5, <2>1, <2>3, <2>4, ConsumerMoves DEF TestEmpty
<1>6. CASE TestDone(c)
  <2>1. /\ old_num' \in [Thread -> Int]
        /\ pc'[c] \in {"told_none", "load"} /\ pc' = [pc EXCEPT ![c] = pc'[c]]
    BY <1>0, <1>6 DEF TestDone, NoNum
  <2>2. Consuming(c)' BY <2>1 DEF Consuming
  <2>3. \A t \in Thread \ {c} : old_num'[t] = old_num[t] BY <1>0, <1>6 DEF TestDone
  <2> QED BY <1>0, <1>l, <1>6, <2>1, <2>2, <2>3, ConsumerMoves DEF TestDone
<1>7. CASE LoadIndex(c)
  <2>1. /\ operand' \in [Thread -> [of : Operands, num : Int]] /\ operand'[c].num = Len(dequeued)
        /\ pc[c] = "index" /\ pc'[c] = "read"
        /\ UNCHANGED <<nums, old_num, value, hist>>
    BY <1>0, <1>7 DEF LoadIndex, Operands
  <2>2. Consuming(c)' BY <1>0, <1>1, <1>p, <2>1 DEF Consuming, hist
  <2>3. \A t \in Thread \ {c} : operand'[t] = operand[t] BY <1>0, <1>7 DEF LoadIndex
  <2> QED BY <1>0, <1>l, <1>7, <2>1, <2>2, <2>3, ConsumerMoves DEF LoadIndex
<1>8. CASE ReadSlot(c)
  <2> DEFINE i == operand[c].num
  <2>1. /\ operand' \in [Thread -> [of : Operands, num : Int]]
        /\ pc[c] = "read" /\ pc'[c] = "take"
        /\ value' = [value EXCEPT ![c] = m_data[Index(i)]]
        /\ UNCHANGED <<nums, old_num, hist>>
    BY <1>0, <1>8 DEF ReadSlot, Operands, None
  <2>2. /\ old_num[c] \in 0..Len(dequeued) /\ old_num[c] < Published
        /\ i \in old_num[c]..Len(dequeued) /\ i \in Nat
    BY <1>0, <1>1, <2>1 DEF Consuming
  <2>3. m_data[Index(i)] \in Value \cup {Torn}
    BY <2>2, HasSlot DEF QueueInv, QueueTypes
  <2>4. old_num[c] = Len(dequeued) => m_data[Index(i)] = enqueued[old_num[c] + 1]
    <3> SUFFICES ASSUME old_num[c] = Len(dequeued) PROVE m_data[Index(i)] = enqueued[old_num[c] + 1]
      OBVIOUS
    <3>1. i = old_num[c] /\ i \in Len(dequeued)..(Published - 1) BY <1>0, <2>2
    <3> QED BY <3>1 DEF QueueInv, Counted
  <2>5. value' \in [Consumer -> Value \cup {Torn}] /\ value'[c] = m_data[Index(i)]
    BY <1>0, <2>1, <2>3
  <2>6. Consuming(c)' BY <1>0, <1>p, <2>1, <2>2, <2>4, <2>5 DEF Consuming, hist
  <2>7. \A t \in Thread \ {c} : operand'[t] = operand[t] BY <1>0, <1>8 DEF ReadSlot
  <2>8. \A d \in Consumer \ {c} : value'[d] = value[d] BY <1>0, <2>1
  <2> QED BY <1>0, <1>l, <1>8, <2>1, <2>5, <2>6, <2>7, <2>8, ConsumerMoves DEF ReadSlot
<1>9. CASE TakeFails(c)
  <2>1. /\ old_num' \in [Thread -> Int] /\ value' \in [Consumer -> Value \cup {Torn}]
        /\ pc'[c] = "load"
    BY <1>0, <1>9 DEF TakeFails, NoNum
  <2>2. Consuming(c)' BY <2>1 DEF Consuming
  <2>3. /\ \A t \in Thread \ {c} : old_num'[t] = old_num[t]
        /\ \A d \in Consumer \ {c} : value'[d] = value[d]
    BY <1>0, <1>9 DEF TakeFails
  <2> QED BY <1>0, <1>l, <1>9, <2>1, <2>2, <2>3, ConsumerMoves DEF TakeFails
<1> QED BY <1>2, <1>3, <1>4, <1>5, <1>6, <1>7, <1>8, <1>9

(* The compare-exchange of line 124 succeeds for the consumer whose old_num *)
(* is still the counter: the value it read is the next one.                 *)
LEMMA TakeStep ==
    ASSUME QueueInv, NEW c \in Consumer, Take(c)
    PROVE  QueueInv' /\ dequeued' = Append(dequeued, enqueued[Len(dequeued) + 1])
<1>0. /\ c \in Thread /\ Len(enqueued) \in Nat /\ Len(dequeued) \in Nat /\ Published \in Int
      /\ pc \in [Thread -> Labels] /\ old_num \in [Thread -> Int]
      /\ value \in [Consumer -> Value \cup {Torn}] /\ dequeued \in Seq(Value \cup {Torn})
  BY Lengths DEF QueueInv, QueueTypes, Thread
<1>1. /\ pc[c] = "take" /\ pc' = [pc EXCEPT ![c] = "idle"]
      /\ old_num[c] = m_dequeue_num /\ m_dequeue_num' = old_num[c] + 1
      /\ dequeued' = Append(dequeued, value[c])
      /\ old_num' = [old_num EXCEPT ![c] = NoNum] /\ value' = [value EXCEPT ![c] = Torn]
      /\ UNCHANGED <<m_enqueue_num, m_data, operand, calls, enqueued>>
  BY DEF Take, Goto, Exchanges
<1>2. /\ m_dequeue_num = Len(dequeued) /\ old_num[c] < Published
      /\ value[c] = enqueued[Len(dequeued) + 1]
  BY <1>1 DEF QueueInv, Counted, Consuming
<1>3. /\ dequeued' \in Seq(Value \cup {Torn}) /\ Len(dequeued') = Len(dequeued) + 1
      /\ dequeued'[Len(dequeued) + 1] = value[c]
      /\ \A i \in 1..Len(dequeued) : dequeued'[i] = dequeued[i]
  BY <1>0, <1>1, AppendProperties
<1>4. \A i \in 1..Len(dequeued') : dequeued'[i] = enqueued[i]
  <2>1. \A i \in 1..Len(dequeued') : i = Len(dequeued) + 1 \/ i \in 1..Len(dequeued)
    BY <1>0, <1>3
  <2> QED BY <2>1, <1>2, <1>3 DEF QueueInv, Counted
<1>5. QueueTypes'
  <2>1. pc' \in [Thread -> Labels] /\ old_num' \in [Thread -> Int] /\ value' \in [Consumer -> Value \cup {Torn}]
    BY <1>0, <1>1 DEF Labels, NoNum
  <2>2. m_dequeue_num' \in Nat BY <1>0, <1>1, <1>2
  <2> QED BY <2>1, <2>2, <1>1, <1>3 DEF QueueInv, QueueTypes
<1>6. Consuming(c)' BY <1>0, <1>1 DEF Consuming
<1>7. /\ \A t \in Thread \ {c} : pc'[t] = pc[t] /\ old_num'[t] = old_num[t] /\ operand'[t] = operand[t]
      /\ \A d \in Consumer \ {c} : value'[d] = value[d]
  BY <1>0, <1>1
<1>8. /\ Len(dequeued) <= Len(dequeued') /\ Len(dequeued') <= Published
      /\ m_dequeue_num' = Len(dequeued)'
  BY <1>0, <1>1, <1>2, <1>3
<1>9. QueueInv' BY <1>1, <1>4, <1>5, <1>6, <1>7, <1>8, ByConsumer
<1> QED BY <1>1, <1>2, <1>9

(* Every step of Dequeue keeps the invariant.                               *)
LEMMA DequeueSteps ==
    ASSUME QueueInv, NEW c \in Consumer, Dequeue(c)
    PROVE  QueueInv'
  BY DequeueLooks, TakeStep DEF Dequeue

-----------------------------------------------------------------------------
(* Clear() on a queue that nobody uses leaves an empty one. *)
LEMMA ClearStep ==
    ASSUME QueueInv, Clear
    PROVE  QueueInv'
<1>1. /\ m_enqueue_num' = 0 /\ m_dequeue_num' = 0 /\ enqueued' = <<>> /\ dequeued' = <<>>
      /\ pc' = [t \in Thread |-> "idle"] /\ calls' = [p \in Producer |-> 0]
      /\ UNCHANGED <<m_data, operand, old_num, value>>
  BY DEF Clear, Cleared
<1>2. QueueTypes' BY <1>1, SizesAssumption DEF QueueInv, QueueTypes, Labels
<1>3. \A t \in Thread : pc'[t] = "idle" BY <1>1
<1>4. Counted'
  <2>1. Len(enqueued') = 0 /\ Len(dequeued') = 0 /\ Published' = 0 BY <1>1 DEF Published, Reserved
  <2>2. \A p \in Producer : ~Inside(p)' BY <1>3 DEF Inside, Thread
  <2> QED BY <2>1, <2>2, <1>1 DEF Counted, Reserved
<1>5. \A p \in Producer : Producing(p)' BY <1>3 DEF Producing, Inside, Thread
<1>6. \A c \in Consumer : Consuming(c)' BY <1>3 DEF Consuming, Thread
<1> QED BY <1>2, <1>4, <1>5, <1>6 DEF QueueInv

(* Every step of the queue keeps the invariant.                             *)
LEMMA QueueStep ==
    ASSUME OneProducer
    PROVE  QueueInv /\ [Next]_vars => QueueInv'
<1> SUFFICES ASSUME QueueInv, [Next]_vars PROVE QueueInv'
  OBVIOUS
<1>1. ASSUME NEW p \in Producer, EnqueueCall(p) \/ Enqueue(p) PROVE QueueInv'
  BY <1>1, EnqueueSteps
<1>2. ASSUME NEW c \in Consumer, Dequeue(c) PROVE QueueInv'
  BY <1>2, DequeueSteps
<1>3. ASSUME UNCHANGED <<nums, m_data, local, calls, hist>> PROVE QueueInv'
  BY <1>3 DEF nums, local, hist, QueueInv, QueueTypes, Counted, Published, Inside,
              Producing, Consuming, Index
<1>4. CASE SetEnqueueDone BY <1>3, <1>4 DEF SetEnqueueDone
<1>5. CASE Clear BY <1>5, ClearStep
<1>6. CASE UNCHANGED vars BY <1>3, <1>6 DEF vars
<1> QED BY <1>1, <1>2, <1>4, <1>5, <1>6 DEF Next

(* A queue with one producer and any number of consumers is first in, first *)
(* out (lockfree_queue.hpp): no value is lost, taken twice, overwritten     *)
(* before it is taken or read while it is assigned, whatever the size of    *)
(* the ring and however often its indexes wrap.                             *)
THEOREM QueueIsFifo == ASSUME OneProducer PROVE Safety => []Fifo
<1>1. Init => QueueInv BY QueueStarts
<1>2. QueueInv /\ [Next]_vars => QueueInv' BY QueueStep
<1>3. QueueInv => Fifo
  <2> SUFFICES ASSUME QueueInv PROVE Fifo
    OBVIOUS
  <2>1. Len(dequeued) <= Len(enqueued) BY Lengths DEF QueueInv, Counted, QueueTypes
  <2> QED BY <2>1 DEF QueueInv, Counted, Producing, Inside, Fifo
<1> QED BY <1>1, <1>2, <1>3, PTL DEF Safety

-----------------------------------------------------------------------------
(* The queue as its users see it: a value is put in when it is published,   *)
(* and taken by the compare-exchange of line 124.                           *)

(* What is published, as a sequence. *)
Listed == LET put == SubSeq(enqueued, 1, Published)
          IN  /\ put \in Seq(Value) /\ Len(put) = Published
              /\ \A i \in 1..Published : put[i] = enqueued[i]

(* The first Published values that went in are what a user may take.        *)
LEMMA PublishedValues == QueueInv => Listed
<1> SUFFICES ASSUME QueueInv PROVE Listed
  OBVIOUS
<1>1. enqueued \in Seq(Value) /\ Published \in Int /\ Published <= Len(enqueued) /\ 0 <= Published
  BY Lengths DEF QueueInv, QueueTypes, Counted
<1>2. \A i \in 1..Published : enqueued[i] \in Value
  BY <1>1, ElementOfSeq
<1> QED BY <1>1, <1>2, SubSeqProperties DEF Listed

(* With one producer the queue does what QueuePromise says: every step of a *)
(* thread is a whole Put, Get or Reset, or no user can tell it.             *)
THEOREM QueuePromiseKept == ASSUME OneProducer PROVE Safety => ImplementsPromise
<1> DEFINE put == SubSeq(enqueued, 1, Published)
<1>1. Init => Promise!Init
  <2> SUFFICES ASSUME Init PROVE Promise!Init
    OBVIOUS
  <2>1. Published = 0 /\ enqueued = <<>> /\ dequeued = <<>> BY DEF Init, Published, Reserved
  <2> QED BY <2>1, SubSeqEmpty DEF Promise!Init
<1>2. QueueInv /\ QueueInv' /\ [Next]_vars => [Promise!Next]_(Promise!vars)
  <2> SUFFICES ASSUME QueueInv, QueueInv', [Next]_vars
               PROVE  [Promise!Next]_(Promise!vars)
    OBVIOUS
  <2>n. Len(enqueued) \in Nat /\ Published \in Int /\ Published <= Len(enqueued)
    BY Lengths DEF QueueInv
  <2>v. Listed /\ Listed'
    <3>1. QueueInv => Listed BY PublishedValues
    <3>2. QueueInv' => Listed' BY <3>1, PublishedValues, PTL
    <3> QED BY <3>1, <3>2
  <2>s. ASSUME UNCHANGED <<m_enqueue_num, enqueued, dequeued>>
        PROVE  [Promise!Next]_(Promise!vars)
    BY <2>s DEF Promise!vars, Published
  <2>1. ASSUME NEW p \in Producer, EnqueueCall(p) \/ Enqueue(p)
        PROVE  [Promise!Next]_(Promise!vars)
    <3>1. CASE Reserve(p)
      <4>1. /\ pc[p] = "exchange" /\ m_enqueue_num' = Reserved
            /\ enqueued' = Append(enqueued, <<p, calls[p]>>) /\ dequeued' = dequeued
        BY <3>1 DEF Reserve, hist
      <4>2. m_enqueue_num = Len(enqueued)
        BY <4>1 DEF QueueInv, Counted, OneProducer, Inside
      <4>3. enqueued \in Seq(Value) /\ <<p, calls[p]>> \in Value
        BY DEF QueueInv, QueueTypes, Value
      <4>4. /\ Len(enqueued') = Len(enqueued) + 1
            /\ \A i \in 1..Len(enqueued) : enqueued'[i] = enqueued[i]
        BY <4>1, <4>3, AppendProperties
      <4>5. Published = Len(enqueued) /\ Published' = Len(enqueued)
        BY <2>n, <4>1, <4>2, <4>4 DEF Published, Reserved
      <4>6. /\ put' \in Seq(Value) /\ put \in Seq(Value) /\ Len(put) = Len(put')
            /\ \A i \in 1..Len(put) : put[i] = put'[i]
        BY <2>v, <4>4, <4>5 DEF Listed
      <4>7. put' = put BY <4>6, SeqEqual
      <4> QED BY <4>1, <4>7 DEF Promise!vars
    <3>2. CASE Publish(p)
      <4>1. /\ pc[p] = "publish" /\ m_enqueue_num' = old_num[p] + 1
            /\ enqueued' = enqueued /\ dequeued' = dequeued
        BY <3>2 DEF Publish, hist
      <4>2. /\ m_enqueue_num = Reserved /\ old_num[p] = Len(enqueued) - 1 /\ Len(enqueued) > 0
            /\ old_num[p] - Len(dequeued) < Size
        BY <4>1 DEF QueueInv, Counted, Producing, Inside
      <4>3. Published = Len(enqueued) - 1 /\ Published' = Len(enqueued)
        <5>1. m_enqueue_num' # Reserved BY <2>n, <4>1, <4>2 DEF Reserved
        <5> QED BY <4>1, <4>2, <5>1 DEF Published
      <4> DEFINE v == enqueued[Len(enqueued)]
      <4>4. v \in Value BY <2>n, <4>2, ElementOfSeq DEF QueueInv, QueueTypes
      <4>5. /\ Append(put, v) \in Seq(Value) /\ Len(Append(put, v)) = Len(put) + 1
            /\ \A i \in 1..Len(put) : Append(put, v)[i] = put[i]
            /\ Append(put, v)[Len(put) + 1] = v
        BY <2>v, <4>4, AppendProperties DEF Listed
      <4>6. /\ put' \in Seq(Value) /\ Len(put') = Len(Append(put, v))
            /\ \A i \in 1..Len(put') : put'[i] = Append(put, v)[i]
        <5>1. Len(put) = Len(enqueued) - 1 /\ Len(put') = Len(enqueued) /\ put' \in Seq(Value)
          BY <2>v, <4>1, <4>3 DEF Listed
        <5>2. \A i \in 1..Len(put) : put'[i] = Append(put, v)[i]
          BY <2>n, <2>v, <4>1, <4>3, <4>5, <5>1 DEF Listed
        <5>3. put'[Len(enqueued)] = Append(put, v)[Len(enqueued)]
          BY <2>n, <2>v, <4>1, <4>2, <4>3, <4>5, <5>1 DEF Listed
        <5>4. \A i \in 1..Len(enqueued) : i = Len(enqueued) \/ i \in 1..(Len(enqueued) - 1)
          BY <2>n
        <5>5. \A i \in 1..Len(put') : put'[i] = Append(put, v)[i]
          BY <5>1, <5>2, <5>3, <5>4
        <5>6. Len(put') = Len(Append(put, v)) BY <2>n, <4>5, <5>1
        <5> QED BY <5>1, <5>5, <5>6
      <4>7. put' = Append(put, v) BY <4>5, <4>6, SeqEqual
      <4>8. Len(put) - Len(dequeued) < Size BY <2>v, <4>2, <4>3 DEF Listed
      <4>9. Promise!Put BY <4>1, <4>4, <4>7, <4>8 DEF Promise!Put
      <4> QED BY <4>9 DEF Promise!Next
    <3>3. CASE ~(Reserve(p) \/ Publish(p))
      BY <2>1, <3>3, <2>s DEF EnqueueCall, Enqueue, LoadOperand, WaitFull, LoadEnqueueNum,
         WaitReserved, ReserveFails, AssignBegins, AssignEnds, nums, hist
    <3> QED BY <3>1, <3>2, <3>3
  <2>2. ASSUME NEW c \in Consumer, Dequeue(c)
        PROVE  [Promise!Next]_(Promise!vars)
    <3>1. CASE Take(c)
      <4>1. /\ m_enqueue_num' = m_enqueue_num /\ enqueued' = enqueued
            /\ pc[c] = "take" /\ old_num[c] = m_dequeue_num
            /\ dequeued' = Append(dequeued, enqueued[Len(dequeued) + 1])
        BY <3>1, TakeStep DEF Take, Exchanges
      <4>2. Len(dequeued) < Published /\ Len(dequeued) \in Nat
        BY <4>1 DEF QueueInv, QueueTypes, Counted, Consuming
      <4>3. Len(put) = Published /\ put[Len(dequeued) + 1] = enqueued[Len(dequeued) + 1]
        BY <2>n, <2>v, <4>2 DEF Listed
      <4>4. put' = put BY <4>1 DEF Published
      <4>5. Promise!Get BY <4>1, <4>2, <4>3, <4>4 DEF Promise!Get
      <4> QED BY <4>5 DEF Promise!Next
    <3>2. CASE ~Take(c)
      BY <2>2, <3>2, <2>s DEF Dequeue, DequeueCall, LoadDequeueNum, LoadOperand, TestEmpty,
         TestDone, LoadIndex, ReadSlot, TakeFails, nums, hist
    <3> QED BY <3>1, <3>2
  <2>3. CASE Clear
    <3>1. Published' = 0 /\ enqueued' = <<>> /\ dequeued' = <<>>
      BY <2>3 DEF Clear, Cleared, Published, Reserved
    <3>2. put' = <<>> BY <3>1, SubSeqEmpty
    <3> QED BY <3>1, <3>2 DEF Promise!Next, Promise!Reset
  <2>4. CASE SetEnqueueDone BY <2>4, <2>s DEF SetEnqueueDone, nums, hist
  <2>5. CASE UNCHANGED vars BY <2>5, <2>s DEF vars, nums, hist
  <2> QED BY <2>1, <2>2, <2>3, <2>4, <2>5 DEF Next
<1>3. Init => QueueInv BY QueueStarts
<1>4. QueueInv /\ [Next]_vars => QueueInv' BY QueueStep
<1> QED BY <1>1, <1>2, <1>3, <1>4, PTL DEF Safety, ImplementsPromise, Promise!Spec
=============================================================================
