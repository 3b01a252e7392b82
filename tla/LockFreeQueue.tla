---------------------------- MODULE LockFreeQueue ----------------------------
(***************************************************************************)
(* engine::utils::Queue (engine/utils/lockfree_queue.hpp): a ring of slots, *)
(* two counters, and threads inside Enqueue and Dequeue.                    *)
(*                                                                          *)
(* Every load, store and compare-exchange of a counter is a step of its     *)
(* own.  The two operands of a comparison are loaded in either order.  A    *)
(* slot is not atomic: while a producer assigns to it, it holds Torn.  A    *)
(* compare_exchange_weak may fail although the values are equal.  The plain *)
(* flags are read and written as if they were atomic.                       *)
(*                                                                          *)
(* The number that Enqueue and Dequeue return is read from the counter once *)
(* more, when others may have moved it; only 0, "there is nothing left",    *)
(* is told apart here.                                                      *)
(*                                                                          *)
(* The runs have one producer and several consumers.  With two producers    *)
(* the properties fail: a producer may load Reserved at line 88, find a     *)
(* number at line 89, and at line 95 exchange the Reserved of another       *)
(* producer's slot for its own; and the test of line 77 passes while the    *)
(* counter is Reserved, or before other producers take the same room.       *)
(***************************************************************************)
EXTENDS Integers, Sequences, FiniteSets

CONSTANTS
    Producer, Consumer,   \* the threads
    MinSize,              \* 16384
    Requested,            \* the constructor's argument
    Torn,                 \* what a slot holds while it is assigned to
    MaxCalls,             \* bound: calls of Enqueue by each producer
    MaxClears             \* bound: calls of Clear

ASSUME SizesAssumption ==
    /\ MinSize \in Nat \ {0} /\ Requested \in Nat
    /\ MaxCalls \in Nat /\ MaxClears \in Nat

ASSUME ThreadsAssumption == Producer \cap Consumer = {}

(* set_size(): doubled until it is enough, and halved again. *)
Doubled == CHOOSE n \in {MinSize * 2^i : i \in 0..Requested} :
               n >= Requested /\ (n > MinSize => n < 2 * Requested)
Size    == IF Requested <= MinSize THEN MinSize ELSE Doubled \div 2

(* MinSize or a power of two times it: 2^Requested >= Requested, so that    *)
(* there is a doubling that is enough, and more than MinSize needs one.     *)
ASSUME SizeAssumption == Size \in Nat \ {0}

Reserved == -1
NoNum    == -2
Thread   == Producer \cup Consumer

VARIABLES
    m_enqueue_num, m_dequeue_num, m_data,
    m_is_enqueue_done, m_is_dequeue_done,
    pc,         \* of each thread
    operand,    \* of each thread: the operand of a comparison loaded first
    old_num,    \* of each thread: old_num and old_num_
    value,      \* of each consumer: the slot it read
    calls,      \* of each producer: calls of Enqueue
    clears,     \* bound counter: calls of Clear
    enqueued,   \* history: values in the order their slots were reserved
    dequeued    \* history: values in the order they were taken

nums  == <<m_enqueue_num, m_dequeue_num>>
flags == <<m_is_enqueue_done, m_is_dequeue_done>>
local == <<pc, operand, old_num, value>>
hist  == <<enqueued, dequeued>>
vars  == <<nums, m_data, flags, local, calls, clears, hist>>

Value == Producer \X (0..MaxCalls)   \* the k-th call of producer p passes <<p, k>>
Slot  == 0..(Size - 1)
None  == [of |-> "none", num |-> 0]

Init ==
    /\ m_enqueue_num = 0 /\ m_dequeue_num = 0
    /\ m_data = [i \in Slot |-> Torn]
    /\ m_is_enqueue_done = FALSE /\ m_is_dequeue_done = FALSE
    /\ pc = [t \in Thread |-> "idle"]
    /\ operand = [t \in Thread |-> None]
    /\ old_num = [t \in Thread |-> NoNum]
    /\ value = [c \in Consumer |-> Torn]
    /\ calls = [p \in Producer |-> 0] /\ clears = 0
    /\ enqueued = <<>> /\ dequeued = <<>>

Goto(t, label) == pc' = [pc EXCEPT ![t] = label]

(* The slot of a number: num & (m_size - 1). *)
Index(num) == num % Size

-----------------------------------------------------------------------------
(* A comparison of the two counters: one operand is loaded...               *)
LoadOperand(t, from, to) ==
    /\ pc[t] = from
    /\ \/ operand' = [operand EXCEPT ![t] = [of |-> "enqueue", num |-> m_enqueue_num]]
       \/ operand' = [operand EXCEPT ![t] = [of |-> "dequeue", num |-> m_dequeue_num]]
    /\ Goto(t, to)
    /\ UNCHANGED <<nums, m_data, flags, old_num, value, calls, clears, hist>>

(* ... then the other, and they are compared.                               *)
EnqueueOperand(t) == IF operand[t].of = "enqueue" THEN operand[t].num ELSE m_enqueue_num
DequeueOperand(t) == IF operand[t].of = "dequeue" THEN operand[t].num ELSE m_dequeue_num

FullOnce(t) == EnqueueOperand(t) >= Size
Full(t)     == EnqueueOperand(t) - DequeueOperand(t) >= Size

EmptyBefore(t)  == DequeueOperand(t) + 1 >= EnqueueOperand(t)
Empty(t)        == DequeueOperand(t) >= EnqueueOperand(t)

(* Whether the compare-exchange of t on a counter that is num may succeed.  *)
ExchangesLess(t, num) == num >= old_num[t]
Exchanges(t, num)  == num = old_num[t]

(* What Clear() sets the counters to. *)
Cleared    == 0

-----------------------------------------------------------------------------
(* Enqueue.                                                                 *)

EnqueueCall(p) ==
    /\ pc[p] = "idle" /\ calls[p] < MaxCalls /\ ~m_is_enqueue_done
    /\ calls' = [calls EXCEPT ![p] = @ + 1]
    /\ Goto(p, "full")
    /\ UNCHANGED <<nums, m_data, flags, operand, old_num, value, clears, hist>>

(* while (m_enqueue_num - m_dequeue_num >= m_size) yield *)
WaitFull(p) ==
    /\ pc[p] = "full_other"
    /\ Goto(p, IF Full(p) THEN "full" ELSE "load")
    /\ operand' = [operand EXCEPT ![p] = None]
    /\ UNCHANGED <<nums, m_data, flags, old_num, value, calls, clears, hist>>

LoadEnqueueNum(p) ==
    /\ pc[p] = "load"
    /\ old_num' = [old_num EXCEPT ![p] = m_enqueue_num]
    /\ Goto(p, "reserved")
    /\ UNCHANGED <<nums, m_data, flags, operand, value, calls, clears, hist>>

(* if (-1 == m_enqueue_num) goto enqueue_loop *)
WaitReserved(p) ==
    /\ pc[p] = "reserved"
    /\ Goto(p, IF m_enqueue_num = Reserved THEN "load" ELSE "exchange")
    /\ UNCHANGED <<nums, m_data, flags, operand, old_num, value, calls, clears, hist>>

Reserve(p) ==
    /\ pc[p] = "exchange" /\ Exchanges(p, m_enqueue_num)
    /\ m_enqueue_num' = Reserved
    /\ enqueued' = Append(enqueued, <<p, calls[p]>>)
    /\ Goto(p, "assign")
    /\ UNCHANGED <<m_dequeue_num, m_data, flags, operand, old_num, value, calls,
                   clears, dequeued>>

ReserveFails(p) ==
    /\ pc[p] = "exchange"
    /\ Goto(p, "load")
    /\ UNCHANGED <<nums, m_data, flags, operand, old_num, value, calls, clears, hist>>

(* m_data[old_num & (m_size - 1)] = value: the slot is Torn, then assigned. *)
AssignBegins(p) ==
    /\ pc[p] = "assign"
    /\ m_data' = [m_data EXCEPT ![Index(old_num[p])] = Torn]
    /\ Goto(p, "assigning")
    /\ UNCHANGED <<nums, flags, operand, old_num, value, calls, clears, hist>>

AssignEnds(p) ==
    /\ pc[p] = "assigning"
    /\ m_data' = [m_data EXCEPT ![Index(old_num[p])] = <<p, calls[p]>>]
    /\ Goto(p, "publish")
    /\ UNCHANGED <<nums, flags, operand, old_num, value, calls, clears, hist>>

Publish(p) ==
    /\ pc[p] = "publish"
    /\ m_enqueue_num' = old_num[p] + 1
    /\ old_num' = [old_num EXCEPT ![p] = NoNum]
    /\ Goto(p, "idle")
    /\ UNCHANGED <<m_dequeue_num, m_data, flags, operand, value, calls, clears, hist>>

Enqueue(p) ==
    \/ LoadOperand(p, "full", "full_other") \/ WaitFull(p)
    \/ LoadEnqueueNum(p) \/ WaitReserved(p) \/ Reserve(p) \/ ReserveFails(p)
    \/ AssignBegins(p) \/ AssignEnds(p) \/ Publish(p)

(* set_is_enqueue_done(true), by the program when its producers are through.*)
SetEnqueueDone ==
    /\ ~m_is_enqueue_done /\ \A p \in Producer : pc[p] = "idle"
    /\ m_is_enqueue_done' = TRUE
    /\ UNCHANGED <<nums, m_data, m_is_dequeue_done, local, calls, clears, hist>>

-----------------------------------------------------------------------------
(* Dequeue.                                                                 *)

(* A consumer that was told that there is nothing left does not come back.  *)
DequeueCall(c) ==
    /\ pc[c] = "idle"
    /\ Goto(c, "load")
    /\ UNCHANGED <<nums, m_data, flags, operand, old_num, value, calls, clears, hist>>

LoadDequeueNum(c) ==
    /\ pc[c] = "load"
    /\ old_num' = [old_num EXCEPT ![c] = m_dequeue_num]
    /\ Goto(c, "empty")
    /\ UNCHANGED <<nums, m_data, flags, operand, value, calls, clears, hist>>

(* m_dequeue_num >= m_enqueue_num, also while a slot is reserved. *)
TestEmpty(c) ==
    /\ pc[c] = "empty_other"
    /\ Goto(c, IF Empty(c) THEN "done" ELSE "index")
    /\ operand' = [operand EXCEPT ![c] = None]
    /\ UNCHANGED <<nums, m_data, flags, old_num, value, calls, clears, hist>>

TestDone(c) ==
    /\ pc[c] = "done"
    /\ IF m_is_enqueue_done
       THEN m_is_dequeue_done' = TRUE /\ Goto(c, "told_none")
       ELSE m_is_dequeue_done' = m_is_dequeue_done /\ Goto(c, "load")
    /\ old_num' = [old_num EXCEPT ![c] = NoNum]
    /\ UNCHANGED <<nums, m_data, m_is_enqueue_done, operand, value, calls, clears, hist>>

(* value = m_data[m_dequeue_num & (m_size - 1)]: the counter is loaded once *)
(* more, then the slot is read.                                             *)
LoadIndex(c) ==
    /\ pc[c] = "index"
    /\ operand' = [operand EXCEPT ![c] = [of |-> "index", num |-> m_dequeue_num]]
    /\ Goto(c, "read")
    /\ UNCHANGED <<nums, m_data, flags, old_num, value, calls, clears, hist>>

ReadSlot(c) ==
    /\ pc[c] = "read"
    /\ value' = [value EXCEPT ![c] = m_data[Index(operand[c].num)]]
    /\ operand' = [operand EXCEPT ![c] = None]
    /\ Goto(c, "take")
    /\ UNCHANGED <<nums, m_data, flags, old_num, calls, clears, hist>>

Take(c) ==
    /\ pc[c] = "take" /\ Exchanges(c, m_dequeue_num)
    /\ m_dequeue_num' = old_num[c] + 1
    /\ dequeued' = Append(dequeued, value[c])
    /\ old_num' = [old_num EXCEPT ![c] = NoNum]
    /\ value' = [value EXCEPT ![c] = Torn]
    /\ Goto(c, "idle")
    /\ UNCHANGED <<m_enqueue_num, m_data, flags, operand, calls, clears, enqueued>>

TakeFails(c) ==
    /\ pc[c] = "take"
    /\ old_num' = [old_num EXCEPT ![c] = NoNum]
    /\ value' = [value EXCEPT ![c] = Torn]
    /\ Goto(c, "load")
    /\ UNCHANGED <<nums, m_data, flags, operand, calls, clears, hist>>

Dequeue(c) ==
    \/ DequeueCall(c) \/ LoadDequeueNum(c)
    \/ LoadOperand(c, "empty", "empty_other") \/ TestEmpty(c) \/ TestDone(c)
    \/ LoadIndex(c) \/ ReadSlot(c) \/ Take(c) \/ TakeFails(c)

-----------------------------------------------------------------------------
(* Clear() resets the counters and the flags, not the slots.  Nothing in it *)
(* stops a thread inside Enqueue or Dequeue, so the program must: it calls  *)
(* Clear between two uses of the queue.                                     *)
Clear ==
    /\ clears < MaxClears
    /\ \A p \in Producer : pc[p] = "idle"
    /\ \A c \in Consumer : pc[c] \in {"idle", "told_none"}
    /\ clears' = clears + 1
    /\ m_enqueue_num' = Cleared /\ m_dequeue_num' = Cleared
    /\ m_is_enqueue_done' = FALSE /\ m_is_dequeue_done' = FALSE
    /\ pc' = [t \in Thread |-> "idle"]
    /\ calls' = [p \in Producer |-> 0]
    /\ enqueued' = <<>> /\ dequeued' = <<>>
    /\ UNCHANGED <<m_data, operand, old_num, value>>

Next ==
    \/ \E p \in Producer : EnqueueCall(p) \/ Enqueue(p)
    \/ SetEnqueueDone
    \/ \E c \in Consumer : Dequeue(c)
    \/ Clear

(* Threads inside the queue are scheduled, consumers come back for more,    *)
(* and a compare-exchange that can succeed time and again once does.        *)
Fairness ==
    /\ \A p \in Producer : WF_vars(Enqueue(p)) /\ SF_vars(Reserve(p))
    /\ \A c \in Consumer : WF_vars(Dequeue(c)) /\ SF_vars(Take(c))

Safety == Init /\ [][Next]_vars
Spec   == Safety /\ Fairness

-----------------------------------------------------------------------------
(* Properties.                                                              *)

(* What comes out is what went in, in the same order: no value is lost,     *)
(* taken twice by two consumers, overwritten before it was taken, or read   *)
(* while it was being assigned.  A producer assigns to a slot only when the *)
(* value it held was taken: the test of line 77, made long before, still    *)
(* holds then, and no other producer is between reserving and publishing.   *)
(* (Proved in LockFreeQueueProofs; TLC checks ImplementsPromise, by which    *)
(* too what is taken is what was put, in order.)                             *)
Fifo ==
    /\ Len(dequeued) <= Len(enqueued)
    /\ \A i \in 1..Len(dequeued) : dequeued[i] = enqueued[i]
    /\ \A p \in Producer :
        pc[p] \in {"assign", "assigning"} =>
            /\ old_num[p] = Len(enqueued) - 1
            /\ old_num[p] - m_dequeue_num < Size

(* The values a consumer may take: all but the one being assigned.          *)
Published == IF m_enqueue_num = Reserved THEN Len(enqueued) - 1 ELSE Len(enqueued)

Promise == INSTANCE QueuePromise WITH
    Capacity <- Size, Values <- Value,
    put <- SubSeq(enqueued, 1, Published), got <- dequeued

(* To the threads that use it, Enqueue and Dequeue take effect at one       *)
(* moment, in one order: Enqueue when it stores the counter at line 97,     *)
(* Dequeue when the exchange of line 124 succeeds; all their other steps,   *)
(* failures and retries are invisible.                                      *)
ImplementsPromise == Promise!Spec

(* Everything that went in comes out, as long as no consumer was told that  *)
(* there is nothing left.                                                   *)
Drained ==
    \A n \in 1..(Cardinality(Producer) * MaxCalls) :
        Len(enqueued) >= n ~> Len(dequeued) >= n \/ m_is_dequeue_done \/ clears > 0

(* A producer that waits for room gets it. *)
EnqueueReturns ==
    \A p \in Producer : pc[p] # "idle" ~> pc[p] = "idle" \/ m_is_dequeue_done
=============================================================================
