---------------------------- MODULE LockFreeTest ----------------------------
(* The three programs of src/unittest/t_utils/t_lockfree.cpp, one of which   *)
(* excute() runs: threads that count; producers whose values are collected   *)
(* when all have been joined; and a producer of numbered items with a        *)
(* consumer that takes them in bulk.                                         *)
(* moodycamel::ConcurrentQueue (external) is one queue per producer: what a  *)
(* producer put in comes out in its order, the producers in any order.       *)
EXTENDS Integers, Sequences, FiniteSets

CONSTANTS TestThreads, \* the threads of a program that count or produce, from 0
          PerProducer, \* values of each producer of co_lock_free
          Bulk,        \* items taken at once by the consumer
          MaxIndex     \* bound: increments of count or index

ASSUME TestConstants == /\ IsFiniteSet(TestThreads)
                        /\ TestThreads = 0..(Cardinality(TestThreads) - 1) /\ 0 \in TestThreads
                        /\ {PerProducer, Bulk, MaxIndex} \subseteq Nat \ {0}

VARIABLES t_program,  \* "none" yet, "atomic_test", "co_lock_free", "producer_consumer"
          t_pc,       \* of each thread
          t_count,    \* count, or index
          t_j,        \* of each producer: values enqueued
          t_item,     \* of each producer: item.id
          t_queue,    \* of each producer: what it put into the queue and is there
          t_printed,  \* of each thread, the consumer's under 0: what was printed
          t_dequeued, \* of each value: dequeued
          t_main      \* the main thread: "join", "collect", "check"
t_vars == <<t_program, t_pc, t_count, t_j, t_item, t_queue, t_printed, t_dequeued, t_main>>

TestValues == 0..(PerProducer * Cardinality(TestThreads) - 1)

TestInit == /\ t_program = "none"
            /\ t_pc = [t \in TestThreads |-> "loop"] /\ t_count = 0
            /\ t_j = [t \in TestThreads |-> 0] /\ t_item = [t \in TestThreads |-> 0]
            /\ t_queue = [t \in TestThreads |-> << >>]
            /\ t_printed = [t \in TestThreads |-> << >>]
            /\ t_dequeued = [v \in TestValues |-> 0] /\ t_main = "join"

(* excute() is one of the three, by what of it is commented out. *)
TestExcutes == /\ t_program = "none"
               /\ t_program' \in {"atomic_test", "co_lock_free", "producer_consumer"}
               /\ UNCHANGED <<t_pc, t_count, t_j, t_item, t_queue, t_printed, t_dequeued, t_main>>

(* count++, and a load of its own; index++ likewise.  There is one producer of items. *)
Increments(t) == /\ t_pc[t] = "loop" /\ t_count < MaxIndex
                 /\ \/ t_program = "atomic_test"
                    \/ t_program = "producer_consumer" /\ t = 0
                 /\ t_count' = t_count + 1 /\ t_pc' = [t_pc EXCEPT ![t] = "load"]
                 /\ UNCHANGED <<t_program, t_j, t_item, t_queue, t_printed, t_dequeued, t_main>>
Counted(t) == /\ t_program = "atomic_test" /\ t_pc[t] = "load"
              /\ t_printed' = [t_printed EXCEPT ![t] = Append(@, t_count)]
              /\ t_pc' = [t_pc EXCEPT ![t] = "loop"]
              /\ UNCHANGED <<t_program, t_count, t_j, t_item, t_queue, t_dequeued, t_main>>
ItemMade(t) == /\ t_program = "producer_consumer" /\ t_pc[t] = "load"
               /\ t_item' = [t_item EXCEPT ![t] = t_count]
               /\ t_pc' = [t_pc EXCEPT ![t] = "enqueue"]
               /\ UNCHANGED <<t_program, t_count, t_j, t_queue, t_printed, t_dequeued, t_main>>
ItemEnqueued(t) == /\ t_pc[t] = "enqueue"
                   /\ t_queue' = [t_queue EXCEPT ![t] = Append(@, t_item[t])]
                   /\ t_pc' = [t_pc EXCEPT ![t] = "loop"]
                   /\ UNCHANGED <<t_program, t_count, t_j, t_item, t_printed, t_dequeued, t_main>>
(* try_dequeue_bulk: as many as there are, Bulk at most; each is printed. *)
BulkSize == IF Len(t_queue[0]) < Bulk THEN Len(t_queue[0]) ELSE Bulk
BulkConsumed == /\ t_program = "producer_consumer" /\ BulkSize > 0
                /\ t_printed' = [t_printed EXCEPT ![0] = @ \o SubSeq(t_queue[0], 1, BulkSize)]
                /\ t_queue' = [t_queue EXCEPT ![0] = SubSeq(@, BulkSize + 1, Len(@))]
                /\ UNCHANGED <<t_program, t_pc, t_count, t_j, t_item, t_dequeued, t_main>>

(* co_lock_free: producer i enqueues i * 10 + j for each j. *)
SharedValue(i, j) == i + j
Value(i, j) == i * PerProducer + j
Produces(t) == /\ t_program = "co_lock_free" /\ t_pc[t] = "loop" /\ t_j[t] < PerProducer
               /\ t_queue' = [t_queue EXCEPT ![t] = Append(@, Value(t, t_j[t]))]
               /\ t_j' = [t_j EXCEPT ![t] = @ + 1]
               /\ UNCHANGED <<t_program, t_pc, t_count, t_item, t_printed, t_dequeued, t_main>>
(* Join all, take until nothing is left, and assert. *)
Joins == /\ t_program = "co_lock_free" /\ t_main = "join"
         /\ \A t \in TestThreads : t_j[t] = PerProducer
         /\ t_main' = "collect"
         /\ UNCHANGED <<t_program, t_pc, t_count, t_j, t_item, t_queue, t_printed, t_dequeued>>
Collects == /\ t_main = "collect"
            /\ \E t \in TestThreads :
                 /\ t_queue[t] # << >>
                 /\ t_dequeued' = [t_dequeued EXCEPT ![Head(t_queue[t])] = @ + 1]
                 /\ t_queue' = [t_queue EXCEPT ![t] = Tail(@)]
            /\ UNCHANGED <<t_program, t_pc, t_count, t_j, t_item, t_printed, t_main>>
NothingLeft == /\ t_main = "collect" /\ \A t \in TestThreads : t_queue[t] = << >>
               /\ t_main' = "check"
               /\ UNCHANGED <<t_program, t_pc, t_count, t_j, t_item, t_queue, t_printed, t_dequeued>>

TestNext == \/ TestExcutes
            \/ \E t \in TestThreads : \/ Increments(t) \/ Counted(t) \/ ItemMade(t)
                                   \/ ItemEnqueued(t) \/ Produces(t)
            \/ BulkConsumed \/ Joins \/ Collects \/ NothingLeft

(* A thread that counts never sees the same count twice, although others count  *)
(* between its increment and its load; the items come out numbered from 1       *)
(* without a gap; and what the test asserts: every value comes out once.        *)
TestsRight ==
  /\ t_program = "atomic_test" =>
       \A t \in TestThreads : \A i, k \in DOMAIN t_printed[t] : i < k => t_printed[t][i] < t_printed[t][k]
  /\ t_program = "producer_consumer" =>
       \A i \in DOMAIN (t_printed[0] \o t_queue[0]) : (t_printed[0] \o t_queue[0])[i] = i
  /\ t_main = "check" => \A v \in TestValues : t_dequeued[v] = 1
=============================================================================
