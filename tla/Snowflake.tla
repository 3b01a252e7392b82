------------------------------- MODULE Snowflake -------------------------------
(***************************************************************************)
(* The generators of ids of engine/utils/snowflake.hpp: one snowflake       *)
(* object per node, its next() called by several threads under its lock_.   *)
(*                                                                          *)
(* next() holds lock_ from its first line to its return, so a thread that   *)
(* is not idle is the one that holds the lock of its node.  Time is in      *)
(* milliseconds since TWEPOCH; a node's clock is start_millsecond_ plus a   *)
(* steady clock, so it never goes back, and the clocks of two nodes have    *)
(* nothing to do with each other.                                           *)
(***************************************************************************)
EXTENDS Integers, Sequences

CONSTANTS
    Node, Caller,
    NodeOf,          \* the node whose generator a thread calls
    Initialised,     \* the nodes whose program calls init()
    WorkerId, DatacenterId,              \* what it calls it with
    SeqSize, WorkerSize, DatacenterSize, \* 2^SEQUENCE_BITS, ...
    MaxMillis,       \* bound: the last time a clock reaches
    MaxAsked         \* bound: the calls of one thread

ASSUME NodesAssumption ==
    /\ NodeOf \in [Caller -> Node] /\ Initialised \subseteq Node
    /\ WorkerId \in [Node -> Int] /\ DatacenterId \in [Node -> Int]

ASSUME WidthsAssumption ==
    /\ SeqSize \in Nat \ {0} /\ WorkerSize \in Nat \ {0}
    /\ DatacenterSize \in Nat \ {0}
    /\ MaxMillis \in Nat /\ MaxAsked \in Nat

VARIABLES
    last_timestamp_, sequence_, workerid_, datacenterid_,   \* per node
    millsecond,      \* per node: what its millsecond() reads
    ready,           \* per node: the program has done its init(), if any
    where, timestamp,   \* per thread: where it is in next(), and its local
    asked,           \* per thread: its calls so far
    issued           \* history: the ids returned, with their parts

object         == <<last_timestamp_, sequence_>>
ids            == <<workerid_, datacenterid_, ready>>
snowflake_vars == <<object, ids, millsecond, where, timestamp, asked, issued>>

SnowflakeInit ==
    /\ last_timestamp_ = [n \in Node |-> -1]
    /\ sequence_ = [n \in Node |-> 0]
    /\ workerid_ = [n \in Node |-> 0] /\ datacenterid_ = [n \in Node |-> 0]
    /\ millsecond = [n \in Node |-> 0]
    /\ ready = [n \in Node |-> n \notin Initialised]
    /\ where = [t \in Caller |-> "idle"] /\ timestamp = [t \in Caller |-> 0]
    /\ asked = [t \in Caller |-> 0]
    /\ issued = <<>>

(* The number next() returns: the parts side by side, time first.           *)
SameShift(time, dc, worker, seq) ==
    (time * DatacenterSize * WorkerSize + dc + worker) * SeqSize + seq
Number(time, dc, worker, seq) ==
    ((time * DatacenterSize + dc) * WorkerSize + worker) * SeqSize + seq

-----------------------------------------------------------------------------
(* init() throws when a number is out of range: the program then has no     *)
(* generator.                                                               *)
init(n) ==
    /\ n \in Initialised /\ ~ready[n]
    /\ WorkerId[n] \in 0..(WorkerSize - 1)
    /\ DatacenterId[n] \in 0..(DatacenterSize - 1)
    /\ workerid_' = [workerid_ EXCEPT ![n] = WorkerId[n]]
    /\ datacenterid_' = [datacenterid_ EXCEPT ![n] = DatacenterId[n]]
    /\ ready' = [ready EXCEPT ![n] = TRUE]
    /\ UNCHANGED <<object, millsecond, where, timestamp, asked, issued>>

LockIgnored(n) == TRUE      \* as snowflake_nonlock does
Unlocked(n) == \A u \in Caller : NodeOf[u] = n => where[u] = "idle"

(* next(): the lock is taken. *)
NextCall(t) ==
    /\ where[t] = "idle" /\ ready[NodeOf[t]] /\ asked[t] < MaxAsked
    /\ Unlocked(NodeOf[t])
    /\ asked' = [asked EXCEPT ![t] = @ + 1]
    /\ where' = [where EXCEPT ![t] = "read"]
    /\ UNCHANGED <<object, ids, millsecond, timestamp, issued>>

ReadClock(t) ==
    /\ where[t] = "read"
    /\ timestamp' = [timestamp EXCEPT ![t] = millsecond[NodeOf[t]]]
    /\ where' = [where EXCEPT ![t] = "compare"]
    /\ UNCHANGED <<object, ids, millsecond, asked, issued>>

(* What sequence_ becomes in a millisecond that has ids already.            *)
NextSequence(s) == (s + 1) % SeqSize

(* The same millisecond as the last id: the next number in it...            *)
NextInSame(t) ==
    LET n == NodeOf[t] IN
    /\ where[t] = "compare" /\ last_timestamp_[n] = timestamp[t]
    /\ sequence_' = [sequence_ EXCEPT ![n] = NextSequence(sequence_[n])]
    /\ where' = [where EXCEPT ![t] = IF NextSequence(sequence_[n]) = 0 THEN "wait" ELSE "return"]
    /\ UNCHANGED <<last_timestamp_, ids, millsecond, timestamp, asked, issued>>

(* ... or another one: the first. *)
FirstInNew(t) ==
    LET n == NodeOf[t] IN
    /\ where[t] = "compare" /\ last_timestamp_[n] # timestamp[t]
    /\ sequence_' = [sequence_ EXCEPT ![n] = 0]
    /\ where' = [where EXCEPT ![t] = "return"]
    /\ UNCHANGED <<last_timestamp_, ids, millsecond, timestamp, asked, issued>>

(* wait_next_millis: it reads the clock again until it is past the last     *)
(* id's time.  What it may return now (nothing: it spins on):               *)
SameAllowed(n) == {time \in {millsecond[n]} : time >= last_timestamp_[n]}
LaterStill(n)  == {time \in {millsecond[n]} : time > last_timestamp_[n] + 1}
AfterWait(n)   == {time \in {millsecond[n]} : time > last_timestamp_[n]}

WaitNextMillis(t) ==
    LET n == NodeOf[t] IN
    /\ where[t] = "wait"
    /\ \E time \in AfterWait(n) : timestamp' = [timestamp EXCEPT ![t] = time]
    /\ where' = [where EXCEPT ![t] = "return"]
    /\ UNCHANGED <<object, ids, millsecond, asked, issued>>

Return(t) ==
    LET n == NodeOf[t] IN
    /\ where[t] = "return"
    /\ last_timestamp_' = [last_timestamp_ EXCEPT ![n] = timestamp[t]]
    /\ issued' = Append(issued,
          [node |-> n, time |-> timestamp[t], seq |-> sequence_[n],
           id |-> Number(timestamp[t], datacenterid_[n], workerid_[n], sequence_[n])])
    /\ where' = [where EXCEPT ![t] = "idle"]
    /\ UNCHANGED <<sequence_, ids, millsecond, timestamp, asked>>

Step(t) ==
    \/ ReadClock(t) \/ NextInSame(t) \/ FirstInNew(t) \/ WaitNextMillis(t) \/ Return(t)

Tick(n) ==
    /\ millsecond[n] < MaxMillis
    /\ millsecond' = [millsecond EXCEPT ![n] = @ + 1]
    /\ UNCHANGED <<object, ids, where, timestamp, asked, issued>>

SnowflakeNext ==
    \/ \E n \in Node : init(n) \/ Tick(n)
    \/ \E t \in Caller : NextCall(t) \/ Step(t)

(* A thread inside next() is scheduled, and the clocks go on. *)
SnowflakeFairness ==
    /\ \A t \in Caller : WF_snowflake_vars(Step(t))
    /\ \A n \in Node : WF_snowflake_vars(Tick(n))

SnowflakeSafety == SnowflakeInit /\ [][SnowflakeNext]_snowflake_vars
SnowflakeSpec   == SnowflakeSafety /\ SnowflakeFairness

-----------------------------------------------------------------------------
(* Properties.                                                              *)

Issue == [node : Node, time : 0..MaxMillis, seq : 0..(SeqSize - 1), id : Nat]

(* Types; sequence_ stays in its bits. *)
TypeOK ==
    /\ last_timestamp_ \in [Node -> -1..MaxMillis]
    /\ sequence_ \in [Node -> 0..(SeqSize - 1)]
    /\ workerid_ \in [Node -> 0..(WorkerSize - 1)]
    /\ datacenterid_ \in [Node -> 0..(DatacenterSize - 1)]
    /\ millsecond \in [Node -> 0..MaxMillis] /\ ready \in [Node -> BOOLEAN]
    /\ where \in [Caller -> {"idle", "read", "compare", "wait", "return"}]
    /\ timestamp \in [Caller -> 0..MaxMillis]
    /\ asked \in [Caller -> 0..MaxAsked]
    /\ issued \in Seq(Issue)

(* The ids of one generator increase, whichever threads ask for them, also  *)
(* when more than SeqSize are asked for in a millisecond (the comment at    *)
(* snowflake.hpp:29 says they are sorted by time).                          *)
Increasing ==
    \A i, j \in 1..Len(issued) :
        i < j /\ issued[i].node = issued[j].node => issued[i].id < issued[j].id

(* No id is given out twice in the whole system (snowflake.hpp:29): two     *)
(* nodes are told apart by the datacenter id and the worker id.             *)
UniqueIds ==
    \A i, j \in 1..Len(issued) : i # j => issued[i].id # issued[j].id

(* An id never carries a time its node's clock has not reached. *)
NotAhead ==
    \A i \in 1..Len(issued) : issued[i].time <= millsecond[issued[i].node]

(* A call of next() that has the lock returns: in a millisecond whose       *)
(* numbers are used up, once the clock has gone on by one (which the        *)
(* bounded clock does as long as the last id's time is below MaxMillis).      *)
NextReturns ==
    \A t \in Caller :
        (where[t] # "idle" /\ last_timestamp_[NodeOf[t]] < MaxMillis) ~> where[t] = "idle"
=============================================================================
