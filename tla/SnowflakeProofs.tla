---------------------------- MODULE SnowflakeProofs ----------------------------
(***************************************************************************)
(* Theorems about Snowflake, for any number of nodes and threads and any    *)
(* widths of the parts of an id.                                            *)
(***************************************************************************)
EXTENDS Snowflake, SequenceTheorems, TLAPS

-----------------------------------------------------------------------------
(* Numbers put side by side: the order of the parts is the order of the     *)
(* whole, and the whole determines the parts.                               *)

(* The fields of a number do not overlap: two numbers that are equal have   *)
(* equal fields.                                                            *)
LEMMA Digits ==
    ASSUME NEW B \in Nat \ {0}, NEW a \in Nat, NEW b \in Nat,
           NEW x \in 0..(B - 1), NEW y \in 0..(B - 1)
    PROVE  /\ a < b => a * B + x < b * B + y
           /\ a * B + x = b * B + y => a = b /\ x = y
           /\ a * B + x \in Nat
<1>1. ASSUME NEW c \in Nat, NEW d \in Nat, c < d PROVE c * B + B <= d * B
  <2>1. PICK k \in Nat : d = c + 1 + k
    <3>1. d - c - 1 \in Nat /\ d = c + 1 + (d - c - 1) BY <1>1
    <3> QED BY <3>1
  <2>2. k * B \in Nat BY SMT
  <2>3. d * B = c * B + B + k * B BY <2>1, SMT
  <2>4. c * B \in Nat BY SMT
  <2> QED BY <2>2, <2>3, <2>4
<1>2. a * B \in Nat /\ b * B \in Nat BY SMT
<1>3. a < b => a * B + x < b * B + y BY <1>1, <1>2
<1>4. b < a => b * B + y < a * B + x BY <1>1, <1>2
<1>5. a * B + x = b * B + y => a = b BY <1>2, <1>3, <1>4
<1> QED BY <1>2, <1>3, <1>5

(* The shifts of next() give a number (snowflake.hpp).                      *)
LEMMA NumberType ==
    ASSUME NEW t \in Nat, NEW d \in 0..(DatacenterSize - 1),
           NEW w \in 0..(WorkerSize - 1), NEW s \in 0..(SeqSize - 1)
    PROVE  /\ t * DatacenterSize + d \in Nat
           /\ (t * DatacenterSize + d) * WorkerSize + w \in Nat
           /\ Number(t, d, w, s) \in Nat
<1>1. t * DatacenterSize + d \in Nat BY Digits, WidthsAssumption
<1>2. (t * DatacenterSize + d) * WorkerSize + w \in Nat BY <1>1, Digits, WidthsAssumption
<1> QED BY <1>1, <1>2, Digits, WidthsAssumption DEF Number

(* Two ids of one generator are ordered as their times and numbers are. *)
LEMMA NumberOrder ==
    ASSUME NEW d \in 0..(DatacenterSize - 1), NEW w \in 0..(WorkerSize - 1),
           NEW t1 \in Nat, NEW s1 \in 0..(SeqSize - 1),
           NEW t2 \in Nat, NEW s2 \in 0..(SeqSize - 1),
           t1 < t2 \/ (t1 = t2 /\ s1 < s2)
    PROVE  Number(t1, d, w, s1) < Number(t2, d, w, s2)
<1> DEFINE m1 == t1 * DatacenterSize + d
<1> DEFINE m2 == t2 * DatacenterSize + d
<1> DEFINE k1 == m1 * WorkerSize + w
<1> DEFINE k2 == m2 * WorkerSize + w
<1>1. m1 \in Nat /\ m2 \in Nat /\ k1 \in Nat /\ k2 \in Nat BY NumberType, WidthsAssumption
<1>2. Number(t1, d, w, s1) = k1 * SeqSize + s1 /\ Number(t2, d, w, s2) = k2 * SeqSize + s2
  BY DEF Number
<1>3. CASE t1 < t2
  <2>1. m1 < m2 BY <1>3, Digits, WidthsAssumption
  <2> HIDE DEF m1, m2
  <2>2. k1 < k2 BY <2>1, <1>1, Digits, WidthsAssumption
  <2> HIDE DEF k1, k2
  <2>3. k1 * SeqSize + s1 < k2 * SeqSize + s2 BY <2>2, <1>1, Digits, WidthsAssumption
  <2> QED BY <2>3, <1>2
<1>4. CASE t1 = t2 /\ s1 < s2
  <2>1. k1 = k2 BY <1>4
  <2> HIDE DEF k1, k2
  <2>2. k1 * SeqSize \in Nat BY <1>1, WidthsAssumption
  <2> QED BY <2>1, <2>2, <1>2, <1>4
<1> QED BY <1>3, <1>4

(* Different fields make different numbers.                                 *)
LEMMA NumberInjective ==
    ASSUME NEW d1 \in 0..(DatacenterSize - 1), NEW w1 \in 0..(WorkerSize - 1),
           NEW d2 \in 0..(DatacenterSize - 1), NEW w2 \in 0..(WorkerSize - 1),
           NEW t1 \in Nat, NEW s1 \in 0..(SeqSize - 1),
           NEW t2 \in Nat, NEW s2 \in 0..(SeqSize - 1),
           Number(t1, d1, w1, s1) = Number(t2, d2, w2, s2)
    PROVE  d1 = d2 /\ w1 = w2
<1> DEFINE m1 == t1 * DatacenterSize + d1
<1> DEFINE m2 == t2 * DatacenterSize + d2
<1> DEFINE k1 == m1 * WorkerSize + w1
<1> DEFINE k2 == m2 * WorkerSize + w2
<1>1. m1 \in Nat /\ m2 \in Nat /\ k1 \in Nat /\ k2 \in Nat BY NumberType, WidthsAssumption
<1>2. k1 * SeqSize + s1 = k2 * SeqSize + s2 BY DEF Number
<1> HIDE DEF k1, k2
<1>3. k1 = k2 BY <1>1, <1>2, Digits, WidthsAssumption
<1> HIDE DEF m1, m2
<1>4. m1 = m2 /\ w1 = w2 BY <1>1, <1>3, Digits, WidthsAssumption DEF k1, k2
<1>5. d1 = d2 BY <1>4, Digits, WidthsAssumption DEF m1, m2
<1> QED BY <1>4, <1>5

-----------------------------------------------------------------------------
(* The inductive invariant.                                                 *)

(* At most one thread of a node is inside next(). *)
Alone ==
    \A t, u \in Caller :
        NodeOf[t] = NodeOf[u] /\ where[t] # "idle" /\ where[u] # "idle" => t = u

Active(n) == {t \in Caller : NodeOf[t] = n /\ where[t] \in {"wait", "return"}}

(* What sequence_ and the thread that is in next() owe to the ids issued by *)
(* the node: between calls sequence_ is at least that of every id of the    *)
(* last millisecond, and a thread about to return has a later time, or the  *)
(* last id's and a larger sequence_.                                        *)
Ahead ==
    /\ \A i \in 1..Len(issued) :
          LET n == issued[i].node IN
          /\ issued[i].time <= last_timestamp_[n]
          /\ Active(n) = {} /\ issued[i].time = last_timestamp_[n]
                => issued[i].seq <= sequence_[n]
    /\ \A t \in Caller :
          LET n == NodeOf[t] IN
          /\ where[t] \in {"compare", "return"} => last_timestamp_[n] <= timestamp[t]
          /\ where[t] = "return" =>
                \A i \in 1..Len(issued) :
                    issued[i].node = n =>
                        \/ issued[i].time < timestamp[t]
                        \/ issued[i].time = timestamp[t] /\ issued[i].seq < sequence_[n]

Clocks ==
    /\ \A n \in Node : last_timestamp_[n] <= millsecond[n]
    /\ \A t \in Caller : where[t] # "idle" => ready[NodeOf[t]]
    /\ \A t \in Caller :
          where[t] \in {"compare", "return"} => timestamp[t] <= millsecond[NodeOf[t]]

(* The parts of the ids, and their order. *)
Made ==
    \A i \in 1..Len(issued) :
        /\ ready[issued[i].node]
        /\ issued[i].id = Number(issued[i].time, datacenterid_[issued[i].node],
                                 workerid_[issued[i].node], issued[i].seq)

Sorted ==
    \A i, j \in 1..Len(issued) :
        i < j /\ issued[i].node = issued[j].node =>
            \/ issued[i].time < issued[j].time
            \/ issued[i].time = issued[j].time /\ issued[i].seq < issued[j].seq

(* A node that has done its init() has the numbers it was given. *)
Given ==
    \A n \in Initialised :
        ready[n] => workerid_[n] = WorkerId[n] /\ datacenterid_[n] = DatacenterId[n]

IdsInv == TypeOK /\ Alone /\ Clocks /\ Ahead /\ Made /\ Sorted /\ Given

-----------------------------------------------------------------------------
(* The steps.                                                               *)

(* A new generator has issued nothing.                                      *)
LEMMA InitIds == SnowflakeInit => IdsInv
<1> SUFFICES ASSUME SnowflakeInit PROVE IdsInv OBVIOUS
<1>1. issued \in Seq(Issue) /\ Len(issued) = 0 BY EmptySeq, Zenon DEF SnowflakeInit
<1>2. TypeOK BY <1>1, WidthsAssumption DEF SnowflakeInit, TypeOK
<1>3. Alone BY DEF SnowflakeInit, Alone
<1>4. Clocks BY NodesAssumption DEF SnowflakeInit, Clocks
<1>5. Ahead /\ Made /\ Sorted BY <1>1, NodesAssumption DEF SnowflakeInit, Ahead, Made, Sorted
<1>6. Given BY NodesAssumption DEF SnowflakeInit, Given
<1> QED BY <1>2, <1>3, <1>4, <1>5, <1>6 DEF IdsInv

(* What the proofs of the steps need of the types. *)
LEMMA Types ==
    ASSUME TypeOK
    PROVE  /\ \A n \in Node : /\ last_timestamp_[n] \in Int /\ sequence_[n] \in Int
                              /\ millsecond[n] \in Int
           /\ \A t \in Caller : NodeOf[t] \in Node /\ timestamp[t] \in Int
           /\ \A i \in 1..Len(issued) : /\ issued[i].node \in Node
                                        /\ issued[i].time \in Nat
                                        /\ issued[i].seq \in 0..(SeqSize - 1)
                                        /\ issued[i].id \in Nat
           /\ Len(issued) \in Nat
<1>1. \A i \in 1..Len(issued) : issued[i] \in Issue BY DEF TypeOK
<1>2. \A i \in 1..Len(issued) : /\ issued[i].node \in Node
                                /\ issued[i].time \in Nat
                                /\ issued[i].seq \in 0..(SeqSize - 1)
                                /\ issued[i].id \in Nat
  BY <1>1, WidthsAssumption DEF Issue
<1> QED BY <1>2, NodesAssumption, WidthsAssumption, SMTT(30) DEF TypeOK

(* The sequence stays below its limit, and is 0 only when it wraps.         *)
LEMMA SequenceStep ==
    ASSUME NEW s \in 0..(SeqSize - 1)
    PROVE  /\ NextSequence(s) \in 0..(SeqSize - 1)
           /\ NextSequence(s) # 0 => NextSequence(s) = s + 1
<1>1. CASE s + 1 = SeqSize BY <1>1, WidthsAssumption DEF NextSequence
<1>2. CASE s + 1 < SeqSize BY <1>2, WidthsAssumption DEF NextSequence
<1> QED BY <1>1, <1>2, WidthsAssumption

(* init() keeps the invariant.                                              *)
LEMMA InitCall ==
    ASSUME IdsInv, NEW n \in Node, init(n)
    PROVE  IdsInv'
<1>1. /\ UNCHANGED <<last_timestamp_, sequence_, millsecond, where, timestamp, asked, issued>>
      /\ \A k \in Node \ {n} : /\ ready'[k] = ready[k] /\ workerid_'[k] = workerid_[k]
                               /\ datacenterid_'[k] = datacenterid_[k]
      /\ n \in Initialised /\ ~ready[n] /\ ready'[n] = TRUE
      /\ workerid_'[n] = WorkerId[n] /\ datacenterid_'[n] = DatacenterId[n]
  BY DEF init, object, IdsInv, TypeOK
<1>2. TypeOK' BY <1>1 DEF init, IdsInv, TypeOK
<1>3. Alone' /\ Ahead' /\ Sorted' BY <1>1 DEF IdsInv, Alone, Ahead, Sorted, Active
<1>4. Clocks' BY <1>1, NodesAssumption DEF IdsInv, Clocks
<1>5. Made'
  <2> SUFFICES ASSUME NEW i \in 1..Len(issued)
               PROVE  /\ ready'[issued[i].node]
                      /\ issued[i].id = Number(issued[i].time, datacenterid_'[issued[i].node],
                                               workerid_'[issued[i].node], issued[i].seq)
    BY <1>1 DEF Made
  <2>1. ready[issued[i].node] BY DEF IdsInv, Made
  <2>2. issued[i].node \in Node \ {n} BY <2>1, <1>1, Types DEF IdsInv
  <2> QED BY <2>1, <2>2, <1>1 DEF IdsInv, Made
<1>6. Given' BY <1>1, NodesAssumption DEF IdsInv, Given
<1> QED BY <1>2, <1>3, <1>4, <1>5, <1>6 DEF IdsInv

(* The clock does not disturb the ids.                                      *)
LEMMA TickStep ==
    ASSUME IdsInv, NEW n \in Node, Tick(n)
    PROVE  IdsInv'
<1>1. /\ UNCHANGED <<last_timestamp_, sequence_, workerid_, datacenterid_, ready,
                     where, timestamp, asked, issued>>
      /\ millsecond' \in [Node -> 0..MaxMillis]
      /\ \A k \in Node : millsecond'[k] \in Int /\ millsecond[k] <= millsecond'[k]
  BY WidthsAssumption, SMTT(30) DEF Tick, object, ids, IdsInv, TypeOK
<1>2. TypeOK' BY <1>1 DEF IdsInv, TypeOK
<1>3. Alone' /\ Ahead' /\ Sorted' BY <1>1 DEF IdsInv, Alone, Ahead, Sorted, Active
<1>4. Made' /\ Given' BY <1>1 DEF IdsInv, Made, Given
<1>5. Clocks'
  <2>1. \A k \in Node : last_timestamp_[k] <= millsecond'[k]
    BY <1>1, Types DEF IdsInv, Clocks
  <2>2. \A t \in Caller :
           where[t] \in {"compare", "return"} => timestamp[t] <= millsecond'[NodeOf[t]]
    BY <1>1, Types DEF IdsInv, Clocks
  <2> QED BY <2>1, <2>2, <1>1 DEF IdsInv, Clocks
<1> QED BY <1>2, <1>3, <1>4, <1>5 DEF IdsInv

(* A step inside next() leaves every other thread of the node outside. *)
LEMMA AloneStep ==
    ASSUME IdsInv, NEW t \in Caller, NextCall(t) \/ Step(t)
    PROVE  /\ Alone'
           /\ \A u \in Caller : u # t => where'[u] = where[u]
           /\ \A u \in Caller : u # t /\ NodeOf[u] = NodeOf[t] => where[u] = "idle"
<1>1. \A u \in Caller : u # t => where'[u] = where[u]
  BY DEF NextCall, Step, ReadClock, NextInSame, FirstInNew, WaitNextMillis, Return,
         IdsInv, TypeOK
<1>2. \A u \in Caller : u # t /\ NodeOf[u] = NodeOf[t] => where[u] = "idle"
  BY DEF NextCall, Unlocked, Step, ReadClock, NextInSame, FirstInNew, WaitNextMillis,
         Return, IdsInv, Alone
<1> QED BY <1>1, <1>2 DEF IdsInv, Alone

(* Entering next() does not disturb the ids.                                *)
LEMMA CallStep ==
    ASSUME IdsInv, NEW t \in Caller, NextCall(t)
    PROVE  IdsInv'
<1>1. /\ UNCHANGED <<last_timestamp_, sequence_, workerid_, datacenterid_, ready,
                     millsecond, timestamp, issued>>
      /\ asked' \in [Caller -> 0..MaxAsked] /\ where[t] = "idle" /\ where'[t] = "read"
      /\ where' = [where EXCEPT ![t] = "read"] /\ ready[NodeOf[t]]
  BY WidthsAssumption DEF NextCall, object, ids, IdsInv, TypeOK
<1>2. TypeOK' BY <1>1 DEF IdsInv, TypeOK
<1>3. Alone' /\ \A u \in Caller : u # t => where'[u] = where[u] BY AloneStep
<1>4. Sorted' /\ Made' /\ Given' BY <1>1 DEF IdsInv, Sorted, Made, Given
<1>5. Clocks' BY <1>1, <1>3 DEF IdsInv, Clocks
<1>6. \A n \in Node : Active(n)' = Active(n) BY <1>1, <1>3 DEF Active
<1>7. Ahead' BY <1>1, <1>3, <1>6, Types DEF IdsInv, Ahead
<1> QED BY <1>2, <1>3, <1>4, <1>5, <1>7 DEF IdsInv

(* Reading the clock does not disturb the ids.                              *)
LEMMA ReadStep ==
    ASSUME IdsInv, NEW t \in Caller, ReadClock(t)
    PROVE  IdsInv'
<1>1. /\ UNCHANGED <<last_timestamp_, sequence_, workerid_, datacenterid_, ready,
                     millsecond, asked, issued>>
      /\ where[t] = "read" /\ where' = [where EXCEPT ![t] = "compare"] /\ where'[t] = "compare"
      /\ timestamp' \in [Caller -> 0..MaxMillis] /\ timestamp'[t] = millsecond[NodeOf[t]]
      /\ \A u \in Caller : u # t => timestamp'[u] = timestamp[u]
  BY Types DEF ReadClock, object, ids, IdsInv, TypeOK
<1>2. TypeOK' BY <1>1 DEF IdsInv, TypeOK
<1>3. Alone' /\ \A u \in Caller : u # t => where'[u] = where[u] BY AloneStep DEF Step
<1>4. Sorted' /\ Made' /\ Given' BY <1>1 DEF IdsInv, Sorted, Made, Given
<1>5. Clocks' BY <1>1, <1>3, Types, SMTT(30) DEF IdsInv, Clocks
<1>6. \A n \in Node : Active(n)' = Active(n) BY <1>1, <1>3 DEF Active
<1>7. last_timestamp_[NodeOf[t]] <= timestamp'[t] BY <1>1, Types DEF IdsInv, Clocks
<1>8. Ahead' BY <1>1, <1>3, <1>6, <1>7, Types, ZenonT(40) DEF IdsInv, Ahead
<1> QED BY <1>2, <1>3, <1>4, <1>5, <1>8 DEF IdsInv

(* A thread that compares is the only one that could disturb sequence_, and *)
(* no thread of its node waits or returns.                                  *)
LEMMA NoneActive ==
    ASSUME IdsInv, NEW t \in Caller, NextInSame(t) \/ FirstInNew(t)
    PROVE  Active(NodeOf[t]) = {}
<1>1. where[t] = "compare" BY DEF NextInSame, FirstInNew
<1>2. \A u \in Caller : u # t /\ NodeOf[u] = NodeOf[t] => where[u] = "idle"
  BY AloneStep DEF Step
<1> QED BY <1>1, <1>2 DEF Active

(* What is left to show for a step that changes sequence_ or the time a     *)
(* thread is about to return with.                                          *)
AheadOf(t) ==
    \A i \in 1..Len(issued) :
        issued[i].node = NodeOf[t] =>
            \/ issued[i].time < timestamp[t]
            \/ issued[i].time = timestamp[t] /\ issued[i].seq < sequence_[NodeOf[t]]

(* What a change of the sequence does to the ids still to come.             *)
LEMMA SequenceChanged ==
    ASSUME IdsInv, NEW t \in Caller, NextInSame(t) \/ FirstInNew(t),
           where'[t] = "return" => AheadOf(t)'
    PROVE  IdsInv'
<1> DEFINE n == NodeOf[t]
<1>1. /\ UNCHANGED <<last_timestamp_, workerid_, datacenterid_, ready, millsecond,
                     timestamp, asked, issued>>
      /\ where[t] = "compare" /\ where'[t] \in {"wait", "return"}
      /\ where' \in [Caller -> {"idle", "read", "compare", "wait", "return"}]
      /\ sequence_' \in [Node -> 0..(SeqSize - 1)]
      /\ \A k \in Node : k # n => sequence_'[k] = sequence_[k]
  <2>1. CASE NextInSame(t)
    <3>1. n \in Node /\ sequence_[n] \in 0..(SeqSize - 1) /\ sequence_ \in [Node -> 0..(SeqSize - 1)]
      BY NodesAssumption DEF IdsInv, TypeOK
    <3>2. NextSequence(sequence_[n]) \in 0..(SeqSize - 1) BY <3>1, SequenceStep
    <3>3. /\ sequence_' = [sequence_ EXCEPT ![n] = NextSequence(sequence_[n])]
          /\ UNCHANGED <<last_timestamp_, workerid_, datacenterid_, ready, millsecond,
                         timestamp, asked, issued>>
          /\ where[t] = "compare"
      BY <2>1 DEF NextInSame, ids
    <3>4. /\ where' = [where EXCEPT ![t] = IF NextSequence(sequence_[n]) = 0 THEN "wait" ELSE "return"]
          /\ where \in [Caller -> {"idle", "read", "compare", "wait", "return"}]
      BY <2>1 DEF NextInSame, IdsInv, TypeOK
    <3> HIDE DEF n
    <3>5. /\ sequence_' \in [Node -> 0..(SeqSize - 1)]
          /\ \A k \in Node : k # n => sequence_'[k] = sequence_[k]
      BY <3>1, <3>2, <3>3
    <3> QED BY <3>3, <3>4, <3>5
  <2>2. CASE FirstInNew(t)
    <3>1. n \in Node /\ sequence_ \in [Node -> 0..(SeqSize - 1)]
      BY NodesAssumption DEF IdsInv, TypeOK
    <3>2. 0 \in 0..(SeqSize - 1) BY WidthsAssumption
    <3>3. /\ sequence_' = [sequence_ EXCEPT ![n] = 0]
          /\ UNCHANGED <<last_timestamp_, workerid_, datacenterid_, ready, millsecond,
                         timestamp, asked, issued>>
          /\ where[t] = "compare"
      BY <2>2 DEF FirstInNew, ids
    <3>4. /\ where' = [where EXCEPT ![t] = "return"]
          /\ where \in [Caller -> {"idle", "read", "compare", "wait", "return"}]
      BY <2>2 DEF FirstInNew, IdsInv, TypeOK
    <3> HIDE DEF n
    <3>5. /\ sequence_' \in [Node -> 0..(SeqSize - 1)]
          /\ \A k \in Node : k # n => sequence_'[k] = sequence_[k]
      BY <3>1, <3>2, <3>3
    <3> QED BY <3>3, <3>4, <3>5
  <2> QED BY <2>1, <2>2
<1>2. TypeOK' BY <1>1 DEF IdsInv, TypeOK
<1>3. /\ Alone' /\ \A u \in Caller : u # t => where'[u] = where[u]
      /\ \A u \in Caller : u # t /\ NodeOf[u] = n => where[u] = "idle"
  BY AloneStep DEF Step
<1>4. Sorted' /\ Made' /\ Given' BY <1>1 DEF IdsInv, Sorted, Made, Given
<1>5. Clocks' BY <1>1, <1>3 DEF IdsInv, Clocks
<1>6. t \in Active(n)' BY <1>1 DEF Active
<1>7. \A k \in Node : k # n => Active(k)' = Active(k) BY <1>3 DEF Active
<1>8. Ahead'
  <2>1. ASSUME NEW i \in 1..Len(issued)
        PROVE  LET k == issued[i].node IN
               /\ issued[i].time <= last_timestamp_[k]
               /\ Active(k)' = {} /\ issued[i].time = last_timestamp_[k]
                     => issued[i].seq <= sequence_'[k]
    <3>1. CASE issued[i].node = n
      <4>1. Active(issued[i].node)' # {} BY <3>1, <1>1, <1>6
      <4>2. issued[i].time <= last_timestamp_[issued[i].node] BY DEF IdsInv, Ahead
      <4> QED BY <4>1, <4>2
    <3>2. CASE issued[i].node # n
      <4>1. issued[i].node \in Node BY Types DEF IdsInv
      <4>2. /\ Active(issued[i].node)' = Active(issued[i].node)
            /\ sequence_'[issued[i].node] = sequence_[issued[i].node]
        BY <3>2, <4>1, <1>1, <1>7
      <4> QED BY <4>2 DEF IdsInv, Ahead
    <3> QED BY <3>1, <3>2
  <2>2. ASSUME NEW u \in Caller
        PROVE  /\ where'[u] \in {"compare", "return"} => last_timestamp_[NodeOf[u]] <= timestamp[u]
               /\ where'[u] = "return" => AheadOf(u)'
    <3>1. CASE u = t BY <3>1, <1>1 DEF IdsInv, Ahead
    <3>2. CASE u # t /\ NodeOf[u] = n BY <3>2, <1>3
    <3>3. CASE u # t /\ NodeOf[u] # n
      BY <3>3, <1>1, <1>3, Types DEF IdsInv, Ahead, AheadOf
    <3> QED BY <3>1, <3>2, <3>3
  <2> QED BY <2>1, <2>2, <1>1 DEF Ahead, AheadOf
<1> QED BY <1>2, <1>3, <1>4, <1>5, <1>8 DEF IdsInv

(* The branch of the same millisecond keeps the invariant.                  *)
LEMMA SameStep ==
    ASSUME IdsInv, NEW t \in Caller, NextInSame(t)
    PROVE  IdsInv'
<1> DEFINE n == NodeOf[t]
<1>1. n \in Node /\ sequence_[n] \in 0..(SeqSize - 1)
  BY NodesAssumption DEF IdsInv, TypeOK
<1>2. /\ issued' = issued /\ timestamp' = timestamp /\ last_timestamp_[n] = timestamp[t]
      /\ sequence_'[n] = NextSequence(sequence_[n])
      /\ where'[t] = IF NextSequence(sequence_[n]) = 0 THEN "wait" ELSE "return"
  BY <1>1 DEF NextInSame, IdsInv, TypeOK
<1>3. ASSUME where'[t] = "return" PROVE AheadOf(t)'
  <2>1. sequence_'[n] = sequence_[n] + 1 BY <1>1, <1>2, <1>3, SequenceStep
  <2>2. ASSUME NEW i \in 1..Len(issued), issued[i].node = n
        PROVE  \/ issued[i].time < timestamp[t]
               \/ issued[i].time = timestamp[t] /\ issued[i].seq < sequence_'[n]
    <3>1. issued[i].time <= timestamp[t] BY <1>2, <2>2 DEF IdsInv, Ahead
    <3>2. issued[i].time = timestamp[t] => issued[i].seq <= sequence_[n]
      BY <1>2, <2>2, NoneActive DEF IdsInv, Ahead
    <3> QED BY <3>1, <3>2, <2>1, <1>1, Types DEF IdsInv
  <2> QED BY <2>2, <1>2 DEF AheadOf
<1> QED BY <1>3, SequenceChanged

(* The branch of a new millisecond keeps the invariant.                     *)
LEMMA NewStep ==
    ASSUME IdsInv, NEW t \in Caller, FirstInNew(t)
    PROVE  IdsInv'
<1> DEFINE n == NodeOf[t]
<1>1. /\ issued' = issued /\ timestamp' = timestamp /\ last_timestamp_[n] # timestamp[t]
      /\ where[t] = "compare"
  BY DEF FirstInNew
<1>2. last_timestamp_[n] < timestamp[t]
  BY <1>1, Types DEF IdsInv, Ahead
<1>3. AheadOf(t)'
  <2>1. ASSUME NEW i \in 1..Len(issued), issued[i].node = n
        PROVE  issued[i].time < timestamp[t]
    BY <1>2, <2>1, Types DEF IdsInv, Ahead
  <2> QED BY <2>1, <1>1 DEF AheadOf
<1> QED BY <1>3, SequenceChanged

(* Leaving wait_next_millis() keeps the invariant.                          *)
LEMMA WaitStep ==
    ASSUME IdsInv, NEW t \in Caller, WaitNextMillis(t)
    PROVE  IdsInv'
<1> DEFINE n == NodeOf[t]
<1>1. /\ UNCHANGED <<last_timestamp_, sequence_, workerid_, datacenterid_, ready,
                     millsecond, asked, issued>>
      /\ where[t] = "wait" /\ where' = [where EXCEPT ![t] = "return"] /\ where'[t] = "return"
      /\ timestamp' = [timestamp EXCEPT ![t] = millsecond[n]]
      /\ last_timestamp_[n] < millsecond[n]
  BY Types DEF WaitNextMillis, AfterWait, object, ids, IdsInv, TypeOK
<1>2. /\ timestamp' \in [Caller -> 0..MaxMillis] /\ timestamp'[t] = millsecond[n]
      /\ \A u \in Caller : u # t => timestamp'[u] = timestamp[u]
  BY <1>1, NodesAssumption DEF IdsInv, TypeOK
<1>3. TypeOK' BY <1>1, <1>2 DEF IdsInv, TypeOK
<1>4. /\ Alone' /\ \A u \in Caller : u # t => where'[u] = where[u]
      /\ \A u \in Caller : u # t /\ NodeOf[u] = n => where[u] = "idle"
  BY AloneStep DEF Step
<1>5. Sorted' /\ Made' /\ Given' BY <1>1 DEF IdsInv, Sorted, Made, Given
<1>6. Clocks' BY <1>1, <1>2, <1>4, Types DEF IdsInv, Clocks
<1>7. \A k \in Node : Active(k)' = Active(k) BY <1>1, <1>4 DEF Active
<1>8. AheadOf(t)'
  <2>1. ASSUME NEW i \in 1..Len(issued), issued[i].node = n
        PROVE  issued[i].time < timestamp'[t]
    BY <1>1, <1>2, <2>1, Types DEF IdsInv, Ahead
  <2> QED BY <2>1, <1>1 DEF AheadOf
<1>9. Ahead'
  <2>1. ASSUME NEW u \in Caller
        PROVE  /\ where'[u] \in {"compare", "return"} => last_timestamp_[NodeOf[u]] <= timestamp'[u]
               /\ where'[u] = "return" => AheadOf(u)'
    <3>1. CASE u = t BY <3>1, <1>1, <1>2, <1>8, Types DEF IdsInv
    <3>2. CASE u # t BY <3>2, <1>1, <1>2, <1>4 DEF IdsInv, Ahead, AheadOf
    <3> QED BY <3>1, <3>2
  <2> QED BY <2>1, <1>1, <1>7, Types DEF IdsInv, Ahead, AheadOf
<1> QED BY <1>3, <1>4, <1>5, <1>6, <1>9 DEF IdsInv

(* The number next() returns is new.                                        *)
LEMMA ReturnStep ==
    ASSUME IdsInv, NEW t \in Caller, Return(t)
    PROVE  IdsInv'
<1> DEFINE n == NodeOf[t]
<1> DEFINE r == [node |-> n, time |-> timestamp[t], seq |-> sequence_[n],
                 id |-> Number(timestamp[t], datacenterid_[n], workerid_[n], sequence_[n])]
<1> DEFINE c == Len(issued)
<1>1. /\ UNCHANGED <<sequence_, workerid_, datacenterid_, ready, millsecond, timestamp, asked>>
      /\ where[t] = "return" /\ where' = [where EXCEPT ![t] = "idle"]
      /\ last_timestamp_' = [last_timestamp_ EXCEPT ![n] = timestamp[t]]
      /\ issued' = Append(issued, r)
  BY DEF Return, ids
<1>2. /\ n \in Node /\ timestamp[t] \in 0..MaxMillis /\ sequence_[n] \in 0..(SeqSize - 1)
      /\ datacenterid_[n] \in 0..(DatacenterSize - 1) /\ workerid_[n] \in 0..(WorkerSize - 1)
  BY NodesAssumption DEF IdsInv, TypeOK
<1>3. r \in Issue
  <2>1. timestamp[t] \in Nat BY <1>2, WidthsAssumption
  <2>2. Number(timestamp[t], datacenterid_[n], workerid_[n], sequence_[n]) \in Nat
    BY <2>1, <1>2, NumberType
  <2> HIDE DEF n
  <2> QED BY <2>2, <1>2 DEF Issue
<1>4. r.node = n /\ r.time = timestamp[t] /\ r.seq = sequence_[n]
  OBVIOUS
<1>5. r.id = Number(timestamp[t], datacenterid_[n], workerid_[n], sequence_[n]) OBVIOUS
<1> HIDE DEF r
<1>6. /\ issued' \in Seq(Issue) /\ Len(issued') = c + 1 /\ c \in Nat
      /\ issued'[c + 1] = r /\ \A i \in 1..c : issued'[i] = issued[i]
  BY <1>1, <1>3, AppendProperties DEF IdsInv, TypeOK
<1>7. /\ last_timestamp_' \in [Node -> -1..MaxMillis] /\ last_timestamp_'[n] = timestamp[t]
      /\ \A k \in Node : k # n => last_timestamp_'[k] = last_timestamp_[k]
      /\ where' \in [Caller -> {"idle", "read", "compare", "wait", "return"}]
      /\ where'[t] = "idle"
  <2>1. timestamp[t] \in -1..MaxMillis BY <1>2
  <2> HIDE DEF n
  <2> QED BY <2>1, <1>1, <1>2 DEF IdsInv, TypeOK
<1>8. /\ Alone' /\ \A u \in Caller : u # t => where'[u] = where[u]
      /\ \A u \in Caller : u # t /\ NodeOf[u] = n => where[u] = "idle"
  BY AloneStep DEF Step
<1>9. TypeOK' BY <1>1, <1>6, <1>7 DEF IdsInv, TypeOK
<1> HIDE DEF c
<1>10. \A i \in 1..c : issued[i].node = n =>
          \/ issued[i].time < timestamp[t]
          \/ issued[i].time = timestamp[t] /\ issued[i].seq < sequence_[n]
  BY <1>1 DEF c, IdsInv, Ahead
<1>11. \A i \in 1..(c + 1) : i \in 1..c \/ i = c + 1 BY <1>6
<1>12. Sorted'
  <2> SUFFICES ASSUME NEW i \in 1..(c + 1), NEW j \in 1..(c + 1),
                      i < j, issued'[i].node = issued'[j].node
               PROVE  \/ issued'[i].time < issued'[j].time
                      \/ issued'[i].time = issued'[j].time /\ issued'[i].seq < issued'[j].seq
    BY <1>6 DEF Sorted
  <2>1. i \in 1..c BY <1>6
  <2>2. CASE j \in 1..c BY <2>1, <2>2, <1>6 DEF c, IdsInv, Sorted
  <2>3. CASE j = c + 1 BY <2>1, <2>3, <1>4, <1>6, <1>10
  <2> QED BY <2>2, <2>3, <1>11
<1>13. Made'
  <2> SUFFICES ASSUME NEW i \in 1..(c + 1)
               PROVE  /\ ready[issued'[i].node]
                      /\ issued'[i].id = Number(issued'[i].time, datacenterid_[issued'[i].node],
                                                workerid_[issued'[i].node], issued'[i].seq)
    BY <1>1, <1>6 DEF Made
  <2>1. CASE i \in 1..c BY <2>1, <1>6 DEF c, IdsInv, Made
  <2>2. CASE i = c + 1
    <3>1. ready[n] BY <1>1 DEF IdsInv, Clocks
    <3> QED BY <2>2, <3>1, <1>4, <1>5, <1>6
  <2> QED BY <2>1, <2>2, <1>11
<1>14. Given' BY <1>1 DEF IdsInv, Given
<1>15. Clocks'
  <2>1. last_timestamp_'[n] <= millsecond[n] BY <1>1, <1>7 DEF IdsInv, Clocks
  <2>2. \A k \in Node : last_timestamp_'[k] <= millsecond[k]
    BY <2>1, <1>7 DEF IdsInv, Clocks
  <2> QED BY <2>2, <1>1, <1>7, <1>8 DEF IdsInv, Clocks
<1>16. \A k \in Node : k # n => Active(k)' = Active(k) BY <1>8 DEF Active
<1>17. Ahead'
  <2>1. ASSUME NEW i \in 1..(c + 1), NEW k, k = issued'[i].node
        PROVE  /\ issued'[i].time <= last_timestamp_'[k]
               /\ Active(k)' = {} /\ issued'[i].time = last_timestamp_'[k]
                     => issued'[i].seq <= sequence_[k]
    <3>1. CASE i = c + 1
      <4>1. k = n /\ issued'[i].time = timestamp[t] /\ issued'[i].seq = sequence_[n]
        BY <2>1, <3>1, <1>4, <1>6
      <4> QED BY <4>1, <1>2, <1>7
    <3>2. CASE i \in 1..c /\ issued[i].node = n
      <4>1. issued'[i] = issued[i] /\ k = n BY <2>1, <3>2, <1>6
      <4>2. \/ issued[i].time < timestamp[t]
            \/ issued[i].time = timestamp[t] /\ issued[i].seq < sequence_[n]
        BY <3>2, <1>10
      <4>3. issued[i].time \in Nat /\ issued[i].seq \in Int /\ timestamp[t] \in Int
        BY <3>2, Types DEF c, IdsInv
      <4> QED BY <3>2, <4>1, <4>2, <4>3, <1>2, <1>7
    <3>3. CASE i \in 1..c /\ issued[i].node # n
      <4>1. issued'[i] = issued[i] /\ k = issued[i].node /\ k \in Node
        BY <2>1, <3>3, <1>6, Types DEF c, IdsInv
      <4>2. last_timestamp_'[k] = last_timestamp_[k] /\ Active(k)' = Active(k)
        BY <3>3, <4>1, <1>7, <1>16
      <4>3. /\ issued[i].time <= last_timestamp_[k]
            /\ Active(k) = {} /\ issued[i].time = last_timestamp_[k]
                  => issued[i].seq <= sequence_[k]
        BY <3>3, <4>1 DEF c, IdsInv, Ahead
      <4> QED BY <4>1, <4>2, <4>3
    <3> QED BY <3>1, <3>2, <3>3, <1>11
  <2>2. ASSUME NEW u \in Caller, where'[u] \in {"compare", "return"}
        PROVE  /\ NodeOf[u] # n /\ where'[u] = where[u]
               /\ last_timestamp_'[NodeOf[u]] = last_timestamp_[NodeOf[u]]
    <3>1. u # t BY <2>2, <1>7
    <3>2. where'[u] = where[u] /\ NodeOf[u] # n BY <2>2, <3>1, <1>8
    <3> QED BY <3>2, <1>7, NodesAssumption
  <2>3. ASSUME NEW u \in Caller
        PROVE  /\ where'[u] \in {"compare", "return"} =>
                     last_timestamp_'[NodeOf[u]] <= timestamp[u]
               /\ where'[u] = "return" =>
                     \A i \in 1..(c + 1) :
                        issued'[i].node = NodeOf[u] =>
                           \/ issued'[i].time < timestamp[u]
                           \/ issued'[i].time = timestamp[u] /\ issued'[i].seq < sequence_[NodeOf[u]]
    <3>1. where'[u] \in {"compare", "return"} => last_timestamp_'[NodeOf[u]] <= timestamp[u]
      BY <2>2 DEF IdsInv, Ahead
    <3>2. ASSUME where'[u] = "return", NEW i \in 1..(c + 1), issued'[i].node = NodeOf[u]
          PROVE  \/ issued'[i].time < timestamp[u]
                 \/ issued'[i].time = timestamp[u] /\ issued'[i].seq < sequence_[NodeOf[u]]
      <4>1. NodeOf[u] # n /\ where[u] = "return" BY <2>2, <3>2
      <4>2. i \in 1..c BY <3>2, <4>1, <1>4, <1>6, <1>11
      <4>3. issued'[i] = issued[i] BY <4>2, <1>6
      <4> QED BY <3>2, <4>1, <4>2, <4>3 DEF c, IdsInv, Ahead
    <3> QED BY <3>1, <3>2
  <2>4. sequence_' = sequence_ /\ timestamp' = timestamp /\ Len(issued') = c + 1
    BY <1>1, <1>6
  <2> QED BY <2>1, <2>3, <2>4 DEF Ahead
<1> QED BY <1>8, <1>9, <1>12, <1>13, <1>14, <1>15, <1>17 DEF IdsInv

(* The invariant holds. *)
THEOREM IdsCorrect == SnowflakeSafety => []IdsInv
<1>1. IdsInv /\ [SnowflakeNext]_snowflake_vars => IdsInv'
  <2> SUFFICES ASSUME IdsInv, [SnowflakeNext]_snowflake_vars PROVE IdsInv' OBVIOUS
  <2>1. CASE \E n \in Node : init(n) \/ Tick(n) BY <2>1, InitCall, TickStep
  <2>2. CASE \E t \in Caller : NextCall(t) \/ Step(t)
    BY <2>2, CallStep, ReadStep, SameStep, NewStep, WaitStep, ReturnStep DEF Step
  <2>3. CASE UNCHANGED snowflake_vars
    BY <2>3 DEF snowflake_vars, object, ids, IdsInv, TypeOK, Alone, Clocks, Ahead, Active,
                Made, Sorted, Given
  <2> QED BY <2>1, <2>2, <2>3 DEF SnowflakeNext
<1> QED BY InitIds, <1>1, PTL DEF SnowflakeSafety

(* Types. *)
THEOREM TypeCorrect == SnowflakeSafety => []TypeOK
<1>1. IdsInv => TypeOK BY DEF IdsInv
<1> QED BY <1>1, IdsCorrect, PTL

(* The ids of one generator increase, for any number of threads and any     *)
(* pace of the clock.                                                       *)
THEOREM IncreasingHolds == SnowflakeSafety => []Increasing
<1>1. IdsInv => Increasing
  <2> SUFFICES ASSUME IdsInv, NEW i \in 1..Len(issued), NEW j \in 1..Len(issued),
                      i < j, issued[i].node = issued[j].node
               PROVE  issued[i].id < issued[j].id
    BY DEF Increasing
  <2> DEFINE n == issued[i].node
  <2>1. /\ n \in Node /\ issued[i].time \in Nat /\ issued[j].time \in Nat
        /\ issued[i].seq \in 0..(SeqSize - 1) /\ issued[j].seq \in 0..(SeqSize - 1)
    BY Types DEF IdsInv
  <2>2. datacenterid_[n] \in 0..(DatacenterSize - 1) /\ workerid_[n] \in 0..(WorkerSize - 1)
    BY <2>1 DEF IdsInv, TypeOK
  <2>3. \/ issued[i].time < issued[j].time
        \/ issued[i].time = issued[j].time /\ issued[i].seq < issued[j].seq
    BY DEF IdsInv, Sorted
  <2>4. Number(issued[i].time, datacenterid_[n], workerid_[n], issued[i].seq)
        < Number(issued[j].time, datacenterid_[n], workerid_[n], issued[j].seq)
    BY <2>1, <2>2, <2>3, NumberOrder
  <2> QED BY <2>4 DEF IdsInv, Made
<1> QED BY <1>1, IdsCorrect, PTL

(* Every node does its init(), and no two with the same pair of numbers. *)
Distinct ==
    /\ Initialised = Node
    /\ \A m, n \in Node : m # n => WorkerId[m] # WorkerId[n] \/ DatacenterId[m] # DatacenterId[n]

(* Ids are unique in the whole system, given that the nodes call init()     *)
(* with pairs of their own.                                                 *)
THEOREM UniqueIdsHold == Distinct => (SnowflakeSafety => []UniqueIds)
<1> SUFFICES ASSUME Distinct PROVE SnowflakeSafety => []UniqueIds OBVIOUS
<1>1. IdsInv /\ Increasing => UniqueIds
  <2> SUFFICES ASSUME IdsInv, Increasing, NEW i \in 1..Len(issued), NEW j \in 1..Len(issued),
                      i # j, issued[i].id = issued[j].id
               PROVE  FALSE
    BY DEF UniqueIds
  <2>1. issued[i].id \in Nat /\ issued[j].id \in Nat BY Types DEF IdsInv
  <2>2. CASE issued[i].node = issued[j].node
    <3>1. i < j \/ j < i OBVIOUS
    <3> QED BY <2>1, <2>2, <3>1 DEF Increasing
  <2>3. CASE issued[i].node # issued[j].node
    <3> DEFINE m == issued[i].node
    <3> DEFINE n == issued[j].node
    <3>1. /\ m \in Node /\ n \in Node /\ issued[i].time \in Nat /\ issued[j].time \in Nat
          /\ issued[i].seq \in 0..(SeqSize - 1) /\ issued[j].seq \in 0..(SeqSize - 1)
      BY Types DEF IdsInv
    <3>2. /\ datacenterid_[m] \in 0..(DatacenterSize - 1) /\ workerid_[m] \in 0..(WorkerSize - 1)
          /\ datacenterid_[n] \in 0..(DatacenterSize - 1) /\ workerid_[n] \in 0..(WorkerSize - 1)
      BY <3>1 DEF IdsInv, TypeOK
    <3>3. Number(issued[i].time, datacenterid_[m], workerid_[m], issued[i].seq)
          = Number(issued[j].time, datacenterid_[n], workerid_[n], issued[j].seq)
      BY DEF IdsInv, Made
    <3> HIDE DEF m, n
    <3>4. datacenterid_[m] = datacenterid_[n] /\ workerid_[m] = workerid_[n]
      BY <3>1, <3>2, <3>3, NumberInjective, SMTT(30)
    <3>5. /\ workerid_[m] = WorkerId[m] /\ datacenterid_[m] = DatacenterId[m]
          /\ workerid_[n] = WorkerId[n] /\ datacenterid_[n] = DatacenterId[n]
      BY <3>1 DEF m, n, IdsInv, Made, Given, Distinct
    <3> QED BY <2>3, <3>1, <3>4, <3>5 DEF m, n, Distinct
  <2> QED BY <2>2, <2>3
<1> QED BY <1>1, IdsCorrect, IncreasingHolds, PTL

(* No id is ahead of its node's clock. *)
THEOREM NotAheadHolds == SnowflakeSafety => []NotAhead
<1>1. IdsInv => NotAhead
  <2> SUFFICES ASSUME IdsInv, NEW i \in 1..Len(issued)
               PROVE  issued[i].time <= millsecond[issued[i].node]
    BY DEF NotAhead
  <2>1. issued[i].node \in Node /\ issued[i].time \in Nat BY Types DEF IdsInv
  <2>2. issued[i].time <= last_timestamp_[issued[i].node] BY DEF IdsInv, Ahead
  <2>3. last_timestamp_[issued[i].node] <= millsecond[issued[i].node]
    BY <2>1 DEF IdsInv, Clocks
  <2> QED BY <2>1, <2>2, <2>3, Types DEF IdsInv
<1> QED BY <1>1, IdsCorrect, PTL
=============================================================================
