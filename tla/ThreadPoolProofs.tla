--------------------------- MODULE ThreadPoolProofs ---------------------------
(***************************************************************************)
(* Theorems about ThreadPool, for any number of threads, tasks and resets:  *)
(* the order in which tasks start, that a worker which goes on to take a    *)
(* task finds one, what the counter tasks_total means, and what the owner   *)
(* may rely on when wait_for_tasks returns.                                 *)
(***************************************************************************)
EXTENDS ThreadPool, SequenceTheorems, FiniteSetTheorems, TLAPS

-----------------------------------------------------------------------------
(* Facts about sequences. *)

Numbered(n) == [i \in 1..n |-> i]

(* An element of any kind may be appended.                                  *)
LEMMA AppendAny ==
    ASSUME NEW S, NEW s \in Seq(S), NEW e
    PROVE  /\ Append(s, e) \in Seq(S \cup {e})
           /\ Len(Append(s, e)) = Len(s) + 1
<1>1. s \in Seq(S \cup {e}) OBVIOUS
<1> QED BY <1>1, AppendProperties

(* Taking the first element from a queue and putting it behind those that *)
(* were taken leaves the two, one behind the other, as they were.         *)
LEMMA MoveHead ==
    ASSUME NEW a \in Seq(Nat), NEW b \in Seq(Nat), b # << >>
    PROVE  Append(a, Head(b)) \o Tail(b) = a \o b
<1> DEFINE l == Append(a, Head(b)) \o Tail(b)
<1> DEFINE r == a \o b
<1>1. Len(a) \in Nat /\ Len(b) \in Nat /\ Len(b) > 0
  BY EmptySeq, LenProperties
<1>2. /\ Tail(b) \in Seq(Nat) /\ Len(Tail(b)) = Len(b) - 1 /\ Head(b) = b[1] /\ Head(b) \in Nat
      /\ \A i \in 1..(Len(b) - 1) : Tail(b)[i] = b[i + 1]
  BY HeadTailProperties
<1>3. /\ Append(a, Head(b)) \in Seq(Nat) /\ Len(Append(a, Head(b))) = Len(a) + 1
      /\ \A i \in 1..Len(a) : Append(a, Head(b))[i] = a[i]
      /\ Append(a, Head(b))[Len(a) + 1] = b[1]
  BY <1>2, AppendProperties
<1>4. /\ l \in Seq(Nat) /\ Len(l) = Len(a) + Len(b)
      /\ \A i \in 1..(Len(a) + Len(b)) :
           l[i] = IF i <= Len(a) + 1 THEN Append(a, Head(b))[i] ELSE Tail(b)[i - (Len(a) + 1)]
  BY <1>1, <1>2, <1>3, ConcatProperties
<1>5. /\ r \in Seq(Nat) /\ Len(r) = Len(a) + Len(b)
      /\ \A i \in 1..(Len(a) + Len(b)) : r[i] = IF i <= Len(a) THEN a[i] ELSE b[i - Len(a)]
  BY <1>1, ConcatProperties
<1>6. ASSUME NEW i \in 1..(Len(a) + Len(b)) PROVE l[i] = r[i]
  <2>1. CASE i <= Len(a) BY <2>1, <1>1, <1>3, <1>4, <1>5
  <2>2. CASE i = Len(a) + 1 BY <2>2, <1>1, <1>3, <1>4, <1>5
  <2>3. CASE i > Len(a) + 1
    <3>1. i - (Len(a) + 1) \in 1..(Len(b) - 1) /\ i - (Len(a) + 1) + 1 = i - Len(a) BY <2>3, <1>1
    <3> QED BY <2>3, <3>1, <1>1, <1>2, <1>4, <1>5
  <2> QED BY <2>1, <2>2, <2>3, <1>1
<1> QED BY <1>4, <1>5, <1>6, SeqEqual

(* A task behind the others gets the next number. *)
LEMMA PushNext ==
    ASSUME NEW a \in Seq(Nat), NEW b \in Seq(Nat), NEW n \in Nat, a \o b = Numbered(n)
    PROVE  a \o Append(b, n + 1) = Numbered(n + 1)
<1>1. Numbered(n) \in Seq(Nat) /\ Len(Numbered(n)) = n BY DEF Numbered
<1>2. Len(a) + Len(b) = n /\ Len(a) \in Nat /\ Len(b) \in Nat
  BY <1>1, ConcatProperties, LenProperties
<1>3. /\ Append(b, n + 1) \in Seq(Nat) /\ Len(Append(b, n + 1)) = Len(b) + 1
      /\ \A i \in 1..Len(b) : Append(b, n + 1)[i] = b[i]
      /\ Append(b, n + 1)[Len(b) + 1] = n + 1
  BY AppendProperties
<1> DEFINE l == a \o Append(b, n + 1)
<1>4. /\ l \in Seq(Nat) /\ Len(l) = n + 1
      /\ \A i \in 1..(n + 1) : l[i] = IF i <= Len(a) THEN a[i] ELSE Append(b, n + 1)[i - Len(a)]
  BY <1>2, <1>3, ConcatProperties
<1>5. \A i \in 1..n : (a \o b)[i] = IF i <= Len(a) THEN a[i] ELSE b[i - Len(a)]
  BY <1>2, ConcatProperties
<1>6. ASSUME NEW i \in 1..(n + 1) PROVE l[i] = i
  <2>1. CASE i = n + 1
    <3>1. ~(i <= Len(a)) /\ i - Len(a) = Len(b) + 1 BY <2>1, <1>2
    <3> QED BY <2>1, <3>1, <1>3, <1>4
  <2>2. CASE i # n + 1
    <3>1. i \in 1..n /\ (a \o b)[i] = i BY <2>2 DEF Numbered
    <3>2. ~(i <= Len(a)) => i - Len(a) \in 1..Len(b) BY <3>1, <1>2
    <3> QED BY <3>1, <3>2, <1>2, <1>3, <1>4, <1>5
  <2> QED BY <2>1, <2>2
<1>7. Numbered(n + 1) \in Seq(Nat) /\ Len(Numbered(n + 1)) = n + 1
      /\ \A i \in 1..(n + 1) : Numbered(n + 1)[i] = i
  BY DEF Numbered
<1> QED BY <1>4, <1>6, <1>7, SeqEqual

-----------------------------------------------------------------------------
(* The queue: its tasks are numbered in the order they came.  The mutex: a    *)
(* worker between its test and its sleep or its task holds it.  What the test *)
(* found is still so when the worker goes on, for nobody else can take tasks, *)
(* and running is set again only when all workers have ended.                 *)
Queued == /\ tasks \in Seq(Nat) /\ started \in Seq(Nat)
          /\ \E S : pushed \in Seq(S)
          /\ FirstInFirstOut
Critical == {"block", "take", "wait_block"}
Locked == /\ DOMAIN pc = Threads
          /\ \A t \in Threads : pc[t] \in Critical => lock = t
          /\ plan.next \in {"idle", "stop"}
          /\ \A w \in Workers : pc[w] = "take" => tasks # << >> \/ ~running
PoolInv == Queued /\ Locked

(* A new pool satisfies the invariant.                                      *)
LEMMA PoolInitially == Init => PoolInv
<1> SUFFICES ASSUME Init PROVE PoolInv
  OBVIOUS
<1>1. tasks \in Seq(Nat) /\ started \in Seq(Nat) /\ pushed \in Seq(Nat) BY DEF Init
<1>2. FirstInFirstOut
  <2>1. started \o tasks = << >> BY DEF Init
  <2>2. Len(pushed) = 0 BY DEF Init
  <2> QED BY <2>1, <2>2 DEF FirstInFirstOut
<1>3. Locked BY DEF Init, Created, Call, Locked, Critical, Threads, Workers, Owner
<1> QED BY <1>1, <1>2, <1>3 DEF PoolInv, Queued

(* A step that leaves the queue alone keeps what is said of it. *)
LEMMA QueueKept == ASSUME Queued, UNCHANGED queue PROVE Queued'
  BY DEF Queued, FirstInFirstOut, queue

(* A step after which at most one more worker is about to go on, and none is   *)
(* woken into the middle of a wait.                                            *)
LEMMA LockKept ==
    ASSUME Locked, UNCHANGED <<tasks, running, lock, plan>>, DOMAIN pc' = Threads,
           \A t \in Threads : pc'[t] \in Critical => pc'[t] = pc[t]
    PROVE  Locked'
  BY DEF Locked, Critical, Threads

(* While no thread is in between, a thread that tests its condition may be.      *)
LEMMA LockTaken ==
    ASSUME Locked, UNCHANGED <<tasks, running, plan>>, lock = -1, NEW t \in Threads, lock' = t,
           NEW to, pc' = [pc EXCEPT ![t] = to], to = "take" => tasks # << >> \/ ~running
    PROVE  Locked'
<1>1. \A u \in Threads : pc[u] \notin Critical
  BY PoolConstants DEF Locked, Threads, Workers, Owner
<1>2. DOMAIN pc' = Threads /\ \A u \in Threads : pc'[u] = IF u = t THEN to ELSE pc[u]
  BY DEF Locked
<1> QED BY <1>1, <1>2 DEF Locked, Critical, Threads

(* The thread that was in between leaves, and then none is.                       *)
LEMMA LockLeft ==
    ASSUME Locked, plan' = plan, NEW t \in Threads, lock = t,
           NEW to, pc' = [pc EXCEPT ![t] = to], to \notin Critical
    PROVE  Locked'
<1>1. DOMAIN pc' = Threads /\ \A u \in Threads : pc'[u] = IF u = t THEN to ELSE pc[u]
  BY DEF Locked
<1>2. \A u \in Threads : pc'[u] \notin Critical BY <1>1 DEF Locked
<1> QED BY <1>1, <1>2 DEF Locked, Critical, Threads

(* notify_one() moves a waiting worker only, and none into the lock.        *)
LEMMA Woken ==
    ASSUME Locked, NotifyOne
    PROVE  DOMAIN pc' = Threads /\ \A t \in Threads : pc'[t] \in Critical => pc'[t] = pc[t]
<1>1. CASE pc' = pc BY <1>1 DEF Locked
<1>2. ASSUME NEW v \in Workers, pc' = [pc EXCEPT ![v] = "lock"]
      PROVE  DOMAIN pc' = Threads /\ \A t \in Threads : pc'[t] \in Critical => pc'[t] = pc[t]
  BY <1>2 DEF Locked, Threads, Critical
<1> QED BY <1>1, <1>2 DEF NotifyOne

(* push_task puts a task behind the others. *)
LEMMA EnqueueStep ==
    ASSUME PoolInv, NEW t, NEW range, Enqueue(t, range)
    PROVE  PoolInv'
<1>1. PICK S : pushed \in Seq(S) BY DEF PoolInv, Queued
<1>2. /\ pushed' = Append(pushed, range) /\ tasks' = Append(tasks, Len(pushed) + 1)
      /\ UNCHANGED <<started, running, lock, pc, plan>>
  BY DEF Enqueue, PushedBehind, flags
<1>3. pushed' \in Seq(S \cup {range}) /\ Len(pushed') = Len(pushed) + 1 /\ Len(pushed) \in Nat
  BY <1>1, <1>2, AppendAny, LenProperties
<1>4. tasks' \in Seq(Nat) /\ tasks' # << >>
  <2>1. tasks \in Seq(Nat) /\ Len(pushed) + 1 \in Nat BY <1>3 DEF PoolInv, Queued
  <2>2. tasks' = Append(tasks, Len(pushed) + 1) BY <1>2
  <2>3. Append(tasks, Len(pushed) + 1) \in Seq(Nat) BY <2>1
  <2>4. Len(Append(tasks, Len(pushed) + 1)) = Len(tasks) + 1 /\ Len(tasks) \in Nat BY <2>1
  <2> QED BY <2>2, <2>3, <2>4
<1>5. FirstInFirstOut'
  <2>1. started \o tasks = Numbered(Len(pushed)) BY DEF PoolInv, Queued, FirstInFirstOut, Numbered
  <2>2. started \o tasks' = Numbered(Len(pushed) + 1)
    BY <2>1, <1>2, <1>3, PushNext DEF PoolInv, Queued
  <2> QED BY <2>2, <1>2, <1>3 DEF FirstInFirstOut, Numbered
<1>6. Queued' BY <1>2, <1>3, <1>4, <1>5 DEF Queued, PoolInv
<1>7. Locked' BY <1>2, <1>4 DEF Locked, Critical, PoolInv
<1> QED BY <1>6, <1>7 DEF PoolInv

(* A worker takes the first task, and it alone holds the mutex. *)
LEMMA TakeStep ==
    ASSUME PoolInv, NEW w \in Workers, WorkerTakes(w)
    PROVE  PoolInv'
<1>1. /\ running /\ pc[w] = "take" /\ pc' = [pc EXCEPT ![w] = "run"]
      /\ tasks' = Tail(tasks) /\ started' = Append(started, Head(tasks))
      /\ UNCHANGED <<pushed, running>>
  BY DEF WorkerTakes, MayTake, At, flags
<1>2. w \in Threads /\ lock = w /\ tasks # << >> BY <1>1 DEF PoolInv, Locked, Critical, Threads
<1>3. tasks' \in Seq(Nat) /\ Head(tasks) \in Nat /\ started' \in Seq(Nat)
  BY <1>1, <1>2, HeadTailProperties, AppendProperties DEF PoolInv, Queued
<1>4. started' \o tasks' = started \o tasks
  BY <1>1, <1>2, MoveHead DEF PoolInv, Queued
<1>5. Queued' BY <1>1, <1>3, <1>4 DEF PoolInv, Queued, FirstInFirstOut
<1>6. plan' = plan BY DEF WorkerTakes, calls
<1>7. Locked' BY <1>1, <1>2, <1>6, LockLeft DEF PoolInv, Critical
<1> QED BY <1>5, <1>7 DEF PoolInv

(* The other steps of a worker. *)
LEMMA WorkerStep ==
    ASSUME PoolInv, NEW w \in Workers, WorkerGoesOn(w) \/ TaskPushes(w)
    PROVE  PoolInv'
<1>w. w \in Threads /\ Owner \in Threads /\ w # Owner BY PoolConstants DEF Threads, Workers, Owner
<1>1. CASE WorkerTakes(w) BY <1>1, TakeStep
<1>2. CASE TaskPushes(w) BY <1>2, EnqueueStep DEF TaskPushes
<1>3. CASE WorkerTest(w)
  <2>1. lock = -1 /\ lock' = w /\ UNCHANGED <<queue, tasks, running, plan>>
    BY <1>3 DEF WorkerTest, Free, queue, flags, calls
  <2> DEFINE to == IF HasWork THEN "take" ELSE "block"
  <2>2. pc' = [pc EXCEPT ![w] = to] /\ (to = "take" => tasks # << >> \/ ~running)
    BY <1>3 DEF WorkerTest, At, HasWork
  <2>3. Locked' BY <2>1, <2>2, <1>w, LockTaken DEF PoolInv
  <2> QED BY <2>1, <2>3, QueueKept DEF PoolInv
<1>4. CASE WorkerSleeps(w) \/ WorkerPasses(w)
  <2>1. pc[w] \in Critical /\ UNCHANGED <<queue, plan>>
    BY <1>4 DEF WorkerSleeps, WorkerPasses, At, Critical, calls
  <2>2. \E to : pc' = [pc EXCEPT ![w] = to] /\ to \notin Critical
    BY <1>4 DEF WorkerSleeps, WorkerPasses, At, Critical
  <2>3. lock = w BY <2>1, <1>w DEF PoolInv, Locked
  <2> QED BY <2>1, <2>2, <2>3, <1>w, LockLeft, QueueKept DEF PoolInv
<1>5. CASE WorkerLoop(w) \/ TaskReturns(w) \/ CountDown(w)
  <2>1. /\ UNCHANGED <<queue, tasks, running, lock, plan>>
        /\ \E to \in {"lock", "exited", "count", "notify"} : pc' = [pc EXCEPT ![w] = to]
    BY <1>5 DEF WorkerLoop, TaskReturns, CountDown, At, queue, flags, calls
  <2>2. Locked' BY <2>1, <1>w, LockKept DEF PoolInv, Locked, Critical
  <2> QED BY <2>1, <2>2, QueueKept DEF PoolInv
<1>6. CASE WorkerNotifies(w)
  <2>1. UNCHANGED <<queue, tasks, running, lock, plan>> BY <1>6 DEF WorkerNotifies, queue, flags, calls
  <2>2. \E to \in {"wait_lock", pc[Owner]} : pc' = [pc EXCEPT ![w] = "loop", ![Owner] = to]
    BY <1>6, <1>w DEF WorkerNotifies, PoolInv, Locked
  <2>3. DOMAIN pc' = Threads /\ \A t \in Threads : pc'[t] \in Critical => pc'[t] = pc[t]
    BY <2>2, <1>w DEF PoolInv, Locked, Critical
  <2> QED BY <2>1, <2>3, LockKept, QueueKept DEF PoolInv
<1>7. CASE CountUp(w)
  BY <1>7, LockKept, QueueKept DEF CountUp, PoolInv, queue, flags, calls, Locked
<1>8. CASE PushNotify(w)
  <2>1. UNCHANGED <<queue, tasks, running, lock, plan>> /\ NotifyOne
    BY <1>8 DEF PushNotify, queue, flags, calls
  <2> QED BY <2>1, Woken, LockKept, QueueKept DEF PoolInv
<1> QED BY <1>1, <1>2, <1>3, <1>4, <1>5, <1>6, <1>7, <1>8 DEF WorkerGoesOn, Worker

(* The owner's calls and the rest of them. *)
LEMMA OwnerStep ==
    ASSUME PoolInv, Calls \/ OwnerGoesOn
    PROVE  PoolInv'
<1>o. Owner \in Threads /\ Owner \notin Workers BY DEF Threads, Workers, Owner
<1>a. ASSUME NEW to, to \notin Critical, plan'.next \in {"idle", "stop"},
             UNCHANGED <<queue, tasks, running, lock>>, pc' = [pc EXCEPT ![Owner] = to]
      PROVE  PoolInv'
  <2>1. DOMAIN pc' = Threads /\ \A t \in Threads : pc'[t] = IF t = Owner THEN to ELSE pc[t]
    BY <1>a, <1>o DEF PoolInv, Locked
  <2>2. Locked' BY <1>a, <2>1, <1>o DEF PoolInv, Locked, Threads
  <2> QED BY <1>a, <2>2, QueueKept DEF PoolInv
<1>b. ASSUME UNCHANGED <<queue, tasks, running, lock, pc, plan>> PROVE PoolInv'
  BY <1>b, LockKept, QueueKept DEF PoolInv, Locked
<1>p. plan.next \in {"idle", "stop"} BY DEF PoolInv, Locked
<1>1. CASE Push BY <1>1, EnqueueStep DEF Push
<1>2. CASE Submit BY <1>2, EnqueueStep DEF Submit
<1>3. CASE parallelize_loop BY <1>3, <1>b DEF parallelize_loop, queue, flags
<1>4. CASE Pause BY <1>4, <1>b DEF Pause, queue, flags, calls
<1>5. CASE Wait \/ Reset \/ Destroy
  <2>1. ASSUME NEW call, WaitForTasks(call), call.next \in {"idle", "stop"} PROVE PoolInv'
    BY <2>1, <1>a DEF WaitForTasks, At, queue, Critical
  <2>2. CASE Wait BY <2>2, <2>1 DEF Wait, Call
  <2>3. CASE Reset
    <3>1. PICK n \in Counts : WaitForTasks([Call("stop") EXCEPT !.count = n]) BY <2>3 DEF Reset
    <3>2. [Call("stop") EXCEPT !.count = n].next = "stop" BY DEF Call
    <3> QED BY <3>1, <3>2, <2>1
  <2>4. CASE Destroy BY <2>4, <2>1 DEF Destroy, Call
  <2> QED BY <1>5, <2>2, <2>3, <2>4
<1>6. CASE CountUp(Owner) BY <1>6, <1>b DEF CountUp, queue, flags, calls
<1>7. CASE PushNotify(Owner)
  <2>1. UNCHANGED <<queue, tasks, running, lock, plan>> /\ NotifyOne
    BY <1>7 DEF PushNotify, queue, flags, calls
  <2> QED BY <2>1, Woken, LockKept, QueueKept DEF PoolInv
<1>8. CASE WaitReturns
  BY <1>8, <1>a, <1>p DEF WaitReturns, At, queue, flags, calls, Critical
<1>9. CASE WaitTest
  <2>1. /\ lock = -1 /\ lock' = Owner /\ UNCHANGED <<queue, tasks, running, plan>>
        /\ pc' = [pc EXCEPT ![Owner] = "wait_block"]
    BY <1>9 DEF WaitTest, Free, At, queue, flags, calls
  <2> QED BY <2>1, <1>o, LockTaken, QueueKept DEF PoolInv
<1>13. CASE WaitSleeps
  <2>1. /\ pc[Owner] \in Critical /\ UNCHANGED <<queue, plan>>
        /\ pc' = [pc EXCEPT ![Owner] = "wait_asleep"]
    BY <1>13 DEF WaitSleeps, At, Critical, calls
  <2>2. lock = Owner BY <2>1, <1>o DEF PoolInv, Locked
  <2> QED BY <2>1, <2>2, <1>o, LockLeft, QueueKept DEF PoolInv, Critical
<1>10. CASE StopThreads
  <2>1. UNCHANGED <<queue, tasks, lock, plan>> /\ ~running' /\ pc' = [pc EXCEPT ![Owner] = "notify_all"]
    BY <1>10 DEF StopThreads, At, queue, calls
  <2>2. DOMAIN pc' = Threads /\ \A t \in Threads : pc'[t] = IF t = Owner THEN "notify_all" ELSE pc[t]
    BY <2>1, <1>o DEF PoolInv, Locked
  <2>3. Locked' BY <2>1, <2>2 DEF PoolInv, Locked, Critical
  <2> QED BY <2>1, <2>3, QueueKept DEF PoolInv
<1>11. CASE WakeWorkers
  <2>1. UNCHANGED <<queue, tasks, running, lock, plan>> BY <1>11 DEF WakeWorkers, queue, flags, calls
  <2>2. DOMAIN pc' = Threads /\ \A t \in Threads : pc'[t] \in Critical => pc'[t] = pc[t]
    BY <1>11, <1>o DEF WakeWorkers, Threads, Critical
  <2> QED BY <2>1, <2>2, LockKept, QueueKept DEF PoolInv
<1>12. CASE Recreate
  <2>1. UNCHANGED <<queue, plan>> /\ pc' = Created(plan.count) BY <1>12 DEF Recreate, calls
  <2>2. DOMAIN pc' = Threads /\ \A t \in Threads : pc'[t] \notin Critical
    BY <2>1 DEF Created, Critical
  <2>3. Locked' BY <2>1, <2>2, <1>p DEF Locked, Critical, Threads
  <2> QED BY <2>1, <2>3, QueueKept DEF PoolInv
<1>14. CASE Gone BY <1>14, <1>a, <1>p DEF Gone, At, queue, flags, calls, Critical
<1> QED BY <1>1, <1>2, <1>3, <1>4, <1>5, <1>6, <1>7, <1>8, <1>9, <1>10, <1>11, <1>12, <1>13, <1>14
        DEF Calls, OwnerGoesOn

(* Every step of the workers and the owner keeps the invariant              *)
(* (thread_pool.hpp).                                                       *)
LEMMA PoolStep == PoolInv /\ [Next]_vars => PoolInv'
<1> SUFFICES ASSUME PoolInv, [Next]_vars PROVE PoolInv'
  OBVIOUS
<1>1. CASE Calls \/ OwnerGoesOn BY <1>1, OwnerStep
<1>2. ASSUME NEW w \in Workers, WorkerGoesOn(w) \/ TaskPushes(w) PROVE PoolInv'
  BY <1>2, WorkerStep
<1>3. CASE UNCHANGED vars
  BY <1>3, LockKept, QueueKept DEF vars, queue, flags, calls, PoolInv, Locked
<1> QED BY <1>1, <1>2, <1>3 DEF Next

-----------------------------------------------------------------------------
(* push_task, worker, reset: tasks start in the order they were queued, each *)
(* once, also when the threads that were to run them are replaced.           *)
THEOREM FirstInFirstOutHolds == Spec => []FirstInFirstOut
<1>1. PoolInv => FirstInFirstOut BY DEF PoolInv, Queued
<1> QED BY <1>1, PoolInitially, PoolStep, PTL DEF Spec

(* worker() calls tasks.front() without a test of its own when running and    *)
(* not paused: there is a task then, because the mutex is held from the test. *)
TaskThere == \A w \in Workers : pc[w] = "take" /\ MayTake => tasks # << >>
(* A worker takes a task only from a queue that has one (thread_pool.hpp).  *)
THEOREM NeverFromEmpty == Spec => []TaskThere
<1>1. PoolInv => TaskThere BY DEF PoolInv, Locked, TaskThere, MayTake
<1> QED BY <1>1, PoolInitially, PoolStep, PTL DEF Spec

-----------------------------------------------------------------------------
(* Facts about counters that wrap, and about the sizes of finite sets.      *)

(* Numbers that are a multiple of w apart have the same rest.               *)
LEMMA SameRest ==
    ASSUME NEW w \in Nat \ {0}, NEW a \in Int, NEW b \in Int, NEW k \in Int, a = b + w * k
    PROVE  a % w = b % w
<1> DEFINE x == a \div w
<1> DEFINE y == b \div w
<1> DEFINE r == a % w
<1> DEFINE s == b % w
<1>1. /\ a = w * x + r /\ b = w * y + s /\ x \in Int /\ y \in Int
      /\ r \in 0..(w - 1) /\ s \in 0..(w - 1)
  OBVIOUS
<1> HIDE DEF x, y, r, s
<1> DEFINE d == x - y - k
<1>2. d \in Int /\ w * d = w * x - w * y - w * k BY <1>1
<1>3. w * x \in Int /\ w * y \in Int /\ w * k \in Int BY <1>1
<1> HIDE DEF d
<1>4. w * d = s - r BY <1>1, <1>2, <1>3
<1>5. ~(d <= -1)
  <2> SUFFICES ASSUME d <= -1 PROVE FALSE OBVIOUS
  <2>1. w * d <= -w BY <1>2
  <2> QED BY <2>1, <1>1, <1>4
<1>6. ~(d >= 1)
  <2> SUFFICES ASSUME d >= 1 PROVE FALSE OBVIOUS
  <2>1. w * d >= w BY <1>2
  <2> QED BY <2>1, <1>1, <1>4
<1>7. w * d = 0
  <2>1. d = 0 BY <1>2, <1>5, <1>6
  <2> QED BY <2>1
<1>8. r = s BY <1>1, <1>4, <1>7
<1> QED BY <1>8 DEF r, s

(* ++ and -- on a counter that wraps.                                       *)
LEMMA WrapsRight ==
    ASSUME NEW w \in Nat \ {0}, NEW n \in Int
    PROVE  /\ ((n % w) + 1) % w = (n + 1) % w
           /\ ((n % w) + w - 1) % w = (n - 1) % w
<1> DEFINE r == n % w
<1> DEFINE q == n \div w
<1>1. n = w * q + r /\ q \in Int /\ r \in Int OBVIOUS
<1> HIDE DEF r, q
<1>2. n + 1 = (r + 1) + w * q BY <1>1
<1>3. r + w - 1 = (n - 1) + w * (1 - q)
  <2>1. w * (1 - q) = w - w * q BY <1>1
  <2> QED BY <2>1, <1>1
<1> DEFINE a == n + 1
<1> DEFINE b == r + 1
<1> DEFINE c == r + w - 1
<1> DEFINE e == n - 1
<1>6. a \in Int /\ b \in Int /\ c \in Int /\ e \in Int /\ 1 - q \in Int BY <1>1
<1>7. a = b + w * q /\ c = e + w * (1 - q) BY <1>2, <1>3
<1> HIDE DEF a, b, c, e
<1>4. a % w = b % w BY <1>1, <1>6, <1>7, SameRest
<1> DEFINE m == 1 - q
<1>8. m \in Int /\ c = e + w * m BY <1>6, <1>7
<1> HIDE DEF m
<1>5. c % w = e % w BY <1>6, <1>8, SameRest
<1> QED BY <1>4, <1>5 DEF r, a, b, c, e
(* Two subsets of a finite set that differ in t at most.                    *)
LEMMA Recount ==
    ASSUME NEW D, IsFiniteSet(D), NEW A \in SUBSET D, NEW B \in SUBSET D, NEW t,
           A \ {t} = B \ {t}
    PROVE  /\ Cardinality(A) \in Nat /\ Cardinality(B) \in Nat
           /\ (t \in A <=> t \in B) => Cardinality(B) = Cardinality(A)
           /\ t \notin A /\ t \in B => Cardinality(B) = Cardinality(A) + 1
           /\ t \in A /\ t \notin B => Cardinality(B) = Cardinality(A) - 1
<1>1. IsFiniteSet(A) /\ IsFiniteSet(B) BY FS_Subset
<1>2. Cardinality(A) \in Nat /\ Cardinality(B) \in Nat BY <1>1, FS_CardinalityType
<1>3. (t \in A <=> t \in B) => A = B OBVIOUS
<1>4. t \notin A /\ t \in B => B = A \cup {t} OBVIOUS
<1>5. t \in A /\ t \notin B => B = A \ {t} OBVIOUS
<1> QED BY <1>1, <1>2, <1>3, <1>4, <1>5, FS_AddElement, FS_RemoveElement

-----------------------------------------------------------------------------
(* The counter.  Beside what it counts, the invariant says that the queue   *)
(* is bounded: else the counter could come round to 0.                      *)
Late == {t \in Threads : CountedLate(t)}
Total == Len(tasks) + Cardinality(Busy) + Wrap - Cardinality(Late)
CountInv == /\ tasks_total = Total % Wrap
            /\ DOMAIN pushing = Threads
            /\ Len(pushed) <= MaxTasks

(* There are finitely many threads, so those busy or late can be counted.   *)
LEMMA FewThreads ==
    /\ IsFiniteSet(Workers) /\ IsFiniteSet(Threads) /\ Cardinality(Workers) = MaxThreads
    /\ Owner \in Threads /\ Owner \notin Workers /\ Workers \subseteq Threads
    /\ Wrap \in Nat \ {0}
<1>1. IsFiniteSet(Workers) /\ Cardinality(Workers) = MaxThreads
  BY FS_Interval, PoolConstants DEF Workers
<1>2. IsFiniteSet(Threads) BY <1>1, FS_AddElement DEF Threads, Owner
<1> QED BY <1>1, <1>2, PoolConstants DEF Threads, Workers, Owner

(* The sizes are numbers. *)
LEMMA Sizes ==
    ASSUME PoolInv
    PROVE  /\ Cardinality(Busy) \in Nat /\ Cardinality(Late) \in Nat /\ Cardinality(Busy) <= MaxThreads
           /\ Len(tasks) \in Nat /\ Total \in Int
<1>1. Busy \subseteq Workers /\ Late \subseteq Threads BY DEF Busy, Late
<1>2. IsFiniteSet(Busy) /\ IsFiniteSet(Late) BY <1>1, FewThreads, FS_Subset
<1>3. Cardinality(Busy) \in Nat /\ Cardinality(Late) \in Nat BY <1>2, FS_CardinalityType
<1>4. Cardinality(Busy) <= MaxThreads BY <1>1, FewThreads, FS_Subset
<1>5. Len(tasks) \in Nat BY LenProperties DEF PoolInv, Queued
<1>6. Total \in Int BY <1>3, <1>5, PoolConstants DEF Total
<1> QED BY <1>3, <1>4, <1>5, <1>6

(* The counter of a new pool is 0, and nothing is queued. *)
LEMMA CountStarts == Init => CountInv
<1> SUFFICES ASSUME Init PROVE CountInv
  OBVIOUS
<1>1. Busy = {} BY FewThreads DEF Init, Created, Busy
<1>2. Late = {} BY DEF Init, Late, CountedLate
<1>3. Cardinality({}) = 0 BY FS_EmptySet
<1>4. Len(tasks) = 0 /\ Len(pushed) = 0 /\ tasks_total = 0 /\ DOMAIN pushing = Threads BY DEF Init
<1>5. Total = Wrap BY <1>1, <1>2, <1>3, <1>4, PoolConstants DEF Total
<1>6. Wrap % Wrap = 0 % Wrap
  <2>1. Wrap = 0 + Wrap * 1 BY PoolConstants
  <2> QED BY <2>1, FewThreads, SameRest
<1>7. 0 % Wrap = 0 BY FewThreads
<1> QED BY <1>4, <1>5, <1>6, <1>7, PoolConstants DEF CountInv

(* A step that neither queues nor counts, and after which the same workers  *)
(* are busy.                                                                *)
LEMMA CountKept ==
    ASSUME CountInv, UNCHANGED <<tasks, pushed, tasks_total>>, DOMAIN pushing' = Threads,
           \A t \in Threads : CountedLate(t)' <=> CountedLate(t),
           \A w \in Workers : pc'[w] \in {"run", "count"} <=> pc[w] \in {"run", "count"}
    PROVE  CountInv'
<1>1. Busy' = Busy /\ Late' = Late BY DEF Busy, Late
<1> QED BY <1>1 DEF CountInv, Total

(* push_task queues a task that it has not counted yet: the total stays.    *)
LEMMA EnqueueCounts ==
    ASSUME PoolInv, PoolInv', CountInv, NEW t \in Threads, NEW range, Enqueue(t, range)
    PROVE  CountInv'
<1>1. /\ Len(pushed) < MaxTasks /\ pushed' = Append(pushed, range) /\ pushing[t] = "no"
      /\ tasks' = Append(tasks, Len(pushed) + 1) /\ pushing' = [pushing EXCEPT ![t] = "count"]
      /\ UNCHANGED <<tasks_total, pc>>
  BY DEF Enqueue, PushedBehind
<1>2. Len(tasks') = Len(tasks) + 1
  <2>1. tasks \in Seq(Nat) BY DEF PoolInv, Queued
  <2> QED BY <2>1, <1>1, AppendAny
<1>3. Len(pushed') = Len(pushed) + 1 /\ Len(pushed) \in Nat
  <2>1. PICK S : pushed \in Seq(S) BY DEF PoolInv, Queued
  <2> QED BY <2>1, <1>1, AppendAny, LenProperties
<1>4. Len(pushed') <= MaxTasks BY <1>1, <1>3, PoolConstants
<1>5. DOMAIN pushing' = Threads /\ \A u \in Threads : pushing'[u] = IF u = t THEN "count" ELSE pushing[u]
  BY <1>1 DEF CountInv
<1>6. Cardinality(Late') = Cardinality(Late) + 1
  <2>1. Late \subseteq Threads /\ Late' \subseteq Threads /\ Late \ {t} = Late' \ {t} /\ t \notin Late /\ t \in Late'
    BY <1>1, <1>5 DEF Late, CountedLate
  <2> QED BY <2>1, FewThreads, Recount
<1>7. Busy' = Busy BY <1>1 DEF Busy
<1>8. Total' = Total BY <1>2, <1>6, <1>7, Sizes, PoolConstants DEF Total
<1> QED BY <1>1, <1>4, <1>5, <1>8 DEF CountInv

(* ++tasks_total. *)
LEMMA CountUpCounts ==
    ASSUME PoolInv, CountInv, NEW t \in Threads, CountUp(t)
    PROVE  CountInv'
<1>1. /\ pushing[t] = "count" /\ tasks_total' = (tasks_total + 1) % Wrap
      /\ pushing' = [pushing EXCEPT ![t] = "notify"] /\ UNCHANGED <<tasks, pushed, pc>>
  BY DEF CountUp, queue
<1>2. DOMAIN pushing' = Threads /\ \A u \in Threads : pushing'[u] = IF u = t THEN "notify" ELSE pushing[u]
  BY <1>1 DEF CountInv
<1>3. Cardinality(Late') = Cardinality(Late) - 1
  <2>1. Late \subseteq Threads /\ Late' \subseteq Threads /\ Late \ {t} = Late' \ {t} /\ t \in Late /\ t \notin Late'
    BY <1>1, <1>2 DEF Late, CountedLate
  <2> QED BY <2>1, FewThreads, Recount
<1>4. Busy' = Busy BY <1>1 DEF Busy
<1>5. Total' = Total + 1 /\ Total \in Int BY <1>1, <1>3, <1>4, Sizes, PoolConstants DEF Total
<1>6. tasks_total' = (Total + 1) % Wrap BY <1>1, <1>5, FewThreads, WrapsRight DEF CountInv
<1> QED BY <1>1, <1>2, <1>5, <1>6 DEF CountInv

(* --tasks_total, when a task is done. *)
LEMMA CountDownCounts ==
    ASSUME PoolInv, CountInv, NEW w \in Workers, CountDown(w)
    PROVE  CountInv'
<1>1. /\ pc[w] = "count" /\ pc' = [pc EXCEPT ![w] = "notify"]
      /\ tasks_total' = (tasks_total + Wrap - 1) % Wrap /\ UNCHANGED <<tasks, pushed, pushing>>
  BY DEF CountDown, At, queue, OneLess
<1>2. \A v \in Threads : pc'[v] = IF v = w THEN "notify" ELSE pc[v]
  BY <1>1 DEF PoolInv, Locked
<1>3. Cardinality(Busy') = Cardinality(Busy) - 1
  <2>1. Busy \subseteq Workers /\ Busy' \subseteq Workers /\ Busy \ {w} = Busy' \ {w} /\ w \in Busy /\ w \notin Busy'
    BY <1>1, <1>2, FewThreads DEF Busy
  <2> QED BY <2>1, FewThreads, Recount
<1>4. Late' = Late BY <1>1 DEF Late, CountedLate
<1>5. Total' = Total - 1 /\ Total \in Int BY <1>1, <1>3, <1>4, Sizes, PoolConstants DEF Total
<1>6. tasks_total' = (Total - 1) % Wrap BY <1>1, <1>5, FewThreads, WrapsRight DEF CountInv
<1> QED BY <1>1, <1>5, <1>6 DEF CountInv

(* A task that is taken is no longer queued, but it runs. *)
LEMMA TakeCounts ==
    ASSUME PoolInv, CountInv, NEW w \in Workers, WorkerTakes(w)
    PROVE  CountInv'
<1>1. /\ running /\ pc[w] = "take" /\ pc' = [pc EXCEPT ![w] = "run"]
      /\ tasks' = Tail(tasks) /\ UNCHANGED <<pushed, tasks_total, pushing>>
  BY DEF WorkerTakes, MayTake, At
<1>2. tasks # << >> /\ tasks \in Seq(Nat)
  BY <1>1 DEF PoolInv, Locked, Queued
<1>3. Len(tasks') = Len(tasks) - 1 BY <1>1, <1>2, HeadTailProperties
<1>4. \A v \in Threads : pc'[v] = IF v = w THEN "run" ELSE pc[v]
  BY <1>1 DEF PoolInv, Locked
<1>5. Cardinality(Busy') = Cardinality(Busy) + 1
  <2>1. Busy \subseteq Workers /\ Busy' \subseteq Workers /\ Busy \ {w} = Busy' \ {w} /\ w \notin Busy /\ w \in Busy'
    BY <1>1, <1>4, FewThreads DEF Busy
  <2> QED BY <2>1, FewThreads, Recount
<1>6. Late' = Late BY <1>1 DEF Late, CountedLate
<1>7. Total' = Total BY <1>3, <1>5, <1>6, Sizes, PoolConstants DEF Total
<1> QED BY <1>1, <1>7 DEF CountInv

(* Notifying, at the end of push_task. *)
LEMMA PushNotifyCounts ==
    ASSUME PoolInv, CountInv, NEW t \in Threads, PushNotify(t)
    PROVE  CountInv'
<1>1. /\ pushing[t] = "notify" /\ NotifyOne /\ pushing' = [pushing EXCEPT ![t] = "no"]
      /\ UNCHANGED <<queue, tasks_total>>
  BY DEF PushNotify
<1>2. \A w \in Workers : pc'[w] \in {"run", "count"} <=> pc[w] \in {"run", "count"}
  <2>1. CASE pc' = pc BY <2>1
  <2>2. ASSUME NEW v \in Workers, pc[v] = "asleep", pc' = [pc EXCEPT ![v] = "lock"]
        PROVE  \A w \in Workers : pc'[w] \in {"run", "count"} <=> pc[w] \in {"run", "count"}
    BY <2>2, FewThreads DEF PoolInv, Locked
  <2> QED BY <1>1, <2>1, <2>2 DEF NotifyOne
<1>3. DOMAIN pushing' = Threads /\ \A u \in Threads : CountedLate(u)' <=> CountedLate(u)
  BY <1>1 DEF CountInv, CountedLate
<1> QED BY <1>1, <1>2, <1>3, CountKept DEF queue

(* The steps of a worker and of the tasks it runs.                          *)
LEMMA WorkerCounts ==
    ASSUME PoolInv, PoolInv', CountInv, NEW w \in Workers, WorkerGoesOn(w) \/ TaskPushes(w)
    PROVE  CountInv'
<1>w. w \in Threads /\ w # Owner /\ DOMAIN pc = Threads /\ DOMAIN pushing = Threads
      /\ Owner \in Threads /\ Owner \notin Workers /\ Workers \subseteq Threads
  BY FewThreads DEF PoolInv, Locked, CountInv
<1>a. ASSUME UNCHANGED <<queue, tasks_total, pushing>>,
             NEW from, NEW to, pc[w] = from, pc' = [pc EXCEPT ![w] = to],
             from \in {"run", "count"} <=> to \in {"run", "count"}
      PROVE  CountInv'
  <2>1. \A v \in Workers : pc'[v] \in {"run", "count"} <=> pc[v] \in {"run", "count"}
    BY <1>a, <1>w
  <2> QED BY <1>a, <1>w, <2>1, CountKept DEF queue, CountedLate
<1>1. CASE WorkerLoop(w) BY <1>1, <1>a DEF WorkerLoop, At
<1>2. CASE WorkerTest(w) BY <1>2, <1>a DEF WorkerTest, At
<1>3. CASE WorkerSleeps(w) BY <1>3, <1>a DEF WorkerSleeps, At
<1>4. CASE WorkerTakes(w) BY <1>4, TakeCounts
<1>5. CASE WorkerPasses(w) BY <1>5, <1>a DEF WorkerPasses, At
<1>6. CASE TaskReturns(w) BY <1>6, <1>a DEF TaskReturns, At
<1>7. CASE CountDown(w) BY <1>7, CountDownCounts
<1>8. CASE WorkerNotifies(w)
  <2>1. UNCHANGED <<queue, tasks_total, pushing>> BY <1>8 DEF WorkerNotifies
  <2>2. \A v \in Workers : pc'[v] \in {"run", "count"} <=> pc[v] \in {"run", "count"}
    BY <1>8, <1>w DEF WorkerNotifies
  <2> QED BY <1>w, <2>1, <2>2, CountKept DEF queue, CountedLate
<1>9. CASE CountUp(w) BY <1>9, <1>w, CountUpCounts
<1>10. CASE PushNotify(w) BY <1>10, <1>w, PushNotifyCounts
<1>11. CASE TaskPushes(w) BY <1>11, <1>w, EnqueueCounts DEF TaskPushes
<1> QED BY <1>1, <1>2, <1>3, <1>4, <1>5, <1>6, <1>7, <1>8, <1>9, <1>10, <1>11
        DEF WorkerGoesOn, Worker

(* The owner's calls.                                                       *)
LEMMA OwnerCounts ==
    ASSUME PoolInv, PoolInv', CountInv, Calls \/ OwnerGoesOn
    PROVE  CountInv'
<1>o. /\ DOMAIN pc = Threads /\ DOMAIN pushing = Threads
      /\ Owner \in Threads /\ Owner \notin Workers /\ Workers \subseteq Threads
  BY FewThreads DEF PoolInv, Locked, CountInv
<1>a. ASSUME UNCHANGED <<queue, tasks_total, pushing>>,
             \A v \in Workers : pc'[v] \in {"run", "count"} <=> pc[v] \in {"run", "count"}
      PROVE  CountInv'
  BY <1>a, <1>o, CountKept DEF queue, CountedLate
<1>b. ASSUME UNCHANGED <<queue, tasks_total, pushing>>, NEW to, pc' = [pc EXCEPT ![Owner] = to]
      PROVE  CountInv'
  BY <1>b, <1>o, <1>a
<1>1. CASE Push BY <1>1, <1>o, EnqueueCounts DEF Push
<1>2. CASE Submit BY <1>2, <1>o, EnqueueCounts DEF Submit
<1>3. CASE parallelize_loop BY <1>3, <1>a DEF parallelize_loop
<1>4. CASE Pause BY <1>4, <1>a DEF Pause
<1>5. CASE Wait \/ Reset \/ Destroy
  BY <1>5, <1>b DEF Wait, Reset, Destroy, WaitForTasks, At
<1>6. CASE CountUp(Owner) BY <1>6, <1>o, CountUpCounts
<1>7. CASE PushNotify(Owner) BY <1>7, <1>o, PushNotifyCounts
<1>8. CASE WaitReturns BY <1>8, <1>b DEF WaitReturns, At
<1>9. CASE WaitTest BY <1>9, <1>b DEF WaitTest, At
<1>10. CASE WaitSleeps BY <1>10, <1>b DEF WaitSleeps, At
<1>11. CASE StopThreads BY <1>11, <1>b DEF StopThreads, At
<1>12. CASE WakeWorkers
  <2>1. \A v \in Workers : pc'[v] \in {"run", "count"} <=> pc[v] \in {"run", "count"}
    BY <1>12, <1>o DEF WakeWorkers
  <2> QED BY <1>12, <2>1, <1>a DEF WakeWorkers
<1>13. CASE Recreate
  <2>1. \A v \in Workers : pc[v] \in {"none", "exited"} BY <1>13 DEF Recreate, Joined
  <2>2. \A v \in Workers : pc'[v] \in {"none", "loop"} BY <1>13, <1>o DEF Recreate, Created
  <2> QED BY <1>13, <2>1, <2>2, <1>a DEF Recreate
<1>14. CASE Gone BY <1>14, <1>b DEF Gone, At
<1> QED BY <1>1, <1>2, <1>3, <1>4, <1>5, <1>6, <1>7, <1>8, <1>9, <1>10, <1>11, <1>12, <1>13, <1>14
        DEF Calls, OwnerGoesOn

(* No step miscounts (thread_pool.hpp:302, 338).                            *)
LEMMA CountStep == PoolInv /\ PoolInv' /\ CountInv /\ [Next]_vars => CountInv'
<1> SUFFICES ASSUME PoolInv, PoolInv', CountInv, [Next]_vars PROVE CountInv'
  OBVIOUS
<1>1. CASE Calls \/ OwnerGoesOn BY <1>1, OwnerCounts
<1>2. ASSUME NEW w \in Workers, WorkerGoesOn(w) \/ TaskPushes(w) PROVE CountInv'
  BY <1>2, WorkerCounts
<1>3. CASE UNCHANGED vars
  BY <1>3, CountKept DEF vars, queue, CountInv, CountedLate
<1> QED BY <1>1, <1>2, <1>3 DEF Next

(* tasks_total counts the tasks that are queued or running, but for those   *)
(* that were queued and not counted yet, however the threads interleave.    *)
THEOREM TotalRightHolds == Spec => []TotalRight
<1>1. CountInv => TotalRight
  BY DEF CountInv, TotalRight, Total, Busy, Late
<1>2. PoolInv /\ CountInv /\ [Next]_vars => (PoolInv /\ CountInv)'
  BY PoolStep, CountStep
<1> QED BY <1>1, <1>2, PoolInitially, CountStarts, PTL DEF Spec

(* What is unfinished when the counter tells wait_for_tasks that all is done. *)
LEMMA DoneMeansCounted ==
    ASSUME PoolInv, CountInv, AllDone
    PROVE  Cardinality(Busy) + (IF paused THEN 0 ELSE Len(tasks)) = Cardinality(Late)
<1>1. Len(tasks) <= MaxTasks
  <2>1. PICK S : pushed \in Seq(S) BY DEF PoolInv, Queued
  <2>2. Len(started) + Len(tasks) = Len(started \o tasks) /\ Len(started) \in Nat
    BY ConcatProperties, LenProperties DEF PoolInv, Queued
  <2>3. Len(pushed) \in Nat BY <2>1, LenProperties
  <2>4. Len(started \o tasks) = Len(pushed)
    BY <2>3 DEF PoolInv, Queued, FirstInFirstOut
  <2> QED BY <2>2, <2>3, <2>4, Sizes, PoolConstants DEF CountInv
<1>2. Cardinality(Late) <= MaxThreads + 1
  <2>1. Cardinality(Threads) = MaxThreads + 1
    BY FewThreads, FS_AddElement, PoolConstants DEF Threads
  <2>2. Late \subseteq Threads BY DEF Late
  <2> QED BY <2>1, <2>2, FewThreads, FS_Subset
<1> DEFINE n == Len(tasks)
<1> DEFINE b == Cardinality(Busy)
<1> DEFINE l == Cardinality(Late)
<1> DEFINE N == Wrap
<1>3. /\ n \in Nat /\ b \in Nat /\ l \in Nat /\ N \in Nat \ {0}
      /\ n + b < N /\ l < N /\ n < N
  BY <1>1, <1>2, Sizes, FewThreads, PoolConstants
<1>4. tasks_total = (n + b + N - l) % N /\ tasks_total = IF paused THEN n ELSE 0
  BY DEF CountInv, Total, AllDone
<1> HIDE DEF n, b, l, N
<1>5. (n + b + N - l) % N = IF l <= n + b THEN n + b - l ELSE n + b + N - l
  <2>1. CASE l <= n + b
    <3>1. n + b - l \in 0..(N - 1) /\ n + b + N - l = (n + b - l) + N * 1 BY <1>3, <2>1
    <3>2. (n + b + N - l) % N = (n + b - l) % N
      <4> DEFINE x == n + b + N - l
      <4> DEFINE y == n + b - l
      <4> DEFINE k == 1
      <4>1. x = y + N * k /\ x \in Int /\ y \in Int /\ k \in Int BY <3>1, <1>3
      <4> HIDE DEF x, y, k
      <4>2. x % N = y % N BY <4>1, <1>3, SameRest
      <4> QED BY <4>2 DEF x, y
    <3>3. (n + b - l) % N = n + b - l
      <4> DEFINE d == n + b - l
      <4>1. d \in 0..(N - 1) BY <3>1
      <4> HIDE DEF d
      <4>2. d % N = d BY <4>1, <1>3
      <4> QED BY <4>2 DEF d
    <3> QED BY <2>1, <3>2, <3>3
  <2>2. CASE ~(l <= n + b)
    <3> DEFINE d == n + b + N - l
    <3>1. d \in 0..(N - 1) BY <1>3, <2>2
    <3> HIDE DEF d
    <3>2. d % N = d BY <3>1, <1>3
    <3> QED BY <2>2, <3>2 DEF d
  <2> QED BY <2>1, <2>2
<1>6. b + (IF paused THEN 0 ELSE n) = l
  <2>1. CASE paused BY <1>3, <1>4, <1>5, <2>1
  <2>2. CASE ~paused BY <1>3, <1>4, <1>5, <2>2
  <2> QED BY <2>1, <2>2
<1> QED BY <1>6 DEF n, b, l

(* wait_for_tasks leaves as many tasks unfinished as push_task has queued   *)
(* and not counted yet, and none when there is no such push.                *)
THEOREM WaitLeavesHolds == Spec => WaitLeaves
<1>1. PoolInv /\ CountInv /\ [Next]_vars => (PoolInv /\ CountInv)'
  BY PoolStep, CountStep
<1>2. PoolInv /\ CountInv =>
        (WaitReturns => Cardinality(Busy) + (IF paused THEN 0 ELSE Len(tasks))
                        = Cardinality({t \in Threads : CountedLate(t)}))
  BY DoneMeansCounted DEF WaitReturns, Late
<1> QED BY <1>1, <1>2, PoolInitially, CountStarts, PTL DEF Spec, WaitLeaves

-----------------------------------------------------------------------------
(* parallelize_loop. *)

(* Covers(first, last, num, b): the blocks b follow each other from first   *)
(* to last, none is empty, and they are not more than was asked for.        *)
Covers(first, last, num, b) ==
  /\ b = << >> <=> first = last
  /\ b # << >> => b[1][1] = first /\ b[Len(b)][2] = last
  /\ \A i \in DOMAIN b : b[i][1] < b[i][2] /\ (i > 1 => b[i][1] = b[i - 1][2])
  /\ num > 0 => Len(b) <= num

(* Whole blocks of the rounded-down size end before the loop does.          *)
LEMMA BlockSizes ==
    ASSUME NEW total \in Nat, NEW want \in Nat \ {0}
    PROVE  /\ total \div want \in Nat
           /\ want * (total \div want) <= total
           /\ total \div want = 0 => total < want
<1> DEFINE size == total \div want
<1>1. total = want * size + (total % want) /\ size \in Nat /\ total % want \in 0..(want - 1)
  OBVIOUS
<1>2. want * size \in Nat BY <1>1
<1>3. size = 0 => want * size = 0 BY <1>1
<1> HIDE DEF size
<1>4. want * size <= total /\ (size = 0 => total < want) BY <1>1, <1>2, <1>3
<1> QED BY <1>1, <1>4 DEF size

(* The blocks cover the loop, for every loop whose bounds are in order,     *)
(* every number of blocks asked for and every number of threads.            *)
THEOREM BlocksCover ==
    ASSUME NEW first \in Nat, NEW last \in Nat, NEW num \in Nat, NEW n \in Nat \ {0},
           first <= last
    PROVE  Covers(first, last, num, Blocks(first, last, num, n))
<1> DEFINE lo == first
<1> DEFINE hi == last
<1> DEFINE total == hi - lo
<1> DEFINE want == IF num = 0 THEN n ELSE num
<1> DEFINE size == IF total \div want = 0 THEN 1 ELSE total \div want
<1> DEFINE count == IF total \div want = 0 THEN total ELSE want
<1> DEFINE b == [i \in 1..count |-> <<(i - 1) * size + lo, BlockEnd(i = count, i * size + lo, hi)>>]
<1>1. Blocks(first, last, num, n) = b BY DEF Blocks
<1>2. /\ lo \in Nat /\ hi \in Nat /\ total \in Nat /\ (total = 0 <=> first = last)
      /\ want \in Nat \ {0} /\ (num > 0 => want = num) /\ hi = lo + total
  OBVIOUS
<1> HIDE DEF lo, hi, total, want
<1>3. /\ total \div want \in Nat /\ want * (total \div want) <= total
      /\ total \div want = 0 => total < want
  BY <1>2, BlockSizes
<1>4. size \in Nat \ {0} /\ count \in Nat /\ count * size <= total /\ count <= want
  BY <1>2, <1>3
<1>5. count = 0 <=> total = 0
  <2>1. CASE total \div want = 0 BY <2>1
  <2>2. CASE total \div want # 0
    <3> DEFINE q == total \div want
    <3>1. q \in Nat \ {0} /\ want * q <= total BY <2>2, <1>3
    <3> HIDE DEF q
    <3>3. want * q >= q /\ want * q \in Int BY <1>2, <3>1
    <3>2. total # 0 BY <3>1, <3>3, <1>2
    <3> QED BY <2>2, <3>2, <1>2
  <2> QED BY <2>1, <2>2
<1> HIDE DEF size, count
<1>6. b \in Seq(Int \X Int) /\ Len(b) = count /\ DOMAIN b = 1..count
  <2>1. \A i \in 1..count : (i - 1) * size + lo \in Int /\ i * size + lo \in Int BY <1>2, <1>4
  <2>2. \A i \in 1..count : BlockEnd(i = count, i * size + lo, hi) \in Int BY <2>1, <1>2 DEF BlockEnd
  <2>3. \A i \in 1..count : b[i] \in Int \X Int BY <2>1, <2>2
  <2>4. b \in [1..count -> Int \X Int] BY <2>3
  <2> HIDE DEF b
  <2> QED BY <1>4, <2>4
<1>7. \A i \in 1..count : /\ b[i][1] = (i - 1) * size + lo
                           /\ b[i][2] = IF i = count THEN hi ELSE i * size + lo
  BY DEF BlockEnd
<1> HIDE DEF b
<1>8. b = << >> <=> first = last BY <1>2, <1>5, <1>6, EmptySeq
<1>9. b # << >> => b[1][1] = lo /\ b[Len(b)][2] = hi
  <2> SUFFICES ASSUME count # 0 PROVE b[1][1] = lo /\ b[count][2] = hi
    BY <1>6, EmptySeq
  <2>1. 1 \in 1..count /\ count \in 1..count BY <1>4
  <2>2. (1 - 1) * size + lo = lo BY <1>2, <1>4
  <2> QED BY <1>7, <2>1, <2>2
<1>10. ASSUME NEW i \in 1..count
       PROVE  b[i][1] < b[i][2] /\ (i > 1 => b[i][1] = b[i - 1][2])
  <2>1. (i - 1) * size = i * size - size /\ i * size \in Nat BY <1>4
  <2>2. CASE i = count
    <3>1. (i - 1) * size < total BY <2>1, <2>2, <1>2, <1>4
    <3>2. (i - 1) * size \in Int BY <2>1, <1>4
    <3> QED BY <2>2, <3>1, <3>2, <1>2, <1>7
  <2>3. CASE i # count
    BY <2>1, <2>3, <1>2, <1>4, <1>7
  <2>4. i > 1 => b[i][1] = b[i - 1][2]
    <3> SUFFICES ASSUME i > 1 PROVE b[i][1] = b[i - 1][2]
      OBVIOUS
    <3>1. i - 1 \in 1..count /\ i - 1 # count BY <1>4
    <3> QED BY <3>1, <1>7
  <2> QED BY <2>2, <2>3, <2>4
<1>11. num > 0 => Len(b) <= num BY <1>2, <1>4, <1>6
<1>12. Covers(first, last, num, b) BY <1>6, <1>8, <1>9, <1>10, <1>11 DEF Covers, lo, hi
<1> QED BY <1>1, <1>12

(* The first thread of a pool is there until the pool is gone and after.    *)
Manned == pc[1] # "none" /\ plan.count \in {0} \cup Counts

(* A pool is made with a thread, and reset to at least one.                 *)
LEMMA MannedStep ==
    /\ Init => Manned
    /\ PoolInv /\ Manned /\ [Next]_vars => Manned'
<1>c. ASSUME NEW n \in Counts PROVE Created(n)[1] # "none"
  <2>1. n \in 1..MaxThreads /\ 1 \in Threads /\ 1 # Owner BY PoolConstants DEF Threads, Workers, Owner
  <2> QED BY <2>1 DEF Created
<1>1. Init => Manned BY <1>c DEF Init, Manned, Call
<1>2. ASSUME PoolInv, Manned, [Next]_vars PROVE Manned'
  <2>1. 1 \in Threads /\ DOMAIN pc = Threads /\ Owner \in Threads /\ Workers \subseteq Threads
        /\ \A n \in Counts : n # 0
    BY <1>2, FewThreads, PoolConstants DEF PoolInv, Locked, Threads, Workers, Owner
  <2>a. ASSUME plan' = plan, pc' = pc PROVE Manned'
    BY <1>2, <2>a DEF Manned
  <2>b. ASSUME plan' = plan, NEW t, NEW to, to # "none", pc' = [pc EXCEPT ![t] = to] PROVE Manned'
    BY <1>2, <2>1, <2>b DEF Manned
  <2>n. ASSUME plan' = plan, NotifyOne PROVE Manned'
    BY <2>n, <2>a, <2>b DEF NotifyOne
  <2>e. ASSUME NEW t, NEW range, Enqueue(t, range) PROVE Manned'
    BY <2>e, <2>a DEF Enqueue
  <2>2. ASSUME NEW w \in Workers, WorkerGoesOn(w) \/ TaskPushes(w) PROVE Manned'
    <3>1. CASE WorkerNotifies(w)
      <4>1. plan' = plan BY <3>1 DEF WorkerNotifies, calls
      <4>2. pc'[1] \in {"loop", "wait_lock", pc[1]} BY <3>1, <2>1 DEF WorkerNotifies
      <4> QED BY <1>2, <4>1, <4>2 DEF Manned
    <3>2. CASE TaskPushes(w) BY <3>2, <2>e DEF TaskPushes
    <3>3. CASE CountUp(w) BY <3>3, <2>a DEF CountUp, calls
    <3>4. CASE PushNotify(w) BY <3>4, <2>n DEF PushNotify, calls
    <3>5. CASE Worker(w) /\ ~WorkerNotifies(w)
      <4>1. plan' = plan BY <3>5 DEF Worker, WorkerLoop, WorkerTest, WorkerSleeps, WorkerTakes,
              WorkerPasses, TaskReturns, CountDown, calls
      <4>2. \E to : to # "none" /\ pc' = [pc EXCEPT ![w] = to]
        BY <3>5 DEF Worker, WorkerLoop, WorkerTest, WorkerSleeps, WorkerTakes,
           WorkerPasses, TaskReturns, CountDown, At
      <4> QED BY <4>1, <4>2, <2>b
    <3> QED BY <2>2, <3>1, <3>2, <3>3, <3>4, <3>5 DEF WorkerGoesOn
  <2>3. CASE Calls
    <3>1. CASE Push BY <3>1, <2>e DEF Push
    <3>2. CASE parallelize_loop BY <3>2, <2>a DEF parallelize_loop
    <3>3. CASE Pause BY <3>3, <2>a DEF Pause, calls
    <3>w. ASSUME NEW call, WaitForTasks(call), call.count \in {0} \cup Counts PROVE Manned'
      <4>1. plan' = call /\ pc' = [pc EXCEPT ![Owner] = "wait_lock"] BY <3>w DEF WaitForTasks, At
      <4>2. pc'[1] # "none" BY <1>2, <2>1, <4>1 DEF Manned
      <4> QED BY <3>w, <4>1, <4>2 DEF Manned
    <3>4. CASE Wait \/ Destroy BY <3>4, <3>w DEF Wait, Destroy, Call
    <3>5. CASE Reset
      <4>1. PICK n \in Counts : WaitForTasks([Call("stop") EXCEPT !.count = n]) BY <3>5 DEF Reset
      <4>2. [Call("stop") EXCEPT !.count = n].count = n BY DEF Call
      <4> QED BY <4>1, <4>2, <3>w
    <3> QED BY <2>3, <3>1, <3>2, <3>3, <3>4, <3>5 DEF Calls
  <2>4. CASE OwnerGoesOn
    <3>1. CASE Submit BY <3>1, <2>e DEF Submit
    <3>2. CASE CountUp(Owner) BY <3>2, <2>a DEF CountUp, calls
    <3>3. CASE PushNotify(Owner) BY <3>3, <2>n DEF PushNotify, calls
    <3>4. CASE Recreate
      <4>1. plan' = plan /\ pc' = Created(plan.count) /\ plan.count > 0 BY <3>4 DEF Recreate, calls
      <4>2. plan.count \in Counts BY <1>2, <4>1 DEF Manned
      <4> QED BY <1>2, <4>1, <4>2, <1>c DEF Manned
    <3>5. CASE WakeWorkers
      <4>1. plan' = plan BY <3>5 DEF WakeWorkers, calls
      <4>2. pc'[1] \in {"join", "lock", pc[1]} BY <3>5, <2>1 DEF WakeWorkers
      <4> QED BY <1>2, <4>1, <4>2 DEF Manned
    <3>6. CASE WaitReturns \/ WaitTest \/ WaitSleeps \/ StopThreads \/ Gone
      <4>1. plan' = plan BY <3>6 DEF WaitReturns, WaitTest, WaitSleeps, StopThreads, Gone, calls
      <4>2. \E to : to # "none" /\ pc' = [pc EXCEPT ![Owner] = to]
        BY <1>2, <3>6 DEF WaitReturns, WaitTest, WaitSleeps, StopThreads, Gone, At, PoolInv, Locked
      <4> QED BY <4>1, <4>2, <2>b
    <3> QED BY <2>4, <3>1, <3>2, <3>3, <3>4, <3>5, <3>6 DEF OwnerGoesOn
  <2>5. CASE UNCHANGED vars BY <2>5, <2>a DEF vars, calls
  <2> QED BY <1>2, <2>2, <2>3, <2>4, <2>5 DEF Next
<1> QED BY <1>1, <1>2

(* parallelize_loop leaves no index out and takes none twice, whatever the  *)
(* size of the pool is when it is called.                                   *)
THEOREM BlocksPartitionHolds == Spec => []BlocksPartition
<1>1. Manned => BlocksPartition
  <2> SUFFICES ASSUME Manned,
                      NEW first \in 0..5, NEW last \in 0..5, NEW num \in 0..4, first <= last
               PROVE  Covers(first, last, num, Blocks(first, last, num, thread_count))
    BY DEF BlocksPartition, Covers
  <2>1. thread_count \in Nat \ {0}
    <3> DEFINE W == {w \in Workers : Exists(w)}
    <3>1. 1 \in W BY PoolConstants DEF Manned, Exists, Workers
    <3>2. IsFiniteSet(W) BY FewThreads, FS_Subset
    <3>3. Cardinality(W) \in Nat /\ Cardinality(W) # 0 BY <3>1, <3>2, FS_CardinalityType, FS_EmptySet
    <3> QED BY <3>3 DEF thread_count
  <2> QED BY <2>1, BlocksCover
<1>2. PoolInv /\ Manned /\ [Next]_vars => (PoolInv /\ Manned)'
  BY PoolStep, MannedStep
<1> QED BY <1>1, <1>2, PoolInitially, MannedStep, PTL DEF Spec
=============================================================================
