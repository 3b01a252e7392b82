----------------------------- MODULE ThreadPool -----------------------------
(* BS::thread_pool of src/unittest/t_asio/thread_pool.hpp: worker threads   *)
(* over one queue of tasks, the owner that pushes, waits, pauses, resets    *)
(* and destroys, and tasks that push tasks of their own.  tasks_mutex is    *)
(* held across a step only where a condition variable needs it: between the *)
(* test of a wait's predicate and going to sleep.  Everything else under    *)
(* the mutex is one step.  paused, running, waiting and tasks_total are     *)
(* atomics that are written without the mutex.                              *)
EXTENDS Integers, Sequences, FiniteSets

CONSTANTS MaxThreads,  \* the largest pool
          Counts,      \* thread counts a pool is made with or reset to
          Loops,       \* loops handed to parallelize_loop: <<first, last, num_blocks>>
          MaxTasks,    \* bound: tasks ever pushed
          Wrap,        \* values of the counter tasks_total, a size_t
          Nested       \* whether a task may push a task

ASSUME PoolConstants == /\ MaxThreads \in Nat \ {0}
                        /\ Counts \subseteq 1..MaxThreads
                        /\ MaxTasks \in Nat
                        /\ Wrap \in Nat /\ Wrap > 2 * (MaxTasks + MaxThreads)
                        /\ Nested \in BOOLEAN

Owner   == 0
Workers == 1..MaxThreads
Threads == {Owner} \cup Workers

VARIABLES tasks,        \* the queue, of task numbers
          tasks_total,
          waiting, running, paused,
          lock,         \* who holds tasks_mutex across a step
          pc,           \* where each thread is
          task,         \* the task each worker runs, 0 for none
          pushing,      \* how far each thread is in push_task
          plan,         \* the owner's call: what follows its wait, the pause to restore
          todo,         \* blocks of a loop that are not submitted yet
          pushed,       \* history: the range of every task, in the order of the queue
          started,      \* history: tasks in the order they were taken
          done          \* history: tasks that returned

queue == <<tasks, pushed, started>>
flags == <<waiting, running, paused>>
work  == <<task, done>>
calls == <<plan, todo>>
vars  == <<queue, tasks_total, flags, lock, pc, work, pushing, calls>>

Free == lock = -1
Call(next) == [next |-> next, paused |-> paused, count |-> 0]

(* create_threads() *)
Created(n) == [t \in Threads |-> IF t = Owner THEN "idle" ELSE IF t <= n THEN "loop" ELSE "none"]

Init == /\ tasks = << >> /\ tasks_total = 0
        /\ waiting = FALSE /\ paused = FALSE /\ running = TRUE
        /\ lock = -1
        /\ \E n \in Counts : pc = Created(n)
        /\ task = [w \in Workers |-> 0]
        /\ pushing = [t \in Threads |-> "no"]
        /\ plan = Call("idle") /\ todo = << >>
        /\ pushed = << >> /\ started = << >> /\ done = {}

At(t, from, to) == pc[t] = from /\ pc' = [pc EXCEPT ![t] = to]
Exists(w) == pc[w] # "none"
thread_count == Cardinality({w \in Workers : Exists(w)})

-----------------------------------------------------------------------------
(* Decisions of the code, each preceded by a fault it could have; the mutants use the faults. *)

(* notify_one: a worker that sleeps, if there is one, goes on to take the mutex again. *)
NotifyNobody == pc' = pc
NotifyOne == LET asleep == {w \in Workers : pc[w] = "asleep"}
             IN IF asleep = {} THEN pc' = pc ELSE \E w \in asleep : pc' = [pc EXCEPT ![w] = "lock"]

(* std::queue::push *)
PushedInFront(k) == <<k>> \o tasks
PushedBehind(k)  == Append(tasks, k)

(* --tasks_total *)
OneLessAboveZero == IF tasks_total = 0 THEN 0 ELSE tasks_total - 1
OneLess          == (tasks_total + Wrap - 1) % Wrap

(* The predicate of wait_for_tasks. *)
NothingQueued == paused \/ tasks = << >>
AllDone       == tasks_total = IF paused THEN Len(tasks) ELSE 0

(* parallelize_loop: the end of the last block is the end of the loop. *)
EveryEnd(isLast, end, hi) == end
BlockEnd(isLast, end, hi) == IF isLast THEN hi ELSE end

(* parallelize_loop: the ranges [start, end) it submits, for a pool of n threads. *)
Blocks(first, last, num, n) ==
  LET lo    == IF last < first THEN last ELSE first
      hi    == IF last < first THEN first ELSE last
      total == hi - lo
      want  == IF num = 0 THEN n ELSE num
      size  == IF total \div want = 0 THEN 1 ELSE total \div want
      count == IF total \div want = 0 THEN total ELSE want
  IN [i \in 1..count |-> <<(i - 1) * size + lo, BlockEnd(i = count, i * size + lo, hi)>>]

-----------------------------------------------------------------------------
(* push_task: the task enters the queue under the mutex; counting it and the  *)
(* notification follow without the mutex.                                     *)
Enqueue(t, range) == /\ Free /\ pushing[t] = "no" /\ Len(pushed) < MaxTasks
                     /\ pushed' = Append(pushed, range)
                     /\ tasks' = PushedBehind(Len(pushed) + 1)
                     /\ pushing' = [pushing EXCEPT ![t] = "count"]
                     /\ UNCHANGED <<started, tasks_total, flags, lock, pc, work, plan>>
CountUp(t) == /\ pushing[t] = "count"
              /\ tasks_total' = (tasks_total + 1) % Wrap
              /\ pushing' = [pushing EXCEPT ![t] = "notify"]
              /\ UNCHANGED <<queue, flags, lock, pc, work, calls>>
PushNotify(t) == /\ pushing[t] = "notify"
                 /\ NotifyOne
                 /\ pushing' = [pushing EXCEPT ![t] = "no"]
                 /\ UNCHANGED <<queue, tasks_total, flags, lock, work, calls>>

(* The owner pushes a task, or hands a loop to parallelize_loop, which submits block after block. *)
Push == pc[Owner] = "idle" /\ todo = << >> /\ Enqueue(Owner, <<0, 0>>) /\ UNCHANGED todo
Submit == pc[Owner] = "idle" /\ todo # << >> /\ Enqueue(Owner, Head(todo)) /\ todo' = Tail(todo)
parallelize_loop == /\ pc[Owner] = "idle" /\ pushing[Owner] = "no" /\ todo = << >> /\ pushed = << >>
                    /\ \E l \in Loops : todo' = Blocks(l[1], l[2], l[3], thread_count)
                    /\ Len(todo') <= MaxTasks
                    /\ UNCHANGED <<queue, tasks_total, flags, lock, pc, work, pushing, plan>>
TaskPushes(w) == Nested /\ pc[w] = "run" /\ Enqueue(w, <<0, 0>>) /\ UNCHANGED todo

-----------------------------------------------------------------------------
(* worker() *)
HasWork == tasks # << >> \/ ~running
MayTake == running /\ ~paused

WorkerLoop(w) == /\ At(w, "loop", IF running THEN "lock" ELSE "exited")
                 /\ UNCHANGED <<queue, tasks_total, flags, lock, work, pushing, calls>>
(* The predicate is tested under the mutex, kept until the worker sleeps or has its task. *)
WorkerTest(w) == /\ Free /\ At(w, "lock", IF HasWork THEN "take" ELSE "block")
                 /\ lock' = w
                 /\ UNCHANGED <<queue, tasks_total, flags, work, pushing, calls>>
WorkerSleeps(w) == /\ At(w, "block", "asleep") /\ lock' = -1
                   /\ UNCHANGED <<queue, tasks_total, flags, work, pushing, calls>>
WorkerTakes(w) == /\ MayTake /\ At(w, "take", "run") /\ lock' = -1
                  /\ task' = [task EXCEPT ![w] = Head(tasks)]
                  /\ tasks' = Tail(tasks)
                  /\ started' = Append(started, Head(tasks))
                  /\ UNCHANGED <<pushed, tasks_total, flags, done, pushing, calls>>
WorkerPasses(w) == /\ ~MayTake /\ At(w, "take", "loop") /\ lock' = -1
                   /\ UNCHANGED <<queue, tasks_total, flags, work, pushing, calls>>
TaskReturns(w) == /\ pushing[w] = "no" /\ At(w, "run", "count")
                  /\ done' = done \cup {task[w]}
                  /\ task' = [task EXCEPT ![w] = 0]
                  /\ UNCHANGED <<queue, tasks_total, flags, lock, pushing, calls>>
CountDown(w) == /\ At(w, "count", "notify")
                /\ tasks_total' = OneLess
                /\ UNCHANGED <<queue, flags, lock, work, pushing, calls>>
(* if (waiting) task_done_cv.notify_one(): the owner is the only one that waits there. *)
WorkerNotifies(w) == /\ pc[w] = "notify"
                     /\ pc' = [pc EXCEPT ![w] = "loop",
                                         ![Owner] = IF waiting /\ @ = "wait_asleep" THEN "wait_lock" ELSE @]
                     /\ UNCHANGED <<queue, tasks_total, flags, lock, work, pushing, calls>>
Worker(w) == \/ WorkerLoop(w) \/ WorkerTest(w) \/ WorkerSleeps(w) \/ WorkerTakes(w) \/ WorkerPasses(w)
             \/ TaskReturns(w) \/ CountDown(w) \/ WorkerNotifies(w)

-----------------------------------------------------------------------------
(* wait_for_tasks(), called by itself, by reset() and by the destructor. *)
WaitForTasks(call) == /\ At(Owner, "idle", "wait_lock") /\ pushing[Owner] = "no" /\ todo = << >>
                      /\ waiting' = TRUE
                      /\ plan' = call
                      /\ UNCHANGED <<queue, tasks_total, running, lock, work, pushing, todo>>
Wait    == WaitForTasks(Call("idle")) /\ UNCHANGED paused
Reset   == /\ \E n \in Counts : WaitForTasks([Call("stop") EXCEPT !.count = n])
           /\ paused' = TRUE
Destroy == WaitForTasks(Call("stop")) /\ UNCHANGED paused

WaitReturns == /\ Free /\ AllDone /\ At(Owner, "wait_lock", plan.next)
               /\ waiting' = FALSE
               /\ UNCHANGED <<queue, tasks_total, running, paused, lock, work, pushing, calls>>
WaitTest    == /\ Free /\ ~AllDone /\ At(Owner, "wait_lock", "wait_block")
               /\ lock' = Owner
               /\ UNCHANGED <<queue, tasks_total, flags, work, pushing, calls>>
WaitSleeps  == /\ At(Owner, "wait_block", "wait_asleep") /\ lock' = -1
               /\ UNCHANGED <<queue, tasks_total, flags, work, pushing, calls>>

(* destroy_threads(), and create_threads() where reset() follows with new threads. *)
StopThreads == /\ At(Owner, "stop", "notify_all")
               /\ running' = FALSE
               /\ UNCHANGED <<queue, tasks_total, waiting, paused, lock, work, pushing, calls>>
WakeWorkers == /\ pc[Owner] = "notify_all"
               /\ pc' = [t \in Threads |-> CASE t = Owner -> "join" [] pc[t] = "asleep" -> "lock" [] OTHER -> pc[t]]
               /\ UNCHANGED <<queue, tasks_total, flags, lock, work, pushing, calls>>
Joined == \A w \in Workers : pc[w] \in {"none", "exited"}
Recreate == /\ pc[Owner] = "join" /\ Joined /\ plan.count > 0
            /\ pc' = Created(plan.count)
            /\ running' = TRUE /\ paused' = plan.paused
            /\ UNCHANGED <<queue, tasks_total, waiting, lock, work, pushing, calls>>
Gone == /\ Joined /\ plan.count = 0 /\ At(Owner, "join", "gone")
        /\ UNCHANGED <<queue, tasks_total, flags, lock, work, pushing, calls>>

Pause == /\ pc[Owner] = "idle" /\ pushing[Owner] = "no" /\ paused' = ~paused
         /\ UNCHANGED <<queue, tasks_total, waiting, running, lock, pc, work, pushing, calls>>

Calls == Push \/ parallelize_loop \/ Pause \/ Wait \/ Reset \/ Destroy
OwnerGoesOn == \/ Submit \/ CountUp(Owner) \/ PushNotify(Owner)
               \/ WaitReturns \/ WaitTest \/ WaitSleeps
               \/ StopThreads \/ WakeWorkers \/ Recreate \/ Gone
WorkerGoesOn(w) == Worker(w) \/ CountUp(w) \/ PushNotify(w)

Next == Calls \/ OwnerGoesOn \/ \E w \in Workers : WorkerGoesOn(w) \/ TaskPushes(w)

(* Threads are scheduled fairly, and a call that was begun goes on; the owner need not call anything. *)
Spec == /\ Init /\ [][Next]_vars
        /\ WF_vars(OwnerGoesOn)
        /\ \A w \in Workers : WF_vars(WorkerGoesOn(w))

-----------------------------------------------------------------------------
(* Properties *)

Running == {w \in Workers : pc[w] = "run"}
Busy    == {w \in Workers : pc[w] \in {"run", "count"}}
CountedLate(t) == pushing[t] = "count"

(* Tasks start in the order they were queued, each once, over every reset of the threads. *)
FirstInFirstOut == started \o tasks = [i \in 1..Len(pushed) |-> i]

(* tasks_total is what is queued or running (a task that just returned       *)
(* included), less what push_task has queued and not counted yet: the counter *)
(* of a size_t wraps below zero when a worker is faster than ++tasks_total.   *)
(* (get_tasks_total, at thread_pool.hpp:141, is said to be without that lag.)  *)
TotalRight ==
  tasks_total = (Len(tasks) + Cardinality(Busy)
                 + Wrap - Cardinality({t \in Threads : CountedLate(t)})) % Wrap

(* wait_for_tasks may return while tasks run, or are queued though the pool is *)
(* not paused, but only as many as push_task has queued and not counted yet:   *)
(* none when nobody is between the unlock and the ++ of push_task.             *)
WaitLeaves ==
  [][WaitReturns => Cardinality(Busy) + (IF paused THEN 0 ELSE Len(tasks))
                    = Cardinality({t \in Threads : CountedLate(t)})]_vars

(* wait_for_tasks "waits for all tasks, both those that are currently running  *)
(* in the threads and those that are still waiting in the queue", or, paused,  *)
(* only for the running ones (thread_pool.hpp:285).                            *)
WaitsForAll == [][WaitReturns => Running = {} /\ (paused \/ tasks = << >>)]_vars

(* parallelize_loop cuts a loop into blocks that follow each other from the    *)
(* first index to the last, none of them empty and no more than asked for, for *)
(* whatever loop with its bounds in order the owner of a pool may ask for.     *)
(* (Others it swaps, though it says it is equivalent to a for statement, which *)
(* does nothing with them.)                                                    *)
BlocksPartition ==
  pushed = << >> /\ todo = << >> => \A first, last \in 0..5, num \in 0..4 :
    first <= last => LET b == Blocks(first, last, num, thread_count)
                     IN /\ b = << >> <=> first = last
                        /\ b # << >> => b[1][1] = first /\ b[Len(b)][2] = last
                        /\ \A i \in DOMAIN b : b[i][1] < b[i][2] /\ (i > 1 => b[i][1] = b[i - 1][2])
                        /\ num > 0 => Len(b) <= num

(* A queued task is started, unless the pool is paused or its threads are being stopped. *)
TaskRuns == \A k \in 1..MaxTasks :
              (\E i \in DOMAIN tasks : tasks[i] = k)
              ~> ((\E i \in DOMAIN started : started[i] = k) \/ paused \/ ~running)

(* A worker notifies wait_for_tasks when its task is done: the owner never     *)
(* sleeps on when what it waits for is true and nobody is left to wake it.     *)
WaiterWoken == pc[Owner] = "wait_asleep" /\ AllDone =>
                 \E w \in Workers : pc[w] = "notify" \/ \E t \in Threads : CountedLate(t)
=============================================================================
