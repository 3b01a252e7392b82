----------------------------- MODULE ContextTest -----------------------------
(* src/unittest/t_asio/t_asio_context.cpp: a main thread posts tasks to the  *)
(* io_contexts of children, each of which posts handlers back to             *)
(* main_context_; the main thread polls them in rounds, which it cuts when   *)
(* they take too long.  main_child_excute has one child and many tasks,      *)
(* threads_excute one task for each of several children.  All handlers are   *)
(* alike (num++), so that a queue is the number of those that wait.          *)
EXTENDS Integers, FiniteSets

CONSTANTS ChildCount, \* children of threads_excute
          Tasks,      \* tasks posted by main_child_excute
          Handlers,   \* handlers posted by each task
          Interval,   \* the length of a round
          MaxTime     \* bound: the clock

ASSUME ContextConstants == {ChildCount, Tasks, Handlers, Interval, MaxTime} \subseteq Nat \ {0}

VARIABLES x_program, \* "none" yet, "main_child" or "threads"
          x_posted,  \* tasks posted
          x_tasks,   \* of each child: tasks waiting in its io_context
          x_left,    \* of each child: handlers its running task has yet to post
          x_run,     \* of each child: whether run() goes on
          x_main,    \* handlers waiting in main_context_
          x_num,     \* num
          x_pc,      \* the main thread: "none" yet, "posting", "polling", "sleeping"
          x_now, x_last \* the clock, and last_time
x_children == <<x_tasks, x_left, x_run>>
x_vars == <<x_program, x_posted, x_children, x_main, x_num, x_pc, x_now, x_last>>

Child == 1..ChildCount

ContextInit == /\ x_program = "none" /\ x_pc = "none"
               /\ x_posted = 0 /\ x_main = 0 /\ x_num = 0
               /\ x_tasks = [c \in Child |-> 0] /\ x_left = [c \in Child |-> 0]
               /\ x_run = [c \in Child |-> FALSE]
               /\ x_now = 0 /\ x_last = 0

(* excute() starts the children's threads: one, or as many as there are. *)
Started(p) == IF p = "main_child" THEN {1} ELSE Child
ContextExcutes == /\ x_pc = "none" /\ x_pc' = "posting"
                  /\ x_program' \in {"main_child", "threads"}
                  /\ x_run' = [c \in Child |-> c \in Started(x_program')]
                  /\ UNCHANGED <<x_posted, x_tasks, x_left, x_main, x_num, x_now, x_last>>

(* The tasks: all for the only child, or one for each. *)
ToPost    == IF x_program = "main_child" THEN Tasks ELSE ChildCount
Recipient == IF x_program = "main_child" THEN 1 ELSE x_posted + 1
PostsTask == /\ x_pc = "posting" /\ x_posted < ToPost
             /\ x_posted' = x_posted + 1
             /\ x_tasks' = [x_tasks EXCEPT ![Recipient] = @ + 1]
             /\ UNCHANGED <<x_program, x_left, x_run, x_main, x_num, x_pc, x_now, x_last>>
LoopBegins == /\ x_pc = "posting" /\ x_posted = ToPost
              /\ x_pc' = "polling" /\ x_last' = x_now + Interval
              /\ UNCHANGED <<x_program, x_posted, x_children, x_main, x_num, x_now>>

(* A child's thread in run().  The work guard of main_child_excute is for the *)
(* io_context; the one of threads_excute is made from a pointer to it, which  *)
(* guards the system executor: that run() returns when it finds nothing.      *)
NeverGuarded == FALSE
Guarded == x_program = "main_child"
TaskBegins(c) == /\ x_run[c] /\ x_left[c] = 0 /\ x_tasks[c] > 0
                 /\ x_tasks' = [x_tasks EXCEPT ![c] = @ - 1]
                 /\ x_left' = [x_left EXCEPT ![c] = Handlers]
                 /\ UNCHANGED <<x_program, x_posted, x_run, x_main, x_num, x_pc, x_now, x_last>>
PostsHandler(c) == /\ x_left[c] > 0
                   /\ x_left' = [x_left EXCEPT ![c] = @ - 1] /\ x_main' = x_main + 1
                   /\ UNCHANGED <<x_program, x_posted, x_tasks, x_run, x_num, x_pc, x_now, x_last>>
RunReturns(c) == /\ x_run[c] /\ ~Guarded /\ x_tasks[c] = 0 /\ x_left[c] = 0
                 /\ x_run' = [x_run EXCEPT ![c] = FALSE]
                 /\ UNCHANGED <<x_program, x_posted, x_tasks, x_left, x_main, x_num, x_pc, x_now, x_last>>

(* A round: handlers one by one until there is none or the time is over.      *)
(* last_time moves on only when a round is cut.                               *)
PollsOne == /\ x_pc = "polling" /\ x_main > 0
            /\ x_main' = x_main - 1 /\ x_num' = x_num + 1
            /\ IF x_now > x_last THEN x_last' = x_now + Interval /\ x_pc' = "sleeping"
                                 ELSE UNCHANGED <<x_last, x_pc>>
            /\ UNCHANGED <<x_program, x_posted, x_children, x_now>>
PollsNone == /\ x_pc = "polling" /\ x_main = 0 /\ x_pc' = "sleeping"
             /\ UNCHANGED <<x_program, x_posted, x_children, x_main, x_num, x_now, x_last>>
Wakes == /\ x_pc = "sleeping" /\ x_pc' = "polling"
         /\ UNCHANGED <<x_program, x_posted, x_children, x_main, x_num, x_now, x_last>>
TimePasses == /\ x_now < MaxTime /\ x_now' = x_now + 1
              /\ UNCHANGED <<x_program, x_posted, x_children, x_main, x_num, x_pc, x_last>>

(* The threads are scheduled: the main thread goes on, and so does every child. *)
Main     == ContextExcutes \/ PostsTask \/ LoopBegins \/ PollsOne \/ PollsNone \/ Wakes
Runs(c)  == TaskBegins(c) \/ PostsHandler(c) \/ RunReturns(c)
ContextNext == Main \/ TimePasses \/ \E c \in Child : Runs(c)
ContextSpec == /\ ContextInit /\ [][ContextNext]_x_vars
               /\ WF_x_vars(Main) /\ \A c \in Child : WF_x_vars(Runs(c))

(* In the end every handler has run on the main thread, however the rounds were *)
(* cut, except those of tasks that were posted to a child of threads_excute     *)
(* after its run() had found nothing to do.  No task of main_child_excute is    *)
(* left behind, however late it is posted.                                      *)
HandlersRun ==
  x_program # "none" ~> LET left == {c \in Child : x_tasks[c] > 0}
                        IN /\ x_posted = ToPost
                           /\ \A c \in left : x_program = "threads" /\ ~x_run[c]
                           /\ x_num = Handlers * (ToPost - Cardinality(left))
=============================================================================
