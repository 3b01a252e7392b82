---------------------------- MODULE MessageQueue ----------------------------
(* MessageQueue of src/unittest/t_utils/t_condition.cpp and the threads of   *)
(* its test: Push leaves the mutex before it notifies, Pop waits for a       *)
(* message and takes all there are, disable_notify() sets a plain bool.      *)
EXTENDS Integers, Sequences, FiniteSets

CONSTANTS Pushers, Poppers,
          MaxMessages  \* bound: messages pushed

ASSUME MessageConstants == MaxMessages \in Nat /\ Pushers \cap Poppers = {}

VARIABLES q_queue,   \* queue_
          q_notify,  \* Notify
          q_pc,      \* where each thread is
          q_pushed,  \* history: messages in the order of the queue
          q_batches  \* history: what each Pop took
q_vars == <<q_queue, q_notify, q_pc, q_pushed, q_batches>>

MessageInit == /\ q_queue = << >> /\ q_notify = TRUE
               /\ q_pc = [t \in Pushers \cup Poppers |-> "out"]
               /\ q_pushed = << >> /\ q_batches = << >>

(* Push, under the mutex; then, without it, the notification. *)
PushMessage(t) == /\ q_pc[t] = "out" /\ Len(q_pushed) < MaxMessages
                  /\ LET n == Len(q_pushed) + 1
                     IN q_queue' = Append(q_queue, n) /\ q_pushed' = Append(q_pushed, n)
                  /\ q_pc' = [q_pc EXCEPT ![t] = "notify"]
                  /\ UNCHANGED <<q_notify, q_batches>>
(* cond_.notify_one() wakes a sleeper, if there is one. *)
Waiting == {t \in Poppers : q_pc[t] = "asleep"}
PushNotifies(t) == /\ q_pc[t] = "notify"
                   /\ IF q_notify /\ Waiting # {}
                      THEN \E w \in Waiting : q_pc' = [q_pc EXCEPT ![t] = "out", ![w] = "test"]
                      ELSE q_pc' = [q_pc EXCEPT ![t] = "out"]
                   /\ UNCHANGED <<q_queue, q_notify, q_pushed, q_batches>>

(* Pop: Notify is read once; then the queue is tested under the mutex, which waiting gives up. *)
PopEnter(t) == /\ q_pc[t] = "out" /\ q_pc' = [q_pc EXCEPT ![t] = IF q_notify THEN "test" ELSE "take"]
               /\ UNCHANGED <<q_queue, q_notify, q_pushed, q_batches>>
NeverEmpty == FALSE
MustWait   == q_queue = << >>
PopWaits(t) == /\ q_pc[t] = "test" /\ MustWait
               /\ q_pc' = [q_pc EXCEPT ![t] = "asleep"]
               /\ UNCHANGED <<q_queue, q_notify, q_pushed, q_batches>>
(* swap and clear: the caller has all messages, and the queue is empty whatever the caller's vector held. *)
PopTakes(t) == /\ q_pc[t] = "take" \/ (q_pc[t] = "test" /\ ~MustWait)
               /\ q_batches' = Append(q_batches, [messages |-> q_queue, waited |-> q_pc[t] = "test"])
               /\ Len(q_batches) < MaxMessages + 1
               /\ q_queue' = << >>
               /\ q_pc' = [q_pc EXCEPT ![t] = "out"]
               /\ UNCHANGED <<q_notify, q_pushed>>
DisableNotify == /\ q_notify /\ q_notify' = FALSE
                 /\ UNCHANGED <<q_queue, q_pc, q_pushed, q_batches>>

MessageNext == \/ \E t \in Pushers : PushMessage(t) \/ PushNotifies(t)
               \/ \E t \in Poppers : PopEnter(t) \/ PopWaits(t) \/ PopTakes(t)
               \/ DisableNotify

Joined[n \in 0..Len(q_batches)] == IF n = 0 THEN << >> ELSE Joined[n - 1] \o q_batches[n].messages
(* Every message is taken once and in order, a Pop that waits comes back with    *)
(* messages; and while Notify is set nobody sleeps over a queue with messages    *)
(* unless a notification, or a popper that is awake, is still to come.           *)
MessagesKept ==
  /\ Joined[Len(q_batches)] \o q_queue = q_pushed
  /\ \A n \in DOMAIN q_batches : q_batches[n].waited => q_batches[n].messages # << >>
  /\ q_notify /\ q_queue # << >> /\ Waiting # {} =>
       \/ \E t \in Pushers : q_pc[t] = "notify"
       \/ \E t \in Poppers : q_pc[t] # "asleep"
=============================================================================
