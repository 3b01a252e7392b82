----------------------------- MODULE BufferPool -----------------------------
(* data_buffer, buffer_pool and buffer_pool_manager of                       *)
(* src/engine/net/buffer_pool.h, reached through singleton::instance() of    *)
(* src/engine/utils/singleton.hpp.  Threads take buffers, fill them, hand    *)
(* references to other threads (a packet in a queue) and drop them; the last *)
(* reference runs the deleter, return_to_pool.  The free queues are lock-    *)
(* free queues (external): any buffer in one may come out next.              *)
EXTENDS Integers, FiniteSets

CONSTANTS BufferUsers,      \* threads
          Sizes,      \* lengths asked for
          Ints,       \* values of an int: 2^32
          MaxBuffers  \* bound: buffers made

ASSUME BufferConstants == Sizes \subseteq Nat /\ Ints \in Nat \ {0} /\ MaxBuffers \in Nat

Buffers == 1..MaxBuffers
NoBuffer == 0

VARIABLES b_ins,     \* ins_: managers are numbered as they are made, 0 is nullptr
          b_made,    \* managers made
          b_once,    \* once_: "unset", "running" or "set"
          b_free,    \* free_queue_ of each class, all in one
          b_class,   \* alloc_size_ of each buffer, 0 while it is not made
          b_length,  \* total_length_
          b_refs,    \* of each buffer: the threads that hold a reference
          b_asked,   \* history, of each buffer: the length its user put into it
          b_pc,      \* where each thread is
          b_mine,    \* the buffer each thread works on
          b_pool     \* the manager each thread got
b_singleton == <<b_ins, b_made, b_once>>
b_buffers == <<b_free, b_class, b_length, b_refs, b_asked>>
b_threads == <<b_pc, b_mine, b_pool>>
b_vars == <<b_singleton, b_buffers, b_threads>>

BufferInit == /\ b_ins = 0 /\ b_made = 0 /\ b_once = "unset"
              /\ b_free = {} /\ b_class = [b \in Buffers |-> 0]
              /\ b_length = [b \in Buffers |-> 0] /\ b_asked = [b \in Buffers |-> 0]
              /\ b_refs = [b \in Buffers |-> {}]
              /\ b_pc = [u \in BufferUsers |-> "idle"] /\ b_mine = [u \in BufferUsers |-> NoBuffer]
              /\ b_pool = [u \in BufferUsers |-> 0]

Goes(u, from, to) == b_pc[u] = from /\ b_pc' = [b_pc EXCEPT ![u] = to]

(* instance(): ins_ is looked at without synchronisation; call_once runs one call and makes others  *)
(* wait.  The call makes the object, then stores ins_, where others see it before once_ is set: on   *)
(* x86 both are seen in that order, which the language does not promise to a reader without a lock.  *)
InsNull == b_ins = 0
Look(u) == /\ Goes(u, "idle", IF InsNull THEN "once" ELSE "alloc")
           /\ b_pool' = [b_pool EXCEPT ![u] = b_ins]
           /\ UNCHANGED <<b_singleton, b_buffers, b_mine>>
OnceUnset   == b_once = "unset"
OnceEnter(u) == /\ OnceUnset /\ Goes(u, "once", "new")
                /\ b_once' = "running"
                /\ UNCHANGED <<b_ins, b_made, b_buffers, b_mine, b_pool>>
OnceMakes(u) == /\ Goes(u, "new", "store")
                /\ b_made' = b_made + 1
                /\ UNCHANGED <<b_ins, b_once, b_buffers, b_mine, b_pool>>
OnceStores(u) == /\ Goes(u, "store", "stored")
                 /\ b_ins' = b_made
                 /\ UNCHANGED <<b_made, b_once, b_buffers, b_mine, b_pool>>
OnceSets(u) == /\ Goes(u, "stored", "made")
               /\ b_once' = "set"
               /\ UNCHANGED <<b_ins, b_made, b_buffers, b_mine, b_pool>>
OnceReturns(u) == /\ b_once = "set" /\ b_pc[u] \in {"once", "made"}
                  /\ Goes(u, b_pc[u], "alloc")
                  /\ b_pool' = [b_pool EXCEPT ![u] = b_ins]
                  /\ UNCHANGED <<b_singleton, b_buffers, b_mine>>

(* alloc(size): the callers' size_t becomes an int, negative from 2^31 on; then the class of the    *)
(* size, the smallest for negative ones, none from 64 KB on; then a free buffer of the class, or a  *)
(* new one when the queue looks empty, as it may while others use it.                               *)
Classes == {64, 128, 256, 512, 1024, 2048, 4096, 8192, 16384, 32768, 65536}
AsInt(length) == LET bits == length % Ints IN IF 2 * bits < Ints THEN bits ELSE bits - Ints
ClassOf(length) == LET fit == {c \in Classes : AsInt(length) < c}
                   IN  IF fit = {} THEN 0 ELSE CHOOSE c \in fit : \A d \in fit : c <= d
AllocNone(u) == /\ \E s \in Sizes : ClassOf(s) = 0
                /\ Goes(u, "alloc", "idle")
                /\ UNCHANGED <<b_singleton, b_buffers, b_mine, b_pool>>
FreeOf(c) == {b \in b_free : b_class[b] = c}
Unmade == {b \in Buffers : b_class[b] = 0}
TakeFree(u) == \E s \in Sizes : \E b \in FreeOf(ClassOf(s)) :
                 /\ Goes(u, "alloc", "fill")
                 /\ b_free' = b_free \ {b}
                 /\ b_refs' = [b_refs EXCEPT ![b] = {u}]
                 /\ b_mine' = [b_mine EXCEPT ![u] = b]
                 /\ b_asked' = [b_asked EXCEPT ![b] = s]
                 /\ UNCHANGED <<b_singleton, b_class, b_length, b_pool>>
TakeNew(u) == \E s \in {x \in Sizes : ClassOf(x) # 0} :
                /\ Goes(u, "alloc", "fill")
                /\ \E b \in Unmade : /\ \A other \in Unmade : b <= other
                                    /\ b_class' = [b_class EXCEPT ![b] = ClassOf(s)]
                                    /\ b_refs' = [b_refs EXCEPT ![b] = {u}]
                                    /\ b_mine' = [b_mine EXCEPT ![u] = b]
                                    /\ b_asked' = [b_asked EXCEPT ![b] = s]
                /\ UNCHANGED <<b_singleton, b_free, b_length, b_pool>>
(* copy_from(): nothing is copied into a buffer that is too small (its assert stops a debug build); *)
(* server_base::send() copies without that look.                                                   *)
Fill(u) == LET b == b_mine[u] IN
           /\ Goes(u, "fill", "hold")
           /\ b_length' = [b_length EXCEPT ![b] = IF b_class[b] < b_asked[b] THEN @ ELSE b_asked[b]]
           /\ UNCHANGED <<b_singleton, b_free, b_class, b_refs, b_asked, b_mine, b_pool>>
(* A reference is handed to a thread that has none. *)
Share(u, v) == LET b == b_mine[u] IN
               /\ b_pc[u] = "hold" /\ b_pc[v] = "idle" /\ v # u
               /\ b_pc' = [b_pc EXCEPT ![v] = "hold"]
               /\ b_mine' = [b_mine EXCEPT ![v] = b]
               /\ b_refs' = [b_refs EXCEPT ![b] = @ \cup {v}]
               /\ UNCHANGED <<b_singleton, b_free, b_class, b_length, b_asked, b_pool>>
(* The last reference runs return_to_pool(): the buffer is emptied, and only then queued. *)
EnqueueFirst == <<"enqueue", "release">>
Deleter      == <<"release", "enqueue">>
After(k) == IF Deleter[1] = k THEN Deleter[2] ELSE "idle"
MineAfter(u, k) == [b_mine EXCEPT ![u] = IF After(k) = "idle" THEN NoBuffer ELSE @]
Drop(u) == LET b == b_mine[u] IN
           /\ Goes(u, "hold", IF b_refs[b] = {u} THEN Deleter[1] ELSE "idle")
           /\ b_refs' = [b_refs EXCEPT ![b] = @ \ {u}]
           /\ b_mine' = [b_mine EXCEPT ![u] = IF b_refs[b] = {u} THEN b ELSE NoBuffer]
           /\ UNCHANGED <<b_singleton, b_free, b_class, b_length, b_asked, b_pool>>
Emptied(u) == /\ Goes(u, "release", After("release"))
              /\ b_length' = [b_length EXCEPT ![b_mine[u]] = 0]
              /\ b_mine' = MineAfter(u, "release")
              /\ UNCHANGED <<b_singleton, b_free, b_class, b_refs, b_asked, b_pool>>
Queued(u) == /\ Goes(u, "enqueue", After("enqueue"))
             /\ b_free' = b_free \cup {b_mine[u]}
             /\ b_mine' = MineAfter(u, "enqueue")
             /\ UNCHANGED <<b_singleton, b_class, b_length, b_refs, b_asked, b_pool>>

BufferNext == \E u \in BufferUsers : \/ Look(u) \/ OnceEnter(u) \/ OnceMakes(u) \/ OnceStores(u)
                               \/ OnceSets(u) \/ OnceReturns(u)
                               \/ AllocNone(u) \/ TakeFree(u) \/ TakeNew(u) \/ Fill(u) \/ Drop(u)
                               \/ Emptied(u) \/ Queued(u) \/ \E v \in BufferUsers : Share(u, v)

-----------------------------------------------------------------------------
(* Who holds a buffer finds in it what its user put there, or nothing when it    *)
(* was too large for the int that alloc() takes: nobody else is given the buffer *)
(* or empties it before the last reference is dropped, on whatever thread.  And  *)
(* whoever is past instance(), by the call or by a read of ins_ beside it, has   *)
(* the one manager, and has it made.                                             *)
BufferKept == /\ b_made <= 1
              /\ \A u \in BufferUsers : /\ b_pool[u] \in 0..b_made
                                        /\ b_pc[u] \in {"alloc", "fill"} => b_pool[u] = 1
              /\ \A u \in BufferUsers : b_pc[u] = "hold" => LET b == b_mine[u] IN
                   /\ u \in b_refs[b] /\ b \notin b_free
                   /\ b_length[b] = IF b_asked[b] <= b_class[b] THEN b_asked[b] ELSE 0
              /\ \A b \in b_free : b_refs[b] = {} /\ b_length[b] = 0
=============================================================================
