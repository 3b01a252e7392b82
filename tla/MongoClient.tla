---------------------------- MODULE MongoClient ----------------------------
(* mongo_client of src/engine/mongo/mongo_client.cpp: the pool and the      *)
(* instance of the driver over connectToHost(), document operations on      *)
(* several threads, the cursors of find(), and the destructor.  mongocxx is *)
(* external: a pool lends out its clients, and lending waits while all of   *)
(* them are out; a cursor reads on with the client that it came from.       *)
EXTENDS Integers

CONSTANTS MongoUsers,        \* threads that call document operations
          MaxPools,     \* bound: calls of connectToHost
          maxPoolSize

ASSUME MongoConstants == MaxPools \in Nat /\ maxPoolSize \in Nat \ {0}

VARIABLES m_pool,      \* s_pool: the pools are numbered, 0 is nullptr
          m_pools,     \* pools that are alive
          m_made,      \* pools made so far
          m_instance,  \* m_dbInstance is not nullptr
          m_lent,      \* of each user: its client
          m_cursors,   \* the clients that cursors of find() read with
          m_connect,   \* how far connectToHost() is
          m_state      \* "alive", "deleted" or "dead": a null pool was used
m_vars == <<m_pool, m_pools, m_made, m_instance, m_lent, m_cursors, m_connect, m_state>>

(* A client: the pool it belongs to, and which of the pool's clients it is. *)
NoClient == <<0, 0>>
ClientsOf(pool) == {pool} \X (1..maxPoolSize)

MongoInit == /\ m_pool = 0 /\ m_pools = {} /\ m_made = 0 /\ m_instance = FALSE
             /\ m_lent = [u \in MongoUsers |-> NoClient] /\ m_cursors = {} /\ m_connect = "no" /\ m_state = "alive"

(* The old pool when connectToHost() makes a new one: it is left as it is. *)
OldPoolDeleted == m_pools \ {m_pool}
OldPoolKept    == m_pools
Survivors == OldPoolKept

(* connectToHost(): the instance goes, a pool and an instance come, and a client is tried. *)
DropInstance == /\ m_state = "alive" /\ m_connect = "no" /\ m_made < MaxPools
                /\ m_connect' = "pool" /\ m_instance' = FALSE
                /\ UNCHANGED <<m_pool, m_pools, m_made, m_lent, m_cursors, m_state>>
NewPool == /\ m_connect = "pool" /\ m_connect' = "instance"
           /\ m_made' = m_made + 1 /\ m_pool' = m_made'
           /\ m_pools' = Survivors \cup {m_made'}
           /\ UNCHANGED <<m_instance, m_lent, m_cursors, m_state>>
(* The driver makes one instance in the life of a process; another one throws. *)
NewInstance == /\ m_connect = "instance" /\ m_connect' = "no"
               /\ m_instance' = (m_made = 1)
               /\ UNCHANGED <<m_pool, m_pools, m_made, m_lent, m_cursors, m_state>>

(* client(), the guard, the operation, and the client's return when it goes out of scope. *)
AcquireNull == /\ m_state = "alive" /\ m_pool = 0 /\ m_state' = "dead"
               /\ UNCHANGED <<m_pool, m_pools, m_made, m_instance, m_lent, m_cursors, m_connect>>
Acquire(u) == /\ m_state = "alive" /\ m_pool # 0 /\ m_lent[u] = NoClient
              /\ \E c \in ClientsOf(m_pool) \ {m_lent[v] : v \in MongoUsers} :
                   m_lent' = [m_lent EXCEPT ![u] = c]
              /\ UNCHANGED <<m_pool, m_pools, m_made, m_instance, m_cursors, m_connect, m_state>>
GiveBack(u) == /\ m_lent[u] # NoClient
               /\ m_lent' = [m_lent EXCEPT ![u] = NoClient]
               /\ UNCHANGED <<m_pool, m_pools, m_made, m_instance, m_connect, m_state>>
Operate(u) == GiveBack(u) /\ UNCHANGED m_cursors
(* find() returns a cursor of the client that it gives back; its caller deletes the cursor. *)
MongoFind(u) == GiveBack(u) /\ m_instance /\ m_cursors' = m_cursors \cup {m_lent[u]}
DropCursor == /\ \E c \in m_cursors : m_cursors' = m_cursors \ {c}
              /\ UNCHANGED <<m_pool, m_pools, m_made, m_instance, m_lent, m_connect, m_state>>
(* The destructor, when no operation is under way any more: the pool, then the instance. *)
Delete == /\ m_state = "alive" /\ m_connect = "no" /\ \A u \in MongoUsers : m_lent[u] = NoClient
          /\ m_state' = "deleted"
          /\ m_pools' = m_pools \ {m_pool} /\ m_pool' = 0 /\ m_instance' = FALSE
          /\ UNCHANGED <<m_made, m_lent, m_cursors, m_connect>>

MongoNext == \/ DropInstance \/ NewPool \/ NewInstance \/ AcquireNull \/ DropCursor \/ Delete
             \/ \E u \in MongoUsers : Acquire(u) \/ Operate(u) \/ MongoFind(u)

(* A client that is out belongs to a pool that is alive, and so does, until the    *)
(* mongo_client is destroyed, the client that a cursor reads with: connectToHost() *)
(* may be called again while other threads are at work on clients of the pool      *)
(* before, and cursors outlive the operation that returned them.                   *)
ClientHasPool == /\ \A u \in MongoUsers : m_lent[u] # NoClient => m_lent[u][1] \in m_pools
                 /\ m_state # "deleted" => \A c \in m_cursors : c[1] \in m_pools
=============================================================================
