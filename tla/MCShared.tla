-------------------------------- MODULE MCShared --------------------------------
(* What threads share and nobody may keep to himself for ever, for TLC: the   *)
(* lock of a snowflake, the slots of the ring, the io_context that others     *)
(* post to.  As in MCParts, a behaviour chooses one part and stays with it;   *)
(* the fairness is that of the modules, each in its own part.                 *)
EXTENDS MCSnowflake, MCLockFreeQueue, ContextTest

VARIABLE part

SharedInit == /\ part \in {"snowflake", "lockfree", "context"}
              /\ SnowflakeInit /\ Init /\ ContextInit

Part(p) == part = p /\ UNCHANGED part

SharedNext ==
  \/ Part("snowflake") /\ SnowflakeNext /\ UNCHANGED <<vars, x_vars>>
  \/ Part("lockfree") /\ Next /\ UNCHANGED <<snowflake_vars, x_vars>>
  \/ Part("context") /\ ContextNext /\ UNCHANGED <<snowflake_vars, vars>>

shared_vars == <<part, snowflake_vars, vars, x_vars>>

(* What SnowflakeFairness, Fairness and ContextSpec say, each in its own part. *)
SharedFairness ==
  /\ \A t \in Caller : WF_snowflake_vars(part = "snowflake" /\ Step(t))
  /\ \A n \in Node : WF_snowflake_vars(part = "snowflake" /\ Tick(n))
  /\ \A p \in Producer : /\ WF_vars(part = "lockfree" /\ Enqueue(p))
                         /\ SF_vars(part = "lockfree" /\ Reserve(p))
  /\ \A c \in Consumer : /\ WF_vars(part = "lockfree" /\ Dequeue(c))
                         /\ SF_vars(part = "lockfree" /\ Take(c))
  /\ WF_x_vars(part = "context" /\ Main)
  /\ \A c \in Child : WF_x_vars(part = "context" /\ Runs(c))

SharedSpec == SharedInit /\ [][SharedNext]_shared_vars /\ SharedFairness
=============================================================================
