---------------------------- MODULE RedisClient ----------------------------
(* redis_connect, redis_command and redis_result of src/engine/redis: the   *)
(* life of redis_context_ over connects, failures and closes, and the walk  *)
(* over the values of a reply.  hiredis and the server are external: every  *)
(* exchange may fail, and then the context is in error for good.  A null    *)
(* pointer that is used ends the program (r_dead).                          *)
EXTENDS Integers, Sequences, FiniteSets

CONSTANTS Cells,        \* values in replies: numbers
          MaxRows,      \* bound: elements of a list
          MaxContexts,  \* bound: contexts hiredis makes
          MaxExchanges  \* bound: exchanges with the server

ASSUME RedisConstants == Cells \subseteq Int /\ {MaxRows, MaxContexts, MaxExchanges} \subseteq Nat

VARIABLES r_ctx,      \* redis_context_: [id, err]; id 0 is nullptr
          r_made,     \* contexts hiredis has made: it numbers them
          r_freed,    \* history: how often each context was freed
          r_refused,  \* history: contexts that were made by a failed connect
          r_params,   \* parameters of the command
          r_reply,    \* redis_reply_ of the result
          r_pos,
          r_given,    \* history: what get_* returned since the result was made: [type, value]
          r_since,    \* history: where pos_ was when the result got its reply
          r_sent,     \* exchanges so far
          r_dead
r_connection == <<r_ctx, r_made, r_freed, r_refused>>
r_result == <<r_reply, r_pos, r_given, r_since>>
r_vars == <<r_connection, r_params, r_result, r_sent, r_dead>>

NoContext == [id |-> 0, err |-> FALSE]
NoReply == [kind |-> "null", str |-> FALSE, cells |-> << >>]
(* What the server may answer: one text, a list of texts and nils, a number (which has no text), *)
(* nothing, or an error (whose text reads as 0).  A text is <<n>>, nil is << >>.                 *)
Nil == << >>
Text == {<<n>> : n \in Cells}
Lists == UNION {[1..rows -> Text \cup {Nil}] : rows \in 0..MaxRows}
Replies == [kind : {"string"}, str : {TRUE}, cells : [1..1 -> Text]]
           \cup [kind : {"array"}, str : {FALSE}, cells : Lists]
           \cup {[kind |-> "error", str |-> TRUE, cells |-> <<<<0>>>>]}
           \cup {[kind |-> k, str |-> FALSE, cells |-> << >>] : k \in {"integer", "nil"}}

RedisInit == /\ r_ctx = NoContext /\ r_made = 0 /\ r_freed = [c \in 1..MaxContexts |-> 0] /\ r_refused = {}
             /\ r_params = 0
             /\ r_reply = NoReply /\ r_pos = 0 /\ r_given = << >> /\ r_since = 0
             /\ r_sent = 0 /\ r_dead = FALSE

Freed(c) == IF c.id = 0 THEN r_freed ELSE [r_freed EXCEPT ![c.id] = @ + 1]

(* redis_context_ after close(), which the destructor calls too; first a close() that forgets it. *)
KeepsPointer == r_ctx
Nulled == NoContext
Closed == Nulled

(* connect(): close(), then a new context, then "select index". *)
RedisConnects == ~r_dead /\ r_made < MaxContexts /\ r_made' = r_made + 1 /\ UNCHANGED <<r_params, r_result, r_sent>>
New == r_made + 1
(* The new context is not freed: close() looks at redis_context_, which does not hold it yet. *)
ConnectRefused == /\ RedisConnects
                  /\ r_freed' = Freed(r_ctx) /\ r_ctx' = Closed
                  /\ r_refused' = r_refused \cup {New}
                  /\ UNCHANGED r_dead
ConnectSelects == /\ RedisConnects
                  /\ r_freed' = Freed(r_ctx)
                  /\ r_ctx' = [id |-> New, err |-> FALSE]
                  /\ UNCHANGED <<r_refused, r_dead>>
(* The server refuses the index; or select gets no answer, and the log reads the context that close() has nulled. *)
SelectFails == /\ RedisConnects
               /\ r_freed' = [Freed(r_ctx) EXCEPT ![New] = @ + 1]
               /\ r_ctx' = NoContext
               /\ r_dead' \in BOOLEAN
               /\ UNCHANGED r_refused
RedisClose == /\ ~r_dead /\ r_freed' = Freed(r_ctx) /\ r_ctx' = Closed
              /\ UNCHANGED <<r_made, r_refused, r_params, r_result, r_sent, r_dead>>

Exchange == ~r_dead /\ r_ctx.id # 0 /\ r_sent < MaxExchanges /\ r_sent' = r_sent + 1
(* ping(): the answer is compared with "pong", the server says "PONG"; a failure leaves the context in error. *)
Ping == /\ Exchange
        /\ r_ctx' \in {r_ctx, [r_ctx EXCEPT !.err = TRUE]}
        /\ UNCHANGED <<r_made, r_freed, r_refused, r_params, r_result, r_dead>>

PushParam == /\ ~r_dead /\ r_params < 2 /\ r_params' = r_params + 1
             /\ UNCHANGED <<r_connection, r_result, r_sent, r_dead>>
(* length() > 1 sends argv(); else to_string() writes into params_[0], which must exist. *)
HasText == r_params > 0
EmptyCommand == /\ Exchange /\ ~HasText /\ r_dead' = TRUE
                /\ UNCHANGED <<r_connection, r_params, r_result>>
(* excute(), query(): a context in error is closed, and then the log reads it through the nulled pointer. *)
ExchangeFails == /\ Exchange /\ HasText
                 /\ r_freed' = Freed(r_ctx) /\ r_ctx' = Closed
                 /\ r_dead' = TRUE
                 /\ UNCHANGED <<r_made, r_refused, r_params, r_result>>
Excute == /\ Exchange /\ HasText /\ ~r_ctx.err
          /\ UNCHANGED <<r_connection, r_params, r_result, r_dead>>
(* set_result() only replaces the pointer: pos_ stays where the reply before was left, which is not freed. *)
Query == /\ Exchange /\ HasText /\ ~r_ctx.err
         /\ r_reply' \in Replies /\ r_since' = r_pos
         /\ UNCHANGED <<r_connection, r_params, r_pos, r_given, r_dead>>
NewResult == /\ ~r_dead /\ r_reply.kind # "null"
             /\ r_reply' = NoReply /\ r_pos' = 0 /\ r_given' = << >> /\ r_since' = 0
             /\ UNCHANGED <<r_connection, r_params, r_sent, r_dead>>

(* get_row_count(): one row for a text, else the elements. *)
Rows == IF r_reply.str THEN 1 ELSE Len(r_reply.cells)
Fetch == r_pos < Rows
(* (int8_t)atol(...) and so on keep the low bits. *)
Signed(n, b) == ((n + b) % (2 * b)) - b
AlwaysSigned(type, n) == IF type = "bool" THEN n # 0 ELSE Signed(n, 128)
Converted(type, n) == CASE type = "bool"  -> n # 0
                        [] type = "int8"  -> Signed(n, 128)
                        [] type = "uint8" -> n % 256
                        [] OTHER          -> n
Types == {"bool", "int8", "uint8", "int64"}
NextValue == r_reply.cells[r_pos + 1]
Get(type) == /\ ~r_dead /\ r_reply.kind # "null" /\ Fetch /\ NextValue # Nil
             /\ r_given' = Append(r_given, [type |-> type, value |-> Converted(type, NextValue[1])])
             /\ r_pos' = r_pos + 1
             /\ UNCHANGED <<r_connection, r_params, r_reply, r_since, r_sent, r_dead>>
(* Of a nil, atol reads through a null pointer: the call does not return. *)
GetNil == /\ ~r_dead /\ r_reply.kind # "null" /\ Fetch /\ NextValue = Nil /\ r_dead' = TRUE
          /\ UNCHANGED <<r_connection, r_params, r_result, r_sent>>
(* A result without a reply: get_row_count() reads through a null pointer. *)
GetNull == /\ ~r_dead /\ r_reply.kind = "null" /\ r_dead' = TRUE
           /\ UNCHANGED <<r_connection, r_params, r_result, r_sent>>

RedisNext == \/ ConnectRefused \/ ConnectSelects \/ SelectFails \/ RedisClose
             \/ Ping \/ PushParam \/ EmptyCommand \/ ExchangeFails \/ Excute
             \/ Query \/ NewResult \/ GetNil \/ GetNull \/ \E type \in Types : Get(type)

-----------------------------------------------------------------------------
(* Properties *)

(* A context that connected is freed once and only when redis_context_ has let   *)
(* go of it, whatever fails in between: it is the current one or it was freed.   *)
(* (The contexts of refused connects are never freed.)                           *)
ContextOwned == \A c \in 1..r_made : r_freed[c] = IF c \in r_refused \/ c = r_ctx.id THEN 0 ELSE 1

Fits(type, n) == CASE type = "bool" -> TRUE [] type = "int8" -> n \in -128..127 [] type = "uint8" -> n \in 0..255 [] OTHER -> TRUE
(* A result hands out the values of its reply in their order, each once, and     *)
(* each as the number it is where the type has room for it: from the first one   *)
(* on, or, where it was given a reply after another, from where it had got to.   *)
RowsInOrder ==
  /\ Len(r_given) = r_pos /\ (r_pos > r_since => r_pos <= Len(r_reply.cells))
  /\ \A i \in (r_since + 1)..r_pos :
       LET g == r_given[i] n == r_reply.cells[i][1]
       IN Fits(g.type, n) => g.value = IF g.type = "bool" THEN n # 0 ELSE n
=============================================================================
