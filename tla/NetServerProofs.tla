---------------------------- MODULE NetServerProofs ----------------------------
(***************************************************************************)
(* Theorems about NetServer, for any number of io threads, sessions and     *)
(* messages.                                                                *)
(***************************************************************************)
EXTENDS NetServer, SequenceTheorems, TLAPS

-----------------------------------------------------------------------------
(* What a thread may have left of a callback, and the phase it is in: the   *)
(* step it does next, with the two callbacks that begin with a lock told    *)
(* apart.                                                                   *)
Steps == {"lock", "insert", "erase", "enqueue_connected", "enqueue_closeed",
          "do_recv", "do_accept"}
Plans == {<<>>, Start, AcceptHandler, OnClose,
          <<"insert", "enqueue_connected", "do_recv">>,
          <<"insert", "enqueue_connected", "do_recv", "do_accept">>,
          <<"enqueue_connected", "do_recv">>,
          <<"enqueue_connected", "do_recv", "do_accept">>,
          <<"do_recv">>, <<"do_recv", "do_accept">>, <<"do_accept">>,
          <<"erase", "enqueue_closeed">>, <<"enqueue_closeed">>}

PhaseOf(plan) ==
    CASE plan = <<>>                                  -> "idle"
      [] plan # <<>> /\ plan[1] # "lock"              -> plan[1]
      [] plan # <<>> /\ plan[1] = "lock" /\ plan[2] = "insert" -> "start"
      [] OTHER                                        -> "close"

LEMMA ConcatIs ==
    ASSUME NEW S, NEW q \in Seq(S), NEW r \in Seq(S), NEW p \in Seq(S),
           Len(p) = Len(q) + Len(r),
           \A i \in 1..Len(p) : p[i] = IF i <= Len(q) THEN q[i] ELSE r[i - Len(q)]
    PROVE  q \o r = p
<1> DEFINE c == q \o r
<1>1. /\ c \in Seq(S) /\ Len(c) = Len(p)
      /\ \A i \in 1..Len(p) : c[i] = p[i]
  BY ConcatProperties
<1> HIDE DEF c
<1>2. c = p BY <1>1, SeqEqual
<1> QED BY <1>2 DEF c

LEMMA Callbacks ==
    /\ Start = <<"lock", "insert", "enqueue_connected", "do_recv">>
    /\ AcceptHandler = <<"lock", "insert", "enqueue_connected", "do_recv", "do_accept">>
<1>1. Start = <<"lock", "insert", "enqueue_connected", "do_recv">>
  <2> DEFINE q == <<"lock", "insert", "enqueue_connected">>
             r == <<"do_recv">>
             p == <<"lock", "insert", "enqueue_connected", "do_recv">>
  <2>1. /\ q \in Seq(Steps) /\ r \in Seq(Steps) /\ p \in Seq(Steps)
        /\ Len(p) = 4 /\ Len(q) = 3 /\ Len(r) = 1
        /\ p[1] = q[1] /\ p[2] = q[2] /\ p[3] = q[3] /\ p[4] = r[1]
    BY DEF Steps
  <2> HIDE DEF p, q, r
  <2>i. \A i \in 1..Len(p) : p[i] = IF i <= Len(q) THEN q[i] ELSE r[i - Len(q)]
    BY <2>1
  <2>l. Len(p) = Len(q) + Len(r) BY <2>1
  <2>s. q \in Seq(Steps) /\ r \in Seq(Steps) /\ p \in Seq(Steps) BY <2>1
  <2>2. q \o r = p BY <2>s, <2>l, <2>i, ConcatIs, Zenon
  <2> QED BY <2>2 DEF p, q, r, Start, OnConnect
<1>2. AcceptHandler = <<"lock", "insert", "enqueue_connected", "do_recv", "do_accept">>
  <2> DEFINE q == <<"lock", "insert", "enqueue_connected", "do_recv">>
             r == <<"do_accept">>
             p == <<"lock", "insert", "enqueue_connected", "do_recv", "do_accept">>
  <2>1. /\ q \in Seq(Steps) /\ r \in Seq(Steps) /\ p \in Seq(Steps)
        /\ Len(p) = 5 /\ Len(q) = 4 /\ Len(r) = 1
        /\ p[1] = q[1] /\ p[2] = q[2] /\ p[3] = q[3] /\ p[4] = q[4] /\ p[5] = r[1]
    BY DEF Steps
  <2> HIDE DEF p, q, r
  <2>i. \A i \in 1..Len(p) : p[i] = IF i <= Len(q) THEN q[i] ELSE r[i - Len(q)]
    BY <2>1
  <2>l. Len(p) = Len(q) + Len(r) BY <2>1
  <2>s. q \in Seq(Steps) /\ r \in Seq(Steps) /\ p \in Seq(Steps) BY <2>1
  <2>2. q \o r = p BY <2>s, <2>l, <2>i, ConcatIs, Zenon
  <2>3. Start = q BY <1>1 DEF q
  <2> QED BY <2>2, <2>3 DEF p, r, AcceptHandler
<1> QED BY <1>1, <1>2

(* What a step does to a plan.                                              *)
Advances(plan) ==
    /\ Tail(plan) \in Plans
    /\ Head(plan) = "lock" =>
        \/ PhaseOf(plan) = "start" /\ PhaseOf(Tail(plan)) = "insert"
        \/ PhaseOf(plan) = "close" /\ PhaseOf(Tail(plan)) = "erase"
    /\ Head(plan) # "lock" => PhaseOf(plan) = Head(plan)
    /\ Head(plan) = "insert" => PhaseOf(Tail(plan)) = "enqueue_connected"
    /\ Head(plan) = "enqueue_connected" => PhaseOf(Tail(plan)) = "do_recv"
    /\ Head(plan) = "do_recv" => PhaseOf(Tail(plan)) \in {"idle", "do_accept"}
    /\ Head(plan) = "do_accept" => PhaseOf(Tail(plan)) = "idle"
    /\ Head(plan) = "erase" => PhaseOf(Tail(plan)) = "enqueue_closeed"
    /\ Head(plan) = "enqueue_closeed" => PhaseOf(Tail(plan)) = "idle"
    /\ (Len(plan) = 1) <=> (PhaseOf(Tail(plan)) = "idle")

LEMMA PlanAdvances ==
    ASSUME NEW plan \in Plans, plan # <<>>
    PROVE  Advances(plan)
<1>1. CASE plan = <<"lock", "insert", "enqueue_connected", "do_recv">>
  BY <1>1, Callbacks DEF Advances, PhaseOf, Plans
<1>2. CASE plan = <<"lock", "insert", "enqueue_connected", "do_recv", "do_accept">>
  BY <1>2, Callbacks DEF Advances, PhaseOf, Plans
<1>3. CASE plan = OnClose
  BY <1>3, Callbacks DEF Advances, PhaseOf, Plans, OnClose
<1>4. CASE plan = <<"insert", "enqueue_connected", "do_recv">>
  BY <1>4 DEF Advances, PhaseOf, Plans
<1>5. CASE plan = <<"insert", "enqueue_connected", "do_recv", "do_accept">>
  BY <1>5 DEF Advances, PhaseOf, Plans
<1>6. CASE plan = <<"enqueue_connected", "do_recv">>
  BY <1>6 DEF Advances, PhaseOf, Plans
<1>7. CASE plan = <<"enqueue_connected", "do_recv", "do_accept">>
  BY <1>7 DEF Advances, PhaseOf, Plans
<1>8. CASE plan = <<"do_recv">>
  BY <1>8 DEF Advances, PhaseOf, Plans
<1>9. CASE plan = <<"do_recv", "do_accept">>
  BY <1>9 DEF Advances, PhaseOf, Plans
<1>10. CASE plan = <<"do_accept">>
  BY <1>10 DEF Advances, PhaseOf, Plans
<1>11. CASE plan = <<"erase", "enqueue_closeed">>
  BY <1>11 DEF Advances, PhaseOf, Plans
<1>12. CASE plan = <<"enqueue_closeed">>
  BY <1>12 DEF Advances, PhaseOf, Plans
<1> QED BY <1>1, <1>2, <1>3, <1>4, <1>5, <1>6, <1>7, <1>8, <1>9, <1>10, <1>11, <1>12,
           Callbacks DEF Plans

-----------------------------------------------------------------------------
(* The phases of the threads, and what the actions do to them.              *)

phase == [t \in Thread |-> PhaseOf(todo[t])]

Packets == [sid : Sid, msgid : {"connected", "message", "closeed"}, n : Nat]

NetTypes ==
    /\ accepting \in Sid \cup {NoSid} /\ accepted \subseteq Sid /\ last_id \in 0..MaxSessions
    /\ home \in [Sid -> IoThread]
    /\ socket \in [Sid -> {"new", "open", "close_posted", "closed"}]
    /\ reading \in [Sid -> BOOLEAN] /\ parsing \subseteq Sid
    /\ reads \in [Sid -> Nat] /\ before \in [Sid -> Nat]
    /\ todo \in [Thread -> Plans] /\ cur \in [Thread -> Sid \cup {NoSid}]
    /\ seen \in [Thread -> SUBSET Sid] /\ sessions_ \subseteq Sid
    /\ msg_queue_ \in [Thread -> Seq(Packets)] /\ dispatched \in [Sid -> Seq(Packets)]

Moves(t, p, q) ==
    /\ phase[t] = p /\ phase' = [phase EXCEPT ![t] = q]
    /\ todo' \in [Thread -> Plans]
    /\ cur' = [cur EXCEPT ![t] = IF q = "idle" THEN NoSid ELSE @]

Phases == {"idle", "start", "close", "insert", "erase", "enqueue_connected",
           "enqueue_closeed", "do_recv", "do_accept"}

LEMMA PlanPhases ==
    ASSUME NEW plan \in Plans
    PROVE  PhaseOf(plan) \in Phases /\ (PhaseOf(plan) = "idle" <=> plan = <<>>)
BY Callbacks DEF Plans, Phases, PhaseOf, OnClose

LEMMA PhaseTypes ==
    ASSUME NetTypes
    PROVE  phase \in [Thread -> Phases] /\ \A t \in Thread : Idle(t) <=> phase[t] = "idle"
BY PlanPhases DEF NetTypes, phase, Idle

LEMMA DoesMoves ==
    ASSUME NetTypes, NEW t \in Thread, NEW step, Does(t, step)
    PROVE  /\ Moves(t, PhaseOf(todo[t]), PhaseOf(Tail(todo[t])))
           /\ Advances(todo[t]) /\ Head(todo[t]) = step
<1>1. todo[t] \in Plans /\ todo[t] # <<>> /\ Head(todo[t]) = step
  BY DEF NetTypes, Does, Idle
<1>2. Advances(todo[t]) BY <1>1, PlanAdvances
<1>3. todo' = [todo EXCEPT ![t] = Tail(todo[t])] BY DEF Does
<1>4. /\ phase[t] = PhaseOf(todo[t])
      /\ phase' = [phase EXCEPT ![t] = PhaseOf(Tail(todo[t]))]
  BY <1>3 DEF phase, NetTypes
<1>5. todo' \in [Thread -> Plans] BY <1>2, <1>3 DEF NetTypes, Advances
<1>6. cur' = [cur EXCEPT ![t] = IF PhaseOf(Tail(todo[t])) = "idle" THEN NoSid ELSE @]
  BY <1>2 DEF Does, Advances
<1> QED BY <1>1, <1>2, <1>4, <1>5, <1>6 DEF Moves

LEMMA StepMoves ==
    ASSUME NetTypes, NEW t \in Thread
    PROVE  /\ Does(t, "lock") => Moves(t, "start", "insert") \/ Moves(t, "close", "erase")
           /\ Does(t, "insert") => Moves(t, "insert", "enqueue_connected")
           /\ Does(t, "enqueue_connected") => Moves(t, "enqueue_connected", "do_recv")
           /\ Does(t, "do_recv") =>
                Moves(t, "do_recv", "idle") \/ Moves(t, "do_recv", "do_accept")
           /\ Does(t, "do_accept") => Moves(t, "do_accept", "idle")
           /\ Does(t, "erase") => Moves(t, "erase", "enqueue_closeed")
           /\ Does(t, "enqueue_closeed") => Moves(t, "enqueue_closeed", "idle")
<1>1. ASSUME Does(t, "lock")
      PROVE  Moves(t, "start", "insert") \/ Moves(t, "close", "erase")
  BY <1>1, DoesMoves DEF Advances
<1>2. ASSUME Does(t, "insert") PROVE Moves(t, "insert", "enqueue_connected")
  BY <1>2, DoesMoves DEF Advances
<1>3. ASSUME Does(t, "enqueue_connected") PROVE Moves(t, "enqueue_connected", "do_recv")
  BY <1>3, DoesMoves DEF Advances
<1>4. ASSUME Does(t, "do_recv")
      PROVE  Moves(t, "do_recv", "idle") \/ Moves(t, "do_recv", "do_accept")
  BY <1>4, DoesMoves DEF Advances
<1>5. ASSUME Does(t, "do_accept") PROVE Moves(t, "do_accept", "idle")
  BY <1>5, DoesMoves DEF Advances
<1>6. ASSUME Does(t, "erase") PROVE Moves(t, "erase", "enqueue_closeed")
  BY <1>6, DoesMoves DEF Advances
<1>7. ASSUME Does(t, "enqueue_closeed") PROVE Moves(t, "enqueue_closeed", "idle")
  BY <1>7, DoesMoves DEF Advances
<1> QED BY <1>1, <1>2, <1>3, <1>4, <1>5, <1>6, <1>7

(* A callback begins.                                                       *)
Begins(t, s, p) ==
    /\ phase[t] = "idle" /\ phase' = [phase EXCEPT ![t] = p]
    /\ todo' \in [Thread -> Plans]
    /\ cur' = [cur EXCEPT ![t] = s]

LEMMA CallsBegin ==
    ASSUME NetTypes, NEW t \in Thread, NEW s, Idle(t)
    PROVE  /\ Calls(t, s, Start) => Begins(t, s, "start")
           /\ Calls(t, s, AcceptHandler) => Begins(t, s, "start")
           /\ Calls(t, s, OnClose) => Begins(t, s, "close")
           /\ Calls(t, s, <<"do_accept">>) => Begins(t, s, "do_accept")
<1>1. ASSUME NEW plan \in Plans, Calls(t, s, plan) PROVE Begins(t, s, PhaseOf(plan))
  <2>1. todo' = [todo EXCEPT ![t] = plan] /\ cur' = [cur EXCEPT ![t] = s]
    BY <1>1 DEF Calls
  <2>2. phase' = [phase EXCEPT ![t] = PhaseOf(plan)] BY <2>1 DEF phase, NetTypes
  <2>3. phase[t] = "idle" BY PhaseTypes
  <2>4. todo' \in [Thread -> Plans] BY <2>1 DEF NetTypes
  <2> QED BY <2>1, <2>2, <2>3, <2>4 DEF Begins
<1>2. /\ Start \in Plans /\ AcceptHandler \in Plans /\ OnClose \in Plans
      /\ <<"do_accept">> \in Plans
  BY DEF Plans
<1>3. PhaseOf(Start) = "start" /\ PhaseOf(AcceptHandler) = "start"
  BY Callbacks DEF PhaseOf
<1>4. PhaseOf(OnClose) = "close" /\ PhaseOf(<<"do_accept">>) = "do_accept"
  BY DEF PhaseOf, OnClose
<1> QED BY <1>1, <1>2, <1>3, <1>4

(* What a thread that does nothing keeps.                                   *)
LEMMA SamePhase ==
    ASSUME UNCHANGED todo PROVE phase' = phase
BY DEF phase

-----------------------------------------------------------------------------
(* The packets that are queued or were dispatched.                          *)

Msgs == {"connected", "message", "closeed"}
sent == {x \in Sid \X Msgs :
            \/ \E t \in Thread : \E i \in 1..Len(msg_queue_[t]) :
                  msg_queue_[t][i].sid = x[1] /\ msg_queue_[t][i].msgid = x[2]
            \/ \E i \in 1..Len(dispatched[x[1]]) : dispatched[x[1]][i].msgid = x[2]}

LEMMA SentSame ==
    ASSUME UNCHANGED queue PROVE sent' = sent
BY DEF queue, sent

LEMMA EnqueueSends ==
    ASSUME NetTypes, NEW t \in Thread, NEW pk \in Packets, Enqueue(t, pk)
    PROVE  /\ msg_queue_' \in [Thread -> Seq(Packets)] /\ dispatched' = dispatched
           /\ sent' \subseteq sent \cup {<<pk.sid, pk.msgid>>}
<1> DEFINE q == msg_queue_[t]
           r == Append(q, pk)
<1>1. msg_queue_' = [msg_queue_ EXCEPT ![t] = r] /\ dispatched' = dispatched
  BY DEF Enqueue
<1>2. /\ q \in Seq(Packets) /\ r \in Seq(Packets) /\ Len(r) = Len(q) + 1 /\ Len(q) \in Nat
      /\ r[Len(q) + 1] = pk /\ \A i \in 1..Len(q) : r[i] = q[i]
  BY AppendProperties, LenProperties DEF NetTypes
<1> HIDE DEF r
<1>3. msg_queue_' \in [Thread -> Seq(Packets)] BY <1>1, <1>2 DEF NetTypes
<1>4. ASSUME NEW s \in Sid, NEW m \in Msgs, <<s, m>> \in sent', <<s, m>> \notin sent
      PROVE  s = pk.sid /\ m = pk.msgid
  <2>1. PICK u \in Thread : \E i \in 1..Len(msg_queue_'[u]) :
            msg_queue_'[u][i].sid = s /\ msg_queue_'[u][i].msgid = m
    BY <1>1, <1>4 DEF sent
  <2>2. u = t BY <2>1, <1>1, <1>4 DEF sent, NetTypes
  <2>3. msg_queue_'[t] = r BY <1>1 DEF NetTypes
  <2>4. PICK i \in 1..Len(r) : r[i].sid = s /\ r[i].msgid = m
    BY <2>1, <2>2, <2>3
  <2>5. i \notin 1..Len(q) BY <2>4, <1>2, <1>4 DEF sent
  <2> QED BY <2>4, <2>5, <1>2
<1>5. sent' \subseteq sent \cup {<<pk.sid, pk.msgid>>}
  <2>1. ASSUME NEW x \in sent' PROVE x \in sent \cup {<<pk.sid, pk.msgid>>}
    <3>1. PICK s \in Sid, m \in Msgs : x = <<s, m>> BY <2>1 DEF sent
    <3> QED BY <3>1, <2>1, <1>4
  <2> QED BY <2>1
<1> QED BY <1>1, <1>3, <1>5

(* What update() takes from the queue of t.                                 *)
Dispatches(t) ==
    LET q == msg_queue_[t]
        s == q[1].sid
    IN  /\ Len(q) > 0 /\ q[1] \in Packets
        /\ DOMAIN msg_queue_' = Thread /\ DOMAIN dispatched' = Sid
        /\ \A u \in Thread : u # t => msg_queue_'[u] = msg_queue_[u]
        /\ Len(msg_queue_'[t]) = Len(q) - 1
        /\ \A i \in 1..Len(q) - 1 : msg_queue_'[t][i] = q[i + 1]
        /\ \A r \in Sid : r # s => dispatched'[r] = dispatched[r]
        /\ Len(dispatched'[s]) = Len(dispatched[s]) + 1
        /\ dispatched'[s][Len(dispatched[s]) + 1] = q[1]
        /\ \A i \in 1..Len(dispatched[s]) : dispatched'[s][i] = dispatched[s][i]

LEMMA UpdateDispatches ==
    ASSUME NetTypes, NEW t \in Thread, Update(t)
    PROVE  /\ msg_queue_' \in [Thread -> Seq(Packets)] /\ dispatched' \in [Sid -> Seq(Packets)]
           /\ Dispatches(t)
<1> DEFINE q == msg_queue_[t]
           s == q[1].sid
           d == dispatched[s]
           e == Append(d, q[1])
           r == Tail(q)
<1>1. /\ q \in Seq(Packets) /\ q # <<>>
  BY DEF NetTypes, Update
<1>2. /\ Len(q) \in Nat /\ Len(q) > 0 /\ Head(q) = q[1] /\ q[1] \in Packets /\ s \in Sid
      /\ r \in Seq(Packets) /\ Len(r) = Len(q) - 1 /\ \A i \in 1..Len(r) : r[i] = q[i + 1]
  <2>1. Len(q) \in Nat /\ Len(q) > 0 BY <1>1, LenProperties, EmptySeq
  <2>2. /\ Head(q) = q[1] /\ Head(q) \in Packets /\ r \in Seq(Packets) /\ Len(r) = Len(q) - 1
        /\ \A i \in 1..Len(r) : r[i] = q[i + 1]
    BY <1>1, HeadTailProperties
  <2> QED BY <2>1, <2>2 DEF Packets
<1>3. /\ d \in Seq(Packets) /\ e \in Seq(Packets) /\ Len(d) \in Nat /\ Len(e) = Len(d) + 1
      /\ e[Len(d) + 1] = q[1] /\ \A i \in 1..Len(d) : e[i] = d[i]
  <2>1. d \in Seq(Packets) BY <1>2 DEF NetTypes
  <2> QED BY <2>1, <1>2, AppendProperties, LenProperties, SMTT(30)
<1>4. /\ dispatched' = [dispatched EXCEPT ![s] = e]
      /\ msg_queue_' = [msg_queue_ EXCEPT ![t] = r]
  BY <1>2 DEF Update
<1> HIDE DEF q, d, e, r
<1>5. /\ msg_queue_'[t] = r /\ \A u \in Thread : u # t => msg_queue_'[u] = msg_queue_[u]
      /\ DOMAIN msg_queue_' = Thread /\ msg_queue_' \in [Thread -> Seq(Packets)]
  BY <1>4, <1>2 DEF NetTypes
<1>6. /\ dispatched'[s] = e /\ \A u \in Sid : u # s => dispatched'[u] = dispatched[u]
      /\ DOMAIN dispatched' = Sid /\ dispatched' \in [Sid -> Seq(Packets)]
  BY <1>4, <1>3, <1>2 DEF NetTypes
<1>7. Dispatches(t)
  BY <1>2, <1>3, <1>5, <1>6 DEF Dispatches, q, d
<1> QED BY <1>5, <1>6, <1>7

LEMMA UpdateSends ==
    ASSUME NetTypes, NEW t \in Thread, Update(t)
    PROVE  sent' \subseteq sent
<1> DEFINE q == msg_queue_[t]
           h == q[1].sid
<1>0. Dispatches(t) BY UpdateDispatches
<1>1. Len(q) \in Nat /\ \A r \in Sid : Len(dispatched[r]) \in Nat
  BY LenProperties DEF NetTypes
<1>2. ASSUME NEW s \in Sid, NEW m \in Msgs, NEW u \in Thread,
             NEW i \in 1..Len(msg_queue_'[u]),
             msg_queue_'[u][i].sid = s /\ msg_queue_'[u][i].msgid = m
      PROVE  <<s, m>> \in sent
  <2>1. CASE u = t
    <3>1. i \in 1..Len(q) - 1 /\ i + 1 \in 1..Len(q) /\ msg_queue_'[u][i] = q[i + 1]
      BY <2>1, <1>0, <1>1, <1>2 DEF Dispatches
    <3> QED BY <3>1, <1>2 DEF sent
  <2>2. CASE u # t
    BY <2>2, <1>0, <1>2 DEF Dispatches, sent
  <2> QED BY <2>1, <2>2
<1>3. ASSUME NEW s \in Sid, NEW m \in Msgs, NEW i \in 1..Len(dispatched'[s]),
             dispatched'[s][i].msgid = m
      PROVE  <<s, m>> \in sent
  <2>1. CASE s = h /\ i = Len(dispatched[s]) + 1
    <3>1. q[1].sid = s /\ q[1].msgid = m /\ 1 \in 1..Len(q)
      BY <2>1, <1>0, <1>1, <1>3 DEF Dispatches
    <3> QED BY <3>1, <1>3 DEF sent
  <2>2. CASE ~(s = h /\ i = Len(dispatched[s]) + 1)
    <3>1. i \in 1..Len(dispatched[s]) /\ dispatched[s][i].msgid = m
      BY <2>2, <1>0, <1>1, <1>3, SMTT(30) DEF Dispatches
    <3> QED BY <3>1, <1>3 DEF sent
  <2> QED BY <2>1, <2>2
<1>4. ASSUME NEW x \in sent' PROVE x \in sent
  <2>1. PICK s \in Sid, m \in Msgs : x = <<s, m>> BY <1>4 DEF sent
  <2>2. \/ \E u \in Thread : \E i \in 1..Len(msg_queue_'[u]) :
              msg_queue_'[u][i].sid = s /\ msg_queue_'[u][i].msgid = m
        \/ \E i \in 1..Len(dispatched'[s]) : dispatched'[s][i].msgid = m
    BY <2>1, <1>4 DEF sent
  <2>3. <<s, m>> \in sent BY <2>2, <1>2, <1>3
  <2> QED BY <2>1, <2>3
<1> QED BY <1>4

-----------------------------------------------------------------------------
(* The registry: the invariant behind SessionsMatch.                        *)

Opening(t) == phase[t] \in {"start", "insert"}
Opened(t)  == phase[t] \in {"enqueue_connected", "do_recv"}
Closing(t) == phase[t] \in {"close", "erase"}
Ending(t)  == phase[t] = "enqueue_closeed"
Busy(t)    == Opening(t) \/ Opened(t) \/ Closing(t) \/ Ending(t)

(* A session is started or closed by one thread at a time.                  *)
Alone ==
    /\ \A t \in Thread : Busy(t) => cur[t] \in Sid
    /\ \A t, u \in Thread : Busy(t) /\ Busy(u) /\ cur[t] = cur[u] => t = u

(* Whoever is about to change sessions_ holds the lock and has seen it as   *)
(* it is.                                                                   *)
LockHeld == \A t \in Thread :
    phase[t] \in {"insert", "erase"} => spin_lock_ = {t} /\ seen[t] = sessions_

(* Nothing has happened to a session that is new; one that parses, reads.   *)
Fresh ==
    /\ \A s \in Sid : s > last_id => socket[s] = "new"
    /\ accepting # NoSid => accepting <= last_id /\ socket[accepting] = "new"
    /\ \A s \in parsing : reading[s]
    /\ \A s \in Sid : socket[s] = "new" =>
        /\ ~reading[s] /\ reads[s] = 0 /\ s \notin sessions_ /\ s \notin accepted
        /\ \A m \in Msgs : <<s, m>> \notin sent

(* The state of a session while a thread works on it.                       *)
Working == \A t \in Thread :
    /\ Opening(t) => socket[cur[t]] = "open" /\ ~reading[cur[t]]
    /\ Opened(t)  => socket[cur[t]] = "open" /\ ~reading[cur[t]] /\ cur[t] \in sessions_
    /\ Closing(t) => socket[cur[t]] = "closed"
    /\ Ending(t)  => socket[cur[t]] = "closed" /\ cur[t] \notin sessions_

(* sessions_ has the sessions that are up, and those whose close is under   *)
(* way on some thread; what was said of a session agrees with it.           *)
Registered == \A s \in Sid :
    /\ reading[s] /\ socket[s] # "closed" => s \in sessions_
    /\ socket[s] = "closed" /\ s \in sessions_ => \E t \in Thread : Closing(t) /\ cur[t] = s
    /\ <<s, "closeed">> \in sent => socket[s] = "closed" /\ s \notin sessions_
    /\ <<s, "connected">> \in sent /\ socket[s] # "closed" => s \in sessions_

RegInv == Alone /\ LockHeld /\ Fresh /\ Working /\ Registered

-----------------------------------------------------------------------------
(* Each action keeps the registry right.                                    *)

LEMMA LockKeeps ==
    ASSUME NetTypes, RegInv, NEW t \in Thread, Lock(t)
    PROVE  NetTypes' /\ RegInv'
<1>1. Moves(t, "start", "insert") \/ Moves(t, "close", "erase")
  BY StepMoves DEF Lock
<1>2. sent' = sent BY SentSame DEF Lock
<1>3. phase \in [Thread -> Phases] BY PhaseTypes
<1>4. NetTypes'
  BY <1>1 DEF NetTypes, Lock, Moves, acceptor, created, session, received, queue
<1>5. \A u \in Thread : phase[u] \notin {"insert", "erase"}
  BY DEF Lock, Unlocked, RegInv, LockHeld
<1>6. LockHeld'
  BY <1>1, <1>3, <1>5 DEF NetTypes, Lock, Moves, LockHeld
<1>7. \A u \in Thread : /\ cur'[u] = cur[u] /\ (Opening(u)' <=> Opening(u))
                        /\ (Opened(u)' <=> Opened(u)) /\ (Closing(u)' <=> Closing(u))
                        /\ (Ending(u)' <=> Ending(u))
  BY <1>1, <1>3 DEF NetTypes, Moves, Opening, Opened, Closing, Ending
<1>8. Alone' BY <1>7 DEF RegInv, Alone, Busy
<1>9. Fresh' BY <1>2 DEF RegInv, Fresh, Lock, acceptor, created, session, received
<1>10. Working' BY <1>7 DEF RegInv, Working, Lock, session, received
<1>11. Registered' BY <1>2, <1>7 DEF RegInv, Registered, Lock, session, received
<1> QED BY <1>4, <1>6, <1>8, <1>9, <1>10, <1>11 DEF RegInv

LEMMA InsertKeeps ==
    ASSUME NetTypes, RegInv, NEW t \in Thread, Insert(t)
    PROVE  NetTypes' /\ RegInv'
<1>1. Moves(t, "insert", "enqueue_connected")
  BY StepMoves DEF Insert
<1>2. sent' = sent BY SentSame DEF Insert
<1>3. phase \in [Thread -> Phases] BY PhaseTypes
<1>s. /\ sessions_' = sessions_ \cup {cur[t]} /\ cur[t] \in Sid
      /\ socket[cur[t]] = "open" /\ spin_lock_ = {t}
  BY <1>1 DEF Insert, Moves, RegInv, LockHeld, Alone, Busy, Opening, Working
<1>4. NetTypes'
  BY <1>1, <1>s DEF NetTypes, Insert, Unlock, Moves, acceptor, created, session, received, queue
<1>5. \A u \in Thread : u # t => phase[u] \notin {"insert", "erase"}
  BY <1>s DEF RegInv, LockHeld
<1>6. LockHeld'
  BY <1>1, <1>3, <1>5 DEF NetTypes, Moves, LockHeld
<1>7. /\ \A u \in Thread : cur'[u] = cur[u] /\ (Busy(u)' <=> Busy(u))
      /\ \A u \in Thread : u # t => 
                        /\ (Opening(u)' <=> Opening(u))
                        /\ (Opened(u)' <=> Opened(u)) /\ (Closing(u)' <=> Closing(u))
                        /\ (Ending(u)' <=> Ending(u))
      /\ Opening(t) /\ Opened(t)' /\ ~Opening(t)' /\ ~Closing(t) /\ ~Closing(t)' /\ ~Ending(t)'
  BY <1>1, <1>3 DEF NetTypes, Moves, Opening, Opened, Closing, Ending, Busy
<1>8. Alone' BY <1>7 DEF RegInv, Alone
<1>9. Fresh' BY <1>2, <1>s DEF RegInv, Fresh, Insert, acceptor, created, session, received
<1>10. Working' BY <1>7, <1>s DEF RegInv, Working, Insert, session, received
<1>11. Registered' BY <1>2, <1>7, <1>s DEF RegInv, Registered, Insert, session, received
<1> QED BY <1>4, <1>6, <1>8, <1>9, <1>10, <1>11 DEF RegInv

LEMMA EraseKeeps ==
    ASSUME NetTypes, RegInv, NEW t \in Thread, Erase(t)
    PROVE  NetTypes' /\ RegInv'
<1>1. Moves(t, "erase", "enqueue_closeed")
  BY StepMoves DEF Erase
<1>2. sent' = sent BY SentSame DEF Erase
<1>3. phase \in [Thread -> Phases] BY PhaseTypes
<1>s. /\ sessions_' = sessions_ \ {cur[t]} /\ cur[t] \in Sid
      /\ socket[cur[t]] = "closed" /\ spin_lock_ = {t}
  BY <1>1 DEF Erase, Moves, RegInv, LockHeld, Alone, Busy, Closing, Working
<1>4. NetTypes'
  BY <1>1, <1>s DEF NetTypes, Erase, Unlock, Moves, acceptor, created, session, received, queue
<1>5. \A u \in Thread : u # t => phase[u] \notin {"insert", "erase"}
  BY <1>s DEF RegInv, LockHeld
<1>6. LockHeld'
  BY <1>1, <1>3, <1>5 DEF NetTypes, Moves, LockHeld
<1>7. /\ \A u \in Thread : cur'[u] = cur[u] /\ (Busy(u)' <=> Busy(u))
      /\ \A u \in Thread : u # t =>
                        /\ (Opening(u)' <=> Opening(u))
                        /\ (Opened(u)' <=> Opened(u)) /\ (Closing(u)' <=> Closing(u))
                        /\ (Ending(u)' <=> Ending(u))
      /\ Closing(t) /\ Ending(t)' /\ ~Opening(t)' /\ ~Opened(t)' /\ ~Closing(t)'
  BY <1>1, <1>3 DEF NetTypes, Moves, Opening, Opened, Closing, Ending, Busy
<1>8. Alone' BY <1>7 DEF RegInv, Alone
<1>9. Fresh' BY <1>2, <1>s DEF RegInv, Fresh, Erase, acceptor, created, session, received
<1>10. Working' BY <1>7, <1>s DEF RegInv, Working, Erase, session, received
<1>11. Registered' BY <1>2, <1>7, <1>s DEF RegInv, Registered, Erase, session, received
<1> QED BY <1>4, <1>6, <1>8, <1>9, <1>10, <1>11 DEF RegInv

LEMMA EnqueueConnectedKeeps ==
    ASSUME NetTypes, RegInv, NEW t \in Thread, EnqueueConnected(t)
    PROVE  NetTypes' /\ RegInv'
<1> DEFINE pk == Packet(cur[t], "connected", 0)
<1>1. Moves(t, "enqueue_connected", "do_recv")
  BY StepMoves DEF EnqueueConnected
<1>s. /\ cur[t] \in Sid /\ socket[cur[t]] = "open" /\ cur[t] \in sessions_
  BY <1>1 DEF Moves, RegInv, Alone, Busy, Opened, Working
<1>p. pk \in Packets /\ pk.sid = cur[t] /\ pk.msgid = "connected"
  BY <1>s DEF Packet, Packets
<1>q. Enqueue(t, pk) BY DEF EnqueueConnected
<1> HIDE DEF pk
<1>2. /\ msg_queue_' \in [Thread -> Seq(Packets)] /\ dispatched' = dispatched
      /\ sent' \subseteq sent \cup {<<cur[t], "connected">>}
  BY <1>p, <1>q, EnqueueSends
<1>3. phase \in [Thread -> Phases] BY PhaseTypes
<1>4. NetTypes'
  BY <1>1, <1>2 DEF NetTypes, EnqueueConnected, Moves, acceptor, created, session, received, registry
<1>6. LockHeld'
  BY <1>1, <1>3 DEF NetTypes, Moves, RegInv, LockHeld, EnqueueConnected, registry
<1>7. \A u \in Thread : /\ cur'[u] = cur[u] /\ (Opening(u)' <=> Opening(u))
                        /\ (Opened(u)' <=> Opened(u)) /\ (Closing(u)' <=> Closing(u))
                        /\ (Ending(u)' <=> Ending(u))
  BY <1>1, <1>3 DEF NetTypes, Moves, Opening, Opened, Closing, Ending
<1>8. Alone' BY <1>7 DEF RegInv, Alone, Busy
<1>9. Fresh'
  BY <1>2, <1>s DEF RegInv, Fresh, EnqueueConnected, acceptor, created, session, received, registry
<1>10. Working' BY <1>7 DEF RegInv, Working, EnqueueConnected, session, received, registry
<1>11. Registered'
  BY <1>2, <1>7, <1>s DEF RegInv, Registered, EnqueueConnected, session, received, registry
<1> QED BY <1>4, <1>6, <1>8, <1>9, <1>10, <1>11 DEF RegInv

LEMMA EnqueueCloseedKeeps ==
    ASSUME NetTypes, RegInv, NEW t \in Thread, EnqueueCloseed(t)
    PROVE  NetTypes' /\ RegInv'
<1> DEFINE pk == Packet(cur[t], "closeed", reads[cur[t]])
<1>1. Moves(t, "enqueue_closeed", "idle")
  BY StepMoves DEF EnqueueCloseed
<1>s. /\ cur[t] \in Sid /\ socket[cur[t]] = "closed" /\ cur[t] \notin sessions_
  BY <1>1 DEF Moves, RegInv, Alone, Busy, Ending, Working
<1>p. pk \in Packets /\ pk.sid = cur[t] /\ pk.msgid = "closeed"
  BY <1>s DEF Packet, Packets, NetTypes
<1>q. Enqueue(t, pk) BY DEF EnqueueCloseed
<1> HIDE DEF pk
<1>2. /\ msg_queue_' \in [Thread -> Seq(Packets)] /\ dispatched' = dispatched
      /\ sent' \subseteq sent \cup {<<cur[t], "closeed">>}
  BY <1>p, <1>q, EnqueueSends
<1>3. phase \in [Thread -> Phases] BY PhaseTypes
<1>4. NetTypes'
  BY <1>1, <1>2 DEF NetTypes, EnqueueCloseed, Moves, acceptor, created, session, received, registry
<1>6. LockHeld'
  BY <1>1, <1>3 DEF NetTypes, Moves, RegInv, LockHeld, EnqueueCloseed, registry
<1>7. /\ \A u \in Thread : u # t =>
                        /\ cur'[u] = cur[u] /\ (Opening(u)' <=> Opening(u))
                        /\ (Opened(u)' <=> Opened(u)) /\ (Closing(u)' <=> Closing(u))
                        /\ (Ending(u)' <=> Ending(u))
      /\ ~Opening(t)' /\ ~Opened(t)' /\ ~Closing(t)' /\ ~Ending(t)' /\ ~Closing(t)
  BY <1>1, <1>3 DEF NetTypes, Moves, Opening, Opened, Closing, Ending
<1>8. Alone' BY <1>7 DEF RegInv, Alone, Busy
<1>9. Fresh'
  BY <1>2, <1>s DEF RegInv, Fresh, EnqueueCloseed, acceptor, created, session, received, registry
<1>10. Working' BY <1>7 DEF RegInv, Working, EnqueueCloseed, session, received, registry
<1>11. Registered'
  BY <1>2, <1>7, <1>s DEF RegInv, Registered, EnqueueCloseed, session, received, registry
<1> QED BY <1>4, <1>6, <1>8, <1>9, <1>10, <1>11 DEF RegInv

LEMMA DoRecvKeeps ==
    ASSUME NetTypes, RegInv, NEW t \in Thread, DoRecv(t)
    PROVE  NetTypes' /\ RegInv'
<1>1. Moves(t, "do_recv", "idle") \/ Moves(t, "do_recv", "do_accept")
  BY StepMoves DEF DoRecv
<1>s. /\ cur[t] \in Sid /\ socket[cur[t]] = "open" /\ cur[t] \in sessions_
      /\ Busy(t) /\ phase[t] = "do_recv"
  BY <1>1 DEF Moves, RegInv, Alone, Busy, Opened, Working
<1>r. /\ reading'[cur[t]] = TRUE /\ \A s \in Sid : s # cur[t] => reading'[s] = reading[s]
      /\ reading' \in [Sid -> BOOLEAN]
  BY <1>s DEF DoRecv, NetTypes
<1>2. sent' = sent BY SentSame DEF DoRecv
<1>3. phase \in [Thread -> Phases] BY PhaseTypes
<1>c. cur' \in [Thread -> Sid \cup {NoSid}] /\ todo' \in [Thread -> Plans]
  BY <1>1 DEF NetTypes, Moves
<1>4. NetTypes'
  BY <1>c, <1>r DEF NetTypes, DoRecv, acceptor, created, registry, queue, received
<1>6. LockHeld'
  BY <1>1, <1>3 DEF NetTypes, Moves, RegInv, LockHeld, DoRecv, registry
<1>7. /\ \A u \in Thread : u # t =>
                        /\ cur'[u] = cur[u] /\ (Opening(u)' <=> Opening(u))
                        /\ (Opened(u)' <=> Opened(u)) /\ (Closing(u)' <=> Closing(u))
                        /\ (Ending(u)' <=> Ending(u))
      /\ ~Opening(t)' /\ ~Opened(t)' /\ ~Closing(t)' /\ ~Ending(t)' /\ ~Closing(t)
  BY <1>1, <1>3 DEF NetTypes, Moves, Opening, Opened, Closing, Ending
<1>8. Alone' BY <1>7 DEF RegInv, Alone, Busy
<1>9. Fresh'
  BY <1>2, <1>s, <1>r DEF RegInv, Fresh, DoRecv, acceptor, created, registry, received
<1>10. Working'
  <2>1. \A u \in Thread : u # t /\ Busy(u) => cur[u] # cur[t] /\ cur[u] \in Sid
    BY <1>s DEF RegInv, Alone
  <2> QED BY <1>7, <1>r, <2>1 DEF RegInv, Working, DoRecv, registry, Busy
<1>11. Registered'
  <2>1. socket' = socket /\ sessions_' = sessions_ BY DEF DoRecv, registry
  <2>2. \A s \in Sid : reading'[s] => reading[s] \/ s \in sessions_ BY <1>r, <1>s
  <2>3. ASSUME NEW s \in Sid, socket[s] = "closed", s \in sessions_
        PROVE  \E u \in Thread : Closing(u)' /\ cur'[u] = s
    <3>1. PICK u \in Thread : Closing(u) /\ cur[u] = s BY <2>3 DEF RegInv, Registered
    <3>2. u # t BY <3>1, <1>7
    <3> QED BY <3>1, <3>2, <1>7
  <2> QED BY <1>2, <2>1, <2>2, <2>3 DEF RegInv, Registered
<1> QED BY <1>4, <1>6, <1>8, <1>9, <1>10, <1>11 DEF RegInv

LEMMA Threads ==
    /\ Main \in Thread /\ 0 \in IoThread /\ IoThread \subseteq Thread
    /\ Main \notin IoThread /\ NoSid \notin Sid /\ Sid \subseteq Nat
    /\ \A n \in 0..MaxSessions : n # NoSid => n \in Sid
BY ConstantsAssumption DEF Main, IoThread, Thread, NoSid, Sid

LEMMA NewSessionIs ==
    ASSUME NetTypes, RegInv, NEW s \in Sid, NewSession(s)
    PROVE  /\ s = last_id + 1 /\ last_id' = s /\ home' \in [Sid -> IoThread]
           /\ socket[s] = "new" /\ s # accepting
           /\ \A r \in Sid : r # s => home'[r] = home[r]
BY Threads DEF NewSession, NetTypes, RegInv, Fresh, Indexes, Sid, NoSid

(* Actions that leave the threads' work on sessions, the sessions and what  *)
(* is said of them alone.                                                   *)
LEMMA IdleKeeps ==
    ASSUME NetTypes, RegInv, UNCHANGED <<session, registry, queue>>,
           \A u \in Thread :
              /\ phase'[u] = phase[u] \/ (~Busy(u) /\ phase'[u] \in {"idle", "do_accept"})
              /\ Busy(u) => cur'[u] = cur[u],
           Fresh'
    PROVE  RegInv'
<1>2. sent' = sent BY SentSame
<1>7. \A u \in Thread : /\ Busy(u) => cur'[u] = cur[u]
                        /\ (Opening(u)' <=> Opening(u))
                        /\ (Opened(u)' <=> Opened(u)) /\ (Closing(u)' <=> Closing(u))
                        /\ (Ending(u)' <=> Ending(u)) /\ (Busy(u)' <=> Busy(u))
  BY DEF Opening, Opened, Closing, Ending, Busy
<1>6. LockHeld'
  <2>1. \A u \in Thread : phase'[u] \in {"insert", "erase"} => phase[u] \in {"insert", "erase"}
    OBVIOUS
  <2> QED BY <2>1 DEF RegInv, LockHeld, registry
<1>8. Alone' BY <1>7 DEF RegInv, Alone
<1>10. Working' BY <1>7 DEF RegInv, Working, session, received, registry, Busy
<1>11. Registered'
  <2>3. ASSUME NEW r \in Sid, socket[r] = "closed", r \in sessions_
        PROVE  \E u \in Thread : Closing(u)' /\ cur'[u] = r
    <3>1. PICK u \in Thread : Closing(u) /\ cur[u] = r BY <2>3 DEF RegInv, Registered
    <3> QED BY <3>1, <1>7 DEF Busy
  <2> QED BY <1>2, <2>3 DEF RegInv, Registered, session, received, registry
<1> QED BY <1>6, <1>8, <1>10, <1>11 DEF RegInv

LEMMA DoAcceptKeeps ==
    ASSUME NetTypes, RegInv, NEW t \in Thread, DoAccept(t)
    PROVE  NetTypes' /\ RegInv'
<1>1. Moves(t, "do_accept", "idle")
  BY StepMoves DEF DoAccept
<1>3. phase \in [Thread -> Phases] BY PhaseTypes
<1>2. sent' = sent BY SentSame DEF DoAccept
<1>u. UNCHANGED <<session, registry, queue, accepted>> BY DEF DoAccept
<1>a. \/ UNCHANGED <<created, accepting>>
      \/ /\ accepting' \in Sid /\ accepting' = last_id + 1 /\ last_id' = last_id + 1
         /\ home' \in [Sid -> IoThread] /\ socket[last_id + 1] = "new"
  BY NewSessionIs DEF DoAccept
<1>c. cur' \in [Thread -> Sid \cup {NoSid}] /\ todo' \in [Thread -> Plans]
  BY <1>1 DEF NetTypes, Moves
<1>4. NetTypes'
  BY <1>a, <1>c, <1>u DEF NetTypes, session, received, registry, queue, created, Sid
<1>9. Fresh'
  BY <1>a, <1>2, <1>u DEF NetTypes, RegInv, Fresh, session, received, registry, created, Sid
<1>7. \A u \in Thread :
              /\ phase'[u] = phase[u] \/ (~Busy(u) /\ phase'[u] \in {"idle", "do_accept"})
              /\ Busy(u) => cur'[u] = cur[u]
  BY <1>1, <1>3 DEF NetTypes, Moves, Opening, Opened, Closing, Ending, Busy
<1>10. RegInv' BY <1>9, <1>7, <1>u, IdleKeeps
<1> QED BY <1>4, <1>10

LEMMA ListenKeeps ==
    ASSUME NetTypes, RegInv, Listen
    PROVE  NetTypes' /\ RegInv'
<1>1. Begins(Main, NoSid, "do_accept")
  BY Threads, CallsBegin DEF Listen
<1>3. phase \in [Thread -> Phases] BY PhaseTypes
<1>2. sent' = sent BY SentSame DEF Listen
<1>u. UNCHANGED <<session, registry, queue, created, accepting, accepted>> BY DEF Listen
<1>c. cur' \in [Thread -> Sid \cup {NoSid}] /\ todo' \in [Thread -> Plans]
  BY <1>1, Threads DEF NetTypes, Begins
<1>4. NetTypes'
  BY <1>c, <1>u DEF NetTypes, session, received, registry, queue, created
<1>9. Fresh'
  BY <1>2, <1>u DEF NetTypes, RegInv, Fresh, session, received, registry, created
<1>7. \A u \in Thread :
              /\ phase'[u] = phase[u] \/ (~Busy(u) /\ phase'[u] \in {"idle", "do_accept"})
              /\ Busy(u) => cur'[u] = cur[u]
  BY <1>1, <1>3, Threads DEF NetTypes, Begins, Opening, Opened, Closing, Ending, Busy
<1>10. RegInv' BY <1>9, <1>7, <1>u, IdleKeeps
<1> QED BY <1>4, <1>10

LEMMA ListenerKeeps ==
    ASSUME NetTypes, RegInv, AcceptFails \/ ClientComes
    PROVE  NetTypes' /\ RegInv'
<1>u. /\ UNCHANGED <<session, registry, queue, created, threads, accepted>>
      /\ accepting' \in {accepting, NoSid}
  BY DEF AcceptFails, ClientComes
<1>2. sent' = sent BY SentSame, <1>u
<1>3. phase' = phase BY SamePhase, <1>u DEF threads
<1>4. NetTypes'
  BY <1>u DEF NetTypes, session, received, registry, queue, created, threads
<1>9. Fresh'
  BY <1>2, <1>u DEF NetTypes, RegInv, Fresh, session, received, registry, created
<1>7. \A u \in Thread : phase'[u] = phase[u] /\ cur'[u] = cur[u]
  BY <1>3, <1>u DEF threads
<1>10. RegInv' BY <1>9, <1>7, <1>u, IdleKeeps
<1> QED BY <1>4, <1>10

(* A thread begins to start a session that was new.                         *)
LEMMA StartKeeps ==
    ASSUME NetTypes, RegInv, NEW t \in Thread, NEW s \in Sid, socket[s] = "new",
           Begins(t, s, "start"), socket' = [socket EXCEPT ![s] = "open"],
           UNCHANGED <<reading, received, registry, queue>>,
           Fresh'
    PROVE  RegInv'
<1>2. sent' = sent BY SentSame
<1>3. phase \in [Thread -> Phases] BY PhaseTypes
<1>s. /\ ~reading[s] /\ s \notin sessions_ /\ <<s, "connected">> \notin sent
      /\ <<s, "closeed">> \notin sent /\ \A u \in Thread : Busy(u) => cur[u] # s
  BY DEF RegInv, Fresh, Working, Busy, Msgs
<1>o. socket'[s] = "open" /\ \A r \in Sid : r # s => socket'[r] = socket[r]
  BY DEF NetTypes
<1>7. /\ \A u \in Thread : u # t =>
                        /\ cur'[u] = cur[u] /\ (Opening(u)' <=> Opening(u))
                        /\ (Opened(u)' <=> Opened(u)) /\ (Closing(u)' <=> Closing(u))
                        /\ (Ending(u)' <=> Ending(u)) /\ (Busy(u)' <=> Busy(u))
      /\ Opening(t)' /\ ~Opened(t)' /\ ~Closing(t)' /\ ~Ending(t)' /\ ~Busy(t)
      /\ cur'[t] = s
  BY <1>3 DEF NetTypes, Begins, Opening, Opened, Closing, Ending, Busy
<1>6. LockHeld'
  BY <1>3 DEF NetTypes, Begins, RegInv, LockHeld, registry
<1>8. Alone' BY <1>7, <1>s DEF RegInv, Alone
<1>10. Working' 
  <2>1. ASSUME NEW u \in Thread, u # t, Busy(u)
        PROVE  cur[u] \in Sid /\ cur[u] # s /\ cur'[u] = cur[u] /\ socket'[cur[u]] = socket[cur[u]]
    BY <2>1, <1>7, <1>s, <1>o DEF RegInv, Alone
  <2> QED BY <2>1, <1>7, <1>s, <1>o DEF RegInv, Working, registry, Busy
<1>11. Registered'
  <2>3. ASSUME NEW r \in Sid, socket[r] = "closed", r \in sessions_
        PROVE  \E u \in Thread : Closing(u)' /\ cur'[u] = r
    <3>1. PICK u \in Thread : Closing(u) /\ cur[u] = r BY <2>3 DEF RegInv, Registered
    <3>2. u # t BY <3>1, <1>7 DEF Busy
    <3> QED BY <3>1, <3>2, <1>7
  <2> QED BY <1>2, <2>3, <1>o, <1>s DEF RegInv, Registered, registry
<1> QED BY <1>6, <1>8, <1>10, <1>11 DEF RegInv

LEMMA AcceptedKeeps ==
    ASSUME NetTypes, RegInv, Accepted
    PROVE  NetTypes' /\ RegInv'
<1>t. 0 \in Thread BY Threads
<1>1. Begins(0, accepting, "start")
  BY <1>t, CallsBegin DEF Accepted, Free
<1>s. accepting \in Sid /\ socket[accepting] = "new" /\ accepting <= last_id
  BY DEF Accepted, NetTypes, RegInv, Fresh
<1>2. sent' = sent BY SentSame DEF Accepted
<1>u. /\ UNCHANGED <<reading, received, registry, queue, created>>
      /\ socket' = [socket EXCEPT ![accepting] = "open"]
      /\ accepted' = accepted \cup {accepting} /\ accepting' = NoSid
  BY DEF Accepted
<1>c. cur' \in [Thread -> Sid \cup {NoSid}] /\ todo' \in [Thread -> Plans]
  BY <1>1, <1>s DEF NetTypes, Begins
<1>4. NetTypes'
  BY <1>c, <1>s, <1>u DEF NetTypes, registry, queue, created, received
<1>9. Fresh'
  BY <1>2, <1>u, <1>s, Threads, SMTT(30) DEF NetTypes, RegInv, Fresh, registry, created, received
<1>10. RegInv' BY <1>1, <1>s, <1>u, <1>t, <1>9, StartKeeps
<1> QED BY <1>4, <1>10

LEMMA ConnectKeeps ==
    ASSUME NetTypes, RegInv, Connect
    PROVE  NetTypes' /\ RegInv'
<1>1. PICK s \in Sid :
        /\ NewSession(s)
        /\ \/ /\ socket' = [socket EXCEPT ![s] = "open"]
              /\ Calls(Main, s, Start)
           \/ UNCHANGED <<socket, threads>>
           \/ socket' = [socket EXCEPT ![s] = "close_posted"] /\ UNCHANGED threads
  BY DEF Connect
<1>s. /\ s = last_id + 1 /\ last_id' = s /\ home' \in [Sid -> IoThread]
      /\ socket[s] = "new" /\ s # accepting
  BY <1>1, NewSessionIs
<1>u. UNCHANGED <<acceptor, reading, received, registry, queue>> BY DEF Connect
<1>2. sent' = sent BY SentSame, <1>u
<1>w. socket' \in [Sid -> {"new", "open", "close_posted", "closed"}]
      /\ \A r \in Sid : r # s => socket'[r] = socket[r]
  BY <1>1 DEF NetTypes
<1>9. Fresh'
  <2>1. last_id \in Nat /\ Sid \subseteq Nat BY Threads DEF NetTypes
  <2>2. \A r \in Sid : r > last_id' => socket'[r] = "new"
    BY <2>1, <1>s, <1>w DEF RegInv, Fresh
  <2>3. accepting' # NoSid => accepting' <= last_id' /\ socket'[accepting'] = "new"
    BY <2>1, <1>s, <1>w, <1>u DEF RegInv, Fresh, acceptor, NetTypes
  <2>4. \A r \in Sid : socket'[r] = "new" => socket[r] = "new" BY <1>s, <1>w
  <2> QED BY <2>2, <2>3, <2>4, <1>2, <1>u DEF RegInv, Fresh, acceptor, registry, received
<1>3. CASE socket' = [socket EXCEPT ![s] = "open"] /\ Calls(Main, s, Start)
  <2>1. Begins(Main, s, "start") BY <1>3, CallsBegin, Threads DEF Connect
  <2>2. cur' \in [Thread -> Sid \cup {NoSid}] /\ todo' \in [Thread -> Plans]
    BY <2>1 DEF NetTypes, Begins
  <2>4. NetTypes'
    BY <2>2, <1>s, <1>u, <1>w DEF NetTypes, registry, queue, acceptor, Sid, received
  <2>10. RegInv' BY <1>3, <2>1, <1>s, <1>u, <1>9, Threads, StartKeeps
  <2> QED BY <2>4, <2>10
<1>4. CASE UNCHANGED threads
  <2>1. phase' = phase /\ cur' = cur /\ todo' = todo BY <1>4, SamePhase DEF threads
  <2>4. NetTypes'
    BY <2>1, <1>s, <1>u, <1>w DEF NetTypes, registry, queue, acceptor, Sid, received
  <2>5. /\ ~reading[s] /\ s \notin sessions_ /\ <<s, "connected">> \notin sent
        /\ <<s, "closeed">> \notin sent /\ \A u \in Thread : Busy(u) => cur[u] # s
    BY <1>s DEF RegInv, Fresh, Working, Busy, Msgs
  <2>6. \A u \in Thread : /\ (Opening(u)' <=> Opening(u))
                        /\ (Opened(u)' <=> Opened(u)) /\ (Closing(u)' <=> Closing(u))
                        /\ (Ending(u)' <=> Ending(u)) /\ (Busy(u)' <=> Busy(u))
    BY <2>1 DEF Opening, Opened, Closing, Ending, Busy
  <2>7. LockHeld' BY <2>1, <1>u DEF RegInv, LockHeld, registry
  <2>8. Alone' BY <2>1, <2>6 DEF RegInv, Alone
  <2>9. Working'
    <3>1. \A u \in Thread : Busy(u) => socket'[cur[u]] = socket[cur[u]]
      BY <2>5, <1>w DEF RegInv, Alone
    <3> QED BY <3>1, <2>1, <2>6, <1>u DEF RegInv, Working, registry, Busy
  <2>10. socket'[s] # "closed" BY <1>1, <1>s DEF NetTypes
  <2>11. Registered'
    BY <1>2, <2>1, <2>5, <2>6, <2>10, <1>w, <1>u DEF RegInv, Registered, registry
  <2> QED BY <2>4, <2>7, <2>8, <2>9, <2>11, <1>9 DEF RegInv
<1> QED BY <1>1, <1>3, <1>4 DEF threads

(* The handlers of a session that do not start a callback: they may post    *)
(* its close while it reads, and enqueue a message.                         *)
LEMMA HandlerKeeps ==
    ASSUME NetTypes, RegInv, UNCHANGED <<acceptor, created, threads, registry>>,
           \A r \in Sid :
              /\ \/ socket'[r] = socket[r]
                 \/ socket[r] = "open" /\ reading[r] /\ socket'[r] = "close_posted"
              /\ reading'[r] => reading[r]
              /\ r \in parsing' => reading'[r]
              /\ socket[r] = "new" => reads'[r] = reads[r]
              /\ socket[r] = "new" => \A m \in Msgs : <<r, m>> \in sent' => <<r, m>> \in sent
              /\ \A m \in {"connected", "closeed"} : <<r, m>> \in sent' => <<r, m>> \in sent,
           parsing' \subseteq Sid
    PROVE  RegInv'
<1>1. phase' = phase /\ cur' = cur /\ todo' = todo BY SamePhase DEF threads
<1>6. \A u \in Thread : /\ (Opening(u)' <=> Opening(u))
                        /\ (Opened(u)' <=> Opened(u)) /\ (Closing(u)' <=> Closing(u))
                        /\ (Ending(u)' <=> Ending(u)) /\ (Busy(u)' <=> Busy(u))
  BY <1>1 DEF Opening, Opened, Closing, Ending, Busy
<1>7. LockHeld' BY <1>1 DEF RegInv, LockHeld, registry
<1>8. Alone' BY <1>1, <1>6 DEF RegInv, Alone
<1>9. Working'
  <2>1. ASSUME NEW u \in Thread, Busy(u)
        PROVE  socket'[cur[u]] = socket[cur[u]] /\ cur[u] \in Sid
               /\ (~reading[cur[u]] => ~reading'[cur[u]])
    BY <2>1 DEF RegInv, Alone, Working, Busy
  <2> QED BY <2>1, <1>1, <1>6 DEF RegInv, Working, registry, Busy
<1>10. Fresh'
  <2>1. \A r \in Sid : socket'[r] = "new" <=> socket[r] = "new" OBVIOUS
  <2>2. accepting' # NoSid => accepting' <= last_id' /\ socket'[accepting'] = "new"
    BY <2>1 DEF NetTypes, RegInv, Fresh, created, acceptor
  <2> QED BY <2>1, <2>2 DEF RegInv, Fresh, registry, created, acceptor
<1>11. Registered'
  <2>1. ASSUME NEW r \in Sid, socket[r] = "closed", r \in sessions_
        PROVE  \E u \in Thread : Closing(u)' /\ cur'[u] = r
    <3>1. PICK u \in Thread : Closing(u) /\ cur[u] = r BY <2>1 DEF RegInv, Registered
    <3> QED BY <3>1, <1>1, <1>6
  <2> QED BY <2>1 DEF RegInv, Registered, registry
<1> QED BY <1>7, <1>8, <1>9, <1>10, <1>11 DEF RegInv

LEMMA OnMessageKeeps ==
    ASSUME NetTypes, RegInv, NEW s \in Sid, OnMessage(s)
    PROVE  NetTypes' /\ RegInv'
<1> DEFINE pk == Packet(s, "message", reads[s] + 1)
<1>p. pk \in Packets /\ pk.sid = s /\ pk.msgid = "message"
  BY DEF Packet, Packets, NetTypes
<1>q. Enqueue(home[s], pk) /\ home[s] \in Thread
  BY Threads DEF OnMessage, Reader, NetTypes
<1> HIDE DEF pk
<1>2. /\ msg_queue_' \in [Thread -> Seq(Packets)] /\ dispatched' = dispatched
      /\ sent' \subseteq sent \cup {<<s, "message">>}
  BY <1>p, <1>q, EnqueueSends
<1>u. /\ UNCHANGED <<acceptor, created, threads, registry, socket, reading, parsing, before>>
      /\ reading[s] /\ socket[s] # "new"
      /\ reads' = [reads EXCEPT ![s] = @ + 1]
  BY DEF OnMessage, RegInv, Fresh
<1>4. NetTypes'
  <2>4. reads' \in [Sid -> Nat] BY <1>u DEF NetTypes
  <2> QED BY <2>4, <1>u, <1>2 DEF NetTypes, acceptor, created, threads, registry
<1>5. ASSUME NEW r \in Sid
      PROVE   /\ r \in parsing' => reading'[r]
              /\ socket[r] = "new" => reads'[r] = reads[r]
              /\ socket[r] = "new" => \A m \in Msgs : <<r, m>> \in sent' => <<r, m>> \in sent
              /\ \A m \in {"connected", "closeed"} : <<r, m>> \in sent' => <<r, m>> \in sent
  BY <1>u, <1>2 DEF NetTypes, RegInv, Fresh
<1>6. RegInv' BY <1>u, <1>5, HandlerKeeps DEF NetTypes
<1> QED BY <1>4, <1>6

LEMMA ParserKeeps ==
    ASSUME NetTypes, RegInv, NEW s \in Sid, Read(s) \/ Decoded(s)
    PROVE  NetTypes' /\ RegInv'
<1>2. sent' = sent BY SentSame DEF Read, Decoded
<1>u. /\ UNCHANGED <<acceptor, created, threads, registry, queue, reads>>
      /\ reading[s]
      /\ \/ /\ parsing' = parsing \cup {s} /\ UNCHANGED <<reading, socket>>
            /\ before' = [before EXCEPT ![s] = reads[s]]
         \/ /\ parsing' = parsing \ {s} /\ before' = before
            /\ reading' = [reading EXCEPT ![s] = socket[s] # "closed"]
            /\ \/ socket' = socket
               \/ socket[s] = "open" /\ socket' = [socket EXCEPT ![s] = "close_posted"]
  BY DEF Read, Decoded, RegInv, Fresh
<1>4. NetTypes'
  <2>1. socket' \in [Sid -> {"new", "open", "close_posted", "closed"}] BY <1>u DEF NetTypes
  <2>2. reading' \in [Sid -> BOOLEAN] BY <1>u DEF NetTypes
  <2>3. before' \in [Sid -> Nat] BY <1>u DEF NetTypes
  <2>4. parsing' \subseteq Sid BY <1>u DEF NetTypes
  <2> QED BY <2>1, <2>2, <2>3, <2>4, <1>u
       DEF NetTypes, acceptor, created, threads, registry, queue
<1>5. ASSUME NEW r \in Sid
      PROVE   /\ \/ socket'[r] = socket[r]
                 \/ socket[r] = "open" /\ reading[r] /\ socket'[r] = "close_posted"
              /\ reading'[r] => reading[r]
              /\ r \in parsing' => reading'[r]
  BY <1>u DEF NetTypes, RegInv, Fresh
<1>6. RegInv' BY <1>u, <1>2, <1>4, <1>5, HandlerKeeps DEF NetTypes
<1> QED BY <1>4, <1>6

LEMMA FailureKeeps ==
    ASSUME NetTypes, RegInv, NEW s \in Sid, ReadFails(s) \/ WriteFails(s)
    PROVE  NetTypes' /\ RegInv'
<1>2. sent' = sent BY SentSame DEF ReadFails, WriteFails
<1>u. /\ UNCHANGED <<acceptor, created, threads, registry, queue, received>>
      /\ reading[s] /\ s \notin parsing
      /\ reading' \in {reading, [reading EXCEPT ![s] = FALSE]}
      /\ socket' = [socket EXCEPT ![s] = IF @ = "open" THEN "close_posted" ELSE @]
  BY DEF ReadFails, WriteFails, Free, Reader
<1>4. NetTypes'
  <2>1. /\ socket' \in [Sid -> {"new", "open", "close_posted", "closed"}]
        /\ reading' \in [Sid -> BOOLEAN]
    BY <1>u DEF NetTypes
  <2> QED BY <2>1, <1>u DEF NetTypes, acceptor, created, threads, registry, queue, received
<1>5. ASSUME NEW r \in Sid
      PROVE   /\ \/ socket'[r] = socket[r]
                 \/ socket[r] = "open" /\ reading[r] /\ socket'[r] = "close_posted"
              /\ reading'[r] => reading[r]
              /\ r \in parsing' => reading'[r]
  BY <1>u DEF NetTypes, RegInv, Fresh, received
<1>6. RegInv' BY <1>u, <1>2, <1>4, <1>5, HandlerKeeps DEF NetTypes, received
<1> QED BY <1>4, <1>6

LEMMA UpdateKeeps ==
    ASSUME NetTypes, RegInv, NEW t \in Thread, Update(t)
    PROVE  NetTypes' /\ RegInv'
<1>2. sent' \subseteq sent BY UpdateSends
<1>u. UNCHANGED <<acceptor, created, threads, registry, session>> BY DEF Update
<1>3. msg_queue_' \in [Thread -> Seq(Packets)] /\ dispatched' \in [Sid -> Seq(Packets)]
  BY UpdateDispatches
<1>4. NetTypes'
  BY <1>3, <1>u DEF NetTypes, acceptor, created, threads, registry, session, received
<1>6. RegInv' BY <1>u, <1>2, HandlerKeeps DEF session, received, NetTypes, RegInv, Fresh
<1> QED BY <1>4, <1>6

LEMMA RunCloseKeeps ==
    ASSUME NetTypes, RegInv, NEW s \in Sid, RunClose(s)
    PROVE  NetTypes' /\ RegInv'
<1>t. PICK t \in Thread : t = home[s] BY Threads DEF NetTypes
<1>1. Begins(t, s, "close") BY <1>t, CallsBegin DEF RunClose, Free
<1>u. /\ UNCHANGED <<acceptor, created, reading, received, registry, queue>>
      /\ socket[s] = "close_posted" /\ socket' = [socket EXCEPT ![s] = "closed"]
  BY DEF RunClose
<1>2. sent' = sent BY SentSame, <1>u
<1>3. phase \in [Thread -> Phases] BY PhaseTypes
<1>c. cur' \in [Thread -> Sid \cup {NoSid}] /\ todo' \in [Thread -> Plans]
  BY <1>1 DEF NetTypes, Begins
<1>o. /\ socket'[s] = "closed" /\ \A r \in Sid : r # s => socket'[r] = socket[r]
      /\ socket' \in [Sid -> {"new", "open", "close_posted", "closed"}]
  BY <1>u DEF NetTypes
<1>4. NetTypes'
  BY <1>c, <1>o, <1>u DEF NetTypes, acceptor, created, registry, queue, received
<1>s. \A u \in Thread : Busy(u) => cur[u] # s
  BY <1>u DEF RegInv, Working, Busy
<1>7. /\ \A u \in Thread : u # t =>
                        /\ cur'[u] = cur[u] /\ (Opening(u)' <=> Opening(u))
                        /\ (Opened(u)' <=> Opened(u)) /\ (Closing(u)' <=> Closing(u))
                        /\ (Ending(u)' <=> Ending(u)) /\ (Busy(u)' <=> Busy(u))
      /\ Closing(t)' /\ ~Opened(t)' /\ ~Opening(t)' /\ ~Ending(t)' /\ ~Busy(t)
      /\ cur'[t] = s
  BY <1>1, <1>3, <1>t DEF NetTypes, Begins, Opening, Opened, Closing, Ending, Busy
<1>6. LockHeld'
  BY <1>1, <1>3, <1>t, <1>u DEF NetTypes, Begins, RegInv, LockHeld, registry
<1>8. Alone' BY <1>7, <1>s DEF RegInv, Alone
<1>9. Fresh' BY <1>2, <1>o, <1>u DEF RegInv, Fresh, acceptor, created, registry, received
<1>10. Working'
  <2>1. ASSUME NEW u \in Thread, u # t, Busy(u)
        PROVE  cur[u] \in Sid /\ cur[u] # s /\ cur'[u] = cur[u] /\ socket'[cur[u]] = socket[cur[u]]
    BY <2>1, <1>7, <1>s, <1>o DEF RegInv, Alone
  <2> QED BY <2>1, <1>7, <1>s, <1>o, <1>u DEF RegInv, Working, registry, Busy
<1>11. Registered'
  <2>1. /\ <<s, "closeed">> \notin sent
        /\ \A r \in Sid : reading[r] /\ socket'[r] # "closed" => r \in sessions_
    BY <1>u, <1>o DEF RegInv, Registered
  <2>3. ASSUME NEW r \in Sid, socket'[r] = "closed", r \in sessions_
        PROVE  \E u \in Thread : Closing(u)' /\ cur'[u] = r
    <3>1. CASE r = s BY <3>1, <1>7, <1>t
    <3>2. CASE r # s
      <4>1. PICK u \in Thread : Closing(u) /\ cur[u] = r
        BY <2>3, <3>2, <1>o DEF RegInv, Registered
      <4>2. u # t BY <4>1, <1>7 DEF Busy
      <4> QED BY <4>1, <4>2, <1>7
    <3> QED BY <3>1, <3>2
  <2> QED BY <1>2, <2>1, <2>3, <1>o, <1>u DEF RegInv, Registered, registry
<1> QED BY <1>4, <1>6, <1>8, <1>9, <1>10, <1>11 DEF RegInv

-----------------------------------------------------------------------------
LEMMA RegInit == ASSUME Init PROVE NetTypes /\ RegInv
<1>1. NetTypes
  BY Threads, ConstantsAssumption DEF Init, NetTypes, Plans, Sid
<1>2. phase = [t \in Thread |-> "idle"] BY DEF phase, PhaseOf, Init
<1>3. sent = {} BY DEF sent, Init, Thread
<1>4. Alone /\ LockHeld /\ Working
  BY <1>2 DEF Alone, LockHeld, Working, Busy, Opening, Opened, Closing, Ending
<1>5. Fresh /\ Registered
  BY <1>3 DEF Init, Fresh, Registered
<1> QED BY <1>1, <1>4, <1>5 DEF RegInv

LEMMA RegNext == ASSUME NetTypes, RegInv, [Next]_vars PROVE NetTypes' /\ RegInv'
<1>1. ASSUME NEW t \in Thread, Callback(t) PROVE NetTypes' /\ RegInv'
  BY <1>1, LockKeeps, InsertKeeps, EraseKeeps, EnqueueConnectedKeeps, EnqueueCloseedKeeps,
     DoRecvKeeps, DoAcceptKeeps DEF Callback
<1>2. CASE UNCHANGED vars
  <2>1. NetTypes' BY <1>2 DEF NetTypes, vars, acceptor, created, session, received, threads, registry, queue
  <2>2. sent' = sent BY <1>2, SentSame DEF vars
  <2>3. RegInv' BY <1>2, <2>2, HandlerKeeps DEF vars, session, received, NetTypes, RegInv, Fresh
  <2> QED BY <2>1, <2>3
<1> QED BY <1>1, <1>2, ListenKeeps, AcceptedKeeps, ListenerKeeps, ConnectKeeps, UpdateKeeps,
           OnMessageKeeps, ParserKeeps, FailureKeeps, RunCloseKeeps DEF Next

(* A session whose close is under way still has its erase to do.            *)
LEMMA ErasePending ==
    ASSUME NetTypes, NEW t \in Thread, Closing(t)
    PROVE  Contains(todo[t], "erase")
<1>1. todo[t] \in Plans /\ PhaseOf(todo[t]) \in {"close", "erase"}
  BY DEF NetTypes, Closing, phase
<1>2. todo[t] \in {OnClose, <<"erase", "enqueue_closeed">>}
  BY <1>1, Callbacks DEF Plans, PhaseOf
<1>3. \E i \in 1..Len(todo[t]) : todo[t][i] = "erase"
  BY <1>2 DEF OnClose
<1> QED BY <1>3 DEF Contains

LEMMA RegMatches == ASSUME NetTypes, RegInv PROVE SessionsMatch
<1> SUFFICES ASSUME NEW s \in Sid
    PROVE  /\ socket[s] \in {"open", "close_posted"} /\ reading[s] => s \in sessions_
           /\ socket[s] = "closed" /\ ~Pending(s, "erase") => s \notin sessions_
           /\ At(s, "closeed") # {} => s \notin sessions_
           /\ At(s, "connected") # {} /\ socket[s] # "closed" => s \in sessions_
  BY DEF SessionsMatch
<1>1. ASSUME NEW m \in Msgs, At(s, m) # {} PROVE <<s, m>> \in sent
  <2>1. DOMAIN dispatched[s] = 1..Len(dispatched[s]) BY LenProperties DEF NetTypes
  <2> QED BY <1>1, <2>1 DEF At, sent
<1>2. socket[s] = "closed" /\ s \in sessions_ => Pending(s, "erase")
  <2>1. SUFFICES ASSUME socket[s] = "closed", s \in sessions_ PROVE Pending(s, "erase")
    OBVIOUS
  <2>2. PICK t \in Thread : Closing(t) /\ cur[t] = s
    BY <2>1 DEF RegInv, Registered
  <2> QED BY <2>2, ErasePending DEF Pending
<1> QED BY <1>1, <1>2 DEF RegInv, Registered, Msgs

(* The map of the server agrees with the sessions and with what the         *)
(* application is told of them (server_base::on_connect, on_close): for any *)
(* number of sessions that any number of threads start and close at once.   *)
THEOREM SessionsMatchHolds == Safety => []SessionsMatch
<1>1. Init => NetTypes /\ RegInv BY RegInit
<1>2. NetTypes /\ RegInv /\ [Next]_vars => (NetTypes /\ RegInv)' BY RegNext
<1>3. NetTypes /\ RegInv => SessionsMatch BY RegMatches
<1> QED BY <1>1, <1>2, <1>3, PTL DEF Safety

-----------------------------------------------------------------------------
(* The order of the packets: the invariant behind OrderPerSession.          *)

(* Packet a may come before packet b of a session.                          *)
InOrder(a, b) ==
    b.msgid = "message" /\ a.msgid \in {"message", "closeed"} => a.n < b.n

(* "closeed" may have been enqueued when n messages had been handed over:   *)
(* at least those before the last read, and no other is to be read.         *)
Fits(s, n) ==
    /\ before[s] <= n /\ n <= reads[s]
    /\ reading[s] /\ s \notin parsing => n = reads[s]
Still(s) == \A n \in Nat : Fits(s, n) => Fits(s, n)'

Counted(s, p) ==
    /\ p.msgid = "message" => p.n <= reads[s]
    /\ p.msgid = "closeed" => Fits(s, p.n)

(* What a session's own thread enqueues is in its queue, and of an accepted *)
(* session "connected" is in the queue of thread 0.                         *)
Kept == \A t \in Thread : \A i \in 1..Len(msg_queue_[t]) : LET p == msg_queue_[t][i] IN
    /\ p.msgid # "connected" => t = home[p.sid]
    /\ p.msgid = "connected" /\ p.sid \in accepted => t = 0
    /\ Counted(p.sid, p)

Given == \A s \in Sid : \A i \in 1..Len(dispatched[s]) : LET p == dispatched[s][i] IN
    p.sid = s /\ Counted(s, p)

(* What was dispatched, and after it what waits, is in order.               *)
Ordered == \A s \in Sid : LET d == dispatched[s] q == msg_queue_[home[s]] IN
    /\ \A i, j \in 1..Len(d) : i < j => InOrder(d[i], d[j])
    /\ \A i \in 1..Len(d), j \in 1..Len(q) :
          q[j].sid = s => InOrder(d[i], q[j])
    /\ \A i, j \in 1..Len(q) :
          i < j /\ q[i].sid = s /\ q[j].sid = s => InOrder(q[i], q[j])

(* Callbacks run where they should.                                         *)
HomeWork == \A t \in Thread :
    /\ Closing(t) \/ Ending(t) => t = home[cur[t]]
    /\ Opening(t) \/ Opened(t) => (cur[t] \in accepted => t = 0)

(* A session accepted on its own thread has enqueued "connected" before it  *)
(* goes on.                                                                 *)
GoneOn(s) == \/ socket[s] \in {"close_posted", "closed"} \/ reading[s]
             \/ \E t \in Thread : cur[t] = s /\ phase[t] = "do_recv"
ToldIn(q, s, k) == \E i \in 1..Len(q) : i < k /\ q[i].sid = s /\ q[i].msgid = "connected"
ToldFirst == \A s \in accepted : home[s] = 0 => LET d == dispatched[s] q == msg_queue_[0] IN
    /\ Len(d) > 0 => d[1].msgid = "connected"
    /\ \A k \in 1..Len(q) : q[k].sid = s /\ q[k].msgid # "connected" =>
          Len(d) > 0 \/ ToldIn(q, s, k)
    /\ GoneOn(s) => Len(d) > 0 \/ ToldIn(q, s, Len(q) + 1)

Bounded == \A s \in Sid : before[s] <= reads[s]

OrdInv == Bounded /\ Kept /\ Given /\ Ordered /\ HomeWork /\ ToldFirst

LEMMA PacketsSent ==
    ASSUME NetTypes, RegInv
    PROVE  /\ \A t \in Thread : Len(msg_queue_[t]) \in Nat /\ \A i \in 1..Len(msg_queue_[t]) :
                /\ msg_queue_[t][i] \in Packets
                /\ <<msg_queue_[t][i].sid, msg_queue_[t][i].msgid>> \in sent
                /\ msg_queue_[t][i].sid \in Sid
                /\ socket[msg_queue_[t][i].sid] # "new"
           /\ \A s \in Sid : Len(dispatched[s]) \in Nat /\ \A i \in 1..Len(dispatched[s]) :
                /\ dispatched[s][i] \in Packets
                /\ <<s, dispatched[s][i].msgid>> \in sent /\ socket[s] # "new"
<1>1. \A x \in sent : socket[x[1]] # "new"
  BY DEF RegInv, Fresh, sent
<1>2. ASSUME NEW t \in Thread, NEW i \in 1..Len(msg_queue_[t])
      PROVE  /\ msg_queue_[t][i] \in Packets
             /\ <<msg_queue_[t][i].sid, msg_queue_[t][i].msgid>> \in sent
             /\ msg_queue_[t][i].sid \in Sid
             /\ socket[msg_queue_[t][i].sid] # "new"
  <2>1. msg_queue_[t] \in Seq(Packets) BY DEF NetTypes
  <2>2. msg_queue_[t][i] \in Packets BY <2>1, ElementOfSeq
  <2>3. msg_queue_[t][i].sid \in Sid /\ msg_queue_[t][i].msgid \in Msgs
    BY <2>2 DEF Packets, Msgs
  <2>4. <<msg_queue_[t][i].sid, msg_queue_[t][i].msgid>> \in sent
    BY <2>3 DEF sent
  <2> QED BY <2>2, <2>3, <2>4, <1>1
<1>3. ASSUME NEW s \in Sid, NEW i \in 1..Len(dispatched[s])
      PROVE  /\ dispatched[s][i] \in Packets
             /\ <<s, dispatched[s][i].msgid>> \in sent /\ socket[s] # "new"
  <2>1. dispatched[s] \in Seq(Packets) BY DEF NetTypes
  <2>2. dispatched[s][i] \in Packets BY <2>1, ElementOfSeq
  <2>3. dispatched[s][i].msgid \in Msgs BY <2>2 DEF Packets, Msgs
  <2>4. <<s, dispatched[s][i].msgid>> \in sent
    BY <2>3 DEF sent
  <2> QED BY <2>2, <2>4, <1>1
<1>4. /\ \A t \in Thread : Len(msg_queue_[t]) \in Nat
      /\ \A s \in Sid : Len(dispatched[s]) \in Nat
  BY LenProperties DEF NetTypes
<1> QED BY <1>2, <1>3, <1>4

(* What is right for the packets that are there stays right.                *)
LEMMA CountedStays ==
    ASSUME NetTypes, NEW s \in Sid, NEW p \in Packets, <<s, p.msgid>> \in sent,
           reads'[s] \in Nat, reads'[s] >= reads[s],
           <<s, "closeed">> \in sent => Still(s), Counted(s, p)
    PROVE  Counted(s, p)'
<1>1. p.n \in Nat /\ reads[s] \in Nat BY DEF Packets, NetTypes
<1>2. p.msgid = "closeed" => Fits(s, p.n)' BY <1>1 DEF Counted, Still
<1>3. p.msgid = "message" => p.n <= reads'[s] BY <1>1 DEF Counted
<1> QED BY <1>2, <1>3 DEF Counted

(* Steps that leave the packets alone.                                      *)
LEMMA QuietOrder ==
    ASSUME NetTypes, RegInv, Kept, Given, Ordered, UNCHANGED queue,
           \A r \in Sid : socket[r] # "new" =>
              /\ home'[r] = home[r] /\ reads'[r] = reads[r]
              /\ r \in accepted' => r \in accepted
              /\ <<r, "closeed">> \in sent => Still(r),
           home' \in [Sid -> IoThread]
    PROVE  Kept' /\ Given' /\ Ordered'
<1>u. msg_queue_' = msg_queue_ /\ dispatched' = dispatched BY DEF queue
<1>r. \A s \in Sid : reads[s] \in Nat BY DEF NetTypes
<1>1. Kept'
  <2>1. ASSUME NEW t \in Thread, NEW i \in 1..Len(msg_queue_[t]), NEW p, p = msg_queue_[t][i]
        PROVE  /\ p.msgid # "connected" => t = home'[p.sid]
               /\ p.msgid = "connected" /\ p.sid \in accepted' => t = 0
               /\ Counted(p.sid, p)'
    <3>1. /\ p \in Packets /\ <<p.sid, p.msgid>> \in sent /\ p.sid \in Sid
          /\ socket[p.sid] # "new"
      BY <2>1, PacketsSent
    <3>2. /\ p.msgid # "connected" => t = home[p.sid]
          /\ p.msgid = "connected" /\ p.sid \in accepted => t = 0
          /\ Counted(p.sid, p)
      BY <2>1 DEF Kept
    <3>3. /\ home'[p.sid] = home[p.sid] /\ reads'[p.sid] = reads[p.sid]
          /\ p.sid \in accepted' => p.sid \in accepted
          /\ <<p.sid, "closeed">> \in sent => Still(p.sid)
      BY <3>1
    <3>4. reads'[p.sid] \in Nat /\ reads'[p.sid] >= reads[p.sid] BY <3>1, <3>3, <1>r
    <3>5. Counted(p.sid, p)' BY <3>1, <3>2, <3>3, <3>4, CountedStays
    <3> QED BY <3>2, <3>3, <3>5
  <2> QED BY <2>1, <1>u DEF Kept
<1>2. Given'
  <2>1. ASSUME NEW s \in Sid, NEW i \in 1..Len(dispatched[s]), NEW p, p = dispatched[s][i]
        PROVE  p.sid = s /\ Counted(s, p)'
    <3>1. p \in Packets /\ <<s, p.msgid>> \in sent /\ socket[s] # "new"
      BY <2>1, PacketsSent
    <3>2. p.sid = s /\ Counted(s, p) BY <2>1 DEF Given
    <3>a. reads'[s] = reads[s] /\ reads[s] \in Nat BY <3>1, <1>r
    <3>3. reads'[s] \in Nat /\ reads'[s] >= reads[s] BY <3>a
    <3>4. <<s, "closeed">> \in sent => Still(s) BY <3>1
    <3>5. Counted(s, p)' BY <3>1, <3>2, <3>3, <3>4, CountedStays
    <3> QED BY <3>2, <3>5
  <2> QED BY <2>1, <1>u DEF Given
<1>3. ASSUME NEW s \in Sid PROVE
        LET d == dispatched[s] q == msg_queue_[home'[s]] IN
        /\ \A i, j \in 1..Len(d) : i < j => InOrder(d[i], d[j])
        /\ \A i \in 1..Len(d), j \in 1..Len(q) : q[j].sid = s => InOrder(d[i], q[j])
        /\ \A i, j \in 1..Len(q) :
              i < j /\ q[i].sid = s /\ q[j].sid = s => InOrder(q[i], q[j])
  <2>1. CASE socket[s] = "new"
    <3>1. \A t \in Thread : \A i \in 1..Len(msg_queue_[t]) : msg_queue_[t][i].sid # s
      BY <2>1, PacketsSent
    <3>2. \A i \in 1..Len(dispatched[s]) : FALSE BY <2>1, PacketsSent
    <3>3. home'[s] \in Thread BY Threads
    <3> QED BY <3>1, <3>2, <3>3
  <2>2. CASE socket[s] # "new"
    BY <2>2 DEF Ordered
  <2> QED BY <2>1, <2>2
<1>4. Ordered' BY <1>3, <1>u DEF Ordered
<1> QED BY <1>1, <1>2, <1>4

(* A packet is enqueued: a message comes after all that was received.       *)
LEMMA AppendOrder ==
    ASSUME NetTypes, RegInv, Kept, Given, Ordered, NEW t \in Thread, NEW pk \in Packets,
           Enqueue(t, pk), UNCHANGED <<home, accepted>>,
           pk.msgid # "connected" => t = home[pk.sid],
           pk.msgid = "connected" /\ pk.sid \in accepted => t = 0,
           \A r \in Sid : /\ reads'[r] \in Nat /\ reads'[r] >= reads[r]
                          /\ <<r, "closeed">> \in sent => Still(r),
           pk.msgid = "message" => pk.n = reads'[pk.sid] /\ pk.n > reads[pk.sid],
           pk.msgid = "closeed" => Fits(pk.sid, pk.n)'
    PROVE  Kept' /\ Given' /\ Ordered'
<1>p. pk.sid \in Sid /\ pk.n \in Nat BY DEF Packets
<1>0. /\ dispatched' = dispatched /\ msg_queue_'[t] = Append(msg_queue_[t], pk)
      /\ \A u \in Thread : u # t => msg_queue_'[u] = msg_queue_[u]
  BY DEF Enqueue, NetTypes
<1>q. /\ Len(msg_queue_[t]) \in Nat /\ Len(msg_queue_'[t]) = Len(msg_queue_[t]) + 1
      /\ msg_queue_'[t][Len(msg_queue_[t]) + 1] = pk
      /\ \A i \in 1..Len(msg_queue_[t]) : msg_queue_'[t][i] = msg_queue_[t][i]
  <2>1. msg_queue_[t] \in Seq(Packets) BY DEF NetTypes
  <2> QED BY <2>1, <1>0, AppendProperties, LenProperties
<1>r. \A r \in Sid : reads[r] \in Nat BY DEF NetTypes
<1>i. ASSUME NEW u \in Thread, NEW i \in 1..Len(msg_queue_'[u])
      PROVE  \/ i \in 1..Len(msg_queue_[u]) /\ msg_queue_'[u][i] = msg_queue_[u][i]
             \/ u = t /\ i = Len(msg_queue_[t]) + 1 /\ msg_queue_'[u][i] = pk
  BY <1>0, <1>q, SMTT(30)
<1>n. Counted(pk.sid, pk)' BY <1>p DEF Counted
<1>1. Kept'
  <2>1. ASSUME NEW u \in Thread, NEW i \in 1..Len(msg_queue_'[u]),
               NEW x, x = msg_queue_'[u][i]
        PROVE  /\ x.msgid # "connected" => u = home[x.sid]
               /\ x.msgid = "connected" /\ x.sid \in accepted => u = 0
               /\ Counted(x.sid, x)'
    <3>1. CASE i \in 1..Len(msg_queue_[u]) /\ x = msg_queue_[u][i]
      <4>1. x \in Packets /\ x.sid \in Sid /\ <<x.sid, x.msgid>> \in sent
        BY <3>1, PacketsSent DEF Packets
      <4>2. /\ x.msgid # "connected" => u = home[x.sid]
            /\ x.msgid = "connected" /\ x.sid \in accepted => u = 0
            /\ Counted(x.sid, x)
        BY <3>1 DEF Kept
      <4>3. Counted(x.sid, x)' BY <4>1, <4>2, CountedStays
      <4> QED BY <4>2, <4>3
    <3>2. CASE u = t /\ x = pk
      BY <3>2, <1>n
    <3> QED BY <3>1, <3>2, <2>1, <1>i
  <2> QED BY <2>1 DEF Kept
<1>2. Given'
  <2>1. ASSUME NEW s \in Sid, NEW i \in 1..Len(dispatched[s]), NEW p, p = dispatched[s][i]
        PROVE  p.sid = s /\ Counted(s, p)'
    <3>1. p \in Packets /\ <<s, p.msgid>> \in sent BY <2>1, PacketsSent
    <3>2. p.sid = s /\ Counted(s, p) BY <2>1 DEF Given
    <3>3. Counted(s, p)' BY <3>1, <3>2, CountedStays
    <3> QED BY <3>2, <3>3
  <2> QED BY <2>1, <1>0 DEF Given
<1>3. ASSUME NEW s \in Sid PROVE
        LET d == dispatched[s] q == msg_queue_'[home[s]] IN
        /\ \A i, j \in 1..Len(d) : i < j => InOrder(d[i], d[j])
        /\ \A i \in 1..Len(d), j \in 1..Len(q) :
              q[j].sid = s => InOrder(d[i], q[j])
        /\ \A i, j \in 1..Len(q) :
              i < j /\ q[i].sid = s /\ q[j].sid = s => InOrder(q[i], q[j])
  <2> DEFINE d == dispatched[s]
             q == msg_queue_[home[s]]
             e == msg_queue_'[home[s]]
  <2>h. home[s] \in Thread BY Threads DEF NetTypes
  <2>2. \A i \in 1..Len(d) : d[i] \in Packets /\ Counted(s, d[i])
    BY PacketsSent DEF Given
  <2>3. \A i \in 1..Len(q) : q[i].sid = s => q[i] \in Packets /\ Counted(s, q[i])
    BY <2>h, PacketsSent DEF Kept
  <2>4. ASSUME NEW a \in Packets, pk.sid = s, Counted(s, a)
        PROVE  InOrder(a, pk)
    <3>1. a.msgid \in {"message", "closeed"} => a.n <= reads[s]
      BY <2>4 DEF Counted, Fits
    <3>2. a.n \in Nat /\ reads[s] \in Nat BY <1>r DEF Packets
    <3> QED BY <3>1, <3>2, <2>4, <1>p DEF InOrder
  <2>7. /\ \A i, j \in 1..Len(d) : i < j => InOrder(d[i], d[j])
        /\ \A i \in 1..Len(d), j \in 1..Len(q) :
              q[j].sid = s => InOrder(d[i], q[j])
        /\ \A i, j \in 1..Len(q) :
              i < j /\ q[i].sid = s /\ q[j].sid = s => InOrder(q[i], q[j])
    BY DEF Ordered
  <2>8. \A i \in 1..Len(e) : \/ i \in 1..Len(q) /\ e[i] = q[i]
                             \/ i = Len(q) + 1 /\ e[i] = pk
    BY <2>h, <1>i
  <2>n. Len(q) \in Nat BY <2>h, PacketsSent
  <2> HIDE DEF d, q, e
  <2>9. \A i, j \in 1..Len(d) : i < j => InOrder(d[i], d[j])
    BY <2>7
  <2>10. ASSUME NEW i \in 1..Len(d), NEW j \in 1..Len(e), e[j].sid = s
         PROVE  InOrder(d[i], e[j])
    BY <2>10, <2>7, <2>8, <2>2, <2>4
  <2>11. ASSUME NEW i \in 1..Len(e), NEW j \in 1..Len(e), i < j, e[i].sid = s, e[j].sid = s
         PROVE  InOrder(e[i], e[j])
    <3>1. i \in 1..Len(q) /\ e[i] = q[i] BY <2>11, <2>8, <2>n
    <3>2. CASE j \in 1..Len(q) /\ e[j] = q[j] BY <3>1, <3>2, <2>7, <2>11
    <3>3. CASE e[j] = pk BY <3>1, <3>3, <2>3, <2>4, <2>11
    <3> QED BY <3>2, <3>3, <2>8
  <2> QED BY <2>9, <2>10, <2>11 DEF d, e
<1>4. Ordered' BY <1>3, <1>0 DEF Ordered
<1> QED BY <1>1, <1>2, <1>4

(* update() moves the head of a queue to what was dispatched.               *)
LEMMA UpdateOrder ==
    ASSUME NetTypes, RegInv, Kept, Given, Ordered, NEW t \in Thread, Update(t)
    PROVE  Kept' /\ Given' /\ Ordered'
<1>0. Dispatches(t) /\ UNCHANGED <<home, reads, before, parsing, reading, accepted>>
  BY UpdateDispatches DEF Update, created, session, received, acceptor
<1> DEFINE h == msg_queue_[t][1]
<1>h. /\ Len(msg_queue_[t]) \in Nat /\ 1 \in 1..Len(msg_queue_[t])
      /\ h \in Packets /\ h.sid \in Sid
  <2>1. Len(msg_queue_[t]) \in Nat BY PacketsSent
  <2>2. Len(msg_queue_[t]) > 0 /\ h \in Packets BY <1>0 DEF Dispatches
  <2> QED BY <2>1, <2>2 DEF Packets
<1>q. ASSUME NEW u \in Thread, NEW i \in 1..Len(msg_queue_'[u])
      PROVE  \/ u # t /\ i \in 1..Len(msg_queue_[u]) /\ msg_queue_'[u][i] = msg_queue_[u][i]
             \/ /\ u = t /\ i + 1 \in 1..Len(msg_queue_[u])
                /\ msg_queue_'[u][i] = msg_queue_[u][i + 1]
  BY <1>0, <1>h DEF Dispatches
<1>d. ASSUME NEW s \in Sid, NEW i \in 1..Len(dispatched'[s])
      PROVE  \/ i \in 1..Len(dispatched[s]) /\ dispatched'[s][i] = dispatched[s][i]
             \/ s = h.sid /\ i = Len(dispatched[s]) + 1 /\ dispatched'[s][i] = h
  <2>1. Len(dispatched[s]) \in Nat BY PacketsSent
  <2>2. s # h.sid => dispatched'[s] = dispatched[s] BY <1>0 DEF Dispatches
  <2>3. s = h.sid => /\ Len(dispatched'[s]) = Len(dispatched[s]) + 1
                     /\ dispatched'[s][Len(dispatched[s]) + 1] = h
                     /\ \A k \in 1..Len(dispatched[s]) : dispatched'[s][k] = dispatched[s][k]
    BY <1>0 DEF Dispatches
  <2> HIDE DEF h
  <2> QED BY <2>1, <2>2, <2>3
<1> HIDE DEF h
<1>c. \A s, p : Counted(s, p)' <=> Counted(s, p)
  BY <1>0 DEF Counted, Fits
<1>1. Kept'
  <2>1. ASSUME NEW u \in Thread, NEW i \in 1..Len(msg_queue_'[u]),
               NEW x, x = msg_queue_'[u][i]
        PROVE  /\ x.msgid # "connected" => u = home[x.sid]
               /\ x.msgid = "connected" /\ x.sid \in accepted => u = 0
               /\ Counted(x.sid, x)'
    <3>1. PICK j \in 1..Len(msg_queue_[u]) : x = msg_queue_[u][j] BY <2>1, <1>q
    <3> QED BY <3>1, <1>c DEF Kept
  <2> QED BY <2>1, <1>0 DEF Kept
<1>2. Given'
  <2>1. ASSUME NEW s \in Sid, NEW i \in 1..Len(dispatched'[s]), NEW x, x = dispatched'[s][i]
        PROVE  x.sid = s /\ Counted(s, x)'
    <3>1. Counted(h.sid, h) BY <1>h DEF h, Kept
    <3>2. CASE x = h /\ h.sid = s BY <3>1, <3>2, <1>c
    <3>3. CASE i \in 1..Len(dispatched[s]) /\ x = dispatched[s][i]
      BY <3>3, <1>c DEF Given
    <3> QED BY <3>2, <3>3, <2>1, <1>d
  <2> QED BY <2>1 DEF Given
<1>3. ASSUME NEW s \in Sid PROVE
        LET d == dispatched'[s] q == msg_queue_'[home[s]] IN
        /\ \A i, j \in 1..Len(d) : i < j => InOrder(d[i], d[j])
        /\ \A i \in 1..Len(d), j \in 1..Len(q) :
              q[j].sid = s => InOrder(d[i], q[j])
        /\ \A i, j \in 1..Len(q) :
              i < j /\ q[i].sid = s /\ q[j].sid = s => InOrder(q[i], q[j])
  <2> DEFINE d == dispatched[s]
             dd == dispatched'[s]
             q == msg_queue_[home[s]]
             e == msg_queue_'[home[s]]
  <2>h. home[s] \in Thread BY Threads DEF NetTypes
  <2>n. Len(q) \in Nat /\ Len(d) \in Nat BY <2>h, PacketsSent
  <2>7. /\ \A i, j \in 1..Len(d) : i < j => InOrder(d[i], d[j])
        /\ \A i \in 1..Len(d), j \in 1..Len(q) :
              q[j].sid = s => InOrder(d[i], q[j])
        /\ \A i, j \in 1..Len(q) :
              i < j /\ q[i].sid = s /\ q[j].sid = s => InOrder(q[i], q[j])
    BY DEF Ordered
  <2>8. \A i \in 1..Len(e) : \/ home[s] # t /\ i \in 1..Len(q) /\ e[i] = q[i]
                             \/ home[s] = t /\ i + 1 \in 1..Len(q) /\ e[i] = q[i + 1]
    BY <2>h, <1>q
  <2>9. \A i \in 1..Len(dd) : \/ i \in 1..Len(d) /\ dd[i] = d[i]
                              \/ s = h.sid /\ i = Len(d) + 1 /\ dd[i] = h
    BY <1>d
  <2>10. home[s] = t => h = q[1] /\ 1 \in 1..Len(q) BY <1>h DEF h
  <2>11. home[s] # t /\ s = h.sid => h.msgid = "connected"
    BY <1>h DEF h, Kept
  <2>12. ASSUME NEW a, NEW b, a.msgid = "connected" \/ b.msgid = "connected"
         PROVE  InOrder(a, b)
    BY <2>12 DEF InOrder
  <2> HIDE DEF d, q, e, dd
  <2>13. ASSUME NEW i \in 1..Len(dd), NEW j \in 1..Len(dd), i < j
         PROVE  InOrder(dd[i], dd[j])
    <3>1. i \in 1..Len(d) /\ dd[i] = d[i] BY <2>13, <2>9, <2>n
    <3>2. CASE j \in 1..Len(d) /\ dd[j] = d[j] BY <3>1, <3>2, <2>7, <2>13
    <3>3. CASE s = h.sid /\ dd[j] = h
      BY <3>1, <3>3, <2>7, <2>10, <2>11, <2>12
    <3> QED BY <3>2, <3>3, <2>9
  <2>14. ASSUME NEW i \in 1..Len(dd), NEW j \in 1..Len(e), e[j].sid = s
         PROVE  InOrder(dd[i], e[j])
    <3>1. CASE i \in 1..Len(d) /\ dd[i] = d[i]
      BY <3>1, <2>14, <2>8, <2>7
    <3>2. CASE s = h.sid /\ dd[i] = h /\ home[s] # t
      BY <3>2, <2>11, <2>12
    <3>3. CASE s = h.sid /\ dd[i] = h /\ home[s] = t
      <4>1. j + 1 \in 1..Len(q) /\ e[j] = q[j + 1] /\ 1 < j + 1 BY <3>3, <2>8, <2>n
      <4> QED BY <4>1, <3>3, <2>7, <2>10, <2>14
    <3> QED BY <3>1, <3>2, <3>3, <2>9
  <2>15. ASSUME NEW i \in 1..Len(e), NEW j \in 1..Len(e), i < j, e[i].sid = s, e[j].sid = s
         PROVE  InOrder(e[i], e[j])
    <3>1. CASE home[s] # t BY <3>1, <2>15, <2>8, <2>7
    <3>2. CASE home[s] = t
      <4>1. /\ i + 1 \in 1..Len(q) /\ e[i] = q[i + 1] /\ j + 1 \in 1..Len(q)
            /\ e[j] = q[j + 1] /\ i + 1 < j + 1
        BY <3>2, <2>8, <2>15
      <4> QED BY <4>1, <2>15, <2>7
    <3> QED BY <3>1, <3>2
  <2> QED BY <2>13, <2>14, <2>15 DEF dd, e
<1>4. Ordered' BY <1>3, <1>0 DEF Ordered
<1> QED BY <1>1, <1>2, <1>4

-----------------------------------------------------------------------------
(* "connected" first, of a session accepted on its own thread.              *)

LEMMA QuietTold ==
    ASSUME NetTypes, RegInv, ToldFirst, UNCHANGED queue, accepted' \subseteq Sid,
           \A r \in accepted' : home'[r] = 0 =>
              \/ r \in accepted /\ home[r] = 0 /\ (GoneOn(r)' => GoneOn(r))
              \/ socket[r] = "new" /\ ~GoneOn(r)'
    PROVE  ToldFirst'
<1>u. msg_queue_' = msg_queue_ /\ dispatched' = dispatched BY DEF queue
<1>0. 0 \in Thread BY Threads
<1>1. ASSUME NEW s \in accepted', home'[s] = 0
      PROVE  LET d == dispatched[s] q == msg_queue_[0] IN
             /\ Len(d) > 0 => d[1].msgid = "connected"
             /\ \A k \in 1..Len(q) : q[k].sid = s /\ q[k].msgid # "connected" =>
                   Len(d) > 0 \/ ToldIn(q, s, k)
             /\ GoneOn(s)' => Len(d) > 0 \/ ToldIn(q, s, Len(q) + 1)
  <2>1. CASE s \in accepted /\ home[s] = 0 /\ (GoneOn(s)' => GoneOn(s))
    BY <2>1 DEF ToldFirst
  <2>2. CASE socket[s] = "new" /\ ~GoneOn(s)'
    <3>1. s \in Sid OBVIOUS
    <3>2. \A k \in 1..Len(msg_queue_[0]) : msg_queue_[0][k].sid # s
      BY <2>2, <1>0, PacketsSent
    <3>3. Len(dispatched[s]) \in Nat /\ 1 \notin 1..Len(dispatched[s])
      BY <2>2, <3>1, PacketsSent
    <3> QED BY <2>2, <3>2, <3>3
  <2> QED BY <2>1, <2>2, <1>1
<1> QED BY <1>1, <1>u DEF ToldFirst

LEMMA AppendTold ==
    ASSUME NetTypes, RegInv, ToldFirst, NEW t \in Thread, NEW pk \in Packets,
           Enqueue(t, pk), UNCHANGED <<home, accepted>>,
           \A r \in accepted : home[r] = 0 /\ GoneOn(r)' =>
              GoneOn(r) \/ (t = 0 /\ pk.sid = r /\ pk.msgid = "connected"),
           t = 0 /\ pk.sid \in accepted /\ home[pk.sid] = 0 /\ pk.msgid # "connected" =>
              GoneOn(pk.sid)
    PROVE  ToldFirst'
<1>0. /\ dispatched' = dispatched /\ msg_queue_'[t] = Append(msg_queue_[t], pk)
      /\ \A u \in Thread : u # t => msg_queue_'[u] = msg_queue_[u]
  BY DEF Enqueue, NetTypes
<1>q. /\ Len(msg_queue_[t]) \in Nat /\ Len(msg_queue_'[t]) = Len(msg_queue_[t]) + 1
      /\ msg_queue_'[t][Len(msg_queue_[t]) + 1] = pk
      /\ \A i \in 1..Len(msg_queue_[t]) : msg_queue_'[t][i] = msg_queue_[t][i]
  <2>1. msg_queue_[t] \in Seq(Packets) BY DEF NetTypes
  <2> QED BY <2>1, <1>0, AppendProperties, LenProperties
<1>z. 0 \in Thread BY Threads
<1>1. ASSUME NEW s \in accepted, home[s] = 0
      PROVE  LET d == dispatched[s] q == msg_queue_'[0] IN
             /\ Len(d) > 0 => d[1].msgid = "connected"
             /\ \A k \in 1..Len(q) : q[k].sid = s /\ q[k].msgid # "connected" =>
                   Len(d) > 0 \/ ToldIn(q, s, k)
             /\ GoneOn(s)' => Len(d) > 0 \/ ToldIn(q, s, Len(q) + 1)
  <2> DEFINE d == dispatched[s]
             q == msg_queue_[0]
             e == msg_queue_'[0]
  <2>1. /\ Len(d) > 0 => d[1].msgid = "connected"
        /\ \A k \in 1..Len(q) : q[k].sid = s /\ q[k].msgid # "connected" =>
              Len(d) > 0 \/ ToldIn(q, s, k)
        /\ GoneOn(s) => Len(d) > 0 \/ ToldIn(q, s, Len(q) + 1)
    BY <1>1 DEF ToldFirst
  <2>2. /\ Len(q) \in Nat
        /\ t # 0 => e = q
        /\ t = 0 => /\ Len(e) = Len(q) + 1 /\ e[Len(q) + 1] = pk
                    /\ \A i \in 1..Len(q) : e[i] = q[i]
    BY <1>0, <1>q, <1>z, PacketsSent
  <2> HIDE DEF d, q, e
  <2>3. \A k \in Int : ToldIn(q, s, k) => ToldIn(e, s, k)
    BY <2>2 DEF ToldIn
  <2>4. ToldIn(q, s, Len(q) + 1) => ToldIn(e, s, Len(q) + 1) /\ ToldIn(e, s, Len(e) + 1)
    BY <2>2 DEF ToldIn
  <2>5. ASSUME NEW k \in 1..Len(e), e[k].sid = s, e[k].msgid # "connected"
        PROVE  Len(d) > 0 \/ ToldIn(e, s, k)
    <3>1. CASE k \in 1..Len(q) BY <3>1, <2>5, <2>1, <2>2, <2>3
    <3>2. CASE k \notin 1..Len(q)
      <4>1. t = 0 /\ k = Len(q) + 1 /\ e[k] = pk BY <3>2, <2>2, <2>5
      <4>2. GoneOn(s) BY <4>1, <2>5, <1>1
      <4> QED BY <4>1, <4>2, <2>1, <2>4
    <3> QED BY <3>1, <3>2
  <2>6. ASSUME GoneOn(s)' PROVE Len(d) > 0 \/ ToldIn(e, s, Len(e) + 1)
    <3>1. CASE GoneOn(s) BY <3>1, <2>1, <2>4
    <3>2. CASE t = 0 /\ pk.sid = s /\ pk.msgid = "connected"
      <4>1. /\ Len(q) + 1 \in 1..Len(e) /\ Len(q) + 1 < Len(e) + 1
            /\ e[Len(q) + 1].sid = s /\ e[Len(q) + 1].msgid = "connected"
        BY <3>2, <2>2
      <4> QED BY <4>1 DEF ToldIn
    <3> QED BY <3>1, <3>2, <2>6, <1>1
  <2> QED BY <2>1, <2>5, <2>6 DEF d, e
<1> QED BY <1>1, <1>0 DEF ToldFirst

LEMMA UpdateTold ==
    ASSUME NetTypes, RegInv, Kept, ToldFirst, NEW t \in Thread, Update(t)
    PROVE  ToldFirst'
<1>0. Dispatches(t) BY UpdateDispatches
<1>u. UNCHANGED <<home, accepted, socket, reading, todo, cur>>
  BY DEF Update, created, session, received, acceptor, threads
<1>p. phase' = phase BY <1>u, SamePhase
<1>g. \A s \in Sid : GoneOn(s)' <=> GoneOn(s) BY <1>u, <1>p DEF GoneOn
<1> DEFINE h == msg_queue_[t][1]
<1>h. /\ Len(msg_queue_[t]) \in Nat /\ 1 \in 1..Len(msg_queue_[t])
      /\ h \in Packets /\ h.sid \in Sid
  <2>1. Len(msg_queue_[t]) \in Nat BY PacketsSent
  <2>2. Len(msg_queue_[t]) > 0 /\ h \in Packets BY <1>0 DEF Dispatches
  <2> QED BY <2>1, <2>2 DEF Packets
<1>z. 0 \in Thread BY Threads
<1>1. ASSUME NEW s \in accepted, home[s] = 0
      PROVE  LET d == dispatched'[s] q == msg_queue_'[0] IN
             /\ Len(d) > 0 => d[1].msgid = "connected"
             /\ \A k \in 1..Len(q) : q[k].sid = s /\ q[k].msgid # "connected" =>
                   Len(d) > 0 \/ ToldIn(q, s, k)
             /\ GoneOn(s) => Len(d) > 0 \/ ToldIn(q, s, Len(q) + 1)
  <2> DEFINE d == dispatched[s]
             dd == dispatched'[s]
             q == msg_queue_[0]
             e == msg_queue_'[0]
  <2>s. s \in Sid BY DEF NetTypes
  <2>1. /\ Len(d) > 0 => d[1].msgid = "connected"
        /\ \A k \in 1..Len(q) : q[k].sid = s /\ q[k].msgid # "connected" =>
              Len(d) > 0 \/ ToldIn(q, s, k)
        /\ GoneOn(s) => Len(d) > 0 \/ ToldIn(q, s, Len(q) + 1)
    BY <1>1 DEF ToldFirst
  <2>n. Len(d) \in Nat /\ Len(q) \in Nat BY <2>s, <1>z, PacketsSent
  <2>2. /\ h.sid # s => dd = d
        /\ h.sid = s => /\ Len(dd) = Len(d) + 1 /\ dd[Len(d) + 1] = h
                        /\ \A i \in 1..Len(d) : dd[i] = d[i]
    BY <1>0, <2>s DEF Dispatches
  <2>3. h.sid = s => t = 0 /\ q[1] = h
    <3>1. h.sid = s => t = 0 BY <1>h, <1>1 DEF Kept
    <3> QED BY <3>1
  <2>4. /\ t # 0 => e = q
        /\ t = 0 => /\ Len(q) > 0 /\ Len(e) = Len(q) - 1 /\ q[1] = h
                    /\ \A i \in 1..(Len(q) - 1) : e[i] = q[i + 1]
    BY <1>0, <1>z DEF Dispatches
  <2> HIDE DEF d, dd, q, e, h
  <2>5. CASE h.sid = s
    <3>1. Len(dd) = Len(d) + 1 /\ Len(dd) > 0 BY <2>5, <2>2, <2>n
    <3>2. dd[1].msgid = "connected"
      <4>1. CASE Len(d) > 0
        BY <4>1, <2>1, <2>2, <2>5, <2>n
      <4>2. CASE Len(d) = 0
        <5>1. ~ToldIn(q, s, 1) BY <2>n DEF ToldIn
        <5>2. 1 \in 1..Len(q) /\ q[1].sid = s BY <2>3, <2>4, <2>5, <2>n
        <5>3. h.msgid = "connected" BY <5>1, <5>2, <4>2, <2>1, <2>3, <2>5
        <5> QED BY <5>3, <4>2, <2>2, <2>5
      <4> QED BY <4>1, <4>2, <2>n
    <3> QED BY <3>1, <3>2 DEF dd
  <2>6. CASE h.sid # s
    <3>1. dd = d BY <2>6, <2>2
    <3>2. CASE t # 0 BY <3>1, <3>2, <2>4, <2>1 DEF dd, e
    <3>3. CASE t = 0
      <4>1. ASSUME NEW k \in 1..(Len(q) + 1), ToldIn(q, s, k)
            PROVE  ToldIn(e, s, k - 1)
        <5>1. PICK i \in 1..Len(q) : i < k /\ q[i].sid = s /\ q[i].msgid = "connected"
          BY <4>1 DEF ToldIn
        <5>2. i # 1 BY <5>1, <2>4, <2>6, <3>3
        <5>3. i - 1 \in 1..Len(e) /\ i - 1 < k - 1 /\ e[i - 1] = q[i]
          BY <5>1, <5>2, <2>4, <2>n, <3>3
        <5> QED BY <5>1, <5>3 DEF ToldIn
      <4>2. ASSUME NEW k \in 1..Len(e), e[k].sid = s, e[k].msgid # "connected"
            PROVE  Len(d) > 0 \/ ToldIn(e, s, k)
        <5>1. /\ k + 1 \in 1..Len(q) /\ q[k + 1] = e[k] /\ k + 1 \in 1..(Len(q) + 1)
              /\ (k + 1) - 1 = k
          BY <4>2, <2>4, <2>n, <3>3
        <5> QED BY <5>1, <4>1, <4>2, <2>1
      <4>3. /\ Len(q) + 1 \in 1..(Len(q) + 1) /\ (Len(q) + 1) - 1 = Len(e) + 1
        BY <2>4, <2>n, <3>3
      <4>4. GoneOn(s) => Len(d) > 0 \/ ToldIn(e, s, Len(e) + 1)
        BY <4>1, <4>3, <2>1
      <4> QED BY <3>1, <4>2, <4>4, <2>1 DEF dd, e
    <3> QED BY <3>2, <3>3
  <2> QED BY <2>5, <2>6
<1> QED BY <1>1, <1>u, <1>g DEF ToldFirst, NetTypes

-----------------------------------------------------------------------------
(* Each action keeps the order.                                             *)

LEMMA HomeQuiet ==
    ASSUME NetTypes, RegInv, HomeWork,
           \A u \in Thread :
              /\ Closing(u)' \/ Ending(u)' => (Closing(u) \/ Ending(u)) /\ cur'[u] = cur[u]
              /\ Opening(u)' \/ Opened(u)' => (Opening(u) \/ Opened(u)) /\ cur'[u] = cur[u],
           \A r \in Sid : socket[r] # "new" =>
              home'[r] = home[r] /\ (r \in accepted' => r \in accepted)
    PROVE  HomeWork'
<1>1. \A u \in Thread : Busy(u) => cur[u] \in Sid /\ socket[cur[u]] # "new"
  BY DEF RegInv, Alone, Working, Busy
<1>2. ASSUME NEW u \in Thread, Closing(u)' \/ Ending(u)' PROVE u = home'[cur'[u]]
  BY <1>1, <1>2 DEF HomeWork, Busy
<1>3. ASSUME NEW u \in Thread, Opening(u)' \/ Opened(u)', cur'[u] \in accepted' PROVE u = 0
  BY <1>1, <1>3 DEF HomeWork, Busy
<1> QED BY <1>2, <1>3 DEF HomeWork

LEMMA QuietKeeps ==
    ASSUME NetTypes, RegInv, OrdInv, UNCHANGED <<queue, received>>,
           home' \in [Sid -> IoThread], accepted' \subseteq Sid,
           \A r \in Sid : socket[r] # "new" =>
              /\ home'[r] = home[r] /\ (r \in accepted' => r \in accepted)
              /\ reading'[r] /\ <<r, "closeed">> \in sent => reading[r]
              /\ GoneOn(r)' => GoneOn(r),
           \A r \in accepted' : socket[r] = "new" => ~GoneOn(r)',
           HomeWork'
    PROVE  OrdInv'
<1>s. ASSUME NEW r \in Sid, reading'[r] => reading[r] PROVE Still(r)
  BY <1>s DEF Still, Fits, received
<1>1. Kept' /\ Given' /\ Ordered' BY <1>s, QuietOrder DEF OrdInv, received
<1>2. ToldFirst' BY QuietTold DEF OrdInv
<1>3. Bounded' BY DEF OrdInv, Bounded, received
<1> QED BY <1>1, <1>2, <1>3 DEF OrdInv

(* A session that is new and stays so has not gone on; nor has one that is  *)
(* only now opened.                                                         *)
LEMMA NewNotGone ==
    ASSUME NetTypes, RegInv, NEW r \in Sid, socket[r] = "new"
    PROVE  /\ ~reading[r] /\ r \notin accepted /\ \A u \in Thread : Busy(u) => cur[u] # r
BY DEF RegInv, Fresh, Working, Busy

LEMMA LockOrder ==
    ASSUME NetTypes, RegInv, OrdInv, NEW t \in Thread, Lock(t) \/ Insert(t) \/ Erase(t)
    PROVE  OrdInv'
<1>1. \/ Moves(t, "start", "insert") \/ Moves(t, "close", "erase")
      \/ Moves(t, "insert", "enqueue_connected") \/ Moves(t, "erase", "enqueue_closeed")
  BY StepMoves DEF Lock, Insert, Erase
<1>3. phase \in [Thread -> Phases] BY PhaseTypes
<1>u. UNCHANGED <<queue, received, reading, socket, home, accepted>>
  BY DEF Lock, Insert, Erase, acceptor, created, session, received
<1>4. \A u \in Thread :
         /\ cur'[u] = cur[u] /\ (phase'[u] = "do_recv" <=> phase[u] = "do_recv")
         /\ Closing(u)' \/ Ending(u)' => (Closing(u) \/ Ending(u))
         /\ Opening(u)' \/ Opened(u)' => (Opening(u) \/ Opened(u))
  BY <1>1, <1>3 DEF NetTypes, Moves, Opening, Opened, Closing, Ending
<1>5. HomeWork' BY <1>4, <1>u, HomeQuiet DEF OrdInv
<1>6. \A r \in Sid : GoneOn(r)' => GoneOn(r) BY <1>4, <1>u DEF GoneOn
<1>7. \A r \in accepted' : socket[r] # "new" BY <1>u, NewNotGone DEF NetTypes
<1> QED BY <1>5, <1>6, <1>7, <1>u, QuietKeeps DEF NetTypes

LEMMA DoRecvOrder ==
    ASSUME NetTypes, RegInv, OrdInv, NEW t \in Thread, DoRecv(t)
    PROVE  OrdInv'
<1>1. Moves(t, "do_recv", "idle") \/ Moves(t, "do_recv", "do_accept")
  BY StepMoves DEF DoRecv
<1>3. phase \in [Thread -> Phases] BY PhaseTypes
<1>u. UNCHANGED <<queue, received, socket, home, accepted>>
  BY DEF DoRecv, acceptor, created
<1>s. /\ cur[t] \in Sid /\ socket[cur[t]] = "open" /\ phase[t] = "do_recv"
      /\ \A r \in Sid : r # cur[t] => reading'[r] = reading[r]
  BY <1>1 DEF DoRecv, Moves, RegInv, Alone, Busy, Opened, Working, NetTypes
<1>4. \A u \in Thread :
         /\ phase'[u] = "do_recv" => phase[u] = "do_recv" /\ cur'[u] = cur[u]
         /\ Closing(u)' \/ Ending(u)' => (Closing(u) \/ Ending(u)) /\ cur'[u] = cur[u]
         /\ Opening(u)' \/ Opened(u)' => (Opening(u) \/ Opened(u)) /\ cur'[u] = cur[u]
  BY <1>1, <1>3 DEF NetTypes, Moves, Opening, Opened, Closing, Ending
<1>5. HomeWork' BY <1>4, <1>u, HomeQuiet DEF OrdInv
<1>6. \A r \in Sid : GoneOn(r)' => GoneOn(r) BY <1>4, <1>u, <1>s DEF GoneOn
<1>7. \A r \in accepted' : socket[r] # "new" BY <1>u, NewNotGone DEF NetTypes
<1>8. \A r \in Sid : reading'[r] /\ <<r, "closeed">> \in sent => reading[r]
  BY <1>s DEF RegInv, Registered
<1> QED BY <1>5, <1>6, <1>7, <1>8, <1>u, QuietKeeps DEF NetTypes

LEMMA ListenerOrder ==
    ASSUME NetTypes, RegInv, OrdInv,
           Listen \/ AcceptFails \/ ClientComes \/ \E t \in Thread : DoAccept(t)
    PROVE  OrdInv'
<1>1. \/ phase' = phase /\ cur' = cur
      \/ Begins(Main, NoSid, "do_accept")
      \/ \E t \in Thread : Moves(t, "do_accept", "idle")
  BY SamePhase, StepMoves, CallsBegin, Threads
     DEF AcceptFails, ClientComes, Listen, DoAccept, threads
<1>3. phase \in [Thread -> Phases] BY PhaseTypes
<1>u. UNCHANGED <<queue, received, reading, socket, accepted>>
  BY DEF Listen, AcceptFails, ClientComes, DoAccept, session, received
<1>h. /\ home' \in [Sid -> IoThread]
      /\ \A r \in Sid : socket[r] # "new" => home'[r] = home[r]
  <2>1. ASSUME NEW s \in Sid, NewSession(s)
        PROVE  /\ home' \in [Sid -> IoThread]
               /\ \A r \in Sid : socket[r] # "new" => home'[r] = home[r]
    BY <2>1, NewSessionIs
  <2>2. UNCHANGED created \/ \E s \in Sid : NewSession(s)
    BY DEF Listen, AcceptFails, ClientComes, DoAccept
  <2> QED BY <2>1, <2>2 DEF created, NetTypes
<1>4. \A u \in Thread :
         /\ phase'[u] = "do_recv" => phase[u] = "do_recv" /\ cur'[u] = cur[u]
         /\ Closing(u)' \/ Ending(u)' => (Closing(u) \/ Ending(u)) /\ cur'[u] = cur[u]
         /\ Opening(u)' \/ Opened(u)' => (Opening(u) \/ Opened(u)) /\ cur'[u] = cur[u]
  BY <1>1, <1>3, Threads DEF NetTypes, Moves, Begins, Opening, Opened, Closing, Ending
<1>5. HomeWork' BY <1>4, <1>u, <1>h, HomeQuiet DEF OrdInv
<1>6. \A r \in Sid : GoneOn(r)' => GoneOn(r) BY <1>4, <1>u DEF GoneOn
<1>7. \A r \in accepted' : socket[r] # "new" BY <1>u, NewNotGone DEF NetTypes
<1> QED BY <1>5, <1>6, <1>7, <1>h, <1>u, QuietKeeps DEF NetTypes

(* Thread t begins to start the session s that was new.                     *)
LEMMA StartOrder ==
    ASSUME NetTypes, RegInv, OrdInv, NEW t \in Thread, NEW s \in Sid, socket[s] = "new",
           Begins(t, s, "start"), socket' = [socket EXCEPT ![s] = "open"],
           UNCHANGED <<reading, received, queue>>, home' \in [Sid -> IoThread],
           \A r \in Sid : socket[r] # "new" => home'[r] = home[r],
           accepted' = accepted \/ (accepted' = accepted \cup {s} /\ t = 0)
    PROVE  OrdInv'
<1>3. phase \in [Thread -> Phases] BY PhaseTypes
<1>o. socket'[s] = "open" /\ \A r \in Sid : r # s => socket'[r] = socket[r]
  BY DEF NetTypes
<1>4. /\ \A u \in Thread : u # t => phase'[u] = phase[u] /\ cur'[u] = cur[u]
      /\ phase'[t] = "start" /\ cur'[t] = s /\ phase[t] = "idle"
  BY <1>3 DEF NetTypes, Begins
<1>5. HomeWork'
  <2>1. \A u \in Thread : Busy(u) => cur[u] \in Sid /\ socket[cur[u]] # "new" /\ cur[u] # s
    BY DEF RegInv, Alone, Working, Busy
  <2>2. ASSUME NEW u \in Thread, Closing(u)' \/ Ending(u)' PROVE u = home'[cur'[u]]
    <3>1. u # t BY <2>2, <1>4 DEF Closing, Ending
    <3>2. Closing(u) \/ Ending(u) BY <3>1, <2>2, <1>4 DEF Closing, Ending
    <3> QED BY <3>1, <3>2, <2>1, <1>4 DEF HomeWork, OrdInv, Busy
  <2>3. ASSUME NEW u \in Thread, Opening(u)' \/ Opened(u)', cur'[u] \in accepted'
        PROVE  u = 0
    <3>1. CASE u = t
      <4>1. s \notin accepted BY NewNotGone
      <4> QED BY <4>1, <3>1, <1>4, <2>3
    <3>2. CASE u # t
      <4>1. Opening(u) \/ Opened(u) BY <3>2, <2>3, <1>4 DEF Opening, Opened
      <4> QED BY <4>1, <3>2, <2>1, <2>3, <1>4 DEF HomeWork, OrdInv, Busy
    <3> QED BY <3>1, <3>2
  <2> QED BY <2>2, <2>3 DEF HomeWork
<1>6. ASSUME NEW r \in Sid, socket[r] # "new", GoneOn(r)' PROVE GoneOn(r)
  <2>1. r # s BY <1>6
  <2> QED BY <2>1, <1>6, <1>4, <1>o DEF GoneOn
<1>7. ASSUME NEW r \in accepted', socket[r] = "new" PROVE ~GoneOn(r)'
  <2>1. r = s BY <1>7, NewNotGone DEF NetTypes
  <2>2. ~reading[s] /\ \A u \in Thread : phase[u] = "do_recv" => cur[u] # s
    BY NewNotGone DEF Busy, Opened
  <2> QED BY <2>1, <2>2, <1>4, <1>o DEF GoneOn
<1>8. accepted' \subseteq Sid BY DEF NetTypes
<1>9. \A r \in Sid : socket[r] # "new" => (r \in accepted' => r \in accepted) OBVIOUS
<1> QED BY <1>5, <1>6, <1>7, <1>8, <1>9, QuietKeeps

LEMMA AcceptedOrder == ASSUME NetTypes, RegInv, OrdInv, Accepted PROVE OrdInv'
<1>t. 0 \in Thread BY Threads
<1>1. Begins(0, accepting, "start")
  BY <1>t, CallsBegin DEF Accepted, Free
<1>s. accepting \in Sid /\ socket[accepting] = "new"
  BY DEF Accepted, NetTypes, RegInv, Fresh
<1>u. /\ UNCHANGED <<reading, received, queue, created>>
      /\ socket' = [socket EXCEPT ![accepting] = "open"]
      /\ accepted' = accepted \cup {accepting}
  BY DEF Accepted
<1>h. home' = home /\ home' \in [Sid -> IoThread] BY <1>u DEF created, NetTypes
<1> QED BY <1>1, <1>s, <1>u, <1>t, <1>h, StartOrder

LEMMA ConnectOrder == ASSUME NetTypes, RegInv, OrdInv, Connect PROVE OrdInv'
<1>1. PICK s \in Sid :
        /\ NewSession(s)
        /\ \/ /\ socket' = [socket EXCEPT ![s] = "open"]
              /\ Calls(Main, s, Start)
           \/ UNCHANGED <<socket, threads>>
           \/ socket' = [socket EXCEPT ![s] = "close_posted"] /\ UNCHANGED threads
  BY DEF Connect
<1>s. /\ home' \in [Sid -> IoThread] /\ socket[s] = "new"
      /\ \A r \in Sid : socket[r] # "new" => home'[r] = home[r]
  BY <1>1, NewSessionIs
<1>u. UNCHANGED <<reading, received, queue, accepted>> BY DEF Connect, acceptor
<1>3. CASE socket' = [socket EXCEPT ![s] = "open"] /\ Calls(Main, s, Start)
  <2>1. Begins(Main, s, "start") BY <1>3, CallsBegin, Threads DEF Connect
  <2> QED BY <1>3, <2>1, <1>s, <1>u, Threads, StartOrder
<1>4. CASE UNCHANGED threads
  <2>1. phase' = phase /\ cur' = cur BY <1>4, SamePhase DEF threads
  <2>2. HomeWork' BY <2>1, <1>s, <1>u, HomeQuiet DEF OrdInv, Opening, Opened, Closing, Ending
  <2>3. \A r \in Sid : r # s => socket'[r] = socket[r] BY <1>1 DEF NetTypes
  <2>4. \A r \in Sid : socket[r] # "new" /\ GoneOn(r)' => GoneOn(r)
    BY <2>1, <2>3, <1>s, <1>u DEF GoneOn
  <2>5. \A r \in accepted' : socket[r] # "new" BY <1>u, NewNotGone DEF NetTypes
  <2> QED BY <2>2, <2>4, <2>5, <1>s, <1>u, QuietKeeps DEF NetTypes
<1> QED BY <1>1, <1>3, <1>4 DEF threads

LEMMA FailureOrder ==
    ASSUME NetTypes, RegInv, OrdInv, NEW s \in Sid, ReadFails(s) \/ WriteFails(s)
    PROVE  OrdInv'
<1>u. /\ UNCHANGED <<acceptor, created, threads, queue, received>>
      /\ reading[s] /\ reading' \in {reading, [reading EXCEPT ![s] = FALSE]}
      /\ socket' = [socket EXCEPT ![s] = IF @ = "open" THEN "close_posted" ELSE @]
  BY DEF ReadFails, WriteFails
<1>1. phase' = phase /\ cur' = cur BY <1>u, SamePhase DEF threads
<1>2. HomeWork'
  BY <1>1, <1>u, HomeQuiet DEF OrdInv, Opening, Opened, Closing, Ending, created, acceptor
<1>3. \A r \in Sid : /\ r # s => socket'[r] = socket[r]
                     /\ reading'[r] => reading[r]
  BY <1>u DEF NetTypes
<1>4. \A r \in Sid : GoneOn(r)' => GoneOn(r) BY <1>1, <1>3, <1>u DEF GoneOn
<1>5. \A r \in accepted' : socket[r] # "new" BY <1>u, NewNotGone DEF NetTypes, acceptor
<1>6. home' = home /\ accepted' = accepted BY <1>u DEF created, acceptor
<1> QED BY <1>2, <1>3, <1>4, <1>5, <1>6, <1>u, QuietKeeps DEF NetTypes

LEMMA RunCloseOrder ==
    ASSUME NetTypes, RegInv, OrdInv, NEW s \in Sid, RunClose(s)
    PROVE  OrdInv'
<1>t. PICK t \in Thread : t = home[s] BY Threads DEF NetTypes
<1>1. Begins(t, s, "close") BY <1>t, CallsBegin DEF RunClose, Free
<1>u. /\ UNCHANGED <<reading, received, queue, home, accepted>>
      /\ socket[s] = "close_posted" /\ socket' = [socket EXCEPT ![s] = "closed"]
  BY DEF RunClose, created, acceptor
<1>3. phase \in [Thread -> Phases] BY PhaseTypes
<1>4. /\ \A u \in Thread : u # t => phase'[u] = phase[u] /\ cur'[u] = cur[u]
      /\ phase'[t] = "close" /\ cur'[t] = s /\ phase[t] = "idle"
  BY <1>1, <1>3 DEF NetTypes, Begins
<1>5. HomeWork'
  <2>2. ASSUME NEW u \in Thread, Closing(u)' \/ Ending(u)' PROVE u = home[cur'[u]]
    <3>1. CASE u = t BY <3>1, <1>4, <1>t
    <3>2. CASE u # t BY <3>2, <2>2, <1>4 DEF OrdInv, HomeWork, Closing, Ending
    <3> QED BY <3>1, <3>2
  <2>3. ASSUME NEW u \in Thread, Opening(u)' \/ Opened(u)', cur'[u] \in accepted
        PROVE  u = 0
    <3>1. u # t BY <2>3, <1>4 DEF Opening, Opened
    <3> QED BY <3>1, <2>3, <1>4 DEF OrdInv, HomeWork, Opening, Opened
  <2> QED BY <2>2, <2>3, <1>u DEF HomeWork
<1>6. \A r \in Sid : GoneOn(r)' => GoneOn(r)
  <2>1. \A r \in Sid : r # s => socket'[r] = socket[r] BY <1>u DEF NetTypes
  <2>2. GoneOn(s) BY <1>u DEF GoneOn
  <2>3. \A u \in Thread : phase'[u] = "do_recv" => phase[u] = "do_recv" /\ cur'[u] = cur[u]
    BY <1>4
  <2> QED BY <2>1, <2>2, <2>3, <1>u DEF GoneOn
<1>7. \A r \in accepted' : socket[r] # "new" BY <1>u, NewNotGone DEF NetTypes
<1> QED BY <1>5, <1>6, <1>7, <1>u, QuietKeeps DEF NetTypes

LEMMA OnMessageOrder ==
    ASSUME NetTypes, RegInv, OrdInv, NEW s \in Sid, OnMessage(s)
    PROVE  OrdInv'
<1> DEFINE pk == Packet(s, "message", reads[s] + 1)
<1>p. /\ pk \in Packets /\ pk.sid = s /\ pk.msgid = "message" /\ pk.n = reads[s] + 1
      /\ reads[s] \in Nat
  BY DEF Packet, Packets, NetTypes
<1>t. PICK t \in Thread : t = home[s] BY Threads DEF NetTypes
<1>q. Enqueue(t, pk) BY <1>t DEF OnMessage, Reader
<1> HIDE DEF pk
<1>u. /\ UNCHANGED <<threads, home, accepted, reading, parsing, before, socket>>
      /\ reading[s] /\ s \in parsing
      /\ reads'[s] = reads[s] + 1 /\ \A r \in Sid : r # s => reads'[r] = reads[r]
  BY DEF OnMessage, NetTypes, created, acceptor, RegInv, Fresh
<1>1. phase' = phase /\ cur' = cur BY <1>u, SamePhase DEF threads
<1>2. HomeWork'
  BY <1>1, <1>u, HomeQuiet DEF OrdInv, Opening, Opened, Closing, Ending
<1>3. Still(s)
  <2>1. before[s] \in Nat BY DEF NetTypes
  <2> QED BY <2>1, <1>p, <1>u DEF Still, Fits
<1>4. \A r \in Sid : reads'[r] \in Nat /\ reads'[r] >= reads[r] /\ Still(r)
  <2>1. ASSUME NEW r \in Sid, r # s PROVE Still(r) BY <2>1, <1>u DEF Still, Fits
  <2> QED BY <2>1, <1>3, <1>p, <1>u DEF NetTypes
<1>5. Kept' /\ Given' /\ Ordered'
  <2>1. pk.n = reads'[pk.sid] /\ pk.n > reads[pk.sid] BY <1>p, <1>u
  <2> QED BY <2>1, <1>p, <1>q, <1>u, <1>t, <1>4, AppendOrder DEF OrdInv
<1>6. GoneOn(s) BY <1>u DEF GoneOn
<1>7. \A r \in Sid : GoneOn(r)' => GoneOn(r)
  BY <1>1, <1>u DEF GoneOn
<1>8. ToldFirst' BY <1>p, <1>q, <1>u, <1>6, <1>7, AppendTold DEF OrdInv, NetTypes
<1>9. Bounded'
  <2>1. \A r \in Sid : before[r] \in Nat /\ reads[r] \in Nat /\ before[r] <= reads[r]
    BY DEF NetTypes, OrdInv, Bounded
  <2> QED BY <2>1, <1>u DEF Bounded
<1> QED BY <1>2, <1>5, <1>8, <1>9 DEF OrdInv

(* A read begins when all that it may follow was counted; it ends.          *)
LEMMA ParserOrder ==
    ASSUME NetTypes, RegInv, OrdInv, NEW s \in Sid, Read(s) \/ Decoded(s)
    PROVE  OrdInv'
<1>u. /\ UNCHANGED <<threads, home, accepted, reads, queue>> /\ reading[s]
      /\ \A r \in Sid : r # s => /\ reading'[r] = reading[r] /\ before'[r] = before[r]
                                 /\ (r \in parsing' <=> r \in parsing)
                                 /\ socket'[r] = socket[r]
  BY DEF Read, Decoded, NetTypes, created, acceptor, RegInv, Fresh
<1>b. \/ reading'[s] = reading[s] /\ s \notin parsing /\ s \in parsing' /\ before'[s] = reads[s]
      \/ before'[s] = before[s] /\ reading'[s] = (socket[s] # "closed")
  BY DEF Read, Decoded, NetTypes
<1>1. phase' = phase /\ cur' = cur BY <1>u, SamePhase DEF threads
<1>2. HomeWork'
  BY <1>1, <1>u, HomeQuiet DEF OrdInv, Opening, Opened, Closing, Ending
<1>n. reads[s] \in Nat BY DEF NetTypes
<1>3. <<s, "closeed">> \in sent => Still(s)
  <2>1. <<s, "closeed">> \in sent => socket[s] = "closed" BY DEF RegInv, Registered
  <2> QED BY <2>1, <1>b, <1>u, <1>n DEF Still, Fits
<1>4. \A r \in Sid : <<r, "closeed">> \in sent => Still(r)
  <2>1. ASSUME NEW r \in Sid, r # s PROVE Still(r) BY <2>1, <1>u DEF Still, Fits
  <2> QED BY <2>1, <1>3
<1>5. Kept' /\ Given' /\ Ordered' BY <1>4, <1>u, QuietOrder DEF OrdInv, NetTypes
<1>6. \A r \in Sid : GoneOn(r)' => GoneOn(r)
  <2>1. GoneOn(s) BY <1>u DEF GoneOn
  <2>2. ASSUME NEW r \in Sid, r # s, GoneOn(r)' PROVE GoneOn(r)
    BY <2>2, <1>u, <1>1 DEF GoneOn
  <2> QED BY <2>1, <2>2
<1>7. accepted' \subseteq Sid BY <1>u DEF NetTypes
<1>8. ToldFirst' BY <1>6, <1>7, <1>u, QuietTold DEF OrdInv
<1>9. Bounded'
  <2>1. \A r \in Sid : before[r] <= reads[r] BY DEF OrdInv, Bounded
  <2>2. before'[s] <= reads[s] BY <2>1, <1>b, <1>n
  <2>3. \A r \in Sid : r # s => before'[r] <= reads[r] BY <2>1, <1>u
  <2>4. \A r \in Sid : before'[r] <= reads'[r] BY <2>2, <2>3, <1>u
  <2> QED BY <2>4 DEF Bounded
<1> QED BY <1>2, <1>5, <1>8, <1>9 DEF OrdInv

LEMMA EnqueueOrder ==
    ASSUME NetTypes, RegInv, OrdInv, NEW t \in Thread,
           EnqueueConnected(t) \/ EnqueueCloseed(t)
    PROVE  OrdInv'
<1>1. PICK pk \in Packets :
        /\ Enqueue(t, pk) /\ pk.sid = cur[t] /\ cur[t] \in Sid
        /\ \/ pk.msgid = "connected" /\ Moves(t, "enqueue_connected", "do_recv")
           \/ /\ pk.msgid = "closeed" /\ Moves(t, "enqueue_closeed", "idle")
              /\ pk.n = reads[pk.sid]
  <2>1. Moves(t, "enqueue_connected", "do_recv") \/ Moves(t, "enqueue_closeed", "idle")
    BY StepMoves DEF EnqueueConnected, EnqueueCloseed
  <2>2. cur[t] \in Sid BY <2>1 DEF Moves, RegInv, Alone, Busy, Opened, Ending
  <2>3. CASE EnqueueConnected(t)
    <3>1. Enqueue(t, Packet(cur[t], "connected", 0)) BY <2>3 DEF EnqueueConnected
    <3>2. Moves(t, "enqueue_connected", "do_recv") BY <2>3, StepMoves DEF EnqueueConnected
    <3> QED BY <3>1, <3>2, <2>2 DEF Packet, Packets
  <2>4. CASE EnqueueCloseed(t)
    <3>1. Enqueue(t, Packet(cur[t], "closeed", reads[cur[t]])) BY <2>4 DEF EnqueueCloseed
    <3>2. Moves(t, "enqueue_closeed", "idle") BY <2>4, StepMoves DEF EnqueueCloseed
    <3>3. reads[cur[t]] \in Nat BY <2>2 DEF NetTypes
    <3> QED BY <3>1, <3>2, <3>3, <2>2 DEF Packet, Packets
  <2> QED BY <2>3, <2>4
<1>3. phase \in [Thread -> Phases] BY PhaseTypes
<1>u. UNCHANGED <<reads, before, parsing, reading, socket, home, accepted>>
  BY DEF EnqueueConnected, EnqueueCloseed, acceptor, created, session, received
<1>4. \A u \in Thread :
         /\ phase'[u] = "do_recv" =>
              cur'[u] = cur[u] /\ (phase[u] = "do_recv" \/ (u = t /\ pk.msgid = "connected"))
         /\ Closing(u)' \/ Ending(u)' => (Closing(u) \/ Ending(u)) /\ cur'[u] = cur[u]
         /\ Opening(u)' \/ Opened(u)' => (Opening(u) \/ Opened(u)) /\ cur'[u] = cur[u]
  BY <1>1, <1>3 DEF NetTypes, Moves, Opening, Opened, Closing, Ending
<1>5. HomeWork' BY <1>4, <1>u, HomeQuiet DEF OrdInv
<1>6. /\ pk.msgid # "connected" => t = home[pk.sid] /\ socket[pk.sid] = "closed"
      /\ pk.msgid = "connected" /\ pk.sid \in accepted => t = 0
      /\ pk.msgid # "message"
  BY <1>1 DEF Moves, OrdInv, HomeWork, Ending, Opened, RegInv, Working
<1>f. pk.msgid = "closeed" => Fits(pk.sid, pk.n)'
  <2>1. before[pk.sid] <= reads[pk.sid] BY <1>1 DEF OrdInv, Bounded
  <2>2. reads[pk.sid] \in Nat BY <1>1 DEF NetTypes
  <2> QED BY <2>1, <2>2, <1>1, <1>u DEF Fits
<1>7. Kept' /\ Given' /\ Ordered'
  <2>1. \A r \in Sid : /\ reads'[r] \in Nat /\ reads'[r] >= reads[r]
                       /\ Still(r)
    BY <1>u DEF NetTypes, Still, Fits
  <2>2. Enqueue(t, pk) /\ (pk.msgid # "connected" => t = home[pk.sid])
        /\ (pk.msgid = "connected" /\ pk.sid \in accepted => t = 0)
    BY <1>1, <1>6
  <2>3. Kept /\ Given /\ Ordered BY DEF OrdInv
  <2> QED BY <2>1, <2>2, <2>3, <1>6, <1>f, <1>u, AppendOrder
<1>b. Bounded' BY <1>u DEF OrdInv, Bounded
<1>8. ASSUME NEW r \in accepted, home[r] = 0, GoneOn(r)'
      PROVE  GoneOn(r) \/ (t = 0 /\ pk.sid = r /\ pk.msgid = "connected")
  <2>1. CASE \E u \in Thread : cur'[u] = r /\ phase'[u] = "do_recv"
    BY <2>1, <1>4, <1>1, <1>6 DEF GoneOn
  <2> QED BY <2>1, <1>8, <1>u DEF GoneOn
<1>9. pk.msgid # "connected" => GoneOn(pk.sid) BY <1>6 DEF GoneOn
<1>10. ToldFirst' BY <1>1, <1>u, <1>8, <1>9, AppendTold DEF OrdInv
<1> QED BY <1>5, <1>7, <1>10, <1>b DEF OrdInv

LEMMA UpdateKeepsOrder ==
    ASSUME NetTypes, RegInv, OrdInv, NEW t \in Thread, Update(t)
    PROVE  OrdInv'
<1>1. Kept' /\ Given' /\ Ordered' /\ ToldFirst' BY UpdateOrder, UpdateTold DEF OrdInv
<1>u. UNCHANGED <<home, accepted, todo, cur>>
  BY DEF Update, created, acceptor, threads
<1>2. phase' = phase BY <1>u, SamePhase
<1>3. HomeWork'
  BY <1>2, <1>u, HomeQuiet DEF OrdInv, Opening, Opened, Closing, Ending
<1>4. Bounded' BY DEF OrdInv, Bounded, Update, session, received
<1> QED BY <1>1, <1>3, <1>4 DEF OrdInv

-----------------------------------------------------------------------------
LEMMA OrdInit == ASSUME Init PROVE OrdInv
<1>2. phase = [t \in Thread |-> "idle"] BY DEF phase, PhaseOf, Init
<1>3. \A t \in Thread : msg_queue_[t] = <<>> BY DEF Init
<1>4. \A s \in Sid : dispatched[s] = <<>> /\ home[s] \in Thread
  BY Threads DEF Init
<1>5. accepted = {} BY DEF Init
<1>6. Kept /\ Given /\ Ordered BY <1>3, <1>4 DEF Kept, Given, Ordered
<1>7. HomeWork /\ ToldFirst
  BY <1>2, <1>5 DEF HomeWork, ToldFirst, Opening, Opened, Closing, Ending
<1>8. Bounded BY DEF Init, Bounded
<1> QED BY <1>6, <1>7, <1>8 DEF OrdInv

LEMMA OrdNext == ASSUME NetTypes, RegInv, OrdInv, [Next]_vars PROVE OrdInv'
<1>1. ASSUME NEW t \in Thread, Callback(t) PROVE OrdInv'
  BY <1>1, LockOrder, EnqueueOrder, DoRecvOrder, ListenerOrder DEF Callback
<1>2. CASE UNCHANGED vars
  <2>1. UNCHANGED <<queue, received, reading, socket, home, accepted, todo, cur>>
    BY <1>2 DEF vars, acceptor, created, session, received, threads
  <2>2. phase' = phase BY <2>1, SamePhase
  <2>3. HomeWork'
    BY <2>1, <2>2, HomeQuiet DEF OrdInv, Opening, Opened, Closing, Ending
  <2>4. \A r \in Sid : GoneOn(r)' => GoneOn(r) BY <2>1, <2>2 DEF GoneOn
  <2>5. \A r \in accepted' : socket[r] # "new" BY <2>1, NewNotGone DEF NetTypes
  <2> QED BY <2>1, <2>3, <2>4, <2>5, QuietKeeps DEF NetTypes
<1> QED BY <1>1, <1>2, ListenerOrder, AcceptedOrder, ConnectOrder, UpdateKeepsOrder,
           OnMessageOrder, ParserOrder, FailureOrder, RunCloseOrder DEF Next

LEMMA OrdPerSession == ASSUME NetTypes, OrdInv PROVE OrderPerSession
<1>1. \A s \in Sid : DOMAIN dispatched[s] = 1..Len(dispatched[s]) /\ Len(dispatched[s]) \in Nat
  BY LenProperties DEF NetTypes
<1>2. \A s \in Sid : \A i, j \in DOMAIN dispatched[s] :
        i < j /\ dispatched[s][j].msgid = "message" =>
            /\ dispatched[s][i].msgid \in {"message", "closeed"} =>
                  dispatched[s][i].n < dispatched[s][j].n
            /\ dispatched[s][i].msgid = "closeed" => before[s] <= dispatched[s][i].n
  BY <1>1 DEF OrdInv, Ordered, InOrder, Given, Counted, Fits
<1>3. ASSUME NEW s \in accepted, home[s] = 0, dispatched[s] # <<>>
      PROVE  dispatched[s][1].msgid = "connected"
  <2>1. s \in Sid /\ dispatched[s] \in Seq(Packets) BY DEF NetTypes
  <2>2. Len(dispatched[s]) > 0 BY <2>1, <1>1, <1>3, EmptySeq
  <2> QED BY <2>2, <1>3 DEF OrdInv, ToldFirst
<1> QED BY <1>2, <1>3 DEF OrderPerSession

(* What server_base::update() gives to the application of one session is in *)
(* the order it happened, whichever threads enqueued it and in whatever     *)
(* order their queues are emptied.                                          *)
THEOREM OrderPerSessionHolds == Safety => []OrderPerSession
<1>1. Init => NetTypes /\ RegInv /\ OrdInv BY RegInit, OrdInit
<1>2. NetTypes /\ RegInv /\ OrdInv /\ [Next]_vars => (NetTypes /\ RegInv /\ OrdInv)'
  BY RegNext, OrdNext
<1>3. NetTypes /\ RegInv /\ OrdInv => OrderPerSession BY OrdPerSession
<1> QED BY <1>1, <1>2, <1>3, PTL DEF Safety
=============================================================================
