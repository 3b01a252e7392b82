--------------------------- MODULE TcpSessionProofs ---------------------------
(***************************************************************************)
(* Theorems about TcpSession, for any set of senders, any number of calls   *)
(* and any mix of the ways to open and to write to a session.               *)
(***************************************************************************)
EXTENDS TcpSession, SequenceTheorems, FiniteSetTheorems, TLAPS

-----------------------------------------------------------------------------
(* Queues of handlers: sequences of records whose field `op` says which      *)
(* handler it is.  The proofs about the io_context's queue rest on where      *)
(* handlers of some kinds K stand in it.                                      *)

(* No handler of the kinds K is queued; at most one is. *)
NoneOf(q, K)      == \A i \in 1..Len(q) : q[i].op \notin K
AtMostOneOf(q, K) == \A i, j \in 1..Len(q) :
                        q[i].op \in K /\ q[j].op \in K => i = j

(* Posting a handler of another kind changes neither. *)
LEMMA AppendOther ==
    ASSUME NEW S, NEW q \in Seq(S), NEW h \in S, NEW K, h.op \notin K
    PROVE  /\ NoneOf(Append(q, h), K) <=> NoneOf(q, K)
           /\ AtMostOneOf(Append(q, h), K) <=> AtMostOneOf(q, K)
<1> DEFINE p == Append(q, h)
<1>1. /\ p \in Seq(S) /\ Len(p) = Len(q) + 1 /\ Len(q) \in Nat
      /\ \A i \in 1..Len(q) : p[i] = q[i]
      /\ p[Len(q) + 1] = h
  BY AppendProperties, LenProperties
<1> HIDE DEF p
<1>2. ASSUME NEW i \in 1..Len(p), p[i].op \in K
      PROVE  i \in 1..Len(q) /\ p[i] = q[i]
  <2>1. p[i] # h BY <1>2
  <2>2. i # Len(q) + 1 BY <2>1, <1>1
  <2> QED BY <2>2, <1>1
<1>3. NoneOf(p, K) <=> NoneOf(q, K)
  BY <1>1, <1>2 DEF NoneOf
<1>4. AtMostOneOf(p, K) <=> AtMostOneOf(q, K)
  BY <1>1, <1>2 DEF AtMostOneOf
<1> QED BY <1>3, <1>4 DEF p

(* Posting a handler of K where none is makes it the only one. *)
LEMMA AppendFirst ==
    ASSUME NEW S, NEW q \in Seq(S), NEW h \in S, NEW K, h.op \in K, NoneOf(q, K)
    PROVE  AtMostOneOf(Append(q, h), K) /\ ~NoneOf(Append(q, h), K)
<1> DEFINE p == Append(q, h)
<1>1. /\ p \in Seq(S) /\ Len(p) = Len(q) + 1 /\ Len(q) \in Nat
      /\ \A i \in 1..Len(q) : p[i] = q[i]
      /\ p[Len(q) + 1] = h
  BY AppendProperties, LenProperties
<1> HIDE DEF p
<1>2. \A i \in 1..Len(p) : p[i].op \in K => i = Len(q) + 1
  BY <1>1 DEF NoneOf
<1>3. AtMostOneOf(p, K) BY <1>2 DEF AtMostOneOf
<1>4. Len(q) + 1 \in 1..Len(p) /\ p[Len(q) + 1].op \in K
  BY <1>1
<1>5. ~NoneOf(p, K) BY <1>4 DEF NoneOf
<1> QED BY <1>3, <1>5 DEF p

(* Running a handler of another kind changes neither. *)
LEMMA TailOther ==
    ASSUME NEW S, NEW q \in Seq(S), q # <<>>, NEW K, Head(q).op \notin K
    PROVE  /\ NoneOf(Tail(q), K) <=> NoneOf(q, K)
           /\ AtMostOneOf(q, K) => AtMostOneOf(Tail(q), K)
<1> DEFINE t == Tail(q)
<1>1. /\ t \in Seq(S) /\ Len(t) = Len(q) - 1 /\ Len(q) \in Nat \ {0} /\ q[1].op \notin K
      /\ \A i \in 1..Len(t) : t[i] = q[i + 1]
  BY HeadTailProperties, LenProperties, EmptySeq
<1> HIDE DEF t
<1>2. \A i \in 1..Len(q) : q[i].op \in K => i - 1 \in 1..Len(t) /\ t[i - 1] = q[i]
  BY <1>1
<1>3. NoneOf(t, K) <=> NoneOf(q, K)
  BY <1>1, <1>2 DEF NoneOf
<1>4. ASSUME AtMostOneOf(q, K), NEW i \in 1..Len(t), NEW j \in 1..Len(t),
             t[i].op \in K, t[j].op \in K
      PROVE  i = j
  <2>1. /\ i + 1 \in 1..Len(q) /\ j + 1 \in 1..Len(q)
        /\ q[i + 1].op \in K /\ q[j + 1].op \in K
    BY <1>1, <1>4
  <2> QED BY <2>1, <1>4 DEF AtMostOneOf
<1> QED BY <1>3, <1>4 DEF t, AtMostOneOf

(* Running any handler brings none back. *)
LEMMA TailNone ==
    ASSUME NEW S, NEW q \in Seq(S), q # <<>>, NEW K, NoneOf(q, K)
    PROVE  NoneOf(Tail(q), K)
<1>1. /\ Len(Tail(q)) = Len(q) - 1 /\ Len(q) \in Nat \ {0}
      /\ \A i \in 1..Len(Tail(q)) : Tail(q)[i] = q[i + 1]
  BY HeadTailProperties, LenProperties, EmptySeq
<1> QED BY <1>1 DEF NoneOf

(* Running the only handler of K leaves none. *)
LEMMA TailOnly ==
    ASSUME NEW S, NEW q \in Seq(S), q # <<>>, NEW K, Head(q).op \in K,
           AtMostOneOf(q, K)
    PROVE  NoneOf(Tail(q), K)
<1> DEFINE t == Tail(q)
<1>1. /\ t \in Seq(S) /\ Len(t) = Len(q) - 1 /\ Len(q) \in Nat \ {0} /\ q[1].op \in K
      /\ \A i \in 1..Len(t) : t[i] = q[i + 1]
  BY HeadTailProperties, LenProperties, EmptySeq
<1> HIDE DEF t
<1>2. ASSUME NEW i \in 1..Len(t), t[i].op \in K PROVE FALSE
  <2>1. i + 1 \in 1..Len(q) /\ q[i + 1].op \in K /\ 1 \in 1..Len(q) /\ i + 1 # 1
    BY <1>1, <1>2
  <2> QED BY <2>1, <1>1 DEF AtMostOneOf
<1> QED BY <1>2 DEF t, NoneOf

(* Posting several handlers of other kinds changes neither. *)
LEMMA ConcatOther ==
    ASSUME NEW S, NEW q \in Seq(S), NEW r \in Seq(S), NEW K, NoneOf(r, K)
    PROVE  /\ NoneOf(q \o r, K) <=> NoneOf(q, K)
           /\ AtMostOneOf(q, K) => AtMostOneOf(q \o r, K)
<1> DEFINE p == q \o r
<1>1. /\ p \in Seq(S) /\ Len(p) = Len(q) + Len(r)
      /\ Len(q) \in Nat /\ Len(r) \in Nat
      /\ \A i \in 1..Len(q) + Len(r) :
            p[i] = IF i <= Len(q) THEN q[i] ELSE r[i - Len(q)]
  BY ConcatProperties, LenProperties
<1> HIDE DEF p
<1>2. \A i \in 1..Len(p) : p[i].op \in K => i \in 1..Len(q) /\ p[i] = q[i]
  BY <1>1 DEF NoneOf
<1>3. \A i \in 1..Len(q) : i \in 1..Len(p) /\ p[i] = q[i]
  BY <1>1
<1>4. NoneOf(p, K) <=> NoneOf(q, K)
  BY <1>2, <1>3 DEF NoneOf
<1>5. AtMostOneOf(q, K) => AtMostOneOf(p, K)
  BY <1>2 DEF AtMostOneOf
<1> QED BY <1>4, <1>5 DEF p

(* Posting a single handler of K by concatenation, where none is. *)
LEMMA ConcatFirst ==
    ASSUME NEW S, NEW q \in Seq(S), NEW r \in Seq(S), NEW K,
           NoneOf(q, K), Len(r) = 1, r[1].op \in K
    PROVE  AtMostOneOf(q \o r, K) /\ ~NoneOf(q \o r, K)
<1> DEFINE p == q \o r
<1>1. /\ p \in Seq(S) /\ Len(p) = Len(q) + 1 /\ Len(q) \in Nat
      /\ \A i \in 1..Len(q) : p[i] = q[i]
      /\ p[Len(q) + 1] = r[1]
  BY ConcatProperties, LenProperties
<1> HIDE DEF p
<1>2. \A i \in 1..Len(p) : p[i].op \in K => i = Len(q) + 1
  BY <1>1 DEF NoneOf
<1>3. Len(q) + 1 \in 1..Len(p) /\ p[Len(q) + 1].op \in K
  BY <1>1
<1>4. AtMostOneOf(p, K) BY <1>2 DEF AtMostOneOf
<1>5. ~NoneOf(p, K) BY <1>3 DEF NoneOf
<1> QED BY <1>4, <1>5 DEF p

(* n copies of h, as close() posts them for the operations it aborts. *)
LEMMA Copies ==
    ASSUME NEW S, NEW h \in S, NEW n \in Nat
    PROVE  /\ [i \in 1..n |-> h] \in Seq(S)
           /\ Len([i \in 1..n |-> h]) = n
<1> DEFINE c == [i \in 1..n |-> h]
<1>1. c \in [1..n -> S] BY SMT
<1>2. c \in Seq(S) BY <1>1
<1>3. Len(c) \in Nat /\ DOMAIN c = 1..Len(c) /\ DOMAIN c = 1..n
  BY <1>2, LenProperties
<1>4. Len(c) = n BY <1>3
<1> QED BY <1>2, <1>4

-----------------------------------------------------------------------------
(* A sequence s in three parts: w, what follows the first k of c, and o.    *)
(* While a session is healthy, what was sent is split into the wire, the    *)
(* rest of the buffer being written, and send_buffer_.                      *)

Split(w, c, k, o, s) ==
    /\ k <= Len(c) /\ Len(w) + (Len(c) - k) + Len(o) = Len(s)
    /\ \A i \in 1..Len(w) : w[i] = s[i]
    /\ \A i \in 1..(Len(c) - k) : c[k + i] = s[Len(w) + i]
    /\ \A i \in 1..Len(o) : o[i] = s[Len(w) + (Len(c) - k) + i]

(* Arithmetic for the lengths of the parts.                                 *)
LEMMA OneMore ==
    ASSUME NEW x \in Int, NEW y \in Int, NEW z \in Int, NEW u \in Int, x + y + z = u
    PROVE  x + y + (z + 1) = u + 1
OBVIOUS

(* send() appends to both ends. *)
LEMMA SplitAppend ==
    ASSUME NEW S, NEW w \in Seq(S), NEW c \in Seq(S), NEW o \in Seq(S),
           NEW s \in Seq(S), NEW k \in Nat, NEW f \in S, Split(w, c, k, o, s)
    PROVE  Split(w, c, k, Append(o, f), Append(s, f))
<1> DEFINE p == Append(o, f)
           t == Append(s, f)
<1>1. /\ Len(w) \in Nat /\ Len(c) \in Nat /\ Len(o) \in Nat /\ Len(s) \in Nat
      /\ Len(p) = Len(o) + 1 /\ Len(t) = Len(s) + 1
      /\ p[Len(o) + 1] = f /\ t[Len(s) + 1] = f
      /\ \A i \in 1..Len(o) : p[i] = o[i]
      /\ \A i \in 1..Len(s) : t[i] = s[i]
  BY AppendProperties, LenProperties
<1> HIDE DEF p, t
<1>s. k <= Len(c) /\ Len(w) + (Len(c) - k) + Len(o) = Len(s)
  BY Zenon DEF Split
<1>2. k <= Len(c) /\ Len(w) + (Len(c) - k) + Len(p) = Len(t)
  <2> DEFINE lw == Len(w)
             lc == Len(c) - k
             lo == Len(o)
             ls == Len(s)
  <2>1. lw \in Int /\ lc \in Int /\ lo \in Int /\ ls \in Int BY <1>1
  <2>2. lw + lc + lo = ls BY <1>s, Zenon
  <2> HIDE DEF lw, lc, lo, ls
  <2>3. lw + lc + (lo + 1) = ls + 1 BY <2>1, <2>2, OneMore
  <2>4. Len(p) = lo + 1 /\ Len(t) = ls + 1 BY <1>1, Zenon DEF lo, ls
  <2> QED BY <2>3, <2>4, <1>s, Zenon DEF lw, lc
<1>3. \A i \in 1..Len(w) : w[i] = t[i]
  BY <1>1 DEF Split
<1>4. ASSUME NEW i \in 1..(Len(c) - k) PROVE c[k + i] = t[Len(w) + i]
  <2>1. c[k + i] = s[Len(w) + i] BY DEF Split
  <2>2. Len(w) + i \in 1..Len(s) BY <1>1, <1>s
  <2> QED BY <2>1, <2>2, <1>1
<1>5. ASSUME NEW i \in 1..Len(p) PROVE p[i] = t[Len(w) + (Len(c) - k) + i]
  <2>1. CASE i = Len(o) + 1
    BY <2>1, <1>1, <1>s
  <2>2. CASE i \in 1..Len(o)
    <3>1. o[i] = s[Len(w) + (Len(c) - k) + i] BY <2>2 DEF Split
    <3>2. Len(w) + (Len(c) - k) + i \in 1..Len(s) BY <2>2, <1>1, <1>s
    <3> QED BY <2>2, <3>1, <3>2, <1>1
  <2> QED BY <2>1, <2>2, <1>1
<1> QED BY <1>2, <1>3, <1>4, <1>5 DEF Split, p, t

(* do_send() after a write: the swap makes send_buffer_ the next write. *)
LEMMA SplitSwap ==
    ASSUME NEW S, NEW w \in Seq(S), NEW c \in Seq(S), NEW o \in Seq(S),
           NEW s \in Seq(S), Split(w, c, Len(c), o, s), NEW e, Len(e) = 0
    PROVE  Split(w, o, 0, e, s) /\ Split(w, e, 0, o, s)
<1>1. Len(w) \in Nat /\ Len(c) \in Nat /\ Len(o) \in Nat /\ Len(s) \in Nat
  BY LenProperties
<1>2. /\ Len(w) + Len(o) = Len(s)
      /\ \A i \in 1..Len(w) : w[i] = s[i]
      /\ \A i \in 1..Len(o) : o[i] = s[Len(w) + i]
  BY <1>1 DEF Split
<1>3. Split(w, o, 0, e, s) BY <1>1, <1>2 DEF Split
<1>4. Split(w, e, 0, o, s) BY <1>1, <1>2 DEF Split
<1> QED BY <1>3, <1>4

(* The kernel moves the next frame of the buffer to the wire. *)
LEMMA SplitTake ==
    ASSUME NEW S, NEW w \in Seq(S), NEW c \in Seq(S), NEW o \in Seq(S),
           NEW s \in Seq(S), NEW k \in Nat, k < Len(c), Split(w, c, k, o, s)
    PROVE  Split(Append(w, c[k + 1]), c, k + 1, o, s)
<1> DEFINE v == Append(w, c[k + 1])
<1>1. /\ Len(w) \in Nat /\ Len(c) \in Nat /\ Len(o) \in Nat /\ Len(s) \in Nat
      /\ c[k + 1] \in S
  BY LenProperties, ElementOfSeq
<1>2. /\ Len(v) = Len(w) + 1 /\ v[Len(w) + 1] = c[k + 1]
      /\ \A i \in 1..Len(w) : v[i] = w[i]
  BY <1>1, AppendProperties
<1> HIDE DEF v
<1>3. k + 1 <= Len(c) /\ Len(v) + (Len(c) - (k + 1)) + Len(o) = Len(s)
  <2>1. Len(w) + (Len(c) - k) + Len(o) = Len(s) BY DEF Split
  <2>2. k + 1 <= Len(c) BY <1>1
  <2>3. (Len(w) + 1) + (Len(c) - (k + 1)) = Len(w) + (Len(c) - k) BY <1>1
  <2> QED BY <1>1, <1>2, <2>1, <2>2, <2>3
<1>4. ASSUME NEW i \in 1..Len(v) PROVE v[i] = s[i]
  <2>1. CASE i = Len(w) + 1
    <3>1. 1 \in 1..(Len(c) - k) BY <1>1
    <3>2. c[k + 1] = s[Len(w) + 1] BY <3>1 DEF Split
    <3> QED BY <2>1, <3>2, <1>2
  <2>2. CASE i \in 1..Len(w)
    BY <2>2, <1>2 DEF Split
  <2> QED BY <2>1, <2>2, <1>1, <1>2
<1>5. ASSUME NEW i \in 1..(Len(c) - (k + 1))
      PROVE  c[(k + 1) + i] = s[Len(v) + i]
  <2>1. i + 1 \in 1..(Len(c) - k) BY <1>1
  <2>2. c[k + (i + 1)] = s[Len(w) + (i + 1)] BY <2>1 DEF Split
  <2>3. k + (i + 1) = (k + 1) + i /\ Len(w) + (i + 1) = Len(v) + i
    BY <1>1, <1>2
  <2> QED BY <2>2, <2>3
<1>6. ASSUME NEW i \in 1..Len(o)
      PROVE  o[i] = s[Len(v) + (Len(c) - (k + 1)) + i]
  <2>1. o[i] = s[Len(w) + (Len(c) - k) + i] BY DEF Split
  <2>2. Len(w) + (Len(c) - k) + i = Len(v) + (Len(c) - (k + 1)) + i
    BY <1>1, <1>2
  <2> QED BY <2>1, <2>2
<1> QED BY <1>3, <1>4, <1>5, <1>6 DEF Split, v

(* The pieces in order are the whole. *)
LEMMA SplitWhole ==
    ASSUME NEW S, NEW w \in Seq(S), NEW c \in Seq(S), NEW o \in Seq(S),
           NEW s \in Seq(S), NEW k \in Nat, Split(w, c, k, o, s)
    PROVE  w \o SubSeq(c, k + 1, Len(c)) \o o = s
<1> DEFINE m == SubSeq(c, k + 1, Len(c))
           x == w \o m
           y == x \o o
<1>1. /\ Len(w) \in Nat /\ Len(c) \in Nat /\ Len(o) \in Nat /\ Len(s) \in Nat
      /\ k <= Len(c)
  BY LenProperties DEF Split
<1>2. \A i \in (k + 1)..Len(c) : c[i] \in S
  BY <1>1, ElementOfSeq
<1>3. /\ m \in Seq(S) /\ Len(m) = Len(c) - k
      /\ \A i \in 1..(Len(c) - k) : m[i] = c[k + i]
  <2>1. /\ m \in Seq(S)
        /\ Len(m) = IF k + 1 <= Len(c) THEN Len(c) - (k + 1) + 1 ELSE 0
        /\ \A i \in 1..(Len(c) - (k + 1) + 1) : m[i] = c[(k + 1) + i - 1]
    BY <1>1, <1>2, SubSeqProperties
  <2> HIDE DEF m
  <2> QED BY <2>1, <1>1
<1> HIDE DEF m
<1>4. /\ x \in Seq(S) /\ Len(x) = Len(w) + Len(m)
      /\ \A i \in 1..(Len(w) + Len(m)) :
            x[i] = IF i <= Len(w) THEN w[i] ELSE m[i - Len(w)]
  BY <1>3, ConcatProperties
<1> HIDE DEF x
<1>5. /\ y \in Seq(S) /\ Len(y) = Len(x) + Len(o)
      /\ \A i \in 1..(Len(x) + Len(o)) :
            y[i] = IF i <= Len(x) THEN x[i] ELSE o[i - Len(x)]
  <2>1. x \in Seq(S) BY <1>4
  <2> QED BY <2>1, ConcatProperties
<1> HIDE DEF y
<1>6. Len(y) = Len(s) BY <1>1, <1>3, <1>4, <1>5 DEF Split
<1>7. ASSUME NEW i \in 1..Len(y) PROVE y[i] = s[i]
  <2>1. CASE i <= Len(w)
    BY <2>1, <1>1, <1>3, <1>4, <1>5 DEF Split
  <2>2. CASE Len(w) < i /\ i <= Len(x)
    <3>1. i - Len(w) \in 1..(Len(c) - k) BY <2>2, <1>1, <1>3, <1>4
    <3>2. y[i] = x[i] /\ x[i] = m[i - Len(w)]
      BY <3>1, <2>2, <1>1, <1>3, <1>4, <1>5
    <3>4. m[i - Len(w)] = c[k + (i - Len(w))] BY <3>1, <1>3
    <3>3. c[k + (i - Len(w))] = s[Len(w) + (i - Len(w))] BY <3>1 DEF Split
    <3> QED BY <3>2, <3>3, <3>4, <1>1
  <2>3. CASE Len(x) < i
    <3>1. i - Len(x) \in 1..Len(o) BY <2>3, <1>1, <1>3, <1>4, <1>5
    <3>2. y[i] = o[i - Len(x)] BY <3>1, <2>3, <1>1, <1>3, <1>4, <1>5
    <3>3. o[i - Len(x)] = s[Len(w) + (Len(c) - k) + (i - Len(x))]
      BY <3>1 DEF Split
    <3>4. Len(w) + (Len(c) - k) + (i - Len(x)) = i BY <1>1, <1>3, <1>4
    <3> QED BY <3>2, <3>3, <3>4
  <2> QED BY <2>1, <2>2, <2>3, <1>1, <1>3, <1>4
<1>8. y = s BY <1>5, <1>6, <1>7, SeqEqual
<1> QED BY <1>8 DEF x, y, m

-----------------------------------------------------------------------------
(* Handlers and the helpers of the actions keep the types.                  *)

(* A handler without a frame, by its name.                                  *)
LEMMA PlainHandler == ASSUME NEW op \in Plain PROVE H(op) \in Handler /\ H(op).op = op
BY DEF H, Handler

(* The handler that carries a frame.                                        *)
LEMMA AddHandler ==
    ASSUME NEW f \in Frame
    PROVE  Add(f) \in Handler /\ Add(f).op = "append"
BY DEF Add, Handler

(* Posting a plain handler keeps the type of the queue.                     *)
LEMMA QueueType ==
    ASSUME NEW q \in Seq(Handler), NEW op \in Plain
    PROVE  Append(q, H(op)) \in Seq(Handler)
BY PlainHandler, AppendProperties

(* What close() aborts: n handlers of one kind.                             *)
LEMMA AbortedType ==
    ASSUME NEW op \in Plain, NEW n \in Nat
    PROVE  /\ Aborted(op, n) \in Seq(Handler) /\ Len(Aborted(op, n)) = n
           /\ \A i \in 1..n : Aborted(op, n)[i].op = op
<1>1. H(op) \in Handler /\ H(op).op = op BY PlainHandler
<1> QED BY <1>1, Copies DEF Aborted

(* do_recv() keeps the types.                                               *)
LEMMA DoRecvType ==
    ASSUME NEW q \in Seq(Handler), DoRecv(q), reading \in Nat
    PROVE  ioq' \in Seq(Handler) /\ reading' \in Nat
BY QueueType DEF DoRecv, Plain

(* do_send() keeps the types.                                               *)
LEMMA DoSendType ==
    ASSUME NEW q \in Seq(Handler), NEW out \in Seq(Frame), NEW cache \in Seq(Frame),
           DoSend(q, out, cache), writing \in Nat, taken \in Nat
    PROVE  /\ ioq' \in Seq(Handler)
           /\ send_buffer_' \in Seq(Frame) /\ cache_buffer_' \in Seq(Frame)
           /\ sending_' \in BOOLEAN /\ writing' \in Nat /\ taken' \in Nat
<1>1. sending_' \in BOOLEAN BY Zenon DEF DoSend
<1>2. /\ ioq' \in Seq(Handler)
      /\ send_buffer_' \in Seq(Frame) /\ cache_buffer_' \in Seq(Frame)
  BY Zenon DEF DoSend
<1>3. writing' \in Nat /\ taken' \in Nat BY DEF DoSend
<1> QED BY <1>1, <1>2, <1>3

(* Counting an event keeps the type.                                        *)
LEMMA EventsType ==
    ASSUME events \in Events
    PROVE  /\ [events EXCEPT !.connect = @ + 1] \in Events
           /\ [events EXCEPT !.close = @ + 1] \in Events
           /\ [events EXCEPT !.late = @ + 1] \in Events
BY DEF Events

(* TypeOK is inductive as it stands. *)
THEOREM TypeCorrect == Safety => []TypeOK
<1>1. Init => TypeOK
  <2>1. <<>> \in Seq(Handler) /\ <<>> \in Seq(Frame) BY EmptySeq
  <2>2. [connect |-> 0, close |-> 0, late |-> 0] \in Events BY DEF Events
  <2> SUFFICES ASSUME Init PROVE TypeOK OBVIOUS
  <2>3. /\ pc \in [Sender -> {"idle", "append", "post"}]
        /\ calls \in [Sender -> Nat]
    BY DEF Init
  <2>4. seen \in [Sender -> Seq(Frame)] BY <2>1, Zenon DEF Init
  <2> QED BY <2>1, <2>2, <2>3, <2>4 DEF Init, TypeOK
<1>2. TypeOK /\ [Next]_vars => TypeOK'
  <2> SUFFICES ASSUME TypeOK, [Next]_vars PROVE TypeOK'
    OBVIOUS
  <2> USE DEF TypeOK
  <2> DEFINE q == Tail(ioq)
  <2>q. ASSUME ioq # <<>>
        PROVE  q \in Seq(Handler) /\ Head(ioq) \in Handler
    BY <2>q, HeadTailProperties
  <2>1. CASE Accept
    BY <2>1, QueueType DEF Accept, AfterAccept, Plain, opening, choice, buffers, senders, kernel, bounds
  <2>2. CASE ResolveFails
    BY <2>2, QueueType DEF ResolveFails, Plain, choice, buffers, senders, kernel, bounds
  <2>3. CASE Connect
    BY <2>3, QueueType DEF Connect, Plain, choice, buffers, senders, kernel, bounds
  <2>4. CASE AsyncConnect
    BY <2>4 DEF AsyncConnect, choice, buffers, senders, kernel, bounds
  <2>5. CASE StartOnConnect
    BY <2>5, EventsType DEF StartOnConnect, OnConnect, choice, buffers, senders, kernel, bounds
  <2>6. CASE StartRecvCall
    BY <2>6 DEF StartRecvCall, choice, buffers, senders, kernel, bounds
  <2>7. CASE StartRecvReturn
    BY <2>7, DoRecvType DEF StartRecvReturn, choice, buffers, senders, bounds
  <2>8. ASSUME NEW s \in Sender, SendLock(s) PROVE TypeOK'
    BY <2>8 DEF SendLock, buffers, opening, choice, kernel, bounds
  <2>9. ASSUME NEW s \in Sender, SendAppend(s) PROVE TypeOK'
    <3>1. <<s, calls[s]>> \in Frame BY DEF Frame
    <3>2. send_buffer_' \in Seq(Frame) /\ sent' \in Seq(Frame)
      BY <2>9, <3>1, AppendProperties DEF SendAppend
    <3> QED BY <2>9, <3>2 DEF SendAppend, opening, choice, kernel, bounds
  <2>10. ASSUME NEW s \in Sender, SendPost(s) PROVE TypeOK'
    BY <2>10, QueueType DEF SendPost, Plain, buffers, opening, choice, kernel, bounds
  <2>11. ASSUME NEW s \in Sender, SendBuffer(s) PROVE TypeOK'
    <3>1. <<s, calls[s] + 1>> \in Frame BY DEF Frame
    <3>2. ioq' \in Seq(Handler)
      BY <2>11, <3>1, AddHandler, AppendProperties DEF SendBuffer
    <3> QED BY <2>11, <3>2 DEF SendBuffer, buffers, opening, choice, kernel, bounds
  <2>12. CASE Close
    BY <2>12, QueueType DEF Close, Plain, buffers, senders, opening, choice, kernel
  <2>13. CASE RunFlush
    <3>1. q \in Seq(Handler) BY <2>13, <2>q DEF RunFlush, Runs
    <3>2. CASE MayFlush
      <4>1. DoSend(q, send_buffer_, cache_buffer_) BY <2>13, <3>2 DEF RunFlush
      <4> QED BY <2>13, <3>1, <4>1, DoSendType
              DEF RunFlush, senders, opening, choice, bounds
    <3>3. CASE ~MayFlush
      BY <2>13, <3>1, <3>3 DEF RunFlush, buffers, senders, opening, choice, bounds
    <3> QED BY <3>2, <3>3
  <2>14. CASE RunAppend
    <3> DEFINE f == Head(ioq).frame
               out == Append(send_buffer_, f)
    <3>1. q \in Seq(Handler) /\ Head(ioq) \in Handler /\ Head(ioq).op = "append"
      BY <2>14, <2>q DEF RunAppend, Runs
    <3>2. f \in Frame
      BY <3>1 DEF Handler, Plain
    <3>3. out \in Seq(Frame) /\ sent' \in Seq(Frame)
      BY <2>14, <3>2, AppendProperties DEF RunAppend
    <3>4. CASE MayFlush
      <4>1. DoSend(q, out, cache_buffer_) BY <2>14, <3>4 DEF RunAppend
      <4> QED BY <2>14, <3>1, <3>3, <4>1, DoSendType
              DEF RunAppend, senders, opening, choice, bounds
    <3>5. CASE ~MayFlush
      BY <2>14, <3>1, <3>3, <3>5 DEF RunAppend, senders, opening, choice, bounds
    <3> QED BY <3>4, <3>5
  <2>15. CASE RunWritten
    <3>1. q \in Seq(Handler) BY <2>15, <2>q DEF RunWritten, Runs
    <3>2. <<>> \in Seq(Frame) BY EmptySeq
    <3>3. CASE More
      <4>1. DoSend(q, send_buffer_, <<>>)
        BY <2>15, <3>3 DEF RunWritten, CacheAfterWrite
      <4> QED BY <2>15, <3>1, <3>2, <4>1, DoSendType
              DEF RunWritten, senders, opening, choice, bounds
    <3>4. CASE ~More
      <4>1. cache_buffer_' = <<>> /\ sending_' = FALSE /\ taken' = 0 /\ ioq' = q
        BY <2>15, <3>4 DEF RunWritten, CacheAfterWrite
      <4>2. cache_buffer_' \in Seq(Frame) BY <4>1, <3>2, Zenon
      <4>3. UNCHANGED <<open, send_buffer_, writing, senders, opening, reading,
                        broken, wire, bounds, sent, events>>
        BY <2>15, <3>4 DEF RunWritten
      <4> HIDE DEF q
      <4>4. sending_' \in BOOLEAN /\ taken' \in Nat /\ ioq' \in Seq(Handler)
        BY <4>1, <3>1
      <4> QED BY <4>2, <4>3, <4>4 DEF senders, opening, choice, bounds
    <3> QED BY <3>3, <3>4
  <2>c. ASSUME NEW r \in Seq(Handler) PROVE CloseOnError(r) \in Seq(Handler)
    BY QueueType DEF CloseOnError, Plain
  <2>16. CASE RunWriteFailed
    <3>1. q \in Seq(Handler) BY <2>16, <2>q DEF RunWriteFailed, Runs
    <3> QED BY <2>16, <3>1, <2>c
            DEF RunWriteFailed, senders, opening, choice, kernel, bounds
  <2>17. CASE RunRead
    <3>1. q \in Seq(Handler) BY <2>17, <2>q DEF RunRead, Runs
    <3>2. PICK r \in Seq(Handler) : DoRecv(r)
      BY <2>17, <3>1, <2>c DEF RunRead
    <3>3. ioq' \in Seq(Handler) /\ reading' \in Nat
      BY <3>2, DoRecvType
    <3> QED BY <2>17, <3>3, EventsType
            DEF RunRead, buffers, senders, opening, choice, bounds
  <2>18. CASE RunReadFailed
    <3>1. q \in Seq(Handler) BY <2>18, <2>q DEF RunReadFailed, Runs
    <3> QED BY <2>18, <3>1, <2>c
            DEF RunReadFailed, buffers, senders, opening, choice, kernel, bounds
  <2>19. CASE RunConnected
    <3>1. q \in Seq(Handler) BY <2>19, <2>q DEF RunConnected, Runs
    <3>2. ioq' \in Seq(Handler) /\ reading' \in Nat
      BY <2>19, <3>1, DoRecvType DEF RunConnected
    <3> QED BY <2>19, <3>2, EventsType
            DEF RunConnected, OnConnect, buffers, senders, opening, choice, bounds
  <2>20. CASE RunConnectFailed
    <3>1. q \in Seq(Handler) BY <2>20, <2>q DEF RunConnectFailed, Runs
    <3> QED BY <2>20, <3>1, <2>c
            DEF RunConnectFailed, buffers, senders, opening, choice, kernel, bounds
  <2>21. CASE RunClose
    <3>1. q \in Seq(Handler) BY <2>21, <2>q DEF RunClose, Runs
    <3>2. q \o Aborted("read_failed", reading) \o Aborted("write_failed", writing)
            \in Seq(Handler)
      BY <3>1, AbortedType, ConcatProperties DEF Plain
    <3>3. CASE CloseRuns
      <4>1. open' = FALSE /\ reading' = 0 /\ writing' = 0
        BY <2>21, <3>3 DEF RunClose, OpenAfterClose, ReadsAfterClose
      <4>2. ioq' \in Seq(Handler) /\ events' \in Events
        BY <2>21, <3>2, <3>3, EventsType DEF RunClose
      <4> QED BY <2>21, <4>1, <4>2
              DEF RunClose, buffers, senders, opening, choice, bounds
    <3>4. CASE ~CloseRuns
      BY <2>21, <3>1, <3>4
      DEF RunClose, buffers, senders, opening, choice, bounds
    <3> QED BY <3>3, <3>4
  <2>22. CASE WriteProgress
    <3>1. cache_buffer_[taken + 1] \in Frame
      BY <2>22, ElementOfSeq, LenProperties DEF WriteProgress
    <3>2. wire' \in Seq(Frame)
      BY <2>22, <3>1, AppendProperties DEF WriteProgress
    <3> QED BY <2>22, <3>2
            DEF WriteProgress, buffers, senders, opening, choice, bounds
  <2>23. CASE WriteCompletes
    BY <2>23, QueueType
    DEF WriteCompletes, Plain, buffers, senders, opening, choice, bounds
  <2>24. CASE WriteFails
    BY <2>24, QueueType
    DEF WriteFails, Plain, buffers, senders, opening, choice, bounds
  <2>25. CASE ReadCompletes
    BY <2>25, QueueType
    DEF ReadCompletes, Plain, buffers, senders, opening, choice, bounds
  <2>26. CASE ReadFails
    BY <2>26, QueueType
    DEF ReadFails, Plain, buffers, senders, opening, choice, bounds
  <2>27. CASE Break
    BY <2>27 DEF Break, buffers, senders, opening, choice, bounds
  <2>28. CASE ConnectCompletes
    BY <2>28, QueueType
    DEF ConnectCompletes, Plain, buffers, senders, choice, kernel, bounds
  <2>29. CASE UNCHANGED vars
    BY <2>29 DEF vars, buffers, senders, opening, choice, kernel, bounds
  <2> QED
    BY <2>1, <2>2, <2>3, <2>4, <2>5, <2>6, <2>7, <2>8, <2>9, <2>10, <2>11, <2>12,
       <2>13, <2>14, <2>15, <2>16, <2>17, <2>18, <2>19, <2>20, <2>21, <2>22,
       <2>23, <2>24, <2>25, <2>26, <2>27, <2>28, <2>29
    DEF Next, Opener, Send, IoThread, Kernel
<1> QED BY <1>1, <1>2, PTL DEF Safety

-----------------------------------------------------------------------------
(* One write at a time.  OneWrite is not inductive: that the handler of a   *)
(* write finds no other write under way needs the number of such handlers   *)
(* in the queue, and that a closed socket has no write outstanding.         *)

Done == {"written", "write_failed"}

WriteInv ==
    /\ writing <= 1
    /\ writing = 1 => open /\ NoneOf(ioq, Done)
    /\ AtMostOneOf(ioq, Done)
    /\ sending_ <=> writing = 1 \/ ~NoneOf(ioq, Done)

(* The queue r has the write handlers the queue of this state has. *)
Keeps(r) == /\ NoneOf(r, Done) <=> NoneOf(ioq, Done)
            /\ AtMostOneOf(ioq, Done) => AtMostOneOf(r, Done)

(* Posting a handler of another kind keeps the write handlers.              *)
LEMMA KeepsPost ==
    ASSUME NEW r \in Seq(Handler), NEW h \in Handler, h.op \notin Done, Keeps(r)
    PROVE  Keeps(Append(r, h))
BY AppendOther DEF Keeps

(* So does running one.                                                     *)
LEMMA KeepsTail ==
    ASSUME ioq \in Seq(Handler), ioq # <<>>, Head(ioq).op \notin Done
    PROVE  Keeps(Tail(ioq))
BY TailOther DEF Keeps

(* A step that keeps the write handlers keeps the invariant.                *)
LEMMA KeepsInv ==
    ASSUME WriteInv, Keeps(ioq'), writing' = writing, sending_' = sending_,
           open => open'
    PROVE  WriteInv'
BY DEF WriteInv, Keeps

(* do_send() from a handler that has found, or made, sending_ false. *)
LEMMA DoSendWrites ==
    ASSUME NEW q \in Seq(Handler), NEW out, NEW cache,
           DoSend(q, out, cache), NoneOf(q, Done), writing = 0, open' = open
    PROVE  WriteInv'
<1>1. AtMostOneOf(q, Done) BY DEF NoneOf, AtMostOneOf
<1>2. ioq' = q BY DEF DoSend
<1>3. \/ writing' = 0 /\ sending_' = FALSE
      \/ writing' = 1 /\ sending_' = TRUE /\ open
  BY DEF DoSend
<1> QED BY <1>1, <1>2, <1>3 DEF WriteInv

(* One write at a time, in terms of the queue (tcp_session.h:228-232).      *)
THEOREM WritesCorrect == Safety => []WriteInv
<1>1. Init => WriteInv
  <2> SUFFICES ASSUME Init PROVE WriteInv OBVIOUS
  <2>1. NoneOf(ioq, Done) /\ AtMostOneOf(ioq, Done)
    BY DEF Init, NoneOf, AtMostOneOf
  <2>2. writing = 0 /\ sending_ = FALSE BY DEF Init
  <2> QED BY <2>1, <2>2 DEF WriteInv
<1>2. TypeOK /\ WriteInv /\ [Next]_vars => WriteInv'
  <2> SUFFICES ASSUME TypeOK, WriteInv, [Next]_vars PROVE WriteInv'
    OBVIOUS
  <2> DEFINE q == Tail(ioq)
  <2>q. ASSUME ioq # <<>> PROVE q \in Seq(Handler)
    BY <2>q, HeadTailProperties DEF TypeOK
  <2>t. ioq \in Seq(Handler) /\ writing \in Nat /\ reading \in Nat
    BY DEF TypeOK
  <2>k. Keeps(ioq) BY DEF Keeps
  <2>p. ASSUME NEW r \in Seq(Handler), Keeps(r), NEW op \in Plain \ Done
        PROVE  Append(r, H(op)) \in Seq(Handler) /\ Keeps(Append(r, H(op)))
    BY <2>p, KeepsPost, PlainHandler, QueueType
  <2>c. ASSUME NEW r \in Seq(Handler), Keeps(r)
        PROVE  CloseOnError(r) \in Seq(Handler) /\ Keeps(CloseOnError(r))
    BY <2>c, <2>p DEF CloseOnError, Plain, Done
  <2>r. ASSUME NEW r \in Seq(Handler), Keeps(r), DoRecv(r)
        PROVE  Keeps(ioq')
    BY <2>r, <2>p DEF DoRecv, Plain, Done
  <2>1. CASE Accept
    <3>1. Keeps(ioq') BY <2>1, <2>k, <2>t, <2>p DEF Accept, Plain, Done
    <3> QED BY <2>1, <3>1, KeepsInv DEF Accept, buffers, kernel
  <2>2. CASE ResolveFails
    <3>1. Keeps(ioq') BY <2>2, <2>k, <2>t, <2>p DEF ResolveFails, Plain, Done
    <3> QED BY <2>2, <3>1, KeepsInv DEF ResolveFails, buffers, kernel
  <2>3. CASE Connect
    <3>1. Keeps(ioq') BY <2>3, <2>k, <2>t, <2>p DEF Connect, Plain, Done
    <3> QED BY <2>3, <3>1, KeepsInv DEF Connect, buffers, kernel
  <2>4. CASE AsyncConnect
    BY <2>4, <2>k, KeepsInv DEF AsyncConnect, buffers, kernel
  <2>5. CASE StartOnConnect
    BY <2>5, <2>k, KeepsInv DEF StartOnConnect, buffers, kernel
  <2>6. CASE StartRecvCall
    BY <2>6, <2>k, KeepsInv DEF StartRecvCall, buffers, kernel
  <2>7. CASE StartRecvReturn
    <3>1. Keeps(ioq') BY <2>7, <2>k, <2>t, <2>r DEF StartRecvReturn
    <3> QED BY <2>7, <3>1, KeepsInv DEF StartRecvReturn, buffers
  <2>8. ASSUME NEW s \in Sender, SendLock(s) PROVE WriteInv'
    BY <2>8, <2>k, KeepsInv DEF SendLock, buffers, kernel
  <2>9. ASSUME NEW s \in Sender, SendAppend(s) PROVE WriteInv'
    BY <2>9, <2>k, KeepsInv DEF SendAppend, kernel
  <2>10. ASSUME NEW s \in Sender, SendPost(s) PROVE WriteInv'
    <3>1. Keeps(ioq') BY <2>10, <2>k, <2>t, <2>p DEF SendPost, Plain, Done
    <3> QED BY <2>10, <3>1, KeepsInv DEF SendPost, buffers, kernel
  <2>11. ASSUME NEW s \in Sender, SendBuffer(s) PROVE WriteInv'
    <3>1. <<s, calls[s] + 1>> \in Frame BY DEF Frame, TypeOK
    <3>2. Keeps(ioq')
      BY <2>11, <2>k, <2>t, <3>1, AddHandler, KeepsPost DEF SendBuffer, Done
    <3> QED BY <2>11, <3>2, KeepsInv DEF SendBuffer, buffers, kernel
  <2>12. CASE Close
    <3>1. Keeps(ioq') BY <2>12, <2>k, <2>t, <2>p DEF Close, Plain, Done
    <3> QED BY <2>12, <3>1, KeepsInv DEF Close, buffers, kernel
  <2>13. CASE RunFlush
    <3>1. q \in Seq(Handler) /\ Keeps(q)
      BY <2>13, <2>q, <2>t, KeepsTail DEF RunFlush, Runs, Done
    <3>2. CASE MayFlush
      <4>1. DoSend(q, send_buffer_, cache_buffer_) BY <2>13, <3>2 DEF RunFlush
      <4>2. writing = 0 /\ NoneOf(q, Done)
        BY <3>1, <3>2, <2>t DEF MayFlush, WriteInv, Keeps
      <4> QED BY <2>13, <3>1, <4>1, <4>2, DoSendWrites DEF RunFlush
    <3>3. CASE ~MayFlush
      BY <2>13, <3>1, <3>3, KeepsInv DEF RunFlush, buffers
    <3> QED BY <3>2, <3>3
  <2>14. CASE RunAppend
    <3> DEFINE out == Append(send_buffer_, Head(ioq).frame)
    <3>1. q \in Seq(Handler) /\ Keeps(q)
      BY <2>14, <2>q, <2>t, KeepsTail DEF RunAppend, Runs, Done
    <3>2. CASE MayFlush
      <4>1. DoSend(q, out, cache_buffer_) BY <2>14, <3>2 DEF RunAppend
      <4>2. writing = 0 /\ NoneOf(q, Done)
        BY <3>1, <3>2, <2>t DEF MayFlush, WriteInv, Keeps
      <4> QED BY <2>14, <3>1, <4>1, <4>2, DoSendWrites DEF RunAppend
    <3>3. CASE ~MayFlush
      BY <2>14, <3>1, <3>3, KeepsInv DEF RunAppend
    <3> QED BY <3>2, <3>3
  (* A write handler is the only one, and no write is outstanding. *)
  <2>w. ASSUME ioq # <<>>, Head(ioq).op \in Done
        PROVE  writing = 0 /\ NoneOf(q, Done)
    <3>1. NoneOf(q, Done) BY <2>w, <2>t, TailOnly DEF WriteInv
    <3>2. Head(ioq) = ioq[1] /\ 1 \in 1..Len(ioq)
      BY <2>w, <2>t, EmptySeq, LenProperties
    <3>3. ~NoneOf(ioq, Done) BY <2>w, <3>2 DEF NoneOf
    <3> QED BY <3>1, <3>3, <2>t DEF WriteInv
  <2>15. CASE RunWritten
    <3>1. writing = 0 /\ NoneOf(q, Done) /\ q \in Seq(Handler)
      BY <2>15, <2>w, <2>q DEF RunWritten, Runs, Done
    <3>2. CASE More
      <4>1. DoSend(q, send_buffer_, <<>>)
        BY <2>15, <3>2 DEF RunWritten, CacheAfterWrite
      <4> QED BY <2>15, <3>1, <4>1, DoSendWrites DEF RunWritten
    <3>3. CASE ~More
      <4>1. ioq' = q /\ sending_' = FALSE /\ writing' = 0
        BY <2>15, <3>1, <3>3 DEF RunWritten
      <4>2. AtMostOneOf(q, Done) BY <3>1 DEF NoneOf, AtMostOneOf
      <4> QED BY <3>1, <4>1, <4>2 DEF WriteInv
    <3> QED BY <3>2, <3>3
  <2>16. CASE RunWriteFailed
    <3>1. writing = 0 /\ NoneOf(q, Done) /\ q \in Seq(Handler)
      BY <2>16, <2>w, <2>q DEF RunWriteFailed, Runs, Done
    <3>2. H("close") \in Handler /\ H("close").op \notin Done
      BY PlainHandler DEF Plain, Done
    <3>3. NoneOf(ioq', Done)
      BY <2>16, <3>1, <3>2, AppendOther DEF RunWriteFailed, CloseOnError
    <3>4. AtMostOneOf(ioq', Done) BY <3>3 DEF NoneOf, AtMostOneOf
    <3>5. sending_' = FALSE /\ writing' = 0
      BY <2>16, <3>1 DEF RunWriteFailed, kernel
    <3> QED BY <3>3, <3>4, <3>5 DEF WriteInv
  <2>17. CASE RunRead
    <3>1. q \in Seq(Handler) /\ Keeps(q)
      BY <2>17, <2>q, <2>t, KeepsTail DEF RunRead, Runs, Done
    <3>2. Keeps(ioq') BY <2>17, <3>1, <2>c, <2>r DEF RunRead
    <3> QED BY <2>17, <3>2, KeepsInv DEF RunRead, buffers
  <2>18. CASE RunReadFailed
    <3>1. q \in Seq(Handler) /\ Keeps(q)
      BY <2>18, <2>q, <2>t, KeepsTail DEF RunReadFailed, Runs, Done
    <3>2. Keeps(ioq') BY <2>18, <3>1, <2>c DEF RunReadFailed
    <3> QED BY <2>18, <3>2, KeepsInv DEF RunReadFailed, buffers, kernel
  <2>19. CASE RunConnected
    <3>1. q \in Seq(Handler) /\ Keeps(q)
      BY <2>19, <2>q, <2>t, KeepsTail DEF RunConnected, Runs, Done
    <3>2. Keeps(ioq') BY <2>19, <3>1, <2>r DEF RunConnected
    <3> QED BY <2>19, <3>2, KeepsInv DEF RunConnected, buffers
  <2>20. CASE RunConnectFailed
    <3>1. q \in Seq(Handler) /\ Keeps(q)
      BY <2>20, <2>q, <2>t, KeepsTail DEF RunConnectFailed, Runs, Done
    <3>2. Keeps(ioq') BY <2>20, <3>1, <2>c DEF RunConnectFailed
    <3> QED BY <2>20, <3>2, KeepsInv DEF RunConnectFailed, buffers, kernel
  <2>21. CASE RunClose
    <3> DEFINE rs == Aborted("read_failed", reading)
               ws == Aborted("write_failed", writing)
    <3>1. q \in Seq(Handler) /\ Keeps(q)
      BY <2>21, <2>q, <2>t, KeepsTail DEF RunClose, Runs, Done
    <3>2. CASE ~CloseRuns
      BY <2>21, <3>1, <3>2, KeepsInv DEF RunClose, buffers
    <3>3. CASE CloseRuns
      <4>1. /\ rs \in Seq(Handler) /\ NoneOf(rs, Done)
            /\ ws \in Seq(Handler) /\ Len(ws) = writing
        BY <2>t, AbortedType DEF Plain, NoneOf, Done
      <4>2. q \o rs \in Seq(Handler) /\ Keeps(q \o rs)
        BY <3>1, <4>1, ConcatOther, ConcatProperties DEF Keeps
      <4>3. ioq' = (q \o rs) \o ws /\ writing' = 0 /\ sending_' = sending_
        BY <2>21, <3>3 DEF RunClose, buffers
      <4>4. CASE writing = 0
        <5>1. NoneOf(ws, Done) BY <4>1, <4>4 DEF NoneOf
        <5>2. Keeps(ioq') BY <4>1, <4>2, <4>3, <5>1, ConcatOther DEF Keeps
        <5> QED BY <4>3, <4>4, <5>2 DEF WriteInv, Keeps
      <4>5. CASE writing = 1
        <5>1. NoneOf(q \o rs, Done) BY <4>2, <4>5 DEF Keeps, WriteInv
        <5>2. ws[1].op \in Done BY <4>5, AbortedType DEF Plain, Done
        <5>3. AtMostOneOf(ioq', Done) /\ ~NoneOf(ioq', Done)
          BY <4>1, <4>2, <4>3, <4>5, <5>1, <5>2, ConcatFirst
        <5> QED BY <4>3, <4>5, <5>3 DEF WriteInv
      <4> QED BY <4>4, <4>5, <2>t DEF WriteInv
    <3> QED BY <3>2, <3>3
  <2>22. CASE WriteProgress
    BY <2>22, <2>k, KeepsInv DEF WriteProgress, buffers
  (* The kernel posts the one handler of the one write. *)
  <2>d. ASSUME NEW op \in Done, writing > 0, writing' = writing - 1,
               ioq' = Append(ioq, H(op)), sending_' = sending_
        PROVE  WriteInv'
    <3>1. writing = 1 /\ writing' = 0 /\ NoneOf(ioq, Done)
      BY <2>d, <2>t DEF WriteInv
    <3>2. H(op) \in Handler /\ H(op).op \in Done
      BY PlainHandler DEF Plain, Done
    <3>3. AtMostOneOf(ioq', Done) /\ ~NoneOf(ioq', Done)
      BY <2>d, <2>t, <3>1, <3>2, AppendFirst
    <3> QED BY <2>d, <3>1, <3>3 DEF WriteInv
  <2>23. CASE WriteCompletes
    BY <2>23, <2>d DEF WriteCompletes, buffers, Done
  <2>24. CASE WriteFails
    BY <2>24, <2>d DEF WriteFails, buffers, Done
  <2>25. CASE ReadCompletes
    <3>1. Keeps(ioq') BY <2>25, <2>k, <2>t, <2>p DEF ReadCompletes, Plain, Done
    <3> QED BY <2>25, <3>1, KeepsInv DEF ReadCompletes, buffers
  <2>26. CASE ReadFails
    <3>1. Keeps(ioq') BY <2>26, <2>k, <2>t, <2>p DEF ReadFails, Plain, Done
    <3> QED BY <2>26, <3>1, KeepsInv DEF ReadFails, buffers
  <2>27. CASE Break
    BY <2>27, <2>k, KeepsInv DEF Break, buffers
  <2>28. CASE ConnectCompletes
    <3>1. Keeps(ioq')
      BY <2>28, <2>k, <2>t, <2>p DEF ConnectCompletes, Plain, Done
    <3> QED BY <2>28, <3>1, KeepsInv DEF ConnectCompletes, buffers, kernel
  <2>29. CASE UNCHANGED vars
    BY <2>29, <2>k, KeepsInv DEF vars, buffers, kernel
  <2> QED
    BY <2>1, <2>2, <2>3, <2>4, <2>5, <2>6, <2>7, <2>8, <2>9, <2>10, <2>11, <2>12,
       <2>13, <2>14, <2>15, <2>16, <2>17, <2>18, <2>19, <2>20, <2>21, <2>22,
       <2>23, <2>24, <2>25, <2>26, <2>27, <2>28, <2>29
    DEF Next, Opener, Send, IoThread, Kernel
<1> QED BY <1>1, <1>2, TypeCorrect, PTL DEF Safety

(* At most one async_write is outstanding, and sending_ says so. *)
THEOREM OneWriteHolds == Safety => []OneWrite
<1>1. TypeOK /\ WriteInv => OneWrite
  <2> SUFFICES ASSUME TypeOK, WriteInv PROVE OneWrite
    OBVIOUS
  <2>1. DOMAIN ioq = 1..Len(ioq) BY LenProperties DEF TypeOK
  <2>2. Queued({"written", "write_failed"}) # {} <=> ~NoneOf(ioq, Done)
    BY <2>1 DEF Queued, NoneOf, Done
  <2> QED BY <2>2 DEF OneWrite, WriteInv
<1> QED BY <1>1, TypeCorrect, WritesCorrect, PTL

(* The buffer given to async_write stays as it is until the write is over:  *)
(* only do_send() and the write handler touch cache_buffer_, and they run   *)
(* when sending_ is false or the write is done.                             *)
THEOREM BufferStableHolds == Safety => BufferStable
<1>1. TypeOK /\ WriteInv /\ [Next]_vars
        => [writing > 0 /\ writing' > 0 => cache_buffer_' = cache_buffer_]_vars
  <2> SUFFICES ASSUME TypeOK, WriteInv, [Next]_vars, writing > 0
               PROVE  cache_buffer_' = cache_buffer_
    OBVIOUS
  <2>1. sending_ = TRUE /\ writing = 1 /\ NoneOf(ioq, Done) /\ writing # 0
    BY DEF TypeOK, WriteInv
  <2>2. CASE RunFlush
    BY <2>1, <2>2 DEF RunFlush, MayFlush, buffers
  <2>3. CASE RunAppend
    BY <2>1, <2>3 DEF RunAppend, MayFlush
  <2>4. CASE RunWritten
    <3>1. Head(ioq) = ioq[1] /\ 1 \in 1..Len(ioq) /\ ioq[1].op \in Done
      BY <2>4, EmptySeq, LenProperties DEF RunWritten, Runs, TypeOK, Done
    <3> QED BY <2>1, <3>1 DEF NoneOf
  <2>5. CASE Opener
    BY <2>5 DEF Opener, Accept, ResolveFails, Connect, AsyncConnect, StartOnConnect,
                StartRecvCall, StartRecvReturn, buffers
  <2>6. ASSUME NEW s \in Sender, Send(s) PROVE cache_buffer_' = cache_buffer_
    BY <2>6 DEF Send, SendLock, SendAppend, SendPost, SendBuffer, buffers
  <2>7. CASE RunWriteFailed \/ RunRead \/ RunReadFailed \/ RunConnected
             \/ RunConnectFailed \/ RunClose \/ Close
    BY <2>7 DEF RunWriteFailed, RunRead, RunReadFailed, RunConnected,
                RunConnectFailed, RunClose, Close, buffers
  <2>8. CASE Kernel
    BY <2>8 DEF Kernel, WriteProgress, WriteCompletes, WriteFails, ReadCompletes,
                ReadFails, Break, ConnectCompletes, buffers
  <2>9. CASE UNCHANGED vars
    BY <2>9 DEF vars, buffers
  <2> QED BY <2>2, <2>3, <2>4, <2>5, <2>6, <2>7, <2>8, <2>9 DEF Next, IoThread
<1> QED BY <1>1, TypeCorrect, WritesCorrect, PTL DEF Safety, BufferStable

-----------------------------------------------------------------------------
(* What the stream rests on: the lock protects append(), a failure is for   *)
(* good, and a healthy session has no failed write to handle.               *)

LockInv ==
    \A s \in Sender : pc[s] = "append" => holder = {s} /\ seen[s] = send_buffer_

(* Who posts a handler: a kind that is not queued is queued by a step only   *)
(* if the step is one of those that post that kind.                         *)
LEMMA NonePosted ==
    ASSUME TypeOK, [Next]_vars, NEW K, NoneOf(ioq, K),
           "flush" \in K => \A s \in Sender : ~SendPost(s),
           "append" \in K => \A s \in Sender : ~SendBuffer(s),
           "close" \in K => ~(ResolveFails \/ Connect \/ Close \/ RunWriteFailed \/ RunRead
                              \/ RunReadFailed \/ RunConnectFailed),
           "read" \in K => ~ReadCompletes,
           "read_failed" \in K => ~(ReadFails \/ RunRead \/ RunConnected \/ StartRecvReturn)
                                  /\ (RunClose => reading = 0),
           "written" \in K => ~WriteCompletes,
           "write_failed" \in K => ~WriteFails /\ (RunClose /\ open => writing = 0),
           "connected" \in K => ~Accept /\ ~ConnectCompletes,
           "connect_failed" \in K => ~ConnectCompletes
    PROVE  NoneOf(ioq', K)
<1> DEFINE q == Tail(ioq)
<1>t. ioq \in Seq(Handler) /\ reading \in Nat /\ writing \in Nat
  BY DEF TypeOK
<1>q. ASSUME ioq # <<>> PROVE q \in Seq(Handler) /\ NoneOf(q, K)
  BY <1>q, <1>t, HeadTailProperties, TailNone
<1>p. ASSUME NEW r \in Seq(Handler), NoneOf(r, K), NEW op \in Plain, op \notin K
      PROVE  Append(r, H(op)) \in Seq(Handler) /\ NoneOf(Append(r, H(op)), K)
  BY <1>p, PlainHandler, QueueType, AppendOther
<1>c. ASSUME NEW r \in Seq(Handler), NoneOf(r, K), "close" \notin K
      PROVE  CloseOnError(r) \in Seq(Handler) /\ NoneOf(CloseOnError(r), K)
  BY <1>c, <1>p DEF CloseOnError, Plain
<1>r. ASSUME NEW r \in Seq(Handler), NoneOf(r, K), DoRecv(r), "read_failed" \notin K
      PROVE  NoneOf(ioq', K)
  BY <1>r, <1>p DEF DoRecv, Plain
<1>1. CASE Opener
  <2>1. CASE Accept BY <2>1, <1>t, <1>p DEF Accept, Plain
  <2>2. CASE ResolveFails \/ Connect
    BY <2>2, <1>t, <1>p DEF ResolveFails, Connect, Plain
  <2>3. CASE AsyncConnect \/ StartOnConnect \/ StartRecvCall
    BY <2>3 DEF AsyncConnect, StartOnConnect, StartRecvCall
  <2>4. CASE StartRecvReturn BY <2>4, <1>t, <1>r DEF StartRecvReturn
  <2> QED BY <1>1, <2>1, <2>2, <2>3, <2>4 DEF Opener
<1>2. ASSUME NEW s \in Sender, Send(s) PROVE NoneOf(ioq', K)
  <2>1. CASE SendLock(s) \/ SendAppend(s)
    BY <2>1 DEF SendLock, SendAppend
  <2>2. CASE SendPost(s)
    BY <2>2, <1>t, <1>p DEF SendPost, Plain
  <2>3. CASE SendBuffer(s)
    <3>1. <<s, calls[s] + 1>> \in Frame BY DEF Frame, TypeOK
    <3>2. /\ Add(<<s, calls[s] + 1>>) \in Handler
          /\ Add(<<s, calls[s] + 1>>).op \notin K
      BY <2>3, <3>1, AddHandler
    <3> QED BY <2>3, <1>t, <3>2, AppendOther DEF SendBuffer
  <2> QED BY <1>2, <2>1, <2>2, <2>3 DEF Send
<1>3. CASE Close
  BY <1>3, <1>t, <1>p DEF Close, Plain
<1>4. CASE RunFlush \/ RunAppend \/ RunWritten
  <2>1. ioq # <<>> /\ ioq' = q
    BY <1>4 DEF RunFlush, RunAppend, RunWritten, DoSend, Runs
  <2> QED BY <2>1, <1>q
<1>5. CASE RunWriteFailed \/ RunReadFailed \/ RunConnectFailed
  <2>1. ioq # <<>> /\ ioq' = CloseOnError(q)
    BY <1>5 DEF RunWriteFailed, RunReadFailed, RunConnectFailed, Runs
  <2> QED BY <1>5, <2>1, <1>q, <1>c
<1>6. CASE RunRead
  <2>1. q \in Seq(Handler) /\ NoneOf(q, K) BY <1>6, <1>q DEF RunRead, Runs
  <2>2. "close" \notin K /\ "read_failed" \notin K BY <1>6
  <2>3. PICK parse_error \in BOOLEAN : DoRecv(IF parse_error THEN CloseOnError(q) ELSE q)
    BY <1>6 DEF RunRead
  <2> QED BY <2>1, <2>2, <2>3, <1>c, <1>r
<1>7. CASE RunConnected
  <2>1. q \in Seq(Handler) /\ NoneOf(q, K) BY <1>7, <1>q DEF RunConnected, Runs
  <2> QED BY <1>7, <2>1, <1>r DEF RunConnected
<1>8. CASE RunClose
  <2>1. q \in Seq(Handler) /\ NoneOf(q, K) BY <1>8, <1>q DEF RunClose, Runs
  <2>2. CASE ~open
    BY <1>8, <2>1, <2>2 DEF RunClose, CloseRuns
  <2>3. CASE open
    <3> DEFINE rs == Aborted("read_failed", reading)
               ws == Aborted("write_failed", writing)
    <3>1. /\ rs \in Seq(Handler) /\ Len(rs) = reading
          /\ \A i \in 1..reading : rs[i].op = "read_failed"
      BY <1>t, AbortedType DEF Plain
    <3>2. /\ ws \in Seq(Handler) /\ Len(ws) = writing
          /\ \A i \in 1..writing : ws[i].op = "write_failed"
      BY <1>t, AbortedType DEF Plain
    <3>3. ioq' = (q \o rs) \o ws BY <1>8, <2>3 DEF RunClose, CloseRuns
    <3> HIDE DEF rs, ws
    <3>4. NoneOf(rs, K) BY <1>8, <1>t, <3>1 DEF NoneOf
    <3>5. NoneOf(ws, K) BY <1>8, <2>3, <1>t, <3>2 DEF NoneOf
    <3>6. q \o rs \in Seq(Handler) /\ NoneOf(q \o rs, K)
      BY <2>1, <3>1, <3>4, ConcatOther, ConcatProperties
    <3> QED BY <3>2, <3>3, <3>5, <3>6, ConcatOther
  <2> QED BY <2>2, <2>3
<1>9. CASE Kernel
  <2>1. CASE WriteProgress \/ Break BY <2>1 DEF WriteProgress, Break
  <2>2. CASE WriteCompletes BY <2>2, <1>t, <1>p DEF WriteCompletes, Plain
  <2>3. CASE WriteFails BY <2>3, <1>t, <1>p DEF WriteFails, Plain
  <2>4. CASE ReadCompletes BY <2>4, <1>t, <1>p DEF ReadCompletes, Plain
  <2>5. CASE ReadFails BY <2>5, <1>t, <1>p DEF ReadFails, Plain
  <2>6. CASE ConnectCompletes BY <2>6, <1>t, <1>p DEF ConnectCompletes, Plain
  <2> QED BY <1>9, <2>1, <2>2, <2>3, <2>4, <2>5, <2>6 DEF Kernel
<1>10. CASE UNCHANGED vars
  BY <1>10 DEF vars
<1> QED BY <1>1, <1>2, <1>3, <1>4, <1>5, <1>6, <1>7, <1>8, <1>9, <1>10
        DEF Next, IoThread

(* The two overloads of send() are not mixed: the append that is posted     *)
(* takes no lock, so it must not meet one that is made under the lock.      *)
ApiInv ==
    /\ api = "chars" => NoneOf(ioq, {"append"})
    /\ \A s \in Sender : pc[s] = "append" => api = "chars"

(* An application that chose one overload of send() stays with it.          *)
THEOREM ApiCorrect == Safety => []ApiInv
<1>1. Init => ApiInv
  BY DEF Init, ApiInv, NoneOf
<1>2. TypeOK /\ ApiInv /\ [Next]_vars => ApiInv'
  <2> SUFFICES ASSUME TypeOK, ApiInv, [Next]_vars PROVE ApiInv'
    OBVIOUS
  <2>1. api' = api
    BY DEF Next, Opener, Send, IoThread, Kernel, vars, opening, choice,
           Accept, ResolveFails, Connect, AsyncConnect, StartOnConnect,
           StartRecvCall, StartRecvReturn, SendLock, SendAppend, SendPost, SendBuffer,
           Close, RunFlush, RunAppend, RunWritten, RunWriteFailed, RunRead,
           RunReadFailed, RunConnected, RunConnectFailed, RunClose, WriteProgress,
           WriteCompletes, WriteFails, ReadCompletes, ReadFails, Break,
           ConnectCompletes
  <2>2. api = "chars" => NoneOf(ioq', {"append"})
    <3>1. api = "chars" => \A s \in Sender : ~SendBuffer(s) BY DEF SendBuffer
    <3> QED BY <3>1, NonePosted DEF ApiInv
  <2>3. ASSUME NEW t \in Sender, pc'[t] = "append" PROVE api = "chars"
    <3>1. CASE UNCHANGED pc
      BY <3>1, <2>3 DEF ApiInv
    <3>2. ASSUME NEW s \in Sender, Send(s) PROVE api = "chars"
      BY <3>2, <2>3 DEF Send, SendLock, SendAppend, SendPost, SendBuffer, ApiInv,
                        TypeOK
    <3>3. CASE Opener \/ Close
      BY <3>1, <3>3 DEF Opener, Accept, ResolveFails, Connect, AsyncConnect,
                        StartOnConnect, StartRecvCall, StartRecvReturn, Close, senders
    <3>4. CASE IoThread
      BY <3>1, <3>4 DEF IoThread, RunFlush, RunAppend, RunWritten, RunWriteFailed,
                        RunRead, RunReadFailed, RunConnected, RunConnectFailed,
                        RunClose, senders
    <3>5. CASE Kernel \/ UNCHANGED vars
      BY <3>1, <3>5 DEF Kernel, WriteProgress, WriteCompletes, WriteFails,
                        ReadCompletes, ReadFails, Break, ConnectCompletes, vars,
                        senders
    <3> QED BY <3>2, <3>3, <3>4, <3>5 DEF Next
  <2> QED BY <2>1, <2>2, <2>3 DEF ApiInv
<1> QED BY <1>1, <1>2, TypeCorrect, PTL DEF Safety

(* The handler about to run is in the queue. *)
LEMMA RunsQueued ==
    ASSUME TypeOK, NEW op, Runs(op), NEW K, op \in K
    PROVE  ~NoneOf(ioq, K)
<1>1. Head(ioq) = ioq[1] /\ 1 \in 1..Len(ioq)
  BY EmptySeq, LenProperties DEF TypeOK, Runs
<1> QED BY <1>1 DEF NoneOf, Runs

Failed == {"write_failed"}

HealthInv ==
    /\ open => events.close = 0
    /\ opener = "new" => ~open /\ events.close = 0
    /\ Healthy => NoneOf(ioq, Failed)

(* broken is never reset, and on_close is never taken back. *)
LEMMA HealthStep ==
    ASSUME TypeOK, [Next]_vars, Healthy'
    PROVE  Healthy
<1>1. events.close \in Nat BY DEF TypeOK, Events
<1>2. CASE RunClose
  BY <1>1, <1>2 DEF RunClose, Healthy, TypeOK, Events
<1>3. CASE Opener
  BY <1>3 DEF Opener, Accept, ResolveFails, Connect, AsyncConnect, StartOnConnect,
              OnConnect, StartRecvCall, StartRecvReturn, kernel, Healthy, TypeOK, Events
<1>4. ASSUME NEW s \in Sender, Send(s) PROVE Healthy
  BY <1>4 DEF Send, SendLock, SendAppend, SendPost, SendBuffer, kernel, Healthy
<1>5. CASE RunFlush \/ RunAppend \/ RunWritten \/ RunWriteFailed \/ RunReadFailed
           \/ RunConnectFailed \/ Close
  BY <1>5 DEF RunFlush, RunAppend, RunWritten, RunWriteFailed, RunReadFailed,
              RunConnectFailed, Close, kernel, Healthy
<1>6. CASE RunRead \/ RunConnected
  BY <1>6 DEF RunRead, RunConnected, OnConnect, Healthy, TypeOK, Events
<1>7. CASE Kernel
  BY <1>7 DEF Kernel, WriteProgress, WriteCompletes, WriteFails, ReadCompletes,
              ReadFails, Break, ConnectCompletes, kernel, Healthy
<1>8. CASE UNCHANGED vars
  BY <1>8 DEF vars, kernel, Healthy
<1> QED BY <1>2, <1>3, <1>4, <1>5, <1>6, <1>7, <1>8 DEF Next, IoThread

(* append() under write_mutex_ writes back what it read.                    *)
THEOREM LockCorrect == Safety => []LockInv
<1>1. Init => LockInv
  BY DEF Init, LockInv
<1>2. TypeOK /\ ApiInv /\ LockInv /\ [Next]_vars => LockInv'
  <2> SUFFICES ASSUME TypeOK, ApiInv, LockInv, [Next]_vars, NEW t \in Sender,
                      pc'[t] = "append"
               PROVE  holder' = {t} /\ seen'[t] = send_buffer_'
    BY DEF LockInv
  <2>l. pc[t] = "append" => holder = {t} /\ holder # {} /\ seen[t] = send_buffer_
    BY DEF LockInv
  <2>1. CASE UNCHANGED <<senders, send_buffer_>>
    BY <2>1, <2>l DEF senders
  <2>2. ASSUME NEW s \in Sender, SendLock(s)
        PROVE  holder' = {t} /\ seen'[t] = send_buffer_'
    BY <2>2, <2>l DEF SendLock, Unlocked, buffers, TypeOK
  <2>3. ASSUME NEW s \in Sender, SendAppend(s)
        PROVE  holder' = {t} /\ seen'[t] = send_buffer_'
    <3>1. pc[s] = "append" /\ pc[t] = "append" /\ s # t
      BY <2>3 DEF SendAppend, TypeOK
    <3>2. holder = {s} /\ holder = {t} BY <3>1 DEF LockInv
    <3> QED BY <3>1, <3>2
  <2>4. ASSUME NEW s \in Sender, SendPost(s)
        PROVE  holder' = {t} /\ seen'[t] = send_buffer_'
    BY <2>4, <2>l DEF SendPost, buffers, TypeOK
  <2>5. ASSUME NEW s \in Sender, SendBuffer(s)
        PROVE  holder' = {t} /\ seen'[t] = send_buffer_'
    BY <2>5, <2>l DEF SendBuffer, buffers
  <2>6. CASE RunFlush
    BY <2>6, <2>l DEF RunFlush, DoSend, Unlocked, senders, buffers
  <2>7. CASE RunAppend
    <3>1. ~NoneOf(ioq, {"append"}) BY <2>7, RunsQueued DEF RunAppend
    <3>2. pc[t] # "append" BY <3>1 DEF ApiInv
    <3> QED BY <2>7, <3>2 DEF RunAppend, senders
  <2>8. CASE RunWritten
    BY <2>8, <2>l DEF RunWritten, Unlocked, senders
  <2>9. CASE Opener
    <3>1. UNCHANGED <<senders, send_buffer_>>
      BY <2>9 DEF Opener, Accept, ResolveFails, Connect, AsyncConnect,
                  StartOnConnect, StartRecvCall, StartRecvReturn, buffers
    <3> QED BY <3>1, <2>1
  <2>10. CASE RunWriteFailed \/ RunRead \/ RunReadFailed \/ RunConnected
              \/ RunConnectFailed \/ RunClose \/ Close
    <3>1. UNCHANGED <<senders, send_buffer_>>
      BY <2>10 DEF RunWriteFailed, RunRead, RunReadFailed, RunConnected,
                   RunConnectFailed, RunClose, Close, buffers
    <3> QED BY <3>1, <2>1
  <2>11. CASE Kernel
    <3>1. UNCHANGED <<senders, send_buffer_>>
      BY <2>11 DEF Kernel, WriteProgress, WriteCompletes, WriteFails,
                   ReadCompletes, ReadFails, Break, ConnectCompletes, buffers
    <3> QED BY <3>1, <2>1
  <2>12. CASE UNCHANGED vars
    BY <2>12, <2>1 DEF vars, buffers
  <2> QED BY <2>2, <2>3, <2>4, <2>5, <2>6, <2>7, <2>8, <2>9, <2>10, <2>11, <2>12
          DEF Next, Send, IoThread
<1> QED BY <1>1, <1>2, TypeCorrect, ApiCorrect, PTL DEF Safety

(* A socket that is open was never closed, and nothing failed before it     *)
(* did.                                                                     *)
THEOREM HealthCorrect == Safety => []HealthInv
<1>1. Init => HealthInv
  BY DEF Init, HealthInv, NoneOf
<1>2. TypeOK /\ HealthInv /\ [Next]_vars => HealthInv'
  <2> SUFFICES ASSUME TypeOK, HealthInv, [Next]_vars PROVE HealthInv'
    OBVIOUS
  <2>1. ASSUME Healthy' PROVE NoneOf(ioq', Failed)
    <3>1. Healthy BY <2>1, HealthStep
    <3>2. ~WriteFails BY <3>1 DEF WriteFails, Healthy
    <3>3. ~(RunClose /\ open)
      BY <2>1, <3>1 DEF RunClose, CloseRuns, Healthy, TypeOK, Events
    <3>4. NoneOf(ioq, Failed) BY <3>1 DEF HealthInv
    <3> QED BY <3>2, <3>3, <3>4, NonePosted DEF Failed
  <2>2. /\ open' => events'.close = 0
        /\ opener' = "new" => ~open' /\ events'.close = 0
    <3>1. CASE Opener
      BY <3>1 DEF Opener, Accept, AfterAccept, ResolveFails, Connect, AsyncConnect,
                  StartOnConnect, OnConnect, StartRecvCall, StartRecvReturn,
                  HealthInv, TypeOK, Events
    <3>2. CASE RunClose
      BY <3>2 DEF RunClose, CloseRuns, OpenAfterClose, opening, HealthInv
    <3>3. CASE RunRead \/ RunConnected
      BY <3>3 DEF RunRead, RunConnected, OnConnect, opening, HealthInv, TypeOK, Events
    <3>4. CASE UNCHANGED <<open, opener, events>>
      BY <3>4 DEF HealthInv
    <3>5. ASSUME NEW s \in Sender, Send(s) PROVE UNCHANGED <<open, opener, events>>
      BY <3>5 DEF Send, SendLock, SendAppend, SendPost, SendBuffer, opening
    <3>6. CASE RunFlush \/ RunAppend \/ RunWritten \/ RunWriteFailed
               \/ RunReadFailed \/ RunConnectFailed \/ Close
      BY <3>4, <3>6 DEF RunFlush, RunAppend, RunWritten, RunWriteFailed,
                        RunReadFailed, RunConnectFailed, Close, opening
    <3>7. CASE ConnectCompletes
      BY <3>7 DEF ConnectCompletes, HealthInv
    <3>8. CASE WriteProgress \/ WriteCompletes \/ WriteFails \/ ReadCompletes
               \/ ReadFails \/ Break \/ UNCHANGED vars
      BY <3>4, <3>8 DEF WriteProgress, WriteCompletes, WriteFails, ReadCompletes,
                        ReadFails, Break, vars, opening
    <3> QED BY <3>1, <3>2, <3>3, <3>4, <3>5, <3>6, <3>7, <3>8
            DEF Next, IoThread, Kernel
  <2> QED BY <2>1, <2>2 DEF HealthInv
<1> QED BY <1>1, <1>2, TypeCorrect, PTL DEF Safety

(* The stream invariant.  It needs all of the above: that the kernel has    *)
(* taken all of a buffer whose write is over, that cache_buffer_ is empty   *)
(* when sending_ is false, and, for InOrder, that frames leave only while   *)
(* the session is healthy.                                                  *)
StreamInv ==
    /\ InOrder
    /\ Healthy =>
         /\ Split(wire, cache_buffer_, taken, send_buffer_, sent)
         /\ sending_ /\ writing = 0 => taken = Len(cache_buffer_)
         /\ ~sending_ => cache_buffer_ = <<>> /\ taken = 0

(* do_send() when the previous write is over. *)
LEMMA DoSendStream ==
    ASSUME NEW q, NEW out \in Seq(Frame), NEW s \in Seq(Frame), wire \in Seq(Frame),
           cache_buffer_ \in Seq(Frame), writing = 0,
           Split(wire, cache_buffer_, Len(cache_buffer_), out, s),
           DoSend(q, out, <<>>)
    PROVE  /\ Split(wire, cache_buffer_', taken', send_buffer_', s)
           /\ sending_' /\ writing' = 0 => taken' = Len(cache_buffer_')
           /\ ~sending_' => cache_buffer_' = <<>> /\ taken' = 0
<1>1. Len(<<>>) = 0 BY EmptySeq
<1>2. Split(wire, out, 0, <<>>, s) /\ Split(wire, <<>>, 0, out, s)
  BY <1>1, SplitSwap
<1>3. taken' = 0 BY DEF DoSend
<1>4. \/ /\ send_buffer_' = out /\ cache_buffer_' = <<>> /\ sending_' = FALSE
      \/ /\ send_buffer_' = <<>> /\ cache_buffer_' = out
         /\ \/ out = <<>> /\ sending_' = FALSE
            \/ out # <<>> /\ sending_' = TRUE /\ writing' = 1
  BY DEF DoSend
<1> QED BY <1>2, <1>3, <1>4

(* No frame is lost or reordered between the two buffers                    *)
(* (tcp_session.h:214-241).                                                 *)
THEOREM StreamCorrect == Safety => []StreamInv
<1>1. Init => StreamInv
  <2> SUFFICES ASSUME Init PROVE StreamInv OBVIOUS
  <2>1. Len(<<>>) = 0 BY EmptySeq
  <2>2. /\ wire = <<>> /\ cache_buffer_ = <<>> /\ send_buffer_ = <<>> /\ sent = <<>>
        /\ taken = 0 /\ sending_ = FALSE
    BY DEF Init
  <2>3. Split(<<>>, <<>>, 0, <<>>, <<>>) BY <2>1 DEF Split
  <2>4. InOrder BY <2>1, <2>2 DEF InOrder
  <2> QED BY <2>2, <2>3, <2>4 DEF StreamInv
<1>2. TypeOK /\ WriteInv /\ LockInv /\ HealthInv /\ StreamInv /\ [Next]_vars
        => StreamInv'
  <2> SUFFICES ASSUME TypeOK, WriteInv, LockInv, HealthInv, StreamInv, [Next]_vars
               PROVE  StreamInv'
    OBVIOUS
  <2>t. /\ wire \in Seq(Frame) /\ cache_buffer_ \in Seq(Frame)
        /\ send_buffer_ \in Seq(Frame) /\ sent \in Seq(Frame)
        /\ taken \in Nat /\ writing \in Nat /\ ioq \in Seq(Handler)
        /\ sending_ \in BOOLEAN
    BY DEF TypeOK
  <2>h. Healthy' => Healthy BY HealthStep
  (* Steps that leave the stream alone. *)
  <2>u. ASSUME UNCHANGED <<buffers, taken, wire, sent>>, writing' = writing
        PROVE  StreamInv'
    BY <2>u, <2>h DEF StreamInv, InOrder, buffers
  (* A new frame at the end of sent. *)
  <2>a. ASSUME NEW f \in Frame, sent' = Append(sent, f), wire' = wire
        PROVE  InOrder'
    <3>1. /\ Len(sent') = Len(sent) + 1 /\ Len(sent) \in Nat /\ Len(wire) \in Nat
          /\ \A i \in 1..Len(sent) : sent'[i] = sent[i]
      BY <2>a, <2>t, AppendProperties, LenProperties
    <3> QED BY <2>a, <3>1 DEF StreamInv, InOrder
  <2>1. ASSUME NEW s \in Sender, SendAppend(s) PROVE StreamInv'
    <3> DEFINE f == <<s, calls[s]>>
    <3>1. f \in Frame BY DEF Frame, TypeOK
    <3>2. seen[s] = send_buffer_ BY <2>1 DEF SendAppend, LockInv
    <3>3. /\ send_buffer_' = Append(send_buffer_, f) /\ sent' = Append(sent, f)
          /\ UNCHANGED <<cache_buffer_, sending_, taken, wire, writing>>
      BY <2>1, <3>2 DEF SendAppend, kernel
    <3> HIDE DEF f
    <3>4. InOrder' BY <3>1, <3>3, <2>a
    <3>5. Healthy' => Split(wire, cache_buffer_, taken, send_buffer_', sent')
      BY <3>1, <3>3, <2>t, <2>h, SplitAppend DEF StreamInv
    <3> QED BY <3>3, <3>4, <3>5, <2>h DEF StreamInv
  <2>2. CASE RunFlush
    <3>1. UNCHANGED <<wire, sent>> BY <2>2 DEF RunFlush
    <3>2. CASE ~MayFlush
      BY <2>2, <3>1, <3>2, <2>u DEF RunFlush
    <3>3. CASE MayFlush
      <4>1. DoSend(Tail(ioq), send_buffer_, cache_buffer_) /\ ~sending_
        BY <2>2, <3>3 DEF RunFlush, MayFlush
      <4>2. writing = 0 BY <4>1, <2>t DEF WriteInv
      <4>3. InOrder' BY <3>1 DEF StreamInv, InOrder
      <4>4. CASE Healthy
        <5>1. cache_buffer_ = <<>> /\ taken = 0 /\ Len(cache_buffer_) = 0
          BY <4>1, <4>4, EmptySeq DEF StreamInv
        <5>2. Split(wire, cache_buffer_, Len(cache_buffer_), send_buffer_, sent)
          BY <5>1, <4>4 DEF StreamInv
        <5>3. DoSend(Tail(ioq), send_buffer_, <<>>) BY <4>1, <5>1
        <5> QED BY <2>t, <3>1, <4>2, <4>3, <5>2, <5>3, DoSendStream DEF StreamInv
      <4> QED BY <4>3, <4>4, <2>h DEF StreamInv
    <3> QED BY <3>2, <3>3
  <2>3. CASE RunAppend
    <3> DEFINE f == Head(ioq).frame
               out == Append(send_buffer_, f)
    <3>1. f \in Frame
      <4>1. Head(ioq) \in Handler /\ Head(ioq).op = "append"
        BY <2>3, <2>t, HeadTailProperties DEF RunAppend, Runs
      <4> QED BY <4>1 DEF Handler, Plain
    <3>2. sent' = Append(sent, f) /\ wire' = wire BY <2>3 DEF RunAppend
    <3>3. out \in Seq(Frame) /\ sent' \in Seq(Frame)
      BY <3>1, <3>2, <2>t, AppendProperties
    <3>4. InOrder' BY <3>1, <3>2, <2>a
    <3>5. Healthy => Split(wire, cache_buffer_, taken, out, sent')
      BY <3>1, <3>2, <2>t, SplitAppend DEF StreamInv
    <3>6. CASE ~MayFlush
      <4>1. send_buffer_' = out /\ UNCHANGED <<cache_buffer_, sending_, writing, taken>>
        BY <2>3, <3>6 DEF RunAppend
      <4> QED BY <2>h, <3>2, <3>4, <3>5, <4>1 DEF StreamInv
    <3>7. CASE MayFlush
      <4>1. DoSend(Tail(ioq), out, cache_buffer_) /\ ~sending_
        BY <2>3, <3>7 DEF RunAppend, MayFlush
      <4> HIDE DEF out
      <4>2. writing = 0 BY <4>1, <2>t DEF WriteInv
      <4>3. CASE Healthy
        <5>1. cache_buffer_ = <<>> /\ taken = 0 /\ Len(cache_buffer_) = 0
          BY <4>1, <4>3, EmptySeq DEF StreamInv
        <5>2. Split(wire, cache_buffer_, Len(cache_buffer_), out, sent')
          BY <5>1, <4>3, <3>5
        <5>3. DoSend(Tail(ioq), out, <<>>) BY <4>1, <5>1
        <5> QED BY <2>t, <3>2, <3>3, <3>4, <4>2, <5>2, <5>3, DoSendStream DEF StreamInv
      <4> QED BY <3>4, <4>3, <2>h DEF StreamInv
    <3> QED BY <3>6, <3>7
  <2>4. CASE RunWritten
    <3>1. UNCHANGED <<wire, sent>> BY <2>4 DEF RunWritten
    <3>2. InOrder' BY <3>1 DEF StreamInv, InOrder
    <3>3. ~NoneOf(ioq, Done) BY <2>4, RunsQueued DEF RunWritten, Done
    <3>4. writing = 0 /\ sending_ BY <3>3, <2>t DEF WriteInv
    <3>5. CASE Healthy
      <4>1. Split(wire, cache_buffer_, Len(cache_buffer_), send_buffer_, sent)
        BY <3>4, <3>5 DEF StreamInv
      <4>2. CASE More
        <5>1. DoSend(Tail(ioq), send_buffer_, <<>>)
          BY <2>4, <4>2 DEF RunWritten, CacheAfterWrite
        <5> QED BY <2>t, <3>1, <3>2, <3>4, <4>1, <5>1, DoSendStream DEF StreamInv
      <4>3. CASE ~More
        <5>1. /\ cache_buffer_' = <<>> /\ taken' = 0 /\ sending_' = FALSE
              /\ send_buffer_' = send_buffer_
          BY <2>4, <4>3 DEF RunWritten, CacheAfterWrite
        <5>2. Split(wire, <<>>, 0, send_buffer_, sent)
          BY <2>t, <4>1, EmptySeq, SplitSwap
        <5> QED BY <3>1, <3>2, <5>1, <5>2 DEF StreamInv
      <4> QED BY <4>2, <4>3
    <3> QED BY <3>2, <3>5, <2>h DEF StreamInv
  <2>5. CASE RunWriteFailed
    <3>1. ~NoneOf(ioq, Failed) BY <2>5, RunsQueued DEF RunWriteFailed, Failed
    <3>2. ~Healthy BY <3>1 DEF HealthInv
    <3>3. UNCHANGED <<wire, sent>> BY <2>5 DEF RunWriteFailed, kernel
    <3> QED BY <2>h, <3>2, <3>3 DEF StreamInv, InOrder
  <2>6. CASE RunClose
    <3>1. UNCHANGED <<wire, sent>> BY <2>6 DEF RunClose
    <3>2. CASE CloseRuns
      <4>1. ~Healthy'
        BY <2>6, <3>2 DEF RunClose, Healthy, TypeOK, Events
      <4> QED BY <3>1, <4>1 DEF StreamInv, InOrder
    <3>3. CASE ~CloseRuns
      BY <2>6, <3>3, <2>u DEF RunClose
    <3> QED BY <3>2, <3>3
  <2>7. CASE WriteProgress
    <3>1. /\ taken' = taken + 1 /\ wire' = Append(wire, cache_buffer_[taken + 1])
          /\ taken < Len(cache_buffer_) /\ writing > 0 /\ ~broken
          /\ UNCHANGED <<cache_buffer_, send_buffer_, sending_, writing, sent>>
      BY <2>7 DEF WriteProgress, buffers
    <3>2. writing = 1 /\ sending_ /\ Healthy
      BY <3>1, <2>t DEF WriteInv, HealthInv, Healthy
    <3>3. Split(wire', cache_buffer_, taken + 1, send_buffer_, sent)
      BY <3>1, <3>2, <2>t, SplitTake DEF StreamInv
    <3>4. wire' \in Seq(Frame)
      BY <3>1, <2>t, ElementOfSeq, LenProperties, AppendProperties
    <3>5. InOrder'
      <4>1. /\ Len(wire') \in Nat /\ Len(cache_buffer_) \in Nat
            /\ Len(send_buffer_) \in Nat
        BY <3>4, <2>t, LenProperties
      <4>2. /\ taken + 1 <= Len(cache_buffer_)
            /\ Len(wire') + (Len(cache_buffer_) - (taken + 1)) + Len(send_buffer_)
                 = Len(sent)
            /\ \A i \in 1..Len(wire') : wire'[i] = sent[i]
        BY <3>3 DEF Split
      <4> QED BY <3>1, <4>1, <4>2, <2>t DEF InOrder
    <3> QED BY <3>1, <3>2, <3>3, <3>5 DEF StreamInv
  <2>8. CASE WriteCompletes
    <3>1. /\ UNCHANGED <<buffers, taken, wire, sent>> /\ taken >= Len(cache_buffer_)
      BY <2>8 DEF WriteCompletes
    <3>2. Healthy => taken = Len(cache_buffer_)
      BY <3>1, <2>t, LenProperties DEF StreamInv, Split
    <3>3. writing > 0 BY <2>8 DEF WriteCompletes
    <3>4. sending_ BY <3>3, <2>t DEF WriteInv
    <3> QED BY <3>1, <3>2, <3>4, <2>h DEF StreamInv, InOrder, buffers
  <2>9. CASE WriteFails
    <3>1. ~Healthy /\ UNCHANGED <<wire, sent>>
      BY <2>9 DEF WriteFails, Healthy
    <3> QED BY <3>1, <2>h DEF StreamInv, InOrder
  <2>10. CASE Opener
    BY <2>10, <2>u DEF Opener, Accept, ResolveFails, Connect, AsyncConnect,
                       StartOnConnect, StartRecvCall, StartRecvReturn, kernel
  <2>11. ASSUME NEW s \in Sender, SendLock(s) \/ SendPost(s) \/ SendBuffer(s)
         PROVE  StreamInv'
    BY <2>11, <2>u DEF SendLock, SendPost, SendBuffer, kernel
  <2>12. CASE RunRead \/ RunReadFailed \/ RunConnected \/ RunConnectFailed \/ Close
    BY <2>12, <2>u DEF RunRead, RunReadFailed, RunConnected, RunConnectFailed, Close,
                       kernel
  <2>13. CASE ReadCompletes \/ ReadFails \/ Break \/ ConnectCompletes
    BY <2>13, <2>u DEF ReadCompletes, ReadFails, Break, ConnectCompletes, kernel
  <2>14. CASE UNCHANGED vars
    BY <2>14, <2>u DEF vars, kernel
  <2> QED BY <2>1, <2>2, <2>3, <2>4, <2>5, <2>6, <2>7, <2>8, <2>9, <2>10, <2>11,
             <2>12, <2>13, <2>14
          DEF Next, Send, IoThread, Kernel
<1> QED BY <1>1, <1>2, TypeCorrect, WritesCorrect, LockCorrect, HealthCorrect, PTL
        DEF Safety

(* The peer gets a prefix of what was sent, whatever fails. *)
THEOREM InOrderHolds == Safety => []InOrder
<1>1. StreamInv => InOrder BY DEF StreamInv
<1> QED BY <1>1, StreamCorrect, PTL

(* While the session is healthy every frame is on the wire or in exactly    *)
(* one of the two buffers, in order.                                        *)
THEOREM NothingLostHolds == Safety => []NothingLost
<1>1. TypeOK /\ StreamInv => NothingLost
  BY SplitWhole DEF TypeOK, StreamInv, NothingLost
<1> QED BY <1>1, TypeCorrect, StreamCorrect, PTL

-----------------------------------------------------------------------------
(* One read at a time.  The turn to read passes from the opener, through    *)
(* the handler that starts the session, to the kernel and from there to the *)
(* handler of the read; whoever has it gives it to the next.                *)

Readers == {"read", "read_failed", "connected"}

ReadInv ==
    /\ reading <= 1
    /\ AtMostOneOf(ioq, Readers)
    /\ reading = 1 => NoneOf(ioq, Readers)
    /\ opener # "done" => reading = 0 /\ NoneOf(ioq, Readers)

(* The queue r has the read handlers the queue of this state has. *)
SameReaders(r) == /\ NoneOf(r, Readers) <=> NoneOf(ioq, Readers)
                  /\ AtMostOneOf(ioq, Readers) => AtMostOneOf(r, Readers)

(* Posting another handler keeps the read handlers.                         *)
LEMMA SamePosted ==
    ASSUME NEW r \in Seq(Handler), SameReaders(r), NEW op \in Plain \ Readers
    PROVE  Append(r, H(op)) \in Seq(Handler) /\ SameReaders(Append(r, H(op)))
BY PlainHandler, QueueType, AppendOther DEF SameReaders

(* So does running one.                                                     *)
LEMMA SameTail ==
    ASSUME ioq \in Seq(Handler), ioq # <<>>, Head(ioq).op \notin Readers
    PROVE  Tail(ioq) \in Seq(Handler) /\ SameReaders(Tail(ioq))
BY TailOther, HeadTailProperties DEF SameReaders

(* A step that keeps the read handlers keeps the invariant.                 *)
LEMMA SameInv ==
    ASSUME ReadInv, SameReaders(ioq'), reading' = reading,
           opener' # "done" => opener # "done"
    PROVE  ReadInv'
BY DEF ReadInv, SameReaders

(* do_recv() by whoever had the turn. *)
LEMMA DoRecvReads ==
    ASSUME NEW r \in Seq(Handler), NoneOf(r, Readers), reading = 0, DoRecv(r),
           opener' = "done"
    PROVE  ReadInv'
<1>1. AtMostOneOf(r, Readers) BY DEF NoneOf, AtMostOneOf
<1>2. CASE open BY <1>1, <1>2 DEF DoRecv, ReadInv
<1>3. CASE ~open
  <2>1. H("read_failed") \in Handler /\ H("read_failed").op \in Readers
    BY PlainHandler DEF Plain, Readers
  <2>2. AtMostOneOf(ioq', Readers) BY <1>3, <2>1, AppendFirst DEF DoRecv
  <2> QED BY <1>3, <2>2 DEF DoRecv, ReadInv
<1> QED BY <1>2, <1>3

(* The handler of whoever has the turn is posted. *)
LEMMA TurnPosted ==
    ASSUME ioq \in Seq(Handler), NoneOf(ioq, Readers), NEW op \in Readers,
           ioq' = Append(ioq, H(op)), reading' = 0, opener' = "done"
    PROVE  ReadInv'
<1>1. H(op) \in Handler /\ H(op).op \in Readers BY PlainHandler DEF Plain, Readers
<1>2. AtMostOneOf(ioq', Readers) BY <1>1, AppendFirst
<1> QED BY <1>2 DEF ReadInv

(* A handler with the turn runs: nobody else has it. *)
LEMMA TurnRuns ==
    ASSUME TypeOK, ReadInv, NEW op \in Readers, Runs(op)
    PROVE  /\ Tail(ioq) \in Seq(Handler) /\ NoneOf(Tail(ioq), Readers)
           /\ reading = 0 /\ opener = "done"
<1>1. ioq \in Seq(Handler) /\ ioq # <<>> /\ reading \in Nat BY DEF TypeOK, Runs
<1>2. ~NoneOf(ioq, Readers) BY RunsQueued
<1>3. NoneOf(Tail(ioq), Readers) BY <1>1, TailOnly DEF ReadInv, Runs
<1>4. Tail(ioq) \in Seq(Handler) BY <1>1, HeadTailProperties
<1> QED BY <1>1, <1>2, <1>3, <1>4 DEF ReadInv

(* The close() posted on an error is not a read handler.                    *)
LEMMA FailNone ==
    ASSUME NEW r \in Seq(Handler), NoneOf(r, Readers)
    PROVE  CloseOnError(r) \in Seq(Handler) /\ NoneOf(CloseOnError(r), Readers)
<1>1. H("close") \in Handler /\ H("close").op \notin Readers
  BY PlainHandler DEF Plain, Readers
<1>2. CloseOnError(r) = Append(r, H("close")) BY DEF CloseOnError
<1>3. Append(r, H("close")) \in Seq(Handler) BY <1>1, AppendProperties
<1>4. NoneOf(Append(r, H("close")), Readers) BY <1>1, AppendOther
<1> QED BY <1>2, <1>3, <1>4

(* The turn to read is held once (start() and do_recv(), tcp_session.h).    *)
THEOREM ReadsCorrect == Safety => []ReadInv
<1>1. Init => ReadInv
  BY DEF Init, ReadInv, NoneOf, AtMostOneOf
<1>2. TypeOK /\ ReadInv /\ [Next]_vars => ReadInv'
  <2> SUFFICES ASSUME TypeOK, ReadInv, [Next]_vars PROVE ReadInv'
    OBVIOUS
  <2> DEFINE q == Tail(ioq)
  <2>t. ioq \in Seq(Handler) /\ writing \in Nat /\ reading \in Nat
    BY DEF TypeOK
  <2>k. SameReaders(ioq) BY DEF SameReaders
  <2>p. ASSUME NEW op \in Plain \ Readers, ioq' = Append(ioq, H(op)),
               reading' = reading, opener' # "done" => opener # "done"
        PROVE  ReadInv'
    BY <2>p, <2>k, <2>t, SamePosted, SameInv
  <2>s. ASSUME ioq' = ioq, reading' = reading, opener' # "done" => opener # "done"
        PROVE  ReadInv'
    BY <2>s, <2>k, SameInv
  <2>n. opener # "done" => reading = 0 /\ NoneOf(ioq, Readers) BY DEF ReadInv
  <2>1. CASE Accept
    <3>1. CASE mode = "accept"
      BY <2>1, <3>1, <2>s DEF Accept, kernel
    <3>2. CASE mode # "accept"
      <4>1. ioq' = Append(ioq, H("connected")) /\ reading' = 0 /\ opener' = "done"
        BY <2>1, <3>2, <2>n DEF Accept, AfterAccept, kernel
      <4> QED BY <2>1, <2>n, <2>t, <4>1, TurnPosted DEF Accept, Readers
    <3> QED BY <3>1, <3>2
  <2>2. CASE ResolveFails
    BY <2>2, <2>p DEF ResolveFails, kernel, Plain, Readers
  <2>3. CASE Connect
    BY <2>3, <2>p, <2>s DEF Connect, kernel, Plain, Readers
  <2>4. CASE AsyncConnect \/ StartOnConnect \/ StartRecvCall
    BY <2>4, <2>s DEF AsyncConnect, StartOnConnect, StartRecvCall, kernel
  <2>5. CASE StartRecvReturn
    BY <2>5, <2>n, <2>t, DoRecvReads DEF StartRecvReturn
  <2>6. CASE ConnectCompletes
    <3>1. PICK op \in {"connected", "connect_failed"} : ioq' = Append(ioq, H(op))
      BY <2>6 DEF ConnectCompletes
    <3>2. /\ opener = "connecting" /\ opener' = "done" /\ reading' = reading
          /\ reading = 0 /\ NoneOf(ioq, Readers)
      BY <2>6, <2>n DEF ConnectCompletes, kernel
    <3>3. CASE op = "connected" BY <2>t, <3>1, <3>2, <3>3, TurnPosted DEF Readers
    <3>4. CASE op = "connect_failed" BY <2>p, <3>1, <3>2, <3>4 DEF Plain, Readers
    <3> QED BY <3>3, <3>4
  <2>7. ASSUME NEW s \in Sender, Send(s) PROVE ReadInv'
    <3>1. CASE SendLock(s) \/ SendAppend(s)
      BY <3>1, <2>s DEF SendLock, SendAppend, kernel, opening
    <3>2. CASE SendPost(s)
      BY <3>2, <2>p DEF SendPost, kernel, opening, Plain, Readers
    <3>3. CASE SendBuffer(s)
      <4> DEFINE h == Add(<<s, calls[s] + 1>>)
      <4>1. <<s, calls[s] + 1>> \in Frame BY DEF Frame, TypeOK
      <4>2. h \in Handler /\ h.op \notin Readers BY <4>1, AddHandler DEF Readers
      <4>3. ioq' = Append(ioq, h) /\ reading' = reading /\ opener' = opener
        BY <3>3 DEF SendBuffer, kernel, opening
      <4>4. SameReaders(ioq') BY <2>t, <4>2, <4>3, AppendOther DEF SameReaders
      <4> QED BY <4>3, <4>4, SameInv
    <3> QED BY <2>7, <3>1, <3>2, <3>3 DEF Send
  <2>8. CASE Close
    BY <2>8, <2>p DEF Close, kernel, opening, Plain, Readers
  <2>9. CASE RunFlush \/ RunAppend \/ RunWritten
    <3>1. /\ ioq # <<>> /\ Head(ioq).op \notin Readers
          /\ ioq' = q /\ reading' = reading /\ opener' = opener
      BY <2>9 DEF RunFlush, RunAppend, RunWritten, DoSend, Runs, Readers, opening
    <3> QED BY <3>1, <2>t, SameTail, SameInv
  <2>10. CASE RunWriteFailed \/ RunConnectFailed
    <3>1. /\ ioq # <<>> /\ Head(ioq).op \notin Readers
          /\ ioq' = Append(q, H("close")) /\ reading' = reading /\ opener' = opener
      BY <2>10 DEF RunWriteFailed, RunConnectFailed, CloseOnError, Runs, Readers, opening, kernel
    <3>2. SameReaders(ioq') BY <3>1, <2>t, SameTail, SamePosted DEF Plain, Readers
    <3> QED BY <3>1, <3>2, SameInv
  (* The handlers with the turn. *)
  <2>11. CASE RunRead
    <3>1. q \in Seq(Handler) /\ NoneOf(q, Readers) /\ reading = 0 /\ opener = "done"
      BY <2>11, TurnRuns DEF RunRead, Readers
    <3>2. opener' = "done" BY <2>11, <3>1 DEF RunRead, opening
    <3>3. DoRecv(q) \/ DoRecv(CloseOnError(q)) BY <2>11 DEF RunRead
    <3> QED BY <3>1, <3>2, <3>3, FailNone, DoRecvReads
  <2>12. CASE RunConnected
    <3>1. q \in Seq(Handler) /\ NoneOf(q, Readers) /\ reading = 0 /\ opener = "done"
      BY <2>12, TurnRuns DEF RunConnected, Readers
    <3>2. opener' = "done" /\ DoRecv(q) BY <2>12, <3>1 DEF RunConnected, opening
    <3> QED BY <3>1, <3>2, DoRecvReads
  <2>13. CASE RunReadFailed
    <3>1. q \in Seq(Handler) /\ NoneOf(q, Readers) /\ reading = 0 /\ opener = "done"
      BY <2>13, TurnRuns DEF RunReadFailed, Readers
    <3>2. opener' = "done" /\ reading' = 0 /\ ioq' = CloseOnError(q)
      BY <2>13, <3>1 DEF RunReadFailed, opening, kernel
    <3>3. NoneOf(ioq', Readers) BY <3>1, <3>2, FailNone
    <3>4. AtMostOneOf(ioq', Readers) BY <3>3 DEF NoneOf, AtMostOneOf
    <3> QED BY <3>2, <3>3, <3>4 DEF ReadInv
  <2>14. CASE RunClose
    <3> DEFINE rs == Aborted("read_failed", reading)
               ws == Aborted("write_failed", writing)
    <3>1. q \in Seq(Handler) /\ SameReaders(q) /\ opener' = opener
      BY <2>14, <2>t, SameTail DEF RunClose, Runs, Readers, opening
    <3>2. CASE ~CloseRuns BY <2>14, <3>1, <3>2, SameInv DEF RunClose
    <3>3. CASE CloseRuns
      <4>1. /\ rs \in Seq(Handler) /\ Len(rs) = reading
            /\ ws \in Seq(Handler) /\ NoneOf(ws, Readers)
        <5>1. rs \in Seq(Handler) /\ Len(rs) = reading
          BY <2>t, AbortedType DEF Plain
        <5>2. ws \in Seq(Handler) /\ Len(ws) = writing
          BY <2>t, AbortedType DEF Plain
        <5>3. \A i \in 1..writing : ws[i].op = "write_failed"
          BY <2>t, AbortedType DEF Plain
        <5> QED BY <5>1, <5>2, <5>3 DEF NoneOf, Readers
      <4>2. ioq' = (q \o rs) \o ws /\ reading' = 0
        BY <2>14, <3>3 DEF RunClose, ReadsAfterClose
      <4>3. q \o rs \in Seq(Handler) BY <3>1, <4>1, ConcatProperties
      <4>4. CASE reading = 0
        <5>1. NoneOf(rs, Readers) BY <4>1, <4>4 DEF NoneOf
        <5>2. SameReaders(q \o rs) BY <3>1, <4>1, <5>1, ConcatOther DEF SameReaders
        <5>3. SameReaders(ioq')
          <6> DEFINE p == q \o rs
          <6>1. p \in Seq(Handler) /\ ioq' = p \o ws BY <4>2, <4>3
          <6>2. SameReaders(p) BY <5>2
          <6> HIDE DEF p, ws
          <6>3. /\ NoneOf(p \o ws, Readers) <=> NoneOf(p, Readers)
                /\ AtMostOneOf(p, Readers) => AtMostOneOf(p \o ws, Readers)
            BY <4>1, <6>1, ConcatOther
          <6> QED BY <6>1, <6>2, <6>3 DEF SameReaders
        <5> QED BY <3>1, <4>2, <4>4, <5>3, SameInv
      <4>5. CASE reading = 1
        <5>1. NoneOf(q, Readers) /\ opener = "done" BY <3>1, <4>5 DEF ReadInv, SameReaders
        <5>2. rs[1].op \in Readers BY <4>5, AbortedType DEF Plain, Readers
        <5>3. AtMostOneOf(q \o rs, Readers) BY <3>1, <4>1, <4>5, <5>1, <5>2, ConcatFirst
        <5>4. AtMostOneOf(ioq', Readers) BY <4>1, <4>2, <4>3, <5>3, ConcatOther
        <5> QED BY <3>1, <4>2, <5>1, <5>4 DEF ReadInv
      <4> QED BY <4>4, <4>5, <2>t DEF ReadInv
    <3> QED BY <3>2, <3>3
  <2>15. CASE WriteProgress \/ Break
    BY <2>15, <2>s DEF WriteProgress, Break, opening
  <2>16. CASE WriteCompletes \/ WriteFails
    BY <2>16, <2>p DEF WriteCompletes, WriteFails, opening, Plain, Readers
  <2>17. CASE ReadCompletes \/ ReadFails
    <3>1. reading = 1 /\ reading' = 0 /\ opener' = opener
      BY <2>17, <2>t DEF ReadCompletes, ReadFails, opening, ReadInv
    <3>2. NoneOf(ioq, Readers) /\ opener = "done" BY <3>1 DEF ReadInv
    <3>3. \E op \in Readers : ioq' = Append(ioq, H(op))
      BY <2>17 DEF ReadCompletes, ReadFails, Readers
    <3> QED BY <2>t, <3>1, <3>2, <3>3, TurnPosted
  <2>18. CASE UNCHANGED vars
    BY <2>18, <2>s DEF vars, opening, kernel
  <2> QED
    BY <2>1, <2>2, <2>3, <2>4, <2>5, <2>6, <2>7, <2>8, <2>9, <2>10, <2>11, <2>12,
       <2>13, <2>14, <2>15, <2>16, <2>17, <2>18
    DEF Next, Opener, IoThread, Kernel
<1> QED BY <1>1, <1>2, TypeCorrect, PTL DEF Safety

(* recv_buffer_ has one user: do_recv() is only called by the handler or    *)
(* the opener that has the turn.                                            *)
THEOREM OneReadHolds == Safety => []OneRead
<1>1. TypeOK /\ ReadInv => OneRead
  <2> SUFFICES ASSUME TypeOK, ReadInv PROVE OneRead
    OBVIOUS
  <2>1. DOMAIN ioq = 1..Len(ioq) BY LenProperties DEF TypeOK
  <2> DEFINE Q == Queued(Readers)
  <2>2. Q # {} <=> ~NoneOf(ioq, Readers) BY <2>1 DEF Queued, NoneOf
  <2>3. Q = {} \/ \E i : Q = {i} BY <2>1 DEF Queued, ReadInv, AtMostOneOf
  <2>4. Cardinality(Q) = IF NoneOf(ioq, Readers) THEN 0 ELSE 1
    BY <2>2, <2>3, FS_EmptySet, FS_Singleton
  <2>5. reading \in Nat BY DEF TypeOK
  <2> HIDE DEF Q
  <2>6. reading + Cardinality(Q) + (IF opener \in {"start", "recv", "in_recv"} THEN 1 ELSE 0) <= 1
    BY <2>4, <2>5 DEF ReadInv
  <2> QED BY <2>6 DEF OneRead, Q, Readers
<1> QED BY <1>1, TypeCorrect, ReadsCorrect, PTL

-----------------------------------------------------------------------------
(* The events come in order.  Nothing of a connection exists before         *)
(* on_connect, and whoever is about to call it is the only one.             *)
Later == {"flush", "append", "read", "read_failed", "written", "write_failed"}

ConnectInv ==
    /\ events.connect <= 1
    /\ opener \in {"new", "connecting", "start"} => events.connect = 0
    /\ opener \in {"recv", "in_recv"} => events.connect = 1
    /\ opener = "connecting" => mode = "async_connect"
    /\ events.connect = 1 => NoneOf(ioq, {"connected"})
    /\ events.connect = 0 =>
         /\ reading = 0 /\ writing = 0 /\ NoneOf(ioq, Later)
         /\ \A s \in Sender : pc[s] = "idle"
         /\ mode \in {"accept", "accept_own"} =>
              events.close = 0 /\ NoneOf(ioq, {"close", "connect_failed"})

(* After on_close only the read that had completed is still handled. *)
LateInv ==
    /\ events.close <= 1 /\ events.late <= 1
    /\ events.close = 0 => events.late = 0
    /\ events.close = 1 => reading = 0
    /\ events.late = 1 => NoneOf(ioq, {"read"})

(* Before on_connect only the opener and the handlers it waits for move. *)
LEMMA EarlyStep ==
    ASSUME TypeOK, ConnectInv, [Next]_vars, events'.connect = 0
    PROVE  /\ events.connect = 0
           /\ \/ Accept \/ ResolveFails \/ Connect \/ AsyncConnect \/ ConnectCompletes
              \/ RunConnectFailed \/ RunClose \/ Break \/ UNCHANGED vars
<1>t. events.connect \in Nat /\ DOMAIN events = {"connect", "close", "late"}
  BY DEF TypeOK, Events
<1>1. events.connect = 0
  <2>1. CASE StartOnConnect \/ RunConnected
    BY <2>1, <1>t DEF StartOnConnect, RunConnected, OnConnect
  <2>2. CASE RunRead \/ RunClose
    BY <2>2, <1>t DEF RunRead, RunClose, TypeOK, Events
  <2>3. CASE Accept \/ ResolveFails \/ Connect \/ AsyncConnect \/ StartRecvCall
             \/ StartRecvReturn \/ Close
    BY <2>3 DEF Accept, ResolveFails, Connect, AsyncConnect, StartRecvCall,
                StartRecvReturn, Close
  <2>4. ASSUME NEW s \in Sender, Send(s) PROVE events.connect = 0
    BY <2>4 DEF Send, SendLock, SendAppend, SendPost, SendBuffer
  <2>5. CASE RunFlush \/ RunAppend \/ RunWritten \/ RunWriteFailed \/ RunReadFailed
             \/ RunConnectFailed
    BY <2>5 DEF RunFlush, RunAppend, RunWritten, RunWriteFailed, RunReadFailed,
                RunConnectFailed
  <2>6. CASE Kernel \/ UNCHANGED vars
    BY <2>6 DEF Kernel, WriteProgress, WriteCompletes, WriteFails, ReadCompletes,
                ReadFails, Break, ConnectCompletes, vars
  <2> QED BY <2>1, <2>2, <2>3, <2>4, <2>5, <2>6 DEF Next, Opener, IoThread
<1>2. NoneOf(ioq, Later) /\ reading = 0 /\ writing = 0
  BY <1>1 DEF ConnectInv
<1>3. ~RunFlush /\ ~RunAppend /\ ~RunWritten /\ ~RunWriteFailed /\ ~RunRead
      /\ ~RunReadFailed
  BY <1>2, RunsQueued
  DEF RunFlush, RunAppend, RunWritten, RunWriteFailed, RunRead, RunReadFailed, Later
<1>4. ~StartOnConnect /\ ~RunConnected
  BY <1>t DEF StartOnConnect, RunConnected, OnConnect
<1>5. ~StartRecvCall /\ ~StartRecvReturn
  BY <1>1 DEF StartRecvCall, StartRecvReturn, ConnectInv
<1>6. ~Close BY <1>1 DEF Close
<1>7. \A s \in Sender : ~Send(s)
  BY <1>1 DEF Send, SendLock, SendAppend, SendPost, SendBuffer, CanSend, ConnectInv
<1>8. ~WriteProgress /\ ~WriteCompletes /\ ~WriteFails /\ ~ReadCompletes /\ ~ReadFails
  BY <1>2 DEF WriteProgress, WriteCompletes, WriteFails, ReadCompletes, ReadFails
<1> QED BY <1>1, <1>3, <1>4, <1>5, <1>6, <1>7, <1>8
        DEF Next, Opener, IoThread, Kernel

(* Before on_connect there is nothing to read, write or flush.              *)
THEOREM ConnectCorrect == Safety => []ConnectInv
<1>1. Init => ConnectInv
  BY DEF Init, ConnectInv, NoneOf
<1>2. TypeOK /\ ReadInv /\ HealthInv /\ ConnectInv /\ [Next]_vars => ConnectInv'
  <2> SUFFICES ASSUME TypeOK, ReadInv, HealthInv, ConnectInv, [Next]_vars
               PROVE  ConnectInv'
    OBVIOUS
  <2>t. events.connect \in Nat /\ DOMAIN events = {"connect", "close", "late"}
    BY DEF TypeOK, Events
  <2> DEFINE Early == {"new", "connecting", "start"}
  (* on_connect is called by whoever opens the session, and by nobody else. *)
  <2>1. ASSUME StartOnConnect \/ RunConnected
        PROVE  /\ events.connect = 0 /\ events'.connect = 1
               /\ opener' = (IF StartOnConnect THEN "recv" ELSE "done")
               /\ NoneOf(ioq', {"connected"})
    <3>1. CASE StartOnConnect
      <4>1. opener = "start" /\ ioq' = ioq BY <3>1 DEF StartOnConnect
      <4>2. NoneOf(ioq, Readers) BY <4>1 DEF ReadInv
      <4>3. NoneOf(ioq, {"connected"}) BY <4>2 DEF NoneOf, Readers
      <4>4. events.connect = 0 BY <4>1 DEF ConnectInv
      <4> QED BY <3>1, <4>1, <4>3, <4>4, <2>t DEF StartOnConnect, OnConnect
    <3>2. CASE RunConnected
      <4>1. /\ Tail(ioq) \in Seq(Handler) /\ NoneOf(Tail(ioq), Readers)
            /\ opener = "done"
        BY <3>2, TurnRuns DEF RunConnected, Readers
      <4>2. NoneOf(Tail(ioq), {"connected"}) BY <4>1 DEF NoneOf, Readers
      <4>3. H("read_failed") \in Handler /\ H("read_failed").op \notin {"connected"}
        BY PlainHandler DEF Plain
      <4>4. NoneOf(ioq', {"connected"})
        BY <3>2, <4>1, <4>2, <4>3, AppendOther DEF RunConnected, DoRecv
      <4>5. ~NoneOf(ioq, {"connected"}) BY <3>2, RunsQueued DEF RunConnected
      <4>6. events.connect = 0 BY <4>5, <2>t DEF ConnectInv
      <4>7. opener' = "done" /\ ~StartOnConnect
        BY <3>2, <4>1 DEF RunConnected, opening, StartOnConnect
      <4> QED BY <3>2, <4>4, <4>6, <4>7, <2>t DEF RunConnected, OnConnect
    <3> QED BY <2>1, <3>1, <3>2
  <2>2. ASSUME ~StartOnConnect, ~RunConnected PROVE events'.connect = events.connect
    <3>1. CASE RunRead \/ RunClose
      BY <3>1 DEF RunRead, RunClose, TypeOK, Events
    <3>2. CASE Accept \/ ResolveFails \/ Connect \/ AsyncConnect \/ StartRecvCall
               \/ StartRecvReturn \/ Close
      BY <3>2 DEF Accept, ResolveFails, Connect, AsyncConnect, StartRecvCall,
                  StartRecvReturn, Close
    <3>3. ASSUME NEW s \in Sender, Send(s) PROVE events' = events
      BY <3>3 DEF Send, SendLock, SendAppend, SendPost, SendBuffer
    <3>4. CASE RunFlush \/ RunAppend \/ RunWritten \/ RunWriteFailed \/ RunReadFailed
               \/ RunConnectFailed
      BY <3>4 DEF RunFlush, RunAppend, RunWritten, RunWriteFailed, RunReadFailed,
                  RunConnectFailed
    <3>5. CASE Kernel \/ UNCHANGED vars
      BY <3>5 DEF Kernel, WriteProgress, WriteCompletes, WriteFails, ReadCompletes,
                  ReadFails, Break, ConnectCompletes, vars
    <3> QED BY <2>2, <3>1, <3>2, <3>3, <3>4, <3>5 DEF Next, Opener, IoThread
  <2>3. events'.connect <= 1
    BY <2>1, <2>2, <2>t DEF ConnectInv
  (* The opener's own steps. *)
  <2>4. /\ opener' \in Early => opener \in Early /\ ~StartOnConnect
        /\ opener' \in {"recv", "in_recv"} =>
             StartOnConnect \/ opener \in {"recv", "in_recv"}
        /\ opener' = "connecting" => mode' = "async_connect"
    <3>1. CASE Opener
      BY <3>1 DEF Opener, Accept, AfterAccept, ResolveFails, Connect, AsyncConnect,
                  StartOnConnect, StartRecvCall, StartRecvReturn, choice
    <3>2. CASE UNCHANGED opening
      BY <3>2 DEF opening, choice, ConnectInv, StartOnConnect
    <3>3. ASSUME NEW s \in Sender, Send(s) PROVE UNCHANGED opening
      BY <3>3 DEF Send, SendLock, SendAppend, SendPost, SendBuffer
    <3>4. CASE Close \/ IoThread
      BY <3>2, <3>4 DEF Close, IoThread, RunFlush, RunAppend, RunWritten,
                        RunWriteFailed, RunRead, RunReadFailed, RunConnected,
                        RunConnectFailed, RunClose
    <3>5. CASE Kernel \/ UNCHANGED vars
      BY <3>2, <3>5 DEF Kernel, WriteProgress, WriteCompletes, WriteFails,
                        ReadCompletes, ReadFails, Break, ConnectCompletes, vars,
                        opening, choice
    <3> QED BY <3>1, <3>2, <3>3, <3>4, <3>5 DEF Next
  <2>5. opener' \in Early => events'.connect = 0
    <3> SUFFICES ASSUME opener' \in Early PROVE events'.connect = 0
      OBVIOUS
    <3>1. opener \in Early /\ ~StartOnConnect BY <2>4
    <3>2. ~RunConnected BY <3>1, TurnRuns DEF RunConnected, Readers
    <3> QED BY <3>1, <3>2, <2>2 DEF ConnectInv
  <2>6. opener' \in {"recv", "in_recv"} => events'.connect = 1
    <3> SUFFICES ASSUME opener' \in {"recv", "in_recv"}, ~StartOnConnect
                 PROVE  events'.connect = 1
      BY <2>1
    <3>1. opener \in {"recv", "in_recv"} BY <2>4
    <3>2. ~RunConnected BY <3>1, TurnRuns DEF RunConnected, Readers
    <3> QED BY <3>1, <3>2, <2>2 DEF ConnectInv
  <2>7. events'.connect = 1 => NoneOf(ioq', {"connected"})
    <3> SUFFICES ASSUME ~StartOnConnect, ~RunConnected, events.connect = 1
                 PROVE  NoneOf(ioq', {"connected"})
      BY <2>1, <2>2
    <3>1. NoneOf(ioq, {"connected"}) BY DEF ConnectInv
    <3>2. ~Accept /\ ~ConnectCompletes
      BY DEF Accept, ConnectCompletes, ConnectInv
    <3> QED BY <3>1, <3>2, NonePosted
  <2>8. ASSUME events'.connect = 0
        PROVE  /\ reading' = 0 /\ writing' = 0 /\ NoneOf(ioq', Later)
               /\ \A s \in Sender : pc'[s] = "idle"
    <3>1. /\ events.connect = 0
          /\ \/ Accept \/ ResolveFails \/ Connect \/ AsyncConnect \/ ConnectCompletes
             \/ RunConnectFailed \/ RunClose \/ Break \/ UNCHANGED vars
      BY <2>8, EarlyStep
    <3>2. /\ reading = 0 /\ writing = 0 /\ NoneOf(ioq, Later)
          /\ \A s \in Sender : pc[s] = "idle"
      BY <3>1 DEF ConnectInv
    <3>3. reading' = 0 /\ writing' = 0 /\ pc' = pc
      BY <3>1, <3>2
      DEF Accept, ResolveFails, Connect, AsyncConnect, ConnectCompletes,
          RunConnectFailed, RunClose, ReadsAfterClose, Break, vars, kernel, senders
    <3>4. /\ ~RunRead /\ ~RunConnected
      BY <3>2, <2>8, <2>1, RunsQueued DEF RunRead, Later
    <3>5. /\ \A s \in Sender : ~SendPost(s) /\ ~SendBuffer(s)
          /\ ~ReadCompletes /\ ~ReadFails /\ ~WriteCompletes /\ ~WriteFails
          /\ ~StartRecvReturn
      BY <3>1, <3>2
      DEF SendPost, SendBuffer, CanSend, ReadCompletes, ReadFails, WriteCompletes,
          WriteFails, StartRecvReturn, ConnectInv
    <3>6. /\ "close" \notin Later /\ "connected" \notin Later
          /\ "connect_failed" \notin Later
      BY DEF Later
    <3>7. NoneOf(ioq', Later) BY <3>2, <3>4, <3>5, <3>6, NonePosted
    <3> QED BY <3>2, <3>3, <3>7
  <2>9. ASSUME events'.connect = 0, mode' \in {"accept", "accept_own"}
        PROVE  events'.close = 0 /\ NoneOf(ioq', {"close", "connect_failed"})
    <3>1. /\ events.connect = 0
          /\ \/ Accept \/ ResolveFails \/ Connect \/ AsyncConnect \/ ConnectCompletes
             \/ RunConnectFailed \/ RunClose \/ Break \/ UNCHANGED vars
      BY <2>9, EarlyStep
    <3>2. mode = mode'
      BY <3>1
      DEF Accept, ResolveFails, Connect, AsyncConnect, ConnectCompletes,
          RunConnectFailed, RunClose, Break, vars, opening, choice
    <3>3. /\ events.close = 0 /\ NoneOf(ioq, {"close", "connect_failed"})
          /\ NoneOf(ioq, Later) /\ opener # "connecting"
      BY <3>1, <3>2, <2>9 DEF ConnectInv
    <3>4. ~RunClose /\ ~RunConnectFailed
      BY <3>3, RunsQueued DEF RunClose, RunConnectFailed
    <3>5. ~RunRead /\ ~RunReadFailed /\ ~RunWriteFailed
      BY <3>3, RunsQueued DEF RunRead, RunReadFailed, RunWriteFailed, Later
    <3>6. ~ResolveFails /\ ~Connect /\ ~Close /\ ~ConnectCompletes
      BY <3>1, <3>2, <3>3, <2>9 DEF ResolveFails, Connect, Close, ConnectCompletes
    <3>7. NoneOf(ioq', {"close", "connect_failed"})
      BY <3>3, <3>4, <3>5, <3>6, NonePosted
    <3>8. events' = events
      BY <3>1, <3>4 DEF Accept, ResolveFails, Connect, AsyncConnect,
                        ConnectCompletes, Break, vars
    <3> QED BY <3>3, <3>7, <3>8
  <2> QED BY <2>3, <2>4, <2>5, <2>6, <2>7, <2>8, <2>9 DEF ConnectInv
<1> QED BY <1>1, <1>2, TypeCorrect, ReadsCorrect, HealthCorrect, PTL DEF Safety

(* on_close is called once, and one late read is decoded at most.           *)
THEOREM LateCorrect == Safety => []LateInv
<1>1. Init => LateInv
  BY DEF Init, LateInv, NoneOf
<1>2. TypeOK /\ ReadInv /\ HealthInv /\ LateInv /\ [Next]_vars => LateInv'
  <2> SUFFICES ASSUME TypeOK, ReadInv, HealthInv, LateInv, [Next]_vars PROVE LateInv'
    OBVIOUS
  <2>t. /\ events.close \in Nat /\ events.late \in Nat /\ reading \in Nat
        /\ DOMAIN events = {"connect", "close", "late"} /\ ioq \in Seq(Handler)
    BY DEF TypeOK, Events
  <2>1. CASE RunClose
    <3>1. CASE ~open
      <4>1. events' = events /\ reading' = reading
        BY <2>1, <3>1 DEF RunClose, CloseRuns
      <4>2. ~ReadCompletes \/ events.late # 1
        BY <2>t DEF ReadCompletes, LateInv
      <4>3. events.late = 1 => NoneOf(ioq', {"read"})
        BY <4>2, NonePosted DEF LateInv
      <4> QED BY <4>1, <4>3 DEF LateInv
    <3>2. CASE open
      <4>1. events.close = 0 /\ events.late = 0 BY <3>2 DEF HealthInv, LateInv
      <4>2. events'.close = 1 /\ events'.late = 0 /\ reading' = 0
        BY <2>1, <3>2, <4>1, <2>t DEF RunClose, CloseRuns, ReadsAfterClose
      <4> QED BY <4>2 DEF LateInv
    <3> QED BY <3>1, <3>2
  <2>2. CASE RunRead
    <3>1. /\ Tail(ioq) \in Seq(Handler) /\ NoneOf(Tail(ioq), Readers)
          /\ reading = 0
      BY <2>2, TurnRuns DEF RunRead, Readers
    <3>2. ~NoneOf(ioq, {"read"}) BY <2>2, RunsQueued DEF RunRead
    <3>3. events.late = 0 BY <3>2, <2>t DEF LateInv
    <3>4. PICK r \in {Tail(ioq), CloseOnError(Tail(ioq))} : DoRecv(r)
      BY <2>2 DEF RunRead
    <3>5. r \in Seq(Handler) /\ NoneOf(r, Readers) BY <3>1, <3>4, FailNone
    <3>6. NoneOf(r, {"read"}) BY <3>5 DEF NoneOf, Readers
    <3>7. CASE events.close > 0
      <4>1. ~open BY <3>7, <2>t DEF HealthInv
      <4>2. reading' = reading /\ ioq' = Append(r, H("read_failed"))
        BY <3>4, <4>1 DEF DoRecv
      <4>3. NoneOf(ioq', {"read"})
        <5>1. H("read_failed") \in Handler /\ H("read_failed").op \notin {"read"}
          BY PlainHandler DEF Plain
        <5> QED BY <3>5, <3>6, <4>2, <5>1, AppendOther
      <4>4. events'.close = events.close /\ events'.late = 1
        BY <2>2, <3>3, <3>7, <2>t DEF RunRead
      <4> QED BY <3>1, <3>7, <4>2, <4>3, <4>4, <2>t DEF LateInv
    <3>8. CASE ~(events.close > 0)
      <4>1. events' = events BY <2>2, <3>8 DEF RunRead
      <4> QED BY <3>3, <3>8, <4>1, <2>t DEF LateInv
    <3> QED BY <3>7, <3>8
  <2>3. CASE ~RunClose /\ ~RunRead
    <3>1. events'.close = events.close /\ events'.late = events.late
      <4>1. CASE StartOnConnect \/ RunConnected
        BY <4>1, <2>t DEF StartOnConnect, RunConnected, OnConnect
      <4>2. CASE Accept \/ ResolveFails \/ Connect \/ AsyncConnect \/ StartRecvCall
                 \/ StartRecvReturn \/ Close
        BY <4>2 DEF Accept, ResolveFails, Connect, AsyncConnect, StartRecvCall,
                    StartRecvReturn, Close
      <4>3. ASSUME NEW s \in Sender, Send(s) PROVE events' = events
        BY <4>3 DEF Send, SendLock, SendAppend, SendPost, SendBuffer
      <4>4. CASE RunFlush \/ RunAppend \/ RunWritten \/ RunWriteFailed
                 \/ RunReadFailed \/ RunConnectFailed
        BY <4>4 DEF RunFlush, RunAppend, RunWritten, RunWriteFailed, RunReadFailed,
                    RunConnectFailed
      <4>5. CASE Kernel \/ UNCHANGED vars
        BY <4>5 DEF Kernel, WriteProgress, WriteCompletes, WriteFails,
                    ReadCompletes, ReadFails, Break, ConnectCompletes, vars
      <4> QED BY <2>3, <4>1, <4>2, <4>3, <4>4, <4>5 DEF Next, Opener, IoThread
    (* A closed socket takes no read. *)
    <3>2. events.close = 1 => reading' = 0
      <4> SUFFICES ASSUME events.close = 1 PROVE reading' = 0
        OBVIOUS
      <4>0. ~open /\ reading = 0 BY DEF HealthInv, LateInv
      <4>1. CASE RunConnected \/ StartRecvReturn
        BY <4>0, <4>1 DEF RunConnected, StartRecvReturn, DoRecv
      <4>2. CASE Accept \/ ResolveFails \/ Connect \/ AsyncConnect \/ StartRecvCall
                 \/ StartOnConnect \/ Close
        BY <4>0, <4>2 DEF Accept, ResolveFails, Connect, AsyncConnect,
                          StartRecvCall, StartOnConnect, Close, kernel
      <4>3. ASSUME NEW s \in Sender, Send(s) PROVE reading' = 0
        BY <4>0, <4>3 DEF Send, SendLock, SendAppend, SendPost, SendBuffer, kernel
      <4>4. CASE RunFlush \/ RunAppend \/ RunWritten \/ RunWriteFailed
                 \/ RunReadFailed \/ RunConnectFailed
        BY <4>0, <4>4 DEF RunFlush, RunAppend, RunWritten, RunWriteFailed,
                          RunReadFailed, RunConnectFailed, kernel
      <4>5. CASE Kernel \/ UNCHANGED vars
        BY <4>0, <4>5 DEF Kernel, WriteProgress, WriteCompletes, WriteFails,
                          ReadCompletes, ReadFails, Break, ConnectCompletes,
                          kernel, vars
      <4> QED BY <2>3, <4>1, <4>2, <4>3, <4>4, <4>5 DEF Next, Opener, IoThread
    <3>3. events.late = 1 => NoneOf(ioq', {"read"})
      <4> SUFFICES ASSUME events.late = 1 PROVE NoneOf(ioq', {"read"})
        OBVIOUS
      <4>1. NoneOf(ioq, {"read"}) /\ reading = 0 BY <2>t DEF LateInv
      <4>2. ~ReadCompletes BY <4>1 DEF ReadCompletes
      <4> QED BY <4>1, <4>2, NonePosted
    <3> QED BY <3>1, <3>2, <3>3 DEF LateInv
  <2> QED BY <2>1, <2>2, <2>3
<1> QED BY <1>1, <1>2, TypeCorrect, ReadsCorrect, HealthCorrect, PTL DEF Safety

(* on_connect and on_close are reported once each, in that order unless      *)
(* connecting failed, and at most one read is decoded after on_close.       *)
THEOREM CloseOnceHolds == Safety => []CloseOnce
<1>1. TypeOK /\ HealthInv /\ ConnectInv /\ LateInv => CloseOnce
  <2> SUFFICES ASSUME TypeOK, HealthInv, ConnectInv, LateInv PROVE CloseOnce
    OBVIOUS
  <2>1. events.close \in Nat /\ events.connect \in Nat /\ mode \in Mode
    BY ConstantsAssumption DEF TypeOK, Events
  <2>2. events.close > events.connect => mode \in {"connect", "async_connect"}
    BY <2>1 DEF ConnectInv, LateInv, Mode
  <2> QED BY <2>1, <2>2 DEF CloseOnce, HealthInv, ConnectInv, LateInv
<1> QED BY <1>1, TypeCorrect, HealthCorrect, ConnectCorrect, LateCorrect, PTL

-----------------------------------------------------------------------------
(* The frames on their way were passed to send() by their sender. *)
Passed == Sender \X (1..MaxSends)
Sound  == [op : Plain] \cup [op : {"append"}, frame : Passed]

FrameInv ==
    /\ ioq \in Seq(Sound)
    /\ \A s \in Sender : calls[s] <= MaxSends
    /\ \A s \in Sender : pc[s] = "append" => calls[s] \in 1..MaxSends

(* Every step leaves sound handlers in the queue. *)
LEMMA SoundStep ==
    ASSUME TypeOK, [Next]_vars, ioq \in Seq(Sound)
    PROVE  ioq' \in Seq(Sound)
<1> DEFINE q == Tail(ioq)
<1>t. reading \in Nat /\ writing \in Nat BY DEF TypeOK
<1>q. ASSUME ioq # <<>> PROVE q \in Seq(Sound)
  BY <1>q, HeadTailProperties
<1>h. ASSUME NEW op \in Plain PROVE H(op) \in Sound
  BY <1>h DEF H, Sound
<1>p. ASSUME NEW r \in Seq(Sound), NEW op \in Plain
      PROVE  Append(r, H(op)) \in Seq(Sound)
  BY <1>p, <1>h, AppendProperties
<1>c. ASSUME NEW r \in Seq(Sound) PROVE CloseOnError(r) \in Seq(Sound)
  BY <1>c, <1>p DEF CloseOnError, Plain
<1>r. ASSUME NEW r \in Seq(Sound), DoRecv(r) PROVE ioq' \in Seq(Sound)
  BY <1>r, <1>p DEF DoRecv, Plain
<1>1. CASE Opener
  BY <1>1, <1>p, <1>r
  DEF Opener, Accept, ResolveFails, Connect, AsyncConnect, StartOnConnect,
      StartRecvCall, StartRecvReturn, Plain
<1>2. ASSUME NEW s \in Sender, Send(s) PROVE ioq' \in Seq(Sound)
  <2>1. CASE SendLock(s) \/ SendAppend(s)
    BY <2>1 DEF SendLock, SendAppend
  <2>2. CASE SendPost(s)
    BY <2>2, <1>p DEF SendPost, Plain
  <2>3. CASE SendBuffer(s)
    <3>1. calls[s] \in Nat /\ calls[s] < MaxSends
      BY <2>3 DEF SendBuffer, CanSend, TypeOK
    <3>2. <<s, calls[s] + 1>> \in Passed
      BY <3>1, ConstantsAssumption DEF Passed
    <3>3. Add(<<s, calls[s] + 1>>) \in Sound BY <3>2 DEF Add, Sound
    <3> QED BY <2>3, <3>3, AppendProperties DEF SendBuffer
  <2> QED BY <1>2, <2>1, <2>2, <2>3 DEF Send
<1>3. CASE Close
  BY <1>3, <1>p DEF Close, Plain
<1>4. CASE RunFlush \/ RunAppend \/ RunWritten
  <2>1. ioq # <<>> /\ ioq' = q
    BY <1>4 DEF RunFlush, RunAppend, RunWritten, DoSend, Runs
  <2> QED BY <2>1, <1>q
<1>5. CASE RunWriteFailed \/ RunReadFailed \/ RunConnectFailed
  <2>1. ioq # <<>> /\ ioq' = CloseOnError(q)
    BY <1>5 DEF RunWriteFailed, RunReadFailed, RunConnectFailed, Runs
  <2> QED BY <2>1, <1>q, <1>c
<1>6. CASE RunRead
  <2>1. q \in Seq(Sound) BY <1>6, <1>q DEF RunRead, Runs
  <2> QED BY <1>6, <2>1, <1>c, <1>r DEF RunRead
<1>7. CASE RunConnected
  <2>1. q \in Seq(Sound) BY <1>7, <1>q DEF RunConnected, Runs
  <2> QED BY <1>7, <2>1, <1>r DEF RunConnected
<1>8. CASE RunClose
  <2>1. q \in Seq(Sound) BY <1>8, <1>q DEF RunClose, Runs
  <2>2. CASE ~open
    BY <1>8, <2>1, <2>2 DEF RunClose, CloseRuns
  <2>3. CASE open
    <3> DEFINE rs == Aborted("read_failed", reading)
               ws == Aborted("write_failed", writing)
    <3>1. H("read_failed") \in Sound /\ H("write_failed") \in Sound
      BY <1>h DEF Plain
    <3>2. rs \in Seq(Sound) /\ ws \in Seq(Sound)
      BY <3>1, <1>t, Copies DEF Aborted
    <3>3. ioq' = (q \o rs) \o ws BY <1>8, <2>3 DEF RunClose, CloseRuns
    <3> HIDE DEF rs, ws
    <3> QED BY <2>1, <3>2, <3>3, ConcatProperties
  <2> QED BY <2>2, <2>3
<1>9. CASE Kernel
  BY <1>9, <1>p
  DEF Kernel, WriteProgress, WriteCompletes, WriteFails, ReadCompletes, ReadFails,
      Break, ConnectCompletes, Plain
<1>10. CASE UNCHANGED vars
  BY <1>10 DEF vars
<1> QED BY <1>1, <1>2, <1>3, <1>4, <1>5, <1>6, <1>7, <1>8, <1>9, <1>10
        DEF Next, IoThread

(* Every frame that is queued or being appended belongs to a call of        *)
(* send().                                                                  *)
THEOREM FramesCorrect == Safety => []FrameInv
<1>1. Init => FrameInv
  <2>1. <<>> \in Seq(Sound) BY EmptySeq
  <2> QED BY <2>1, ConstantsAssumption DEF Init, FrameInv
<1>2. TypeOK /\ FrameInv /\ [Next]_vars => FrameInv'
  <2> SUFFICES ASSUME TypeOK, FrameInv, [Next]_vars PROVE FrameInv'
    OBVIOUS
  <2>1. ioq' \in Seq(Sound) BY SoundStep DEF FrameInv
  <2>2. ASSUME NEW t \in Sender
        PROVE  /\ calls'[t] <= MaxSends
               /\ pc'[t] = "append" => calls'[t] \in 1..MaxSends
    <3>t. calls[t] \in Nat /\ MaxSends \in Nat BY ConstantsAssumption DEF TypeOK
    <3>1. CASE UNCHANGED <<pc, calls>>
      BY <3>1 DEF FrameInv
    <3>2. ASSUME NEW s \in Sender, Send(s)
          PROVE  /\ calls'[t] <= MaxSends
                 /\ pc'[t] = "append" => calls'[t] \in 1..MaxSends
      <4>1. CASE SendLock(s)
        BY <4>1, <3>t DEF SendLock, CanSend, FrameInv, TypeOK
      <4>2. CASE SendAppend(s) \/ SendPost(s)
        BY <4>2, <3>t DEF SendAppend, SendPost, FrameInv, TypeOK
      <4>3. CASE SendBuffer(s)
        BY <4>3, <3>t DEF SendBuffer, CanSend, FrameInv, TypeOK
      <4> QED BY <3>2, <4>1, <4>2, <4>3 DEF Send
    <3>3. CASE Opener \/ Close
      BY <3>1, <3>3 DEF Opener, Accept, ResolveFails, Connect, AsyncConnect,
                        StartOnConnect, StartRecvCall, StartRecvReturn, Close, senders
    <3>4. CASE IoThread
      BY <3>1, <3>4 DEF IoThread, RunFlush, RunAppend, RunWritten, RunWriteFailed,
                        RunRead, RunReadFailed, RunConnected, RunConnectFailed,
                        RunClose, senders
    <3>5. CASE Kernel \/ UNCHANGED vars
      BY <3>1, <3>5 DEF Kernel, WriteProgress, WriteCompletes, WriteFails,
                        ReadCompletes, ReadFails, Break, ConnectCompletes, vars,
                        senders
    <3> QED BY <3>2, <3>3, <3>4, <3>5 DEF Next
  <2> QED BY <2>1, <2>2 DEF FrameInv
<1> QED BY <1>1, <1>2, TypeCorrect, PTL DEF Safety

(* The session implements the promise: on_connect makes it come up, the      *)
(* close() that finds the socket open makes it go down, an append accepts a *)
(* frame, and a frame leaving cache_buffer_ is the next one accepted.       *)
THEOREM PromiseKept == Safety => ImplementsPromise
<1>1. Init => Promise!Init
  BY DEF Init, Promise!Init
<1>2. /\ TypeOK /\ WriteInv /\ HealthInv /\ ConnectInv /\ FrameInv
      /\ StreamInv /\ StreamInv' /\ [Next]_vars
      => [Promise!Next]_(Promise!vars)
  <2> SUFFICES ASSUME TypeOK, WriteInv, HealthInv, ConnectInv, FrameInv,
                      StreamInv, StreamInv', [Next]_vars
               PROVE  [Promise!Next]_(Promise!vars)
    OBVIOUS
  <2> DEFINE st(e) == IF e.close > 0 THEN "down"
                      ELSE IF e.connect > 0 THEN "up" ELSE "idle"
             f(s)  == <<s, calls[s]>>
  <2>t. /\ events.connect \in Nat /\ events.close \in Nat
        /\ DOMAIN events = {"connect", "close", "late"}
        /\ wire \in Seq(Frame) /\ sent \in Seq(Frame) /\ writing \in Nat
        /\ MaxSends \in Nat
    BY ConstantsAssumption DEF TypeOK, Events
  <2>s. ASSUME sent' = sent, wire' = wire, st(events') = st(events)
        PROVE  [Promise!Next]_(Promise!vars)
    BY <2>s DEF Promise!vars
  <2>u. ASSUME UNCHANGED <<sent, wire, events>>
        PROVE  [Promise!Next]_(Promise!vars)
    BY <2>u DEF Promise!vars
  (* Accept. *)
  <2>a. ASSUME NEW g \in Passed, sent' = Append(sent, g), wire' = wire,
               events' = events, events.connect # 0
        PROVE  Promise!Next
    BY <2>a, <2>t DEF Promise!Next, Promise!Accept, Passed
  <2>1. ASSUME NEW s \in Sender, SendAppend(s) PROVE Promise!Next
    <3>1. pc[s] = "append" BY <2>1 DEF SendAppend
    <3>2. events.connect # 0 BY <3>1 DEF ConnectInv
    <3>3. f(s) \in Passed BY <3>1 DEF FrameInv, Passed
    <3> QED BY <2>1, <3>2, <3>3, <2>a DEF SendAppend, kernel
  <2>2. CASE RunAppend
    <3>1. ~NoneOf(ioq, Later) BY <2>2, RunsQueued DEF RunAppend, Later
    <3>2. events.connect # 0 BY <3>1 DEF ConnectInv
    <3>3. Head(ioq) \in Sound /\ Head(ioq).op = "append"
      BY <2>2, HeadTailProperties DEF RunAppend, Runs, FrameInv
    <3>4. Head(ioq).frame \in Passed BY <3>3 DEF Sound, Plain
    <3> QED BY <2>2, <3>2, <3>4, <2>a DEF RunAppend
  (* Deliver: InOrder after the step says which frame it was. *)
  <2>3. CASE WriteProgress
    <3>1. events.connect # 0 BY <2>3, <2>t DEF WriteProgress, ConnectInv
    <3>2. events.close = 0 BY <2>3, <2>t DEF WriteProgress, WriteInv, HealthInv
    <3>3. /\ wire' = Append(wire, cache_buffer_[taken + 1])
          /\ sent' = sent /\ events' = events
      BY <2>3 DEF WriteProgress
    <3>4. Len(wire') <= Len(sent) /\ \A i \in 1..Len(wire') : wire'[i] = sent[i]
      BY <3>3 DEF StreamInv, InOrder
    <3>5. cache_buffer_[taken + 1] \in Frame
      <4>1. cache_buffer_ \in Seq(Frame) /\ taken \in Nat BY DEF TypeOK
      <4>2. taken + 1 \in 1..Len(cache_buffer_)
        BY <4>1, <2>3, LenProperties DEF WriteProgress
      <4> QED BY <4>1, <4>2, ElementOfSeq
    <3>6. /\ Len(wire') = Len(wire) + 1 /\ Len(wire) \in Nat /\ Len(sent) \in Nat
          /\ wire'[Len(wire) + 1] = cache_buffer_[taken + 1]
      BY <3>3, <3>5, <2>t, AppendProperties, LenProperties
    <3>7. Len(wire) < Len(sent) /\ wire' = Append(wire, sent[Len(wire) + 1])
      BY <3>3, <3>4, <3>6
    <3>8. Promise!Deliver
      BY <3>1, <3>2, <3>3, <3>7, <2>t DEF Promise!Deliver
    <3> QED BY <3>8 DEF Promise!Next
  (* ComeUp and GoDown. *)
  <2>4. CASE StartOnConnect \/ RunConnected
    <3>1. sent' = sent /\ wire' = wire /\ OnConnect
      BY <2>4 DEF StartOnConnect, RunConnected, kernel
    <3>2. events'.connect = events.connect + 1 /\ events'.close = events.close
      BY <3>1, <2>t DEF OnConnect
    <3>3. CASE st(events) = "idle"
      <4>1. st(events') = "up" BY <3>2, <3>3, <2>t
      <4>2. Promise!ComeUp BY <3>1, <3>3, <4>1 DEF Promise!ComeUp
      <4> QED BY <4>2 DEF Promise!Next
    <3>4. CASE st(events) # "idle"
      <4>1. st(events') = st(events) BY <3>2, <3>4, <2>t
      <4> QED BY <3>1, <4>1, <2>s
    <3> QED BY <3>3, <3>4
  <2>5. CASE RunClose
    <3>1. sent' = sent /\ wire' = wire BY <2>5 DEF RunClose
    <3>2. CASE ~open BY <2>5, <3>1, <3>2, <2>u DEF RunClose, CloseRuns
    <3>3. CASE open
      <4>1. events.close = 0 BY <3>3 DEF HealthInv
      <4>2. events'.close = 1 BY <2>5, <3>3, <4>1, <2>t DEF RunClose, CloseRuns
      <4>3. st(events) \in {"idle", "up"} /\ st(events') = "down"
        BY <4>1, <4>2
      <4>4. Promise!GoDown BY <3>1, <4>3 DEF Promise!GoDown
      <4> QED BY <4>4 DEF Promise!Next
    <3> QED BY <3>2, <3>3
  <2>6. CASE RunRead
    <3>1. sent' = sent /\ wire' = wire BY <2>6 DEF RunRead
    <3>2. events'.connect = events.connect /\ events'.close = events.close
      BY <2>6, <2>t DEF RunRead
    <3>3. st(events') = st(events) BY <3>2
    <3> QED BY <3>1, <3>3, <2>s
  (* The steps the promise does not see. *)
  <2>7. CASE Accept \/ ResolveFails \/ Connect \/ AsyncConnect \/ StartRecvCall
             \/ StartRecvReturn \/ Close
    BY <2>7, <2>u DEF Accept, ResolveFails, Connect, AsyncConnect, StartRecvCall,
                      StartRecvReturn, Close, kernel
  <2>8. ASSUME NEW s \in Sender, SendLock(s) \/ SendPost(s) \/ SendBuffer(s)
        PROVE  [Promise!Next]_(Promise!vars)
    BY <2>8, <2>u DEF SendLock, SendPost, SendBuffer, kernel
  <2>9. CASE RunFlush \/ RunWritten \/ RunWriteFailed \/ RunReadFailed
             \/ RunConnectFailed
    BY <2>9, <2>u DEF RunFlush, RunWritten, RunWriteFailed, RunReadFailed,
                      RunConnectFailed, kernel
  <2>10. CASE WriteCompletes \/ WriteFails \/ ReadCompletes \/ ReadFails \/ Break
              \/ ConnectCompletes \/ UNCHANGED vars
    BY <2>10, <2>u DEF WriteCompletes, WriteFails, ReadCompletes, ReadFails, Break,
                       ConnectCompletes, kernel, vars
  <2> QED
    BY <2>1, <2>2, <2>3, <2>4, <2>5, <2>6, <2>7, <2>8, <2>9, <2>10
    DEF Next, Opener, Send, IoThread, Kernel
<1> QED
  BY <1>1, <1>2, TypeCorrect, WritesCorrect, HealthCorrect, ConnectCorrect,
     FramesCorrect, StreamCorrect, PTL
  DEF Safety, ImplementsPromise, Promise!Spec
=============================================================================
