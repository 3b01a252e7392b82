------------------------------ MODULE PartsProofs ------------------------------
(***************************************************************************)
(* Theorems about the engine's parts that have no state in common (see      *)
(* MCParts): the buffer pool, the clients of the two databases, the command *)
(* line and the urls.                                                       *)
(***************************************************************************)
EXTENDS BufferPool, RedisClient, MongoClient, Cmdline, NetUrl,
        SequenceTheorems, FiniteSetTheorems, WellFoundedInduction, NaturalsInduction, TLAPS

-----------------------------------------------------------------------------
(* Numbers: the least of a set, and definitions by recursion. *)
Less == {ss \in Nat \X Nat : ss[1] < ss[2]}
(* The order of the numbers is well-founded. *)
LEMMA LessFounded == IsWellFoundedOn(Less, Nat)
  BY NatLessThanWellFounded DEF OpToRel, Less
(* Every nonempty set of numbers has a least one. *)
LEMMA LeastNumber ==
    ASSUME NEW T, T \subseteq Nat, T # {}
    PROVE  \E n \in T : \A k \in T : n <= k
<1>1. \E x \in T : \A y \in T : ~(<<y, x>> \in Less)
  BY LessFounded, WFMin
<1>2. PICK n \in T : \A y \in T : ~(<<y, n>> \in Less) BY <1>1
<1>3. \A y \in T : ~(y < n)
  <2>1. ASSUME NEW y \in T, y < n PROVE FALSE
    <3>1. <<y, n>> \in Less BY <2>1 DEF Less
    <3> QED BY <3>1, <1>2
  <2> QED BY <2>1
<1> QED BY <1>3

(* A set that has 0, and with each number the next, has them all. *)
LEMMA StepByStep ==
    ASSUME NEW n \in Nat, NEW T, 0 \in T, \A k \in 1..n : k - 1 \in T => k \in T
    PROVE  \A k \in 0..n : k \in T
<1> DEFINE U == {k \in 0..n : k \notin T}
<1> SUFFICES ASSUME U # {} PROVE FALSE OBVIOUS
<1>1. U \subseteq Nat OBVIOUS
<1>2. PICK m \in U : \A k \in U : m <= k
  <2> HIDE DEF U
  <2> QED BY <1>1, LeastNumber
<1>3. m \in 1..n /\ m - 1 \in 0..n /\ ~(m <= m - 1) BY <1>2
<1>4. m - 1 \notin U
  <2> HIDE DEF U
  <2> QED BY <1>2, <1>3
<1> QED BY <1>2, <1>3, <1>4

(* A function that is defined step by step. *)
Stepwise(f, n, S, s, F) == f \in [0..n -> S] /\ f[0] = s /\ \A k \in 1..n : f[k] = F[k][f[k - 1]]
(* There is such a function for all first values and steps. *)
LEMMA Recursion ==
    ASSUME NEW n \in Nat, NEW S, NEW s \in S, NEW F \in [1..n -> [S -> S]]
    PROVE  \E f : Stepwise(f, n, S, s, F)
<1> DEFINE Up(f, m) == f \in [0..m -> S] /\ f[0] = s /\ \A k \in 1..m : f[k] = F[k][f[k - 1]]
<1> DEFINE T == {m \in 0..n : \E f : Up(f, m)}
<1>1. 0 \in T
  <2>1. PICK f : f = [k \in 0..0 |-> s] OBVIOUS
  <2>2. Up(f, 0) BY <2>1
  <2> HIDE DEF Up
  <2> QED BY <2>2
<1>2. ASSUME NEW m \in 1..n, m - 1 \in T PROVE m \in T
  <2>1. PICK f : Up(f, m - 1) BY <1>2
  <2>2. PICK v : v = F[m][f[m - 1]] OBVIOUS
  <2>3. m - 1 \in 0..(m - 1) /\ f[m - 1] \in S /\ v \in S BY <2>1, <2>2
  <2>4. PICK g : g = [k \in 0..m |-> IF k = m THEN v ELSE f[k]] OBVIOUS
  <2>5. \A k \in 0..m : k = m \/ k \in 0..(m - 1) OBVIOUS
  <2>6. \A k \in 0..(m - 1) : g[k] = f[k] /\ f[k] \in S BY <2>1, <2>4
  <2>7. g \in [0..m -> S] BY <2>3, <2>4, <2>5, <2>6
  <2>8. g[0] = s BY <2>1, <2>6
  <2>9. ASSUME NEW k \in 1..m PROVE g[k] = F[k][g[k - 1]]
    <3>1. k - 1 \in 0..(m - 1) /\ g[k - 1] = f[k - 1] BY <2>6
    <3>2. CASE k = m BY <3>1, <3>2, <2>2, <2>4
    <3>3. CASE k # m
      <4>1. k \in 1..(m - 1) /\ k \in 0..(m - 1) BY <3>3
      <4> QED BY <4>1, <3>1, <2>1, <2>6
    <3> QED BY <3>2, <3>3
  <2>10. Up(g, m) BY <2>7, <2>8, <2>9
  <2> HIDE DEF Up
  <2> QED BY <2>10
<1> HIDE DEF T
<1>3. n \in T
  <2>1. n \in 0..n OBVIOUS
  <2> QED BY <1>1, <1>2, <2>1, StepByStep
<1> QED BY <1>3 DEF T, Stepwise

(* Numbers count a sequence. *)
LEMMA SeqOfLen == ASSUME NEW S, NEW n \in Nat, NEW f \in [1..n -> S] PROVE f \in Seq(S) /\ Len(f) = n
<1>1. f \in Seq(S) BY SeqDef
<1>2. PICK m \in Nat : m = Len(f) BY <1>1, LenProperties
<1>3. 1..m = 1..n BY <1>1, <1>2, LenProperties
<1>4. m = n
  <2>1. n > 0 => n \in 1..m BY <1>3
  <2>2. m > 0 => m \in 1..n BY <1>3
  <2> QED BY <2>1, <2>2
<1> QED BY <1>1, <1>2, <1>4

-----------------------------------------------------------------------------
(* BufferPool, for any number of threads, buffers and lengths: who holds a   *)
(* buffer has it, and there is one manager.                                  *)

BufferSpec == BufferInit /\ [][BufferNext]_b_vars

-----------------------------------------------------------------------------
(* The parts of the invariant. *)
Places == {"idle", "once", "new", "store", "stored", "made", "alloc", "fill", "hold", "release", "enqueue"}
BufferTypes == /\ b_free \subseteq Buffers
               /\ b_class \in [Buffers -> Nat] /\ b_length \in [Buffers -> Nat] /\ b_asked \in [Buffers -> Nat]
               /\ b_refs \in [Buffers -> SUBSET BufferUsers]
               /\ b_pc \in [BufferUsers -> Places]
               /\ b_mine \in [BufferUsers -> Buffers \cup {NoBuffer}]

(* One thread at a time is in call_once, one ever makes a manager, and ins_   *)
(* is stored after that.                                                      *)
Calls(u) == b_pc[u] \in {"new", "store", "stored"}
OneManager == /\ b_pool \in [BufferUsers -> {0, b_ins}]
              /\ b_made \in {0, 1} /\ b_ins \in {0, b_made}
              /\ b_once \in {"unset", "running", "set"}
              /\ b_once = "unset" => b_made = 0
              /\ b_once = "set" => b_ins = 1
              /\ \A u \in BufferUsers :
                   /\ Calls(u) => b_once = "running"
                   /\ b_pc[u] = "new" => b_made = 0
                   /\ b_pc[u] = "store" => b_made = 1
                   /\ b_pc[u] = "stored" => b_ins = 1
                   /\ b_pc[u] \in {"alloc", "fill"} => b_pool[u] = 1
              /\ \A u, v \in BufferUsers : Calls(u) /\ Calls(v) => u = v

(* A thread that works on a buffer has it: a thread that fills it holds the   *)
(* only reference, one that gives it back is alone with it, and all others    *)
(* hold a reference each.                                                     *)
Works(u)    == b_pc[u] \in {"fill", "hold", "release", "enqueue"}
GivesBack(u) == b_pc[u] \in {"release", "enqueue"}
Filled(b)    == b_length[b] = IF b_asked[b] <= b_class[b] THEN b_asked[b] ELSE 0
Using == \A u \in BufferUsers : LET b == b_mine[u] IN
           /\ Works(u) => b \in Buffers /\ b \notin b_free /\ b_class[b] # 0
           /\ b_pc[u] = "fill" => b_refs[b] = {u} /\ b_length[b] = 0
           /\ b_pc[u] = "hold" => u \in b_refs[b] /\ Filled(b)
           /\ GivesBack(u) => b_refs[b] = {}
           /\ b_pc[u] = "enqueue" => b_length[b] = 0
Alone == \A u, v \in BufferUsers : GivesBack(u) /\ Works(v) /\ b_mine[u] = b_mine[v] => u = v
Resting == \A b \in Buffers :
             /\ \A u \in b_refs[b] : b_mine[u] = b /\ b_pc[u] \in {"fill", "hold"}
             /\ b_class[b] = 0 => b_refs[b] = {} /\ b \notin b_free /\ b_length[b] = 0
             /\ b \in b_free => b_refs[b] = {} /\ b_length[b] = 0
BufferInv == BufferTypes /\ OneManager /\ Using /\ Alone /\ Resting

(* A pool that was just made has no buffer anywhere.                        *)
LEMMA BuffersStart == BufferInit => BufferInv
  BY DEF BufferInit, BufferInv, BufferTypes, Places, OneManager, Calls, Using, Works,
         GivesBack, Alone, Resting, NoBuffer

(* A class is a number, whatever alloc() makes of the size. *)
LEMMA ClassIs ==
    ASSUME NEW s \in Nat
    PROVE  ClassOf(s) \in Nat
<1> DEFINE fit == {c \in Classes : AsInt(s) < c}
<1>1. CASE fit = {} BY <1>1 DEF ClassOf
<1>2. CASE fit # {}
  <2>1. fit \subseteq Nat BY DEF Classes
  <2>2. \E c \in fit : \A d \in fit : c <= d
    <3> HIDE DEF fit
    <3> QED BY <1>2, <2>1, LeastNumber
  <2>3. ClassOf(s) \in fit BY <1>2, <2>2 DEF ClassOf
  <2> QED BY <2>1, <2>3
<1> QED BY <1>1, <1>2

(* alloc: what TakeNew does to the buffer it makes. *)
LEMMA NewFits ==
    ASSUME NEW u, TakeNew(u)
    PROVE  \E b \in Buffers, s \in Nat, c \in Nat :
             /\ b_class[b] = 0 /\ c # 0
             /\ Goes(u, "alloc", "fill")
             /\ b_class' = [b_class EXCEPT ![b] = c]
             /\ b_refs' = [b_refs EXCEPT ![b] = {u}]
             /\ b_mine' = [b_mine EXCEPT ![u] = b]
             /\ b_asked' = [b_asked EXCEPT ![b] = s]
             /\ UNCHANGED <<b_singleton, b_free, b_length, b_pool>>
  BY ClassIs, BufferConstants DEF TakeNew, Unmade

(* What alloc() does with a free buffer of the class it needs               *)
(* (buffer_pool.h:108).                                                      *)
LEMMA FreeFits ==
    ASSUME NEW u, TakeFree(u)
    PROVE  \E b \in b_free, s \in Nat :
             /\ Goes(u, "alloc", "fill")
             /\ b_free' = b_free \ {b}
             /\ b_refs' = [b_refs EXCEPT ![b] = {u}]
             /\ b_mine' = [b_mine EXCEPT ![u] = b]
             /\ b_asked' = [b_asked EXCEPT ![b] = s]
             /\ UNCHANGED <<b_singleton, b_class, b_length, b_pool>>
  BY BufferConstants DEF TakeFree, FreeOf

-----------------------------------------------------------------------------
(* instance(): the buffers stay as they are. *)
LEMMA InstanceStep ==
    ASSUME BufferInv, NEW u \in BufferUsers,
           Look(u) \/ OnceEnter(u) \/ OnceMakes(u) \/ OnceStores(u) \/ OnceSets(u) \/ OnceReturns(u)
    PROVE  BufferInv'
<1>1. /\ UNCHANGED <<b_buffers, b_mine>> /\ ~Works(u)
      /\ \E to \in {"once", "alloc", "new", "store", "stored", "made"} : b_pc' = [b_pc EXCEPT ![u] = to]
  BY DEF Look, OnceEnter, OnceMakes, OnceStores, OnceSets, OnceReturns, Goes, Works
<1>2. UNCHANGED <<b_free, b_class, b_length, b_refs, b_asked, b_mine>> BY <1>1 DEF b_buffers
<1>3. BufferTypes' BY <1>1, <1>2 DEF BufferInv, BufferTypes, Places
<1>4. \A v \in BufferUsers : v # u => b_pc'[v] = b_pc[v] BY <1>1 DEF BufferInv, BufferTypes
<1>5. b_pc'[u] \in {"once", "alloc", "new", "store", "stored", "made"} BY <1>1 DEF BufferInv, BufferTypes
<1>6. Using' BY <1>2, <1>4, <1>5 DEF BufferInv, Using, Works, GivesBack, Filled
<1>7. Alone' BY <1>2, <1>4, <1>5 DEF BufferInv, Alone, Works, GivesBack
<1>8. Resting' BY <1>1, <1>2, <1>4 DEF BufferInv, BufferTypes, Resting, Works
<1>p. BufferTypes /\ OneManager BY DEF BufferInv
<1>9. OneManager'
  <2>1. CASE Look(u)
    <3>1. /\ b_pool' = [b_pool EXCEPT ![u] = b_ins] /\ UNCHANGED <<b_ins, b_made, b_once>>
          /\ b_pc'[u] = IF b_ins = 0 THEN "once" ELSE "alloc"
      BY <2>1, <1>p DEF Look, Goes, InsNull, b_singleton, BufferTypes
    <3> QED BY <3>1, <1>4, <1>p DEF OneManager, Calls
  <2>2. CASE OnceEnter(u)
    <3>1. /\ b_once = "unset" /\ b_once' = "running" /\ UNCHANGED <<b_ins, b_made, b_pool>> /\ b_pc'[u] = "new"
      BY <2>2, <1>p DEF OnceEnter, OnceUnset, Goes, BufferTypes
    <3> QED BY <3>1, <1>4, <1>p DEF OneManager, Calls
  <2>3. CASE OnceMakes(u)
    <3>1. /\ b_pc[u] = "new" /\ b_pc'[u] = "store" /\ b_made' = b_made + 1 /\ UNCHANGED <<b_ins, b_once, b_pool>>
      BY <2>3, <1>p DEF OnceMakes, Goes, BufferTypes
    <3>2. b_made = 0 /\ b_ins = 0 /\ b_once = "running" BY <3>1, <1>p DEF OneManager, Calls
    <3>3. \A v \in BufferUsers : v # u => ~Calls(v) BY <3>1, <1>p DEF OneManager, Calls
    <3> QED BY <3>1, <3>2, <3>3, <1>4, <1>p DEF OneManager, Calls
  <2>4. CASE OnceStores(u)
    <3>1. /\ b_pc[u] = "store" /\ b_pc'[u] = "stored" /\ b_ins' = b_made /\ UNCHANGED <<b_made, b_once, b_pool>>
      BY <2>4, <1>p DEF OnceStores, Goes, BufferTypes
    <3>2. b_made = 1 /\ b_once = "running" BY <3>1, <1>p DEF OneManager, Calls
    <3> QED BY <3>1, <3>2, <1>4, <1>p DEF OneManager, Calls
  <2>5. CASE OnceSets(u)
    <3>1. /\ b_pc[u] = "stored" /\ b_pc'[u] = "made" /\ b_once' = "set" /\ UNCHANGED <<b_ins, b_made, b_pool>>
      BY <2>5, <1>p DEF OnceSets, Goes, BufferTypes
    <3>2. b_ins = 1 BY <3>1, <1>p DEF OneManager
    <3>3. \A v \in BufferUsers : v # u => ~Calls(v) BY <3>1, <1>p DEF OneManager, Calls
    <3> QED BY <3>1, <3>2, <3>3, <1>4, <1>p DEF OneManager, Calls
  <2>6. CASE OnceReturns(u)
    <3>1. /\ b_pool' = [b_pool EXCEPT ![u] = b_ins] /\ UNCHANGED <<b_once, b_ins, b_made>>
          /\ b_pc'[u] = "alloc" /\ b_once = "set"
      BY <2>6, <1>p DEF OnceReturns, Goes, b_singleton, BufferTypes
    <3>2. b_ins = 1 BY <3>1, <1>p DEF OneManager
    <3> QED BY <3>1, <3>2, <1>4, <1>p DEF OneManager, Calls
  <2> QED BY <2>1, <2>2, <2>3, <2>4, <2>5, <2>6
<1> QED BY <1>3, <1>6, <1>7, <1>8, <1>9 DEF BufferInv

(* The other steps leave the manager alone. *)
LEMMA ManagerKept ==
    ASSUME BufferInv, UNCHANGED <<b_singleton, b_pool>>, NEW u \in BufferUsers,
           NEW to \in {"idle", "fill", "hold", "release", "enqueue"},
           b_pc' = [b_pc EXCEPT ![u] = to], to = "fill" => b_pc[u] = "alloc"
    PROVE  OneManager'
<1>1. UNCHANGED <<b_ins, b_made, b_once, b_pool>> BY DEF b_singleton
<1>2. /\ \A v \in BufferUsers : v # u => b_pc'[v] = b_pc[v]
      /\ b_pc'[u] = to
  BY DEF BufferInv, BufferTypes
<1> QED BY <1>1, <1>2 DEF BufferInv, OneManager, Calls

(* alloc(): a buffer in a queue has no reference, and nobody works on it. *)
LEMMA AllocStep ==
    ASSUME BufferInv, NEW u \in BufferUsers, TakeFree(u) \/ TakeNew(u)
    PROVE  BufferInv'
<1>1. PICK b \in Buffers, s \in Nat :
        /\ b \in b_free \/ b_class[b] = 0
        /\ b_class'[b] # 0 /\ b_class' \in [Buffers -> Nat]
        /\ \A x \in Buffers \ {b} : b_class'[x] = b_class[x]
        /\ b_free' = b_free \ {b}
        /\ b_pc[u] = "alloc" /\ b_pc' = [b_pc EXCEPT ![u] = "fill"]
        /\ b_refs' = [b_refs EXCEPT ![b] = {u}]
        /\ b_mine' = [b_mine EXCEPT ![u] = b]
        /\ b_asked' = [b_asked EXCEPT ![b] = s]
        /\ UNCHANGED <<b_singleton, b_length, b_pool>>
  <2>1. CASE TakeFree(u)
    <3>1. PICK b \in b_free, s \in Nat :
             /\ Goes(u, "alloc", "fill")
             /\ b_free' = b_free \ {b}
             /\ b_refs' = [b_refs EXCEPT ![b] = {u}]
             /\ b_mine' = [b_mine EXCEPT ![u] = b]
             /\ b_asked' = [b_asked EXCEPT ![b] = s]
             /\ UNCHANGED <<b_singleton, b_class, b_length, b_pool>>
      BY <2>1, FreeFits
    <3>2. b \in Buffers /\ b_class[b] # 0 /\ b_class' \in [Buffers -> Nat]
      BY <3>1 DEF BufferInv, BufferTypes, Resting
    <3> QED BY <3>1, <3>2 DEF Goes
  <2>2. CASE TakeNew(u)
    <3>1. PICK b \in Buffers, s \in Nat, c \in Nat :
             /\ b_class[b] = 0 /\ c # 0
             /\ Goes(u, "alloc", "fill")
             /\ b_class' = [b_class EXCEPT ![b] = c]
             /\ b_refs' = [b_refs EXCEPT ![b] = {u}]
             /\ b_mine' = [b_mine EXCEPT ![u] = b]
             /\ b_asked' = [b_asked EXCEPT ![b] = s]
             /\ UNCHANGED <<b_singleton, b_free, b_length, b_pool>>
      BY <2>2, NewFits
    <3>2. b_class' \in [Buffers -> Nat] /\ b_class'[b] = c /\ \A x \in Buffers \ {b} : b_class'[x] = b_class[x]
      BY <3>1 DEF BufferInv, BufferTypes
    <3>3. b_free' = b_free \ {b} BY <3>1 DEF BufferInv, Resting
    <3> QED BY <3>1, <3>2, <3>3 DEF Goes
  <2> QED BY <2>1, <2>2
<1>2. \A v \in BufferUsers : Works(v) => b_mine[v] # b BY <1>1 DEF BufferInv, Using
<1>3. b_refs[b] = {} /\ b_length[b] = 0 BY <1>1 DEF BufferInv, Resting
<1>4. BufferTypes' BY <1>1 DEF BufferInv, BufferTypes, Places
<1>5. OneManager' BY <1>1, ManagerKept
<1>6. Using' BY <1>1, <1>2, <1>3 DEF BufferInv, BufferTypes, Using, Works, GivesBack, Filled
<1>7. Alone' BY <1>1, <1>2 DEF BufferInv, BufferTypes, Alone, Works, GivesBack
<1>8. Resting' BY <1>1, <1>2, <1>3 DEF BufferInv, BufferTypes, Resting, Works
<1> QED BY <1>4, <1>5, <1>6, <1>7, <1>8 DEF BufferInv

(* alloc() of a size no class is for. *)
LEMMA NoneStep ==
    ASSUME BufferInv, NEW u \in BufferUsers, AllocNone(u)
    PROVE  BufferInv'
<1>1. /\ b_pc[u] = "alloc" /\ b_pc' = [b_pc EXCEPT ![u] = "idle"]
      /\ UNCHANGED <<b_singleton, b_free, b_class, b_length, b_refs, b_asked, b_mine, b_pool>>
  BY DEF AllocNone, Goes, b_buffers
<1>2. BufferTypes' /\ OneManager' BY <1>1, ManagerKept DEF BufferInv, BufferTypes, Places
<1>3. Using' BY <1>1 DEF BufferInv, BufferTypes, Using, Works, GivesBack, Filled
<1>4. Alone' BY <1>1 DEF BufferInv, BufferTypes, Alone, Works, GivesBack
<1>5. Resting' BY <1>1 DEF BufferInv, BufferTypes, Resting
<1> QED BY <1>2, <1>3, <1>4, <1>5 DEF BufferInv

(* copy_from(): the buffer is filled, or left empty when it is too small; no  *)
(* other thread holds it.                                                     *)
LEMMA FillStep ==
    ASSUME BufferInv, NEW u \in BufferUsers, Fill(u)
    PROVE  BufferInv'
<1> DEFINE b == b_mine[u]
<1>1. /\ b_pc[u] = "fill" /\ b_pc' = [b_pc EXCEPT ![u] = "hold"]
      /\ UNCHANGED <<b_singleton, b_free, b_class, b_refs, b_asked, b_mine, b_pool>>
  BY DEF Fill, Goes
<1>2. b \in Buffers /\ b \notin b_free /\ b_class[b] # 0 /\ b_refs[b] = {u} /\ b_length[b] = 0
  BY <1>1 DEF BufferInv, Using, Works
<1>3. b_length' = [b_length EXCEPT ![b] = IF b_asked[b] <= b_class[b] THEN b_asked[b] ELSE 0]
  <2>1. b_asked[b] \in Nat /\ b_class[b] \in Nat BY <1>2 DEF BufferInv, BufferTypes
  <2>2. b_length' = [b_length EXCEPT ![b] = IF b_class[b] < b_asked[b] THEN b_length[b] ELSE b_asked[b]] BY DEF Fill
  <2>3. (b_class[b] < b_asked[b]) <=> ~(b_asked[b] <= b_class[b]) BY <2>1
  <2>4. CASE b_asked[b] <= b_class[b] BY <2>2, <2>3, <2>4
  <2>5. CASE ~(b_asked[b] <= b_class[b]) BY <2>2, <2>3, <2>5, <1>2
  <2> QED BY <2>4, <2>5
<1>4. \A v \in BufferUsers : v # u /\ Works(v) => b_mine[v] # b
  BY <1>1, <1>2 DEF BufferInv, Using, Alone, Works, GivesBack
<1>5. BufferTypes' /\ OneManager' BY <1>1, <1>2, <1>3, ManagerKept DEF BufferInv, BufferTypes, Places
<1>6. Using' BY <1>1, <1>2, <1>3, <1>4 DEF BufferInv, BufferTypes, Using, Works, GivesBack, Filled
<1>7. Alone' BY <1>1, <1>4 DEF BufferInv, BufferTypes, Alone, Works, GivesBack
<1>8. Resting' BY <1>1, <1>2, <1>3 DEF BufferInv, BufferTypes, Resting
<1> QED BY <1>5, <1>6, <1>7, <1>8 DEF BufferInv

(* A reference is handed on. *)
LEMMA ShareStep ==
    ASSUME BufferInv, NEW u \in BufferUsers, NEW v \in BufferUsers, Share(u, v)
    PROVE  BufferInv'
<1> DEFINE b == b_mine[u]
<1>1. /\ b_pc[u] = "hold" /\ b_pc[v] = "idle" /\ v # u
      /\ b_pc' = [b_pc EXCEPT ![v] = "hold"] /\ b_mine' = [b_mine EXCEPT ![v] = b]
      /\ b_refs' = [b_refs EXCEPT ![b] = @ \cup {v}]
      /\ UNCHANGED <<b_singleton, b_free, b_class, b_length, b_asked, b_pool>>
  BY DEF Share
<1>2. /\ b \in Buffers /\ b \notin b_free /\ b_class[b] # 0
      /\ u \in b_refs[b] /\ Filled(b)
  BY <1>1 DEF BufferInv, Using, Works
<1>3. \A w \in BufferUsers : Works(w) /\ b_mine[w] = b => b_pc[w] = "hold"
  BY <1>1, <1>2 DEF BufferInv, Using, Works, GivesBack
<1>4. BufferTypes' /\ OneManager' BY <1>1, <1>2, ManagerKept DEF BufferInv, BufferTypes, Places
<1>5. Using' BY <1>1, <1>2, <1>3 DEF BufferInv, BufferTypes, Using, Works, GivesBack, Filled
<1>6. Alone' BY <1>1, <1>3 DEF BufferInv, BufferTypes, Alone, Works, GivesBack
<1>7. Resting' BY <1>1, <1>2 DEF BufferInv, BufferTypes, Resting
<1> QED BY <1>4, <1>5, <1>6, <1>7 DEF BufferInv

(* A reference is dropped; with the last one its thread begins to give the buffer back. *)
LEMMA DropStep ==
    ASSUME BufferInv, NEW u \in BufferUsers, Drop(u)
    PROVE  BufferInv'
<1> DEFINE b == b_mine[u]
<1> DEFINE last == b_refs[b] = {u}
<1>1. /\ b_pc[u] = "hold" /\ b_pc' = [b_pc EXCEPT ![u] = IF last THEN "release" ELSE "idle"]
      /\ b_mine' = [b_mine EXCEPT ![u] = IF last THEN b ELSE NoBuffer]
      /\ b_refs' = [b_refs EXCEPT ![b] = @ \ {u}]
      /\ UNCHANGED <<b_singleton, b_free, b_class, b_length, b_asked, b_pool>>
  BY DEF Drop, Goes, Deleter
<1>2. b \in Buffers /\ b \notin b_free /\ b_class[b] # 0 /\ u \in b_refs[b]
  BY <1>1 DEF BufferInv, Using, Works
<1>3. \A w \in BufferUsers : Works(w) /\ b_mine[w] = b => b_pc[w] = "hold"
  BY <1>1, <1>2 DEF BufferInv, Using, Works, GivesBack
<1>4. last => \A w \in BufferUsers : Works(w) /\ b_mine[w] = b => w = u
  BY <1>3, <1>1 DEF BufferInv, Using, Works
<1>5. BufferTypes' /\ OneManager' BY <1>1, <1>2, ManagerKept DEF BufferInv, BufferTypes, Places
<1>6. Using' BY <1>1, <1>2, <1>3 DEF BufferInv, BufferTypes, Using, Works, GivesBack, Filled, NoBuffer
<1>7. Alone' BY <1>1, <1>3, <1>4 DEF BufferInv, BufferTypes, Alone, Works, GivesBack, NoBuffer
<1>8. Resting' BY <1>1, <1>2 DEF BufferInv, BufferTypes, Resting
<1> QED BY <1>5, <1>6, <1>7, <1>8 DEF BufferInv

(* return_to_pool(): the buffer is emptied, then queued, by the only thread that has it. *)
LEMMA ReturnStep ==
    ASSUME BufferInv, NEW u \in BufferUsers, Emptied(u) \/ Queued(u)
    PROVE  BufferInv'
<1> DEFINE b == b_mine[u]
<1>1. /\ b_pc[u] \in {"release", "enqueue"} /\ b \in Buffers /\ b \notin b_free /\ b_class[b] # 0
      /\ b_refs[b] = {}
  BY DEF Emptied, Queued, Goes, BufferInv, Using, Works, GivesBack
<1>2. \A w \in BufferUsers : w # u /\ Works(w) => b_mine[w] # b
  BY <1>1 DEF BufferInv, Alone, GivesBack
<1>3. CASE Emptied(u)
  <2>1. /\ b_pc[u] = "release" /\ b_pc' = [b_pc EXCEPT ![u] = "enqueue"]
        /\ b_length' = [b_length EXCEPT ![b] = 0] /\ b_mine' = [b_mine EXCEPT ![u] = b]
        /\ UNCHANGED <<b_singleton, b_free, b_class, b_refs, b_asked, b_pool>>
    BY <1>3 DEF Emptied, Goes, After, MineAfter, Deleter
  <2>2. BufferTypes' /\ OneManager' BY <1>1, <2>1, ManagerKept DEF BufferInv, BufferTypes, Places
  <2>3. Using' BY <1>1, <1>2, <2>1 DEF BufferInv, BufferTypes, Using, Works, GivesBack, Filled
  <2>4. Alone' BY <1>1, <1>2, <2>1 DEF BufferInv, BufferTypes, Alone, Works, GivesBack
  <2>5. Resting' BY <1>1, <2>1 DEF BufferInv, BufferTypes, Resting
  <2> QED BY <2>2, <2>3, <2>4, <2>5 DEF BufferInv
<1>4. CASE Queued(u)
  <2>1. /\ b_pc[u] = "enqueue" /\ b_pc' = [b_pc EXCEPT ![u] = "idle"]
        /\ b_free' = b_free \cup {b} /\ b_mine' = [b_mine EXCEPT ![u] = NoBuffer]
        /\ UNCHANGED <<b_singleton, b_class, b_length, b_refs, b_asked, b_pool>>
    BY <1>4 DEF Queued, Goes, After, MineAfter, Deleter
  <2>2. b_length[b] = 0 BY <2>1 DEF BufferInv, Using
  <2>3. BufferTypes' /\ OneManager' BY <1>1, <2>1, ManagerKept DEF BufferInv, BufferTypes, Places
  <2>4. Using' BY <1>1, <1>2, <2>1 DEF BufferInv, BufferTypes, Using, Works, GivesBack, Filled
  <2>5. Alone' BY <1>1, <1>2, <2>1 DEF BufferInv, BufferTypes, Alone, Works, GivesBack
  <2>6. Resting' BY <1>1, <2>1, <2>2 DEF BufferInv, BufferTypes, Resting
  <2> QED BY <2>3, <2>4, <2>5, <2>6 DEF BufferInv
<1> QED BY <1>3, <1>4

(* alloc(), the deleter and free() keep the invariant                       *)
(* (buffer_pool.h:108-153).                                                  *)
LEMMA BufferStep == BufferInv /\ [BufferNext]_b_vars => BufferInv'
<1> SUFFICES ASSUME BufferInv, [BufferNext]_b_vars PROVE BufferInv'
  OBVIOUS
<1>1. CASE BufferNext
  BY <1>1, InstanceStep, AllocStep, NoneStep, FillStep, ShareStep, DropStep, ReturnStep DEF BufferNext
<1>2. CASE UNCHANGED b_vars
  BY <1>2 DEF b_vars, b_singleton, b_buffers, b_threads, BufferInv, BufferTypes, OneManager, Calls, Using,
              Alone, Resting, Works, GivesBack, Filled
<1> QED BY <1>1, <1>2

-----------------------------------------------------------------------------
(* alloc, copy_from, the references and return_to_pool: who holds a buffer     *)
(* finds in it what its user put there, or nothing when it was too large; who  *)
(* is past instance() has the one manager, and it is made.                     *)
THEOREM BufferKeptHolds == BufferSpec => []BufferKept
<1>1. BufferInv => BufferKept
  <2> SUFFICES ASSUME BufferInv PROVE BufferKept
    OBVIOUS
  <2>1. /\ b_made <= 1
        /\ \A u \in BufferUsers : b_pool[u] \in 0..b_made /\ (b_pc[u] \in {"alloc", "fill"} => b_pool[u] = 1)
    BY DEF BufferInv, OneManager
  <2>2. ASSUME NEW u \in BufferUsers, b_pc[u] = "hold"
        PROVE  u \in b_refs[b_mine[u]] /\ b_mine[u] \notin b_free /\ Filled(b_mine[u])
    BY <2>2 DEF BufferInv, Using, Works
  <2>3. \A b \in b_free : b_refs[b] = {} /\ b_length[b] = 0 BY DEF BufferInv, BufferTypes, Resting
  <2> QED BY <2>1, <2>2, <2>3 DEF BufferKept, Filled
<1> QED BY <1>1, BuffersStart, BufferStep, PTL DEF BufferSpec

-----------------------------------------------------------------------------
(* RedisClient and MongoClient: what they own of their drivers, for any      *)
(* number of contexts, exchanges, threads and pools.                         *)

RedisSpec == RedisInit /\ [][RedisNext]_r_vars
MongoSpec == MongoInit /\ [][MongoNext]_m_vars

-----------------------------------------------------------------------------
(* The current context is one that hiredis made and that did not refuse;    *)
(* contexts that are not made yet were not freed.                           *)
RedisInv == /\ r_made \in 0..MaxContexts
            /\ r_ctx \in [id : 0..r_made, err : BOOLEAN]
            /\ r_refused \subseteq 1..r_made
            /\ r_ctx.id \notin r_refused
            /\ r_freed \in [1..MaxContexts -> Nat]
            /\ ContextOwned
            /\ \A c \in (r_made + 1)..MaxContexts : r_freed[c] = 0

(* Before the first connect no pool of redis contexts exists.               *)
LEMMA RedisInitially == RedisInit => RedisInv
  BY RedisConstants DEF RedisInit, RedisInv, ContextOwned, NoContext

(* close() frees the current context, if there is one, and no other. *)
LEMMA FreedOnce ==
    ASSUME RedisInv
    PROVE  /\ Freed(r_ctx) \in [1..MaxContexts -> Nat]
           /\ \A c \in 1..r_made : Freed(r_ctx)[c] = IF c \in r_refused THEN 0 ELSE 1
           /\ \A c \in (r_made + 1)..MaxContexts : Freed(r_ctx)[c] = 0
<1> USE RedisConstants DEF RedisInv, ContextOwned, Freed
<1>1. CASE r_ctx.id = 0 BY <1>1
<1>2. CASE r_ctx.id # 0
  <2>1. r_ctx.id \in 1..r_made /\ r_freed[r_ctx.id] = 0 BY <1>2
  <2>2. Freed(r_ctx) = [r_freed EXCEPT ![r_ctx.id] = 1] BY <1>2, <2>1
  <2> QED BY <2>1, <2>2
<1> QED BY <1>1, <1>2

(* Every call of the redis client keeps its invariant (redis_connect.cpp).  *)
LEMMA RedisStep == RedisInv /\ [RedisNext]_r_vars => RedisInv'
<1> SUFFICES ASSUME RedisInv, [RedisNext]_r_vars PROVE RedisInv'
  OBVIOUS
<1> USE RedisConstants
<1> DEFINE Frees == /\ r_made' = r_made /\ r_refused' = r_refused
                  /\ r_freed' = Freed(r_ctx) /\ r_ctx' = NoContext
<1>a. ASSUME Frees PROVE RedisInv'
  BY <1>a, FreedOnce DEF RedisInv, ContextOwned, NoContext
<1>b. ASSUME r_freed' = r_freed, r_made' = r_made, r_refused' = r_refused,
             r_ctx' \in {r_ctx, [r_ctx EXCEPT !.err = TRUE]}
      PROVE  RedisInv'
  BY <1>b DEF RedisInv, ContextOwned
<1>c. ASSUME RedisConnects
      PROVE  /\ r_made' = r_made + 1 /\ r_made' \in 0..MaxContexts
             /\ New = r_made + 1 /\ New \in 1..MaxContexts
  BY <1>c DEF RedisConnects, New, RedisInv
<1>d. \A c \in 1..(r_made + 1) : c = r_made + 1 \/ c \in 1..r_made
  BY DEF RedisInv
<1>1. CASE ConnectRefused
  <2>1. /\ r_freed' = Freed(r_ctx) /\ r_ctx' = [id |-> 0, err |-> FALSE]
        /\ r_refused' = r_refused \cup {r_made + 1}
    BY <1>1, <1>c DEF ConnectRefused, Closed, Nulled, NoContext
  <2>2. RedisConnects BY <1>1 DEF ConnectRefused
  <2>3. ContextOwned' BY <2>1, <2>2, <1>c, <1>d, FreedOnce DEF RedisInv, ContextOwned
  <2> QED BY <2>1, <2>2, <2>3, <1>c, FreedOnce DEF RedisInv
<1>2. CASE ConnectSelects
  <2>1. /\ r_freed' = Freed(r_ctx) /\ r_ctx' = [id |-> r_made + 1, err |-> FALSE]
        /\ r_refused' = r_refused
    BY <1>2, <1>c DEF ConnectSelects
  <2>2. RedisConnects BY <1>2 DEF ConnectSelects
  <2>3. ContextOwned' BY <2>1, <2>2, <1>c, <1>d, FreedOnce DEF RedisInv, ContextOwned
  <2> QED BY <2>1, <2>2, <2>3, <1>c, FreedOnce DEF RedisInv
<1>3. CASE SelectFails
  <2>1. /\ r_freed' = [Freed(r_ctx) EXCEPT ![r_made + 1] = @ + 1]
        /\ r_ctx' = [id |-> 0, err |-> FALSE]
        /\ r_refused' = r_refused
    BY <1>3, <1>c DEF SelectFails, NoContext
  <2>2. RedisConnects BY <1>3 DEF SelectFails
  <2>3. ContextOwned' BY <2>1, <2>2, <1>c, <1>d, FreedOnce, SMTT(30) DEF RedisInv, ContextOwned
  <2> QED BY <2>1, <2>2, <2>3, <1>c, FreedOnce DEF RedisInv
<1>4. CASE RedisClose
  BY <1>4, <1>a DEF RedisClose, Closed, Nulled
<1>5. CASE ExchangeFails
  BY <1>5, <1>a DEF ExchangeFails, Closed, Nulled
<1>6. CASE Ping
  BY <1>6, <1>b DEF Ping
<1>7. CASE PushParam \/ EmptyCommand \/ Excute \/ Query \/ NewResult \/ GetNil \/ GetNull
              \/ \E type \in Types : Get(type)
  BY <1>7, <1>b DEF PushParam, EmptyCommand, Excute, Query, NewResult, GetNil, GetNull, Get, r_connection
<1>8. CASE UNCHANGED r_vars
  BY <1>8, <1>b DEF r_vars, r_connection
<1> QED BY <1>1, <1>2, <1>3, <1>4, <1>5, <1>6, <1>7, <1>8 DEF RedisNext

(* redis_connect::connect, close, excute, query: whatever fails, a context   *)
(* that connected is the current one or was freed exactly once.              *)
THEOREM ContextOwnedHolds == RedisSpec => []ContextOwned
<1>1. RedisInv => ContextOwned BY DEF RedisInv
<1> QED BY <1>1, RedisInitially, RedisStep, PTL DEF RedisSpec

(* What was handed out of the reply is what is in it from where the walk     *)
(* through it began; a value of a reply is nil or one number.                *)
Handed == [type : Types, value : Int \cup BOOLEAN]
Values == {Nil} \cup {<<n>> : n \in Int}
GivenRight(g, n) == Fits(g.type, n) => g.value = IF g.type = "bool" THEN n # 0 ELSE n
RowsInv == /\ r_since \in Nat /\ r_pos \in Nat /\ r_given \in Seq(Handed)
           /\ r_reply.cells \in Seq(Values)
           /\ r_reply.str => Len(r_reply.cells) = 1
           /\ r_since <= r_pos /\ Len(r_given) = r_pos
           /\ r_pos > r_since => r_pos <= Len(r_reply.cells)
           /\ \A i \in (r_since + 1)..r_pos : GivenRight(r_given[i], r_reply.cells[i][1])

LEMMA RowsInitially == RedisInit => RowsInv
  BY DEF RedisInit, RowsInv, NoReply

(* The values of a reply, and the one row of a text. *)
LEMMA ReplyRows ==
    ASSUME NEW r \in Replies
    PROVE  r.cells \in Seq(Values) /\ (r.str => Len(r.cells) = 1)
<1>0. Text \subseteq Values /\ Nil \in Values /\ <<0>> \in Values
  BY RedisConstants DEF Text, Values
<1>1. ASSUME NEW n \in Nat, NEW f \in [1..n -> Text \cup {Nil}]
      PROVE  f \in Seq(Values)
  <2>0. Text \cup {Nil} \subseteq Values BY <1>0
  <2> DEFINE T == Text \cup {Nil}
  <2>1. f \in [1..n -> T] /\ T \subseteq Values BY <2>0
  <2> HIDE DEF T
  <2>2. f \in [1..n -> Values] BY <2>1
  <2> QED BY <2>2, SeqOfLen
<1>2. <<<<0>>>> \in Seq(Values) /\ Len(<<<<0>>>>) = 1 /\ << >> \in Seq(Values)
  <2> DEFINE e == <<0>>
  <2>1. e \in Values BY <1>0
  <2> HIDE DEF e
  <2>2. <<e>> \in Seq(Values) /\ Len(<<e>>) = 1 BY <2>1
  <2>3. << >> \in Seq(Values) BY EmptySeq
  <2> QED BY <2>2, <2>3 DEF e
<1>3. CASE r \in [kind : {"string"}, str : {TRUE}, cells : [1..1 -> Text]]
  <2>1. r.str = TRUE /\ r.cells \in [1..1 -> Text] BY <1>3
  <2>2. Len(r.cells) = 1 BY <2>1, SeqOfLen
  <2>3. r.cells \in [1..1 -> Text \cup {Nil}] BY <2>1
  <2> QED BY <2>1, <2>2, <2>3, <1>1
<1>4. CASE r \in [kind : {"array"}, str : {FALSE}, cells : Lists]
  <2>1. r.str = FALSE /\ r.cells \in Lists BY <1>4
  <2>2. PICK n \in 0..MaxRows : r.cells \in [1..n -> Text \cup {Nil}] BY <2>1 DEF Lists
  <2>3. n \in Nat BY RedisConstants
  <2> QED BY <1>1, <2>1, <2>2, <2>3
<1>5. CASE r = [kind |-> "error", str |-> TRUE, cells |-> <<<<0>>>>]
  BY <1>2, <1>5
<1>6. CASE r \in {[kind |-> k, str |-> FALSE, cells |-> << >>] : k \in {"integer", "nil"}}
  <2>1. PICK k \in {"integer", "nil"} : r = [kind |-> k, str |-> FALSE, cells |-> << >>] BY <1>6
  <2>2. r.str = FALSE /\ r.cells = << >> BY <2>1
  <2> QED BY <1>2, <2>2
<1> QED BY <1>3, <1>4, <1>5, <1>6 DEF Replies

(* A value that fits its type is handed out as the number it is. *)
LEMMA ConvertedRight ==
    ASSUME NEW type \in Types, NEW n \in Int
    PROVE  /\ Converted(type, n) \in Int \cup BOOLEAN
           /\ Fits(type, n) => Converted(type, n) = IF type = "bool" THEN n # 0 ELSE n
<1>1. CASE type = "bool" BY <1>1 DEF Converted
<1>2. CASE type = "int8"
  <2>1. Converted(type, n) = ((n + 128) % 256) - 128 BY <1>2 DEF Converted, Signed
  <2>2. n \in -128..127 => (n + 128) % 256 = n + 128 OBVIOUS
  <2>3. (n + 128) % 256 \in Int OBVIOUS
  <2> QED BY <1>2, <2>1, <2>2, <2>3 DEF Fits
<1>3. CASE type = "uint8"
  <2>1. Converted(type, n) = n % 256 BY <1>3 DEF Converted
  <2>2. n \in 0..255 => n % 256 = n OBVIOUS
  <2> QED BY <1>3, <2>1, <2>2 DEF Fits
<1>4. CASE type = "int64" BY <1>4 DEF Converted
<1> QED BY <1>1, <1>2, <1>3, <1>4 DEF Types

(* Every call of the redis client keeps the walk over a reply in step.       *)
LEMMA RowsStep == RowsInv /\ [RedisNext]_r_vars => RowsInv'
<1> SUFFICES ASSUME RowsInv, [RedisNext]_r_vars PROVE RowsInv'
  OBVIOUS
<1>1. CASE UNCHANGED r_result
  BY <1>1 DEF RowsInv, r_result
<1>2. CASE Query
  <2>1. /\ r_reply' \in Replies /\ r_since' = r_pos
        /\ r_pos' = r_pos /\ r_given' = r_given
    BY <1>2 DEF Query
  <2>2. r_reply'.cells \in Seq(Values) /\ (r_reply'.str => Len(r_reply'.cells) = 1)
    BY <2>1, ReplyRows
  <2>3. (r_since' + 1)..r_pos' = {} /\ ~(r_pos' > r_since') BY <2>1 DEF RowsInv
  <2> QED BY <2>1, <2>2, <2>3 DEF RowsInv
<1>3. CASE NewResult
  BY <1>3 DEF NewResult, RowsInv, NoReply
<1>4. ASSUME NEW type \in Types, Get(type) PROVE RowsInv'
  <2> DEFINE n == NextValue[1]
             g == [type |-> type, value |-> Converted(type, n)]
  <2>1. /\ r_given' = Append(r_given, g) /\ r_pos' = r_pos + 1 /\ r_reply' = r_reply
        /\ r_since' = r_since /\ NextValue # Nil /\ r_pos < Rows
    BY <1>4 DEF Get, Fetch
  <2>2. /\ Len(r_reply.cells) \in Nat /\ r_pos < Len(r_reply.cells)
    BY <2>1, LenProperties DEF RowsInv, Rows
  <2>3. NextValue \in Values
    <3>1. r_pos + 1 \in 1..Len(r_reply.cells) BY <2>2 DEF RowsInv
    <3> QED BY <3>1, ElementOfSeq DEF RowsInv, NextValue
  <2>3a. n \in Int BY <2>1, <2>3 DEF Values
  <2>4. GivenRight(g, n) /\ g \in Handed
    BY <2>3a, ConvertedRight DEF GivenRight, Handed
  <2> HIDE DEF g
  <2>5. /\ r_given' \in Seq(Handed) /\ Len(r_given') = Len(r_given) + 1
        /\ r_given'[Len(r_given) + 1] = g /\ Len(r_given) \in Nat
        /\ \A i \in 1..Len(r_given) : r_given'[i] = r_given[i]
    BY <2>1, <2>4, AppendProperties, LenProperties DEF RowsInv
  <2>6. ASSUME NEW i \in (r_since + 1)..(r_pos + 1)
        PROVE  GivenRight(r_given'[i], r_reply.cells[i][1])
    <3>1. CASE i = r_pos + 1 BY <3>1, <2>4, <2>5, <2>6 DEF RowsInv, NextValue
    <3>2. CASE i # r_pos + 1
      <4>1. i \in (r_since + 1)..r_pos /\ i \in 1..r_pos BY <3>2 DEF RowsInv
      <4> QED BY <4>1, <2>5, <2>6 DEF RowsInv
    <3> QED BY <3>1, <3>2
  <2> QED BY <2>1, <2>2, <2>5, <2>6 DEF RowsInv
<1>5. UNCHANGED r_result \/ Query \/ NewResult \/ \E type \in Types : Get(type)
  BY DEF RedisNext, r_vars, ConnectRefused, ConnectSelects, SelectFails, RedisConnects, RedisClose,
         Ping, PushParam, EmptyCommand, ExchangeFails, Excute, GetNil, GetNull
<1> QED BY <1>1, <1>2, <1>3, <1>4, <1>5

(* redis_result::get_*: the values of a reply come out in their order, each  *)
(* once, and unchanged where their type has room for them.                   *)
THEOREM RowsInOrderHolds == RedisSpec => []RowsInOrder
<1>1. RowsInv => RowsInOrder BY DEF RowsInv, RowsInOrder, GivenRight
<1> QED BY <1>1, RowsInitially, RowsStep, PTL DEF RedisSpec

-----------------------------------------------------------------------------
(* What s_pool points to is alive. *)
MongoInv == /\ m_made \in Nat
            /\ m_pool # 0 => m_pool \in m_pools
            /\ m_lent \in [MongoUsers -> Nat \X Nat]
            /\ m_pool \in Nat
            /\ ClientHasPool

(* Before the first connect no mongo pool exists.                           *)
LEMMA MongoInitially == MongoInit => MongoInv
  BY DEF MongoInit, MongoInv, ClientHasPool, NoClient

(* Every call of the mongo client keeps its invariant.                      *)
LEMMA MongoStep == MongoInv /\ [MongoNext]_m_vars => MongoInv'
<1> SUFFICES ASSUME MongoInv, [MongoNext]_m_vars PROVE MongoInv'
  OBVIOUS
<1> USE DEF MongoInv, ClientHasPool, NoClient
<1>1. CASE DropInstance BY <1>1 DEF DropInstance
<1>2. CASE NewPool BY <1>2 DEF NewPool, Survivors, OldPoolKept
<1>3. CASE NewInstance BY <1>3 DEF NewInstance
<1>4. CASE AcquireNull BY <1>4 DEF AcquireNull
<1>5. CASE Delete BY <1>5 DEF Delete
<1>6. ASSUME NEW u \in MongoUsers, Acquire(u) PROVE MongoInv'
  <2>1. PICK c \in ClientsOf(m_pool) : m_lent' = [m_lent EXCEPT ![u] = c] BY <1>6 DEF Acquire
  <2>2. c[1] = m_pool /\ c \in Nat \X Nat BY <2>1, MongoConstants DEF ClientsOf
  <2>3. m_pool \in m_pools BY <1>6 DEF Acquire
  <2> QED BY <2>1, <2>2, <2>3, <1>6 DEF Acquire
<1>7. ASSUME NEW u \in MongoUsers, Operate(u) PROVE MongoInv' BY <1>7 DEF Operate, GiveBack
<1>9. ASSUME NEW u \in MongoUsers, MongoFind(u) PROVE MongoInv' BY <1>9 DEF MongoFind, GiveBack
<1>10. CASE DropCursor BY <1>10 DEF DropCursor
<1>8. CASE UNCHANGED m_vars BY <1>8 DEF m_vars
<1> QED BY <1>1, <1>2, <1>3, <1>4, <1>5, <1>6, <1>7, <1>8, <1>9, <1>10 DEF MongoNext

(* mongo_client::connectToHost may replace the pool while document operations *)
(* are at work: their clients' pool stays alive.                              *)
THEOREM ClientHasPoolHolds == MongoSpec => []ClientHasPool
<1>1. MongoInv => ClientHasPool BY DEF MongoInv
<1> QED BY <1>1, MongoInitially, MongoStep, PTL DEF MongoSpec

-----------------------------------------------------------------------------
(* Cmdline, for any options, words and lines.                               *)

CmdlineSpec == CmdlineInit /\ [][CmdlineNext]_c_vars

Fields == {"short", "valued", "need", "reader", "has", "actual"}
IsOption(o) == Fields \subseteq DOMAIN o /\ o.valued \in BOOLEAN /\ o.need \in BOOLEAN /\ o.has \in BOOLEAN
IsOptions(f) == IsFiniteSet(DOMAIN f) /\ \A n \in DOMAIN f : IsOption(f[n])
Kinds == {"no argument", "ambiguous", "backslash", "quote", "undefined option", "needs value",
          "invalid value", "undefined short", "need option"}
ParseTypes == /\ IsOptions(c_options) /\ c_errors \in Seq(Kinds)
              /\ \E S : c_args \in Seq(S)

(* Option n was given the value v. *)
Given(n, v) == c_options[n].has = TRUE /\ c_options[n].actual = v

(* The place where the loop is: c_i is a word that speaks, c_j a letter of it. *)
AtWord == /\ c_i \in 2..(Len(c_args) + 1) /\ c_j \in Nat \ {0}
          /\ c_j > 1 => c_i <= Len(c_args) /\ FormOf(word).form = "short" /\ c_j <= Len(FormOf(word).letters)
(* The words in said were read, the others before c_i are their values. *)
Read(said) == /\ said \subseteq 2..(c_i - 1)
              /\ \A i \in 2..(c_i - 1) : i \in said <=> ~(i - 1 \in said /\ TakesValue(c_args[i - 1]))
              /\ c_i <= Len(c_args) => ~(c_i - 1 \in said /\ TakesValue(c_args[c_i - 1]))
(* The words so far that gave option n a value. *)
Gave(said, k, n) == \/ k \in said /\ \E j \in Letters(k) : Gives(k, j, n)
                    \/ k = c_i /\ \E j \in 1..(c_j - 1) : Gives(k, j, n)
(* Option n is as the last of these words left it, or as it was before. *)
Latest(said, n) ==
  \/ c_options[n] = c_before[n] /\ \A k \in 2..Len(c_args) : ~Gave(said, k, n)
  \/ \E i \in 2..Len(c_args) :
       /\ Gave(said, i, n) /\ \A k \in 2..Len(c_args) : Gave(said, k, n) => k <= i
       /\ Given(n, ValueOf(i, n))
(* rest() is the other words so far, in their order. *)
Rest(said) == \E at \in [1..Len(c_others) -> {i \in said : Plain(i)}] :
                /\ \A k \in 1..Len(c_others) : c_others[k] = c_args[at[k]]
                /\ \A k, m \in 1..Len(c_others) : k < m => at[k] < at[m]
                /\ \A i \in said : Plain(i) => \E k \in 1..Len(c_others) : at[k] = i
(* There are errors exactly if a word, or a letter so far, is not understood. *)
Heard(i, j) == \E n \in DOMAIN c_before : Gives(i, j, n)
Faults(said) == c_errors = << >> <=> /\ \A i \in said : Understood(i)
                                     /\ \A j \in 1..(c_j - 1) : Heard(c_i, j)
(* The options are those of the beginning of the call, but for has and actual. *)
Options == /\ IsOptions(c_options) /\ DOMAIN c_options = DOMAIN c_before /\ ~Ambiguous
           /\ \A n \in DOMAIN c_before :
                /\ c_options[n].short = c_before[n].short /\ c_options[n].valued = c_before[n].valued
                /\ c_options[n].need = c_before[n].need /\ c_options[n].reader = c_before[n].reader
(* What holds after the loop has read the words in said. *)
Progress(said) == /\ AtWord /\ Read(said) /\ Rest(said) /\ Faults(said)
                  /\ \A n \in DOMAIN c_before : Latest(said, n)
Loop == Options /\ (\E S : c_others \in Seq(S)) /\ \E said : Progress(said)
ParseInv == ParseTypes /\ (c_result = "parsing" => Loop) /\ ParseMeaning

(* What word i, or its letter j, says is done: it gives one option a value, or *)
(* is an error.                                                                *)
Set(n, v) == c_options'[n].has = TRUE /\ c_options'[n].actual = v
Obeyed(i, j) ==
  \/ \E n \in DOMAIN c_before :
       /\ Gives(i, j, n) /\ \A m \in DOMAIN c_before : Gives(i, j, m) => m = n
       /\ c_errors' = c_errors /\ DOMAIN c_options' = DOMAIN c_before
       /\ Set(n, ValueOf(i, n)) /\ Options'
       /\ \A m \in DOMAIN c_before \ {n} : c_options'[m] = c_options[m]
  \/ /\ \A n \in DOMAIN c_before : ~Gives(i, j, n)
     /\ c_options' = c_options /\ \E e \in Kinds : c_errors' = Append(c_errors, e)

(* set_option() sets one option, and changes nothing else of it. *)
LEMMA SetsOne ==
    ASSUME Options, NEW n \in DOMAIN c_before, NEW v, SetTo(n, v), UNCHANGED c_whole
    PROVE  /\ c_errors' = c_errors /\ DOMAIN c_options' = DOMAIN c_before
           /\ Set(n, v) /\ Options'
           /\ \A m \in DOMAIN c_before \ {n} : c_options'[m] = c_options[m]
<1>1. /\ IsOption(c_options[n]) /\ DOMAIN c_options = DOMAIN c_before
      /\ c_before' = c_before /\ c_errors' = c_errors
  BY DEF Options, IsOptions, SetTo, c_whole
<1>2. /\ DOMAIN c_options' = DOMAIN c_before
      /\ \A m \in DOMAIN c_before \ {n} : c_options'[m] = c_options[m]
      /\ c_options'[n] = [c_options[n] EXCEPT !.has = TRUE, !.actual = v]
  BY <1>1 DEF SetTo
<1>3. Fields \subseteq DOMAIN c_options[n] BY <1>1 DEF IsOption
<1> DEFINE p == c_options'[n]
<1>4. /\ DOMAIN p = DOMAIN c_options[n] /\ p.has = TRUE /\ p.actual = v
      /\ p.short = c_options[n].short /\ p.valued = c_options[n].valued
      /\ p.need = c_options[n].need /\ p.reader = c_options[n].reader
  <2>1. p = [c_options[n] EXCEPT !.has = TRUE, !.actual = v] BY <1>2
  <2> HIDE DEF p
  <2> DEFINE o == c_options[n]
  <2>2. p = [o EXCEPT !.has = TRUE, !.actual = v] /\ Fields \subseteq DOMAIN o BY <2>1, <1>3
  <2> HIDE DEF o
  <2>3. /\ DOMAIN p = DOMAIN o /\ p.has = TRUE /\ p.actual = v
        /\ p.short = o.short /\ p.valued = o.valued /\ p.need = o.need /\ p.reader = o.reader
    BY <2>2 DEF Fields
  <2> QED BY <2>3 DEF o
<1>5. IsOption(p) BY <1>1, <1>4 DEF IsOption
<1> HIDE DEF p
<1>6. IsOptions(c_options)'
  <2>1. \A m \in DOMAIN c_before \ {n} : IsOption(c_options[m]) BY <1>1 DEF Options, IsOptions
  <2>2. \A m \in DOMAIN c_before : IsOption(c_options'[m]) BY <2>1, <1>2, <1>5 DEF p
  <2>3. IsFiniteSet(DOMAIN c_before) BY <1>1 DEF Options, IsOptions
  <2> QED BY <1>2, <2>2, <2>3 DEF IsOptions
<1>7. \A m \in DOMAIN c_before :
        /\ c_options'[m].short = c_before[m].short /\ c_options'[m].valued = c_before[m].valued
        /\ c_options'[m].need = c_before[m].need /\ c_options'[m].reader = c_before[m].reader
  <2>1. ASSUME NEW m \in DOMAIN c_before
        PROVE  /\ c_options'[m].short = c_options[m].short /\ c_options'[m].valued = c_options[m].valued
               /\ c_options'[m].need = c_options[m].need /\ c_options'[m].reader = c_options[m].reader
    BY <1>2, <1>4 DEF p
  <2> QED BY <2>1 DEF Options
<1>8. ~Ambiguous'
  <2>1. \A m \in DOMAIN c_before : c_options'[m].short = c_options[m].short BY <1>7 DEF Options
  <2> QED BY <2>1, <1>1, <1>2 DEF Options, Ambiguous
<1>9. Options' BY <1>1, <1>2, <1>6, <1>7, <1>8 DEF Options
<1> QED BY <1>1, <1>2, <1>4, <1>9 DEF Set, p

(* set_option(name) sets a flag, or is an error. *)
LEMMA SetFlagDoes ==
    ASSUME Options, NEW n, SetFlag(n)
    PROVE  \/ /\ n \notin DOMAIN c_before \/ c_before[n].valued
              /\ c_options' = c_options /\ \E e \in Kinds : c_errors' = Append(c_errors, e)
           \/ n \in DOMAIN c_before /\ ~c_before[n].valued /\ SetTo(n, << >>)
<1>1. CASE n \notin DOMAIN c_before
  BY <1>1 DEF SetFlag, HasOption, Options, Wrong, Kinds
<1>2. CASE n \in DOMAIN c_before
  <2>1. c_options[n].valued = c_before[n].valued BY <1>2 DEF Options
  <2> QED BY <1>2, <2>1 DEF SetFlag, HasOption, Options, Wrong, Kinds
<1> QED BY <1>1, <1>2

(* set_option(name, value) sets a value its reader takes, or is an error. *)
LEMMA SetValueDoes ==
    ASSUME Options, NEW n, NEW v, SetValue(n, v)
    PROVE  \/ /\ n \notin DOMAIN c_before \/ ~(c_before[n].valued /\ Reads(c_before[n].reader, v))
              /\ c_options' = c_options /\ \E e \in Kinds : c_errors' = Append(c_errors, e)
           \/ n \in DOMAIN c_before /\ c_before[n].valued /\ Reads(c_before[n].reader, v) /\ SetTo(n, v)
<1>1. CASE n \notin DOMAIN c_before
  BY <1>1 DEF SetValue, HasOption, Options, Wrong, Kinds
<1>2. CASE n \in DOMAIN c_before
  <2>1. c_options[n].valued = c_before[n].valued /\ c_options[n].reader = c_before[n].reader
    BY <1>2 DEF Options
  <2> QED BY <1>2, <2>1 DEF SetValue, HasOption, Options, Wrong, Kinds, Accepts
<1> QED BY <1>1, <1>2

(* The letters that the map lookup has are those of the options. *)
LEMMA LookupIs == ASSUME Options PROVE \A c : /\ lookup(c) = Named(c)
                                             /\ \A n, m \in Named(c) : n = m
<1>1. \A n \in DOMAIN c_before : c_options[n].short = c_before[n].short BY DEF Options
<1>2. \A n, m \in DOMAIN c_before : n # m /\ c_before[n].short = c_before[m].short => c_before[n].short = ""
  BY <1>1 DEF Options, Ambiguous
<1>3. DOMAIN c_options = DOMAIN c_before BY DEF Options
<1> QED BY <1>1, <1>2, <1>3 DEF lookup, Named

(* --name=value *)
LEMMA LongAssignObeys ==
    ASSUME Options, LongAssign, UNCHANGED c_whole PROVE Obeyed(c_i, c_j)
<1> DEFINE n == FormOf(word).name
<1> DEFINE v == Tail(word)
<1>1. FormOf(c_args[c_i]).form = "assign" BY DEF LongAssign, AtForm, word
<1>2. \A m : Gives(c_i, c_j, m) <=> m = n /\ c_before[m].valued /\ Reads(c_before[m].reader, v)
  BY <1>1 DEF Gives, ValueOf, word
<1>3. \A m : ValueOf(c_i, m) = v BY <1>1 DEF ValueOf, word
<1>4. SetValue(n, v) BY DEF LongAssign
<1> HIDE DEF n, v
<1>5. CASE n \in DOMAIN c_before /\ SetTo(n, v) /\ Gives(c_i, c_j, n)
  BY <1>2, <1>3, <1>5, SetsOne DEF Obeyed
<1> QED BY <1>2, <1>4, <1>5, SetValueDoes DEF Obeyed

(* --name *)
LEMMA LongOptionObeys ==
    ASSUME Options, LongOption, UNCHANGED c_whole PROVE Obeyed(c_i, c_j)
<1> DEFINE n == FormOf(word).name
<1> DEFINE v == c_args[c_i + 1]
<1>1. FormOf(c_args[c_i]).form = "long" BY DEF LongOption, AtForm, word
<1>2. \A m : Gives(c_i, c_j, m) <=> /\ m = n
                                    /\ c_before[m].valued => HasNext /\ Reads(c_before[m].reader, v)
  BY <1>1 DEF Gives, ValueOf, word, HasNext
<1>3. \A m : ValueOf(c_i, m) = IF c_before[m].valued THEN v ELSE << >> BY <1>1 DEF ValueOf, word
<1>s. n \in DOMAIN c_before => c_options[n].valued = c_before[n].valued BY DEF Options
<1>4. \/ (n \notin DOMAIN c_before \/ ~c_before[n].valued) /\ SetFlag(n)
      \/ n \in DOMAIN c_before /\ c_before[n].valued /\ HasNext /\ SetValue(n, v)
      \/ n \in DOMAIN c_before /\ c_before[n].valued /\ ~HasNext /\ Wrong("needs value")
  BY <1>s DEF LongOption, HasOption, Options
<1> HIDE DEF n, v
<1>5. CASE n \in DOMAIN c_before /\ Gives(c_i, c_j, n) /\ SetTo(n, ValueOf(c_i, n))
  BY <1>2, <1>5, SetsOne DEF Obeyed
<1>6. CASE (n \notin DOMAIN c_before \/ ~c_before[n].valued) /\ SetFlag(n)
  BY <1>2, <1>3, <1>5, <1>6, SetFlagDoes DEF Obeyed
<1>7. CASE n \in DOMAIN c_before /\ c_before[n].valued /\ HasNext /\ SetValue(n, v)
  BY <1>2, <1>3, <1>5, <1>7, SetValueDoes DEF Obeyed
<1>8. CASE n \in DOMAIN c_before /\ c_before[n].valued /\ ~HasNext /\ Wrong("needs value")
  BY <1>2, <1>8 DEF Obeyed, Wrong, Kinds
<1> QED BY <1>4, <1>6, <1>7, <1>8

(* -abc: one of the letters *)
LEMMA ShortObeys ==
    ASSUME Options, ShortFlag \/ ShortLast, UNCHANGED c_whole PROVE Obeyed(c_i, c_j)
<1> DEFINE last == HasNext /\ LastLetter
<1> DEFINE v == c_args[c_i + 1]
<1>1. FormOf(c_args[c_i]).form = "short" BY DEF ShortFlag, ShortLast, AtForm, word
<1>2. \A m : Gives(c_i, c_j, m) <=> /\ m \in Named(Letter)
                                    /\ c_before[m].valued => last /\ Reads(c_before[m].reader, v)
  BY <1>1 DEF Gives, ValueOf, word, HasNext, LastLetter, Letter
<1>3. \A m : ValueOf(c_i, m) = IF c_before[m].valued THEN v ELSE << >> BY <1>1 DEF ValueOf, word
<1>4. Named(Letter) \subseteq DOMAIN c_before /\ lookup(Letter) = Named(Letter)
      /\ \A n, m \in Named(Letter) : n = m
  BY LookupIs DEF Named
<1>5. \/ Named(Letter) = {} /\ Wrong("undefined short")
      \/ \E n \in Named(Letter) : \/ ~(c_before[n].valued /\ last) /\ SetFlag(n)
                                  \/ c_before[n].valued /\ last /\ SetValue(n, v)
  <2>1. CASE ShortFlag BY <2>1, <1>4 DEF ShortFlag
  <2>2. CASE ShortLast
    <3>1. \A n \in Named(Letter) : c_options[n].valued = c_before[n].valued BY <1>4 DEF Options
    <3> QED BY <2>2, <3>1, <1>4 DEF ShortLast, LastTakesNext
  <2> QED BY <2>1, <2>2
<1> HIDE DEF last, v
<1>6. CASE Named(Letter) = {} /\ Wrong("undefined short")
  BY <1>2, <1>6 DEF Obeyed, Wrong, Kinds
<1>7. ASSUME NEW n \in Named(Letter),
             \/ ~(c_before[n].valued /\ last) /\ SetFlag(n)
             \/ c_before[n].valued /\ last /\ SetValue(n, v)
      PROVE  Obeyed(c_i, c_j)
  <2>1. n \in DOMAIN c_before /\ \A m : Gives(c_i, c_j, m) => m = n BY <1>2, <1>4
  <2>2. CASE Gives(c_i, c_j, n) /\ SetTo(n, ValueOf(c_i, n)) BY <2>1, <2>2, SetsOne DEF Obeyed
  <2>3. CASE ~Gives(c_i, c_j, n) /\ c_options' = c_options /\ \E e \in Kinds : c_errors' = Append(c_errors, e)
    BY <2>1, <2>3 DEF Obeyed
  <2>4. CASE ~(c_before[n].valued /\ last) /\ SetFlag(n)
    BY <1>2, <1>3, <2>1, <2>2, <2>3, <2>4, SetFlagDoes
  <2>5. CASE c_before[n].valued /\ last /\ SetValue(n, v)
    BY <1>2, <1>3, <2>1, <2>2, <2>3, <2>5, SetValueDoes
  <2> QED BY <1>7, <2>4, <2>5
<1> QED BY <1>5, <1>6, <1>7

-----------------------------------------------------------------------------
(* The loop moves on. *)

(* A call knows its command line and its options until it ends. *)
LEMMA MeaningKept ==
    ASSUME UNCHANGED c_whole
    PROVE  /\ Len(c_args)' = Len(c_args) /\ DOMAIN c_before' = DOMAIN c_before
           /\ \A i, j, n : Gives(i, j, n)' <=> Gives(i, j, n)
           /\ \A i, n : ValueOf(i, n)' = ValueOf(i, n)
           /\ \A i : Letters(i)' = Letters(i) /\ (Plain(i)' <=> Plain(i))
           /\ \A i : Understood(i)' <=> Understood(i)
           /\ \A i, j : Heard(i, j)' <=> Heard(i, j)
           /\ \A i : TakesValue(c_args[i])' <=> TakesValue(c_args[i])
<1>1. c_args' = c_args /\ c_before' = c_before BY DEF c_whole
<1>2. \A c : Named(c)' = Named(c) BY <1>1 DEF Named
<1>3. \A i, n : ValueOf(i, n)' = ValueOf(i, n) BY <1>1 DEF ValueOf
<1>4. \A i, j, n : Gives(i, j, n)' <=> Gives(i, j, n) BY <1>1, <1>2, <1>3 DEF Gives
<1>5. \A i : Letters(i)' = Letters(i) /\ (Plain(i)' <=> Plain(i)) BY <1>1 DEF Letters, Plain
<1>6. \A i, j : Heard(i, j)' <=> Heard(i, j) BY <1>1, <1>4 DEF Heard
<1>7. \A i : Understood(i)' <=> Understood(i) BY <1>1, <1>4, <1>5 DEF Understood
<1>8. \A i : TakesValue(c_args[i])' <=> TakesValue(c_args[i]) BY <1>1, <1>2 DEF TakesValue
<1> QED BY <1>1, <1>3, <1>4, <1>5, <1>6, <1>7, <1>8

(* The word is done with its last letter, and the next one is a value if it    *)
(* takes one.                                                                  *)
LEMMA WordRead ==
    ASSUME Len(c_args) \in Nat, AtWord, NEW said, Read(said), UNCHANGED c_whole,
           NEW here, here = c_i, NEW new, new = said \cup {here},
           c_i <= Len(c_args), c_j' = 1,
           \/ c_i' = c_i + 1 /\ (TakesValue(word) => ~HasNext)
           \/ c_i' = c_i + 2 /\ TakesValue(word) /\ HasNext
    PROVE  AtWord' /\ Read(new)' /\ c_i \in 2..Len(c_args)
<1> DEFINE n == Len(c_args)
<1> DEFINE T(i) == TakesValue(c_args[i])
<1>1. c_i \in 2..n /\ n \in Nat BY DEF AtWord
<1>2. \A i : T(i)' <=> T(i) BY MeaningKept
<1>3. n' = n BY MeaningKept
<1>4. \/ c_i' = c_i + 1 /\ (T(c_i) => ~(c_i < n))
      \/ c_i' = c_i + 2 /\ T(c_i) /\ c_i < n
  BY DEF word, HasNext
<1>5. /\ said \subseteq 2..(c_i - 1) /\ ~(c_i - 1 \in said /\ T(c_i - 1))
      /\ \A i \in 2..(c_i - 1) : i \in said <=> ~(i - 1 \in said /\ T(i - 1))
  BY DEF Read
<1>6. AtWord' BY <1>1, <1>3, <1>4 DEF AtWord
<1>7. Read(new)'
  <2> HIDE DEF n, T
  <2>1. new \subseteq 2..(c_i' - 1) BY <1>1, <1>4, <1>5
  <2>2. \A i \in 2..(c_i' - 1) : i \in new <=> ~(i - 1 \in new /\ T(i - 1))
    BY <1>1, <1>4, <1>5
  <2>3. c_i' <= n => ~(c_i' - 1 \in new /\ T(c_i' - 1)) BY <1>1, <1>4, <1>5
  <2>4. \A i : T(i)' <=> TakesValue(c_args[i])' BY DEF T
  <2>5. /\ \A i \in 2..(c_i' - 1) : i \in new <=> ~(i - 1 \in new /\ TakesValue(c_args[i - 1])')
        /\ c_i' <= Len(c_args)' => ~(c_i' - 1 \in new /\ T(c_i' - 1))
    BY <2>2, <2>3, <1>2, <1>3 DEF T, n
  <2> QED BY <2>1, <2>5, <1>2 DEF Read, T
<1> QED BY <1>1, <1>6, <1>7

(* Options hold the value that was given last. *)
LEMMA LatestKept ==
    ASSUME UNCHANGED <<c_whole, c_options>>, NEW said, NEW new,
           \A n \in DOMAIN c_before : Latest(said, n),
           \A n \in DOMAIN c_before, k \in 2..Len(c_args) : Gave(new, k, n)' <=> Gave(said, k, n)
    PROVE  \A n \in DOMAIN c_before : Latest(new, n)'
<1> SUFFICES ASSUME NEW n \in DOMAIN c_before PROVE Latest(new, n)'
  OBVIOUS
<1>1. Len(c_args)' = Len(c_args) /\ c_before' = c_before BY MeaningKept DEF c_whole
<1>2. \A i : ValueOf(i, n)' = ValueOf(i, n) BY MeaningKept
<1>3. \A i : Given(n, ValueOf(i, n))' <=> Given(n, ValueOf(i, n)) BY <1>2 DEF Given
<1> QED BY <1>1, <1>3 DEF Latest

(* The word just obeyed is the last that gave its option a value. *)
LEMMA LatestSet ==
    ASSUME UNCHANGED c_whole, NEW said, NEW new, NEW here \in 2..Len(c_args), NEW j,
           Obeyed(here, j), Len(c_args) \in Nat,
           \A n \in DOMAIN c_before : Latest(said, n),
           \A n \in DOMAIN c_before, k \in 2..Len(c_args) :
              /\ Gave(new, k, n)' <=> Gave(said, k, n) \/ (k = here /\ Gives(here, j, n))
              /\ Gave(said, k, n) => k <= here
    PROVE  \A n \in DOMAIN c_before : Latest(new, n)'
<1> SUFFICES ASSUME NEW n \in DOMAIN c_before PROVE Latest(new, n)'
  OBVIOUS
<1>1. Len(c_args)' = Len(c_args) /\ c_before' = c_before BY MeaningKept DEF c_whole
<1>2. \A i : ValueOf(i, n)' = ValueOf(i, n) BY MeaningKept
<1>3. CASE Gives(here, j, n)
  <2>1. Set(n, ValueOf(here, n)) BY <1>3 DEF Obeyed
  <2>2. Given(n, ValueOf(here, n))' BY <2>1, <1>2 DEF Set, Given
  <2>3. Gave(new, here, n)' /\ \A k \in 2..Len(c_args) : Gave(new, k, n)' => k <= here BY <1>3
  <2> QED BY <1>1, <2>2, <2>3 DEF Latest
<1>4. CASE ~Gives(here, j, n)
  <2>1. c_options'[n] = c_options[n] BY <1>4 DEF Obeyed
  <2>2. \A i : Given(n, ValueOf(i, n))' <=> Given(n, ValueOf(i, n)) BY <2>1, <1>2 DEF Given
  <2>3. \A k \in 2..Len(c_args) : Gave(new, k, n)' <=> Gave(said, k, n) BY <1>4
  <2> QED BY <1>1, <2>1, <2>2, <2>3 DEF Latest
<1> QED BY <1>3, <1>4

(* A word that has been read speaks once it is read. *)
LEMMA WordGave ==
    ASSUME Len(c_args) \in Nat, AtWord, NEW said, Read(said), UNCHANGED c_whole,
           NEW here \in 2..Len(c_args), here = c_i, NEW new, new = said \cup {here}, c_j' = 1, NEW n, NEW k \in 2..Len(c_args)
    PROVE  /\ Gave(said, k, n) => k <= here
           /\ Gave(new, k, n)' <=> Gave(said, k, n) \/ (k = here /\ \E j \in Letters(here) : Gives(k, j, n))
<1>1. \A i, j : Gives(i, j, n)' <=> Gives(i, j, n) BY MeaningKept
<1>2. Letters(k)' = Letters(k) /\ Letters(here)' = Letters(here) BY MeaningKept
<1>3. said \subseteq 2..(here - 1) BY DEF Read
<1>4. ~\E j \in 1..(c_j' - 1) : Gives(k, j, n)' OBVIOUS
<1>5. \A j \in 1..(c_j - 1) : j \in Letters(here) BY DEF AtWord, Letters, word
<1> QED BY <1>1, <1>2, <1>3, <1>4, <1>5 DEF Gave

(* The rest is the same when no plain word was read. *)
LEMMA RestSame ==
    ASSUME UNCHANGED <<c_whole, c_others>>, NEW said, NEW new, Rest(said),
           \A i : Plain(i) => (i \in new <=> i \in said)
    PROVE  Rest(new)'
<1>1. \A i : Plain(i)' <=> Plain(i) BY MeaningKept
<1>2. c_args' = c_args /\ c_others' = c_others BY DEF c_whole
<1>3. {i \in new : Plain(i)'} = {i \in said : Plain(i)} BY <1>1
<1> QED BY <1>1, <1>2, <1>3 DEF Rest

(* An error stays, and the call has none when it has heard every word. *)
LEMMA ErrorsAre ==
    ASSUME c_errors \in Seq(Kinds), NEW i, NEW j, Obeyed(i, j)
    PROVE  c_errors' \in Seq(Kinds) /\ (c_errors' = << >> <=> c_errors = << >> /\ Heard(i, j))
<1>1. ASSUME NEW e \in Kinds, c_errors' = Append(c_errors, e)
      PROVE  c_errors' \in Seq(Kinds) /\ c_errors' # << >>
  BY <1>1, AppendProperties
<1> QED BY <1>1 DEF Obeyed, Heard

(* A word is understood when all its letters were. *)
LEMMA WordHeard ==
    ASSUME c_errors \in Seq(Kinds), UNCHANGED c_whole, NEW said, Faults(said),
           NEW here, here = c_i, NEW new, new = said \cup {here}, c_j' = 1, c_j \in Nat \ {0},
           ~Plain(here), Letters(here) = 1..c_j, Obeyed(here, c_j)
    PROVE  Faults(new)'
<1>1. \A i : Understood(i)' <=> Understood(i) BY MeaningKept
<1>2. Understood(here) <=> \A j \in 1..c_j : Heard(here, j) BY DEF Understood, Heard
<1>3. \A j \in 1..c_j : j \in 1..(c_j - 1) \/ j = c_j OBVIOUS
<1>4. c_j \in 1..c_j /\ \A j \in 1..(c_j - 1) : j \in 1..c_j OBVIOUS
<1>5. c_errors' = << >> <=> c_errors = << >> /\ Heard(here, c_j) BY ErrorsAre
<1>6. c_errors' = << >> <=> \A i \in new : Understood(i)
  BY <1>2, <1>3, <1>4, <1>5 DEF Faults
<1>7. \A j \in 1..(c_j' - 1) : FALSE OBVIOUS
<1> QED BY <1>1, <1>6, <1>7 DEF Faults

(* The options stay those of the call, but for has and actual. *)
LEMMA OptionsKept == ASSUME Options, NEW i, NEW j, Obeyed(i, j), UNCHANGED c_whole PROVE Options'
  BY DEF Obeyed, Options, c_whole, Ambiguous, IsOptions, IsOption

(* Every word with an option is obeyed at its end. *)
LEMMA WordSpoken ==
    ASSUME ParseTypes, Options, NEW said, Progress(said), UNCHANGED <<c_whole, c_others>>,
           c_i <= Len(c_args), c_j' = 1, ~Plain(c_i), Letters(c_i) = 1..c_j, Obeyed(c_i, c_j),
           \/ c_i' = c_i + 1 /\ (TakesValue(word) => ~HasNext)
           \/ c_i' = c_i + 2 /\ TakesValue(word) /\ HasNext
    PROVE  Options' /\ ParseTypes' /\ \E new : Progress(new)'
<1>1. Len(c_args) \in Nat BY LenProperties DEF ParseTypes
<1>2. PICK here \in 2..Len(c_args) : here = c_i BY <1>1 DEF Progress, AtWord
<1>3. PICK new : new = said \cup {here} OBVIOUS
<1>4. AtWord' /\ Read(new)'
  <2>1. /\ AtWord /\ Read(said) /\ c_i <= Len(c_args) /\ c_j' = 1
        /\ \/ c_i' = c_i + 1 /\ (TakesValue(word) => ~HasNext)
           \/ c_i' = c_i + 2 /\ TakesValue(word) /\ HasNext
    BY DEF Progress
  <2> QED BY <2>1, <1>1, <1>2, <1>3, WordRead
<1>5. Obeyed(here, c_j) /\ ~Plain(here) /\ Letters(here) = 1..c_j BY <1>2
<1>6. c_j \in Nat \ {0} BY DEF Progress, AtWord
<1>7. Rest(new)' BY <1>3, <1>5, RestSame DEF Progress
<1>8. Faults(new)'
  <2>1. Faults(said) /\ c_errors \in Seq(Kinds) BY DEF Progress, ParseTypes
  <2> QED BY <2>1, <1>2, <1>3, <1>5, <1>6, WordHeard
<1>9. \A n \in DOMAIN c_before : Latest(new, n)'
  <2>1. ASSUME NEW n, NEW k \in 2..Len(c_args)
        PROVE  /\ Gave(said, k, n) => k <= here
               /\ Gave(new, k, n)' <=> Gave(said, k, n) \/ (k = here /\ \E j \in 1..c_j : Gives(here, j, n))
    <3>1. AtWord /\ Read(said) /\ c_j' = 1 BY DEF Progress
    <3>2. /\ Gave(said, k, n) => k <= here
          /\ Gave(new, k, n)' <=> Gave(said, k, n) \/ (k = here /\ \E j \in Letters(here) : Gives(k, j, n))
      BY <3>1, <1>1, <1>2, <1>3, WordGave
    <3> QED BY <3>2, <1>5
  <2>2. \A j \in 1..c_j : j \in 1..(c_j - 1) \/ j = c_j BY <1>6
  <2>3. c_j \in 1..c_j BY <1>6
  <2>4. \A n : (\E j \in 1..c_j : Gives(here, j, n)) => Gives(here, c_j, n) \/ Gave(said, here, n)
    BY <1>2, <2>2 DEF Gave
  <2>5. \A n \in DOMAIN c_before, k \in 2..Len(c_args) :
              /\ Gave(new, k, n)' <=> Gave(said, k, n) \/ (k = here /\ Gives(here, c_j, n))
              /\ Gave(said, k, n) => k <= here
    BY <2>1, <2>3, <2>4
  <2>6. PICK j : j = c_j OBVIOUS
  <2>7. /\ Obeyed(here, j) /\ \A n \in DOMAIN c_before : Latest(said, n)
        /\ \A n \in DOMAIN c_before, k \in 2..Len(c_args) :
              /\ Gave(new, k, n)' <=> Gave(said, k, n) \/ (k = here /\ Gives(here, j, n))
              /\ Gave(said, k, n) => k <= here
    BY <2>5, <2>6, <1>5 DEF Progress
  <2> QED BY <2>7, <1>1, LatestSet
<1>10. DOMAIN c_before' = DOMAIN c_before /\ c_args' = c_args BY DEF c_whole
<1>11. Options' BY OptionsKept
<1>12. ParseTypes'
  <2>1. c_errors' \in Seq(Kinds) BY ErrorsAre DEF ParseTypes
  <2> QED BY <2>1, <1>10, <1>11 DEF ParseTypes, Options
<1>13. Progress(new)' BY <1>4, <1>7, <1>8, <1>9, <1>10 DEF Progress
<1> QED BY <1>11, <1>12, <1>13

(* --name=value has no next word to take. *)
LEMMA LongAssignStep ==
    ASSUME ParseTypes, Options, NEW said, Progress(said), LongAssign
    PROVE  Options' /\ ParseTypes' /\ \E new : Progress(new)'
<1>1. UNCHANGED <<c_whole, c_others>> /\ c_i' = c_i + 1 /\ c_j' = 1 /\ c_i <= Len(c_args)
  BY DEF LongAssign, RestKept, NextWord, AtForm
<1>2. FormOf(c_args[c_i]).form = "assign" BY DEF LongAssign, AtForm, word
<1>3. c_j = 1 /\ Letters(c_i) = 1..c_j /\ ~Plain(c_i) /\ ~TakesValue(word)
  BY <1>2 DEF Progress, AtWord, Letters, Plain, TakesValue, word
<1>4. Obeyed(c_i, c_j) BY <1>1, LongAssignObeys
<1> QED BY <1>1, <1>3, <1>4, WordSpoken

(* --name takes the next word exactly if its option has a value. *)
LEMMA LongOptionStep ==
    ASSUME ParseTypes, Options, NEW said, Progress(said), LongOption
    PROVE  Options' /\ ParseTypes' /\ \E new : Progress(new)'
<1>1. UNCHANGED <<c_whole, c_others>> /\ c_j' = 1 /\ c_i <= Len(c_args)
  BY DEF LongOption, RestKept, NextWord, AtForm
<1>2. FormOf(c_args[c_i]).form = "long" BY DEF LongOption, AtForm, word
<1>3. c_j = 1 /\ Letters(c_i) = 1..c_j /\ ~Plain(c_i)
  BY <1>2 DEF Progress, AtWord, Letters, Plain, word
<1>4. Obeyed(c_i, c_j) BY <1>1, LongOptionObeys
<1>5. TakesValue(word) <=> HasOption(FormOf(word).name) /\ c_options[FormOf(word).name].valued
  BY <1>2 DEF TakesValue, HasOption, Options, word
<1>6. \/ c_i' = c_i + 1 /\ (TakesValue(word) => ~HasNext)
      \/ c_i' = c_i + 2 /\ TakesValue(word) /\ HasNext
  BY <1>5 DEF LongOption, NextWord
<1> QED BY <1>1, <1>3, <1>4, <1>6, WordSpoken

(* The last letter of -abc takes the next word exactly if its option has a value. *)
LEMMA ShortLastStep ==
    ASSUME ParseTypes, Options, NEW said, Progress(said), ShortLast
    PROVE  Options' /\ ParseTypes' /\ \E new : Progress(new)'
<1>1. UNCHANGED <<c_whole, c_others>> /\ c_j' = 1 /\ c_i <= Len(c_args)
  BY DEF ShortLast, RestKept, NextWord, AtForm
<1>2. /\ FormOf(c_args[c_i]).form = "short" /\ FormOf(c_args[c_i]).letters # << >>
      /\ c_j = Len(FormOf(c_args[c_i]).letters)
  BY DEF ShortLast, AtForm, LastLetter, word
<1>3. Letters(c_i) = 1..c_j /\ ~Plain(c_i)
  BY <1>2 DEF Letters, Plain
<1>4. Obeyed(c_i, c_j) BY <1>1, ShortObeys
<1>5. /\ lookup(Letter) = Named(Letter) /\ \A n, m \in Named(Letter) : n = m
      /\ \A n \in Named(Letter) : n \in DOMAIN c_before /\ c_options[n].valued = c_before[n].valued
  BY LookupIs DEF Named, Options
<1>6. TakesValue(word) <=> \E n \in Named(Letter) : c_before[n].valued
  BY <1>2 DEF TakesValue, Letter, word
<1>7. \/ c_i' = c_i + 1 /\ (TakesValue(word) => ~HasNext)
      \/ c_i' = c_i + 2 /\ TakesValue(word) /\ HasNext
  BY <1>5, <1>6 DEF ShortLast, NextWord, LastTakesNext
<1> QED BY <1>1, <1>3, <1>4, <1>7, WordSpoken

(* A letter that is not the last. *)
LEMMA ShortFlagStep ==
    ASSUME ParseTypes, Options, NEW said, Progress(said), ShortFlag
    PROVE  Options' /\ ParseTypes' /\ Progress(said)'
<1>1. UNCHANGED <<c_whole, c_others>> /\ c_i' = c_i /\ c_j' = c_j + 1 /\ c_i <= Len(c_args)
  BY DEF ShortFlag, RestKept, AtForm
<1>2. /\ FormOf(c_args[c_i]).form = "short" /\ FormOf(c_args[c_i]).letters # << >>
      /\ c_j # Len(FormOf(c_args[c_i]).letters)
  BY DEF ShortFlag, AtForm, LastLetter, word
<1>3. Obeyed(c_i, c_j) BY <1>1, ShortObeys
<1>4. Len(c_args) \in Nat /\ c_i \in 2..Len(c_args) /\ c_j \in Nat \ {0}
  BY <1>1, LenProperties DEF ParseTypes, Progress, AtWord
<1>5. c_args' = c_args /\ c_before' = c_before BY <1>1 DEF c_whole
<1>6. AtWord'
  <2>1. PICK p \in DOMAIN Dashed : FormOf(c_args[c_i]) = Dashed[p] BY <1>2 DEF FormOf, PlainWord
  <2>2. PICK n \in Nat : n = Len(FormOf(c_args[c_i]).letters)
    BY <2>1, CmdlineConstants, LenProperties
  <2>3. n # 0
    <3>1. FormOf(c_args[c_i]).letters \in Seq(Range(FormOf(c_args[c_i]).letters)) BY <2>1, CmdlineConstants
    <3> QED BY <2>2, <3>1, <1>2, EmptySeq
  <2>4. c_j <= n
    <3>1. c_j > 1 => c_j <= n BY <2>2 DEF Progress, AtWord, word
    <3> QED BY <3>1, <2>3, <1>4
  <2>5. c_j + 1 <= n BY <2>4, <2>2, <1>2, <1>4
  <2> QED BY <2>5, <2>2, <1>1, <1>2, <1>4, <1>5 DEF AtWord, word
<1>7. Read(said)'
  <2>1. \A i : TakesValue(c_args[i])' <=> TakesValue(c_args[i]) BY <1>1, MeaningKept
  <2> QED BY <2>1, <1>1, <1>5 DEF Read, Progress
<1>8. Rest(said)' BY <1>1, RestSame DEF Progress
<1>9. \A j \in 1..(c_j' - 1) : j \in 1..(c_j - 1) \/ j = c_j BY <1>1, <1>4
<1>10. c_j \in 1..(c_j' - 1) /\ \A j \in 1..(c_j - 1) : j \in 1..(c_j' - 1) BY <1>1, <1>4
<1>11. Faults(said)'
  <2>1. \A i, j : (Understood(i)' <=> Understood(i)) /\ (Heard(i, j)' <=> Heard(i, j)) BY <1>1, MeaningKept
  <2>2. c_errors' = << >> <=> c_errors = << >> /\ Heard(c_i, c_j) BY <1>3, ErrorsAre DEF ParseTypes
  <2> QED BY <2>1, <2>2, <1>1, <1>9, <1>10 DEF Faults, Progress
<1>12. \A n \in DOMAIN c_before : Latest(said, n)'
  <2>1. PICK here \in 2..Len(c_args) : here = c_i BY <1>4
  <2>2. PICK j : j = c_j OBVIOUS
  <2>3. \A n \in DOMAIN c_before, k \in 2..Len(c_args) :
              /\ Gave(said, k, n)' <=> Gave(said, k, n) \/ (k = here /\ Gives(here, j, n))
              /\ Gave(said, k, n) => k <= here
    <3>1. \A i, l, n : Gives(i, l, n)' <=> Gives(i, l, n) BY <1>1, MeaningKept
    <3>2. \A k : Letters(k)' = Letters(k) BY <1>1, MeaningKept
    <3>3. said \subseteq 2..(here - 1) BY <2>1 DEF Progress, Read
    <3> QED BY <3>1, <3>2, <3>3, <2>1, <2>2, <1>1, <1>9, <1>10 DEF Gave
  <2>4. Obeyed(here, j) /\ \A n \in DOMAIN c_before : Latest(said, n)
    BY <1>3, <2>1, <2>2 DEF Progress
  <2> QED BY <2>3, <2>4, <1>1, <1>4, LatestSet
<1>13. Options' BY <1>1, <1>3, OptionsKept
<1>14. ParseTypes'
  <2>1. c_errors' \in Seq(Kinds) BY <1>3, ErrorsAre DEF ParseTypes
  <2> QED BY <2>1, <1>5, <1>13 DEF ParseTypes, Options
<1> QED BY <1>5, <1>6, <1>7, <1>8, <1>11, <1>12, <1>13, <1>14 DEF Progress

(* "-" and the words that are not options change no option. *)
LEMMA WordIgnored ==
    ASSUME ParseTypes, Options, NEW said, Progress(said), UNCHANGED <<c_whole, c_options, c_errors>>,
           c_i <= Len(c_args), c_i' = c_i + 1, c_j = 1, c_j' = 1, Understood(c_i), ~TakesValue(word),
           (\A n : \A j \in Letters(c_i) : ~Gives(c_i, j, n)),
           NEW here, here = c_i, NEW new, new = said \cup {here}, Rest(new)'
    PROVE  Options' /\ ParseTypes' /\ \E all : Progress(all)'
<1>1. Len(c_args) \in Nat BY LenProperties DEF ParseTypes
<1>2. here \in 2..Len(c_args) BY <1>1 DEF Progress, AtWord
<1>3. AtWord' /\ Read(new)'
  <2>1. AtWord /\ Read(said) /\ c_i <= Len(c_args) /\ c_j' = 1 /\ c_i' = c_i + 1 /\ ~TakesValue(word)
    BY DEF Progress
  <2> QED BY <2>1, <1>1, <1>2, WordRead
<1>4. Faults(new)'
  <2>1. \A i : Understood(i)' <=> Understood(i) BY MeaningKept
  <2>2. \A j \in 1..(1 - 1) : FALSE OBVIOUS
  <2> QED BY <2>1, <2>2 DEF Faults, Progress
<1>5. \A n \in DOMAIN c_before : Latest(new, n)'
  <2>1. ASSUME NEW n, NEW k \in 2..Len(c_args) PROVE Gave(new, k, n)' <=> Gave(said, k, n)
    <3>1. AtWord /\ Read(said) BY DEF Progress
    <3>2. Gave(new, k, n)' <=> Gave(said, k, n) \/ (k = here /\ \E j \in Letters(here) : Gives(k, j, n))
      BY <3>1, <1>1, <1>2, WordGave
    <3>3. \A j \in Letters(here) : ~Gives(here, j, n) OBVIOUS
    <3> QED BY <3>2, <3>3
  <2>2. \A n \in DOMAIN c_before : Latest(said, n) BY DEF Progress
  <2> QED BY <2>1, <2>2, LatestKept
<1>6. c_args' = c_args /\ c_before' = c_before BY DEF c_whole
<1>7. Progress(new)' BY <1>3, <1>4, <1>5, <1>6 DEF Progress
<1>8. Options' /\ ParseTypes' BY <1>6 DEF Options, ParseTypes, Ambiguous, IsOptions, IsOption
<1> QED BY <1>7, <1>8

(* "-" alone is read, and means nothing. *)
LEMMA SingleDashStep ==
    ASSUME ParseTypes, Options, NEW said, Progress(said), SingleDash
    PROVE  Options' /\ ParseTypes' /\ \E new : Progress(new)'
<1>1. /\ UNCHANGED <<c_whole, c_others, c_options, c_errors>> /\ c_j' = 1
      /\ c_i' = c_i + 1 /\ c_i <= Len(c_args)
  BY DEF SingleDash, RestKept, NextWord, AtForm
<1>2. FormOf(c_args[c_i]).form = "short" /\ FormOf(c_args[c_i]).letters = << >>
  BY DEF SingleDash, AtForm, word
<1>3. \A j \in Letters(c_i) : FALSE BY <1>2 DEF Letters
<1>4. c_j = 1 BY <1>2 DEF Progress, AtWord, word
<1>5. Understood(c_i) /\ ~Plain(c_i) BY <1>2, <1>3 DEF Understood, Plain
<1>6. ~TakesValue(word) BY <1>2 DEF TakesValue, word
<1>7. PICK here : here = c_i OBVIOUS
<1>8. PICK new : new = said \cup {here} OBVIOUS
<1>9. Rest(new)' BY <1>1, <1>5, <1>7, <1>8, RestSame DEF Progress
<1> QED BY <1>1, <1>3, <1>4, <1>5, <1>6, <1>7, <1>8, <1>9, WordIgnored

(* A word that is no option goes behind the rest. *)
LEMMA OtherWordStep ==
    ASSUME ParseTypes, Options, NEW said, Progress(said), (\E S : c_others \in Seq(S)), OtherWord
    PROVE  Options' /\ ParseTypes' /\ (\E S : c_others' \in Seq(S)) /\ \E new : Progress(new)'
<1>1. /\ UNCHANGED <<c_whole, c_options, c_errors>> /\ c_j' = 1
      /\ c_i' = c_i + 1 /\ c_i <= Len(c_args) /\ c_others' = Append(c_others, c_args[c_i])
  BY DEF OtherWord, NextWord, AtForm, word
<1>2. FormOf(c_args[c_i]).form = "plain" BY DEF OtherWord, AtForm, word
<1>3. \A n : \A j \in Letters(c_i) : ~Gives(c_i, j, n) BY <1>2 DEF Gives
<1>4. c_j = 1 BY <1>2 DEF Progress, AtWord, word
<1>5. Understood(c_i) /\ Plain(c_i) BY <1>2 DEF Understood, Plain
<1>6. ~TakesValue(word) BY <1>2 DEF TakesValue, word
<1>7. PICK here : here = c_i OBVIOUS
<1>8. PICK new : new = said \cup {here} OBVIOUS
<1>9. PICK S : c_others \in Seq(S) OBVIOUS
<1>10. PICK R : R = S \cup {c_args[c_i]} OBVIOUS
<1>11. /\ c_others' \in Seq(R) /\ Len(c_others') = Len(c_others) + 1 /\ Len(c_others) \in Nat
       /\ c_others'[Len(c_others) + 1] = c_args[here]
       /\ \A k \in 1..Len(c_others) : c_others'[k] = c_others[k]
  <2>1. c_others \in Seq(R) /\ c_args[c_i] \in R BY <1>9, <1>10
  <2> QED BY <2>1, <1>1, <1>7, AppendProperties, LenProperties
<1>12. Rest(new)'
  <2> DEFINE n == Len(c_others)
  <2>1. PICK at \in [1..n -> {i \in said : Plain(i)}] :
           /\ \A k \in 1..n : c_others[k] = c_args[at[k]]
           /\ \A k, m \in 1..n : k < m => at[k] < at[m]
           /\ \A i \in said : Plain(i) => \E k \in 1..n : at[k] = i
    BY DEF Progress, Rest
  <2>2. PICK m \in Nat : m = n BY <1>11
  <2> DEFINE also == [k \in 1..(m + 1) |-> IF k = m + 1 THEN here ELSE at[k]]
  <2>3. said \subseteq 2..(here - 1) /\ here \in Nat
    BY <1>7 DEF Progress, Read, AtWord
  <2>4. Plain(here) BY <1>5, <1>7
  <2>5. \A k \in 1..m : at[k] \in said /\ Plain(at[k]) /\ at[k] < here
    <3>1. \A i \in said : i < here BY <2>3
    <3>2. \A k \in 1..m : at[k] \in {i \in said : Plain(i)} BY <2>1, <2>2
    <3> QED BY <3>1, <3>2
  <2>6. also \in [1..(m + 1) -> {i \in new : Plain(i)}]
    <3>1. \A k \in 1..(m + 1) : k \in 1..m \/ k = m + 1 OBVIOUS
    <3> QED BY <3>1, <2>4, <2>5, <1>8
  <2>7. \A k \in 1..(m + 1) : c_others'[k] = c_args[also[k]]
    <3>1. \A k \in 1..m : c_others'[k] = c_args[at[k]] BY <2>1, <2>2, <1>11
    <3>2. \A k \in 1..(m + 1) : k \in 1..m \/ k = m + 1 OBVIOUS
    <3> QED BY <3>1, <3>2, <2>2, <1>11
  <2>8. \A k, l \in 1..(m + 1) : k < l => also[k] < also[l]
    BY <2>1, <2>2, <2>5
  <2>9. \A i \in new : Plain(i) => \E k \in 1..(m + 1) : also[k] = i
    <3>1. \A i \in said : Plain(i) => \E k \in 1..m : at[k] = i BY <2>1, <2>2
    <3>2. \A k \in 1..m : k \in 1..(m + 1) /\ also[k] = at[k] BY <2>2
    <3>3. also[m + 1] = here /\ m + 1 \in 1..(m + 1) BY <2>2
    <3> QED BY <3>1, <3>2, <3>3, <1>8
  <2>10. \A i : Plain(i)' <=> Plain(i) BY <1>1, MeaningKept
  <2>11. Len(c_others') = m + 1 /\ c_args' = c_args BY <1>1, <1>11, <2>2 DEF c_whole
  <2>12. {i \in new : Plain(i)'} = {i \in new : Plain(i)} BY <2>10
  <2> HIDE DEF also
  <2> DEFINE len == Len(c_others')
  <2>13. /\ also \in [1..len -> {i \in new : Plain(i)'}]
         /\ \A k \in 1..len : c_others'[k] = c_args'[also[k]]
         /\ \A k, l \in 1..len : k < l => also[k] < also[l]
         /\ \A i \in new : Plain(i)' => \E k \in 1..len : also[k] = i
    BY <2>6, <2>7, <2>8, <2>9, <2>10, <2>11, <2>12
  <2> QED BY ONLY <2>13 DEF Rest
<1>13. Options' /\ ParseTypes' /\ \E all : Progress(all)'
  BY <1>1, <1>3, <1>4, <1>5, <1>6, <1>7, <1>8, <1>12, WordIgnored
<1> QED BY <1>11, <1>13

-----------------------------------------------------------------------------
(* After the loop said is the reading of the whole line. *)
LEMMA EndKeeps == ASSUME ParseInv, EndParse PROVE ParseInv'
<1>1. /\ c_result = "parsing" /\ c_i > Len(c_args) /\ UNCHANGED <<c_options, c_others, c_turn, c_whole>>
      /\ c_errors' = c_errors \o [k \in 1..Cardinality(NeedsOption) |-> "need option"]
      /\ c_result' = Outcome(c_errors' = << >>)
  BY DEF EndParse
<1>2. Loop /\ ParseTypes /\ Len(c_args) \in Nat BY <1>1, LenProperties DEF ParseInv, ParseTypes
<1>3. PICK said : Read(said) /\ Rest(said) /\ Faults(said) /\ \A n \in DOMAIN c_before : Latest(said, n)
  BY <1>2 DEF Loop, Progress
<1>4. c_i = Len(c_args) + 1 /\ c_j = 1
  <2>1. PICK n \in Nat : n = Len(c_args) BY <1>2
  <2>2. AtWord BY <1>2 DEF Loop, Progress
  <2>3. c_i \in 2..(n + 1) /\ c_i > n BY <2>1, <2>2, <1>1 DEF AtWord
  <2>4. c_j \in Nat \ {0} /\ (c_j > 1 => c_i <= n) BY <2>1, <2>2 DEF AtWord
  <2> QED BY <2>1, <2>3, <2>4
<1>5. said \in SUBSET (2..Len(c_args)) /\ Speaking(said)
  <2>1. c_i - 1 = Len(c_args) BY <1>2, <1>4
  <2> QED BY <1>3, <2>1 DEF Read, Speaking
<1> DEFINE given(n) == {i \in said : \E j \in Letters(i) : Gives(i, j, n)}
<1>6. \A n \in DOMAIN c_before :
        \/ given(n) = {} /\ c_options[n] = c_before[n]
        \/ \E i \in given(n) : /\ \A k \in given(n) : k <= i
                               /\ c_options[n].has /\ c_options[n].actual = ValueOf(i, n)
  <2>1. TAKE n \in DOMAIN c_before
  <2>2. \A k \in 2..Len(c_args) : Gave(said, k, n) <=> k \in given(n)
    <3>1. \A k \in 2..Len(c_args) : k # c_i BY <1>2, <1>4
    <3> QED BY <3>1 DEF Gave
  <2>3. given(n) \subseteq 2..Len(c_args) BY <1>5
  <2>4. Latest(said, n) BY <1>3
  <2> HIDE DEF given
  <2> QED BY <2>2, <2>3, <2>4 DEF Latest, Given
<1>7. c_errors = << >> <=> \A i \in said : Understood(i)
  <2>1. \A j \in 1..(1 - 1) : FALSE OBVIOUS
  <2> QED BY <2>1, <1>3, <1>4 DEF Faults
<1>8. /\ c_errors' \in Seq(Kinds)
      /\ c_errors' = << >> <=> c_errors = << >> /\ NeedsOption = {}
  <2>1. IsFiniteSet(NeedsOption)
    <3>1. NeedsOption \subseteq DOMAIN c_options BY DEF NeedsOption
    <3> QED BY <3>1, <1>2, FS_Subset DEF ParseTypes, IsOptions
  <2>2. PICK N \in Nat : N = Cardinality(NeedsOption) BY <2>1, FS_CardinalityType
  <2>3. N = 0 <=> NeedsOption = {} BY <2>1, <2>2, FS_EmptySet
  <2>4. PICK F : F = [k \in 1..N |-> "need option"] OBVIOUS
  <2>5. F \in Seq(Kinds) /\ Len(F) = N
    <3>1. F \in [1..N -> Kinds] BY <2>4 DEF Kinds
    <3>2. F \in Seq(Kinds) BY <3>1, <2>2, SeqDef
    <3>3. PICK m \in Nat : m = Len(F) BY <3>2, LenProperties
    <3>4. 1..m = 1..N BY <3>1, <3>2, <3>3, LenProperties
    <3>5. m = N
      <4>1. N > 0 => N \in 1..m BY <3>4
      <4>2. m > 0 => m \in 1..N BY <3>4
      <4> QED BY <4>1, <4>2
    <3> QED BY <3>2, <3>3, <3>5
  <2>6. c_errors \in Seq(Kinds) /\ c_errors' = c_errors \o F BY <1>1, <1>2, <2>2, <2>4 DEF ParseTypes
  <2>7. c_errors' \in Seq(Kinds) /\ Len(c_errors') = Len(c_errors) + N /\ Len(c_errors) \in Nat
    BY <2>5, <2>6, ConcatProperties, LenProperties
  <2>8. (c_errors' = << >> <=> Len(c_errors') = 0) /\ (c_errors = << >> <=> Len(c_errors) = 0)
    BY <2>6, <2>7, EmptySeq
  <2> QED BY <2>3, <2>7, <2>8
<1>9. NeedsOption = {} <=> \A n \in DOMAIN c_options : c_options[n].need => c_options[n].has
  <2>1. \A n \in DOMAIN c_options : c_options[n].has \in BOOLEAN /\ c_options[n].need \in BOOLEAN
    BY <1>2 DEF ParseTypes, IsOptions, IsOption
  <2> QED BY <2>1 DEF NeedsOption
<1>10. /\ c_result' # "parsing"
       /\ c_result' = "ok" <=> c_errors' = << >> /\ ~Asked
       /\ c_result' = "failed" => c_check = NoCheck /\ c_errors' # << >>
       /\ c_result' = "exit 1" => ~Asked
  <2>1. CASE c_check = NoCheck BY <1>1, <2>1 DEF Outcome, Asked
  <2>2. CASE c_check # NoCheck /\ ((c_check = 1 /\ c_errors' # << >>) \/ c_options["help"].has)
    <3>1. c_result' = "exit 0" BY <1>1, <2>2 DEF Outcome
    <3> QED BY <3>1, <2>2 DEF Asked
  <2>3. CASE c_check # NoCheck /\ ~((c_check = 1 /\ c_errors' # << >>) \/ c_options["help"].has)
    BY <1>1, <2>3 DEF Outcome, Asked
  <2> QED BY <2>1, <2>2, <2>3
<1>11. /\ c_options' = c_options /\ c_others' = c_others /\ c_args' = c_args /\ c_before' = c_before
       /\ c_check' = c_check
  BY <1>1 DEF c_whole
<1>12. ParseTypes' BY <1>2, <1>8, <1>11 DEF ParseTypes, IsOptions, IsOption
<1>13. /\ Speaking(said)' /\ DOMAIN c_options' = DOMAIN c_before'
       /\ LET right == /\ \A i \in said : Understood(i)'
                       /\ \A n \in DOMAIN c_options' : c_options'[n].need => c_options'[n].has
          IN /\ c_result' = "ok" <=> right /\ ~Asked'
             /\ c_result' = "failed" => c_check' = NoCheck /\ ~right
             /\ c_result' = "exit 1" => ~Asked'
  <2>1. Speaking(said)'
    <3>1. \A i : TakesValue(c_args[i])' <=> TakesValue(c_args[i]) BY <1>1, MeaningKept
    <3> QED BY <3>1, <1>5, <1>11 DEF Speaking
  <2>2. \A i : Understood(i)' <=> Understood(i) BY <1>1, MeaningKept
  <2>3. DOMAIN c_options = DOMAIN c_before BY <1>2 DEF Loop, Options
  <2>4. Asked' <=> Asked BY <1>11 DEF Asked
  <2> QED BY <2>1, <2>2, <2>3, <2>4, <1>7, <1>8, <1>9, <1>10, <1>11
<1>14. \A n \in DOMAIN c_before' :
         LET all == {i \in said : \E j \in Letters(i)' : Gives(i, j, n)'}
         IN \/ all = {} /\ c_options'[n] = c_before'[n]
            \/ \E i \in all : /\ \A k \in all : k <= i
                              /\ c_options'[n].has /\ c_options'[n].actual = ValueOf(i, n)'
  <2>1. TAKE n \in DOMAIN c_before'
  <2>2. {i \in said : \E j \in Letters(i)' : Gives(i, j, n)'} = given(n) BY <1>1, MeaningKept
  <2>3. \A i : ValueOf(i, n)' = ValueOf(i, n) BY <1>1, MeaningKept
  <2> HIDE DEF given
  <2> QED BY <2>2, <2>3, <1>6, <1>11
<1>15. Rest(said)' BY <1>1, <1>3, RestSame DEF c_whole
<1>17. c_i' > Len(c_args') /\ c_args' # << >> /\ ~Ambiguous'
  <2>1. c_i' = c_i /\ Len(c_args) > 0
    <3>1. PICK n \in Nat : n = Len(c_args) BY <1>2
    <3>2. c_i \in 2..(n + 1) BY <3>1, <1>2 DEF Loop, Progress, AtWord
    <3>3. c_i = n + 1 BY <3>1, <1>4
    <3>4. n > 0 BY <3>2, <3>3
    <3>5. c_i' = c_i BY <1>1 DEF c_turn
    <3> QED BY <3>1, <3>4, <3>5
  <2>2. c_args # << >> BY <2>1
  <2>3. ~Ambiguous' BY <1>2, <1>11 DEF Loop, Options, Ambiguous
  <2> QED BY <2>1, <2>2, <2>3, <1>1, <1>11
<1>16. ParseMeaning' BY <1>5, <1>11, <1>13, <1>14, <1>15, <1>17 DEF ParseMeaning, Rest
<1> QED BY <1>10, <1>12, <1>16 DEF ParseInv

-----------------------------------------------------------------------------
(* Between parses. *)

(* Outside of a parse only the types are to be shown. *)
LEMMA Idle ==
    ASSUME ParseTypes', c_result' \notin {"parsing", "ok"},
           c_result' \notin {"ok", "failed", "exit 0", "exit 1"} \/ c_args' = << >> \/ Ambiguous'
    PROVE  ParseInv'
BY DEF ParseInv, ParseMeaning

(* add() keeps the options well formed. *)
LEMMA AddedOptions ==
    ASSUME IsOptions(c_options), NEW n, NEW o, IsOption(o), c_options' = Added(n, o)
    PROVE  IsOptions(c_options')
<1>1. IsFiniteSet(DOMAIN c_options \cup {n}) BY FS_AddElement DEF IsOptions
<1>2. DOMAIN c_options' = DOMAIN c_options \cup {n} BY DEF Added
<1>3. \A m \in DOMAIN c_options \cup {n} : IsOption(c_options'[m])
  <2>1. \A m \in DOMAIN c_options \cup {n} : c_options'[m] = IF m = n THEN o ELSE c_options[m] BY DEF Added
  <2>2. \A m \in DOMAIN c_options : IsOption(c_options[m]) BY DEF IsOptions
  <2> QED BY <2>1, <2>2
<1> QED BY <1>1, <1>2, <1>3 DEF IsOptions

(* A new option is well formed. *)
LEMMA OptionIs ==
    ASSUME NEW short, NEW valued \in BOOLEAN, NEW need \in BOOLEAN, NEW reader
    PROVE  IsOption(Option(short, valued, need, reader))
BY DEF IsOption, Option, Fields

(* So is the option for the help. *)
LEMMA HelpKeeps ==
    ASSUME ParseInv, NEW argc, c_options' = WithHelp(argc) PROVE IsOptions(c_options')
<1>1. IsOption(Option("?", FALSE, FALSE, AnyText)) BY OptionIs
<1>2. \/ c_options' = c_options
      \/ c_options' = Added("help", Option("?", FALSE, FALSE, AnyText))
  BY DEF WithHelp
<1>3. IsOptions(c_options) BY DEF ParseInv, ParseTypes
<1>4. CASE c_options' = c_options BY <1>3, <1>4
<1>5. CASE c_options' = Added("help", Option("?", FALSE, FALSE, AnyText)) BY <1>1, <1>3, <1>5, AddedOptions
<1> QED BY <1>2, <1>4, <1>5

(* The program adds its options before it parses. *)
LEMMA AddKeeps == ASSUME ParseInv, NEW n \in DOMAIN Declared, AddOption(n) \/ AddAgain(n) PROVE ParseInv'
<1>1. c_result' \in {"idle", "threw"} BY DEF AddOption, AddAgain
<1>2. c_errors' = c_errors /\ c_args' = c_args BY DEF AddOption, AddAgain, c_whole
<1>3. IsOptions(c_options')
  <2>1. CASE AddAgain(n) BY <2>1 DEF AddAgain, ParseInv, ParseTypes, IsOptions, IsOption
  <2>2. CASE AddOption(n)
    <3>1. PICK o \in Declared[n] : c_options' = Added(n, o) BY <2>2 DEF AddOption
    <3>2. IsOption(o)
      <4>1. o = Option(o.short, o.valued, o.need, o.reader) /\ o.valued \in BOOLEAN /\ o.need \in BOOLEAN
        BY <3>1, CmdlineConstants
      <4> QED BY <4>1, OptionIs
    <3> QED BY <3>1, <3>2, AddedOptions DEF ParseInv, ParseTypes
  <2> QED BY <2>1, <2>2
<1>4. ParseTypes' BY <1>2, <1>3 DEF ParseInv, ParseTypes, IsOptions, IsOption
<1> QED BY <1>1, <1>4, Idle

(* A call begins with no word read. *)
LEMMA BeginKeeps ==
    ASSUME ParseInv, NEW args, NEW S, args \in Seq(S), NEW argc, Begin(args, argc)
    PROVE  ParseInv'
<1>1. c_args' = args /\ c_before' = c_options' /\ c_others' = << >> /\ c_i' = 2 /\ c_j' = 1
  BY DEF Begin
<1>2. IsOptions(c_options') BY HelpKeeps DEF Begin
<1>3. \/ c_result' \in {"failed", "exit 0", "exit 1"} /\ (args = << >> \/ Ambiguous')
         /\ (c_errors' = <<"no argument">> \/ c_errors' = <<"ambiguous">>)
      \/ c_result' = "parsing" /\ args # << >> /\ ~Ambiguous' /\ c_errors' = << >>
  <2>1. Outcome(FALSE)' \in {"failed", "exit 0", "exit 1"} BY DEF Outcome
  <2>2. \/ c_result' = Outcome(FALSE)' /\ (args = << >> \/ Ambiguous')
           /\ (c_errors' = <<"no argument">> \/ c_errors' = <<"ambiguous">>)
        \/ c_result' = "parsing" /\ args # << >> /\ ~Ambiguous' /\ c_errors' = << >>
    BY DEF Begin
  <2> QED BY <2>1, <2>2
<1>4. ParseTypes'
  <2>1. c_errors' \in Seq(Kinds)
    <3>1. << >> \in Seq(Kinds) /\ <<"no argument">> \in Seq(Kinds) /\ <<"ambiguous">> \in Seq(Kinds)
      BY EmptySeq DEF Kinds
    <3> QED BY <1>3, <3>1
  <2>2. IsOptions(c_options)' BY <1>2 DEF IsOptions, IsOption
  <2> QED BY <1>1, <2>1, <2>2 DEF ParseTypes
<1>5. CASE c_result' \in {"failed", "exit 0", "exit 1"} BY <1>1, <1>3, <1>4, <1>5, Idle
<1>6. CASE c_result' = "parsing" /\ args # << >> /\ ~Ambiguous' /\ c_errors' = << >>
  <2>1. Options' BY <1>1, <1>2, <1>6 DEF Options, IsOptions, IsOption
  <2>2. PICK m \in Nat : m = Len(args) /\ m > 0 BY <1>6, EmptySeq
  <2>3. AtWord' BY <1>1, <2>2 DEF AtWord, word
  <2>4. \A j \in 1..(1 - 1) : FALSE OBVIOUS
  <2>5. Read({})' BY <1>1 DEF Read
  <2>6. Rest({})'
    <3>1. PICK at : at = [k \in 1..Len(c_others') |-> 0] OBVIOUS
    <3>2. Len(c_others') = 0 BY <1>1
    <3>3. at \in [1..Len(c_others') -> {i \in {} : Plain(i)'}] BY <3>1, <3>2
    <3>4. \A k \in 1..Len(c_others') : FALSE BY <3>2
    <3> QED BY <3>3, <3>4 DEF Rest
  <2>7. Faults({})' BY <1>1, <1>6, <2>4 DEF Faults
  <2>8. \A n \in DOMAIN c_before' : Latest({}, n)'
    <3>1. \A n : \A k : ~Gave({}, k, n)' BY <1>1, <2>4 DEF Gave
    <3> QED BY <1>1, <3>1 DEF Latest
  <2>9. c_others' \in Seq({}) BY <1>1, EmptySeq
  <2>10. Loop' BY <2>1, <2>3, <2>5, <2>6, <2>7, <2>8, <2>9 DEF Loop, Progress
  <2> QED BY <1>4, <1>6, <2>10 DEF ParseInv, ParseMeaning
<1> QED BY <1>3, <1>5, <1>6

-----------------------------------------------------------------------------
(* With F the steps: F[s][p] is the state after piece p in state s.  g goes    *)
(* from s along the line; the line leads from s to t.                        *)
Path(F, g, s, line) == g[0] = s /\ \A k \in 1..Len(line) : g[k] = F[g[k - 1]][line[k]]
Leads(F, s, line, t) == \E g : Path(F, g, s, line) /\ g[Len(line)] = t

(* There is a path, and it stays among the states of F. *)
PathIn(F, g, s, line, St) == g \in [0..Len(line) -> St] /\ Path(F, g, s, line)
(* Every line has a path from every state. *)
LEMMA PathExists ==
    ASSUME NEW R, NEW St, NEW F \in [St -> [R -> St]], NEW s \in St, NEW line \in Seq(R)
    PROVE  \E g : PathIn(F, g, s, line, St)
<1>1. PICK n \in Nat : n = Len(line) BY LenProperties
<1>2. \A k \in 1..n : line[k] \in R BY <1>1, ElementOfSeq
<1> DEFINE J == [k \in 1..n |-> [x \in St |-> F[x][line[k]]]]
<1>3. J \in [1..n -> [St -> St]] BY <1>2
<1>4. PICK f : Stepwise(f, n, St, s, J)
  <2> HIDE DEF J
  <2> QED BY <1>3, Recursion
<1>5. f \in [0..n -> St] /\ f[0] = s BY <1>4 DEF Stepwise
<1>6. \A k \in 1..n : f[k] = F[f[k - 1]][line[k]]
  <2>1. \A k \in 1..n : f[k - 1] \in St BY <1>5
  <2> QED BY <2>1, <1>4 DEF Stepwise
<1> QED BY <1>1, <1>5, <1>6 DEF PathIn, Path

(* There is one path. *)
LEMMA LeadsOnce ==
    ASSUME NEW F, NEW R, NEW line \in Seq(R), NEW s, NEW t, NEW u, Leads(F, s, line, t), Leads(F, s, line, u)
    PROVE  t = u
<1>1. PICK n \in Nat : n = Len(line) BY LenProperties
<1>2. PICK f : Path(F, f, s, line) /\ f[n] = t BY <1>1 DEF Leads
<1>3. PICK g : Path(F, g, s, line) /\ g[n] = u BY <1>1 DEF Leads
<1> DEFINE T == {k \in 0..n : f[k] = g[k]}
<1>4. 0 \in T BY <1>2, <1>3 DEF Path
<1>5. ASSUME NEW k \in 1..n, k - 1 \in T PROVE k \in T BY <1>1, <1>2, <1>3, <1>5 DEF Path
<1> HIDE DEF T
<1>6. n \in T
  <2>1. n \in 0..n OBVIOUS
  <2> QED BY <1>4, <1>5, <2>1, StepByStep
<1> QED BY <1>2, <1>3, <1>6 DEF T

(* No piece leads nowhere. *)
LEMMA LeadsNowhere == ASSUME NEW F, NEW s PROVE Leads(F, s, << >>, s)
<1>1. PICK g : g = [k \in {0} |-> s] OBVIOUS
<1> QED BY <1>1 DEF Leads, Path

(* One piece leads where its step says. *)
LEMMA LeadsOne == ASSUME NEW F, NEW s, NEW p PROVE Leads(F, s, <<p>>, F[s][p])
<1>1. PICK g : g = [k \in 0..1 |-> IF k = 0 THEN s ELSE F[s][p]] OBVIOUS
<1>2. Len(<<p>>) = 1 /\ <<p>>[1] = p OBVIOUS
<1>3. g[0] = s /\ g[1] = F[s][p] BY <1>1
<1> QED BY <1>2, <1>3 DEF Leads, Path

(* So do two, one after the other. *)
LEMMA LeadsTwo == ASSUME NEW F, NEW s, NEW p, NEW q PROVE Leads(F, s, <<p, q>>, F[F[s][p]][q])
<1>1. PICK g : g = [k \in 0..2 |-> IF k = 0 THEN s ELSE IF k = 1 THEN F[s][p] ELSE F[F[s][p]][q]] OBVIOUS
<1>2. Len(<<p, q>>) = 2 /\ <<p, q>>[1] = p /\ <<p, q>>[2] = q OBVIOUS
<1>3. g[0] = s /\ g[1] = F[s][p] /\ g[2] = F[F[s][p]][q] BY <1>1
<1>4. \A k \in 1..2 : k = 1 \/ k = 2 OBVIOUS
<1>5. \A k \in 1..2 : g[k] = F[g[k - 1]][<<p, q>>[k]] BY <1>2, <1>3, <1>4
<1> QED BY <1>2, <1>3, <1>5 DEF Leads, Path

(* Paths are put together. *)
LEMMA LeadsOn ==
    ASSUME NEW F, NEW R, NEW l \in Seq(R), NEW m \in Seq(R), NEW s, NEW t, NEW u, Leads(F, s, l, t), Leads(F, t, m, u)
    PROVE  Leads(F, s, l \o m, u)
<1>1. PICK i \in Nat, j \in Nat : i = Len(l) /\ j = Len(m) BY LenProperties
<1>2. PICK f : Path(F, f, s, l) /\ f[i] = t BY <1>1 DEF Leads
<1>3. PICK g : Path(F, g, t, m) /\ g[j] = u BY <1>1 DEF Leads
<1>4. PICK line : line = l \o m OBVIOUS
<1>5. /\ Len(line) = i + j
      /\ \A k \in 1..i : line[k] = l[k]
      /\ \A k \in (i + 1)..(i + j) : line[k] = m[k - i]
  BY <1>1, <1>4, ConcatProperties
<1>6. PICK h : h = [k \in 0..(i + j) |-> IF k <= i THEN f[k] ELSE g[k - i]] OBVIOUS
<1>7. h[0] = s BY <1>2, <1>6 DEF Path
<1>8. ASSUME NEW k \in 1..(i + j) PROVE h[k] = F[h[k - 1]][line[k]]
  <2>1. CASE k <= i
    <3>1. k \in 1..i /\ h[k] = f[k] /\ h[k - 1] = f[k - 1] BY <2>1, <1>6
    <3> QED BY <3>1, <1>1, <1>2, <1>5 DEF Path
  <2>2. CASE k > i
    <3>1. k - i \in 1..j /\ k \in (i + 1)..(i + j) /\ h[k] = g[k - i] BY <2>2, <1>6
    <3>2. h[k - 1] = g[k - i - 1]
      <4>1. CASE k = i + 1
        <5>1. h[k - 1] = f[i] BY <4>1, <1>6
        <5>2. k - i - 1 = 0 BY <4>1
        <5> QED BY <5>1, <5>2, <1>2, <1>3 DEF Path
      <4>2. CASE k # i + 1
        <5>1. k - 1 \in 0..(i + j) /\ ~(k - 1 <= i) /\ k - 1 - i = k - i - 1 BY <4>2, <2>2
        <5> QED BY <5>1, <1>6
      <4> QED BY <4>1, <4>2
    <3> QED BY <3>1, <3>2, <1>1, <1>3, <1>5 DEF Path
  <2> QED BY <2>1, <2>2
<1>9. h[i + j] = u
  <2>1. CASE j = 0 BY <2>1, <1>2, <1>3, <1>6 DEF Path
  <2>2. CASE j # 0 BY <2>2, <1>3, <1>6
  <2> QED BY <2>1, <2>2
<1> QED BY <1>4, <1>5, <1>7, <1>8, <1>9 DEF Leads, Path

(* As sequences put behind each other lead through the states h. *)
LEMMA LeadsThrough ==
    ASSUME NEW F, NEW R, NEW seqs \in Seq(Seq(R)), NEW n \in Nat, n # 0, n = Len(seqs), NEW h,
           \A i \in 1..n : Leads(F, h[i - 1], seqs[i], h[i])
    PROVE  FlattenSeq(seqs) \in Seq(R) /\ Leads(F, h[0], FlattenSeq(seqs), h[n])
<1>0. PICK Every : Every = Seq(R) OBVIOUS
<1> DEFINE J == [k \in 1..n |-> [x \in Every |-> IF k = 1 THEN seqs[1] ELSE x \o seqs[k]]]
<1>1. \A k \in 1..n : seqs[k] \in Seq(R) BY ElementOfSeq
<1>2. J \in [1..n -> [Every -> Every]]
  <2>1. \A k \in 1..n, x \in Every : x \o seqs[k] \in Every BY <1>0, <1>1, ConcatProperties
  <2>2. seqs[1] \in Every BY <1>0, <1>1
  <2> QED BY <2>1, <2>2
<1>3. PICK f \in [0..n -> Every] : \A k \in 1..n : f[k] = J[k][f[k - 1]]
  <2>1. PICK e \in Every : e = << >> BY <1>0, EmptySeq
  <2> HIDE DEF J
  <2>2. PICK f : Stepwise(f, n, Every, e, J) BY <1>2, Recursion
  <2> QED BY <2>2 DEF Stepwise
<1>4. \A k \in 1..n : f[k] = IF k = 1 THEN seqs[1] ELSE f[k - 1] \o seqs[k]
  <2>1. \A k \in 1..n : f[k - 1] \in Every
    <3>1. \A k \in 1..n : k - 1 \in 0..n OBVIOUS
    <3> HIDE DEF J
    <3> QED BY <3>1, <1>3
  <2> QED BY <2>1, <1>3
<1> DEFINE Step(g) == [i \in 1..Len(seqs) |-> IF i = 1 THEN seqs[i] ELSE g[i - 1] \o seqs[i]]
<1>5. PICK e : e = Step(e)
  <2>1. PICK e : e = [i \in 1..n |-> f[i]] OBVIOUS
  <2>2. e = Step(e) BY <2>1, <1>4
  <2> QED BY <2>2
<1> DEFINE flatten == CHOOSE g : g = Step(g)
<1>6. flatten = Step(flatten) BY <1>5
<1>7. FlattenSeq(seqs) = flatten[n] BY DEF FlattenSeq
<1> HIDE DEF flatten
<1> DEFINE T == {k \in 0..n : k = 0 \/ (flatten[k] \in Seq(R) /\ Leads(F, h[0], flatten[k], h[k]))}
<1>8. 0 \in T OBVIOUS
<1>9. ASSUME NEW k \in 1..n, k - 1 \in T PROVE k \in T
  <2>1. CASE k = 1
    <3>1. flatten[1] = seqs[1] BY <1>6
    <3>2. Leads(F, h[1 - 1], seqs[1], h[1]) BY <2>1
    <3> QED BY <2>1, <3>1, <3>2, <1>1
  <2>2. CASE k # 1
    <3>1. flatten[k] = flatten[k - 1] \o seqs[k] BY <2>2, <1>6
    <3>2. flatten[k - 1] \in Seq(R) /\ Leads(F, h[0], flatten[k - 1], h[k - 1]) BY <2>2, <1>9
    <3>3. Leads(F, h[k - 1], seqs[k], h[k]) /\ seqs[k] \in Seq(R) BY <1>1
    <3>4. Leads(F, h[0], flatten[k], h[k]) BY <3>1, <3>2, <3>3, LeadsOn
    <3>5. flatten[k] \in Seq(R) BY <3>1, <3>2, <3>3, ConcatProperties
    <3> QED BY <3>4, <3>5
  <2> QED BY <2>1, <2>2
<1> HIDE DEF T
<1>10. n \in T
  <2>1. n \in 0..n OBVIOUS
  <2> QED BY <1>8, <1>9, <2>1, StepByStep
<1> QED BY <1>7, <1>10 DEF T

-----------------------------------------------------------------------------
(* A line is cut into words: its pieces lead from one state of the loop of    *)
(* parse(string) to the next.                                                *)
CutStates(R) == [args : Seq(Seq(R)), buf : Seq(R), in_quote : BOOLEAN, escaped : BOOLEAN]
(* Each piece keeps the type of the state. *)
LEMMA PieceCuts ==
    ASSUME NEW R, NEW s \in CutStates(R), NEW p \in R PROVE Piece(s, p) \in CutStates(R)
<1>0. s.args \in Seq(Seq(R)) /\ s.buf \in Seq(R) BY DEF CutStates
<1>1. PICK a \in Seq(R) : a = Append(s.buf, p) BY <1>0, AppendProperties
<1>2. PICK w \in Seq(Seq(R)) : w = Append(s.args, s.buf) BY <1>0, AppendProperties
<1>3. << >> \in Seq(R) BY EmptySeq
<1>4. Piece(s, p) \in {[s EXCEPT !.escaped = FALSE, !.buf = a], [s EXCEPT !.in_quote = ~@],
                       [s EXCEPT !.args = w, !.buf = << >>], [s EXCEPT !.escaped = TRUE],
                       [s EXCEPT !.buf = a]}
  BY <1>1, <1>2 DEF Piece, CutStates
<1> QED BY <1>3, <1>4 DEF CutStates

(* The loop of parse(string) goes along such a path. *)
CutSteps(R) == [s \in CutStates(R) |-> [p \in R |-> Piece(s, p)]]
(* Cut() is where its line leads to. *)
LEMMA CutLeads ==
    ASSUME NEW R, NEW line \in Seq(R)
    PROVE  Leads(CutSteps(R), Uncut, line, Cut(line)) /\ Cut(line) \in CutStates(R)
<1>1. PICK n \in Nat : n = Len(line) BY LenProperties
<1>2. PICK St, F : St = CutStates(R) /\ F = CutSteps(R) OBVIOUS
<1>3. \A s \in St, p \in R : Piece(s, p) \in St BY <1>2, PieceCuts
<1>4. F \in [St -> [R -> St]] /\ \A s \in St, p \in R : F[s][p] = Piece(s, p) BY <1>2, <1>3 DEF CutSteps
<1>5. Uncut \in St BY <1>2, EmptySeq DEF Uncut, CutStates
<1>6. PICK f : PathIn(F, f, Uncut, line, St) BY <1>4, <1>5, PathExists
<1>7. /\ f \in [0..n -> St] /\ f[0] = Uncut
      /\ \A k \in 1..n : f[k] = Piece(f[k - 1], line[k])
  <2>1. f \in [0..n -> St] /\ Path(F, f, Uncut, line) BY <1>1, <1>6 DEF PathIn
  <2>2. \A k \in 1..n : f[k - 1] \in St /\ line[k] \in R BY <2>1, <1>1, ElementOfSeq
  <2> QED BY <2>1, <2>2, <1>1, <1>4 DEF Path
<1> DEFINE Step(g) == [m \in 0..Len(line) |-> IF m = 0 THEN Uncut ELSE Piece(g[m - 1], line[m])]
<1> DEFINE after == CHOOSE g : g = Step(g)
<1>8. after = Step(after)
  <2>1. f = Step(f) BY <1>1, <1>7
  <2> QED BY <2>1
<1>9. Cut(line) = after[Len(line)] BY DEF Cut
<1> HIDE DEF after
<1> DEFINE T == {k \in 0..n : after[k] = f[k]}
<1>10. 0 \in T /\ \A k \in 1..n : k - 1 \in T => k \in T BY <1>1, <1>7, <1>8
<1> HIDE DEF T
<1>11. n \in T
  <2>1. n \in 0..n OBVIOUS
  <2> QED BY <1>10, <2>1, StepByStep
<1>12. Cut(line) = f[n] BY <1>1, <1>9, <1>11 DEF T
<1> QED BY <1>1, <1>2, <1>6, <1>7, <1>12 DEF Leads, PathIn

(* A line of pieces is cut into words of these pieces. *)
LEMMA CutTypes == ASSUME NEW R, NEW line \in Seq(R) PROVE Args(Cut(line)) \in Seq(Seq(R))
<1>1. Cut(line) \in CutStates(R) BY CutLeads
<1> QED BY <1>1, AppendProperties DEF Args, DropsEmptyLast, CutStates
(* parse() begins with whole words, or fails. *)
LEMMA ParseKeeps == ASSUME ParseInv, ParseWords \/ ParseLine PROVE ParseInv'
<1>1. CASE ParseWords
  <2>1. PICK n \in Nat : \E args \in [1..n -> Words] : \E argc \in {NoCheck, n} : Begin(args, argc)
    BY <1>1, CmdlineConstants DEF ParseWords
  <2>2. PICK args \in [1..n -> Words] : \E argc \in {NoCheck, n} : Begin(args, argc) BY <2>1
  <2>3. args \in Seq(Words) BY SeqDef
  <2> QED BY <2>2, <2>3, BeginKeeps
<1>2. CASE ParseLine
  <2>1. PICK line \in Lines, argc \in {NoCheck, 0} :
          \/ Begin(Args(Cut(line)), argc)
          \/ /\ c_errors' \in {Append(c_errors, "backslash"), Append(c_errors, "quote")}
             /\ c_result' = Outcome(FALSE)' /\ c_args' = << >> /\ c_options' = WithHelp(argc)
    BY <1>2 DEF ParseLine
  <2>2. CASE Begin(Args(Cut(line)), argc)
    <3>1. line \in Seq(Range(line)) BY CmdlineConstants
    <3>2. Args(Cut(line)) \in Seq(Seq(Range(line))) BY <3>1, CutTypes
    <3> QED BY <2>2, <3>2, BeginKeeps
  <2>3. CASE /\ c_errors' \in {Append(c_errors, "backslash"), Append(c_errors, "quote")}
             /\ c_result' = Outcome(FALSE)' /\ c_args' = << >> /\ c_options' = WithHelp(argc)
    <3>1. c_errors' \in Seq(Kinds)
      <4>1. c_errors \in Seq(Kinds) /\ "backslash" \in Kinds /\ "quote" \in Kinds
        BY DEF ParseInv, ParseTypes, Kinds
      <4> QED BY <2>3, <4>1, AppendProperties
    <3>2. c_args' \in Seq({}) BY <2>3, EmptySeq
    <3>3. IsOptions(c_options)'
      <4>1. IsOptions(c_options') BY <2>3, HelpKeeps
      <4> QED BY <4>1 DEF IsOptions, IsOption
    <3>4. ParseTypes' BY <3>1, <3>2, <3>3 DEF ParseTypes
    <3>5. Outcome(FALSE)' \in {"failed", "exit 0", "exit 1"} BY DEF Outcome
    <3> QED BY <2>3, <3>4, <3>5, Idle
  <2> QED BY <2>1, <2>2, <2>3
<1> QED BY <1>1, <1>2

(* Every turn of the loops reads one word further, or one letter. *)
LEMMA LoopKeeps ==
    ASSUME ParseInv, LongAssign \/ LongOption \/ ShortFlag \/ ShortLast \/ SingleDash \/ OtherWord
    PROVE  ParseInv'
<1>1. c_result = "parsing" /\ c_result' = "parsing"
  BY DEF LongAssign, LongOption, ShortFlag, ShortLast, SingleDash, OtherWord, AtForm, RestKept
<1>2. ParseTypes /\ Options /\ (\E S : c_others \in Seq(S)) BY <1>1 DEF ParseInv, Loop
<1>3. PICK said : Progress(said) BY <1>1 DEF ParseInv, Loop
<1>4. Options' /\ ParseTypes' /\ (\E S : c_others' \in Seq(S)) /\ \E new : Progress(new)'
  <2>1. CASE OtherWord BY <1>2, <1>3, <2>1, OtherWordStep
  <2>2. CASE ~OtherWord
    <3>1. c_others' = c_others BY <2>2 DEF LongAssign, LongOption, ShortFlag, ShortLast, SingleDash, RestKept
    <3>2. Options' /\ ParseTypes' /\ \E new : Progress(new)'
      BY <1>2, <1>3, <2>2, LongAssignStep, LongOptionStep, ShortFlagStep, ShortLastStep, SingleDashStep
    <3> QED BY <1>2, <3>1, <3>2
  <2> QED BY <2>1, <2>2
<1>5. Loop' BY <1>4 DEF Loop
<1> QED BY <1>1, <1>4, <1>5 DEF ParseInv, ParseMeaning

(* A parse means what its command line says: for any options, words and lines. *)
THEOREM ParseMeaningHolds == CmdlineSpec => []ParseMeaning
<1>1. CmdlineInit => ParseInv
  <2> SUFFICES ASSUME CmdlineInit PROVE ParseInv OBVIOUS
  <2>1. c_result = "idle" /\ c_options = << >> /\ c_errors = << >> /\ c_args = << >> BY DEF CmdlineInit
  <2>2. IsOptions(c_options)
    <3>1. DOMAIN c_options = {} BY <2>1
    <3> QED BY <3>1, FS_EmptySet DEF IsOptions
  <2>3. c_errors \in Seq(Kinds) /\ c_args \in Seq({}) BY <2>1, EmptySeq
  <2> QED BY <2>1, <2>2, <2>3 DEF ParseInv, ParseTypes, ParseMeaning
<1>2. ParseInv /\ [CmdlineNext]_c_vars => ParseInv'
  <2> SUFFICES ASSUME ParseInv, [CmdlineNext]_c_vars PROVE ParseInv' OBVIOUS
  <2>1. CASE UNCHANGED c_vars
    <3> USE <2>1 DEF c_vars, c_turn, c_whole
    <3>1. ParseTypes' BY DEF ParseInv, ParseTypes, IsOptions, IsOption
    <3>2. Loop' <=> Loop
      BY DEF Loop, Progress, Options, IsOptions, IsOption, Ambiguous, AtWord, word, Read, TakesValue, Named,
             Rest, Plain, Faults, Understood, Letters, Gives, ValueOf, Heard, Latest, Gave, Given
    <3>3. ParseMeaning' <=> ParseMeaning
      BY DEF ParseMeaning, Asked, Ambiguous, Speaking, TakesValue, Named, Plain, Understood, Letters, Gives, ValueOf
    <3> QED BY <3>1, <3>2, <3>3 DEF ParseInv
  <2>2. CASE \E n \in DOMAIN Declared : AddOption(n) \/ AddAgain(n) BY <2>2, AddKeeps
  <2>3. CASE ParseWords \/ ParseLine BY <2>3, ParseKeeps
  <2>4. CASE LongAssign \/ LongOption \/ ShortFlag \/ ShortLast \/ SingleDash \/ OtherWord
    BY <2>4, LoopKeeps
  <2>5. CASE EndParse BY <2>5, EndKeeps
  <2> QED BY <2>1, <2>2, <2>3, <2>4, <2>5 DEF CmdlineNext
<1>3. ParseInv => ParseMeaning BY DEF ParseInv
<1> QED BY <1>1, <1>2, <1>3, PTL DEF CmdlineSpec

-----------------------------------------------------------------------------
(* A quoted word, in a line. *)
(* The loop outside of quotes, and inside, with these words and this buffer. *)
Outside(a, b) == [args |-> a, buf |-> b, in_quote |-> FALSE, escaped |-> FALSE]
Inside(a, b)  == [args |-> a, buf |-> b, in_quote |-> TRUE, escaped |-> FALSE]

(* The steps of a quoted word, and of the blank behind it. *)
LEMMA QuotedSteps ==
    ASSUME NEW R, {Blank, Quote, Escape} \subseteq R, NEW a, NEW b, Outside(a, b) \in CutStates(R),
           NEW F, F = CutSteps(R)
    PROVE  /\ F[Outside(a, b)][Quote] = Inside(a, b)
           /\ F[Inside(a, b)][Quote] = Outside(a, b)
           /\ F[Outside(a, b)][Blank] = Outside(Append(a, b), << >>)
           /\ \A p \in R \ {Quote, Escape} : F[Inside(a, b)][p] = Inside(a, Append(b, p))
           /\ \A p \in R : F[F[Inside(a, b)][Escape]][p] = Inside(a, Append(b, p))
<1>1. \A s \in CutStates(R), p \in R : F[s][p] = Piece(s, p) BY DEF CutSteps
<1>2. PICK e : e = [args |-> a, buf |-> b, in_quote |-> TRUE, escaped |-> TRUE] OBVIOUS
<1>3. Inside(a, b) \in CutStates(R) /\ Outside(a, b) \in CutStates(R) /\ e \in CutStates(R)
  <2>1. a \in Seq(Seq(R)) /\ b \in Seq(R) BY DEF CutStates, Outside
  <2> QED BY <2>1, <1>2 DEF CutStates, Inside, Outside
<1>4. \A x, y : /\ Piece(Outside(x, y), Quote) = Inside(x, y)
               /\ Piece(Inside(x, y), Quote) = Outside(x, y)
  BY CmdlineConstants, ZenonT(40) DEF Piece, Outside, Inside
<1>8. Piece(Outside(a, b), Blank) = Outside(Append(a, b), << >>) BY CmdlineConstants DEF Piece, Outside
<1>5. \A p : p \notin {Quote, Escape} => Piece(Inside(a, b), p) = Inside(a, Append(b, p)) BY DEF Piece, Inside
<1>6. Piece(Inside(a, b), Escape) = e BY <1>2, CmdlineConstants DEF Piece, Inside
<1>7. \A p : Piece(e, p) = Inside(a, Append(b, p)) BY <1>2 DEF Piece, Inside
<1> QED BY <1>1, <1>3, <1>4, <1>5, <1>6, <1>7, <1>8

(* It is read into the buffer. *)
LEMMA QuotedRead ==
    ASSUME NEW R, {Blank, Quote, Escape} \subseteq R, NEW w \in Seq(R), NEW a,
           Outside(a, << >>) \in CutStates(R), NEW F, F = CutSteps(R)
    PROVE  Quoted(w) \in Seq(R) /\ Leads(F, Outside(a, << >>), Quoted(w), Outside(a, w))
<1>0. \A b \in Seq(R) : Outside(a, b) \in CutStates(R) BY DEF Outside, CutStates
<1> DEFINE Written(i) == IF w[i] \in {Quote, Escape} THEN <<Escape, w[i]>> ELSE <<w[i]>>
<1>1. PICK n \in Nat : n = Len(w) BY LenProperties
<1>2. PICK seqs : seqs = [i \in DOMAIN w |-> Written(i)] OBVIOUS
<1>3. /\ DOMAIN w = 1..n /\ \A i \in 1..n : w[i] \in R BY <1>1, LenProperties, ElementOfSeq
<1>4. \A i \in 1..n : Written(i) \in Seq(R)
  <2>1. \A x \in R : <<x>> \in Seq(R) /\ <<Escape, x>> \in Seq(R) OBVIOUS
  <2> QED BY <2>1, <1>3
<1>5. seqs \in Seq(Seq(R)) /\ Len(seqs) = n
  <2>1. seqs \in [1..n -> Seq(R)] BY <1>2, <1>3, <1>4
  <2> QED BY <2>1, SeqOfLen
<1>6. PICK h : h = [i \in 0..n |-> Inside(a, SubSeq(w, 1, i))] OBVIOUS
<1>7. ASSUME NEW i \in 1..n PROVE Leads(F, h[i - 1], seqs[i], h[i])
  <2>1. PICK b : b = SubSeq(w, 1, i - 1) OBVIOUS
  <2>0. b \in Seq(R)
    <3>1. \A k \in 1..(i - 1) : w[k] \in R BY <1>3
    <3> QED BY <2>1, <3>1, SubSeqProperties
  <2>2. SubSeq(w, 1, i) = Append(b, w[i]) BY <2>1, <1>1, <1>3
  <2>3. h[i - 1] = Inside(a, b) /\ h[i] = Inside(a, Append(b, w[i])) BY <2>1, <2>2, <1>6, SMTT(30)
  <2>4. CASE w[i] \in {Quote, Escape}
    <3>1. F[F[Inside(a, b)][Escape]][w[i]] = Inside(a, Append(b, w[i])) BY <2>0, <1>0, <1>3, QuotedSteps
    <3>2. Leads(F, Inside(a, b), <<Escape, w[i]>>, Inside(a, Append(b, w[i]))) BY <3>1, LeadsTwo
    <3> QED BY <2>3, <2>4, <3>2, <1>2, <1>3
  <2>5. CASE w[i] \notin {Quote, Escape}
    <3>1. F[Inside(a, b)][w[i]] = Inside(a, Append(b, w[i])) BY <2>0, <2>5, <1>0, <1>3, QuotedSteps
    <3> QED BY <2>3, <2>5, <3>1, <1>2, <1>3, LeadsOne
  <2> QED BY <2>4, <2>5
<1>8. PICK text : text = FlattenSeq(seqs) OBVIOUS
<1>9. text \in Seq(R) /\ Leads(F, Inside(a, << >>), text, Inside(a, w))
  <2>1. h[0] = Inside(a, << >>) /\ h[n] = Inside(a, w)
    <3>1. SubSeq(w, 1, 0) = << >> /\ SubSeq(w, 1, n) = w BY <1>1
    <3> QED BY <3>1, <1>6
  <2>2. CASE n = 0
    <3>1. text = << >> /\ w = << >> BY <2>2, <1>1, <1>5, <1>8, EmptySeq DEF FlattenSeq
    <3> QED BY <3>1, LeadsNowhere, EmptySeq
  <2>3. CASE n # 0 BY <2>1, <2>3, <1>5, <1>7, <1>8, LeadsThrough
  <2> QED BY <2>2, <2>3
<1>10. <<Quote>> \in Seq(R) /\ <<Quote>> \o text \in Seq(R) /\ Quoted(w) = (<<Quote>> \o text) \o <<Quote>>
  <2>1. <<Quote>> \in Seq(R) OBVIOUS
  <2> QED BY <2>1, <1>2, <1>8, <1>9, ConcatProperties DEF Quoted
<1>11. Leads(F, Outside(a, << >>), <<Quote>>, Inside(a, << >>))
  <2>1. F[Outside(a, << >>)][Quote] = Inside(a, << >>)
    BY QuotedSteps
  <2> QED BY <2>1, LeadsOne
<1>12. Leads(F, Inside(a, w), <<Quote>>, Outside(a, w))
  <2>1. F[Inside(a, w)][Quote] = Outside(a, w) BY <1>0, QuotedSteps
  <2> QED BY <2>1, LeadsOne
<1>13. Leads(F, Outside(a, << >>), <<Quote>> \o text, Inside(a, w)) BY <1>9, <1>10, <1>11, LeadsOn
<1>14. Quoted(w) \in Seq(R) BY <1>10, ConcatProperties
<1> QED BY <1>10, <1>12, <1>13, <1>14, LeadsOn

(* Quoted words with blanks between them are cut into these words, as long as *)
(* the last is not empty: for any words and any number of them.              *)
THEOREM QuotedIsCut ==
    ASSUME NEW R, NEW n \in Nat, n # 0, NEW ws \in [1..n -> Seq(R)], ws[n] # << >>
    PROVE  Args(Cut(FlattenSeq([i \in 1..n |-> IF i = 1 THEN Quoted(ws[i]) ELSE <<Blank>> \o Quoted(ws[i])]))) = ws
<1>1. PICK P : P = R \cup {Blank, Quote, Escape} OBVIOUS
<1>2. \A i \in 1..n : ws[i] \in Seq(P) BY <1>1, SeqMonotonic
<1>3. ws \in Seq(Seq(P)) /\ Len(ws) = n
  <2>1. ws \in [1..n -> Seq(P)] BY <1>2
  <2> QED BY <2>1, SeqOfLen
<1>4. {Blank, Quote, Escape} \subseteq P BY <1>1
<1>0. PICK F : F = CutSteps(P) OBVIOUS
<1> DEFINE a(i) == SubSeq(ws, 1, i - 1)
<1> DEFINE part(i) == IF i = 1 THEN Quoted(ws[i]) ELSE <<Blank>> \o Quoted(ws[i])
<1>5. PICK seqs : seqs = [i \in 1..n |-> part(i)] OBVIOUS
<1>6. PICK h : h = [i \in 0..n |-> IF i = 0 THEN Outside(<< >>, << >>) ELSE Outside(a(i), ws[i])] OBVIOUS
<1>7. ASSUME NEW i \in 1..n PROVE part(i) \in Seq(P) /\ Leads(F, h[i - 1], part(i), h[i])
  <2>1. h[i] = Outside(a(i), ws[i]) BY <1>6
  <2>0. \A k \in 1..n : a(k) \in Seq(Seq(P))
    <3> SUFFICES ASSUME NEW k \in 1..n PROVE SubSeq(ws, 1, k - 1) \in Seq(Seq(P)) OBVIOUS
    <3>1. \A m \in 1..(k - 1) : ws[m] \in Seq(P) BY <1>2
    <3>2. PICK TT : TT = Seq(P) OBVIOUS
    <3>3. \A m \in 1..(k - 1) : ws[m] \in TT BY <3>1, <3>2
    <3>4. SubSeq(ws, 1, k - 1) \in Seq(TT) BY <3>3, SubSeqProperties
    <3> QED BY <3>2, <3>4
  <2>9. Outside(a(i), << >>) \in CutStates(P) BY <2>0, EmptySeq DEF Outside, CutStates
  <2>2. Quoted(ws[i]) \in Seq(P) /\ Leads(F, Outside(a(i), << >>), Quoted(ws[i]), h[i])
    BY <2>9, <2>1, <1>0, <1>2, <1>4, QuotedRead
  <2>3. CASE i = 1
    <3>1. a(i) = << >> BY <2>3
    <3>2. h[i - 1] = Outside(a(i), << >>) BY <2>3, <3>1, <1>6
    <3> QED BY <2>2, <2>3, <3>2
  <2>4. CASE i # 1
    <3>1. h[i - 1] = Outside(a(i - 1), ws[i - 1]) BY <2>4, <1>6
    <3>2. a(i) = Append(a(i - 1), ws[i - 1]) BY <2>4, <1>3
    <3>3. F[h[i - 1]][Blank] = Outside(a(i), << >>)
      <4>1. i - 1 \in 1..n BY <2>4
      <4>2. a(i - 1) \in Seq(Seq(P)) /\ ws[i - 1] \in Seq(P) BY <4>1, <2>0, <1>2
      <4>3. Outside(a(i - 1), ws[i - 1]) \in CutStates(P) BY <4>2 DEF Outside, CutStates
      <4> HIDE DEF a
      <4> QED BY <4>3, <3>1, <3>2, <1>0, <1>4, QuotedSteps
    <3>4. Leads(F, h[i - 1], <<Blank>>, Outside(a(i), << >>)) BY <3>3, LeadsOne
    <3>5. <<Blank>> \in Seq(P) BY <1>4
    <3>6. Leads(F, h[i - 1], part(i), h[i]) BY <2>2, <2>4, <3>4, <3>5, LeadsOn
    <3>7. part(i) \in Seq(P) BY <2>2, <2>4, <3>5, ConcatProperties
    <3> QED BY <3>6, <3>7
  <2> QED BY <2>3, <2>4
<1> HIDE DEF part
<1>8. seqs \in Seq(Seq(P)) /\ Len(seqs) = n
  <2>1. seqs \in [1..n -> Seq(P)] BY <1>5, <1>7
  <2> QED BY <2>1, SeqOfLen
<1>9. PICK line : line = FlattenSeq(seqs) OBVIOUS
<1>10. line \in Seq(P) /\ Leads(F, h[0], line, h[n])
  <2>1. \A i \in 1..n : Leads(F, h[i - 1], seqs[i], h[i]) BY <1>5, <1>7
  <2> HIDE DEF a
  <2>2. PICK texts \in Seq(Seq(P)) : texts = seqs /\ n = Len(texts) BY <1>8
  <2>3. \A i \in 1..n : Leads(F, h[i - 1], texts[i], h[i]) BY <2>1, <2>2
  <2>4. n # 0 /\ n \in Nat OBVIOUS
  <2>5. FlattenSeq(texts) \in Seq(P) /\ Leads(F, h[0], FlattenSeq(texts), h[n])
    BY <2>2, <2>3, <2>4, LeadsThrough
  <2> QED BY <2>2, <2>5, <1>9
<1>11. h[0] = Uncut /\ h[n] = Outside(a(n), ws[n])
  <2> HIDE DEF a
  <2>1. 0 \in 0..n /\ n \in 0..n /\ n # 0 OBVIOUS
  <2>2. h[0] = Outside(<< >>, << >>) /\ h[n] = Outside(a(n), ws[n]) BY <2>1, <1>6
  <2>3. Uncut = Outside(<< >>, << >>) BY DEF Uncut, Outside
  <2> QED BY <2>2, <2>3
<1>12. Cut(line) = Outside(a(n), ws[n])
  <2>1. Leads(F, Uncut, line, Cut(line)) BY <1>0, <1>10, CutLeads
  <2> QED BY <2>1, <1>10, <1>11, LeadsOnce
<1>13. Args(Cut(line)) = Append(a(n), ws[n]) BY <1>12 DEF Args, DropsEmptyLast, Outside
<1>14. Append(a(n), ws[n]) = ws BY <1>3
<1> QED BY <1>5, <1>9, <1>13, <1>14 DEF part

(* A line in which every word is quoted, with its quotes and backslashes     *)
(* escaped, gives parse() these words again.                                 *)
THEOREM QuotedLineHolds == CmdlineSpec => []QuotedLine
<1>1. QuotedLine
  <2> SUFFICES ASSUME NEW n \in 1..3, NEW ws \in [1..n -> Words \cup {<< >>, <<Blank>>, <<Quote, Escape>>}], ws[n] # << >>
               PROVE  Args(Cut(FlattenSeq([i \in 1..n |-> IF i = 1 THEN Quoted(ws[i]) ELSE <<Blank>> \o Quoted(ws[i])]))) = ws
    BY DEF QuotedLine
  <2>0. PICK U : U = UNION {Range(w) : w \in Words} OBVIOUS
  <2>1. PICK R : R = U \cup {Blank, Quote, Escape} OBVIOUS
  <2>2. \A w \in Words : w \in Seq(R)
    <3>1. \A w \in Words : w \in Seq(Range(w)) /\ Range(w) \subseteq R BY <2>0, <2>1, CmdlineConstants
    <3> QED BY <3>1, SeqMonotonic
  <2>3. << >> \in Seq(R) /\ <<Blank>> \in Seq(R) /\ <<Quote, Escape>> \in Seq(R)
    <3>1. \A x, y \in R : <<x>> \in Seq(R) /\ <<x, y>> \in Seq(R) OBVIOUS
    <3>2. Blank \in R /\ Quote \in R /\ Escape \in R BY <2>1
    <3> QED BY <3>1, <3>2, EmptySeq
  <2>4. ws \in [1..n -> Seq(R)] BY <2>2, <2>3
  <2>5. n \in Nat /\ n # 0 OBVIOUS
  <2> QED BY <2>4, <2>5, QuotedIsCut
<1> QED BY <1>1, PTL

-----------------------------------------------------------------------------
(* NetUrl, for any texts and numbers: what is encoded gives the same url again if the url *)
(* is plain, and only then.                                                               *)
UrlSpec == UrlInit /\ [][UrlNext]_u_vars

(* All pieces; texts of pieces between the marks of the parameters; parameters. *)
Pieces == (UNION {Range(text) : text \in Urls \cup Texts}) \cup DOMAIN Numerals \cup Marks
Between == Seq(Pieces \ {"=", "&"})
ParamMaps == UNION {[D -> Between] : D \in {D \in SUBSET Between : IsFiniteSet(D)}}
IsUrl(url) ==
  /\ url = [protocol |-> url.protocol, host |-> url.host, port |-> url.port, params |-> url.params]
  /\ url.protocol \in Seq(Pieces \ {"://"}) /\ url.host \in Seq(Pieces \ {":", "://", "?"})
  /\ url.port \in PortNumbers /\ url.params \in ParamMaps

(* A map of parameters has finitely many keys. *)
LEMMA ParamMapIs ==
    ASSUME NEW m
    PROVE  m \in ParamMaps <=> /\ m \in [DOMAIN m -> Between] /\ DOMAIN m \subseteq Between
                               /\ IsFiniteSet(DOMAIN m)
  BY DEF ParamMaps

(* No parameters, and one more. *)
LEMMA ParamMapsGrow ==
    /\ << >> \in ParamMaps
    /\ \A m \in ParamMaps : \A k, v \in Between : Put(m, k, v) \in ParamMaps
<1>1. << >> \in ParamMaps
  <2>1. DOMAIN << >> = {} OBVIOUS
  <2>2. << >> \in [{} -> Between] OBVIOUS
  <2> QED BY <2>1, <2>2, FS_EmptySet, ParamMapIs
<1>2. ASSUME NEW m \in ParamMaps, NEW k \in Between, NEW v \in Between PROVE Put(m, k, v) \in ParamMaps
  <2>1. m \in [DOMAIN m -> Between] /\ DOMAIN m \subseteq Between /\ IsFiniteSet(DOMAIN m) BY ParamMapIs
  <2>2. PICK D : D = DOMAIN m \cup {k} OBVIOUS
  <2>3. IsFiniteSet(D) /\ D \subseteq Between BY <2>1, <2>2, FS_AddElement
  <2>4. Put(m, k, v) \in [D -> Between] /\ DOMAIN Put(m, k, v) = D BY <2>1, <2>2 DEF Put
  <2> QED BY <2>3, <2>4, ParamMapIs
<1> QED BY <1>1, <1>2

(* The states of the loop over the parameters, and its steps. *)
Reading(b, m, k, v) == [is_key |-> b, params |-> m, key |-> k, value |-> v]
TurnStates == [is_key : BOOLEAN, params : ParamMaps, key : Between, value : Between]
TurnSteps == [s \in TurnStates |-> [p \in Pieces |-> Turn(s, p)]]
(* A turn of the loop keeps the types of its state. *)
LEMMA TurnTypes == \A s \in TurnStates, p \in Pieces : Turn(s, p) \in TurnStates /\ TurnSteps[s][p] = Turn(s, p)
<1> SUFFICES ASSUME NEW s \in TurnStates, NEW p \in Pieces PROVE Turn(s, p) \in TurnStates
  BY DEF TurnSteps
<1>1. << >> \in Between BY EmptySeq DEF Between
<1>2. s.params \in ParamMaps /\ s.key \in Between /\ s.value \in Between /\ s.is_key \in BOOLEAN BY DEF TurnStates
<1>3. CASE p = "=" BY <1>3, <1>2 DEF Turn, TurnStates
<1>4. CASE p = "&"
  <2>1. PICK m \in ParamMaps : m = Put(s.params, s.key, s.value) BY <1>2, ParamMapsGrow
  <2>2. Turn(s, p) = [is_key |-> ~s.is_key, params |-> m, key |-> << >>, value |-> << >>] BY <1>4, <2>1 DEF Turn
  <2> QED BY <1>1, <1>2, <2>2 DEF TurnStates
<1>5. CASE p # "=" /\ p # "&"
  <2>1. PICK k \in Between : k = Append(s.key, p) BY <1>2, <1>5, AppendProperties DEF Between
  <2>2. PICK v \in Between : v = Append(s.value, p) BY <1>2, <1>5, AppendProperties DEF Between
  <2>3. Turn(s, p) = IF s.is_key THEN [s EXCEPT !.key = k] ELSE [s EXCEPT !.value = v]
    BY <1>5, <2>1, <2>2 DEF Turn
  <2> QED BY <2>3 DEF TurnStates
<1> QED BY <1>3, <1>4, <1>5

(* The loop goes along a path of these steps. *)
Done(s) == IF s.key = << >> THEN s.params ELSE Put(s.params, s.key, s.value)
ReadsParams(text, m, t) ==
  /\ t \in TurnStates /\ Leads(TurnSteps, Reading(TRUE, m, << >>, << >>), text, t)
  /\ Params(text, m) = Done(t)
(* What Params() returns is read off where the text leads to. *)
LEMMA ParamsLead ==
    ASSUME NEW text \in Seq(Pieces), NEW m \in ParamMaps PROVE \E t : ReadsParams(text, m, t)
<1>1. PICK n \in Nat : n = Len(text) BY LenProperties
<1>2. PICK F, St, start : F = TurnSteps /\ St = TurnStates /\ start = Reading(TRUE, m, << >>, << >>) OBVIOUS
<1>3. /\ F \in [St -> [Pieces -> St]]
      /\ \A s \in St, p \in Pieces : F[s][p] = Turn(s, p)
  BY <1>2, TurnTypes DEF TurnSteps
<1>4. start \in St BY <1>2, EmptySeq DEF Reading, TurnStates, Between
<1>5. PICK f : PathIn(F, f, start, text, St) BY <1>3, <1>4, PathExists
<1>6. /\ f \in [0..n -> St] /\ f[0] = start
      /\ \A k \in 1..n : f[k] = Turn(f[k - 1], text[k])
  <2>1. f \in [0..n -> St] /\ Path(F, f, start, text) BY <1>1, <1>5 DEF PathIn
  <2>2. \A k \in 1..n : f[k - 1] \in St /\ text[k] \in Pieces BY <2>1, <1>1, ElementOfSeq
  <2> QED BY <2>1, <2>2, <1>1, <1>3 DEF Path
<1> DEFINE Step(g) == [k \in 0..Len(text) |-> IF k = 0 THEN start ELSE Turn(g[k - 1], text[k])]
<1> DEFINE after == CHOOSE g : g = Step(g)
<1>7. after = Step(after)
  <2>1. f = Step(f) BY <1>1, <1>6
  <2> QED BY <2>1
<1>8. Params(text, m) = Done(after[Len(text)]) BY <1>2 DEF Params, Done, Reading
<1> HIDE DEF after
<1> DEFINE T == {k \in 0..n : after[k] = f[k]}
<1>9. 0 \in T /\ \A k \in 1..n : k - 1 \in T => k \in T BY <1>1, <1>6, <1>7
<1> HIDE DEF T
<1>10. n \in T
  <2>1. n \in 0..n OBVIOUS
  <2> QED BY <1>9, <2>1, StepByStep
<1>11. Params(text, m) = Done(f[n]) /\ f[n] \in TurnStates BY <1>1, <1>2, <1>6, <1>8, <1>10 DEF T
<1>12. Leads(F, start, text, f[n]) BY <1>1, <1>5 DEF Leads, PathIn
<1> QED BY <1>2, <1>11, <1>12 DEF ReadsParams

(* A key is read into the key, a value into the value. *)
LEMMA TextRead ==
    ASSUME NEW m \in ParamMaps, NEW k \in Between, NEW v \in Between
    PROVE  /\ Leads(TurnSteps, Reading(TRUE, m, << >>, << >>), k, Reading(TRUE, m, k, << >>))
           /\ Leads(TurnSteps, Reading(FALSE, m, k, << >>), v, Reading(FALSE, m, k, v))
<1>0. << >> \in Between BY EmptySeq DEF Between
<1>1. Leads(TurnSteps, Reading(TRUE, m, << >>, << >>), k, Reading(TRUE, m, k, << >>))
  <2>1. PICK n \in Nat : n = Len(k) BY LenProperties DEF Between
  <2>2. \A i \in 1..n : k[i] \in Pieces \ {"=", "&"} BY <2>1, ElementOfSeq DEF Between
  <2> DEFINE at(i) == Reading(TRUE, m, SubSeq(k, 1, i), << >>)
  <2>3. PICK h : h = [i \in 0..n |-> at(i)] OBVIOUS
  <2>6. \A i \in 1..n : h[i - 1] = at(i - 1) /\ h[i] = at(i)
    <3> HIDE DEF at
    <3> QED BY <2>3
  <2>4. h[0] = Reading(TRUE, m, << >>, << >>) /\ h[n] = Reading(TRUE, m, k, << >>)
    <3>1. SubSeq(k, 1, 0) = << >> /\ SubSeq(k, 1, n) = k BY <2>1 DEF Between
    <3> QED BY <2>3, <3>1
  <2>5. ASSUME NEW i \in 1..n PROVE h[i] = TurnSteps[h[i - 1]][k[i]]
    <3>1. PICK b : b = SubSeq(k, 1, i - 1) OBVIOUS
    <3>2. b \in Between
      <4>1. \A j \in 1..(i - 1) : k[j] \in Pieces \ {"=", "&"} BY <2>2
      <4> QED BY <3>1, <4>1, SubSeqProperties DEF Between
    <3>3. SubSeq(k, 1, i) = Append(b, k[i]) BY <2>1, <3>1 DEF Between
    <3>4. h[i - 1] = Reading(TRUE, m, b, << >>) /\ h[i] = Reading(TRUE, m, Append(b, k[i]), << >>)
      BY <2>6, <3>1, <3>3
    <3>5. Turn(Reading(TRUE, m, b, << >>), k[i]) = Reading(TRUE, m, Append(b, k[i]), << >>)
      BY <2>2 DEF Turn, Reading
    <3>6. Reading(TRUE, m, b, << >>) \in TurnStates BY <1>0, <3>2 DEF Reading, TurnStates
    <3> QED BY <2>2, <3>4, <3>5, <3>6, TurnTypes
  <2> QED BY <2>1, <2>4, <2>5 DEF Leads, Path
<1>2. Leads(TurnSteps, Reading(FALSE, m, k, << >>), v, Reading(FALSE, m, k, v))
  <2>1. PICK n \in Nat : n = Len(v) BY LenProperties DEF Between
  <2>2. \A i \in 1..n : v[i] \in Pieces \ {"=", "&"} BY <2>1, ElementOfSeq DEF Between
  <2> DEFINE at(i) == Reading(FALSE, m, k, SubSeq(v, 1, i))
  <2>3. PICK h : h = [i \in 0..n |-> at(i)] OBVIOUS
  <2>6. \A i \in 1..n : h[i - 1] = at(i - 1) /\ h[i] = at(i)
    <3> HIDE DEF at
    <3> QED BY <2>3
  <2>4. h[0] = Reading(FALSE, m, k, << >>) /\ h[n] = Reading(FALSE, m, k, v)
    <3>1. SubSeq(v, 1, 0) = << >> /\ SubSeq(v, 1, n) = v BY <2>1 DEF Between
    <3> QED BY <2>3, <3>1
  <2>5. ASSUME NEW i \in 1..n PROVE h[i] = TurnSteps[h[i - 1]][v[i]]
    <3>1. PICK b : b = SubSeq(v, 1, i - 1) OBVIOUS
    <3>2. b \in Between
      <4>1. \A j \in 1..(i - 1) : v[j] \in Pieces \ {"=", "&"} BY <2>2
      <4> QED BY <3>1, <4>1, SubSeqProperties DEF Between
    <3>3. SubSeq(v, 1, i) = Append(b, v[i]) BY <2>1, <3>1 DEF Between
    <3>4. h[i - 1] = Reading(FALSE, m, k, b) /\ h[i] = Reading(FALSE, m, k, Append(b, v[i]))
      BY <2>6, <3>1, <3>3
    <3>5. Turn(Reading(FALSE, m, k, b), v[i]) = Reading(FALSE, m, k, Append(b, v[i]))
      BY <2>2 DEF Turn, Reading
    <3>6. Reading(FALSE, m, k, b) \in TurnStates BY <3>2 DEF Reading, TurnStates
    <3> QED BY <2>2, <3>4, <3>5, <3>6, TurnTypes
  <2> QED BY <2>1, <2>4, <2>5 DEF Leads, Path
<1> QED BY <1>1, <1>2

(* A parameter as encode() writes it is put into the map. *)
LEMMA ParamRead ==
    ASSUME NEW m \in ParamMaps, NEW k \in Between, NEW v \in Between
    PROVE  /\ k \o <<"=">> \o v \o <<"&">> \in Seq(Pieces)
           /\ Leads(TurnSteps, Reading(TRUE, m, << >>, << >>), k \o <<"=">> \o v \o <<"&">>,
                               Reading(TRUE, Put(m, k, v), << >>, << >>))
<1>1. << >> \in Between /\ k \in Seq(Pieces) /\ v \in Seq(Pieces) BY EmptySeq, SeqMonotonic DEF Between
<1>2. "=" \in Pieces /\ "&" \in Pieces BY DEF Pieces, Marks
<1>3. <<"=">> \in Seq(Pieces) /\ <<"&">> \in Seq(Pieces) BY <1>2
<1>4. /\ k \o <<"=">> \in Seq(Pieces) /\ k \o <<"=">> \o v \in Seq(Pieces)
      /\ k \o <<"=">> \o v \o <<"&">> \in Seq(Pieces)
  BY <1>1, <1>3, ConcatProperties
<1>5. Leads(TurnSteps, Reading(TRUE, m, k, << >>), <<"=">>, Reading(FALSE, m, k, << >>))
  <2>1. Reading(TRUE, m, k, << >>) \in TurnStates BY <1>1 DEF Reading, TurnStates
  <2>2. Turn(Reading(TRUE, m, k, << >>), "=") = Reading(FALSE, m, k, << >>) BY DEF Turn, Reading
  <2>3. TurnSteps[Reading(TRUE, m, k, << >>)]["="] = Reading(FALSE, m, k, << >>) BY <2>1, <2>2, <1>2, TurnTypes
  <2> QED BY <2>3, LeadsOne
<1>6. Leads(TurnSteps, Reading(FALSE, m, k, v), <<"&">>, Reading(TRUE, Put(m, k, v), << >>, << >>))
  <2>1. Reading(FALSE, m, k, v) \in TurnStates BY DEF Reading, TurnStates
  <2>2. Turn(Reading(FALSE, m, k, v), "&") = Reading(TRUE, Put(m, k, v), << >>, << >>) BY DEF Turn, Reading
  <2>3. TurnSteps[Reading(FALSE, m, k, v)]["&"] = Reading(TRUE, Put(m, k, v), << >>, << >>)
    BY <2>1, <2>2, <1>2, TurnTypes
  <2> QED BY <2>3, LeadsOne
<1>7. Leads(TurnSteps, Reading(TRUE, m, << >>, << >>), k \o <<"=">>, Reading(FALSE, m, k, << >>))
  BY <1>1, <1>3, <1>5, TextRead, LeadsOn
<1>8. Leads(TurnSteps, Reading(TRUE, m, << >>, << >>), k \o <<"=">> \o v, Reading(FALSE, m, k, v))
  BY <1>1, <1>4, <1>7, TextRead, LeadsOn
<1> QED BY <1>3, <1>4, <1>6, <1>8, LeadsOn

(* The parameters as encode() writes them, in any order, are read again. *)
Written(m, keys) == FlattenSeq([i \in DOMAIN keys |-> keys[i] \o <<"=">> \o m[keys[i]] \o <<"&">>])
(* No matter which keys come first, and how many there are. *)
LEMMA ParamsRead ==
    ASSUME NEW m \in ParamMaps, NEW n \in Nat, NEW keys \in [1..n -> DOMAIN m],
           \A k \in DOMAIN m : \E i \in 1..n : keys[i] = k
    PROVE  Written(m, keys) \in Seq(Pieces) /\ Params(Written(m, keys), << >>) = m
<1>1. m \in [DOMAIN m -> Between] /\ DOMAIN m \subseteq Between BY ParamMapIs
<1>2. \A i \in 1..n : keys[i] \in Between /\ m[keys[i]] \in Between BY <1>1
<1> DEFINE part(i) == keys[i] \o <<"=">> \o m[keys[i]] \o <<"&">>
<1> DEFINE some(i) == [k \in {keys[j] : j \in 1..i} |-> m[k]]
<1>3. PICK seqs : seqs = [i \in 1..n |-> part(i)] OBVIOUS
<1> DEFINE at(i) == Reading(TRUE, some(i), << >>, << >>)
<1>4. PICK h : h = [i \in 0..n |-> at(i)] OBVIOUS
<1>0. h[0] = at(0) /\ h[n] = at(n) /\ \A i \in 1..n : h[i - 1] = at(i - 1) /\ h[i] = at(i)
  <2> HIDE DEF at
  <2> QED BY <1>4
<1>5. some(0) = << >> /\ some(n) = m
  <2>1. {keys[j] : j \in 1..0} = {} OBVIOUS
  <2>2. {keys[j] : j \in 1..n} = DOMAIN m OBVIOUS
  <2> QED BY <1>1, <2>1, <2>2
<1>6. \A i \in 1..n : some(i) = Put(some(i - 1), keys[i], m[keys[i]])
  <2> SUFFICES ASSUME NEW i \in 1..n PROVE some(i) = Put(some(i - 1), keys[i], m[keys[i]]) OBVIOUS
  <2>1. {keys[j] : j \in 1..i} = {keys[j] : j \in 1..(i - 1)} \cup {keys[i]}
    <3>1. 1..i = (1..(i - 1)) \cup {i} OBVIOUS
    <3> QED BY <3>1
  <2> QED BY <2>1 DEF Put
<1>7. \A i \in 0..n : some(i) \in ParamMaps
  <2> DEFINE T == {i \in 0..n : some(i) \in ParamMaps}
  <2>1. 0 \in T
    <3>1. 0 \in 0..n /\ << >> \in ParamMaps BY ParamMapsGrow
    <3> HIDE DEF some
    <3> QED BY <3>1, <1>5
  <2>2. ASSUME NEW i \in 1..n, i - 1 \in T PROVE i \in T
    <3>1. some(i - 1) \in ParamMaps BY <2>2
    <3> HIDE DEF some
    <3> QED BY <3>1, <1>2, <1>6, ParamMapsGrow
  <2> HIDE DEF T
  <2>3. \A i \in 0..n : i \in T BY <2>1, <2>2, StepByStep
  <2> QED BY <2>3 DEF T
<1> HIDE DEF some
<1>8. ASSUME NEW i \in 1..n PROVE part(i) \in Seq(Pieces) /\ Leads(TurnSteps, h[i - 1], part(i), h[i])
  <2>1. i - 1 \in 0..n /\ some(i - 1) \in ParamMaps BY <1>7
  <2>2. h[i - 1] = Reading(TRUE, some(i - 1), << >>, << >>)
        /\ h[i] = Reading(TRUE, Put(some(i - 1), keys[i], m[keys[i]]), << >>, << >>)
    BY <1>6, <1>0
  <2> QED BY <2>1, <2>2, <1>2, ParamRead
<1> HIDE DEF part
<1>9. seqs \in Seq(Seq(Pieces)) /\ Len(seqs) = n
  <2>1. seqs \in [1..n -> Seq(Pieces)] BY <1>3, <1>8
  <2> QED BY <2>1, SeqOfLen
<1>10. PICK text : text = FlattenSeq(seqs) OBVIOUS
<1>11. text \in Seq(Pieces) /\ Leads(TurnSteps, h[0], text, h[n])
  <2>1. CASE n = 0
    <3>1. text = << >> BY <2>1, <1>9, <1>10, EmptySeq DEF FlattenSeq
    <3> QED BY <2>1, <3>1, LeadsNowhere, EmptySeq
  <2>2. CASE n # 0
    <3>1. \A i \in 1..n : Leads(TurnSteps, h[i - 1], seqs[i], h[i]) BY <1>3, <1>8
    <3> QED BY <2>2, <3>1, <1>9, <1>10, LeadsThrough
  <2> QED BY <2>1, <2>2
<1>12. h[0] = Reading(TRUE, << >>, << >>, << >>) /\ h[n] = Reading(TRUE, m, << >>, << >>) BY <1>5, <1>0
<1>13. PICK t : ReadsParams(text, << >>, t) BY <1>11, ParamMapsGrow, ParamsLead
<1>14. t = Reading(TRUE, m, << >>, << >>)
  <2>1. PICK s, u : s = h[0] /\ u = h[n] OBVIOUS
  <2>2. Leads(TurnSteps, s, text, t) BY <2>1, <1>12, <1>13 DEF ReadsParams
  <2>3. t = u BY <2>1, <2>2, <1>11, LeadsOnce
  <2> QED BY <2>1, <2>3, <1>12
<1>15. Params(text, << >>) = m BY <1>13, <1>14 DEF ReadsParams, Done, Reading
<1>16. Written(m, keys) = text BY <1>3, <1>10 DEF Written, part
<1> QED BY <1>11, <1>15, <1>16

(* The first place of one of the marks from a place on. *)
FirstAt(f, text, marks, from, n) ==
  \/ f = 0 /\ \A i \in from..n : text[i] \notin marks
  \/ f \in from..n /\ text[f] \in marks /\ \A i \in from..(f - 1) : text[i] \notin marks
(* Find() returns this place. *)
LEMMA FindIs ==
    ASSUME NEW text, NEW marks, NEW n \in Nat, n = Len(text), NEW from \in Nat
    PROVE  FirstAt(Find(text, marks, from), text, marks, from, n)
<1>1. PICK at : at = {i \in from..n : text[i] \in marks} OBVIOUS
<1>2. Find(text, marks, from) = IF at = {} THEN 0 ELSE CHOOSE i \in at : \A j \in at : i <= j BY <1>1 DEF Find
<1>3. CASE at = {} BY <1>1, <1>2, <1>3 DEF FirstAt
<1>4. CASE at # {}
  <2>1. \E i \in at : \A j \in at : i <= j 
    <3>1. at \subseteq Nat BY <1>1
    <3> QED BY <3>1, <1>4, LeastNumber
  <2>2. PICK f : f = CHOOSE i \in at : \A j \in at : i <= j OBVIOUS
  <2>3. f \in at /\ \A j \in at : f <= j BY <2>1, <2>2
  <2>4. f \in from..n /\ text[f] \in marks BY <2>3, <1>1
  <2>5. \A i \in from..(f - 1) : i \in from..n /\ ~(f <= i) BY <2>4
  <2>6. \A i \in from..(f - 1) : text[i] \notin marks BY <2>3, <2>5, <1>1
  <2> QED BY <1>2, <1>4, <2>2, <2>4, <2>6 DEF FirstAt
<1> QED BY <1>3, <1>4

(* Where it is, if it is not before. *)
LEMMA FindHere ==
    ASSUME NEW text, NEW marks, NEW n \in Nat, n = Len(text), NEW from \in Nat, from # 0,
           NEW k \in from..n, text[k] \in marks, \A i \in from..(k - 1) : text[i] \notin marks
    PROVE  Find(text, marks, from) = k
<1>1. PICK f : f = Find(text, marks, from) OBVIOUS
<1>2. FirstAt(f, text, marks, from, n) BY <1>1, FindIs
<1>3. f \in from..n /\ text[f] \in marks /\ \A i \in from..(f - 1) : text[i] \notin marks BY <1>2 DEF FirstAt
<1>4. ~(f < k) /\ ~(k < f) BY <1>3
<1> QED BY <1>1, <1>3, <1>4

(* The digits of a port are those of this port. *)
LEMMA DigitsOf ==
    ASSUME NEW n \in PortNumbers, n > 0
    PROVE  Digits(n) \in DOMAIN Numerals /\ Numerals[Digits(n)] = n /\ n % 65536 = n
<1>1. n # 0 /\ \E t \in DOMAIN Numerals : n = Numerals[t] % 65536 BY DEF PortNumbers
<1>2. PICK t \in DOMAIN Numerals : n = Numerals[t] % 65536 BY <1>1
<1>3. \E d \in DOMAIN Numerals : Numerals[d] = n BY <1>1, <1>2, UrlConstants
<1>4. n % 65536 = n
  <2>1. PICK z \in Int : z = Numerals[t] BY <1>2, UrlConstants
  <2>2. z % 65536 >= 0 /\ z % 65536 < 65536 OBVIOUS
  <2>3. PICK m \in Int : m = n /\ m >= 0 /\ m < 65536 BY <2>1, <2>2, <1>2
  <2>4. m % 65536 = m BY <2>3, SMTT(30)
  <2> QED BY <2>3, <2>4
<1> QED BY <1>3, <1>4 DEF Digits

(* One sequence behind another. *)
Behind(line, l, m, i, j) == /\ Len(line) = i + j
                            /\ \A k \in 1..i : line[k] = l[k]
                            /\ \A k \in 1..j : line[i + k] = m[k]
(* That is what concatenation gives. *)
LEMMA ConcatIs ==
    ASSUME NEW R, NEW l \in Seq(R), NEW m \in Seq(R),
           NEW i \in Nat, i = Len(l), NEW j \in Nat, j = Len(m)
    PROVE  l \o m \in Seq(R) /\ Behind(l \o m, l, m, i, j)
<1>1. PICK line : line = l \o m OBVIOUS
<1>2. /\ line \in Seq(R) /\ Len(line) = i + j
      /\ \A k \in 1..(i + j) : line[k] = IF k <= i THEN l[k] ELSE m[k - i]
  BY <1>1, ConcatProperties
<1>3. \A k \in 1..i : line[k] = l[k] BY <1>2
<1>4. \A k \in 1..j : line[i + k] = m[k]
  <2> SUFFICES ASSUME NEW k \in 1..j PROVE line[i + k] = m[k] OBVIOUS
  <2>1. PICK n \in 1..(i + j) : n = i + k OBVIOUS
  <2>2. ~(n <= i) /\ n - i = k BY <2>1
  <2> QED BY <2>1, <2>2, <1>2
<1> QED BY <1>1, <1>2, <1>3, <1>4 DEF Behind

(* Six sequences in a row. *)
InARow(text, R, A, S, H, P, Q, D, a, s, h, p, q, d) ==
  /\ text = A \o S \o H \o P \o Q \o D
  /\ A \in Seq(R) /\ S \in Seq(R) /\ H \in Seq(R) /\ P \in Seq(R) /\ Q \in Seq(R) /\ D \in Seq(R)
  /\ a = Len(A) /\ s = Len(S) /\ h = Len(H) /\ p = Len(P) /\ q = Len(Q) /\ d = Len(D)
Row(text, A, S, H, P, Q, D, a, s, h, p, q, d) ==
  /\ Len(text) = a + s + h + p + q + d
  /\ \A i \in 1..a : text[i] = A[i]
  /\ \A i \in 1..s : text[a + i] = S[i]
  /\ \A i \in 1..h : text[a + s + i] = H[i]
  /\ \A i \in 1..p : text[a + s + h + i] = P[i]
  /\ \A i \in 1..q : text[a + s + h + p + i] = Q[i]
  /\ \A i \in 1..d : text[a + s + h + p + q + i] = D[i]
(* Six sequences behind each other, place by place. *)
LEMMA RowIs ==
    ASSUME NEW R, NEW text, NEW A, NEW S, NEW H, NEW P, NEW Q, NEW D, NEW a \in Nat, NEW s \in Nat,
           NEW h \in Nat, NEW p \in Nat, NEW q \in Nat, NEW d \in Nat,
           InARow(text, R, A, S, H, P, Q, D, a, s, h, p, q, d)
    PROVE  text \in Seq(R) /\ Row(text, A, S, H, P, Q, D, a, s, h, p, q, d)
<1>0. /\ A \in Seq(R) /\ S \in Seq(R) /\ H \in Seq(R) /\ P \in Seq(R) /\ Q \in Seq(R) /\ D \in Seq(R)
      /\ a = Len(A) /\ s = Len(S) /\ h = Len(H) /\ p = Len(P) /\ q = Len(Q) /\ d = Len(D)
  BY DEF InARow
<1>1. PICK x : x = A \o S OBVIOUS
<1>2. x \in Seq(R) /\ Behind(x, A, S, a, s) BY <1>0, <1>1, ConcatIs
<1>3. PICK y : y = x \o H OBVIOUS
<1>4. PICK i \in Nat : i = a + s /\ i = Len(x) BY <1>2 DEF Behind
<1>5. y \in Seq(R) /\ Behind(y, x, H, i, h) BY <1>0, <1>2, <1>3, <1>4, ConcatIs
<1>6. PICK z : z = y \o P OBVIOUS
<1>7. PICK j \in Nat : j = i + h /\ j = Len(y) BY <1>5 DEF Behind
<1>8. z \in Seq(R) /\ Behind(z, y, P, j, p) BY <1>0, <1>5, <1>6, <1>7, ConcatIs
<1>9. PICK w : w = z \o Q OBVIOUS
<1>10. PICK k \in Nat : k = j + p /\ k = Len(z) BY <1>8 DEF Behind
<1>11. w \in Seq(R) /\ Behind(w, z, Q, k, q) BY <1>0, <1>8, <1>9, <1>10, ConcatIs
<1>12. text = w \o D BY <1>1, <1>3, <1>6, <1>9 DEF InARow
<1>13. PICK m \in Nat : m = k + q /\ m = Len(w) BY <1>11 DEF Behind
<1>14. text \in Seq(R) /\ Behind(text, w, D, m, d) BY <1>0, <1>11, <1>12, <1>13, ConcatIs
<1>15. \A n \in 1..m : text[n] = w[n] BY <1>14 DEF Behind
<1>16. \A n \in 1..k : text[n] = z[n] BY <1>11, <1>13, <1>15 DEF Behind
<1>17. \A n \in 1..j : text[n] = y[n] BY <1>8, <1>10, <1>16 DEF Behind
<1>18. \A n \in 1..i : text[n] = x[n] BY <1>5, <1>7, <1>17 DEF Behind
<1>19. Len(text) = a + s + h + p + q + d BY <1>4, <1>7, <1>10, <1>13, <1>14 DEF Behind
<1>20. \A n \in 1..a : text[n] = A[n] BY <1>2, <1>4, <1>18 DEF Behind
<1>21. \A n \in 1..s : text[a + n] = S[n]
  <2>1. \A n \in 1..s : a + n \in 1..i BY <1>4
  <2> QED BY <2>1, <1>2, <1>18 DEF Behind
<1>22. \A n \in 1..h : text[i + n] = H[n]
  <2>1. \A n \in 1..h : i + n \in 1..j BY <1>7
  <2> QED BY <2>1, <1>5, <1>17 DEF Behind
<1>23. \A n \in 1..p : text[j + n] = P[n]
  <2>1. \A n \in 1..p : j + n \in 1..k BY <1>10
  <2> QED BY <2>1, <1>8, <1>16 DEF Behind
<1>24. \A n \in 1..q : text[k + n] = Q[n]
  <2>1. \A n \in 1..q : k + n \in 1..m BY <1>13
  <2> QED BY <2>1, <1>11, <1>15 DEF Behind
<1>25. \A n \in 1..d : text[m + n] = D[n] BY <1>14 DEF Behind
<1>26. i = a + s /\ j = a + s + h /\ k = a + s + h + p /\ m = a + s + h + p + q BY <1>4, <1>7, <1>10, <1>13
<1>28. Row(text, A, S, H, P, Q, D, a, s, h, p, q, d)
  BY <1>19, <1>20, <1>21, <1>22, <1>23, <1>24, <1>25, <1>26 DEF Row
<1> QED BY <1>14, <1>28

(* What encode() writes, for any url. *)
Encoded(text, url, m, a, h, p, q, d) ==
  /\ Len(text) = a + 1 + h + p + q + d
  /\ \A i \in 1..a : text[i] = url.protocol[i]
  /\ text[a + 1] = "://"
  /\ \A i \in 1..h : text[a + 1 + i] = url.host[i]
  /\ p = 2 => text[a + h + 2] = ":" /\ text[a + h + 3] = Digits(url.port)
  /\ q = 1 => text[a + h + p + 2] = "?"
  /\ \A i \in 1..d : text[a + 1 + h + p + q + i] = m[i]
(* The text that encode() returns, part by part. *)
LEMMA EncodeIs ==
    ASSUME NEW url, IsUrl(url), NEW keys, Written(url.params, keys) \in Seq(Pieces)
    PROVE  \E a, h, d, p, q \in Nat :
             /\ p \in {0, 2} /\ q \in {0, 1}
             /\ a = Len(url.protocol) /\ h = Len(url.host) /\ d = Len(Written(url.params, keys))
             /\ (p = 2 <=> url.port > 0) /\ (q = 0 <=> keys = << >>)
             /\ Encode(url, keys) \in Seq(Pieces)
             /\ Encoded(Encode(url, keys), url, Written(url.params, keys), a, h, p, q, d)
<1>1. PICK A, H, D : A = url.protocol /\ H = url.host /\ D = Written(url.params, keys) OBVIOUS
<1>2. A \in Seq(Pieces) /\ H \in Seq(Pieces) /\ D \in Seq(Pieces)
  <2>1. A \in Seq(Pieces \ {"://"}) /\ H \in Seq(Pieces \ {":", "://", "?"}) BY <1>1 DEF IsUrl
  <2> QED BY <2>1, <1>1, SeqMonotonic
<1>3. \A m \in Marks : <<m>> \in Seq(Pieces) /\ Len(<<m>>) = 1 /\ <<m>>[1] = m
  <2>1. \A m \in Marks : m \in Pieces BY DEF Pieces
  <2> QED BY <2>1
<1>4. PICK S, P, Q : /\ S = <<"://">> /\ P = (IF url.port > 0 THEN <<":", Digits(url.port)>> ELSE << >>)
                     /\ Q = IF keys = << >> THEN << >> ELSE <<"?">>
  OBVIOUS
<1>5. S \in Seq(Pieces) /\ Len(S) = 1 /\ S[1] = "://" BY <1>3, <1>4 DEF Marks
<1>6. PICK p \in Nat : /\ p \in {0, 2} /\ P \in Seq(Pieces) /\ Len(P) = p /\ (p = 2 <=> url.port > 0)
                       /\ p = 2 => P[1] = ":" /\ P[2] = Digits(url.port)
  <2>1. CASE url.port > 0
    <3>1. Digits(url.port) \in Pieces /\ ":" \in Pieces BY <2>1, DigitsOf DEF IsUrl, Pieces, Marks
    <3>2. PICK x \in Pieces, y \in Pieces : x = ":" /\ y = Digits(url.port) BY <3>1
    <3>3. P = <<x, y>> BY <2>1, <3>2, <1>4
    <3> QED BY <2>1, <3>2, <3>3
  <2>2. CASE ~(url.port > 0) BY <2>2, <1>4, EmptySeq
  <2> QED BY <2>1, <2>2
<1>7. PICK q \in Nat : /\ q \in {0, 1} /\ Q \in Seq(Pieces) /\ Len(Q) = q /\ (q = 0 <=> keys = << >>)
                       /\ q = 1 => Q[1] = "?"
  BY <1>3, <1>4, EmptySeq DEF Marks
<1>8. PICK a \in Nat, h \in Nat, d \in Nat : a = Len(A) /\ h = Len(H) /\ d = Len(D) BY <1>2, LenProperties
<1>9. PICK text : text = A \o S \o H \o P \o Q \o D OBVIOUS
<1>10. text \in Seq(Pieces) /\ Row(text, A, S, H, P, Q, D, a, 1, h, p, q, d)
  <2>1. PICK s \in Nat : s = 1 OBVIOUS
  <2>2. InARow(text, Pieces, A, S, H, P, Q, D, a, s, h, p, q, d)
    BY <2>1, <1>2, <1>5, <1>6, <1>7, <1>8, <1>9 DEF InARow
  <2> QED BY <2>1, <2>2, RowIs
<1>11. Encode(url, keys) = text BY <1>1, <1>4, <1>9 DEF Encode, Written
<1>12. Encoded(text, url, D, a, h, p, q, d)
  <2>1. text[a + 1] = "://"
    <3>1. \A i \in 1..1 : text[a + i] = S[i] BY <1>10 DEF Row
    <3> QED BY <3>1, <1>5
  <2>2. p = 2 => text[a + h + 2] = ":" /\ text[a + h + 3] = Digits(url.port)
    <3> SUFFICES ASSUME p = 2 PROVE text[a + h + 2] = P[1] /\ text[a + h + 3] = P[2] BY <1>6
    <3>1. \A i \in 1..2 : text[a + 1 + h + i] = P[i] BY <1>10 DEF Row
    <3>2. a + 1 + h + 1 = a + h + 2 /\ a + 1 + h + 2 = a + h + 3 OBVIOUS
    <3>3. 1 \in 1..2 /\ 2 \in 1..2 OBVIOUS
    <3> QED BY <3>1, <3>2, <3>3
  <2>3. q = 1 => text[a + h + p + 2] = "?"
    <3> SUFFICES ASSUME q = 1 PROVE text[a + h + p + 2] = Q[1] BY <1>7
    <3>1. \A i \in 1..1 : text[a + 1 + h + p + i] = Q[i] BY <1>10 DEF Row
    <3>2. a + 1 + h + p + 1 = a + h + p + 2 /\ 1 \in 1..1 OBVIOUS
    <3> QED BY <3>1, <3>2
  <2>4. /\ Len(text) = a + 1 + h + p + q + d
        /\ \A i \in 1..a : text[i] = A[i]
        /\ \A i \in 1..h : text[a + 1 + i] = H[i]
        /\ \A i \in 1..d : text[a + 1 + h + p + q + i] = D[i]
    BY <1>10 DEF Row
  <2> QED BY <1>1, <2>1, <2>2, <2>3, <2>4 DEF Encoded
<1> QED BY <1>1, <1>6, <1>7, <1>8, <1>10, <1>11, <1>12

(* Setting the fields of a url. *)
Url(w, x, y, z) == [protocol |-> w, host |-> x, port |-> y, params |-> z]
UrlFields == {"protocol", "host", "port", "params"}
Changed(r, f, b) == [k \in UrlFields |-> IF k = f THEN b ELSE r[k]]

(* Changing a field leaves the others. *)
LEMMA UrlChanged ==
    ASSUME NEW w, NEW x, NEW y, NEW z, NEW r, r = Url(w, x, y, z), NEW b
    PROVE  /\ Changed(r, "protocol", b) = Url(b, x, y, z)
           /\ Changed(r, "host", b) = Url(w, b, y, z)
           /\ Changed(r, "port", b) = Url(w, x, b, z)
           /\ Changed(r, "params", b) = Url(w, x, y, b)
<1>1. PICK u : u = Changed(r, "protocol", b) OBVIOUS
<1>2. u = Url(b, x, y, z) BY <1>1 DEF Changed, Url, UrlFields
<1>3. PICK v : v = Changed(r, "host", b) OBVIOUS
<1>4. v = Url(w, b, y, z) BY <1>3 DEF Changed, Url, UrlFields
<1>5. PICK s : s = Changed(r, "port", b) OBVIOUS
<1>6. s = Url(w, x, b, z) BY <1>5 DEF Changed, Url, UrlFields
<1>7. PICK t : t = Changed(r, "params", b) OBVIOUS
<1>8. t = Url(w, x, y, b) BY <1>7 DEF Changed, Url, UrlFields
<1> QED BY <1>1, <1>2, <1>3, <1>4, <1>5, <1>6, <1>7, <1>8

(* Two fields set in one step. *)
SetsTwo(r, w, x, y, z, b, c) ==
  /\ [r EXCEPT !.protocol = b, !.host = c] = Url(b, c, y, z)
  /\ [r EXCEPT !.port = b, !.params = c] = Url(w, x, b, c)
(* So does changing two. *)
LEMMA UrlSets ==
    ASSUME NEW w, NEW x, NEW y, NEW z, NEW r, r = Url(w, x, y, z), NEW b, NEW c
    PROVE  SetsTwo(r, w, x, y, z, b, c)
<1>1. PICK u : u = [r EXCEPT !.protocol = b] OBVIOUS
<1>2. u = Changed(r, "protocol", b) BY <1>1 DEF Changed, Url, UrlFields
<1>3. u = Url(b, x, y, z) BY <1>2, UrlChanged
<1>4. PICK v : v = [u EXCEPT !.host = c] OBVIOUS
<1>5. v = Changed(u, "host", c) BY <1>3, <1>4 DEF Changed, Url, UrlFields
<1>6. v = Url(b, c, y, z) BY <1>3, <1>5, UrlChanged
<1>7. [r EXCEPT !.protocol = b, !.host = c] = [[r EXCEPT !.protocol = b] EXCEPT !.host = c] OBVIOUS
<1>8. [r EXCEPT !.protocol = b, !.host = c] = v BY <1>1, <1>4, <1>7, Zenon
<1>9. PICK s : s = [r EXCEPT !.port = b] OBVIOUS
<1>10. s = Changed(r, "port", b) BY <1>9 DEF Changed, Url, UrlFields
<1>11. s = Url(w, x, b, z) BY <1>10, UrlChanged
<1>12. PICK t : t = [s EXCEPT !.params = c] OBVIOUS
<1>13. t = Changed(s, "params", c) BY <1>11, <1>12 DEF Changed, Url, UrlFields
<1>14. t = Url(w, x, b, c) BY <1>11, <1>13, UrlChanged
<1>15. [r EXCEPT !.port = b, !.params = c] = [[r EXCEPT !.port = b] EXCEPT !.params = c] OBVIOUS
<1>16. [r EXCEPT !.port = b, !.params = c] = t BY <1>9, <1>12, <1>15, Zenon
<1> QED BY <1>6, <1>8, <1>14, <1>16 DEF SetsTwo

(* How parse() takes a text apart. *)
Parts(text, sep, ask, info, colon, port) ==
  /\ sep = Find(text, {"://"}, 1) /\ ask = OrEnd(Find(text, {"?"}, sep + 1), text)
  /\ info = SubSeq(text, sep + 1, ask - 1) /\ colon = Find(info, {":", "://"}, 1)
  /\ port = PortText(info, colon)
Parsed(text, sep, ask, info, colon, number, params) ==
  [protocol |-> SubSeq(text, 1, sep - 1), host |-> SubSeq(info, 1, OrEnd(colon, info) - 1),
   port |-> number, params |-> params]
(* Parse() with its parts named. *)
LEMMA ParseIs ==
    ASSUME NEW url, NEW text, NEW sep, NEW ask, NEW info, NEW colon, NEW port,
           Parts(text, sep, ask, info, colon, port)
    PROVE  Parse(url, text) =
             IF sep = 0 THEN [url |-> Cleared, result |-> "false"]
             ELSE IF port # << >> /\ StoiThrows(port)
                  THEN [url |-> Parsed(text, sep, ask, info, colon, 0, << >>), result |-> "threw"]
                  ELSE [url |-> Parsed(text, sep, ask, info, colon, Port(port),
                                       Params(SubSeq(text, ask + 1, Len(text)), << >>)), result |-> "true"]
<1>0. PICK before, host, number, params :
        /\ before = SubSeq(text, 1, sep - 1) /\ number = Port(port)
        /\ host = SubSeq(info, 1, OrEnd(colon, info) - 1)
        /\ params = Params(SubSeq(text, ask + 1, Len(text)), << >>)
  OBVIOUS
<1>1. PICK reset, named, whole : /\ reset = Url(<< >>, << >>, 0, << >>) /\ named = Url(before, host, 0, << >>)
                                 /\ whole = Url(before, host, number, params)
  OBVIOUS
<1>10. /\ named = Parsed(text, sep, ask, info, colon, 0, << >>)
       /\ whole = Parsed(text, sep, ask, info, colon, number, params)
  BY <1>0, <1>1 DEF Parsed, Url
<1>11. Reset(url) = reset /\ Cleared = reset BY <1>1 DEF Reset, Cleared, Url
<1>2. [Reset(url) EXCEPT !.protocol = before, !.host = host] = named
  <2>1. reset = Url(<< >>, << >>, 0, << >>) BY <1>1
  <2>2. SetsTwo(reset, << >>, << >>, 0, << >>, before, host) BY <2>1, UrlSets
  <2> QED BY <1>1, <1>11, <2>2, Zenon DEF SetsTwo
<1>4. [named EXCEPT !.port = number, !.params = params] = whole
  <2>1. named = Url(before, host, 0, << >>) BY <1>1
  <2>2. SetsTwo(named, before, host, 0, << >>, number, params) BY <2>1, UrlSets
  <2> QED BY <1>1, <2>2, Zenon DEF SetsTwo
<1>5. named.params = << >> BY <1>1 DEF Url
<1>6. Parse(url, text) =
        CASE sep = 0 -> [url |-> Reset(url), result |-> "false"]
          [] sep # 0 /\ port # << >> /\ StoiThrows(port) -> [url |-> named, result |-> "threw"]
          [] OTHER -> [url |-> [named EXCEPT !.port = Port(port),
                                             !.params = Params(SubSeq(text, ask + 1, Len(text)), @)],
                       result |-> "true"]
  BY <1>0, <1>2 DEF Parse, Parts
<1>7. CASE sep = 0 BY <1>6, <1>7, <1>11
<1>8. CASE sep # 0 /\ port # << >> /\ StoiThrows(port) BY <1>6, <1>8, <1>10
<1>9. CASE sep # 0 /\ ~(port # << >> /\ StoiThrows(port)) 
  <2>1. Params(SubSeq(text, ask + 1, Len(text)), named.params) = params BY <1>0, <1>5
  <2>2. [named EXCEPT !.port = Port(port), !.params = Params(SubSeq(text, ask + 1, Len(text)), @)] = whole
    BY <1>0, <1>4, <2>1
  <2>3. Parse(url, text) = [url |-> whole, result |-> "true"] BY <1>6, <1>9, <2>2
  <2> QED BY <1>0, <1>9, <1>10, <2>3
<1> QED BY <1>7, <1>8, <1>9

(* A part of a text is given by its length and its pieces. *)
IsPart(part, R, text, i, m) ==
  part \in Seq(R) /\ Len(part) = m /\ \A k \in 1..m : part[k] = text[i + k - 1]
(* This holds of a stretch of a longer text. *)
LEMMA PartIs ==
    ASSUME NEW R, NEW text \in Seq(R), NEW n \in Nat, n = Len(text), NEW i \in Nat, i # 0, NEW m \in Nat,
           i + m <= n + 1, NEW j \in Int, j = i + m - 1
    PROVE  IsPart(SubSeq(text, i, j), R, text, i, m)
<1>1. \A k \in i..j : text[k] \in R
  <2>1. \A k \in i..j : k \in 1..n OBVIOUS
  <2> QED BY <2>1, ElementOfSeq
<1>2. (IF i <= j THEN j - i + 1 ELSE 0) = m /\ j - i + 1 = m OBVIOUS
<1>3. PICK part : part = SubSeq(text, i, j) OBVIOUS
<1>4. /\ part \in Seq(R) /\ Len(part) = IF i <= j THEN j - i + 1 ELSE 0
      /\ \A k \in 1..(j - i + 1) : part[k] = text[i + k - 1]
  BY <1>1, <1>3, SubSeqProperties, SMTT(30)
<1> QED BY <1>2, <1>3, <1>4 DEF IsPart

(* A url that was encoded is parsed to this url. *)
LEMMA EncodedIsParsed ==
    ASSUME NEW url, IsUrl(url), NEW other, NEW keys, Written(url.params, keys) \in Seq(Pieces),
           Params(Written(url.params, keys), << >>) = url.params, keys = << >> => Written(url.params, keys) = << >>
    PROVE  Parse(other, Encode(url, keys)) = [url |-> url, result |-> "true"]
<1>1. PICK D, text : D = Written(url.params, keys) /\ text = Encode(url, keys) OBVIOUS
<1>2. PICK a \in Nat, h \in Nat, d \in Nat, p \in Nat, q \in Nat :
           /\ p \in {0, 2} /\ q \in {0, 1}
           /\ a = Len(url.protocol) /\ h = Len(url.host) /\ d = Len(D)
           /\ (p = 2 <=> url.port > 0) /\ (q = 0 <=> keys = << >>)
           /\ text \in Seq(Pieces) /\ Encoded(text, url, D, a, h, p, q, d)
  BY <1>1, EncodeIs
<1>25. (p = 0 \/ p = 2) /\ (q = 0 \/ q = 1) BY <1>2
<1>26. text \in Seq(Pieces) /\ a = Len(url.protocol) /\ h = Len(url.host) /\ d = Len(D) BY <1>2
<1>27. /\ Len(text) = a + 1 + h + p + q + d
       /\ text[a + 1] = "://" /\ (p = 2 => text[a + h + 2] = ":" /\ text[a + h + 3] = Digits(url.port))
       /\ (q = 1 => text[a + h + p + 2] = "?")
       /\ \A i \in 1..d : text[a + 1 + h + p + q + i] = D[i]
  BY <1>2 DEF Encoded
<1>3. PICK n \in Nat : n = a + 1 + h + p + q + d /\ n = Len(text) BY <1>27
<1>4. PICK A, H : A = url.protocol /\ H = url.host OBVIOUS
<1>5. A \in Seq(Pieces \ {"://"}) /\ H \in Seq(Pieces \ {":", "://", "?"}) BY <1>4 DEF IsUrl
<1>6. /\ \A i \in 1..a : text[i] = A[i] /\ A[i] # "://"
      /\ \A i \in 1..h : text[a + 1 + i] = H[i] /\ H[i] # ":" /\ H[i] # "://" /\ H[i] # "?"
  <2>1. \A i \in 1..a : A[i] \in Pieces \ {"://"} BY <1>26, <1>4, <1>5, ElementOfSeq
  <2>2. \A i \in 1..h : H[i] \in Pieces \ {":", "://", "?"} BY <1>26, <1>4, <1>5, ElementOfSeq
  <2> QED BY <2>1, <2>2, <1>2, <1>4 DEF Encoded
<1>7. p = 2 => /\ text[a + h + 2] = ":" /\ text[a + h + 3] = Digits(url.port)
               /\ Digits(url.port) \in DOMAIN Numerals /\ Digits(url.port) \notin Marks
               /\ Port(<<Digits(url.port)>>) = url.port
  <2> SUFFICES ASSUME p = 2
               PROVE  /\ Digits(url.port) \in DOMAIN Numerals /\ Digits(url.port) \notin Marks
                      /\ Port(<<Digits(url.port)>>) = url.port
    BY <1>27
  <2>1. PICK port : port = url.port OBVIOUS
  <2>2. port \in PortNumbers /\ port > 0 BY <2>1, <1>2 DEF IsUrl
  <2>3. PICK t : t = Digits(port) OBVIOUS
  <2>4. t \in DOMAIN Numerals /\ Numerals[t] = port /\ port % 65536 = port BY <2>2, <2>3, DigitsOf
  <2>5. <<t>> # << >> /\ <<t>>[1] = t OBVIOUS
  <2>6. Port(<<t>>) = port BY <2>4, <2>5 DEF Port
  <2> QED BY <2>1, <2>3, <2>4, <2>6, UrlConstants
<1>8. Find(text, {"://"}, 1) = a + 1
  <2>1. a + 1 \in 1..n BY <1>3
  <2>2. text[a + 1] = "://" BY <1>27
  <2>3. \A i \in 1..((a + 1) - 1) : text[i] # "://" BY <1>6
  <2> QED BY <2>1, <2>2, <2>3, <1>3, FindHere, SMTT(30)
<1>9. \A i \in (a + 2)..(a + h + p + 1) : text[i] # "?"
  <2> SUFFICES ASSUME NEW i \in (a + 2)..(a + h + p + 1) PROVE text[i] # "?" OBVIOUS
  <2>1. CASE i <= a + h + 1
    <3>1. i - a - 1 \in 1..h /\ a + 1 + (i - a - 1) = i BY <2>1
    <3> QED BY <3>1, <1>6
  <2>2. CASE i > a + h + 1
    <3>1. p = 2 /\ (i = a + h + 2 \/ i = a + h + 3) BY <2>2, <1>25
    <3> QED BY <3>1, <1>7 DEF Marks
  <2> QED BY <2>1, <2>2
<1>10. OrEnd(Find(text, {"?"}, a + 2), text) = a + h + p + 2
  <2>1. CASE q = 1
    <3>1. a + h + p + 2 \in (a + 2)..n BY <2>1, <1>25, <1>3
    <3>2. text[a + h + p + 2] = "?" BY <2>1, <1>27
    <3>3. \A i \in (a + 2)..((a + h + p + 2) - 1) : text[i] # "?" BY <1>9, <1>25
    <3>4. PICK k \in (a + 2)..n : k = a + h + p + 2 BY <3>1
    <3>5. PICK from \in Nat : from = a + 2 /\ from # 0 OBVIOUS
    <3>7. PICK marks : marks = {"?"} OBVIOUS
    <3>8. text[k] \in marks /\ \A i \in from..(k - 1) : text[i] \notin marks BY <3>2, <3>3, <3>4, <3>5, <3>7
    <3>9. Find(text, marks, from) = k BY <3>4, <3>5, <3>8, <1>3, FindHere
    <3>6. Find(text, {"?"}, from) = k BY <3>7, <3>9
    <3> QED BY <3>4, <3>5, <3>6 DEF OrEnd
  <2>2. CASE q # 1
    <3>1. q = 0 /\ d = 0
      <4>1. q = 0 /\ D = << >> BY <2>2, <1>1, <1>2
      <4> QED BY <4>1, <1>26, EmptySeq
    <3>2. n + 1 = a + h + p + 2 BY <3>1, <1>25, <1>3
    <3>3. PICK from \in Nat : from = a + 2 OBVIOUS
    <3>4. PICK f : f = Find(text, {"?"}, from) OBVIOUS
    <3>5. FirstAt(f, text, {"?"}, from, n) BY <3>4, <1>3, FindIs
    <3>6. \A i \in from..n : text[i] # "?" BY <3>2, <3>3, <1>9, <1>25
    <3>7. f = 0 BY <3>5, <3>6 DEF FirstAt
    <3> QED BY <3>2, <3>3, <3>4, <3>7, <1>3 DEF OrEnd
  <2> QED BY <2>1, <2>2
<1>11. PICK info : info = SubSeq(text, a + 2, a + h + p + 1) OBVIOUS
<1>12. /\ info \in Seq(Pieces) /\ Len(info) = h + p
       /\ \A i \in 1..(h + p) : info[i] = text[a + 1 + i]
  <2>1. PICK m \in Nat, b \in Nat, j \in Int : m = h + p /\ b = a + 2 /\ j = a + h + p + 1 OBVIOUS
  <2>2. b # 0 /\ b + m <= n + 1 /\ j = b + m - 1 BY <2>1, <1>25, <1>3
  <2>3. text \in Seq(Pieces) /\ n = Len(text) BY <1>26, <1>3
  <2>4. IsPart(SubSeq(text, b, j), Pieces, text, b, m) BY <2>2, <2>3, PartIs
  <2>5. info = SubSeq(text, b, j) BY <2>1, <1>11
  <2>6. \A i \in 1..m : b + i - 1 = a + 1 + i BY <2>1
  <2> QED BY <2>1, <2>4, <2>5, <2>6 DEF IsPart
<1>13. SubSeq(text, 1, (a + 1) - 1) = A
  <2>1. PICK t : t = SubSeq(text, 1, (a + 1) - 1) OBVIOUS
  <2>2. t \in Seq(Pieces) /\ Len(t) = a /\ \A i \in 1..a : t[i] = text[i]
    <3>1. PICK b \in Nat, j \in Int : b = 1 /\ j = (a + 1) - 1 OBVIOUS
    <3>2. b # 0 /\ b + a <= n + 1 /\ j = b + a - 1 BY <3>1, <1>25, <1>3
    <3>3. text \in Seq(Pieces) /\ n = Len(text) BY <1>26, <1>3
    <3>4. IsPart(SubSeq(text, b, j), Pieces, text, b, a) BY <3>2, <3>3, PartIs
    <3>5. \A i \in 1..a : b + i - 1 = i BY <3>1
    <3> QED BY <2>1, <3>1, <3>4, <3>5 DEF IsPart
  <2>3. A \in Seq(Pieces) /\ Len(A) = a BY <1>26, <1>4, <1>5, SeqMonotonic
  <2> QED BY <2>1, <2>2, <2>3, <1>6, SeqEqual
<1>14. PICK colon : colon = Find(info, {":", "://"}, 1) OBVIOUS
<1>15. colon = IF p = 2 THEN h + 1 ELSE 0
  <2>1. \A i \in 1..h : info[i] \notin {":", "://"}
    <3>1. \A i \in 1..h : i \in 1..(h + p) BY <1>25
    <3> QED BY <3>1, <1>6, <1>12
  <2>2. PICK one \in Nat : one = 1 /\ one # 0 OBVIOUS
  <2>3. CASE p = 2
    <3>1. PICK k \in one..(h + p) : k = h + 1 BY <2>2, <2>3
    <3>2. info[k] = ":"
      <4>1. k \in 1..(h + p) /\ a + 1 + k = a + h + 2 BY <3>1, <2>2
      <4> QED BY <4>1, <2>3, <1>7, <1>12
    <3>3. \A i \in one..(k - 1) : info[i] \notin {":", "://"} BY <2>1, <2>2, <3>1
    <3>4. h + p \in Nat BY <1>25
    <3>5. PICK marks : marks = {":", "://"} OBVIOUS
    <3>6. info[k] \in marks /\ \A i \in one..(k - 1) : info[i] \notin marks BY <3>2, <3>3, <3>5
    <3>7. Find(info, marks, one) = k BY <2>2, <3>1, <3>4, <3>6, <1>12, FindHere
    <3> QED BY <2>2, <2>3, <3>1, <3>5, <3>7, <1>14
  <2>4. CASE p # 2
    <3>1. p = 0 /\ h + p = h BY <2>4, <1>25
    <3>2. FirstAt(colon, info, {":", "://"}, one, h) BY <2>2, <3>1, <1>12, <1>14, FindIs
    <3> QED BY <2>1, <2>2, <2>4, <3>2 DEF FirstAt
  <2> QED BY <2>3, <2>4
<1>16. SubSeq(info, 1, OrEnd(colon, info) - 1) = H
  <2>1. OrEnd(colon, info) - 1 = h BY <1>25, <1>12, <1>15 DEF OrEnd
  <2>2. PICK t : t = SubSeq(info, 1, h) OBVIOUS
  <2>3. t \in Seq(Pieces) /\ Len(t) = h /\ \A i \in 1..h : t[i] = info[i]
    <3>1. PICK b \in Nat, j \in Int, m \in Nat : b = 1 /\ j = h /\ m = h + p OBVIOUS
    <3>2. b # 0 /\ b + h <= m + 1 /\ j = b + h - 1 BY <3>1, <1>25
    <3>3. info \in Seq(Pieces) /\ m = Len(info) BY <3>1, <1>12
    <3>4. IsPart(SubSeq(info, b, j), Pieces, info, b, h) BY <3>2, <3>3, PartIs
    <3>5. \A i \in 1..h : b + i - 1 = i BY <3>1
    <3> QED BY <2>2, <3>1, <3>4, <3>5 DEF IsPart
  <2>4. H \in Seq(Pieces) /\ Len(H) = h BY <1>26, <1>4, <1>5, SeqMonotonic
  <2>5. \A i \in 1..h : t[i] = H[i]
    <3>1. \A i \in 1..h : i \in 1..(h + p) BY <1>25
    <3> QED BY <3>1, <2>3, <1>6, <1>12
  <2> QED BY <2>1, <2>2, <2>3, <2>4, <2>5, SeqEqual
<1>17. PICK port : port = PortText(info, colon) OBVIOUS
<1>18. ~(port # << >> /\ StoiThrows(port)) /\ Port(port) = url.port
  <2>1. CASE p = 2
    <3>1. PICK i \in Nat, m \in Nat, one \in Nat : i = h + 2 /\ m = h + p /\ one = 1 /\ i # 0 BY <1>25
    <3>2. i + one <= m + 1 /\ i + one - 1 = i /\ i = m /\ m = Len(info) BY <2>1, <3>1, <1>12
    <3>3. port = SubSeq(info, i, i + one - 1)
      <4>1. colon = h + 1 /\ colon # 0 BY <2>1, <1>15
      <4>4. info[colon] = ":"
        <5>1. colon \in 1..(h + p) /\ a + 1 + colon = a + h + 2 BY <4>1, <2>1
        <5> QED BY <5>1, <2>1, <1>7, <1>12
      <4>2. port = SubSeq(info, colon + 1, Len(info)) BY <4>1, <4>4, <1>17 DEF PortText
      <4>3. colon + 1 = i + one - 1 /\ Len(info) = i + one - 1 /\ colon + 1 = i BY <4>1, <3>1, <3>2
      <4> QED BY <4>2, <4>3
    <3>4. /\ port \in Seq(Pieces) /\ Len(port) = one
          /\ \A k \in 1..one : port[k] = info[i + k - 1]
      <4>1. PICK j \in Int : j = i + one - 1 OBVIOUS
      <4>2. info \in Seq(Pieces) /\ m = Len(info) BY <3>2, <1>12
      <4>3. IsPart(SubSeq(info, i, j), Pieces, info, i, one) BY <4>1, <4>2, <3>1, <3>2, PartIs
      <4> QED BY <3>3, <4>1, <4>3 DEF IsPart
    <3>5. port[1] = Digits(url.port)
      <4>1. port[1] = info[i + 1 - 1] BY <3>1, <3>4
      <4>2. i + 1 - 1 \in 1..(h + p) /\ a + 1 + (i + 1 - 1) = a + h + 3 BY <2>1, <3>1
      <4> QED BY <2>1, <4>1, <4>2, <1>7, <1>12
    <3>6. port = <<Digits(url.port)>> BY <3>1, <3>4, <3>5
    <3>7. ~StoiThrows(port) BY <2>1, <3>5, <1>7 DEF StoiThrows
    <3> QED BY <2>1, <3>6, <3>7, <1>7
  <2>2. CASE p # 2
    <3>1. port = << >> BY <2>2, <1>15, <1>17 DEF PortText
    <3>2. url.port = 0
      <4>1. PICK u : u = url.port OBVIOUS
      <4>2. u \in PortNumbers /\ ~(u > 0) BY <4>1, <2>2, <1>2 DEF IsUrl
      <4>3. \A z \in Int : z % 65536 >= 0 /\ z % 65536 \in Int OBVIOUS
      <4>4. u \in Int /\ u >= 0 BY <4>2, <4>3, UrlConstants DEF PortNumbers
      <4> QED BY <4>1, <4>2, <4>4
    <3> QED BY <3>1, <3>2 DEF Port
  <2> QED BY <2>1, <2>2
<1>19. SubSeq(text, (a + h + p + 2) + 1, Len(text)) = D
  <2>1. CASE q = 1
    <3>1. PICK i \in Nat : i = a + h + p + 3 /\ i # 0 OBVIOUS
    <3>2. i + d <= n + 1 /\ i + d - 1 = n BY <2>1, <3>1, <1>25, <1>3
    <3>3. PICK t : t = SubSeq(text, i, n) OBVIOUS
    <3>4. t \in Seq(Pieces) /\ Len(t) = d /\ \A k \in 1..d : t[k] = text[i + k - 1]
      <4>1. PICK j \in Int : j = n /\ j = i + d - 1 BY <3>2
      <4>2. text \in Seq(Pieces) /\ n = Len(text) BY <1>26, <1>3
      <4>3. IsPart(SubSeq(text, i, j), Pieces, text, i, d) BY <4>1, <4>2, <3>1, <3>2, PartIs
      <4> QED BY <3>3, <4>1, <4>3 DEF IsPart
    <3>5. \A k \in 1..d : t[k] = D[k]
      <4>1. \A k \in 1..d : i + k - 1 = a + 1 + h + p + q + k BY <2>1, <3>1, <1>25
      <4> QED BY <3>4, <4>1, <1>27
    <3>6. D \in Seq(Pieces) /\ Len(D) = d BY <1>1, <1>2, <1>26
    <3>7. t = D BY <3>4, <3>5, <3>6, SeqEqual
    <3>8. (a + h + p + 2) + 1 = i BY <3>1, <1>25
    <3> QED BY <3>3, <3>7, <3>8, <1>3
  <2>2. CASE q # 1
    <3>1. q = 0 /\ D = << >> BY <2>2, <1>1, <1>2
    <3>2. d = 0 BY <3>1, <1>26, EmptySeq
    <3>3. PICK i \in Int : i = (a + h + p + 2) + 1 /\ n < i BY <3>1, <3>2, <1>25, <1>3
    <3>4. SubSeq(text, i, n) = << >> BY <3>3, SubSeqEmpty
    <3> QED BY <3>1, <3>3, <3>4, <1>3
  <2> QED BY <2>1, <2>2
<1>20. PICK sep, ask : sep = a + 1 /\ ask = a + h + p + 2 OBVIOUS
<1>21. Parts(text, sep, ask, info, colon, port)
  <2>1. sep + 1 = a + 2 /\ ask - 1 = a + h + p + 1 BY <1>25, <1>20
  <2> QED BY <2>1, <1>8, <1>10, <1>11, <1>14, <1>17, <1>20 DEF Parts
<1>22. sep # 0 BY <1>25, <1>20
<1>23. Params(SubSeq(text, ask + 1, Len(text)), << >>) = url.params BY <1>1, <1>19, <1>20
<1>24. Parsed(text, sep, ask, info, colon, Port(port), Params(SubSeq(text, ask + 1, Len(text)), << >>)) = url
  BY <1>4, <1>13, <1>16, <1>18, <1>20, <1>23 DEF Parsed, IsUrl
<1> QED BY <1>1, <1>18, <1>21, <1>22, <1>24, ParseIs

(* The empty url is a url, and so is what is parsed. *)
LEMMA ClearedIsUrl == IsUrl(Cleared)
<1>1. << >> \in Seq(Pieces \ {"://"}) /\ << >> \in Seq(Pieces \ {":", "://", "?"}) BY EmptySeq
<1>2. 0 \in PortNumbers BY DEF PortNumbers
<1>3. << >> \in ParamMaps BY ParamMapsGrow
<1> QED BY <1>1, <1>2, <1>3 DEF IsUrl, Cleared
(* Whatever text it is parsed from. *)
LEMMA ParsedIsUrl == ASSUME NEW url, NEW text \in Seq(Pieces) PROVE IsUrl(Parse(url, text).url)
<1>1. PICK n \in Nat : n = Len(text) BY LenProperties
<1>2. PICK sep : sep = Find(text, {"://"}, 1) OBVIOUS
<1>3. PICK ask : ask = OrEnd(Find(text, {"?"}, sep + 1), text) OBVIOUS
<1>4. PICK info : info = SubSeq(text, sep + 1, ask - 1) OBVIOUS
<1>5. PICK colon : colon = Find(info, {":", "://"}, 1) OBVIOUS
<1>6. PICK port : port = PortText(info, colon) OBVIOUS
<1>7. Parts(text, sep, ask, info, colon, port) BY <1>2, <1>3, <1>4, <1>5, <1>6 DEF Parts
<1>8. CASE sep = 0
  <2>1. Parse(url, text) = [url |-> Cleared, result |-> "false"] BY <1>7, <1>8, ParseIs
  <2> QED BY <2>1, ClearedIsUrl
<1>9. CASE sep # 0
  <2>1. PICK s \in 1..n : s = sep /\ \A i \in 1..(s - 1) : text[i] # "://"
    <3>1. FirstAt(sep, text, {"://"}, 1, n) BY <1>1, <1>2, FindIs
    <3> QED BY <3>1, <1>9 DEF FirstAt
  <2>2. PICK a \in (s + 1)..(n + 1) : a = ask /\ \A i \in (s + 1)..(a - 1) : text[i] # "?"
    <3>0. PICK from \in Nat : from = s + 1 OBVIOUS
    <3>1. PICK f : from = s + 1 /\ f = Find(text, {"?"}, from) BY <3>0
    <3>2. FirstAt(f, text, {"?"}, from, n) BY <1>1, <3>1, FindIs
    <3>3. ask = IF f = 0 THEN n + 1 ELSE f BY <1>1, <1>3, <2>1, <3>1 DEF OrEnd
    <3>4. CASE f = 0 BY <3>1, <3>2, <3>3, <3>4 DEF FirstAt
    <3>5. CASE f # 0
      <4>1. f \in from..n /\ \A i \in from..(f - 1) : text[i] # "?" BY <3>2, <3>5 DEF FirstAt
      <4> QED BY <3>1, <3>3, <3>5, <4>1
    <3> QED BY <3>4, <3>5
  <2>3. \A i \in 1..n : text[i] \in Pieces BY <1>1, ElementOfSeq
  <2>4. SubSeq(text, 1, sep - 1) \in Seq(Pieces \ {"://"})
    <3>1. \A i \in 1..(s - 1) : text[i] \in Pieces \ {"://"} BY <2>1, <2>3
    <3> QED BY <2>1, <3>1, SubSeqProperties
  <2>5. info \in Seq(Pieces \ {"?"})
    <3>1. \A i \in (s + 1)..(a - 1) : text[i] \in Pieces \ {"?"} BY <2>2, <2>3
    <3> QED BY <1>4, <2>1, <2>2, <3>1, SubSeqProperties
  <2>6. SubSeq(info, 1, OrEnd(colon, info) - 1) \in Seq(Pieces \ {":", "://", "?"})
    <3>1. PICK m \in Nat : m = Len(info) BY <2>5, LenProperties
    <3>2. \A i \in 1..m : info[i] \in Pieces \ {"?"} BY <2>5, <3>1, ElementOfSeq
    <3>3. PICK e \in 1..(m + 1) : e = OrEnd(colon, info) /\ \A i \in 1..(e - 1) : info[i] \notin {":", "://"}
      <4>1. FirstAt(colon, info, {":", "://"}, 1, m) BY <1>5, <3>1, FindIs
      <4>2. OrEnd(colon, info) = IF colon = 0 THEN m + 1 ELSE colon BY <3>1 DEF OrEnd
      <4> QED BY <4>1, <4>2 DEF FirstAt
    <3>4. \A i \in 1..(e - 1) : info[i] \in Pieces \ {":", "://", "?"} BY <3>2, <3>3
    <3> QED BY <3>3, <3>4, SubSeqProperties
  <2>7. PICK before \in Seq(Pieces \ {"://"}), host \in Seq(Pieces \ {":", "://", "?"}) :
             before = SubSeq(text, 1, sep - 1) /\ host = SubSeq(info, 1, OrEnd(colon, info) - 1)
    BY <2>4, <2>6
  <2>8. ASSUME NEW u \in PortNumbers, NEW m \in ParamMaps PROVE IsUrl(Parsed(text, sep, ask, info, colon, u, m))
    BY <2>7 DEF IsUrl, Parsed
  <2>9. CASE port # << >> /\ StoiThrows(port)
    <3>1. 0 \in PortNumbers /\ << >> \in ParamMaps BY ParamMapsGrow DEF PortNumbers
    <3>2. Parse(url, text) = [url |-> Parsed(text, sep, ask, info, colon, 0, << >>), result |-> "threw"]
      BY <1>7, <1>9, <2>9, ParseIs
    <3> QED BY <2>8, <3>1, <3>2
  <2>10. CASE ~(port # << >> /\ StoiThrows(port))
    <3>1. Port(port) \in PortNumbers BY <2>10 DEF Port, PortNumbers, StoiThrows
    <3>2. PICK rest \in Seq(Pieces) : rest = SubSeq(text, ask + 1, Len(text))
      <4>1. \A i \in (a + 1)..n : i \in 1..n OBVIOUS
      <4>2. \A i \in (a + 1)..n : text[i] \in Pieces BY <2>3, <4>1
      <4>3. PICK i \in Int : i = a + 1 OBVIOUS
      <4>4. SubSeq(text, i, n) \in Seq(Pieces) BY <4>2, <4>3, SubSeqProperties
      <4> QED BY <1>1, <2>2, <4>3, <4>4
    <3>3. PICK m : m = Params(rest, << >>) OBVIOUS
    <3>4. m \in ParamMaps
      <4>1. PICK t : ReadsParams(rest, << >>, t) BY ParamMapsGrow, ParamsLead
      <4>2. t \in TurnStates /\ m = Done(t) BY <3>3, <4>1 DEF ReadsParams
      <4>3. t.params \in ParamMaps /\ t.key \in Between /\ t.value \in Between BY <4>2 DEF TurnStates
      <4> QED BY <4>2, <4>3, ParamMapsGrow DEF Done
    <3>5. Parse(url, text) = [url |-> Parsed(text, sep, ask, info, colon, Port(port), m), result |-> "true"]
      BY <1>7, <1>9, <2>10, <3>2, <3>3, ParseIs
    <3>6. PICK u \in PortNumbers : u = Port(port) BY <3>1
    <3>7. IsUrl(Parsed(text, sep, ask, info, colon, u, m)) BY <2>8, <3>4
    <3> QED BY <3>5, <3>6, <3>7
  <2> QED BY <2>9, <2>10
<1> QED BY <1>8, <1>9

(* u_url is made of texts of any pieces. *)
TextMaps == UNION {[D -> Seq(Pieces)] : D \in {D \in SUBSET Seq(Pieces) : IsFiniteSet(D)}}
IsAnyUrl(url) ==
  /\ url = [protocol |-> url.protocol, host |-> url.host, port |-> url.port, params |-> url.params]
  /\ url.protocol \in Seq(Pieces) /\ url.host \in Seq(Pieces)
  /\ url.port \in PortNumbers /\ url.params \in TextMaps

(* A map of parameters has finitely many keys. *)
LEMMA TextMapIs ==
    ASSUME NEW m
    PROVE  m \in TextMaps <=> /\ m \in [DOMAIN m -> Seq(Pieces)] /\ DOMAIN m \subseteq Seq(Pieces)
                              /\ IsFiniteSet(DOMAIN m)
  BY DEF TextMaps

(* A text has no piece of X in it. *)
LEMMA PiecesBut ==
    ASSUME NEW s \in Seq(Pieces), NEW X
    PROVE  Range(s) \cap X = {} <=> s \in Seq(Pieces \ X)
<1>1. PICK n \in Nat : n = Len(s) BY LenProperties
<1>2. s \in [1..n -> Pieces] /\ DOMAIN s = 1..n BY <1>1, LenProperties
<1>3. ASSUME Range(s) \cap X = {} PROVE s \in Seq(Pieces \ X)
  <2>1. \A i \in 1..n : s[i] \in Pieces \ X BY <1>2, <1>3 DEF Range
  <2>2. s \in [1..n -> Pieces \ X] BY <1>2, <2>1
  <2> QED BY <2>2, SeqOfLen
<1>4. ASSUME s \in Seq(Pieces \ X) PROVE Range(s) \cap X = {}
  <2>1. \A i \in 1..n : s[i] \in Pieces \ X BY <1>1, <1>4, ElementOfSeq
  <2> QED BY <2>1, <1>2 DEF Range
<1> QED BY <1>3, <1>4

(* A url that is plain, and only that, is one that parse() can come to. *)
LEMMA UnmarkedIsUrl == ASSUME NEW url, IsAnyUrl(url) PROVE Unmarked(url) <=> IsUrl(url)
<1>1. PICK w, x, m : w = url.protocol /\ x = url.host /\ m = url.params OBVIOUS
<1>2. w \in Seq(Pieces) /\ x \in Seq(Pieces) /\ m \in TextMaps BY <1>1 DEF IsAnyUrl
<1>3. "://" \notin Range(w) <=> w \in Seq(Pieces \ {"://"})
  <2>1. Range(w) \cap {"://"} = {} <=> w \in Seq(Pieces \ {"://"}) BY <1>2, PiecesBut
  <2> QED BY <2>1
<1>4. Range(x) \cap {":", "://", "?"} = {} <=> x \in Seq(Pieces \ {":", "://", "?"}) BY <1>2, PiecesBut, ZenonT(30)
<1>5. (\A k \in DOMAIN m : (Range(k) \cup Range(m[k])) \cap {"=", "&"} = {}) <=> m \in ParamMaps
  <2>1. m \in [DOMAIN m -> Seq(Pieces)] /\ DOMAIN m \subseteq Seq(Pieces) /\ IsFiniteSet(DOMAIN m)
    BY <1>2, TextMapIs
  <2>2. m \in ParamMaps <=> \A k \in DOMAIN m : k \in Between /\ m[k] \in Between BY <2>1, ParamMapIs
  <2>3. ASSUME NEW k \in DOMAIN m
        PROVE  (Range(k) \cup Range(m[k])) \cap {"=", "&"} = {} <=> k \in Between /\ m[k] \in Between
    <3>1. k \in Seq(Pieces) /\ m[k] \in Seq(Pieces) BY <2>1
    <3>2. Range(k) \cap {"=", "&"} = {} <=> k \in Between BY <3>1, PiecesBut DEF Between
    <3>3. Range(m[k]) \cap {"=", "&"} = {} <=> m[k] \in Between BY <3>1, PiecesBut DEF Between
    <3> QED BY <3>2, <3>3
  <2> QED BY <2>2, <2>3
<1> QED BY <1>1, <1>3, <1>4, <1>5 DEF Unmarked, IsUrl, IsAnyUrl

(* Every url that parse() comes to is one of any pieces. *)
LEMMA UrlIsAny == ASSUME NEW url, IsUrl(url) PROVE IsAnyUrl(url)
<1>1. PICK m : m = url.params /\ m \in ParamMaps BY DEF IsUrl
<1>2. Between \subseteq Seq(Pieces) BY SeqMonotonic DEF Between
<1>3. m \in TextMaps BY <1>1, <1>2, ParamMapIs, TextMapIs
<1>4. \A X : Seq(Pieces \ X) \subseteq Seq(Pieces) BY SeqMonotonic
<1> QED BY <1>1, <1>3, <1>4 DEF IsUrl, IsAnyUrl

(* A parameter more. *)
LEMMA TextMapsGrow == \A m \in TextMaps : \A k, v \in Seq(Pieces) : Put(m, k, v) \in TextMaps
<1> SUFFICES ASSUME NEW m \in TextMaps, NEW k \in Seq(Pieces), NEW v \in Seq(Pieces)
             PROVE  Put(m, k, v) \in TextMaps
  OBVIOUS
<1>1. m \in [DOMAIN m -> Seq(Pieces)] /\ DOMAIN m \subseteq Seq(Pieces) /\ IsFiniteSet(DOMAIN m) BY TextMapIs
<1>2. PICK D : D = DOMAIN m \cup {k} OBVIOUS
<1>3. IsFiniteSet(D) /\ D \subseteq Seq(Pieces) BY <1>1, <1>2, FS_AddElement
<1>4. Put(m, k, v) \in [D -> Seq(Pieces)] /\ DOMAIN Put(m, k, v) = D BY <1>1, <1>2 DEF Put
<1> QED BY <1>3, <1>4, TextMapIs

(* The texts that are given are made of these pieces. *)
LEMMA TextsAre == \A text \in Urls \cup Texts : text \in Seq(Pieces)
<1> SUFFICES ASSUME NEW text \in Urls \cup Texts PROVE text \in Seq(Pieces) OBVIOUS
<1>1. text \in Seq(Range(text)) /\ Range(text) \subseteq Pieces BY UrlConstants DEF Pieces
<1> QED BY <1>1, SeqMonotonic

(* Texts behind each other are a text: take an automaton that stays where it is. *)
LEMMA FlattenType ==
    ASSUME NEW R, NEW n \in Nat, NEW seqs \in Seq(Seq(R)), n = Len(seqs)
    PROVE  FlattenSeq(seqs) \in Seq(R)
<1>1. CASE n = 0
  <2>1. seqs = << >> BY <1>1, EmptySeq
  <2>2. FlattenSeq(seqs) = << >> BY <2>1 DEF FlattenSeq
  <2> QED BY <2>2, EmptySeq
<1>2. CASE n # 0
  <2>1. PICK F, h : F = [x \in {0} |-> [p \in R |-> 0]] /\ h = [i \in 0..n |-> 0] OBVIOUS
  <2>2. F \in [{0} -> [R -> {0}]] BY <2>1
  <2>3. PICK start \in {0} : start = 0 OBVIOUS
  <2>4. ASSUME NEW i \in 1..n PROVE Leads(F, h[i - 1], seqs[i], h[i])
    <3>1. PICK line \in Seq(R) : line = seqs[i] BY ElementOfSeq
    <3>2. PICK g : PathIn(F, g, start, line, {0}) BY <2>2, PathExists, ZenonT(30)
    <3>3. PICK m \in Nat : m = Len(line) BY LenProperties
    <3>6. g \in [0..m -> {0}] /\ Path(F, g, start, line) BY <3>2, <3>3 DEF PathIn
    <3>7. g[m] = 0
      <4>1. m \in 0..m OBVIOUS
      <4> QED BY <3>6, <4>1
    <3>4. Path(F, g, start, line) /\ g[m] = 0 BY <3>6, <3>7
    <3>5. h[i - 1] = start /\ h[i] = 0 BY <2>1, <2>3
    <3> QED BY <3>1, <3>3, <3>4, <3>5 DEF Leads
  <2> QED BY <1>2, <2>4, LeadsThrough
<1> QED BY <1>1, <1>2

(* What encode() returns, for a url of any pieces, is a text of these pieces. *)
LEMMA EncodeTypes ==
    ASSUME NEW url, IsAnyUrl(url), NEW keys \in [1..Cardinality(DOMAIN url.params) -> DOMAIN url.params]
    PROVE  Encode(url, keys) \in Seq(Pieces)
<1>1. PICK A, H, m : A = url.protocol /\ H = url.host /\ m = url.params OBVIOUS
<1>2. A \in Seq(Pieces) /\ H \in Seq(Pieces) /\ m \in TextMaps BY <1>1 DEF IsAnyUrl
<1>3. m \in [DOMAIN m -> Seq(Pieces)] /\ DOMAIN m \subseteq Seq(Pieces) /\ IsFiniteSet(DOMAIN m)
  BY <1>2, TextMapIs
<1>4. PICK n \in Nat : n = Cardinality(DOMAIN m) BY <1>3, FS_CardinalityType
<1>5. \A x \in Marks : <<x>> \in Seq(Pieces)
  <2>1. \A x \in Marks : x \in Pieces BY DEF Pieces
  <2> QED BY <2>1
<1>6. (IF url.port > 0 THEN <<":", Digits(url.port)>> ELSE << >>) \in Seq(Pieces)
  <2>1. CASE url.port > 0
    <3>1. Digits(url.port) \in Pieces /\ ":" \in Pieces BY <2>1, DigitsOf DEF IsAnyUrl, Pieces, Marks
    <3>2. PICK x \in Pieces, y \in Pieces : x = ":" /\ y = Digits(url.port) BY <3>1
    <3> QED BY <2>1, <3>2
  <2>2. CASE ~(url.port > 0) BY <2>2, EmptySeq
  <2> QED BY <2>1, <2>2
<1>7. (IF keys = << >> THEN << >> ELSE <<"?">>) \in Seq(Pieces) BY <1>5, EmptySeq DEF Marks
<1>8. Written(m, keys) \in Seq(Pieces)
  <2> DEFINE part(i) == keys[i] \o <<"=">> \o m[keys[i]] \o <<"&">>
  <2>1. keys \in [1..n -> DOMAIN m] BY <1>1, <1>4
  <2>2. ASSUME NEW i \in 1..n PROVE part(i) \in Seq(Pieces)
    <3>1. keys[i] \in Seq(Pieces) /\ m[keys[i]] \in Seq(Pieces) BY <2>1, <1>3
    <3>2. PICK k \in Seq(Pieces), v \in Seq(Pieces), x \in Seq(Pieces), y \in Seq(Pieces) :
               k = keys[i] /\ v = m[keys[i]] /\ x = <<"=">> /\ y = <<"&">>
      BY <3>1, <1>5 DEF Marks
    <3>3. k \o x \o v \o y \in Seq(Pieces) BY ConcatProperties
    <3> QED BY <3>2, <3>3
  <2>3. PICK seqs : seqs = [i \in 1..n |-> part(i)] OBVIOUS
  <2>4. seqs \in [1..n -> Seq(Pieces)]
    <3> HIDE DEF part
    <3> QED BY <2>2, <2>3
  <2>5. seqs \in Seq(Seq(Pieces)) /\ Len(seqs) = n BY <2>4, SeqOfLen
  <2>6. Written(m, keys) = FlattenSeq(seqs)
    <3>1. DOMAIN keys = 1..n BY <2>1
    <3> QED BY <2>3, <3>1 DEF Written
  <2> QED BY <2>5, <2>6, FlattenType
<1>9. PICK P, Q, S : /\ P = (IF url.port > 0 THEN <<":", Digits(url.port)>> ELSE << >>)
                     /\ Q = (IF keys = << >> THEN << >> ELSE <<"?">>) /\ S = <<"://">>
  OBVIOUS
<1>10. P \in Seq(Pieces) /\ Q \in Seq(Pieces) /\ S \in Seq(Pieces) BY <1>5, <1>6, <1>7, <1>9 DEF Marks
<1>11. PICK D \in Seq(Pieces) : D = Written(m, keys) BY <1>8
<1>12. A \o S \o H \o P \o Q \o D \in Seq(Pieces) BY <1>2, <1>10, ConcatProperties
<1>13. Encode(url, keys) = A \o S \o H \o P \o Q \o D BY <1>1, <1>9, <1>11 DEF Encode, Written
<1> QED BY <1>12, <1>13

(* Whatever is made, set and parsed. *)
LEMMA UrlTypes == UrlSpec => []IsAnyUrl(u_url)
<1>1. UrlInit => IsAnyUrl(u_url) BY ClearedIsUrl, UrlIsAny DEF UrlInit
<1>2. IsAnyUrl(u_url) /\ [UrlNext]_u_vars => IsAnyUrl(u_url)'
  <2> SUFFICES ASSUME IsAnyUrl(u_url), [UrlNext]_u_vars PROVE IsAnyUrl(u_url') BY DEF IsAnyUrl
  <2>1. CASE UrlParse
    <3>1. PICK text \in Urls : u_url' = Parse(u_url, text).url BY <2>1 DEF UrlParse
    <3>2. text \in Seq(Pieces) BY TextsAre
    <3> QED BY <3>1, <3>2, ParsedIsUrl, UrlIsAny
  <2>2. CASE UrlMake
    <3> DEFINE made(p, h, n) == [Cleared EXCEPT !.protocol = p, !.host = h, !.port = n]
    <3>1. PICK p \in Texts, h \in Texts, n \in PortNumbers : u_url' = made(p, h, n) BY <2>2, Zenon DEF UrlMake
    <3>2. p \in Seq(Pieces) /\ h \in Seq(Pieces) BY TextsAre
    <3>3. u_url' = [protocol |-> p, host |-> h, port |-> n, params |-> << >>] BY <3>1 DEF Cleared
    <3>4. << >> \in TextMaps
      <4>1. DOMAIN << >> = {} /\ << >> \in [{} -> Seq(Pieces)] OBVIOUS
      <4> QED BY <4>1, FS_EmptySet, TextMapIs
    <3> QED BY <3>2, <3>3, <3>4 DEF IsAnyUrl
  <2>3. CASE UrlSet
    <3>1. PICK k \in Texts, v \in Texts : u_url' = [u_url EXCEPT !.params = Put(@, k, v)] BY <2>3 DEF UrlSet
    <3>2. PICK r : r = u_url /\ IsAnyUrl(r) OBVIOUS
    <3>3. k \in Seq(Pieces) /\ v \in Seq(Pieces) /\ r.params \in TextMaps BY <3>2, TextsAre DEF IsAnyUrl
    <3>4. PICK m \in TextMaps : m = Put(r.params, k, v) BY <3>3, TextMapsGrow
    <3>5. r = Url(r.protocol, r.host, r.port, r.params) BY <3>2 DEF IsAnyUrl, Url
    <3>6. u_url' = [r EXCEPT !.params = m] BY <3>1, <3>2, <3>4
    <3>7. u_url' = [protocol |-> r.protocol, host |-> r.host, port |-> r.port, params |-> m]
      BY <3>5, <3>6 DEF Url
    <3> QED BY <3>2, <3>7 DEF IsAnyUrl
  <2>4. CASE UrlCopy \/ UNCHANGED u_vars BY <2>4 DEF UrlCopy, u_vars
  <2> QED BY <2>1, <2>2, <2>3, <2>4 DEF UrlNext
<1> QED BY <1>1, <1>2, PTL DEF UrlSpec

(* For any texts (with any marks in them), any numbers, and any number of calls: what a url *)
(* encodes, with its parameters in any order, another object parses to the same url exactly *)
(* if the url is plain (encode() and parse()).                                              *)
THEOREM UrlRoundTripHolds == UrlSpec => UrlRoundTrip
<1>1. ASSUME IsAnyUrl(u_url), UrlCopy
      PROVE  (u_result' = "copied" /\ u_copy' = u_url) <=> Unmarked(u_url)
  <2>0. PICK m : m = u_url.params /\ m \in TextMaps BY <1>1 DEF IsAnyUrl
  <2>2. PICK keys \in [1..Cardinality(DOMAIN m) -> DOMAIN m] :
          /\ IsInjective(keys)
          /\ u_copy' = Parse(u_copy, Encode(u_url, keys)).url
          /\ u_result' = IF Parse(u_copy, Encode(u_url, keys)).result = "true"
                         THEN "copied" ELSE Parse(u_copy, Encode(u_url, keys)).result
    BY <1>1, <2>0 DEF UrlCopy
  <2>10. ASSUME Unmarked(u_url) PROVE u_result' = "copied" /\ u_copy' = u_url
    <3>0. IsUrl(u_url) BY <1>1, <2>10, UnmarkedIsUrl
    <3>1. m \in ParamMaps BY <2>0, <3>0 DEF IsUrl
    <3>3. IsFiniteSet(DOMAIN m) BY <3>1, ParamMapIs
    <3>4. PICK n \in Nat : n = Cardinality(DOMAIN m) BY <3>3, FS_CardinalityType
    <3>5. \A k \in DOMAIN m : \E i \in 1..n : keys[i] = k
      <4>1. keys \in Injection(1..n, DOMAIN m) BY <2>2, <3>4 DEF Injection
      <4>2. Cardinality(1..n) = n BY FS_Interval
      <4>3. keys \in Surjection(1..n, DOMAIN m) BY <3>3, <3>4, <4>1, <4>2, FS_Injection
      <4> QED BY <4>3 DEF Surjection
    <3>6. Written(m, keys) \in Seq(Pieces) /\ Params(Written(m, keys), << >>) = m
      BY <3>1, <2>2, <3>4, <3>5, ParamsRead
    <3>7. keys = << >> => Written(m, keys) = << >> BY DEF Written, FlattenSeq
    <3>8. Parse(u_copy, Encode(u_url, keys)) = [url |-> u_url, result |-> "true"]
      BY <2>0, <3>0, <3>6, <3>7, EncodedIsParsed
    <3> QED BY <2>2, <3>8
  <2>11. ASSUME u_copy' = u_url PROVE Unmarked(u_url)
    <3>1. Encode(u_url, keys) \in Seq(Pieces) BY <1>1, <2>0, <2>2, EncodeTypes
    <3>2. IsUrl(Parse(u_copy, Encode(u_url, keys)).url) BY <3>1, ParsedIsUrl
    <3> QED BY <1>1, <2>2, <2>11, <3>2, UnmarkedIsUrl
  <2> QED BY <2>10, <2>11
<1>2. IsAnyUrl(u_url) /\ [UrlNext]_u_vars
        => [UrlCopy => ((u_result' = "copied" /\ u_copy' = u_url) <=> Unmarked(u_url))]_u_vars
  BY <1>1
<1> QED BY <1>2, UrlTypes, PTL DEF UrlSpec, UrlRoundTrip
=============================================================================
