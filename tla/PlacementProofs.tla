--------------------------- MODULE PlacementProofs ---------------------------
(* Proofs about where a task runs: the environment it is given, for any       *)
(* agents, threads, environments and quota, wherever the lock file works and  *)
(* wherever it does not; and the node it is given, for any nodes, cards,      *)
(* groups and reports of any age.                                             *)
EXTENDS EnvCache, Placement, CountingProofs

(* ------------------------------------------------------- the environment --- *)
(* acquire() is between the locks of an environment and their release.        *)
Inside == Locked \union {"locked"}
Places == Inside \union {"idle", "found", "waiting", "refused", "holding", "totalling",
                         "removing", "emptying"}

CacheTypeOK ==
    /\ pc \in [Caller -> Places]
    /\ mutex \in [Agent -> [Key -> Caller \union {NoOne}]]
    /\ flock \in [Key -> Caller \union {NoOne}]
    /\ locking \subseteq Agent

(* Who is inside has the thread lock of its agent, and from the lock file on  *)
(* the lock file too, unless the volume refused its agent.                    *)
HasMutex == \A c \in Caller : pc[c] \in Inside => mutex[Home[c]][Wants[c]] = c
HasFlock == \A c \in Caller :
                pc[c] \in Locked /\ Home[c] \in locking => flock[Wants[c]] = c

IInv == CacheTypeOK /\ HasMutex /\ HasFlock

LEMMA Constants ==
    /\ NoOne \notin Caller
    /\ \A c \in Caller : Home[c] \in Agent /\ Wants[c] \in Key
  BY CacheAssumption

(* ------------------------------------------------- what the steps do --- *)
(* One thread moves on, out of the locks or without touching them.            *)
Moves(c, next) ==
    /\ At(c, next) /\ UNCHANGED <<mutex, flock, locking>>
    /\ next \in Inside => pc[c] \in Inside
    /\ next \in Locked => pc[c] \in Locked
Leaves(c, next) == At(c, next) /\ Unlock(c) /\ next \notin Inside /\ UNCHANGED locking

LEMMA MovesStep ==
    ASSUME IInv, NEW c \in Caller, NEW next \in Places, Moves(c, next)
    PROVE  IInv'
  <1>1. /\ pc' = [pc EXCEPT ![c] = next] /\ UNCHANGED <<mutex, flock, locking>>
        /\ next \in Inside => pc[c] \in Inside
        /\ next \in Locked => pc[c] \in Locked
    BY DEF Moves, At
  <1>2. pc \in [Caller -> Places]
    BY DEF IInv, CacheTypeOK
  <1>3. CacheTypeOK'
    BY <1>1, <1>2 DEF IInv, CacheTypeOK
  <1>4. HasMutex' /\ HasFlock'
    BY <1>1, <1>2 DEF IInv, HasMutex, HasFlock
  <1> QED
    BY <1>3, <1>4 DEF IInv

LEMMA LeavesStep ==
    ASSUME IInv, NEW c \in Caller, NEW next \in Places, Leaves(c, next), pc[c] \in Inside
    PROVE  IInv'
  <1>1. /\ pc' = [pc EXCEPT ![c] = next] /\ next \notin Inside /\ locking' = locking
        /\ mutex' = [mutex EXCEPT ![Home[c]][Wants[c]] = NoOne]
        /\ flock' = [k \in Key |-> IF flock[k] = c THEN NoOne ELSE flock[k]]
    BY DEF Leaves, At, Unlock
  <1>2. /\ pc \in [Caller -> Places] /\ HasMutex /\ HasFlock
        /\ mutex \in [Agent -> [Key -> Caller \union {NoOne}]]
        /\ flock \in [Key -> Caller \union {NoOne}]
    BY DEF IInv, CacheTypeOK
  <1>3. CacheTypeOK'
    BY <1>1, <1>2, Constants DEF IInv, CacheTypeOK
  <1>4. ASSUME NEW d \in Caller, pc'[d] \in Inside PROVE d # c /\ pc[d] = pc'[d]
    BY <1>1, <1>2, <1>4
  <1>5. HasMutex'
    <2> SUFFICES ASSUME NEW d \in Caller, pc'[d] \in Inside
                 PROVE  mutex'[Home[d]][Wants[d]] = d
      BY DEF HasMutex
    <2>1. d # c /\ mutex[Home[d]][Wants[d]] = d /\ mutex[Home[c]][Wants[c]] = c
      BY <1>2, <1>4 DEF HasMutex
    <2> QED
      BY <1>1, <1>2, <2>1, Constants
  <1>6. HasFlock'
    BY <1>1, <1>2, <1>4, Constants DEF HasFlock, Inside
  <1> QED
    BY <1>3, <1>5, <1>6 DEF IInv

LEMMA TakeBuildLockStep == ASSUME IInv, NEW c \in Caller, TakeBuildLock(c) PROVE IInv'
  <1>1. /\ mutex[Home[c]][Wants[c]] = NoOne
        /\ mutex' = [mutex EXCEPT ![Home[c]][Wants[c]] = c]
        /\ pc' = [pc EXCEPT ![c] = "locked"] /\ UNCHANGED <<flock, locking>>
    BY DEF TakeBuildLock, At
  <1>2. /\ pc \in [Caller -> Places] /\ HasMutex /\ HasFlock
        /\ mutex \in [Agent -> [Key -> Caller \union {NoOne}]]
    BY DEF IInv, CacheTypeOK
  <1>3. CacheTypeOK'
    BY <1>1, <1>2, Constants DEF IInv, CacheTypeOK, Places, Inside
  <1>4. HasMutex'
    <2> SUFFICES ASSUME NEW d \in Caller, pc'[d] \in Inside
                 PROVE  mutex'[Home[d]][Wants[d]] = d
      BY DEF HasMutex
    <2>1. CASE d = c
      BY <1>1, <1>2, <2>1, Constants
    <2>2. CASE d # c
      <3>1. mutex[Home[d]][Wants[d]] = d /\ d # NoOne
        BY <1>1, <1>2, <2>2, Constants DEF HasMutex
      <3> QED
        BY <1>1, <1>2, <3>1, Constants
    <2> QED
      BY <2>1, <2>2
  <1>5. HasFlock'
    BY <1>1, <1>2 DEF HasFlock, Locked
  <1> QED
    BY <1>3, <1>4, <1>5 DEF IInv

LEMMA TakeFileLockStep == ASSUME IInv, NEW c \in Caller, TakeFileLock(c) PROVE IInv'
  <1>1. /\ pc[c] = "locked" /\ pc' = [pc EXCEPT ![c] = "checking"]
        /\ IF Home[c] \in locking
           THEN flock[Wants[c]] = NoOne /\ flock' = [flock EXCEPT ![Wants[c]] = c]
           ELSE flock' = flock
        /\ UNCHANGED <<mutex, locking>>
    BY DEF TakeFileLock, At
  <1>2. /\ pc \in [Caller -> Places] /\ HasMutex /\ HasFlock
        /\ flock \in [Key -> Caller \union {NoOne}]
    BY DEF IInv, CacheTypeOK
  <1>3. CacheTypeOK'
    BY <1>1, <1>2, Constants DEF IInv, CacheTypeOK, Places, Inside, Locked
  <1>4. HasMutex'
    BY <1>1, <1>2 DEF HasMutex, Inside
  <1>5. HasFlock'
    <2> SUFFICES ASSUME NEW d \in Caller, pc'[d] \in Locked, Home[d] \in locking
                 PROVE  flock'[Wants[d]] = d
      BY <1>1 DEF HasFlock
    <2>1. CASE d = c
      BY <1>1, <1>2, <2>1, Constants
    <2>2. CASE d # c
      <3>1. flock[Wants[d]] = d /\ d # NoOne
        BY <1>1, <1>2, <2>2, Constants DEF HasFlock
      <3> QED
        BY <1>1, <1>2, <3>1, Constants
    <2> QED
      BY <2>1, <2>2
  <1> QED
    BY <1>3, <1>4, <1>5 DEF IInv

(* The threads of an agent that dies are out of every lock.                   *)
LEMMA CrashStep == ASSUME IInv, NEW a \in Agent, Crash(a) PROVE IInv'
  <1> DEFINE dead == {c \in Caller : Home[c] = a}
  <1>1. /\ mutex' = [mutex EXCEPT ![a] = [k \in Key |-> NoOne]]
        /\ flock' = [k \in Key |-> IF flock[k] \in dead THEN NoOne ELSE flock[k]]
        /\ pc' = [c \in Caller |-> IF c \in dead THEN "idle" ELSE pc[c]]
        /\ locking' = locking
    BY DEF Crash
  <1>2. /\ pc \in [Caller -> Places] /\ HasMutex /\ HasFlock
        /\ mutex \in [Agent -> [Key -> Caller \union {NoOne}]]
        /\ flock \in [Key -> Caller \union {NoOne}]
    BY DEF IInv, CacheTypeOK
  <1>3. CacheTypeOK'
    BY <1>1, <1>2 DEF IInv, CacheTypeOK, Places
  <1>4. \A d \in Caller : pc'[d] \in Inside => Home[d] # a /\ pc'[d] = pc[d]
    BY <1>1 DEF Inside, Locked
  <1>5. HasMutex'
    BY <1>1, <1>2, <1>4, Constants DEF HasMutex
  <1>6. HasFlock'
    BY <1>1, <1>2, <1>4, Constants DEF HasFlock, Inside
  <1> QED
    BY <1>3, <1>5, <1>6 DEF IInv

(* ------------------------------------------------------ the invariant --- *)
Untouched == UNCHANGED <<pc, mutex, flock, locking>>

LEMMA Classified ==
    ASSUME CacheTypeOK, [CacheNext]_cacheVars
    PROVE  \/ Untouched
           \/ \E c \in Caller : TakeBuildLock(c) \/ TakeFileLock(c)
           \/ \E c \in Caller, next \in Places : Moves(c, next)
           \/ \E c \in Caller, next \in Places : Leaves(c, next) /\ pc[c] \in Inside
           \/ \E a \in Agent : Crash(a)
  <1> USE DEF Places, Inside, Locked
  <1>1. ASSUME NEW c \in Caller, Look(c) \/ LeaseFound(c) \/ Recheck(c) \/ Rename(c) \/ TakeTheirs(c)
        PROVE  \E next \in Places : Moves(c, next)
    BY <1>1 DEF Look, LeaseFound, Recheck, Rename, TakeTheirs, Moves, At
  <1>2. ASSUME NEW c \in Caller, \/ List(c) \/ RemoveSome(c) \/ RemoveAll(c)
                                 \/ EvictionEnds(c) \/ HandBack(c) \/ Dismiss(c)
        PROVE  \E next \in Places : Moves(c, next)
    BY <1>2 DEF List, RemoveSome, RemoveAll, EvictionEnds, HandBack, Dismiss, Moves, At
  <1>3. ASSUME NEW c \in Caller, BuildFails(c) \/ GiveUp(c) \/ LeaseBuilt(c)
        PROVE  (\E next \in Places : Leaves(c, next)) /\ pc[c] \in Inside
    BY <1>3 DEF BuildFails, GiveUp, LeaseBuilt, Leaves
  <1>4. ASSUME NEW a \in Agent, SweepUnfinished(a) PROVE Untouched
    BY <1>4 DEF SweepUnfinished, Untouched
  <1>5. CASE UNCHANGED cacheVars
    BY <1>5 DEF cacheVars, Untouched
  <1> QED
    BY <1>1, <1>2, <1>3, <1>4, <1>5 DEF CacheNext, Acquiring

LEMMA Inductive == CacheSpec => []IInv
  <1>1. CacheInit => IInv
    BY Constants DEF CacheInit, IInv, CacheTypeOK, HasMutex, HasFlock, Places, Inside, Locked
  <1>2. ASSUME IInv, [CacheNext]_cacheVars PROVE IInv'
    <2>1. CASE Untouched
      BY <1>2, <2>1 DEF Untouched, IInv, CacheTypeOK, HasMutex, HasFlock
    <2> QED
      BY <1>2, <2>1, Classified, MovesStep, LeavesStep, TakeBuildLockStep, TakeFileLockStep, CrashStep
         DEF IInv
  <1> QED
    BY <1>1, <1>2, PTL DEF CacheSpec

(* "Two tasks wanting the same environment build it once" (cache.py:11): the  *)
(* builds of one environment exclude each other, whatever is evicted, fails,  *)
(* or dies with its agent, save between agents one of which the volume        *)
(* refused the lock file.                                                     *)
THEOREM BuiltOnceHolds == CacheSpec => []BuiltOnce
  <1>1. IInv => BuiltOnce
    <2> SUFFICES ASSUME IInv, NEW c \in Caller, NEW d \in Caller, c # d, Wants[c] = Wants[d],
                        pc[c] \in Locked, pc[d] \in Locked
                 PROVE  Home[c] # Home[d] /\ ~({Home[c], Home[d]} \subseteq locking)
      BY DEF BuiltOnce
    <2>1. mutex[Home[c]][Wants[c]] = c /\ mutex[Home[d]][Wants[d]] = d
      BY DEF IInv, HasMutex, Inside
    <2>2. /\ Home[c] \in locking => flock[Wants[c]] = c
          /\ Home[d] \in locking => flock[Wants[d]] = d
      BY DEF IInv, HasFlock
    <2> QED
      BY <2>1, <2>2
  <1> QED
    BY <1>1, Inductive, PTL

(* -------------------------------------------------------------- the node --- *)
(* ------------------------------------------------------ counting cards --- *)
LEMMA CardSetIs ==
    \A S, c : c \in CardSet(S) <=> \E t \in S : c \in {t} \X (1 .. Wanted[t])
  BY DEF CardSet

LEMMA CardsFinite ==
    ASSUME NEW S \in SUBSET Task
    PROVE  IsFiniteSet(CardSet(S)) /\ CardsOf(S) \in Nat
  <1> DEFINE T == {{t} \X (1 .. Wanted[t]) : t \in S}
             F == [t \in S |-> {t} \X (1 .. Wanted[t])]
  <1>1. IsFiniteSet(S)
    BY PlacementAssumption, FS_Subset
  <1>2. F \in Surjection(S, T)
    BY DEF Surjection
  <1>3. IsFiniteSet(T)
    BY <1>1, <1>2, FS_Surjection
  <1>4. ASSUME NEW x \in T PROVE IsFiniteSet(x)
    <2>1. PICK t \in S : x = {t} \X (1 .. Wanted[t])
      BY <1>4
    <2>2. Wanted[t] \in Int
      BY PlacementAssumption
    <2>3. 1 \in Int
      OBVIOUS
    <2>4. IsFiniteSet(1 .. Wanted[t])
      BY <2>2, <2>3, FS_Interval
    <2>5. IsFiniteSet({t})
      BY FS_Singleton
    <2> QED
      BY <2>1, <2>4, <2>5, FS_Product
  <1>5. IsFiniteSet(UNION T)
    BY <1>3, <1>4, FS_UNION
  <1> QED
    BY <1>5, FS_CardinalityType DEF CardSet, CardsOf

LEMMA CardsMore ==
    ASSUME NEW A \in SUBSET Task, NEW B \in SUBSET Task, A \subseteq B
    PROVE  CardsOf(A) <= CardsOf(B)
  <1>1. CardSet(A) \subseteq CardSet(B)
    BY CardSetIs
  <1> QED
    BY <1>1, CardsFinite, FS_Subset DEF CardsOf

LEMMA CardsSame ==
    ASSUME NEW A \in SUBSET Task, NEW B \in SUBSET Task,
           \A t \in Task : Wanted[t] # 0 => (t \in A <=> t \in B)
    PROVE  CardsOf(A) = CardsOf(B)
  <1>1. \A t \in Task : Wanted[t] = 0 => {t} \X (1 .. Wanted[t]) = {}
    BY PlacementAssumption
  <1>2. ASSUME NEW c PROVE c \in CardSet(A) <=> c \in CardSet(B)
    BY <1>1, CardSetIs
  <1>3. CardSet(A) = CardSet(B)
    BY <1>2
  <1> QED
    BY <1>3 DEF CardsOf

LEMMA CardsTwo ==
    ASSUME NEW A \in SUBSET Task, NEW B \in SUBSET Task, A \cap B = {}
    PROVE  CardsOf(A \union B) = CardsOf(A) + CardsOf(B)
  <1>1. CardSet(A \union B) = CardSet(A) \union CardSet(B)
    BY CardSetIs
  <1>2. CardSet(A) \cap CardSet(B) = {}
    BY CardSetIs
  <1> PICK U, V : U = CardSet(A) /\ V = CardSet(B)
    OBVIOUS
  <1>3. IsFiniteSet(U) /\ IsFiniteSet(V) /\ Cardinality(U) \in Nat /\ Cardinality(V) \in Nat
    BY CardsFinite DEF CardsOf
  <1>4. U \cap V = {} /\ Cardinality({}) = 0
    BY <1>2, FS_EmptySet
  <1>5. Cardinality(U \union V) = Cardinality(U) + Cardinality(V) - Cardinality(U \cap V)
    BY <1>3, FS_Union
  <1>6. Cardinality(U \cap V) = 0
    BY <1>4
  <1> PICK u, v : u = Cardinality(U) /\ v = Cardinality(V)
    OBVIOUS
  <1>7. u \in Nat /\ v \in Nat /\ Cardinality(U \union V) = u + v - 0
    BY <1>3, <1>5, <1>6
  <1>8. Cardinality(U \union V) = u + v
    BY <1>7
  <1> QED
    BY <1>1, <1>8 DEF CardsOf

LEMMA CardsOne ==
    ASSUME NEW t \in Task
    PROVE  CardsOf({t}) = Wanted[t]
  <1>1. CardSet({t}) = {t} \X (1 .. Wanted[t])
    BY CardSetIs
  <1>2. Wanted[t] \in Nat
    BY PlacementAssumption
  <1>3. IsFiniteSet(1 .. Wanted[t]) /\ Cardinality(1 .. Wanted[t]) = Wanted[t]
    BY <1>2, FS_Interval
  <1>4. IsFiniteSet({t}) /\ Cardinality({t}) = 1
    BY FS_Singleton
  <1>5. Cardinality({t} \X (1 .. Wanted[t])) = 1 * Wanted[t]
    BY <1>3, <1>4, FS_Product
  <1>6. 1 * Wanted[t] = Wanted[t]
    BY <1>2
  <1> QED
    BY <1>1, <1>5, <1>6 DEF CardsOf

(* ------------------------------------------------------------ placement --- *)
Word(n) == [kind : {"free"}, cards : 0 .. Cards[n]] \union [kind : {"ended"}, task : Task]
Running(n) == {t \in Task : at[t] = n /\ has[t] = "runs"}
Holding(n) == {t \in Task : at[t] = n /\ has[t] \in {"runs", "ended"}}
Open(n) == {t \in Task : record[t] = "open" /\ at[t] = n}
Due(n, i) == {orders[n][k] : k \in 1 .. i}

(* A task that was chosen has room beside what runs and all that is to be     *)
(* taken before it.                                                           *)
OrdersOK(n) ==
    /\ orders[n] \in Seq(Task)
    /\ \A i \in 1 .. Len(orders[n]) :
          /\ at[orders[n][i]] = n /\ has[orders[n][i]] = "none" /\ record[orders[n][i]] = "open"
          /\ orders[n][i] \notin Named /\ Wanted[orders[n][i]] # 0
             => CardsOf(Running(n) \union Due(n, i)) <= Cards[n]
    /\ \A i, j \in 1 .. Len(orders[n]) : orders[n][i] = orders[n][j] => i = j
ReportsOK(n) ==
    /\ reports[n] \in Seq(Word(n))
    /\ \A i \in 1 .. Len(reports[n]) :
          reports[n][i].kind = "ended" => has[reports[n][i].task] \in {"ended", "over"}
RoomOK(n) == shown[n] \in Nat /\ shown[n] <= Cards[n] /\ Held(n) <= Cards[n]
TaskOK(t) ==
    /\ has[t] = "runs" => record[t] = "open"
    /\ record[t] = "none" => has[t] = "none"
    /\ record[t] # "none" => at[t] \in Host

PlaceTypes ==
    /\ record \in [Task -> {"none", "open", "closed"}]
    /\ at = [t \in Task |-> at[t]]
    /\ has \in [Task -> {"none", "runs", "ended", "over"}]
    /\ shown = [n \in Host |-> shown[n]]
    /\ orders = [n \in Host |-> orders[n]]
    /\ reports = [n \in Host |-> reports[n]]
PlaceInv ==
    /\ PlaceTypes
    /\ \A n \in Host : OrdersOK(n) /\ ReportsOK(n) /\ RoomOK(n)
    /\ \A t \in Task : TaskOK(t)
    /\ refused \subseteq Named

LEMMA HeldIs == \A n : Held(n) = CardsOf(Holding(n)) /\ Runs(n) = CardsOf(Running(n)) /\ Promised(n) = CardsOf(Open(n))
  BY DEF Held, Runs, Promised, Holding, Running, Open

LEMMA OrdersStay ==
    ASSUME NEW n \in Host, OrdersOK(n), NEW d \in {0, 1}, orders'[n] \in Seq(Task),
           \A i \in 1 .. Len(orders'[n]) : i + d \in 1 .. Len(orders[n]) /\ orders'[n][i] = orders[n][i + d],
           \A i \in 1 .. Len(orders'[n]) :
              /\ at'[orders'[n][i]] = n /\ has'[orders'[n][i]] = "none" /\ record'[orders'[n][i]] = "open",
           Running(n)' \subseteq Running(n) \union Due(n, d)
    PROVE  OrdersOK(n)'
  <1>1. orders[n] \in Seq(Task) /\ Len(orders[n]) \in Nat /\ Len(orders'[n]) \in Nat
    BY LenProperties DEF OrdersOK
  <1>2. ASSUME NEW i \in 1 .. Len(orders'[n]), orders'[n][i] \notin Named, Wanted[orders'[n][i]] # 0
        PROVE  CardsOf(Running(n) \union Due(n, i))' <= Cards[n]
    <2> PICK j : j = i + d
      OBVIOUS
    <2>1. j \in 1 .. Len(orders[n]) /\ orders[n][j] = orders'[n][i]
      OBVIOUS
    <2>2. CardsOf(Running(n) \union Due(n, j)) <= Cards[n]
      BY <1>2, <2>1 DEF OrdersOK
    <2>3. Due(n, i)' \subseteq Due(n, j)
      <3>1. ASSUME NEW k \in 1 .. i PROVE orders'[n][k] \in Due(n, j)
        <4>1. k \in 1 .. Len(orders'[n])
          BY <1>1
        <4>2. k + d \in 1 .. j /\ orders'[n][k] = orders[n][k + d]
          BY <4>1
        <4> QED
          BY <4>2 DEF Due
      <3> QED
        BY <3>1 DEF Due
    <2>4. Due(n, d) \subseteq Due(n, j)
      <3>1. \A k \in 1 .. d : k \in 1 .. j
        OBVIOUS
      <3> QED
        BY <3>1 DEF Due
    <2>5. Running(n) \subseteq Task /\ Due(n, j) \subseteq Task
      <3>1. \A k \in 1 .. j : orders[n][k] \in Task
        BY <1>1, <2>1, ElementOfSeq
      <3> QED
        BY <3>1 DEF Running, Due
    <2> PICK A, B : A = Running(n)' \union Due(n, i)' /\ B = Running(n) \union Due(n, j)
      OBVIOUS
    <2>6. A \in SUBSET Task /\ B \in SUBSET Task /\ A \subseteq B
      BY <2>3, <2>4, <2>5
    <2>7. CardsOf(A) <= CardsOf(B)
      BY <2>6, CardsMore
    <2>8. CardsOf(A) \in Nat /\ CardsOf(B) \in Nat /\ Cards[n] \in Nat
      BY <2>6, CardsFinite, PlacementAssumption
    <2>9. CardsOf(Running(n) \union Due(n, i))' = CardsOf(A)
      BY DEF CardsOf, CardSet
    <2> QED
      BY <2>2, <2>7, <2>8, <2>9
  <1>3. ASSUME NEW i \in 1 .. Len(orders'[n]), NEW j \in 1 .. Len(orders'[n]), orders'[n][i] = orders'[n][j]
        PROVE  i = j
    <2>1. i + d = j + d
      BY <1>3 DEF OrdersOK
    <2> QED
      BY <2>1
  <1> QED
    BY <1>2, <1>3 DEF OrdersOK

(* At a host where nothing is taken.                                          *)
LEMMA RoomStays ==
    ASSUME NEW n \in Host, RoomOK(n), shown'[n] \in Nat, shown'[n] <= Cards[n], Holding(n)' \subseteq Holding(n)
    PROVE  RoomOK(n)'
  <1> PICK A, B : A = Holding(n) /\ B = Holding(n)'
    OBVIOUS
  <1>1. A \in SUBSET Task /\ B \in SUBSET Task
    BY DEF Holding
  <1>2. CardsOf(B) <= CardsOf(A) /\ CardsOf(A) \in Nat /\ CardsOf(B) \in Nat
    BY <1>1, CardsMore, CardsFinite
  <1>3. Held(n)' = CardsOf(B) /\ Held(n) = CardsOf(A)
    BY HeldIs DEF Held, Holding, CardsOf, CardSet
  <1>4. Cards[n] \in Nat
    BY PlacementAssumption
  <1> QED
    BY <1>2, <1>3, <1>4 DEF RoomOK

LEMMA ReportsStay ==
    ASSUME NEW n \in Host, ReportsOK(n), reports'[n] = reports[n],
           \A t \in Task : has[t] \in {"ended", "over"} => has'[t] \in {"ended", "over"}
    PROVE  ReportsOK(n)'
  <1>1. \A i \in 1 .. Len(reports[n]) : reports[n][i].kind = "ended" => reports[n][i].task \in Task
    <2>1. \A i \in 1 .. Len(reports[n]) : reports[n][i] \in Word(n)
      BY DEF ReportsOK
    <2> QED
      BY <2>1 DEF Word
  <1> QED
    BY <1>1 DEF ReportsOK, Word

LEMMA ReportsGrow ==
    ASSUME NEW n \in Host, ReportsOK(n), NEW w \in Word(n), reports'[n] = Append(reports[n], w),
           w.kind = "ended" => has'[w.task] \in {"ended", "over"},
           \A t \in Task : has[t] \in {"ended", "over"} => has'[t] \in {"ended", "over"}
    PROVE  ReportsOK(n)'
  <1>1. \A i \in 1 .. Len(reports[n]) : reports[n][i].kind = "ended" => reports[n][i].task \in Task
    <2>1. \A i \in 1 .. Len(reports[n]) : reports[n][i] \in Word(n)
      BY DEF ReportsOK
    <2> QED
      BY <2>1 DEF Word
  <1>2. /\ reports'[n] \in Seq(Word(n)) /\ Len(reports'[n]) = Len(reports[n]) + 1 /\ Len(reports[n]) \in Nat
        /\ reports'[n][Len(reports[n]) + 1] = w
        /\ \A i \in 1 .. Len(reports[n]) : reports'[n][i] = reports[n][i]
    BY AppendProperties, LenProperties DEF ReportsOK
  <1>3. ASSUME NEW i \in 1 .. Len(reports'[n]), reports'[n][i].kind = "ended"
        PROVE  has'[reports'[n][i].task] \in {"ended", "over"}
    <2>1. CASE i \in 1 .. Len(reports[n])
      BY <1>1, <1>2, <1>3, <2>1 DEF ReportsOK
    <2>2. CASE i = Len(reports[n]) + 1
      BY <1>2, <1>3, <2>2
    <2> QED
      BY <1>2, <2>1, <2>2
  <1> QED
    BY <1>2, <1>3 DEF ReportsOK, Word

LEMMA ReportsShrink ==
    ASSUME NEW n \in Host, ReportsOK(n), reports[n] # <<>>, reports'[n] = Tail(reports[n]), has' = has
    PROVE  ReportsOK(n)'
  <1>1. /\ reports'[n] \in Seq(Word(n)) /\ Len(reports'[n]) = Len(reports[n]) - 1 /\ Len(reports[n]) \in Nat
        /\ \A i \in 1 .. Len(reports[n]) - 1 : reports'[n][i] = reports[n][i + 1]
    BY HeadTailProperties, LenProperties DEF ReportsOK
  <1>2. \A i \in 1 .. Len(reports[n]) - 1 : i + 1 \in 1 .. Len(reports[n])
    BY <1>1
  <1> QED
    BY <1>1, <1>2 DEF ReportsOK, Word

(* ------------------------------------------------- what may be chosen --- *)
(* What is chosen together fits beside all that is promised already.          *)
LEMMA ChooseFits ==
    ASSUME NEW S \in SUBSET Task, NEW f \in [S -> Host], CanChoose(f, S), NEW n \in Host, NEW t \in S,
           shown[n] \in Nat, shown[n] <= Cards[n], \A x \in S : record[x] = "none",
           f[t] = n, Wanted[t] # 0
    PROVE  CardsOf(Open(n) \union {x \in S : f[x] = n}) <= Cards[n]
  <1>1. PICK chosen : chosen = SetToSeq(S)
    OBVIOUS
  <1>2. chosen \in Seq(S) /\ Range(chosen) = S /\ Distinct(chosen)
    <2>1. IsFiniteSet(S)
      BY PlacementAssumption, FS_Subset
    <2> QED
      BY <1>1, <2>1, SeqOfSet
  <1>3. Len(chosen) \in Nat /\ DOMAIN chosen = 1 .. Len(chosen)
    BY <1>2, LenProperties
  <1>4. \A x \in S : \E k \in 1 .. Len(chosen) : chosen[k] = x
    BY <1>2, <1>3 DEF Range
  <1>5. \A k \in 1 .. Len(chosen) : chosen[k] \in S
    BY <1>2, ElementOfSeq
  <1>6. PICK i \in 1 .. Len(chosen) : /\ f[chosen[i]] = n /\ Wanted[chosen[i]] # 0
                                     /\ \A k \in 1 .. Len(chosen) :
                                           f[chosen[k]] = n /\ Wanted[chosen[k]] # 0 => k <= i
    <2> DEFINE N == {k \in 1 .. Len(chosen) : f[chosen[k]] = n /\ Wanted[chosen[k]] # 0}
    <2>1. N \in SUBSET (0 .. Len(chosen)) /\ N # {}
      BY <1>4
    <2>2. \E k \in N : \A m \in N : m <= k
      BY <1>3, <2>1, LastOf
    <2> QED
      BY <2>2
  <1>7. PICK A : A = {chosen[k] : k \in {k \in 1 .. i - 1 : f[chosen[k]] = n}}
    OBVIOUS
  <1>8. PICK t0 : t0 = chosen[i]
    OBVIOUS
  <1>9. PICK X : X = {x \in S : f[x] = n}
    OBVIOUS
  <1>10. PICK O : O = Open(n)
    OBVIOUS
  <1>11. t0 \in S /\ t0 \in Task /\ X \in SUBSET Task /\ O \in SUBSET Task /\ O \cap X = {}
    BY <1>5, <1>8, <1>9, <1>10 DEF Open
  <1>12. A \in SUBSET Task /\ A \subseteq X /\ t0 \in X
    <2>1. \A k \in 1 .. i - 1 : k \in 1 .. Len(chosen)
      BY <1>3
    <2>2. \A k \in 1 .. i - 1 : chosen[k] \in S
      BY <1>5, <2>1
    <2> QED
      BY <1>6, <1>7, <1>8, <1>9, <1>11, <2>2
  <1>13. t0 \notin A
    <2>1. \A k \in 1 .. i - 1 : k \in 1 .. Len(chosen) /\ k # i
      BY <1>3
    <2> QED
      BY <1>2, <1>7, <1>8, <2>1 DEF Distinct
  <1>14. \A x \in X : Wanted[x] # 0 => x \in A \union {t0}
    <2>1. SUFFICES ASSUME NEW x \in X, Wanted[x] # 0 PROVE x \in A \union {t0}
      OBVIOUS
    <2>2. PICK k \in 1 .. Len(chosen) : chosen[k] = x
      BY <1>4, <1>9
    <2>3. k <= i
      BY <1>6, <1>9, <2>1, <2>2
    <2>4. CASE k = i
      BY <1>8, <2>2, <2>4
    <2>5. CASE k # i
      <3>1. k \in 1 .. i - 1
        BY <1>3, <2>3, <2>5
      <3> QED
        BY <1>7, <1>9, <2>2, <3>1
    <2> QED
      BY <2>4, <2>5
  <1>15. Free(n, CardsOf(A)) >= Wanted[t0]
    <2>1. f[chosen[i]] = n
      BY <1>6
    <2>2. [m \in Host |-> Free(m, CardsOf({chosen[k] : k \in {k \in 1 .. i - 1 : f[chosen[k]] = m}}))][n] >= Wanted[t0]
      BY <1>1, <1>8, <2>1 DEF CanChoose
    <2> QED
      BY <1>7, <2>2
  <1>16. Promised(n) = CardsOf(O)
    BY <1>10 DEF Promised, Open
  <1>17. CardsOf(O) \in Nat /\ CardsOf(A) \in Nat /\ Wanted[t0] \in Nat /\ Cards[n] \in Nat
    BY <1>11, <1>12, CardsFinite, PlacementAssumption
  <1>18. CardsOf(O) + CardsOf(A) + Wanted[t0] <= shown[n]
    <2>1. PICK p, a, w, h : p = CardsOf(O) /\ a = CardsOf(A) /\ w = Wanted[t0] /\ h = shown[n]
      OBVIOUS
    <2>2. p \in Nat /\ a \in Nat /\ w \in Nat /\ h \in Nat /\ w # 0
      BY <1>6, <1>8, <1>17, <2>1
    <2>3. Minus(Minus(h, p + a), p + a) >= w
      BY <1>15, <1>16, <2>1 DEF Free
    <2>4. p + a + w <= h
      BY <2>2, <2>3 DEF Minus
    <2> QED
      BY <2>1, <2>4
  <1>19. CardsOf(A \union {t0}) = CardsOf(A) + Wanted[t0]
    <2>1. {t0} \in SUBSET Task /\ A \cap {t0} = {}
      BY <1>11, <1>13
    <2>2. CardsOf(A \union {t0}) = CardsOf(A) + CardsOf({t0})
      BY <1>12, <2>1, CardsTwo
    <2> QED
      BY <1>11, <2>2, CardsOne
  <1>20. CardsOf(X) = CardsOf(A \union {t0})
    <2>1. A \union {t0} \in SUBSET Task
      BY <1>11, <1>12
    <2>2. \A x \in Task : Wanted[x] # 0 => (x \in X <=> x \in A \union {t0})
      BY <1>12, <1>14
    <2> QED
      BY <1>11, <2>1, <2>2, CardsSame
  <1>21. CardsOf(O \union X) = CardsOf(O) + CardsOf(X)
    BY <1>11, CardsTwo
  <1>22. CardsOf(O \union X) <= Cards[n]
    BY <1>17, <1>18, <1>19, <1>20, <1>21
  <1> QED
    BY <1>9, <1>10, <1>22

LEMMA CommandKeeps ==
    ASSUME PlaceInv, NEW S \in SUBSET Task, NEW f \in [S -> Host], Command(f), \A t \in S : record[t] = "none",
           \A n \in Host : \A t \in S : f[t] = n /\ t \notin Named /\ Wanted[t] # 0
              => CardsOf(Open(n) \union {x \in S : f[x] = n}) <= Cards[n]
    PROVE  PlaceInv'
  <1>1. /\ \A t \in Task : record'[t] = (IF t \in S THEN "open" ELSE record[t])
        /\ \A t \in Task : at'[t] = (IF t \in S THEN f[t] ELSE at[t])
        /\ has' = has /\ shown' = shown /\ reports' = reports /\ refused' = refused
    BY DEF Command
  <1>2. \A t \in S : has[t] = "none"
    BY DEF PlaceInv, TaskOK
  <1>3. PlaceTypes'
    BY DEF PlaceInv, PlaceTypes, Command
  <1>4. \A t \in Task : TaskOK(t)'
    BY <1>1, <1>2 DEF PlaceInv, TaskOK
  <1>5. ASSUME NEW n \in Host PROVE OrdersOK(n)'
    <2>1. PICK X, q : X = {x \in S : f[x] = n} /\ q = SetToSeq(X)
      OBVIOUS
    <2>2. q \in Seq(X) /\ Range(q) = X /\ Distinct(q) /\ q \in Seq(Task)
      <3>1. X \in SUBSET Task
        BY <2>1
      <3>2. IsFiniteSet(X)
        BY <3>1, PlacementAssumption, FS_Subset
      <3>3. q \in Seq(X) /\ Range(q) = X /\ Distinct(q)
        BY <2>1, <3>2, SeqOfSet
      <3> QED
        BY <3>1, <3>3
    <2>3. orders'[n] = orders[n] \o q
      BY <2>1 DEF Command
    <2>4. orders[n] \in Seq(Task) /\ OrdersOK(n)
      BY DEF PlaceInv, OrdersOK
    <2>5. PICK L, M : L = Len(orders[n]) /\ M = Len(q)
      OBVIOUS
    <2>6. /\ L \in Nat /\ M \in Nat /\ orders'[n] \in Seq(Task) /\ Len(orders'[n]) = L + M
          /\ \A i \in 1 .. L + M : orders'[n][i] = IF i <= L THEN orders[n][i] ELSE q[i - L]
      BY <2>2, <2>3, <2>4, <2>5, ConcatProperties, LenProperties
    <2>7. \A i \in 1 .. L : /\ orders'[n][i] = orders[n][i] /\ orders[n][i] \in Task \ S
                            /\ at[orders[n][i]] = n /\ has[orders[n][i]] = "none" /\ record[orders[n][i]] = "open"
      <3>1. \A i \in 1 .. L : orders[n][i] \in Task /\ i \in 1 .. L + M
        BY <2>4, <2>5, <2>6, ElementOfSeq
      <3>2. \A i \in 1 .. L : at[orders[n][i]] = n /\ has[orders[n][i]] = "none" /\ record[orders[n][i]] = "open"
        BY <2>4, <2>5 DEF OrdersOK
      <3> QED
        BY <2>6, <3>1, <3>2
    <2>8. \A i \in L + 1 .. L + M : orders'[n][i] = q[i - L] /\ q[i - L] \in X /\ i - L \in 1 .. M
      <3>1. \A i \in L + 1 .. L + M : i - L \in 1 .. M /\ i \in 1 .. L + M /\ ~ (i <= L)
        BY <2>6
      <3>2. \A k \in 1 .. M : q[k] \in X
        BY <2>2, <2>5, ElementOfSeq
      <3> QED
        BY <2>6, <3>1, <3>2
    <2>9. ASSUME NEW i \in 1 .. L + M
          PROVE  at'[orders'[n][i]] = n /\ has'[orders'[n][i]] = "none" /\ record'[orders'[n][i]] = "open"
      <3>1. CASE i \in 1 .. L
        BY <1>1, <2>7, <3>1
      <3>2. CASE i \in L + 1 .. L + M
        BY <1>1, <1>2, <2>1, <2>8, <3>2
      <3> QED
        BY <2>6, <3>1, <3>2
    <2>10. ASSUME NEW i \in 1 .. L + M, NEW j \in 1 .. L + M, orders'[n][i] = orders'[n][j] PROVE i = j
      <3>1. CASE i \in 1 .. L /\ j \in 1 .. L
        BY <2>4, <2>5, <2>7, <2>10, <3>1 DEF OrdersOK
      <3>2. CASE i \in L + 1 .. L + M /\ j \in L + 1 .. L + M
        <4>1. PICK a, b : a = i - L /\ b = j - L
          OBVIOUS
        <4>2. a \in 1 .. M /\ b \in 1 .. M /\ q[a] = q[b]
          BY <2>8, <2>10, <3>2, <4>1
        <4>3. a = b
          BY <2>2, <2>5, <4>2 DEF Distinct
        <4> QED
          BY <2>6, <4>1, <4>3
      <3>3. CASE i \in 1 .. L /\ j \in L + 1 .. L + M
        BY <2>1, <2>7, <2>8, <2>10, <3>3
      <3>4. CASE i \in L + 1 .. L + M /\ j \in 1 .. L
        BY <2>1, <2>7, <2>8, <2>10, <3>4
      <3> QED
        BY <2>6, <3>1, <3>2, <3>3, <3>4
    <2>11. Running(n)' = Running(n) /\ Running(n) \subseteq Open(n)
      BY <1>1, <1>2 DEF Running, Open, PlaceInv, TaskOK
    <2>12. ASSUME NEW i \in 1 .. L + M, orders'[n][i] \notin Named, Wanted[orders'[n][i]] # 0
           PROVE  CardsOf(Running(n) \union Due(n, i))' <= Cards[n]
      <3>1. CASE i \in 1 .. L
        <4>1. \A k \in 1 .. i : k \in 1 .. L
          BY <2>6, <3>1
        <4>2. Due(n, i)' = Due(n, i)
          BY <2>7, <4>1 DEF Due
        <4>3. CardsOf(Running(n) \union Due(n, i)) <= Cards[n]
          BY <2>4, <2>5, <2>7, <2>12, <3>1 DEF OrdersOK
        <4> QED
          BY <2>11, <4>2, <4>3 DEF CardsOf, CardSet
      <3>2. CASE i \in L + 1 .. L + M
        <4> PICK A, B : A = Running(n)' \union Due(n, i)' /\ B = Open(n) \union X
          OBVIOUS
        <4>1. \A k \in 1 .. i : orders'[n][k] \in Open(n) \union X
          <5>1. \A k \in 1 .. i : k \in 1 .. L \/ k \in L + 1 .. L + M
            BY <2>6
          <5>2. \A k \in 1 .. L : orders'[n][k] \in Open(n)
            BY <2>7 DEF Open
          <5> QED
            BY <2>8, <5>1, <5>2
        <4>2. A \subseteq B /\ B \in SUBSET Task /\ A \in SUBSET Task
          BY <2>1, <2>11, <4>1 DEF Due, Open
        <4>3. CardsOf(B) <= Cards[n]
          BY <2>1, <2>8, <2>12, <3>2
        <4>4. CardsOf(A) <= CardsOf(B) /\ CardsOf(A) \in Nat /\ CardsOf(B) \in Nat /\ Cards[n] \in Nat
          BY <4>2, CardsMore, CardsFinite, PlacementAssumption
        <4>5. CardsOf(Running(n) \union Due(n, i))' = CardsOf(A)
          BY DEF CardsOf, CardSet
        <4> QED
          BY <4>3, <4>4, <4>5
      <3> QED
        BY <2>6, <3>1, <3>2
    <2> QED
      BY <2>6, <2>9, <2>10, <2>12 DEF OrdersOK
  <1>6. ASSUME NEW n \in Host PROVE ReportsOK(n)' /\ RoomOK(n)'
    <2>1. ReportsOK(n) /\ RoomOK(n)
      BY DEF PlaceInv
    <2>2. Holding(n)' \subseteq Holding(n)
      BY <1>1, <1>2 DEF Holding
    <2>3. shown'[n] \in Nat /\ shown'[n] <= Cards[n]
      BY <1>1, <2>1 DEF RoomOK
    <2> QED
      BY <1>1, <2>1, <2>2, <2>3, ReportsStay, RoomStays
  <1> QED
    BY <1>1, <1>3, <1>4, <1>5, <1>6 DEF PlaceInv

(* -------------------------------------------------- what the node does --- *)
LEMMA TakeKeeps ==
    ASSUME PlaceInv, NEW n \in Host, Take(n)
    PROVE  PlaceInv'
  <1>1. OrdersOK(n) /\ ReportsOK(n) /\ RoomOK(n) /\ orders[n] # <<>> /\ orders[n] \in Seq(Task)
    BY DEF PlaceInv, OrdersOK, Take
  <1>2. PICK t : t = Head(orders[n])
    OBVIOUS
  <1>3. /\ t \in Task /\ t = orders[n][1] /\ Len(orders[n]) \in Nat \ {0} /\ 1 \in 1 .. Len(orders[n])
        /\ orders'[n] \in Seq(Task) /\ Len(orders'[n]) = Len(orders[n]) - 1
        /\ \A i \in 1 .. Len(orders'[n]) : orders'[n][i] = orders[n][i + 1]
    <2>1. orders'[n] = Tail(orders[n])
      BY DEF Take, PlaceInv, PlaceTypes
    <2> QED
      BY <1>1, <1>2, <2>1, HeadTailProperties, LenProperties
  <1>4. /\ \A m \in Host : m # n => orders'[m] = orders[m]
        /\ record' = record /\ at' = at /\ shown' = shown
        /\ orders' = [m \in Host |-> orders'[m]]
    BY DEF Take, PlaceInv, PlaceTypes
  <1>5. at[t] = n /\ has[t] = "none" /\ record[t] = "open"
    BY <1>1, <1>3 DEF OrdersOK
  <1>6. \A i \in 1 .. Len(orders'[n]) : i + 1 \in 1 .. Len(orders[n]) /\ orders[n][i + 1] # t
    <2>1. \A i \in 1 .. Len(orders'[n]) : i + 1 \in 1 .. Len(orders[n]) /\ i + 1 # 1
      BY <1>3
    <2> QED
      BY <1>1, <1>3, <2>1 DEF OrdersOK
  <1>7. Due(n, 1) = {t}
    BY <1>3 DEF Due
  <1>8. ASSUME NEW m \in Host, m # n, \A x \in Task : x # t => has'[x] = has[x], has'[t] # "none"
        PROVE  OrdersOK(m)' /\ RoomOK(m)'
    <2>1. OrdersOK(m) /\ RoomOK(m) /\ orders'[m] = orders[m]
      BY <1>4, <1>8 DEF PlaceInv
    <2>2. \A i \in 1 .. Len(orders[m]) : orders[m][i] # t /\ orders[m][i] \in Task
      <3>1. \A i \in 1 .. Len(orders[m]) : at[orders[m][i]] = m
        BY <2>1 DEF OrdersOK
      <3>2. \A i \in 1 .. Len(orders[m]) : orders[m][i] \in Task
        BY <2>1, ElementOfSeq DEF OrdersOK
      <3> QED
        BY <1>5, <1>8, <3>1, <3>2
    <2>3. Running(m)' \subseteq Running(m) /\ Holding(m)' \subseteq Holding(m)
      BY <1>4, <1>5, <1>8 DEF Running, Holding
    <2>4. OrdersOK(m)'
      <3>1. \A i \in 1 .. Len(orders'[m]) : i + 0 \in 1 .. Len(orders[m]) /\ orders'[m][i] = orders[m][i + 0]
        BY <2>1
      <3>2. orders'[m] \in Seq(Task)
        BY <2>1 DEF OrdersOK
      <3>3. \A i \in 1 .. Len(orders'[m]) :
               /\ at'[orders'[m][i]] = m /\ has'[orders'[m][i]] = "none" /\ record'[orders'[m][i]] = "open"
        <4>1. \A i \in 1 .. Len(orders[m]) :
                 at[orders[m][i]] = m /\ has[orders[m][i]] = "none" /\ record[orders[m][i]] = "open"
          BY <2>1 DEF OrdersOK
        <4>2. \A i \in 1 .. Len(orders[m]) : has'[orders[m][i]] = has[orders[m][i]]
          BY <1>8, <2>2
        <4> QED
          BY <1>4, <2>1, <4>1, <4>2
      <3>4. Running(m)' \subseteq Running(m) \union Due(m, 0)
        BY <2>3
      <3> QED
        BY <2>1, <3>1, <3>2, <3>3, <3>4, OrdersStay
    <2>5. RoomOK(m)'
      <3>1. shown'[m] \in Nat /\ shown'[m] <= Cards[m]
        BY <1>4, <2>1 DEF RoomOK
      <3> QED
        BY <2>1, <2>3, <3>1, RoomStays
    <2> QED
      BY <2>4, <2>5
  <1>9. ASSUME \A x \in Task : x # t => has'[x] = has[x], has'[t] # "none" PROVE OrdersOK(n)'
    <2>1. \A i \in 1 .. Len(orders'[n]) :
             /\ at'[orders'[n][i]] = n /\ has'[orders'[n][i]] = "none" /\ record'[orders'[n][i]] = "open"
      <3>1. \A i \in 1 .. Len(orders[n]) : orders[n][i] \in Task
        BY <1>1, ElementOfSeq
      <3>2. \A i \in 1 .. Len(orders[n]) :
               at[orders[n][i]] = n /\ has[orders[n][i]] = "none" /\ record[orders[n][i]] = "open"
        BY <1>1 DEF OrdersOK
      <3>3. \A i \in 1 .. Len(orders'[n]) : has'[orders[n][i + 1]] = has[orders[n][i + 1]]
        BY <1>6, <1>9, <3>1
      <3> QED
        BY <1>3, <1>4, <1>6, <3>2, <3>3
    <2>2. Running(n)' \subseteq Running(n) \union Due(n, 1)
      BY <1>4, <1>7, <1>9 DEF Running
    <2>3. \A i \in 1 .. Len(orders'[n]) : i + 1 \in 1 .. Len(orders[n]) /\ orders'[n][i] = orders[n][i + 1]
      BY <1>3, <1>6
    <2> QED
      BY <1>1, <1>3, <2>1, <2>2, <2>3, OrdersStay
  <1>10. \A x \in Task : has'[x] = has[x] \/ x = t
    BY <1>2 DEF Take, PlaceInv, PlaceTypes
  <1>11. CASE Held(n) + Wanted[t] <= Cards[n]
    <2>1. /\ has' = [has EXCEPT ![t] = "runs"] /\ reports' = reports /\ refused' = refused
          /\ has'[t] = "runs"
      BY <1>2, <1>3, <1>11 DEF Take, PlaceInv, PlaceTypes
    <2>2. PlaceTypes'
      BY <1>4, <2>1 DEF PlaceInv, PlaceTypes
    <2>3. \A x \in Task : TaskOK(x)'
      BY <1>4, <1>5, <1>10, <2>1 DEF PlaceInv, TaskOK
    <2>4. \A m \in Host : ReportsOK(m)'
      <3>1. \A x \in Task : has[x] \in {"ended", "over"} => has'[x] \in {"ended", "over"}
        BY <1>5, <1>10
      <3> QED
        BY <2>1, <3>1, ReportsStay DEF PlaceInv
    <2>5. RoomOK(n)'
      <3>1. PICK A, B : A = Holding(n) /\ B = Holding(n)'
        OBVIOUS
      <3>2. A \in SUBSET Task /\ {t} \in SUBSET Task /\ A \cap {t} = {} /\ B = A \union {t}
        BY <1>3, <1>4, <1>5, <1>10, <2>1, <3>1 DEF Holding
      <3>3. CardsOf(B) = CardsOf(A) + CardsOf({t})
        BY <3>2, CardsTwo
      <3>4. CardsOf({t}) = Wanted[t]
        BY <1>3, CardsOne
      <3>5. Held(n)' = CardsOf(B) /\ Held(n) = CardsOf(A)
        BY <3>1, HeldIs DEF Held, Holding, CardsOf, CardSet
      <3> QED
        BY <1>1, <1>4, <1>11, <3>3, <3>4, <3>5 DEF RoomOK
    <2>6. \A m \in Host : OrdersOK(m)' /\ RoomOK(m)'
      BY <1>8, <1>9, <1>10, <2>1, <2>5
    <2> QED
      BY <2>1, <2>2, <2>3, <2>4, <2>6 DEF PlaceInv
  <1>12. CASE ~ (Held(n) + Wanted[t] <= Cards[n])
    <2>1. /\ has' = [has EXCEPT ![t] = "over"] /\ has'[t] = "over"
          /\ refused' = (IF Runs(n) + Wanted[t] > Cards[n] THEN refused \union {t} ELSE refused)
          /\ reports' = [reports EXCEPT ![n] = Append(@, [kind |-> "ended", task |-> t])]
      BY <1>2, <1>3, <1>12 DEF Take, Say, PlaceInv, PlaceTypes
    <2>2. PlaceTypes'
      BY <1>4, <2>1 DEF PlaceInv, PlaceTypes
    <2>3. \A x \in Task : TaskOK(x)'
      BY <1>4, <1>5, <1>10, <2>1 DEF PlaceInv, TaskOK
    <2>4. ASSUME NEW m \in Host PROVE ReportsOK(m)'
      <3>1. \A x \in Task : has[x] \in {"ended", "over"} => has'[x] \in {"ended", "over"}
        BY <1>5, <1>10
      <3>2. CASE m # n
        BY <2>1, <3>1, <3>2, ReportsStay DEF PlaceInv, PlaceTypes
      <3>3. CASE m = n
        <4>1. PICK w : w = [kind |-> "ended", task |-> t]
          OBVIOUS
        <4>2. w \in Word(n) /\ reports'[n] = Append(reports[n], w) /\ w.task = t
          BY <1>3, <2>1, <4>1 DEF Word, PlaceInv, PlaceTypes
        <4> QED
          BY <1>1, <2>1, <3>1, <3>3, <4>2, ReportsGrow
      <3> QED
        BY <3>2, <3>3
    <2>5. RoomOK(n)'
      <3>1. Holding(n)' \subseteq Holding(n)
        BY <1>4, <1>10, <2>1 DEF Holding
      <3>2. shown'[n] \in Nat /\ shown'[n] <= Cards[n]
        BY <1>1, <1>4 DEF RoomOK
      <3> QED
        BY <1>1, <3>1, <3>2, RoomStays
    <2>6. \A m \in Host : OrdersOK(m)' /\ RoomOK(m)'
      BY <1>8, <1>9, <1>10, <2>1, <2>5
    <2>7. refused' \subseteq Named
      <3> SUFFICES ASSUME Runs(n) + Wanted[t] > Cards[n] PROVE t \in Named
        BY <2>1 DEF PlaceInv
      <3>1. SUFFICES ASSUME t \notin Named PROVE FALSE
        OBVIOUS
      <3>2. PICK R : R = Running(n)
        OBVIOUS
      <3>3. R \in SUBSET Task /\ {t} \in SUBSET Task /\ R \cap {t} = {}
        BY <1>3, <1>5, <3>2 DEF Running
      <3>4. CardsOf(R \union {t}) = CardsOf(R) + CardsOf({t})
        BY <3>3, CardsTwo
      <3>5. CardsOf({t}) = Wanted[t] /\ Runs(n) = CardsOf(R)
        BY <1>3, <3>2, CardsOne, HeldIs
      <3>6. CardsOf(R) \in Nat /\ Wanted[t] \in Nat /\ Cards[n] \in Nat /\ Held(n) \in Nat
        <4>1. Holding(n) \in SUBSET Task
          BY DEF Holding
        <4>2. Held(n) \in Nat
          BY <4>1, CardsFinite, HeldIs
        <4> QED
          BY <1>3, <3>3, <4>2, CardsFinite, PlacementAssumption
      <3>7. Wanted[t] # 0
        BY <1>1, <1>12, <3>6 DEF RoomOK
      <3>8. CardsOf(R \union {t}) <= Cards[n]
        BY <1>1, <1>3, <1>7, <3>1, <3>2, <3>7 DEF OrdersOK
      <3> QED
        BY <3>4, <3>5, <3>6, <3>8
    <2> QED
      BY <2>2, <2>3, <2>4, <2>6, <2>7 DEF PlaceInv
  <1> QED
    BY <1>11, <1>12

(* A step of the node that frees cards, or none.                              *)
LEMMA NodeKeeps ==
    ASSUME PlaceInv, NEW t \in Task, has[t] \in {"runs", "ended"},
           UNCHANGED <<record, at, shown, orders, refused>>,
           has' \in [Task -> {"none", "runs", "ended", "over"}], \A x \in Task : x # t => has'[x] = has[x],
           \/ has[t] = "runs" /\ has'[t] = "ended"
           \/ has[t] = "ended" /\ has'[t] = "over",
           reports' = [n \in Host |-> reports'[n]], \A n \in Host : ReportsOK(n)'
    PROVE  PlaceInv'
  <1>1. PlaceTypes'
    BY DEF PlaceInv, PlaceTypes
  <1>2. \A x \in Task : TaskOK(x)'
    BY DEF PlaceInv, TaskOK
  <1>3. ASSUME NEW n \in Host PROVE OrdersOK(n)' /\ RoomOK(n)'
    <2>1. OrdersOK(n) /\ RoomOK(n) /\ orders'[n] = orders[n] /\ orders[n] \in Seq(Task)
      BY DEF PlaceInv, OrdersOK
    <2>2. Running(n)' \subseteq Running(n) /\ Holding(n)' \subseteq Holding(n)
      BY DEF Running, Holding
    <2>3. OrdersOK(n)'
      <3>1. \A i \in 1 .. Len(orders'[n]) : i + 0 \in 1 .. Len(orders[n]) /\ orders'[n][i] = orders[n][i + 0]
        BY <2>1
      <3>2. \A i \in 1 .. Len(orders[n]) : 
               /\ orders[n][i] \in Task
               /\ at[orders[n][i]] = n /\ has[orders[n][i]] = "none" /\ record[orders[n][i]] = "open"
        BY <2>1, ElementOfSeq DEF OrdersOK
      <3>3. \A i \in 1 .. Len(orders[n]) : has'[orders[n][i]] = has[orders[n][i]]
        BY <3>2
      <3>4. Running(n)' \subseteq Running(n) \union Due(n, 0)
        BY <2>2
      <3>5. \A i \in 1 .. Len(orders'[n]) :
               /\ at'[orders'[n][i]] = n /\ has'[orders'[n][i]] = "none" /\ record'[orders'[n][i]] = "open"
        BY <2>1, <3>2, <3>3
      <3> QED
        BY <2>1, <3>1, <3>4, <3>5, OrdersStay
    <2>4. shown'[n] \in Nat /\ shown'[n] <= Cards[n]
      BY <2>1 DEF RoomOK
    <2> QED
      BY <2>1, <2>2, <2>3, <2>4, RoomStays
  <1> QED
    BY <1>1, <1>2, <1>3 DEF PlaceInv

LEMMA EndKeeps ==
    ASSUME PlaceInv, NEW t \in Task, End(t)
    PROVE  PlaceInv'
  <1>1. /\ has[t] = "runs" /\ has' = [has EXCEPT ![t] = "ended"] /\ has'[t] = "ended"
        /\ UNCHANGED <<record, at, shown, orders, refused>>
    BY DEF End, PlaceInv, PlaceTypes
  <1>2. at[t] \in Host
    BY <1>1 DEF PlaceInv, TaskOK
  <1>3. \A x \in Task : has[x] \in {"ended", "over"} => has'[x] \in {"ended", "over"}
    BY <1>1 DEF PlaceInv, PlaceTypes
  <1>4. ASSUME NEW n \in Host PROVE ReportsOK(n)'
    <2>1. CASE n # at[t]
      <3>1. reports'[n] = reports[n]
        BY <1>2, <2>1 DEF End, Say, PlaceInv, PlaceTypes
      <3> QED
        BY <1>3, <3>1, ReportsStay DEF PlaceInv
    <2>2. CASE n = at[t]
      <3>1. PICK w : w = [kind |-> "ended", task |-> t]
        OBVIOUS
      <3>2. w \in Word(n) /\ reports'[n] = Append(reports[n], w) /\ w.task = t
        BY <2>2, <3>1 DEF Word, End, Say, PlaceInv, PlaceTypes
      <3> QED
        BY <1>1, <1>3, <3>2, ReportsGrow DEF PlaceInv
    <2> QED
      BY <2>1, <2>2
  <1>5. /\ has' \in [Task -> {"none", "runs", "ended", "over"}] /\ \A x \in Task : x # t => has'[x] = has[x]
        /\ reports' = [n \in Host |-> reports'[n]]
    BY <1>1 DEF PlaceInv, PlaceTypes, End, Say
  <1> QED
    BY <1>1, <1>4, <1>5, NodeKeeps

LEMMA GiveBackKeeps ==
    ASSUME PlaceInv, NEW t \in Task, GiveBack(t)
    PROVE  PlaceInv'
  <1>1. /\ has[t] = "ended" /\ has' = [has EXCEPT ![t] = "over"] /\ has'[t] = "over" /\ reports' = reports
        /\ UNCHANGED <<record, at, shown, orders, refused>>
    BY DEF GiveBack, PlaceInv, PlaceTypes
  <1>2. \A x \in Task : has[x] \in {"ended", "over"} => has'[x] \in {"ended", "over"}
    BY <1>1 DEF PlaceInv, PlaceTypes
  <1>3. \A n \in Host : ReportsOK(n)'
    BY <1>1, <1>2, ReportsStay DEF PlaceInv
  <1>4. /\ has' \in [Task -> {"none", "runs", "ended", "over"}] /\ \A x \in Task : x # t => has'[x] = has[x]
        /\ reports' = [n \in Host |-> reports'[n]]
    BY <1>1 DEF PlaceInv, PlaceTypes
  <1> QED
    BY <1>1, <1>3, <1>4, NodeKeeps

(* ------------------------------------------------------- what is reported --- *)
LEMMA StillOK ==
    ASSUME NEW n \in Host, OrdersOK(n), UNCHANGED <<at, orders, has>>,
           \A x \in Task : has[x] = "none" => record'[x] = record[x]
    PROVE  OrdersOK(n)'
  <1>1. orders[n] \in Seq(Task)
    BY DEF OrdersOK
  <1>2. \A i \in 1 .. Len(orders[n]) : 
           /\ orders[n][i] \in Task
           /\ at[orders[n][i]] = n /\ has[orders[n][i]] = "none" /\ record[orders[n][i]] = "open"
    BY <1>1, ElementOfSeq DEF OrdersOK
  <1>3. \A i \in 1 .. Len(orders[n]) : record'[orders[n][i]] = "open"
    BY <1>2
  <1>4. Running(n)' = Running(n) /\ \A i : Due(n, i)' = Due(n, i)
    BY DEF Running, Due
  <1>5. \A i : CardsOf(Running(n) \union Due(n, i))' = CardsOf(Running(n) \union Due(n, i))
    BY <1>4 DEF CardsOf, CardSet
  <1> QED
    BY <1>1, <1>2, <1>3, <1>5 DEF OrdersOK

LEMMA ReportKeeps ==
    ASSUME PlaceInv, NEW n \in Host, Report(n)
    PROVE  PlaceInv'
  <1>1. UNCHANGED <<record, at, shown, orders, has, refused>>
    BY DEF Report
  <1>2. PlaceTypes'
    BY <1>1 DEF PlaceInv, PlaceTypes, Report, Say
  <1>3. \A x \in Task : TaskOK(x)'
    BY <1>1 DEF PlaceInv, TaskOK
  <1>4. \A m \in Host : OrdersOK(m)' /\ RoomOK(m)'
    <2>1. \A m \in Host : Holding(m)' = Holding(m)
      BY <1>1 DEF Holding
    <2> QED
      BY <1>1, <2>1, StillOK, RoomStays DEF PlaceInv, RoomOK
  <1>5. ASSUME NEW m \in Host PROVE ReportsOK(m)'
    <2>1. CASE m # n
      <3>1. reports'[m] = reports[m]
        BY <2>1 DEF Report, Say, PlaceInv, PlaceTypes
      <3> QED
        BY <1>1, <3>1, ReportsStay DEF PlaceInv
    <2>2. CASE m = n
      <3>1. PICK w : w = [kind |-> "free", cards |-> Cards[n] - Held(n)]
        OBVIOUS
      <3>2. Held(n) \in Nat /\ Cards[n] \in Nat /\ Held(n) <= Cards[n]
        <4>1. Holding(n) \in SUBSET Task
          BY DEF Holding
        <4> QED
          BY <4>1, CardsFinite, HeldIs, PlacementAssumption DEF PlaceInv, RoomOK
      <3>3. Cards[n] - Held(n) \in 0 .. Cards[n]
        BY <3>2
      <3>4. w \in Word(n) /\ w.kind = "free"
        BY <3>1, <3>3 DEF Word
      <3>5. reports'[n] = Append(reports[n], w)
        BY <3>1 DEF Report, Say, PlaceInv, PlaceTypes
      <3> QED
        BY <1>1, <2>2, <3>4, <3>5, ReportsGrow DEF PlaceInv
    <2> QED
      BY <2>1, <2>2
  <1> QED
    BY <1>1, <1>2, <1>3, <1>4, <1>5 DEF PlaceInv

LEMMA HearKeeps ==
    ASSUME PlaceInv, NEW n \in Host, Hear(n)
    PROVE  PlaceInv'
  <1>1. UNCHANGED <<at, orders, has, refused>> /\ reports[n] # <<>> /\ reports' = [reports EXCEPT ![n] = Tail(@)]
    BY DEF Hear
  <1>2. PICK w : w = Head(reports[n])
    OBVIOUS
  <1>3. w \in Word(n) /\ (w.kind = "ended" => has[w.task] \in {"ended", "over"})
    <2>1. ReportsOK(n) /\ reports[n] \in Seq(Word(n))
      BY DEF PlaceInv, ReportsOK
    <2>2. w = reports[n][1] /\ Len(reports[n]) \in Nat \ {0} /\ w \in Word(n)
      BY <1>1, <1>2, <2>1, HeadTailProperties, LenProperties
    <2> QED
      BY <2>1, <2>2 DEF ReportsOK
  <1>4. \A m \in Host : ReportsOK(m)'
    <2>1. \A m \in Host : m # n => reports'[m] = reports[m]
      BY <1>1 DEF PlaceInv, PlaceTypes
    <2>2. reports'[n] = Tail(reports[n])
      BY <1>1 DEF PlaceInv, PlaceTypes
    <2> QED
      BY <1>1, <2>1, <2>2, ReportsStay, ReportsShrink DEF PlaceInv
  <1>5. \A m \in Host : Holding(m)' = Holding(m)
    BY <1>1 DEF Holding
  <1>6. CASE w.kind = "free"
    <2>1. w.cards \in 0 .. Cards[n] /\ Cards[n] \in Nat
      BY <1>3, <1>6, PlacementAssumption DEF Word
    <2>2. record' = record /\ shown' = [shown EXCEPT ![n] = w.cards]
      BY <1>2, <1>6 DEF Hear
    <2>3. \A m \in Host : shown'[m] \in Nat /\ shown'[m] <= Cards[m]
      BY <2>1, <2>2 DEF PlaceInv, PlaceTypes, RoomOK
    <2>4. \A m \in Host : OrdersOK(m)' /\ RoomOK(m)'
      BY <1>1, <1>5, <2>2, <2>3, StillOK, RoomStays DEF PlaceInv
    <2>5. PlaceTypes' /\ \A x \in Task : TaskOK(x)'
      BY <1>1, <2>2 DEF PlaceInv, PlaceTypes, TaskOK
    <2> QED
      BY <1>1, <1>4, <2>4, <2>5 DEF PlaceInv
  <1>7. CASE w.kind # "free"
    <2>1. w.task \in Task /\ has[w.task] \in {"ended", "over"} /\ record[w.task] # "none"
      BY <1>3, <1>7 DEF Word, PlaceInv, TaskOK
    <2>2. shown' = shown /\ record' = [record EXCEPT ![w.task] = "closed"]
      BY <1>2, <1>7 DEF Hear
    <2>3. \A x \in Task : has[x] = "none" => record'[x] = record[x]
      BY <2>1, <2>2 DEF PlaceInv, PlaceTypes
    <2>4. \A m \in Host : OrdersOK(m)' /\ RoomOK(m)'
      BY <1>1, <1>5, <2>2, <2>3, StillOK, RoomStays DEF PlaceInv, RoomOK
    <2>5. PlaceTypes'
      BY <1>1, <2>2 DEF PlaceInv, PlaceTypes
    <2>6. \A x \in Task : TaskOK(x)'
      BY <1>1, <2>1, <2>2 DEF PlaceInv, PlaceTypes, TaskOK
    <2> QED
      BY <1>1, <1>4, <2>4, <2>5, <2>6 DEF PlaceInv
  <1> QED
    BY <1>6, <1>7

LEMMA PlaceInitInv == PlaceInit => PlaceInv
  <1> SUFFICES ASSUME PlaceInit PROVE PlaceInv
    OBVIOUS
  <1>1. PlaceTypes /\ refused \subseteq Named /\ \A t \in Task : TaskOK(t)
    <2>1. at = [t \in Task |-> at[t]]
      BY DEF PlaceInit
    <2>2. shown = [n \in Host |-> shown[n]]
      BY PlacementAssumption DEF PlaceInit
    <2>3. orders = [n \in Host |-> orders[n]] /\ reports = [n \in Host |-> reports[n]]
      BY DEF PlaceInit
    <2>4. \A t \in Task : record[t] = "none" /\ has[t] = "none"
      BY DEF PlaceInit
    <2>5. /\ record \in [Task -> {"none", "open", "closed"}]
          /\ has \in [Task -> {"none", "runs", "ended", "over"}] /\ refused = {}
      BY DEF PlaceInit
    <2> QED
      BY <2>1, <2>2, <2>3, <2>4, <2>5 DEF PlaceTypes, TaskOK
  <1>2. ASSUME NEW n \in Host PROVE OrdersOK(n) /\ ReportsOK(n) /\ RoomOK(n)
    <2>1. orders[n] = <<>> /\ reports[n] = <<>> /\ Len(<<>>) = 0
      BY DEF PlaceInit
    <2>2. Holding(n) = {} /\ CardsOf({}) = 0
      <3>1. Holding(n) = {} /\ CardSet({}) = {}
        BY DEF Holding, PlaceInit, CardSet
      <3> QED
        BY <3>1, FS_EmptySet DEF CardsOf
    <2>3. RoomOK(n)
      <3>1. Held(n) = 0
        BY <2>2, HeldIs
      <3>2. shown[n] = Cards[n] /\ Cards[n] \in Nat
        BY PlacementAssumption DEF PlaceInit
      <3> QED
        BY <3>1, <3>2 DEF RoomOK
    <2> QED
      BY <2>1, <2>3 DEF OrdersOK, ReportsOK
  <1> QED
    BY <1>1, <1>2 DEF PlaceInv

LEMMA PlaceKeeps == PlaceInv /\ [PlaceNext]_placeVars => PlaceInv'
  <1> SUFFICES ASSUME PlaceInv, [PlaceNext]_placeVars PROVE PlaceInv'
    OBVIOUS
  <1>1. ASSUME NEW S \in Job, Submit(S) PROVE PlaceInv'
    <2>1. S \in SUBSET Task /\ \A t \in S : record[t] = "none"
      BY <1>1, PlacementAssumption DEF Submit
    <2>2. PICK f \in [S -> Host] : CanChoose(f, S) /\ Command(f)
      BY <1>1 DEF Submit, Placements
    <2>3. \A n \in Host : shown[n] \in Nat /\ shown[n] <= Cards[n]
      BY DEF PlaceInv, RoomOK
    <2>4. \A n \in Host : \A t \in S : f[t] = n /\ t \notin Named /\ Wanted[t] # 0
              => CardsOf(Open(n) \union {x \in S : f[x] = n}) <= Cards[n]
      BY <2>1, <2>2, <2>3, ChooseFits
    <2> QED
      BY <2>1, <2>2, <2>4, CommandKeeps
  <1>2. ASSUME NEW S \in Job, SubmitNamed(S) PROVE PlaceInv'
    <2>1. S \in SUBSET Task /\ S \subseteq Named /\ \A t \in S : record[t] = "none"
      BY <1>2, PlacementAssumption DEF SubmitNamed
    <2>2. PICK f \in [S -> Host] : Command(f)
      BY <1>2 DEF SubmitNamed
    <2>3. \A n \in Host : \A t \in S : f[t] = n /\ t \notin Named /\ Wanted[t] # 0
              => CardsOf(Open(n) \union {x \in S : f[x] = n}) <= Cards[n]
      BY <2>1
    <2> QED
      BY <2>1, <2>2, <2>3, CommandKeeps
  <1>3. ASSUME UNCHANGED placeVars PROVE PlaceInv'
    <2>1. /\ record' = record /\ at' = at /\ shown' = shown /\ orders' = orders /\ reports' = reports
          /\ has' = has /\ refused' = refused
      BY <1>3 DEF placeVars
    <2>2. \A n \in Host : Holding(n)' = Holding(n)
      BY <2>1 DEF Holding
    <2>3. \A n \in Host : OrdersOK(n)' /\ ReportsOK(n)' /\ RoomOK(n)'
      BY <2>1, <2>2, StillOK, ReportsStay, RoomStays DEF PlaceInv, RoomOK
    <2>4. PlaceTypes' /\ \A t \in Task : TaskOK(t)'
      BY <2>1 DEF PlaceInv, PlaceTypes, TaskOK
    <2> QED
      BY <2>1, <2>3, <2>4 DEF PlaceInv
  <1> QED
    BY <1>1, <1>2, <1>3, TakeKeeps, ReportKeeps, HearKeeps, EndKeeps, GiveBackKeeps DEF PlaceNext

(* "a task that was accepted here is never refused by the node that gets it"  *)
(* (resources.py:choose_node): with any nodes, cards, groups and reports of   *)
(* any age, a node refuses for want of cards only what was forced onto it by  *)
(* name, or what meets a task that has ended and still holds its cards.       *)
THEOREM ChosenIsTakenHolds == PlaceSpec => []ChosenIsTaken
  <1>1. PlaceInv => ChosenIsTaken
    BY DEF PlaceInv, ChosenIsTaken
  <1> QED
    BY <1>1, PlaceInitInv, PlaceKeeps, PTL DEF PlaceSpec
=============================================================================
