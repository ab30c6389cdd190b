---------------------------- MODULE PayloadProofs ----------------------------
(* Proofs about the payloads of a group, each for any values of its           *)
(* constants: a pipeline of any requests and limits, on blocks of any number, *)
(* a Ray cluster of any size on any machines, whatever was left there by      *)
(* earlier ones, and a model of any depth cut between any nodes and cards.    *)
EXTENDS Blocks, RayCluster, Weights, Cut, CountingProofs

(* ----------------------------------------------------- about sequences --- *)
LEMMA SeqRange ==
    ASSUME NEW S, NEW s \in Seq(S)
    PROVE  /\ Range(s) \subseteq S /\ Range(s) = {s[i] : i \in 1 .. Len(s)} /\ Len(s) \in Nat
           /\ s = <<>> <=> Len(s) = 0
           /\ s # <<>> => s[1] = Head(s) /\ Head(s) \in Range(s) /\ Len(s) > 0
  BY LenProperties, ElementOfSeq, EmptySeq DEF Range

LEMMA SeqEmpty == Range(<<>>) = {} /\ Distinct(<<>>)
  BY DEF Range, Distinct

LEMMA SeqAppend ==
    ASSUME NEW S, NEW s \in Seq(S), NEW m \in S
    PROVE  /\ Append(s, m) \in Seq(S) /\ Len(Append(s, m)) = Len(s) + 1
           /\ \A i \in 1 .. Len(s) : Append(s, m)[i] = s[i]
           /\ Append(s, m)[Len(s) + 1] = m
           /\ 1 .. Len(Append(s, m)) = (1 .. Len(s)) \union {Len(s) + 1}
           /\ Range(Append(s, m)) = Range(s) \union {m}
           /\ Distinct(s) /\ m \notin Range(s) => Distinct(Append(s, m))
  <1> DEFINE a == Append(s, m)
  <1>1. /\ a \in Seq(S) /\ Len(a) = Len(s) + 1 /\ Len(s) \in Nat
        /\ \A i \in 1 .. Len(s) : a[i] = s[i]
        /\ a[Len(s) + 1] = m
    BY AppendProperties, LenProperties
  <1> HIDE DEF a
  <1>2. 1 .. Len(a) = (1 .. Len(s)) \union {Len(s) + 1}
    BY <1>1
  <1>3. Range(a) = Range(s) \union {m}
    BY <1>1, <1>2, SeqRange
  <1>4. ASSUME Distinct(s), m \notin Range(s) PROVE Distinct(a)
    <2>1. \A i \in 1 .. Len(s) : s[i] # m
      BY <1>4, SeqRange
    <2> QED
      BY <1>1, <1>2, <1>4, <2>1 DEF Distinct
  <1> QED
    BY <1>1, <1>2, <1>3, <1>4 DEF a

LEMMA SeqTail ==
    ASSUME NEW S, NEW s \in Seq(S), s # <<>>
    PROVE  /\ Tail(s) \in Seq(S) /\ Head(s) \in S /\ Len(Tail(s)) = Len(s) - 1
           /\ \A i \in 1 .. Len(Tail(s)) : Tail(s)[i] = s[i + 1] /\ i + 1 \in 1 .. Len(s)
           /\ Range(s) = Range(Tail(s)) \union {Head(s)}
           /\ Distinct(s) => Distinct(Tail(s)) /\ Head(s) \notin Range(Tail(s))
  <1> DEFINE t == Tail(s)
  <1>1. /\ t \in Seq(S) /\ Head(s) \in S /\ Len(t) = Len(s) - 1 /\ Len(s) \in Nat
        /\ \A i \in 1 .. Len(t) : t[i] = s[i + 1]
        /\ s[1] = Head(s) /\ Len(s) # 0
    BY HeadTailProperties, LenProperties, SeqRange
  <1> HIDE DEF t
  <1>2. /\ \A i \in 1 .. Len(t) : i + 1 \in 1 .. Len(s) /\ i + 1 # 1
        /\ \A i \in 1 .. Len(s) : i = 1 \/ i - 1 \in 1 .. Len(t)
        /\ 1 \in 1 .. Len(s)
    BY <1>1
  <1>3. Range(s) = Range(t) \union {Head(s)}
    <2>1. Range(s) = {s[i] : i \in 1 .. Len(s)} /\ Range(t) = {t[i] : i \in 1 .. Len(t)} /\ Head(s) \in Range(s)
      BY <1>1, SeqRange
    <2>2. ASSUME NEW i \in 1 .. Len(s) PROVE s[i] \in Range(t) \union {Head(s)}
      <3>1. CASE i - 1 \in 1 .. Len(t)
        <4>1. t[i - 1] = s[i]
          BY <1>1, <3>1
        <4> QED
          BY <2>1, <3>1, <4>1
      <3> QED
        BY <1>1, <1>2, <3>1
    <2>3. \A i \in 1 .. Len(t) : t[i] \in Range(s)
      BY <1>1, <1>2, <2>1
    <2> QED
      BY <2>1, <2>2, <2>3
  <1>4. ASSUME Distinct(s) PROVE Distinct(t) /\ Head(s) \notin Range(t)
    <2>1. Distinct(t)
      <3> SUFFICES ASSUME NEW i \in 1 .. Len(t), NEW j \in 1 .. Len(t), t[i] = t[j] PROVE i = j
        BY DEF Distinct
      <3>1. i + 1 = j + 1
        BY <1>1, <1>2, <1>4 DEF Distinct
      <3> QED
        BY <3>1
    <2>2. \A i \in 1 .. Len(t) : t[i] # Head(s)
      BY <1>1, <1>2, <1>4 DEF Distinct
    <2> QED
      BY <1>1, <2>1, <2>2, SeqRange
  <1> QED
    BY <1>1, <1>2, <1>3, <1>4 DEF t

LEMMA SeqConcat ==
    ASSUME NEW S, NEW s \in Seq(S), NEW t \in Seq(S)
    PROVE  /\ s \o t \in Seq(S) /\ Range(s \o t) = Range(s) \union Range(t)
           /\ Distinct(s) /\ Distinct(t) /\ Range(s) \cap Range(t) = {} => Distinct(s \o t)
  <1> DEFINE c == s \o t
  <1>1. /\ c \in Seq(S) /\ Len(c) = Len(s) + Len(t) /\ Len(s) \in Nat /\ Len(t) \in Nat
        /\ \A i \in 1 .. Len(c) : c[i] = IF i <= Len(s) THEN s[i] ELSE t[i - Len(s)]
    BY ConcatProperties, LenProperties
  <1> HIDE DEF c
  <1>2. \A i \in 1 .. Len(c) : \/ i \in 1 .. Len(s) /\ c[i] = s[i]
                               \/ i - Len(s) \in 1 .. Len(t) /\ c[i] = t[i - Len(s)]
    BY <1>1
  <1>3. /\ \A i \in 1 .. Len(s) : i \in 1 .. Len(c) /\ c[i] = s[i]
        /\ \A i \in 1 .. Len(t) : i + Len(s) \in 1 .. Len(c) /\ c[i + Len(s)] = t[i]
    <2>1. \A i \in 1 .. Len(s) : i \in 1 .. Len(c) /\ c[i] = s[i]
      BY <1>1
    <2>2. ASSUME NEW i \in 1 .. Len(t) PROVE i + Len(s) \in 1 .. Len(c) /\ c[i + Len(s)] = t[i]
      <3>1. i + Len(s) \in 1 .. Len(c) /\ ~(i + Len(s) <= Len(s)) /\ (i + Len(s)) - Len(s) = i
        BY <1>1
      <3> QED
        BY <1>1, <3>1
    <2> QED
      BY <2>1, <2>2
  <1>4. Range(c) = Range(s) \union Range(t)
    <2>1. /\ Range(s) = {s[i] : i \in 1 .. Len(s)} /\ Range(t) = {t[i] : i \in 1 .. Len(t)}
          /\ Range(c) = {c[i] : i \in 1 .. Len(c)}
      BY <1>1, SeqRange
    <2>2. \A i \in 1 .. Len(s) : s[i] \in Range(c)
      BY <1>3, <2>1
    <2>3. \A i \in 1 .. Len(t) : t[i] \in Range(c)
      BY <1>3, <2>1
    <2>4. \A i \in 1 .. Len(c) : c[i] \in Range(s) \union Range(t)
      BY <1>2, <2>1
    <2> QED
      BY <2>1, <2>2, <2>3, <2>4
  <1>5. ASSUME Distinct(s), Distinct(t), Range(s) \cap Range(t) = {} PROVE Distinct(c)
    <2> SUFFICES ASSUME NEW i \in 1 .. Len(c), NEW j \in 1 .. Len(c), c[i] = c[j] PROVE i = j
      BY DEF Distinct
    <2>1. \A k \in 1 .. Len(s), l \in 1 .. Len(t) : s[k] # t[l]
      BY <1>5, SeqRange
    <2>2. CASE i \in 1 .. Len(s) /\ c[i] = s[i]
      BY <1>2, <1>5, <2>1, <2>2 DEF Distinct
    <2>3. CASE i - Len(s) \in 1 .. Len(t) /\ c[i] = t[i - Len(s)]
      <3>1. j - Len(s) \in 1 .. Len(t) /\ c[j] = t[j - Len(s)]
        BY <1>2, <2>1, <2>3
      <3>2. i - Len(s) = j - Len(s)
        BY <1>5, <2>3, <3>1 DEF Distinct
      <3> QED
        BY <1>1, <3>2
    <2> QED
      BY <1>2, <2>2, <2>3
  <1> QED
    BY <1>1, <1>4, <1>5 DEF c

(* The first n and the others.                                                *)
LEMMA SeqSplit ==
    ASSUME NEW S, NEW s \in Seq(S), Distinct(s), NEW n \in 0 .. Len(s)
    PROVE  LET a == SubSeq(s, 1, n)  b == SubSeq(s, n + 1, Len(s)) IN
           /\ a \in Seq(S) /\ b \in Seq(S) /\ Distinct(a) /\ Distinct(b)
           /\ Range(s) = Range(a) \union Range(b) /\ Range(a) \cap Range(b) = {}
  <1> DEFINE a == SubSeq(s, 1, n)
             b == SubSeq(s, n + 1, Len(s))
  <1>1. Len(s) \in Nat /\ n \in Nat /\ n <= Len(s) /\ \A i \in 1 .. Len(s) : s[i] \in S
    BY LenProperties, ElementOfSeq
  <1>2. a \in Seq(S) /\ Len(a) = n /\ \A i \in 1 .. n : a[i] = s[i]
    BY <1>1, SubSeqProperties
  <1>3. /\ b \in Seq(S) /\ Len(b) = Len(s) - n
        /\ \A i \in 1 .. Len(s) - n : b[i] = s[n + i]
    <2>1. \A i \in n + 1 .. Len(s) : s[i] \in S
      BY <1>1
    <2>2. n + 1 \in Int /\ Len(s) \in Int
      BY <1>1
    <2>3. /\ b \in Seq(S) /\ Len(b) = (IF n + 1 <= Len(s) THEN Len(s) - (n + 1) + 1 ELSE 0)
          /\ \A i \in 1 .. Len(s) - (n + 1) + 1 : b[i] = s[n + 1 + i - 1]
      BY <2>1, <2>2, SubSeqProperties
    <2> HIDE DEF b
    <2>4. Len(s) - (n + 1) + 1 = Len(s) - n /\ \A i \in 1 .. Len(s) - n : n + 1 + i - 1 = n + i
      BY <1>1
    <2>5. Len(b) = Len(s) - n
      BY <1>1, <2>3
    <2>6. ASSUME NEW i \in 1 .. Len(s) - n PROVE b[i] = s[n + i]
      BY <2>3, <2>4, <2>6
    <2> QED
      BY <2>3, <2>5, <2>6
  <1> HIDE DEF a, b
  <1>4. /\ \A i \in 1 .. Len(a) : i \in 1 .. Len(s) /\ a[i] = s[i]
        /\ \A i \in 1 .. Len(b) : n + i \in 1 .. Len(s) /\ b[i] = s[n + i]
        /\ \A i \in 1 .. Len(s) : i \in 1 .. Len(a) \/ (i - n \in 1 .. Len(b) /\ n + (i - n) = i)
    BY <1>1, <1>2, <1>3
  <1>5. /\ Range(s) = {s[i] : i \in 1 .. Len(s)} /\ Range(a) = {a[i] : i \in 1 .. Len(a)}
        /\ Range(b) = {b[i] : i \in 1 .. Len(b)}
    BY <1>2, <1>3, SeqRange
  <1>6. Distinct(a)
    BY <1>4 DEF Distinct
  <1>7. Distinct(b)
    <2> SUFFICES ASSUME NEW i \in 1 .. Len(b), NEW j \in 1 .. Len(b), b[i] = b[j] PROVE i = j
      BY DEF Distinct
    <2>1. n + i = n + j
      BY <1>4 DEF Distinct
    <2> QED
      BY <1>1, <2>1
  <1>8. Range(a) \cap Range(b) = {}
    <2>1. \A i \in 1 .. Len(a), j \in 1 .. Len(b) : i # n + j
      BY <1>1, <1>2, <1>3
    <2>2. \A i \in 1 .. Len(a), j \in 1 .. Len(b) : a[i] # b[j]
      BY <1>4, <2>1 DEF Distinct
    <2> QED
      BY <1>5, <2>2
  <1>9. Range(s) = Range(a) \union Range(b)
    <2>1. \A i \in 1 .. Len(s) : s[i] \in Range(a) \union Range(b)
      <3> TAKE i \in 1 .. Len(s)
      <3>1. CASE i \in 1 .. Len(a)
        BY <1>4, <1>5, <3>1
      <3>2. CASE i - n \in 1 .. Len(b) /\ n + (i - n) = i
        <4>1. b[i - n] = s[i]
          BY <1>4, <3>2
        <4> QED
          BY <1>5, <3>2, <4>1
      <3> QED
        BY <1>4, <3>1, <3>2
    <2>2. Range(a) \subseteq Range(s) /\ Range(b) \subseteq Range(s)
      BY <1>4, <1>5
    <2> QED
      BY <1>5, <2>1, <2>2
  <1> QED
    BY <1>2, <1>3, <1>6, <1>7, <1>8, <1>9 DEF a, b

LEMMA SeqWithout ==
    ASSUME NEW S, NEW s \in Seq(S), Distinct(s), NEW r
    PROVE  /\ Without(s, r) \in Seq(S) /\ Distinct(Without(s, r))
           /\ Range(Without(s, r)) = Range(s) \ {r}
  <1>1. CASE r \notin Range(s)
    BY <1>1 DEF Without
  <1>2. CASE r \in Range(s)
    <2> DEFINE k == CHOOSE i \in DOMAIN s : s[i] = r
               a == SubSeq(s, 1, k - 1)
               b == SubSeq(s, k + 1, Len(s))
               c == SubSeq(s, k, Len(s))
    <2>1. DOMAIN s = 1 .. Len(s) /\ Len(s) \in Nat
      BY LenProperties
    <2>2. k \in 1 .. Len(s) /\ s[k] = r
      BY <1>2, <2>1 DEF Range
    <2> HIDE DEF k
    <2>3. k - 1 \in 0 .. Len(s) /\ (k - 1) + 1 = k /\ k \in 0 .. Len(s)
      BY <2>1, <2>2
    <2>4. /\ a \in Seq(S) /\ c \in Seq(S) /\ Distinct(a) /\ Distinct(c)
          /\ Range(s) = Range(a) \union Range(c) /\ Range(a) \cap Range(c) = {}
      BY <2>3, SeqSplit
    <2>5. b \in Seq(S) /\ Distinct(b)
      BY <2>3, SeqSplit
    <2>6. k \in 1 .. Len(s) /\ Len(s) \in k .. Len(s)
      BY <2>1, <2>2
    <2>7. Head(c) = s[k] /\ Tail(c) = b
      BY <2>6, HeadTailOfSubSeq
    <2>8. c # <<>>
      <3>1. \A i \in k .. Len(s) : s[i] \in S
        BY <2>1, <2>2, ElementOfSeq
      <3>2. Len(c) = IF k <= Len(s) THEN Len(s) - k + 1 ELSE 0
        BY <2>1, <2>2, <3>1, SubSeqProperties
      <3>3. Len(c) # 0
        BY <2>1, <2>2, <3>2
      <3> QED
        BY <2>4, <3>3, SeqRange
    <2>9. Range(c) = Range(b) \union {r} /\ r \notin Range(b)
      <3>1. Range(c) = Range(Tail(c)) \union {Head(c)} /\ Head(c) \notin Range(Tail(c))
        BY <2>4, <2>8, SeqTail
      <3> QED
        BY <2>2, <2>7, <3>1
    <2>10. Without(s, r) = a \o b
      BY <1>2 DEF Without, RemoveAt, k
    <2> HIDE DEF a, b, c
    <2>11. r \notin Range(a) /\ Range(a) \cap Range(b) = {}
      BY <2>4, <2>9
    <2>12. /\ a \o b \in Seq(S) /\ Range(a \o b) = Range(a) \union Range(b)
           /\ Distinct(a \o b)
      BY <2>4, <2>5, <2>11, SeqConcat
    <2> QED
      BY <2>4, <2>9, <2>10, <2>11, <2>12
  <1> QED
    BY <1>1, <1>2

LEMMA SeqFinite ==
    ASSUME NEW S, NEW s \in Seq(S)
    PROVE  IsFiniteSet(Range(s))
  <1>1. DOMAIN s = 1 .. Len(s) /\ Len(s) \in Nat /\ s \in [1 .. Len(s) -> S]
    BY LenProperties
  <1>2. s \in Surjection(1 .. Len(s), Range(s))
    BY <1>1 DEF Surjection, Range
  <1> QED
    BY <1>1, <1>2, FS_Interval, FS_Surjection

(* ----------------------------------------------- the pipeline's tokens --- *)
Note == [kind : {"free"}, who : Request] \union [kind : {"activations"}, who : Seq(Request), id : Nat]
Reply == [kind : {"tokens", "error"}, id : Nat, rows : Seq(Nat)]
PipeTypes ==
    /\ client \in [Request -> {"idle", "refused", "reading", "leaving", "left"}]
    /\ ticket \subseteq Request /\ running \subseteq Request /\ twice \subseteq Request /\ IsFiniteSet(running)
    /\ waiting \in Seq(Request) /\ release \in Seq(Request) /\ batch \in Seq(Request) /\ tokens \in Seq(Nat)
    /\ outputs \in [Request -> Nat] /\ given \in [Request -> Seq(Nat)] /\ cache \in [Request -> Nat]
    /\ mark \in [Request -> {"none", "stop", "length", "error"}]
    /\ pc \in {"drain", "choose", "compute", "await", "deliver"} /\ bid \in Nat
    /\ net \in Seq(Note) /\ back \in Seq(Reply)

(* Requests vouched for; those nobody but their client has looked at yet; and *)
(* those the step under way waits for.                                        *)
Good == ticket \ twice
New(r) == client[r] = "idle" \/ r \in Range(waiting)
Awaited(r) == pc \in {"await", "deliver"} /\ r \in Range(batch)
Shown(n, r) == \E i \in 1 .. Len(n) : r \in About(n[i])

TicketsOK ==
    /\ Distinct(waiting) /\ ticket = running \union Range(waiting) /\ running \cap Range(waiting) = {}
    /\ Range(release) \cap ticket = {}
    /\ \A r \in ticket : client[r] = "reading" /\ mark[r] = "none" /\ Len(given[r]) = outputs[r]
                         /\ outputs[r] < Want
NewOK ==
    \A r \in Request : New(r) =>
        /\ outputs[r] = 0 /\ given[r] = <<>> /\ mark[r] = "none" /\ cache[r] = 0
        /\ r \notin Range(release) /\ r \notin Range(batch) /\ ~Shown(net, r)
BatchOK == pc \in {"compute", "await", "deliver"} => batch # <<>> /\ Distinct(batch)
NetOK ==
    /\ \A i \in 1 .. Len(net) : net[i].kind = "activations" =>
          /\ net[i].who # <<>> /\ net[i].id <= bid
          /\ pc = "await" /\ net[i].id = bid => net[i].who = batch
    /\ \A i \in 1 .. Len(net) : \A r \in Good : r \in About(net[i]) =>
          /\ pc = "await" /\ r \in Range(batch) /\ cache[r] = outputs[r]
          /\ net[i].kind = "activations" /\ net[i].id = bid
    /\ \A i, j \in 1 .. Len(net) : \A r \in Good : r \in About(net[i]) /\ r \in About(net[j]) => i = j
Rows(rows) ==
    \A k \in 1 .. Len(batch) : batch[k] \in Good =>
        rows[k] = outputs[batch[k]] + 1 /\ cache[batch[k]] = outputs[batch[k]] + 1
BackOK ==
    \A i \in 1 .. Len(back) :
        /\ back[i].id <= bid
        /\ pc = "await" /\ back[i].id = bid /\ back[i].kind = "tokens" =>
              /\ Rows(back[i].rows)
              /\ \A r \in Good : r \in Range(batch) => ~Shown(net, r)
CacheOK == \A r \in Good : ~Awaited(r) => cache[r] = outputs[r]
DeliverOK == pc = "deliver" => Len(tokens) = Len(batch) /\ Rows(tokens)
FlowOK == NetOK /\ BackOK /\ CacheOK /\ DeliverOK
PipeInv == PipeTypes /\ TicketsOK /\ NewOK /\ BatchOK /\ FlowOK

Promised == [Promise!StreamNext]_<<given, mark, twice>>

LEMMA NoteShape ==
    ASSUME NEW m \in Note
    PROVE  /\ m.kind \in {"free", "activations"} /\ About(m) \subseteq Request
           /\ m.kind = "free" => m.who \in Request /\ About(m) = {m.who}
           /\ m.kind = "activations" => m.who \in Seq(Request) /\ m.id \in Nat /\ About(m) = Range(m.who)
  <1>1. CASE m \in [kind : {"free"}, who : Request]
    BY <1>1 DEF About
  <1>2. CASE m \in [kind : {"activations"}, who : Seq(Request), id : Nat]
    <2>1. m.kind = "activations" /\ m.who \in Seq(Request) /\ m.id \in Nat
      BY <1>2
    <2> QED
      BY <2>1, SeqRange DEF About
  <1> QED
    BY <1>1, <1>2 DEF Note

LEMMA ShownTail ==
    ASSUME NEW n \in Seq(Note), n # <<>>, NEW r
    PROVE  Shown(n, r) <=> r \in About(Head(n)) \/ Shown(Tail(n), r)
  <1> DEFINE t == Tail(n)
  <1>1. /\ Len(t) = Len(n) - 1 /\ Len(n) \in Nat /\ Len(n) > 0 /\ n[1] = Head(n)
        /\ \A i \in 1 .. Len(t) : t[i] = n[i + 1] /\ i + 1 \in 1 .. Len(n)
    BY SeqTail, SeqRange
  <1> HIDE DEF t
  <1>2. ASSUME Shown(t, r) PROVE Shown(n, r)
    BY <1>1, <1>2 DEF Shown
  <1>3. ASSUME r \in About(Head(n)) PROVE Shown(n, r)
    <2>1. 1 \in 1 .. Len(n)
      BY <1>1
    <2> QED
      BY <1>1, <1>3, <2>1 DEF Shown
  <1>4. ASSUME NEW i \in 1 .. Len(n), r \in About(n[i]) PROVE r \in About(Head(n)) \/ Shown(t, r)
    <2>1. i = 1 \/ i - 1 \in 1 .. Len(t)
      BY <1>1
    <2>2. CASE i - 1 \in 1 .. Len(t)
      <3>1. t[i - 1] = n[i]
        BY <1>1, <2>2
      <3> QED
        BY <1>4, <2>2, <3>1 DEF Shown
    <2> QED
      BY <1>1, <1>4, <2>1, <2>2
  <1> QED
    BY <1>2, <1>3, <1>4 DEF Shown, t

LEMMA ShownAppend ==
    ASSUME NEW n \in Seq(Note), NEW m \in Note, NEW r
    PROVE  Shown(Append(n, m), r) <=> r \in About(m) \/ Shown(n, r)
  <1> DEFINE a == Append(n, m)
  <1>1. /\ Len(n) \in Nat /\ \A i \in 1 .. Len(n) : a[i] = n[i]
        /\ a[Len(n) + 1] = m /\ 1 .. Len(a) = (1 .. Len(n)) \union {Len(n) + 1}
    BY SeqAppend, SeqRange
  <1> HIDE DEF a
  <1> QED
    BY <1>1 DEF Shown, a

(* The elements of n are some of s in their places, but for the first of s,   *)
(* and some of M.                                                             *)
From(n, s, M) ==
    \E d \in {0, 1} : \A i \in 1 .. Len(n) : n[i] \in M \/ (i + d \in 1 .. Len(s) /\ n[i] = s[i + d])
LEMMA FromItself == ASSUME NEW S, NEW s \in Seq(S), NEW M PROVE From(s, s, M)
  <1>1. Len(s) \in Nat
    BY SeqRange
  <1>2. \A i \in 1 .. Len(s) : i + 0 \in 1 .. Len(s) /\ s[i] = s[i + 0]
    BY <1>1
  <1> QED
    BY <1>2 DEF From
LEMMA FromTail == ASSUME NEW S, NEW s \in Seq(S), s # <<>>, NEW M PROVE From(Tail(s), s, M)
  <1>1. \A i \in 1 .. Len(Tail(s)) : i + 1 \in 1 .. Len(s) /\ Tail(s)[i] = s[i + 1]
    BY SeqTail
  <1> QED
    BY <1>1 DEF From
LEMMA FromAppend ==
    ASSUME NEW S, NEW s \in Seq(S), NEW n \in Seq(S), NEW M, From(n, s, M), NEW m \in S, m \in M
    PROVE  From(Append(n, m), s, M)
  <1> DEFINE a == Append(n, m)
  <1>1. /\ \A i \in 1 .. Len(n) : a[i] = n[i]
        /\ a[Len(n) + 1] = m /\ 1 .. Len(a) = (1 .. Len(n)) \union {Len(n) + 1}
    BY SeqAppend
  <1> HIDE DEF a
  <1>2. PICK d \in {0, 1} : \A i \in 1 .. Len(n) : n[i] \in M \/ (i + d \in 1 .. Len(s) /\ n[i] = s[i + d])
    BY DEF From
  <1>3. \A i \in 1 .. Len(a) : a[i] \in M \/ (i + d \in 1 .. Len(s) /\ a[i] = s[i + d])
    BY <1>1, <1>2
  <1> QED
    BY <1>3 DEF From, a

(* A message that is no good request's.                                       *)
Idle(m) == /\ Good \cap About(m) = {}
           /\ m.kind = "activations" =>
                 /\ m.who # <<>> /\ m.id <= bid
                 /\ pc = "await" /\ m.id = bid => m.who = batch

(* Nothing is done to a good request.                                         *)
LEMMA FlowKept ==
    ASSUME PipeTypes, PipeTypes', FlowOK, UNCHANGED <<pc, batch, tokens, bid, cache, outputs>>,
           NEW M \in SUBSET Note, From(net', net, M), From(back', back, {}),
           \A m \in M : Idle(m)',
           \A r \in Good' : \/ r \in Good
                            \/ ~Shown(net, r) /\ r \notin Range(batch) /\ cache[r] = outputs[r]
    PROVE  FlowOK'
  <1>1. PICK d \in {0, 1} : \A i \in 1 .. Len(net') : \/ net'[i] \in M
                                                      \/ i + d \in 1 .. Len(net) /\ net'[i] = net[i + d]
    BY DEF From
  <1>2. PICK e \in {0, 1} : \A i \in 1 .. Len(back') : i + e \in 1 .. Len(back) /\ back'[i] = back[i + e]
    BY DEF From
  <1>3. \A m \in M : /\ \A r \in Good' : r \notin About(m)
                     /\ m.kind = "activations" =>
                           /\ m.who # <<>> /\ m.id <= bid'
                           /\ pc' = "await" /\ m.id = bid' => m.who = batch'
    BY DEF Idle, About
  <1>4. \A r \in Good' : Shown(net', r) => Shown(net, r)
    BY <1>1, <1>3 DEF Shown
  <1>5. \A r \in Good' : r \in Range(batch) => r \in Good
    OBVIOUS
  <1>6. \A i \in 1 .. Len(net) : \A r \in Good' : r \in About(net[i]) => r \in Good
    BY DEF Shown
  <1>7. \A k \in 1 .. Len(batch) : batch[k] \in Range(batch)
    <2>1. batch \in Seq(Request)
      BY DEF PipeTypes
    <2>2. Range(batch) = {batch[k] : k \in 1 .. Len(batch)}
      BY <2>1, SeqRange
    <2> QED
      BY <2>2
  <1>8. NetOK'
    <2>1. \A i \in 1 .. Len(net') : net'[i].kind = "activations" =>
             /\ net'[i].who # <<>> /\ net'[i].id <= bid'
             /\ pc' = "await" /\ net'[i].id = bid' => net'[i].who = batch'
      BY <1>1, <1>3 DEF FlowOK, NetOK
    <2>2. \A i \in 1 .. Len(net') : \A r \in Good' : r \in About(net'[i]) =>
             /\ pc' = "await" /\ r \in Range(batch)' /\ cache'[r] = outputs'[r]
             /\ net'[i].kind = "activations" /\ net'[i].id = bid'
      BY <1>1, <1>3, <1>6 DEF FlowOK, NetOK
    <2>3. ASSUME NEW i \in 1 .. Len(net'), NEW j \in 1 .. Len(net'), NEW r \in Good',
                 r \in About(net'[i]), r \in About(net'[j])
          PROVE  i = j
      <3>1. i + d = j + d
        BY <1>1, <1>3, <1>6, <2>3 DEF FlowOK, NetOK
      <3> QED
        BY <3>1
    <2>4. \A i : About(net[i])' = About(net'[i])
      BY DEF About
    <2> QED
      BY <2>1, <2>2, <2>3, <2>4 DEF NetOK
  <1>9. \A s : Rows(s) => \A k \in 1 .. Len(batch') : batch'[k] \in Good' =>
            s[k] = outputs'[batch'[k]] + 1 /\ cache'[batch'[k]] = outputs'[batch'[k]] + 1
    BY <1>5, <1>7 DEF Rows
  <1>10. BackOK'
    <2> SUFFICES ASSUME NEW i \in 1 .. Len(back')
                 PROVE  /\ back'[i].id <= bid'
                        /\ pc' = "await" /\ back'[i].id = bid' /\ back'[i].kind = "tokens" =>
                             /\ Rows(back[i].rows)'
                             /\ \A r \in Good' : r \in Range(batch)' => ~Shown(net, r)'
      BY DEF BackOK
    <2>1. i + e \in 1 .. Len(back) /\ back'[i] = back[i + e]
      BY <1>2
    <2>2. back'[i].id <= bid'
      BY <2>1 DEF FlowOK, BackOK
    <2>3. ASSUME pc' = "await" /\ back'[i].id = bid' /\ back'[i].kind = "tokens"
          PROVE  Rows(back[i].rows)' /\ \A r \in Good' : r \in Range(batch)' => ~Shown(net, r)'
      <3>1. Rows(back[i + e].rows) /\ \A r \in Good : r \in Range(batch) => ~Shown(net, r)
        BY <2>1, <2>3 DEF FlowOK, BackOK
      <3>2. Rows(back[i].rows)'
        <4>1. back'[i].rows = back[i + e].rows
          BY <2>1
        <4>2. \A k \in 1 .. Len(batch') : batch'[k] \in Good' =>
                 /\ back[i + e].rows[k] = outputs'[batch'[k]] + 1
                 /\ cache'[batch'[k]] = outputs'[batch'[k]] + 1
          BY <1>9, <3>1
        <4> QED
          BY <4>1, <4>2 DEF Rows
      <3>3. \A r \in Good' : r \in Range(batch)' => ~Shown(net', r)
        BY <1>4, <1>5, <3>1
      <3> QED
        BY <3>2, <3>3 DEF Shown
    <2> QED
      BY <2>2, <2>3
  <1>11. CacheOK'
    BY DEF FlowOK, CacheOK, Awaited
  <1>12. DeliverOK'
    BY <1>9 DEF FlowOK, DeliverOK, Rows
  <1> QED
    BY <1>8, <1>10, <1>11, <1>12 DEF FlowOK

LEMMA SubmitStep ==
    ASSUME PipeInv, NEW r \in Request, Submit(r)
    PROVE  PipeInv' /\ Promised
  <1>1. /\ client[r] = "idle" /\ r \notin ticket /\ r \notin Range(waiting) /\ New(r)
        /\ UNCHANGED <<running, outputs, given, mark, release, loop, remote, wires>>
    BY DEF PipeInv, TicketsOK, Submit, New, PipeTypes
  <1>2. Promised
    BY <1>1 DEF Promised, wires
  <1>3. CASE Fits(r)
    <2>1. /\ waiting' = Append(waiting, r) /\ ticket' = ticket \union {r}
          /\ client' = [client EXCEPT ![r] = "reading"]
      BY <1>3 DEF Submit
    <2>2. /\ waiting' \in Seq(Request) /\ Range(waiting') = Range(waiting) \union {r} /\ Distinct(waiting')
      BY <1>1, <2>1, SeqAppend DEF PipeInv, PipeTypes, TicketsOK
    <2>3. PipeTypes'
      BY <1>1, <2>1, <2>2 DEF PipeInv, PipeTypes, loop, remote, wires
    <2>4. TicketsOK'
      <3>1. Want > 0 /\ outputs[r] = 0 /\ given[r] = <<>> /\ mark[r] = "none" /\ r \notin Range(release)
        BY <1>1, PipelineAssumption DEF PipeInv, NewOK
      <3>2. Len(given[r]) = outputs[r]
        BY <3>1
      <3>3. r \notin running
        BY <1>1 DEF PipeInv, TicketsOK
      <3> QED
        BY <1>1, <2>1, <2>2, <3>1, <3>2, <3>3 DEF PipeInv, TicketsOK, PipeTypes
    <2>5. \A q \in Request : New(q)' => New(q)
      BY <1>1, <2>1, <2>2 DEF New, PipeInv, PipeTypes
    <2>6. NewOK'
      BY <1>1, <2>5 DEF PipeInv, NewOK, Shown, loop, remote, wires, About
    <2>7. BatchOK'
      BY <1>1 DEF PipeInv, BatchOK, loop
    <2>8. FlowOK'
      <3>1. /\ UNCHANGED <<pc, batch, tokens, bid, cache, outputs, net, back, twice>>
        BY <1>1 DEF loop, remote, wires
      <3>2. From(net', net, {}) /\ From(back', back, {})
        BY <3>1, FromItself DEF PipeInv, PipeTypes
      <3>3. \A q \in Good' : \/ q \in Good
                             \/ ~Shown(net, q) /\ q \notin Range(batch) /\ cache[q] = outputs[q]
        BY <1>1, <2>1, <3>1 DEF Good, PipeInv, NewOK
      <3> QED
        BY <2>3, <3>1, <3>2, <3>3, FlowKept DEF PipeInv
    <2> QED
      BY <1>2, <2>3, <2>4, <2>6, <2>7, <2>8 DEF PipeInv
  <1>4. CASE ~Fits(r)
    <2>1. UNCHANGED <<waiting, ticket>> /\ client' = [client EXCEPT ![r] = "refused"]
      BY <1>4 DEF Submit
    <2>2. PipeTypes'
      BY <1>1, <2>1 DEF PipeInv, PipeTypes, loop, remote, wires
    <2>3. TicketsOK'
      BY <1>1, <2>1 DEF PipeInv, TicketsOK, PipeTypes
    <2>4. \A q \in Request : New(q)' => New(q)
      BY <1>1, <2>1 DEF New, PipeInv, PipeTypes
    <2>5. NewOK' /\ BatchOK'
      BY <1>1, <2>4 DEF PipeInv, NewOK, Shown, loop, remote, wires, About, BatchOK
    <2>6. FlowOK'
      <3>1. UNCHANGED <<pc, batch, tokens, bid, cache, outputs, net, back, twice>>
        BY <1>1 DEF loop, remote, wires
      <3>2. From(net', net, {}) /\ From(back', back, {})
        BY <3>1, FromItself DEF PipeInv, PipeTypes
      <3>3. Good' = Good
        BY <2>1, <3>1 DEF Good
      <3> QED
        BY <2>2, <3>1, <3>2, <3>3, FlowKept DEF PipeInv
    <2> QED
      BY <1>2, <2>2, <2>3, <2>5, <2>6 DEF PipeInv
  <1> QED
    BY <1>3, <1>4

LEMMA CancelStep ==
    ASSUME PipeInv, NEW r \in Request, Cancel(r)
    PROVE  PipeInv' /\ Promised
  <1>1. /\ client[r] = "reading" /\ client' \in [Request -> {"idle", "refused", "reading", "leaving", "left"}]
        /\ \A q \in Request \ {r} : client'[q] = client[q]
        /\ client'[r] # "idle"
        /\ UNCHANGED <<outputs, given, mark, release, loop, remote, wires>>
        /\ waiting' = Without(waiting, r) /\ running' = running \ {r} /\ ticket' = ticket \ {r}
    BY DEF PipeInv, PipeTypes, Cancel, Unseat
  <1>2. Promised
    BY <1>1 DEF Promised, wires
  <1>3. waiting' \in Seq(Request) /\ Range(waiting') = Range(waiting) \ {r} /\ Distinct(waiting')
    BY <1>1, SeqWithout DEF PipeInv, PipeTypes, TicketsOK
  <1>4. IsFiniteSet(running')
    BY <1>1, FS_Subset DEF PipeInv, PipeTypes
  <1>5. PipeTypes'
    BY <1>1, <1>3, <1>4 DEF PipeInv, PipeTypes, loop, remote, wires
  <1>6. TicketsOK'
    BY <1>1, <1>3 DEF PipeInv, TicketsOK, PipeTypes
  <1>7. \A q \in Request : New(q)' => New(q)
    BY <1>1, <1>3 DEF New, PipeInv, PipeTypes
  <1>8. NewOK' /\ BatchOK'
    BY <1>1, <1>7 DEF PipeInv, NewOK, Shown, loop, remote, wires, About, BatchOK
  <1>9. FlowOK'
    <2>1. UNCHANGED <<pc, batch, tokens, bid, cache, outputs, net, back, twice>>
      BY <1>1 DEF loop, remote, wires
    <2>2. From(net', net, {}) /\ From(back', back, {})
      BY <2>1, FromItself DEF PipeInv, PipeTypes
    <2>3. Good' \subseteq Good
      BY <1>1, <2>1 DEF Good
    <2> QED
      BY <1>5, <2>1, <2>2, <2>3, FlowKept DEF PipeInv
  <1> QED
    BY <1>2, <1>5, <1>6, <1>8, <1>9 DEF PipeInv

LEMMA CancelReleasesStep ==
    ASSUME PipeInv, NEW r \in Request, CancelReleases(r)
    PROVE  PipeInv' /\ Promised
  <1>1. /\ client[r] = "leaving" /\ client' = [client EXCEPT ![r] = "left"] /\ release' = Append(release, r)
        /\ UNCHANGED <<ticket, waiting, running, outputs, given, mark, loop, remote, wires>>
        /\ r \notin ticket /\ ~New(r)
    BY DEF PipeInv, PipeTypes, CancelReleases, TicketsOK, New
  <1>2. Promised
    BY <1>1 DEF Promised, wires
  <1>3. release' \in Seq(Request) /\ Range(release') = Range(release) \union {r}
    BY <1>1, SeqAppend DEF PipeInv, PipeTypes
  <1>4. PipeTypes'
    BY <1>1, <1>3 DEF PipeInv, PipeTypes, loop, remote, wires
  <1>5. TicketsOK'
    BY <1>1, <1>3 DEF PipeInv, TicketsOK, PipeTypes
  <1>6. \A q \in Request : New(q)' => New(q) /\ q # r
    BY <1>1, <1>3 DEF New, PipeInv, PipeTypes
  <1>7. NewOK' /\ BatchOK'
    BY <1>1, <1>3, <1>6 DEF PipeInv, NewOK, Shown, loop, remote, wires, About, BatchOK
  <1>8. FlowOK'
    <2>1. UNCHANGED <<pc, batch, tokens, bid, cache, outputs, net, back, twice>>
      BY <1>1 DEF loop, remote, wires
    <2>2. From(net', net, {}) /\ From(back', back, {})
      BY <2>1, FromItself DEF PipeInv, PipeTypes
    <2>3. Good' = Good
      BY <1>1, <2>1 DEF Good
    <2> QED
      BY <1>4, <2>1, <2>2, <2>3, FlowKept DEF PipeInv
  <1> QED
    BY <1>2, <1>4, <1>5, <1>7, <1>8 DEF PipeInv

(* Something comes to nothing on the way, or the weights come.                *)
LEMMA LossStep ==
    ASSUME PipeInv, Load \/ Lose \/ LoseAnswer
    PROVE  PipeInv' /\ Promised
  <1>1. /\ UNCHANGED <<client, books, loop, cache, twice>>
        /\ net' = net \/ (net # <<>> /\ net' = Tail(net))
        /\ back' = back \/ (back # <<>> /\ back' = Tail(back))
    BY DEF Load, Lose, LoseAnswer, remote, wires
  <1>2. Promised
    BY <1>1 DEF Promised, books
  <1>3. net' \in Seq(Note) /\ back' \in Seq(Reply) /\ From(net', net, {}) /\ From(back', back, {})
    <2>1. net \in Seq(Note) /\ back \in Seq(Reply)
      BY DEF PipeInv, PipeTypes
    <2>2. /\ From(net, net, {}) /\ (net # <<>> => From(Tail(net), net, {}) /\ Tail(net) \in Seq(Note))
          /\ From(back, back, {}) /\ (back # <<>> => From(Tail(back), back, {}) /\ Tail(back) \in Seq(Reply))
      <3>1. From(net, net, {}) /\ From(back, back, {})
        BY <2>1, FromItself
      <3>2. net # <<>> => Tail(net) \in Seq(Note)
        BY <2>1, SeqTail
      <3>3. back # <<>> => Tail(back) \in Seq(Reply)
        BY <2>1, SeqTail
      <3>4. net # <<>> => From(Tail(net), net, {})
        BY <2>1, FromTail
      <3>5. back # <<>> => From(Tail(back), back, {})
        BY <2>1, FromTail
      <3> QED
        BY <3>1, <3>2, <3>3, <3>4, <3>5
    <2> QED
      BY <1>1, <2>1, <2>2
  <1>4. PipeTypes'
    BY <1>1, <1>3 DEF PipeInv, PipeTypes, books, loop
  <1>5. \A r : Shown(net', r) => Shown(net, r)
    BY <1>1, ShownTail DEF PipeInv, PipeTypes
  <1>6. TicketsOK' /\ BatchOK'
    BY <1>1 DEF PipeInv, TicketsOK, books, loop, BatchOK
  <1>7. \A r : Shown(net, r)' = Shown(net', r)
    BY DEF Shown, About
  <1>8. NewOK'
    BY <1>1, <1>5, <1>7 DEF PipeInv, NewOK, New, books, loop
  <1>9. FlowOK'
    <2>1. Good' = Good /\ UNCHANGED <<pc, batch, tokens, bid, cache, outputs>>
      BY <1>1 DEF Good, books, loop
    <2> QED
      BY <1>3, <1>4, <2>1, FlowKept DEF PipeInv
  <1> QED
    BY <1>2, <1>4, <1>6, <1>8, <1>9 DEF PipeInv

LEMMA GarbleIsPromised ==
    ASSUME NEW S \in SUBSET Request, S # {}, twice' = twice \union S, UNCHANGED <<given, mark>>
    PROVE  Promised
  <1>1. Promise!Garble(S)
    BY DEF Promise!Garble
  <1>2. Promise!StreamNext
    BY <1>1 DEF Promise!StreamNext
  <1> QED
    BY <1>2 DEF Promised

LEMMA DrainStep ==
    ASSUME PipeInv, Drain
    PROVE  PipeInv' /\ Promised
  <1>1. /\ pc = "drain" /\ UNCHANGED <<client, ticket, waiting, running, outputs, given, mark, batch, tokens, bid,
                                      remote, back, twice>>
    BY DEF Drain
  <1>2. Promised
    BY <1>1 DEF Promised
  <1>3. net \in Seq(Note) /\ back \in Seq(Reply) /\ release \in Seq(Request)
    BY DEF PipeInv, PipeTypes
  <1>4. CASE release = <<>>
    <2>1. pc' = "choose" /\ UNCHANGED <<release, net>>
      BY <1>4 DEF Drain
    <2>2. PipeTypes'
      BY <1>1, <2>1 DEF PipeInv, PipeTypes, remote
    <2>3. TicketsOK' /\ NewOK' /\ BatchOK'
      BY <1>1, <2>1 DEF PipeInv, TicketsOK, NewOK, New, Shown, About, BatchOK, remote
    <2>4. FlowOK'
      BY <1>1, <2>1 DEF PipeInv, FlowOK, NetOK, BackOK, CacheOK, DeliverOK, Rows, Good, Shown, About, Awaited, remote
    <2> QED
      BY <1>2, <2>2, <2>3, <2>4 DEF PipeInv
  <1>5. CASE release # <<>>
    <2> DEFINE r == Head(release)
               m == [kind |-> "free", who |-> r]
    <2>1. release' = Tail(release) /\ net' = Append(net, m) /\ pc' = pc
      BY <1>5 DEF Drain
    <2>2. r \in Request /\ release' \in Seq(Request) /\ Range(release) = Range(release') \union {r}
      BY <1>3, <1>5, <2>1, SeqTail
    <2>3. m \in Note /\ About(m) = {r} /\ m.kind = "free"
      BY <2>2 DEF Note, About
    <2> HIDE DEF m, r
    <2>4. r \notin ticket /\ ~New(r)
      BY <2>2 DEF PipeInv, TicketsOK, NewOK
    <2>5. net' \in Seq(Note)
      BY <1>3, <2>1, <2>3, SeqAppend
    <2>6. PipeTypes'
      BY <1>1, <2>1, <2>2, <2>5 DEF PipeInv, PipeTypes, remote
    <2>7. TicketsOK' /\ BatchOK'
      BY <1>1, <2>1, <2>2 DEF PipeInv, TicketsOK, BatchOK
    <2>8. NewOK'
      <3>1. \A q \in Request : New(q)' => New(q) /\ q # r
        BY <1>1, <2>4 DEF New
      <3>2. \A q : Shown(net, q)' = Shown(net', q)
        BY DEF Shown, About
      <3>3. \A q \in Request : Shown(net', q) => Shown(net, q) \/ q = r
        BY <1>3, <2>1, <2>3, ShownAppend
      <3> QED
        BY <1>1, <2>2, <3>1, <3>2, <3>3 DEF PipeInv, NewOK, remote
    <2>9. FlowOK'
      <3>1. UNCHANGED <<pc, batch, tokens, bid, cache, outputs, back>> /\ Good' = Good
        BY <1>1, <2>1 DEF remote, Good
      <3>2. From(net, net, {m}) /\ From(back', back, {})
        BY <1>3, <3>1, FromItself
      <3>3. From(net', net, {m})
        BY <1>3, <2>1, <2>3, <3>2, FromAppend
      <3>4. \A k \in {m} : Idle(k)'
        BY <2>3, <2>4, <3>1 DEF Idle, About, Good
      <3> QED
        BY <2>3, <2>6, <3>1, <3>2, <3>3, <3>4, FlowKept DEF PipeInv
    <2> QED
      BY <1>2, <2>6, <2>7, <2>8, <2>9 DEF PipeInv
  <1> QED
    BY <1>4, <1>5

(* Overtaken or repeated: what it is about is not vouched for any longer.     *)
LEMMA AgainStep ==
    ASSUME PipeInv, Late \/ Repeat
    PROVE  PipeInv' /\ Promised
  <1> DEFINE m == Head(net)
  <1>1. net \in Seq(Note) /\ back \in Seq(Reply)
    BY DEF PipeInv, PipeTypes
  <1>2. net # <<>>
    BY <1>1, SeqRange DEF Late, Repeat
  <1>3. PICK n \in {net, Tail(net)} : net' = Append(n, m)
    BY DEF Late, Repeat
  <1>4. twice' = twice \union About(m) /\ UNCHANGED <<client, books, loop, remote, back>>
    BY DEF Late, Repeat
  <1>5. m \in Note /\ m \in Range(net) /\ Tail(net) \in Seq(Note) /\ n \in Seq(Note)
    <2>1. m \in Note /\ Tail(net) \in Seq(Note)
      BY <1>1, <1>2, SeqTail
    <2>2. m \in Range(net)
      BY <1>1, <1>2, SeqRange
    <2> QED
      BY <1>1, <1>3, <2>1, <2>2
  <1>6. PICK i \in 1 .. Len(net) : m = net[i]
    BY <1>1, <1>5, SeqRange
  <1>7. m.kind = "activations" => m.who # <<>> /\ m.id <= bid /\ (pc = "await" /\ m.id = bid => m.who = batch)
    BY <1>6 DEF PipeInv, FlowOK, NetOK
  <1>8. \A q : Shown(net', q) => Shown(net, q)
    <2>1. \A q : Shown(net', q) <=> q \in About(m) \/ Shown(n, q)
      BY <1>3, <1>5, ShownAppend
    <2>2. \A q : Shown(net, q) <=> q \in About(m) \/ Shown(Tail(net), q)
      BY <1>1, <1>2, ShownTail
    <2> QED
      BY <1>3, <2>1, <2>2
  <1>9. net' \in Seq(Note) /\ From(net', net, {m}) /\ From(back, back, {})
    <2>1. From(net, net, {m}) /\ From(back, back, {})
      BY <1>1, FromItself
    <2>2. From(Tail(net), net, {m})
      BY <1>1, <1>2, FromTail
    <2>3. From(n, net, {m})
      BY <1>3, <2>1, <2>2
    <2>4. net' \in Seq(Note)
      BY <1>3, <1>5, SeqAppend
    <2> QED
      BY <1>1, <1>3, <1>5, <2>1, <2>3, <2>4, FromAppend
  <1>10. About(m) \subseteq Request /\ About(m) # {}
    <2>1. CASE m.kind = "free"
      BY <1>5, <2>1, NoteShape
    <2>2. CASE m.kind = "activations"
      BY <1>5, <1>7, <2>2, NoteShape, SeqRange
    <2> QED
      BY <1>5, <2>1, <2>2, NoteShape
  <1> HIDE DEF m
  <1>11. Promised
    BY <1>4, <1>10, GarbleIsPromised DEF books
  <1>12. PipeTypes'
    BY <1>4, <1>9, <1>10 DEF PipeInv, PipeTypes, books, loop, remote
  <1>13. TicketsOK' /\ BatchOK'
    BY <1>4 DEF PipeInv, TicketsOK, BatchOK, books, loop
  <1>14. NewOK'
    <2>1. \A q : Shown(net, q)' = Shown(net', q)
      BY DEF Shown, About
    <2> QED
      BY <1>4, <1>8, <2>1 DEF PipeInv, NewOK, New, books, loop, remote
  <1>15. FlowOK'
    <2>1. UNCHANGED <<pc, batch, tokens, bid, cache, outputs, back>> /\ Good' = Good \ About(m)
      BY <1>4 DEF books, loop, remote, Good
    <2>2. \A k \in {m} : Idle(k)'
      <3>1. \A k : About(k)' = About(k)
        BY DEF About
      <3> QED
        BY <1>7, <2>1 DEF Idle, About
    <2> QED
      BY <1>5, <1>9, <1>12, <2>1, <2>2, FlowKept DEF PipeInv
  <1> QED
    BY <1>11, <1>12, <1>13, <1>14, <1>15 DEF PipeInv

LEMMA BackFewer ==
    ASSUME PipeTypes, back' = back \/ (back # <<>> /\ back' = Tail(back))
    PROVE  back' \in Seq(Reply) /\ From(back', back, {})
  <1>1. back \in Seq(Reply)
    BY DEF PipeTypes
  <1>2. CASE back' = back
    BY <1>1, <1>2, FromItself
  <1>3. CASE back # <<>> /\ back' = Tail(back)
    <2>1. Tail(back) \in Seq(Reply)
      BY <1>1, <1>3, SeqTail
    <2>2. From(Tail(back), back, {})
      BY <1>1, <1>3, FromTail
    <2> QED
      BY <1>3, <2>1, <2>2
  <1> QED
    BY <1>2, <1>3

LEMMA FailsIsPromised ==
    ASSUME NEW S \in SUBSET Request, \A r \in S : mark[r] = "none", mark \in [Request -> {"none", "stop", "length", "error"}],
           mark' = [r \in Request |-> IF r \in S THEN "error" ELSE mark[r]],
           UNCHANGED <<given, twice>>
    PROVE  Promised
  <1>1. CASE S = {}
    <2>1. mark' = mark
      BY <1>1
    <2> QED
      BY <2>1 DEF Promised
  <1>2. CASE S # {}
    <2>1. Promise!Fails(S)
      BY DEF Promise!Fails
    <2>2. Promise!StreamNext
      BY <1>2, <2>1 DEF Promise!StreamNext
    <2> QED
      BY <2>2 DEF Promised
  <1> QED
    BY <1>1, <1>2

(* A batch fails: of those in it none is vouched for, nor has a seat.         *)
LEMMA FailStep ==
    ASSUME PipeInv, pc \in {"compute", "await"}, FailBatch,
           UNCHANGED <<client, batch, tokens, bid, net, cache, twice>>,
           back' = back \/ (back # <<>> /\ back' = Tail(back))
    PROVE  PipeInv' /\ Promised
  <1> DEFINE S == Range(batch)
  <1>1. /\ mark' = [r \in Request |-> IF r \in S /\ r \in ticket THEN "error" ELSE mark[r]]
        /\ ticket' = ticket \ S /\ running' = running \ S /\ release' = release \o batch
        /\ pc' = "drain" /\ UNCHANGED <<waiting, outputs, given>>
    BY DEF FailBatch
  <1>2. Promised
    <2>1. S \cap ticket \in SUBSET Request /\ \A r \in S \cap ticket : mark[r] = "none"
      BY DEF PipeInv, PipeTypes, TicketsOK
    <2>2. mark' = [r \in Request |-> IF r \in S \cap ticket THEN "error" ELSE mark[r]]
      BY <1>1
    <2>3. mark \in [Request -> {"none", "stop", "length", "error"}]
      BY DEF PipeInv, PipeTypes
    <2> QED
      BY <1>1, <2>1, <2>2, <2>3, FailsIsPromised
  <1>3. release' \in Seq(Request) /\ Range(release') = Range(release) \union S
    BY <1>1, SeqConcat DEF PipeInv, PipeTypes
  <1> HIDE DEF S
  <1>4. PipeTypes'
    <2>1. IsFiniteSet(running')
      BY <1>1, FS_Subset DEF PipeInv, PipeTypes
    <2>2. mark' \in [Request -> {"none", "stop", "length", "error"}]
      BY <1>1 DEF PipeInv, PipeTypes
    <2>3. back' \in Seq(Reply)
      BY BackFewer DEF PipeInv
    <2> QED
      BY <1>1, <1>3, <2>1, <2>2, <2>3 DEF PipeInv, PipeTypes
  <1>5. TicketsOK'
    <2>1. S \cap Range(waiting) = {}
      BY DEF S, PipeInv, PipeTypes, NewOK, New, TicketsOK
    <2>2. \A r \in ticket' : mark'[r] = mark[r]
      BY <1>1 DEF PipeInv, PipeTypes
    <2> QED
      BY <1>1, <1>3, <2>1, <2>2 DEF PipeInv, TicketsOK
  <1>6. NewOK'
    <2>1. \A r \in Request : New(r)' => New(r)
      BY <1>1 DEF New
    <2>2. \A r \in Request : New(r) => r \notin S /\ mark'[r] = mark[r]
      BY <1>1 DEF PipeInv, NewOK, S
    <2> QED
      BY <1>1, <1>3, <2>1, <2>2 DEF PipeInv, NewOK, Shown, About, S
  <1>7. BatchOK'
    BY <1>1 DEF BatchOK
  <1>8. FlowOK'
    <2>1. \A r \in Good' : r \in Good /\ r \notin S
      BY <1>1 DEF Good
    <2>2. NetOK'
      BY <1>1, <2>1 DEF PipeInv, FlowOK, NetOK, About, S
    <2>3. BackOK'
      <3>1. PICK e \in {0, 1} : \A i \in 1 .. Len(back') : i + e \in 1 .. Len(back) /\ back'[i] = back[i + e]
        BY BackFewer DEF PipeInv, From
      <3> QED
        BY <1>1, <3>1 DEF PipeInv, FlowOK, BackOK
    <2>4. CacheOK'
      BY <1>1, <2>1 DEF PipeInv, FlowOK, CacheOK, Awaited, S
    <2>5. DeliverOK'
      BY <1>1 DEF DeliverOK
    <2> QED
      BY <2>2, <2>3, <2>4, <2>5 DEF FlowOK
  <1> QED
    BY <1>2, <1>4, <1>5, <1>6, <1>7, <1>8 DEF PipeInv

LEMMA CountWithin ==
    ASSUME NEW n \in Nat, NEW G \in SUBSET (1 .. n)
    PROVE  Cardinality(G) \in 0 .. n
  <1>1. IsFiniteSet(1 .. n) /\ Cardinality(1 .. n) = n
    BY FS_Interval
  <1>2. Cardinality(G) \in Nat /\ Cardinality(G) <= n
    BY <1>1, FS_Subset, FS_CardinalityType
  <1> QED
    BY <1>2

LEMMA FreshFits == ASSUME waiting \in Seq(Request) PROVE FreshCount \in 0 .. Len(waiting)
  <1>1. Len(waiting) \in Nat
    BY SeqRange
  <1> QED
    BY <1>1, CountWithin DEF FreshCount

(* A batch is of the first that wait, or of all who have a seat.              *)
LEMMA ChosenBatch ==
    ASSUME PipeInv, Choose
    PROVE  /\ batch' \in Seq(Request) /\ Distinct(batch') /\ waiting' \in Seq(Request) /\ Distinct(waiting')
           /\ Range(waiting') \subseteq Range(waiting) /\ IsFiniteSet(running')
           /\ running' = running \union (Range(waiting) \ Range(waiting'))
           /\ \/ Range(batch') = Range(waiting) \ Range(waiting') /\ pc' = "compute"
              \/ Range(batch') \subseteq running /\ running' = running
           /\ pc' \in {"drain", "compute"} /\ (pc' = "compute" => batch' # <<>>)
  <1> DEFINE fresh == SubSeq(waiting, 1, FreshCount)
             rest == SubSeq(waiting, FreshCount + 1, Len(waiting))
             alive == {r \in running : outputs[r] < Want}
  <1>1. /\ fresh \in Seq(Request) /\ rest \in Seq(Request) /\ Distinct(fresh) /\ Distinct(rest)
        /\ Range(waiting) = Range(fresh) \union Range(rest) /\ Range(fresh) \cap Range(rest) = {}
    BY SeqSplit, FreshFits DEF PipeInv, PipeTypes, TicketsOK
  <1>2. /\ SetToSeq(alive) \in Seq(Request) /\ Range(SetToSeq(alive)) = alive /\ Distinct(SetToSeq(alive))
    <2>1. IsFiniteSet(alive) /\ alive \subseteq Request
      BY FS_Subset DEF PipeInv, PipeTypes
    <2> HIDE DEF alive
    <2>2. SetToSeq(alive) \in Seq(alive) /\ Range(SetToSeq(alive)) = alive /\ Distinct(SetToSeq(alive))
      BY <2>1, SeqOfSet
    <2> QED
      BY <2>1, <2>2, SeqMonotonic
  <1>3. \/ /\ fresh # <<>> /\ batch' = fresh /\ running' = running \union Range(fresh)
           /\ waiting' = rest /\ pc' = "compute"
        \/ /\ batch' = SetToSeq(alive) /\ UNCHANGED <<running, waiting>>
           /\ pc' = IF alive = {} THEN "drain" ELSE "compute"
    BY DEF Choose
  <1>4. IsFiniteSet(Range(fresh)) /\ IsFiniteSet(running)
    BY <1>1, SeqFinite DEF PipeInv, PipeTypes
  <1>5. alive \subseteq running
    OBVIOUS
  <1> HIDE DEF fresh, rest, alive
  <1>6. CASE /\ fresh # <<>> /\ batch' = fresh /\ running' = running \union Range(fresh)
             /\ waiting' = rest /\ pc' = "compute"
    <2>1. IsFiniteSet(running')
      BY <1>4, <1>6, FS_Union
    <2> QED
      BY <1>1, <1>6, <2>1
  <1>7. CASE /\ batch' = SetToSeq(alive) /\ UNCHANGED <<running, waiting>>
             /\ pc' = IF alive = {} THEN "drain" ELSE "compute"
    <2>1. alive # {} => batch' # <<>>
      BY <1>2, <1>7, SeqEmpty
    <2>2. waiting \in Seq(Request) /\ Distinct(waiting)
      BY DEF PipeInv, PipeTypes, TicketsOK
    <2> QED
      BY <1>2, <1>4, <1>5, <1>7, <2>1, <2>2
  <1> QED
    BY <1>3, <1>6, <1>7

(* None of its requests is under way.                                         *)
LEMMA ChooseStep ==
    ASSUME PipeInv, Choose
    PROVE  PipeInv' /\ Promised
  <1>1. /\ pc = "choose"
        /\ UNCHANGED <<client, ticket, outputs, given, mark, release, tokens, bid, engine, remote, wires>>
        /\ UNCHANGED <<net, back, twice, cache>>
    BY DEF Choose, wires, remote
  <1>2. Promised
    BY <1>1 DEF Promised
  <1>3. /\ batch' \in Seq(Request) /\ Distinct(batch') /\ waiting' \in Seq(Request) /\ Distinct(waiting')
        /\ Range(waiting') \subseteq Range(waiting)
        /\ running' = running \union (Range(waiting) \ Range(waiting')) /\ IsFiniteSet(running')
        /\ Range(batch') \subseteq running'
        /\ pc' \in {"drain", "compute"} /\ (pc' = "compute" => batch' # <<>>)
    BY ChosenBatch
  <1>4. Range(waiting) \subseteq Request /\ Range(waiting') \subseteq Request
    BY <1>3, SeqRange DEF PipeInv, PipeTypes
  <1>5. PipeTypes'
    BY <1>1, <1>3, <1>4 DEF PipeInv, PipeTypes, remote
  <1>6. TicketsOK'
    BY <1>1, <1>3 DEF PipeInv, TicketsOK
  <1>7. NewOK'
    <2>1. \A r \in Request : New(r)' => New(r) /\ r \notin Range(batch')
      BY <1>1, <1>3 DEF New, PipeInv, TicketsOK
    <2> QED
      BY <1>1, <2>1 DEF PipeInv, NewOK, Shown, About
  <1>8. BatchOK'
    BY <1>3 DEF BatchOK
  <1>9. FlowOK'
    <2>1. Good' = Good
      BY <1>1 DEF Good
    <2> QED
      BY <1>1, <1>3, <2>1 DEF PipeInv, FlowOK, NetOK, BackOK, CacheOK, DeliverOK, About, Awaited
  <1> QED
    BY <1>2, <1>5, <1>6, <1>7, <1>8, <1>9 DEF PipeInv

LEMMA ComputeStep ==
    ASSUME PipeInv, Compute
    PROVE  PipeInv' /\ Promised
  <1> DEFINE m == [kind |-> "activations", who |-> batch, id |-> bid + 1]
  <1>1. /\ pc = "compute" /\ pc' = "await" /\ bid' = bid + 1 /\ net' = Append(net, m)
        /\ UNCHANGED <<client, books, batch, tokens, remote, back, twice>>
        /\ UNCHANGED <<ticket, waiting, running, outputs, given, mark, release, cache>>
    BY DEF Compute, books, remote
  <1>2. Promised
    BY <1>1 DEF Promised
  <1>3. /\ net \in Seq(Note) /\ batch \in Seq(Request) /\ bid \in Nat /\ batch # <<>> /\ Distinct(batch)
    BY <1>1 DEF PipeInv, PipeTypes, BatchOK
  <1>4. /\ m \in Note /\ About(m) = Range(batch) /\ m.kind = "activations" /\ m.who = batch /\ m.id = bid + 1
    BY <1>3 DEF Note, About
  <1> HIDE DEF m
  <1>5. /\ net' \in Seq(Note) /\ 1 .. Len(net') = (1 .. Len(net)) \union {Len(net) + 1}
        /\ \A i \in 1 .. Len(net) : net'[i] = net[i]
        /\ net'[Len(net) + 1] = m
    BY <1>1, <1>3, <1>4, SeqAppend
  <1>6. PipeTypes'
    <2>1. bid' \in Nat
      BY <1>1, <1>3
    <2>2. pc' \in {"drain", "choose", "compute", "await", "deliver"}
      BY <1>1
    <2> QED
      BY <1>1, <1>5, <2>1, <2>2 DEF PipeInv, PipeTypes
  <1>7. TicketsOK'
    BY <1>1 DEF PipeInv, TicketsOK
  <1>8. \A r : Shown(net, r)' => Shown(net, r) \/ r \in Range(batch)
    <2>1. \A r : Shown(net, r)' = Shown(net', r)
      BY DEF Shown, About
    <2> QED
      BY <1>1, <1>3, <1>4, <2>1, ShownAppend
  <1>9. NewOK'
    BY <1>1, <1>8 DEF PipeInv, NewOK, New
  <1>10. BatchOK'
    BY <1>1, <1>3 DEF BatchOK
  <1>11. FlowOK'
    <2>1. Good' = Good
      BY <1>1 DEF Good
    <2>2. \A i \in 1 .. Len(net) : \A r \in Good : r \notin About(net[i])
      BY <1>1 DEF PipeInv, FlowOK, NetOK
    <2>3. \A i \in 1 .. Len(net) : net[i].kind = "activations" => net[i].id \in Nat /\ net[i].id <= bid /\ net[i].who # <<>>
      <3>1. \A i \in 1 .. Len(net) : net[i] \in Note
        BY <1>3, ElementOfSeq
      <3> QED
        BY <3>1, NoteShape DEF PipeInv, FlowOK, NetOK
    <2>4. NetOK'
      <3>1. \A i : About(net[i])' = About(net'[i])
        BY DEF About
      <3>2. ASSUME NEW i \in 1 .. Len(net'), net'[i].kind = "activations"
            PROVE  /\ net'[i].who # <<>> /\ net'[i].id <= bid'
                   /\ pc' = "await" /\ net'[i].id = bid' => net'[i].who = batch'
        <4>1. CASE i = Len(net) + 1
          BY <1>1, <1>3, <1>4, <1>5, <4>1
        <4>2. CASE i \in 1 .. Len(net)
          BY <1>1, <1>3, <1>5, <2>3, <3>2, <4>2
        <4> QED
          BY <1>5, <4>1, <4>2
      <3>3. \A i \in 1 .. Len(net') : \A r \in Good : r \in About(net'[i]) => i = Len(net) + 1
        BY <1>5, <2>2
      <3>4. \A r \in Good : r \in Range(batch) => cache[r] = outputs[r]
        BY <1>1 DEF PipeInv, FlowOK, CacheOK, Awaited
      <3>5. ASSUME NEW i \in 1 .. Len(net'), NEW r \in Good, r \in About(net'[i])
            PROVE  /\ r \in Range(batch) /\ net'[i].kind = "activations" /\ net'[i].id = bid + 1
        BY <1>4, <1>5, <3>3, <3>5
      <3> QED
        BY <1>1, <2>1, <3>1, <3>2, <3>3, <3>4, <3>5 DEF NetOK
    <2>5. BackOK'
      <3>1. \A i \in 1 .. Len(back) : back[i] \in Reply /\ back[i].id <= bid
        BY ElementOfSeq DEF PipeInv, PipeTypes, FlowOK, BackOK
      <3>2. \A i \in 1 .. Len(back) : back[i].id \in Nat
        BY <3>1 DEF Reply
      <3>3. \A i \in 1 .. Len(back') : back'[i].id <= bid' /\ back'[i].id # bid'
        <4>1. back' = back /\ bid' = bid + 1 /\ bid \in Nat
          BY <1>1, <1>3 DEF PipeInv, PipeTypes
        <4>2. \A x \in Nat : x <= bid => x <= bid + 1 /\ x # bid + 1
          BY <4>1
        <4> QED
          BY <3>1, <3>2, <4>1, <4>2
      <3> QED
        BY <3>3 DEF BackOK
    <2>6. CacheOK' /\ DeliverOK'
      BY <1>1, <2>1 DEF PipeInv, FlowOK, CacheOK, Awaited, DeliverOK
    <2> QED
      BY <2>4, <2>5, <2>6 DEF FlowOK
  <1> QED
    BY <1>2, <1>6, <1>7, <1>9, <1>10, <1>11 DEF PipeInv

LEMMA AnsweredStep ==
    ASSUME PipeInv, Answered
    PROVE  PipeInv' /\ Promised
  <1> DEFINE m == Head(back)
  <1>1. /\ pc = "await" /\ back # <<>> /\ back' = Tail(back)
        /\ UNCHANGED <<client, batch, bid, engine, remote, net, twice, faults>> /\ cache' = cache
    BY DEF Answered, remote
  <1>2. back \in Seq(Reply) /\ m \in Reply /\ back' \in Seq(Reply)
    <2>1. back \in Seq(Reply)
      BY DEF PipeInv, PipeTypes
    <2> QED
      BY <1>1, <2>1, SeqTail
  <1>3. CASE ~Mine(m) /\ UNCHANGED <<pc, tokens, books>>
    <2>1. /\ UNCHANGED <<pc, batch, tokens, bid, cache, outputs, ticket, waiting, running, given, mark, release>>
          /\ Good' = Good
      BY <1>1, <1>3 DEF books, Good
    <2>2. PipeTypes' /\ TicketsOK' /\ NewOK' /\ BatchOK' /\ Promised
      <3>1. PipeTypes'
        BY <1>1, <1>2, <2>1 DEF PipeInv, PipeTypes
      <3>2. TicketsOK' /\ BatchOK' /\ Promised
        BY <1>1, <2>1 DEF PipeInv, TicketsOK, BatchOK, Promised
      <3>3. NewOK'
        BY <1>1, <2>1 DEF PipeInv, NewOK, New, Shown, About
      <3> QED
        BY <3>1, <3>2, <3>3
    <2>3. From(net', net, {}) /\ From(back', back, {})
      <3>1. net \in Seq(Note)
        BY DEF PipeInv, PipeTypes
      <3>2. From(net, net, {})
        BY <3>1, FromItself
      <3> QED
        BY <1>1, <3>2, BackFewer DEF PipeInv
    <2>4. FlowOK'
      BY <1>1, <2>1, <2>2, <2>3, FlowKept DEF PipeInv
    <2> QED
      BY <2>2, <2>4 DEF PipeInv
  <1>4. CASE FailBatch /\ UNCHANGED tokens
    BY <1>1, <1>4, FailStep
  <1>5. CASE /\ Mine(m) /\ ~(m.kind = "error" \/ Len(m.rows) # Len(batch))
             /\ tokens' = m.rows /\ pc' = "deliver" /\ UNCHANGED books
    <2>1. /\ UNCHANGED <<outputs, ticket, waiting, running, given, mark, release>> /\ Good' = Good
      BY <1>1, <1>5 DEF books, Good
    <2>2. m.kind = "tokens" /\ m.rows \in Seq(Nat) /\ m.id = bid /\ tokens' = m.rows /\ Len(m.rows) = Len(batch)
      BY <1>2, <1>5 DEF Reply, Mine
    <2>3. PICK i \in 1 .. Len(back) : m = back[i]
      <3>1. m \in Range(back) /\ Range(back) = {back[i] : i \in 1 .. Len(back)}
        BY <1>1, <1>2, SeqRange
      <3> QED
        BY <3>1
    <2>4. Rows(m.rows) /\ \A r \in Good : r \in Range(batch) => ~Shown(net, r)
      BY <1>1, <2>2, <2>3 DEF PipeInv, FlowOK, BackOK
    <2> HIDE DEF m
    <2>5. PipeTypes' /\ TicketsOK' /\ NewOK' /\ BatchOK' /\ Promised
      <3>1. PipeTypes'
        BY <1>1, <1>2, <1>5, <2>1, <2>2 DEF PipeInv, PipeTypes
      <3>2. TicketsOK' /\ BatchOK' /\ Promised
        BY <1>1, <2>1 DEF PipeInv, TicketsOK, BatchOK, Promised
      <3>3. NewOK'
        BY <1>1, <2>1 DEF PipeInv, NewOK, New, Shown, About
      <3> QED
        BY <3>1, <3>2, <3>3
    <2>6. NetOK'
      <3>1. \A k \in 1 .. Len(net) : \A r \in Good : r \notin About(net[k])
        BY <2>4 DEF PipeInv, FlowOK, NetOK, Shown
      <3> QED
        BY <1>1, <1>5, <2>1, <3>1 DEF PipeInv, FlowOK, NetOK, About
    <2>7. BackOK'
      <3>1. PICK e \in {0, 1} : \A k \in 1 .. Len(back') : k + e \in 1 .. Len(back) /\ back'[k] = back[k + e]
        BY <1>1, BackFewer DEF PipeInv, From
      <3> QED
        BY <1>1, <1>5, <3>1 DEF PipeInv, FlowOK, BackOK
    <2>8. CacheOK'
      BY <1>1, <1>5, <2>1 DEF PipeInv, FlowOK, CacheOK, Awaited
    <2>9. DeliverOK'
      BY <1>1, <1>5, <2>1, <2>2, <2>4 DEF DeliverOK, Rows
    <2> QED
      BY <2>5, <2>6, <2>7, <2>8, <2>9 DEF PipeInv, FlowOK
  <1> QED
    BY <1>3, <1>4, <1>5 DEF Answered

(* The stage takes the first message: what it is about may change in the      *)
(* cache, and one answer may come of it, a right one.                         *)
RightAnswer(a) ==
    /\ a \in Reply /\ a.id <= bid
    /\ pc = "await" /\ a.id = bid /\ a.kind = "tokens" =>
          /\ About(Head(net)) = Range(batch)
          /\ \A k \in 1 .. Len(batch) :
                a.rows[k] = cache'[batch[k]] /\ cache'[batch[k]] = cache[batch[k]] + 1
LEMMA StageKept ==
    ASSUME PipeInv, net # <<>>, net' = Tail(net), cache' \in [Request -> Nat],
           UNCHANGED <<client, books, loop, twice>>,
           \A q \in Request : q \notin About(Head(net)) => cache'[q] = cache[q],
           back' = back \/ \E a : RightAnswer(a) /\ back' = Append(back, a)
    PROVE  PipeInv' /\ Promised
  <1> DEFINE m == Head(net)
  <1>1. UNCHANGED <<client, ticket, waiting, running, outputs, given, mark, release, pc, batch, tokens, bid, twice>>
    BY DEF books, loop
  <1>2. net \in Seq(Note) /\ back \in Seq(Reply) /\ batch \in Seq(Request)
    BY DEF PipeInv, PipeTypes
  <1>3. /\ net' \in Seq(Note) /\ 1 \in 1 .. Len(net) /\ m = net[1]
        /\ \A i \in 1 .. Len(net') : net'[i] = net[i + 1] /\ i + 1 \in 1 .. Len(net) /\ i + 1 # 1
    <2>1. /\ net' \in Seq(Note) /\ Len(net') = Len(net) - 1
          /\ \A i \in 1 .. Len(net') : net'[i] = net[i + 1] /\ i + 1 \in 1 .. Len(net)
      BY <1>2, SeqTail
    <2>2. Len(net) \in Nat /\ Len(net) > 0 /\ m = net[1]
      BY <1>2, SeqRange
    <2> QED
      BY <2>1, <2>2
  <1>4. /\ back' \in Seq(Reply)
        /\ \A i \in 1 .. Len(back') : \/ i \in 1 .. Len(back) /\ back'[i] = back[i]
                                      \/ RightAnswer(back'[i])
    <2>1. CASE back' = back
      BY <1>2, <2>1
    <2>2. CASE \E a : RightAnswer(a) /\ back' = Append(back, a)
      <3>1. PICK a : RightAnswer(a) /\ back' = Append(back, a)
        BY <2>2
      <3>2. a \in Reply
        BY <3>1 DEF RightAnswer
      <3>3. /\ back' \in Seq(Reply) /\ 1 .. Len(back') = (1 .. Len(back)) \union {Len(back) + 1}
            /\ \A i \in 1 .. Len(back) : back'[i] = back[i]
            /\ back'[Len(back) + 1] = a
        BY <1>2, <3>1, <3>2, SeqAppend
      <3> QED
        BY <3>1, <3>3
    <2> QED
      BY <2>1, <2>2
  <1> HIDE DEF m
  <1>5. PipeTypes'
    BY <1>1, <1>3, <1>4 DEF PipeInv, PipeTypes
  <1>6. TicketsOK' /\ BatchOK' /\ Promised /\ Good' = Good
    BY <1>1 DEF PipeInv, TicketsOK, BatchOK, Promised, Good
  <1>7. \A r : /\ Shown(net, r)' => Shown(net, r)
               /\ r \in About(m) => Shown(net, r)
    <2>1. \A r : Shown(net, r)' = Shown(net', r)
      BY DEF Shown, About
    <2> QED
      BY <1>2, <2>1, ShownTail DEF m
  <1>8. NewOK'
    BY <1>1, <1>7 DEF PipeInv, NewOK, New, m
  <1>9. \A r \in Good : r \in Request
    BY DEF PipeInv, PipeTypes, Good
  <1>10. NetOK'
    <2>1. \A i : About(net[i])' = About(net'[i])
      BY DEF About
    <2>2. ASSUME NEW i \in 1 .. Len(net'), NEW j \in 1 .. Len(net'), NEW r \in Good,
                 r \in About(net'[i]), r \in About(net'[j])
          PROVE  i = j
      <3>1. i + 1 = j + 1
        BY <1>3, <2>2 DEF PipeInv, FlowOK, NetOK
      <3> QED
        BY <3>1
    <2>3. ASSUME NEW i \in 1 .. Len(net')
          PROVE  /\ net'[i].kind = "activations" =>
                      /\ net'[i].who # <<>> /\ net'[i].id <= bid
                      /\ pc = "await" /\ net'[i].id = bid => net'[i].who = batch
                 /\ \A r \in Good : r \in About(net'[i]) =>
                      /\ pc = "await" /\ r \in Range(batch) /\ cache[r] = outputs[r]
                      /\ net'[i].kind = "activations" /\ net'[i].id = bid
      BY <1>3 DEF PipeInv, FlowOK, NetOK
    <2>4. ASSUME NEW i \in 1 .. Len(net'), NEW r \in Good, r \in About(net'[i]) PROVE cache'[r] = cache[r]
      <3>1. r \notin About(net[1])
        BY <1>3, <2>4 DEF PipeInv, FlowOK, NetOK
      <3> QED
        BY <1>3, <1>9, <3>1 DEF m
    <2> QED
      BY <1>1, <1>6, <2>1, <2>2, <2>3, <2>4 DEF NetOK
  <1>11. \A r \in Good : r \in About(m) => pc = "await" /\ r \in Range(batch) /\ cache[r] = outputs[r]
    BY <1>3 DEF PipeInv, FlowOK, NetOK
  <1>12. \A k \in 1 .. Len(batch) : batch[k] \in Range(batch)
    BY <1>2, SeqRange
  <1>13. BackOK'
    <2> SUFFICES ASSUME NEW i \in 1 .. Len(back')
                 PROVE  /\ back'[i].id <= bid
                        /\ pc = "await" /\ back'[i].id = bid /\ back'[i].kind = "tokens" =>
                             /\ \A k \in 1 .. Len(batch) : batch[k] \in Good =>
                                   /\ back'[i].rows[k] = outputs[batch[k]] + 1
                                   /\ cache'[batch[k]] = outputs[batch[k]] + 1
                             /\ \A r \in Good : r \in Range(batch) => ~Shown(net, r)'
      BY <1>1, <1>6 DEF BackOK, Rows
    <2>1. CASE i \in 1 .. Len(back) /\ back'[i] = back[i]
      <3>1. back[i].id <= bid
        BY <2>1 DEF PipeInv, FlowOK, BackOK
      <3>2. ASSUME pc = "await" /\ back[i].id = bid /\ back[i].kind = "tokens"
            PROVE  /\ \A k \in 1 .. Len(batch) : batch[k] \in Good =>
                         /\ back[i].rows[k] = outputs[batch[k]] + 1
                         /\ cache'[batch[k]] = outputs[batch[k]] + 1
                   /\ \A r \in Good : r \in Range(batch) => ~Shown(net, r)'
        <4>1. Rows(back[i].rows) /\ \A r \in Good : r \in Range(batch) => ~Shown(net, r)
          BY <2>1, <3>2 DEF PipeInv, FlowOK, BackOK
        <4>2. \A r \in Good : r \in Range(batch) => cache'[r] = cache[r]
          BY <1>7, <1>9, <4>1 DEF m
        <4> QED
          BY <1>7, <1>12, <4>1, <4>2 DEF Rows
      <3> QED
        BY <2>1, <3>1, <3>2
    <2>2. CASE RightAnswer(back'[i])
      <3>1. ASSUME pc = "await" /\ back'[i].id = bid /\ back'[i].kind = "tokens"
            PROVE  /\ \A k \in 1 .. Len(batch) : batch[k] \in Good =>
                         /\ back'[i].rows[k] = outputs[batch[k]] + 1
                         /\ cache'[batch[k]] = outputs[batch[k]] + 1
                   /\ \A r \in Good : r \in Range(batch) => ~Shown(net, r)'
        <4>1. /\ About(m) = Range(batch)
              /\ \A k \in 1 .. Len(batch) :
                   back'[i].rows[k] = cache'[batch[k]] /\ cache'[batch[k]] = cache[batch[k]] + 1
          BY <2>2, <3>1 DEF RightAnswer, m
        <4>2. ASSUME NEW r \in Good, r \in Range(batch), Shown(net, r)' PROVE FALSE
          <5>1. PICK j \in 1 .. Len(net') : r \in About(net'[j])
            BY <4>2 DEF Shown, About
          <5>2. r \in About(net[j + 1]) /\ r \in About(net[1])
            BY <1>3, <4>1, <4>2, <5>1
          <5> QED
            BY <1>3, <5>2 DEF PipeInv, FlowOK, NetOK
        <4> QED
          BY <1>11, <1>12, <4>1, <4>2
      <3> QED
        BY <2>2, <3>1 DEF RightAnswer
    <2> QED
      BY <1>4, <2>1, <2>2
  <1>14. CacheOK'
    BY <1>1, <1>6, <1>9, <1>11 DEF PipeInv, FlowOK, CacheOK, Awaited, m
  <1>15. DeliverOK'
    <2>1. pc = "deliver" => \A r \in Good : cache'[r] = cache[r]
      BY <1>9, <1>11 DEF m
    <2> QED
      BY <1>1, <1>6, <2>1 DEF PipeInv, FlowOK, DeliverOK, Rows
  <1> QED
    BY <1>5, <1>6, <1>8, <1>10, <1>13, <1>14, <1>15 DEF PipeInv, FlowOK

LEMMA StageStep ==
    ASSUME PipeInv, StageHandles \/ StageFails
    PROVE  PipeInv' /\ Promised
  <1> DEFINE m == Head(net)
  <1>1. net # <<>> /\ net' = Tail(net) /\ UNCHANGED <<client, books, loop, twice>>
    BY DEF StageHandles, StageFails
  <1>2. /\ net \in Seq(Note) /\ back \in Seq(Reply) /\ cache \in [Request -> Nat] /\ bid \in Nat
    BY DEF PipeInv, PipeTypes
  <1>3. m \in Note
    BY <1>1, <1>2, SeqTail
  <1>4. m.kind = "activations" => /\ m.who \in Seq(Request) /\ About(m) = Range(m.who) /\ m.id \in Nat /\ m.id <= bid
                                  /\ pc = "await" /\ m.id = bid => m.who = batch
    <2>1. m \in Range(net)
      BY <1>1, <1>2, SeqRange
    <2>2. PICK i \in 1 .. Len(net) : m = net[i]
      BY <1>2, <2>1, SeqRange
    <2> HIDE DEF m
    <2> QED
      BY <1>3, <2>2, NoteShape DEF PipeInv, FlowOK, NetOK
  <1>5. m.kind = "free" => m.who \in Request /\ About(m) = {m.who}
    BY <1>3, NoteShape
  <1>6. CASE StageFails
    <2> DEFINE a == [kind |-> "error", id |-> m.id, rows |-> <<>>]
    <2>1. m.kind = "activations" /\ back' = Append(back, a) /\ cache' = cache
      BY <1>6 DEF StageFails, remote
    <2>2. a \in Reply /\ a.kind = "error" /\ a.id <= bid
      BY <1>4, <2>1 DEF Reply
    <2> HIDE DEF a
    <2>3. RightAnswer(a)
      BY <2>2 DEF RightAnswer
    <2> QED
      BY <1>1, <1>2, <2>1, <2>3, StageKept
  <1>7. CASE StageHandles
    <2>1. CASE UNCHANGED <<cache, back>>
      BY <1>1, <1>2, <2>1, StageKept
    <2>2. CASE m.kind = "free" /\ cache' = [cache EXCEPT ![m.who] = 0] /\ UNCHANGED back
      <3>1. cache' \in [Request -> Nat] /\ \A q \in Request : q \notin About(m) => cache'[q] = cache[q]
        BY <1>2, <1>5, <2>2
      <3> QED
        BY <1>1, <2>2, <3>1, StageKept
    <2>3. CASE /\ m.kind # "free" /\ cache' = Advance(cache, Range(m.who))
               /\ back' = Append(back, [kind |-> "tokens", id |-> m.id,
                                        rows |-> [i \in 1 .. Len(m.who) |-> cache'[m.who[i]]]])
      <3> DEFINE rows == [i \in 1 .. Len(m.who) |-> cache'[m.who[i]]]
                 a == [kind |-> "tokens", id |-> m.id, rows |-> rows]
      <3>1. m.kind = "activations"
        BY <1>3, <2>3, NoteShape
      <3>2. /\ m.who \in Seq(Request) /\ About(m) = Range(m.who) /\ m.id \in Nat /\ m.id <= bid
            /\ pc = "await" /\ m.id = bid => m.who = batch
        BY <1>4, <3>1
      <3> HIDE DEF m
      <3>3. /\ cache' \in [Request -> Nat] /\ \A q \in Request : q \notin About(m) => cache'[q] = cache[q]
            /\ \A q \in About(m) : q \in Request => cache'[q] = cache[q] + 1
        BY <1>2, <2>3, <3>2 DEF Advance
      <3>4. Len(m.who) \in Nat /\ \A i \in 1 .. Len(m.who) : m.who[i] \in Request /\ m.who[i] \in Range(m.who)
        BY <3>2, SeqRange
      <3>5. rows \in Seq(Nat) /\ \A i \in 1 .. Len(m.who) : rows[i] = cache'[m.who[i]]
        BY <3>3, <3>4
      <3> HIDE DEF rows
      <3>6. a \in Reply /\ a.id = m.id /\ a.rows = rows /\ a.kind = "tokens"
        BY <3>2, <3>5 DEF Reply
      <3>7. back' = Append(back, a)
        BY <2>3 DEF a, rows
      <3> HIDE DEF a
      <3>8. RightAnswer(a)
        BY <3>2, <3>3, <3>4, <3>5, <3>6 DEF RightAnswer, m
      <3> QED
        BY <1>1, <3>3, <3>7, <3>8, StageKept DEF m
    <2> QED
      BY <1>7, <2>1, <2>2, <2>3 DEF StageHandles
  <1> QED
    BY <1>6, <1>7

(* A token, in the step whose it is.                                          *)
LEMMA DeliverStep ==
    ASSUME PipeInv, Deliver
    PROVE  PipeInv' /\ Promised
  <1> DEFINE r == Head(batch)
             t == Head(tokens)
             n == IF r \in running THEN outputs[r] + 1 ELSE outputs[r]
  <1>1. /\ pc = "deliver" /\ outputs' = [outputs EXCEPT ![r] = n]
        /\ batch' = Tail(batch) /\ tokens' = Tail(tokens)
        /\ pc' = IF Len(batch) = 1 THEN "drain" ELSE "deliver"
        /\ UNCHANGED <<client, waiting, bid, net, back, twice, cache>>
    BY DEF Deliver, remote, wires
  <1>2. /\ batch \in Seq(Request) /\ tokens \in Seq(Nat) /\ release \in Seq(Request)
        /\ net \in Seq(Note) /\ back \in Seq(Reply)
        /\ given \in [Request -> Seq(Nat)] /\ outputs \in [Request -> Nat]
        /\ mark \in [Request -> {"none", "stop", "length", "error"}]
    BY DEF PipeInv, PipeTypes
  <1>3. batch # <<>> /\ Distinct(batch) /\ Len(tokens) = Len(batch) /\ Rows(tokens)
    BY <1>1 DEF PipeInv, BatchOK, FlowOK, DeliverOK
  <1>4. /\ r \in Request /\ r \in Range(batch) /\ r = batch[1] /\ Len(batch) \in Nat /\ Len(batch) > 0
        /\ batch' \in Seq(Request) /\ Len(batch') = Len(batch) - 1
        /\ \A k \in 1 .. Len(batch') : batch'[k] = batch[k + 1] /\ k + 1 \in 1 .. Len(batch)
        /\ Range(batch) = Range(batch') \union {r} /\ Distinct(batch') /\ r \notin Range(batch')
    <2>1. /\ Tail(batch) \in Seq(Request) /\ r \in Request /\ Len(Tail(batch)) = Len(batch) - 1
          /\ \A k \in 1 .. Len(Tail(batch)) : Tail(batch)[k] = batch[k + 1] /\ k + 1 \in 1 .. Len(batch)
          /\ Range(batch) = Range(Tail(batch)) \union {r}
          /\ Distinct(Tail(batch)) /\ r \notin Range(Tail(batch))
      BY <1>2, <1>3, SeqTail
    <2>2. r \in Range(batch) /\ r = batch[1] /\ Len(batch) \in Nat /\ Len(batch) > 0
      BY <1>2, <1>3, SeqRange
    <2> HIDE DEF r
    <2> QED
      BY <1>1, <2>1, <2>2
  <1>5. /\ t \in Nat /\ t = tokens[1] /\ tokens' \in Seq(Nat) /\ Len(tokens') = Len(tokens) - 1
        /\ \A k \in 1 .. Len(tokens') : tokens'[k] = tokens[k + 1]
    <2>1. Len(tokens) > 0 /\ tokens # <<>>
      BY <1>2, <1>3, <1>4, SeqRange
    <2> QED
      BY <1>1, <1>2, <2>1, SeqTail, SeqRange
  <1>6. 1 \in 1 .. Len(batch)
    BY <1>4
  <1> HIDE DEF r, t
  <1>7. ~New(r)
    BY <1>4 DEF PipeInv, NewOK
  <1>8. r \in ticket <=> r \in running
    BY <1>7 DEF PipeInv, TicketsOK, New
  <1>9. n \in Nat /\ outputs'[r] = n /\ \A q \in Request \ {r} : outputs'[q] = outputs[q]
    <2>1. n \in Nat
      <3>1. outputs[r] \in Nat
        BY <1>2, <1>4
      <3> QED
        BY <3>1
    <2> HIDE DEF n
    <2> QED
      BY <1>1, <1>2, <1>4, <2>1
  <1> DEFINE Stays == n < Want /\ UNCHANGED <<mark, ticket, running, release>>
             Given == given' = [given EXCEPT ![r] = Append(given[r], t)]
  <1>10. \/ r \notin ticket /\ Gone(r) /\ UNCHANGED <<given, mark>>
         \/ /\ r \in ticket /\ Given
            /\ \/ Gone(r) /\ mark' = [mark EXCEPT ![r] = "stop"]
               \/ Gone(r) /\ mark' = [mark EXCEPT ![r] = "length"] /\ n >= Want
               \/ Stays
    <2>1. \/ r \notin ticket /\ Gone(r) /\ UNCHANGED <<given, mark>>
          \/ /\ r \in ticket /\ given' = [given EXCEPT ![r] = Append(@, t)]
             /\ \E eos \in BOOLEAN :
                     IF eos \/ n >= Want
                     THEN /\ mark' = [mark EXCEPT ![r] = IF eos THEN "stop" ELSE "length"] /\ Gone(r)
                     ELSE UNCHANGED <<mark, ticket, running, release>>
      BY DEF Deliver, r, t
    <2>2. Want \in Nat
      BY PipelineAssumption
    <2> QED
      BY <1>9, <2>1, <2>2
  <1> HIDE DEF n
  <1>11. r \in ticket => /\ n = outputs[r] + 1 /\ n <= Want /\ Len(given[r]) = outputs[r] /\ mark[r] = "none"
                         /\ r \notin twice => t = n
    <2>1. ASSUME r \in ticket PROVE n = outputs[r] + 1 /\ n <= Want /\ Len(given[r]) = outputs[r] /\ mark[r] = "none"
      <3>1. n = outputs[r] + 1
        BY <1>8, <2>1 DEF n
      <3>2. outputs[r] < Want /\ Len(given[r]) = outputs[r] /\ mark[r] = "none"
        BY <2>1 DEF PipeInv, TicketsOK
      <3> QED
        BY <1>2, <1>4, <3>1, <3>2, PipelineAssumption
    <2>2. ASSUME r \in ticket, r \notin twice PROVE t = n
      <3>1. r \in Good
        BY <2>2 DEF Good
      <3>2. tokens[1] = outputs[r] + 1
        BY <1>3, <1>4, <1>6, <3>1 DEF Rows
      <3> QED
        BY <1>5, <2>1, <2>2, <3>2
    <2> QED
      BY <2>1, <2>2
  <1>12. /\ r \in ticket' => r \in ticket /\ n < Want /\ UNCHANGED <<mark, ticket, running, release>> /\ Given
         /\ r \notin ticket' => /\ ticket' = ticket \ {r} /\ running' = running \ {r}
                                /\ release' = Append(release, r)
         /\ ticket' \subseteq ticket
    BY <1>10 DEF Gone
  <1>13. given' \in [Request -> Seq(Nat)] /\ \A q \in Request \ {r} : given'[q] = given[q]
    <2>1. Append(given[r], t) \in Seq(Nat)
      BY <1>2, <1>4, <1>5, SeqAppend
    <2>2. CASE UNCHANGED given
      BY <1>2, <2>2
    <2>3. CASE Given
      BY <1>2, <1>4, <2>1, <2>3
    <2> QED
      BY <1>10, <2>2, <2>3
  <1>14. mark' \in [Request -> {"none", "stop", "length", "error"}] /\ \A q \in Request \ {r} : mark'[q] = mark[q]
    BY <1>2, <1>4, <1>10
  <1>15. Given => /\ Len(given'[r]) = Len(given[r]) + 1 /\ given'[r][Len(given[r]) + 1] = t
                  /\ given'[r] = Append(given[r], t)
    <2>1. given[r] \in Seq(Nat)
      BY <1>2, <1>4
    <2>2. Given => given'[r] = Append(given[r], t)
      BY <1>2, <1>4
    <2> QED
      BY <1>5, <2>1, <2>2, SeqAppend
  <1>16. Promised
    <2>1. CASE UNCHANGED <<given, mark>>
      BY <1>1, <2>1 DEF Promised
    <2>2. CASE r \in ticket /\ Given
      <3>1. mark[r] = "none" /\ Len(given[r]) + 1 = n /\ n <= Want /\ Len(given[r]) < Want /\ (r \notin twice => t = n)
        BY <1>2, <1>4, <1>11, <2>2, PipelineAssumption
      <3>2. given' = [given EXCEPT ![r] = Append(@, given'[r][Len(given[r]) + 1])]
        BY <1>15, <2>2
      <3>3. r \notin twice => given'[r][Len(given'[r])] = Len(given'[r])
        BY <1>15, <2>2, <3>1
      <3>4. \E end \in IF Len(given[r]) + 1 = Want THEN {"stop", "length"} ELSE {"none", "stop"} :
               mark' = [mark EXCEPT ![r] = end]
        <4>1. CASE mark' = [mark EXCEPT ![r] = "stop"]
          BY <4>1
        <4>2. CASE mark' = [mark EXCEPT ![r] = "length"] /\ n >= Want
          <5>1. Len(given[r]) + 1 = Want
            BY <1>9, <3>1, <4>2, PipelineAssumption
          <5> QED
            BY <4>2, <5>1
        <4>3. CASE Stays
          <5>1. Len(given[r]) + 1 # Want
            BY <1>9, <3>1, <4>3, PipelineAssumption
          <5>2. mark' = [mark EXCEPT ![r] = "none"]
            BY <1>2, <1>4, <3>1, <4>3
          <5> QED
            BY <5>1, <5>2
        <4> QED
          BY <1>10, <2>2, <4>1, <4>2, <4>3
      <3>5. Promise!Token(r)
        BY <1>1, <1>15, <2>2, <3>1, <3>2, <3>3, <3>4 DEF Promise!Token
      <3>6. Promise!StreamNext
        BY <1>4, <3>5 DEF Promise!StreamNext
      <3> QED
        BY <3>6 DEF Promised
    <2> QED
      BY <1>10, <2>1, <2>2
  <1>17. /\ release' \in Seq(Request)
         /\ Range(release') \subseteq Range(release) \union (IF r \in ticket' THEN {} ELSE {r})
    <2>1. CASE r \in ticket'
      BY <1>2, <1>12, <2>1
    <2>2. CASE r \notin ticket'
      <3>1. release' = Append(release, r)
        BY <1>12, <2>2
      <3>2. release' \in Seq(Request) /\ Range(release') = Range(release) \union {r}
        BY <1>2, <1>4, <3>1, SeqAppend
      <3> QED
        BY <2>2, <3>2
    <2> QED
      BY <2>1, <2>2
  <1>18. PipeTypes'
    <2>1. IsFiniteSet(running') /\ running' \subseteq Request
      BY <1>12, FS_Subset DEF PipeInv, PipeTypes
    <2>2. outputs' \in [Request -> Nat]
      BY <1>1, <1>2, <1>9
    <2>3. pc' \in {"drain", "choose", "compute", "await", "deliver"}
      BY <1>1
    <2> QED
      BY <1>1, <1>4, <1>5, <1>12, <1>13, <1>14, <1>17, <2>1, <2>2, <2>3 DEF PipeInv, PipeTypes
  <1>19. TicketsOK'
    <2>1. ticket' = running' \union Range(waiting) /\ running' \cap Range(waiting) = {}
      BY <1>7, <1>12 DEF PipeInv, TicketsOK, New
    <2>2. Range(release') \cap ticket' = {}
      BY <1>12, <1>17 DEF PipeInv, TicketsOK
    <2>3. ASSUME NEW q \in ticket'
          PROVE  client[q] = "reading" /\ mark'[q] = "none" /\ Len(given'[q]) = outputs'[q] /\ outputs'[q] < Want
      <3>1. q \in ticket /\ q \in Request
        BY <1>12 DEF PipeInv, PipeTypes
      <3>2. client[q] = "reading" /\ mark[q] = "none" /\ Len(given[q]) = outputs[q] /\ outputs[q] < Want
        BY <3>1 DEF PipeInv, TicketsOK
      <3>3. CASE q = r
        BY <1>9, <1>11, <1>12, <1>15, <2>3, <3>1, <3>2, <3>3
      <3>4. CASE q # r
        BY <1>9, <1>13, <1>14, <3>1, <3>2, <3>4
      <3> QED
        BY <3>3, <3>4
    <2> QED
      BY <1>1, <2>1, <2>2, <2>3 DEF PipeInv, TicketsOK
  <1>20. NewOK'
    <2>1. \A q \in Request : New(q)' => New(q) /\ q # r
      BY <1>1, <1>7 DEF New
    <2>2. \A q \in Request : q # r => /\ outputs'[q] = outputs[q] /\ given'[q] = given[q] /\ mark'[q] = mark[q]
                                      /\ q \in Range(release') => q \in Range(release)
                                      /\ q \in Range(batch') => q \in Range(batch)
      BY <1>4, <1>9, <1>13, <1>14, <1>17
    <2>3. \A q : Shown(net, q)' = Shown(net, q)
      BY <1>1 DEF Shown, About
    <2> QED
      BY <1>1, <2>1, <2>2, <2>3 DEF PipeInv, NewOK
  <1>21. pc' = "deliver" <=> Len(batch') # 0
    BY <1>1, <1>4
  <1>22. BatchOK'
    BY <1>1, <1>4, <1>21, SeqEmpty DEF BatchOK
  <1>23. FlowOK'
    <2>1. Good' \subseteq Good
      BY <1>1, <1>12 DEF Good
    <2>2. NetOK'
      BY <1>1, <2>1 DEF PipeInv, FlowOK, NetOK, About
    <2>3. BackOK'
      BY <1>1 DEF PipeInv, FlowOK, BackOK
    <2>4. CacheOK'
      <3> SUFFICES ASSUME NEW q \in Good', ~(pc' = "deliver" /\ q \in Range(batch')) PROVE cache[q] = outputs'[q]
        BY <1>1 DEF CacheOK, Awaited
      <3>1. q \in Good /\ q \in ticket' /\ q \in Request
        BY <2>1 DEF Good, PipeInv, PipeTypes
      <3>2. q \notin Range(batch')
        BY <1>4, <1>21, SeqRange
      <3>3. CASE q = r
        <4>1. cache[r] = outputs[r] + 1
          BY <1>3, <1>4, <1>6, <3>1, <3>3 DEF Rows
        <4> QED
          BY <1>9, <1>11, <1>12, <3>1, <3>3, <4>1
      <3>4. CASE q # r
        BY <1>4, <1>9, <3>1, <3>2, <3>4 DEF PipeInv, FlowOK, CacheOK, Awaited
      <3> QED
        BY <3>3, <3>4
    <2>5. DeliverOK'
      <3>1. Len(tokens') = Len(batch')
        BY <1>3, <1>4, <1>5
      <3> SUFFICES ASSUME NEW k \in 1 .. Len(batch'), batch'[k] \in Good'
                   PROVE  tokens'[k] = outputs'[batch'[k]] + 1 /\ cache[batch'[k]] = outputs'[batch'[k]] + 1
        BY <1>1, <3>1 DEF DeliverOK, Rows
      <3>2. batch'[k] = batch[k + 1] /\ k + 1 \in 1 .. Len(batch) /\ tokens'[k] = tokens[k + 1]
        BY <1>4, <1>5, <3>1
      <3>3. batch'[k] \in Range(batch') /\ batch'[k] \in Request
        BY <1>4, SeqRange
      <3>4. batch'[k] # r
        BY <1>4, <3>3
      <3>5. tokens[k + 1] = outputs[batch[k + 1]] + 1 /\ cache[batch[k + 1]] = outputs[batch[k + 1]] + 1
        BY <1>3, <2>1, <3>2 DEF Rows
      <3> QED
        BY <1>9, <3>2, <3>3, <3>4, <3>5
    <2> QED
      BY <2>2, <2>3, <2>4, <2>5 DEF FlowOK
  <1> QED
    BY <1>16, <1>18, <1>19, <1>20, <1>22, <1>23 DEF PipeInv

LEMMA PipeBegins == PipeInit => PipeInv
  <1> SUFFICES ASSUME PipeInit PROVE PipeInv
    OBVIOUS
  <1>1. /\ client = [r \in Request |-> "idle"] /\ ticket = {} /\ waiting = <<>> /\ running = {}
        /\ outputs = [r \in Request |-> 0] /\ given = [r \in Request |-> <<>>]
        /\ mark = [r \in Request |-> "none"] /\ release = <<>>
        /\ pc = "drain" /\ batch = <<>> /\ tokens = <<>> /\ bid = 0
        /\ net = <<>> /\ cache = [r \in Request |-> 0] /\ back = <<>> /\ twice = {}
    BY DEF PipeInit
  <1>2. PipeTypes
    <2>1. /\ given \in [Request -> Seq(Nat)] /\ outputs \in [Request -> Nat] /\ cache \in [Request -> Nat]
          /\ client \in [Request -> {"idle", "refused", "reading", "leaving", "left"}]
          /\ mark \in [Request -> {"none", "stop", "length", "error"}]
      BY <1>1
    <2>2. /\ waiting \in Seq(Request) /\ release \in Seq(Request) /\ batch \in Seq(Request)
          /\ tokens \in Seq(Nat) /\ net \in Seq(Note) /\ back \in Seq(Reply)
      BY <1>1, EmptySeq
    <2>3. IsFiniteSet(running)
      BY <1>1, FS_EmptySet
    <2> QED
      BY <1>1, <2>1, <2>2, <2>3 DEF PipeTypes
  <1>3. TicketsOK /\ NewOK /\ BatchOK
    <2>1. Range(<<>>) = {} /\ Distinct(<<>>) /\ \A r : ~Shown(<<>>, r)
      BY SeqEmpty DEF Shown
    <2> QED
      BY <1>1, <2>1 DEF TicketsOK, NewOK, BatchOK
  <1>4. FlowOK
    <2>1. Good = {} /\ 1 .. Len(net) = {} /\ 1 .. Len(back) = {}
      BY <1>1 DEF Good
    <2> QED
      BY <1>1, <2>1 DEF FlowOK, NetOK, BackOK, CacheOK, DeliverOK
  <1> QED
    BY <1>2, <1>3, <1>4 DEF PipeInv

(* What the invariant does not speak of.                                      *)
LEMMA PipeRests ==
    ASSUME PipeInv, UNCHANGED <<client, books, pc, batch, tokens, bid, cache, net, back, twice>>
    PROVE  PipeInv' /\ Promised
  <1>1. UNCHANGED <<client, ticket, waiting, running, outputs, given, mark, release,
                    pc, batch, tokens, bid, cache, net, back, twice>>
    BY DEF books
  <1>2. PipeTypes' /\ TicketsOK' /\ BatchOK' /\ Promised
    BY <1>1 DEF PipeInv, PipeTypes, TicketsOK, BatchOK, Promised
  <1>3. NewOK'
    BY <1>1 DEF PipeInv, NewOK, New, Shown, About
  <1>4. FlowOK'
    BY <1>1 DEF PipeInv, FlowOK, NetOK, BackOK, CacheOK, DeliverOK, Rows, Good, Awaited, Shown, About
  <1> QED
    BY <1>2, <1>3, <1>4 DEF PipeInv

LEMMA PipeStep ==
    ASSUME PipeInv, [PipeNext]_pipeVars
    PROVE  PipeInv' /\ Promised
  <1>1. CASE UNCHANGED pipeVars
    BY <1>1, PipeRests DEF pipeVars, books
  <1>2. CASE ComputeFails
    <2>1. pc = "compute" /\ FailBatch /\ UNCHANGED <<client, batch, tokens, bid, net, cache, twice, back>>
      BY <1>2 DEF ComputeFails, remote
    <2> QED
      BY <2>1, FailStep
  <1>3. CASE TailSilent
    <2>1. pc = "await" /\ FailBatch /\ UNCHANGED <<client, batch, tokens, bid, net, cache, twice, back>>
      BY <1>3 DEF TailSilent, remote, wires
    <2> QED
      BY <2>1, FailStep
  <1> QED
    BY <1>1, <1>2, <1>3, SubmitStep, CancelStep, CancelReleasesStep, DrainStep, ChooseStep, ComputeStep, AnsweredStep,
       DeliverStep, LossStep, StageStep, AgainStep DEF PipeNext

LEMMA PipeInvariant == PipeSpec => []PipeInv
  <1>1. PipeInv /\ [PipeNext]_pipeVars => PipeInv'
    BY PipeStep
  <1> QED
    BY <1>1, PipeBegins, PTL DEF PipeSpec

LEMMA PromiseBegins == PipeInit => Promise!StreamInit
  BY DEF PipeInit, Promise!StreamInit

(* The pipeline keeps what a client is promised: for any requests, prompts,   *)
(* places and limits, and however many messages are lost, late or repeated    *)
(* and steps fail.                                                            *)
THEOREM TokensInStepHolds == PipeSpec => TokensInStep
  <1>1. PipeInv /\ [PipeNext]_pipeVars => Promised
    BY PipeStep
  <1> QED
    BY <1>1, PipeInvariant, PromiseBegins, PTL DEF PipeSpec, TokensInStep, Promise!StreamSpec, Promised, Promise!streamVars

(* ------------------------------------------------- the blocks of a step --- *)
LEMMA BlockPipeStep ==
    ASSUME PipeInv, [BlockNext]_blockVars
    PROVE  PipeInv' /\ Promised
  <1>1. CASE UNCHANGED blockVars
    BY <1>1, PipeRests DEF blockVars, pipeVars, books
  <1>2. CASE PlanMemory
    BY <1>2, PipeRests DEF PlanMemory, loop, wires
  <1>3. CASE LayOutCache
    BY <1>3, PipeRests DEF LayOutCache, pipeVars, books
  <1>4. CASE BatchRefused
    <2>1. pc = "compute" /\ FailBatch /\ UNCHANGED <<client, batch, tokens, bid, net, cache, twice, back>>
      BY <1>4 DEF BatchRefused, remote, wires
    <2> QED
      BY <2>1, FailStep
  <1>5. CASE PipeNext
    BY <1>5, PipeStep
  <1> QED
    BY <1>1, <1>2, <1>3, <1>4, <1>5 DEF BlockNext, PipeNext, StepDone, StepFails

(* A seat's request is known to the driver, or the step is its first; and     *)
(* what a request holds is known to it and has somewhere to be given back.    *)
Driven(r) == r \in granted \/ (pc = "compute" /\ FirstStep /\ r \in Range(batch))
Placed(r) == \/ r \in running \union Range(release) \/ client[r] = "leaving"
             \/ pc \in {"compute", "await", "deliver"} /\ r \in Range(batch)
BlockInv ==
    /\ PipeInv /\ held \in [Request -> Nat] /\ granted \subseteq Request
    /\ \A r \in running : Driven(r)
    /\ pc = "compute" => FirstStep \/ Range(batch) \subseteq granted
    /\ \A r \in Request : held[r] > 0 => r \in granted /\ Placed(r)

LEMMA AllotIsNat ==
    ASSUME BlockInv, NEW S, Allot(S)
    PROVE  held' \in [Request -> Nat] /\ \A r \in Request : r \notin S => held'[r] = held[r]
  <1>1. \A r \in Request : held[r] + Wanting(r) \in Nat
    <2> TAKE r \in Request
    <2>1. held[r] \in Nat /\ Length[r] + outputs[r] \in Nat /\ BlockSize \in Nat \ {0}
      BY PipelineAssumption, BlocksAssumption DEF BlockInv, PipeInv, PipeTypes
    <2>2. Ceil(Length[r] + outputs[r]) \in Nat
      BY <2>1 DEF Ceil
    <2> QED
      BY <2>1, <2>2 DEF Wanting
  <1> QED
    BY <1>1 DEF Allot, BlockInv

LEMMA FailedBlocks ==
    ASSUME BlockInv, PipeInv', pc \in {"compute", "await"}, FailBatch, UNCHANGED <<client, batch>>,
           held' \in [Request -> Nat], granted \subseteq granted', granted' \subseteq Request,
           \A r \in Request : held'[r] > 0 => r \in granted' /\ (held[r] > 0 \/ r \in Range(batch))
    PROVE  BlockInv'
  <1>1. /\ running' = running \ Range(batch) /\ release' = release \o batch /\ pc' = "drain"
    BY DEF FailBatch
  <1>2. Range(release') = Range(release) \union Range(batch)
    BY <1>1, SeqConcat DEF BlockInv, PipeInv, PipeTypes
  <1> QED
    BY <1>1, <1>2 DEF BlockInv, Driven, Placed

(* The driver's own steps.                                                    *)
LEMMA DriverStep ==
    ASSUME BlockInv, PipeInv', StepDone \/ StepFails \/ BatchRefused
    PROVE  BlockInv'
  <1>1. pc = "compute" /\ UNCHANGED <<client, batch>>
    BY DEF StepDone, StepFails, BatchRefused, Compute, ComputeFails
  <1>2. ASSUME FormBatch
        PROVE  /\ held' \in [Request -> Nat] /\ granted \subseteq granted' /\ granted' \subseteq Request
               /\ Range(batch) \subseteq granted'
               /\ \A r \in Request : held'[r] > 0 => r \in granted' /\ (held[r] > 0 \/ r \in Range(batch))
    <2>1. held' \in [Request -> Nat] /\ \A r \in Request : r \notin Range(batch) => held'[r] = held[r]
      BY <1>2, AllotIsNat DEF FormBatch
    <2>2. Range(batch) \subseteq Request
      BY SeqRange DEF BlockInv, PipeInv, PipeTypes
    <2>3. granted' = IF FirstStep THEN granted \union Range(batch) ELSE granted
      BY <1>2 DEF FormBatch
    <2> QED
      BY <1>1, <2>1, <2>2, <2>3 DEF BlockInv
  <1>3. CASE StepDone
    <2>1. pc' = "await" /\ FormBatch /\ UNCHANGED <<running, release>>
      BY <1>3 DEF StepDone, Compute, books
    <2> QED
      BY <1>1, <1>2, <2>1 DEF BlockInv, Driven, Placed
  <1>4. CASE StepFails
    BY <1>1, <1>2, <1>4, FailedBlocks DEF StepFails, ComputeFails
  <1>5. CASE BatchRefused
    <2>1. FailBatch /\ Undo /\ granted' = granted
      BY <1>5 DEF BatchRefused
    <2>2. CASE FirstStep
      <3>1. held' = held
        BY <2>1, <2>2 DEF Undo
      <3> QED
        BY <1>1, <2>1, <3>1, FailedBlocks DEF BlockInv
    <2>3. CASE ~FirstStep
      <3> DEFINE n == Granted
      <3>1. Range(SubSeq(batch, 1, n)) \subseteq Range(batch)
        <4>1. batch \in Seq(Request) /\ Distinct(batch)
          BY <1>1 DEF BlockInv, PipeInv, PipeTypes, BatchOK
        <4>2. n \in 0 .. Len(batch)
          <5>1. Len(batch) \in Nat
            BY <4>1, SeqRange
          <5> QED
            BY <5>1, CountWithin DEF Granted
        <4> HIDE DEF n
        <4> QED
          BY <4>1, <4>2, SeqSplit
      <3>2. Allot(Range(SubSeq(batch, 1, n)))
        BY <2>1, <2>3 DEF Undo
      <3> HIDE DEF n
      <3>3. held' \in [Request -> Nat] /\ \A r \in Request : r \notin Range(SubSeq(batch, 1, n)) => held'[r] = held[r]
        BY <3>2, AllotIsNat
      <3>4. Range(batch) \subseteq granted
        BY <1>1, <2>3 DEF BlockInv
      <3>5. \A r \in Request : held'[r] > 0 => r \in granted /\ (held[r] > 0 \/ r \in Range(batch))
        BY <3>1, <3>3, <3>4 DEF BlockInv
      <3> QED
        BY <1>1, <2>1, <3>3, <3>5, FailedBlocks DEF BlockInv
    <2> QED
      BY <2>2, <2>3
  <1> QED
    BY <1>3, <1>4, <1>5

(* Blocks are given back.                                                     *)
LEMMA ReleaseStep ==
    ASSUME BlockInv, PipeInv', Drain, ReleaseBlocks
    PROVE  BlockInv'
  <1>1. pc = "drain" /\ UNCHANGED <<client, running, batch>>
    BY DEF Drain
  <1>2. CASE release = <<>>
    <2>1. pc' = "choose" /\ UNCHANGED <<release, held, granted>>
      BY <1>2 DEF Drain, ReleaseBlocks
    <2> QED
      BY <1>1, <2>1 DEF BlockInv, Driven, Placed
  <1>3. CASE release # <<>>
    <2> DEFINE q == Head(release)
    <2>1. pc' = pc /\ release' = Tail(release)
      BY <1>3 DEF Drain
    <2>2. release \in Seq(Request)
      BY DEF BlockInv, PipeInv, PipeTypes
    <2>3. Range(release) = Range(release') \union {q} /\ q \in Request
      BY <1>3, <2>1, <2>2, SeqTail
    <2>4. q \notin running
      BY <2>3 DEF BlockInv, PipeInv, TicketsOK
    <2>5. /\ held' \in [Request -> Nat] /\ granted' \subseteq granted /\ granted \subseteq granted' \union {q}
          /\ held'[q] = 0 /\ \A r \in Request \ {q} : held'[r] = held[r]
      <3>1. CASE q \in granted
        <4>1. held' = [held EXCEPT ![q] = 0] /\ granted' = granted \ {q}
          BY <1>1, <1>3, <3>1 DEF ReleaseBlocks
        <4> HIDE DEF q
        <4> QED
          BY <2>3, <4>1 DEF BlockInv
      <3>2. CASE q \notin granted
        <4>1. UNCHANGED <<held, granted>>
          BY <1>1, <1>3, <3>2 DEF ReleaseBlocks
        <4>2. ~(held[q] > 0) /\ held[q] \in Nat
          BY <2>3, <3>2 DEF BlockInv
        <4> QED
          BY <4>1, <4>2 DEF BlockInv
      <3> QED
        BY <3>1, <3>2
    <2> HIDE DEF q
    <2>6. ASSUME NEW r \in Request, held'[r] > 0 PROVE r \in granted' /\ Placed(r)'
      <3>1. r # q /\ held[r] > 0
        BY <2>5, <2>6
      <3>2. r \in granted /\ Placed(r)
        BY <3>1 DEF BlockInv
      <3> QED
        BY <1>1, <2>1, <2>3, <2>5, <3>1, <3>2 DEF Placed
    <2>7. \A r \in running' : r \in granted'
      BY <1>1, <2>4, <2>5 DEF BlockInv, Driven
    <2> QED
      BY <1>1, <2>1, <2>5, <2>6, <2>7 DEF BlockInv, Driven
  <1> QED
    BY <1>2, <1>3

LEMMA ChosenStep ==
    ASSUME BlockInv, PipeInv', Choose, UNCHANGED blocks
    PROVE  BlockInv'
  <1>1. pc = "choose" /\ UNCHANGED <<client, release, outputs, held, granted>>
    BY DEF Choose, blocks
  <1>2. /\ batch' \in Seq(Request) /\ Range(waiting') \subseteq Range(waiting)
        /\ running' = running \union (Range(waiting) \ Range(waiting'))
        /\ \/ Range(batch') = Range(waiting) \ Range(waiting') /\ pc' = "compute"
           \/ Range(batch') \subseteq running /\ running' = running
        /\ pc' \in {"drain", "compute"} /\ (pc' = "compute" => batch' # <<>>)
    BY ChosenBatch DEF BlockInv
  <1>3. running \subseteq granted
    BY <1>1 DEF BlockInv, Driven
  <1>4. \A r \in Request : held'[r] > 0 => r \in granted' /\ Placed(r)'
    BY <1>1, <1>2 DEF BlockInv, Placed
  <1>5. CASE Range(batch') \subseteq running /\ running' = running
    BY <1>1, <1>3, <1>4, <1>5 DEF BlockInv, Driven
  <1>6. CASE Range(batch') = Range(waiting) \ Range(waiting') /\ pc' = "compute"
    <2>1. Head(batch') \in Range(batch')
      BY <1>2, <1>6, SeqRange
    <2>2. Head(batch') \in Range(waiting) /\ Head(batch') \in Request
      BY <1>2, <1>6, <2>1, SeqRange
    <2>3. FirstStep'
      BY <1>1, <2>2 DEF FirstStep, BlockInv, PipeInv, NewOK, New
    <2> QED
      BY <1>1, <1>2, <1>3, <1>4, <1>6, <2>3 DEF BlockInv, Driven
  <1> QED
    BY <1>2, <1>5, <1>6

LEMMA DeliveredStep ==
    ASSUME BlockInv, PipeInv', Deliver, UNCHANGED blocks
    PROVE  BlockInv'
  <1> DEFINE q == Head(batch)
  <1>1. /\ pc = "deliver" /\ pc' \in {"deliver", "drain"} /\ (Len(batch) # 1 => pc' = "deliver")
        /\ batch' = Tail(batch) /\ UNCHANGED <<client, held, granted>>
    BY DEF Deliver, blocks
  <1>2. \/ running' = running \ {q} /\ release' = Append(release, q)
        \/ q \in ticket /\ UNCHANGED <<running, release>>
    BY DEF Deliver, Gone
  <1>3. batch \in Seq(Request) /\ batch # <<>> /\ release \in Seq(Request)
    BY <1>1 DEF BlockInv, PipeInv, PipeTypes, BatchOK
  <1>4. /\ Range(batch) = Range(batch') \union {q} /\ q \in Request /\ batch' \in Seq(Request)
        /\ Len(batch') = Len(batch) - 1 /\ Len(batch) \in Nat
    BY <1>1, <1>3, SeqTail, SeqRange
  <1>5. pc' # "deliver" => Range(batch') = {}
    <2>1. Len(batch) = 1 => batch' = <<>>
      BY <1>4, SeqRange
    <2> QED
      BY <1>1, <2>1, SeqEmpty
  <1>6. q \in ticket => q \in running
    BY <1>4 DEF BlockInv, PipeInv, NewOK, New, TicketsOK
  <1> HIDE DEF q
  <1>7. /\ Range(release) \subseteq Range(release')
        /\ running \union Range(release) \union {q} \subseteq running' \union Range(release')
        /\ running' \subseteq running
    <2>1. Range(Append(release, q)) = Range(release) \union {q}
      BY <1>3, <1>4, SeqAppend
    <2> QED
      BY <1>2, <1>6, <2>1
  <1>8. \A r \in Request : held'[r] > 0 => r \in granted' /\ Placed(r)'
    BY <1>1, <1>4, <1>5, <1>7 DEF BlockInv, Placed
  <1> QED
    BY <1>1, <1>7, <1>8 DEF BlockInv, Driven

(* A client comes or goes; it gives up its seat before it asks for a release. *)
LEMMA ClientStep ==
    ASSUME BlockInv, PipeInv', NEW c \in Request, Submit(c) \/ Cancel(c) \/ CancelReleases(c), UNCHANGED blocks
    PROVE  BlockInv'
  <1>1. UNCHANGED <<outputs, pc, batch, held, granted>>
    BY DEF Submit, Cancel, CancelReleases, loop, blocks
  <1>2. client \in [Request -> {"idle", "refused", "reading", "leaving", "left"}] /\ release \in Seq(Request)
    BY DEF BlockInv, PipeInv, PipeTypes
  <1>3. /\ running' \subseteq running
        /\ \A r \in Request : /\ r \in running => r \in running' \/ client'[r] = "leaving"
                              /\ r \in Range(release) => r \in Range(release')
                              /\ client[r] = "leaving" => client'[r] = "leaving" \/ r \in Range(release')
    <2>1. CASE Submit(c)
      BY <1>2, <2>1 DEF Submit
    <2>2. CASE Cancel(c)
      BY <1>2, <2>2 DEF Cancel, Unseat, Known
    <2>3. CASE CancelReleases(c)
      <3>1. Range(release') = Range(release) \union {c}
        BY <1>2, <2>3, SeqAppend DEF CancelReleases
      <3> QED
        BY <1>2, <2>3, <3>1 DEF CancelReleases
    <2> QED
      BY <2>1, <2>2, <2>3
  <1>4. \A r \in Request : held'[r] > 0 => r \in granted' /\ Placed(r)'
    BY <1>1, <1>3 DEF BlockInv, Placed
  <1>5. \A r \in running' : Driven(r)'
    BY <1>1, <1>3 DEF BlockInv, Driven, FirstStep
  <1>6. pc' = "compute" => FirstStep' \/ Range(batch') \subseteq granted'
    BY <1>1 DEF BlockInv, FirstStep
  <1> QED
    BY <1>1, <1>4, <1>5, <1>6 DEF BlockInv

LEMMA AnswerStep ==
    ASSUME BlockInv, PipeInv', Answered \/ TailSilent, UNCHANGED blocks
    PROVE  BlockInv'
  <1>1. pc = "await" /\ UNCHANGED <<client, batch, held, granted>>
    BY DEF Answered, TailSilent, blocks
  <1>2. CASE FailBatch
    BY <1>1, <1>2, FailedBlocks DEF BlockInv
  <1>3. CASE pc' \in {"await", "deliver"} /\ UNCHANGED books
    BY <1>1, <1>3 DEF BlockInv, Driven, Placed, books
  <1> QED
    BY <1>1, <1>2, <1>3 DEF Answered, TailSilent

LEMMA BlocksRest ==
    ASSUME BlockInv, PipeInv', UNCHANGED <<client, books, pc, batch, blocks>>
    PROVE  BlockInv'
  BY DEF BlockInv, Driven, Placed, FirstStep, books, blocks

LEMMA BlockInvariant == BlockSpec => []BlockInv
  <1>1. BlockInit => BlockInv
    <2> SUFFICES ASSUME BlockInit PROVE BlockInv
      OBVIOUS
    <2>1. PipeInv /\ running = {} /\ pc = "drain" /\ held = [r \in Request |-> 0] /\ granted = {}
      BY PipeBegins DEF BlockInit, PipeInit
    <2> QED
      BY <2>1 DEF BlockInv
  <1>2. ASSUME BlockInv, [BlockNext]_blockVars PROVE BlockInv'
    <2>1. PipeInv'
      BY <1>2, BlockPipeStep DEF BlockInv
    <2>2. CASE UNCHANGED blockVars
      BY <1>2, <2>1, <2>2, BlocksRest DEF blockVars, pipeVars, books, blocks
    <2>3. CASE PlanMemory \/ LayOutCache
      BY <1>2, <2>1, <2>3, BlocksRest DEF PlanMemory, LayOutCache, pipeVars, books, loop, blocks
    <2>4. CASE Drain /\ ReleaseBlocks
      BY <1>2, <2>1, <2>4, ReleaseStep
    <2>5. CASE StepDone \/ StepFails \/ BatchRefused
      BY <1>2, <2>1, <2>5, DriverStep
    <2>6. CASE \E r \in Request : (Submit(r) \/ Cancel(r) \/ CancelReleases(r)) /\ UNCHANGED blocks
      BY <1>2, <2>1, <2>6, ClientStep
    <2>7. CASE (Choose \/ Deliver \/ Answered \/ TailSilent) /\ UNCHANGED blocks
      BY <1>2, <2>1, <2>7, ChosenStep, DeliveredStep, AnswerStep
    <2>8. CASE (Load \/ StageHandles \/ StageFails \/ Lose \/ LoseAnswer \/ Late \/ Repeat) /\ UNCHANGED blocks
      <3>1. UNCHANGED <<client, books, pc, batch, blocks>>
        BY <2>8 DEF Load, StageHandles, StageFails, Lose, LoseAnswer, Late, Repeat, loop
      <3> QED
        BY <1>2, <2>1, <3>1, BlocksRest
    <2> QED
      BY <1>2, <2>2, <2>3, <2>4, <2>5, <2>6, <2>7, <2>8 DEF BlockNext
  <1> QED
    BY <1>1, <1>2, PTL DEF BlockSpec

(* No block is lost, whatever number of them, of cards and of requests there  *)
(* is, and wherever steps fail.                                               *)
THEOREM NoBlockIsLostHolds == BlockSpec => []NoBlockIsLost
  <1>1. BlockInv => NoBlockIsLost
    BY DEF BlockInv, Placed, NoBlockIsLost
  <1> QED
    BY <1>1, BlockInvariant, PTL

(* Blocks that run out are one way more for a step to fail: the promise to    *)
(* the clients is kept with them too.                                         *)
THEOREM TokensInStepOnBlocks == BlockSpec => TokensInStep
  <1>1. BlockInv => PipeInv
    BY DEF BlockInv
  <1>2. PipeInv /\ [BlockNext]_blockVars => Promised
    BY BlockPipeStep
  <1>3. BlockInit => PipeInit
    BY DEF BlockInit
  <1> QED
    BY <1>1, <1>2, <1>3, BlockInvariant, PromiseBegins, PTL
       DEF BlockSpec, TokensInStep, Promise!StreamSpec, Promised, Promise!streamVars

(* ----------------------------------------------- what a step may find --- *)
Context == MaxLen \div BlockSize

PromiseInv ==
    /\ BlockInv
    /\ planned \in Nat /\ pool \in Nat /\ seats \in Nat
    /\ \A r \in Request : held[r] <= Context
    /\ life # "serving" => running = {} /\ pc = "drain" /\ short = "no"
    /\ life \in {"laying", "serving"} => seats <= planned \div MaxLen
    /\ life = "serving" => Cardinality(running) <= seats
    /\ pc = "compute" => /\ Cardinality(running \union Range(batch)) <= seats
                         /\ \A r \in Range(batch) : outputs[r] < Want
    /\ PromiseIsCovered

LEMMA ShareGrows ==
    ASSUME NEW a \in Nat, NEW b \in Nat, NEW d \in Nat \ {0}, a <= b
    PROVE  /\ a \div d \in Nat /\ a \div d <= b \div d /\ a % d \in Nat
           /\ a \div d = b \div d /\ a < b => a % d < b % d
           /\ a = 0 => a \div d = 0
  <1> DEFINE p == a \div d
             q == b \div d
             y == a % d
             z == b % d
  <1>1. /\ p \in Nat /\ q \in Nat /\ y \in Nat /\ z \in Nat /\ y < d /\ z < d
        /\ a = d * p + y /\ b = d * q + z
    BY SMTT(30)
  <1> HIDE DEF p, q, y, z
  <1>2. p <= q
    <2> SUFFICES ASSUME q < p PROVE FALSE
      BY <1>1
    <2>1. q + 1 <= p
      BY <1>1
    <2>2. d * (q + 1) <= d * p
      BY <1>1, <2>1, SMTT(30)
    <2>3. d * (q + 1) = d * q + d
      BY <1>1, SMTT(30)
    <2>4. d * q \in Nat /\ d * p \in Nat
      BY <1>1
    <2> QED
      BY <1>1, <2>2, <2>3, <2>4
  <1>3. p = q /\ a < b => y < z
    <2>1. d * p \in Nat
      BY <1>1
    <2> QED
      BY <1>1, <2>1
  <1>4. a = 0 => p = 0
    <2> SUFFICES ASSUME a = 0, p # 0 PROVE FALSE
      OBVIOUS
    <2>1. d * p >= d
      BY <1>1, SMTT(30)
    <2> QED
      BY <1>1, <2>1
  <1> QED
    BY <1>1, <1>2, <1>3, <1>4 DEF p, q, y, z

(* Blocks for no more than the context are no more than the context's.        *)
LEMMA CeilIsWhole == ASSUME NEW n \in Nat, n <= MaxLen PROVE Ceil(n) \in Nat /\ Ceil(n) <= Context
  <1>1. BlockSize \in Nat \ {0} /\ MaxLen \in Nat \ {0} /\ MaxLen % BlockSize = 0
    BY BlocksAssumption
  <1>2. PICK b, top : b = BlockSize /\ top = MaxLen
    OBVIOUS
  <1>3. PICK w : w = top \div b
    OBVIOUS
  <1>4. b \in Nat \ {0} /\ top \in Nat /\ top % b = 0 /\ n <= top
    BY <1>1, <1>2
  <1>5. w \in Nat /\ top = b * w
    BY <1>3, <1>4, SMTT(30)
  <1>6. (n + b - 1) \div b \in Nat /\ (n + b - 1) \div b <= (top + b - 1) \div b
    <2>1. n + b - 1 \in Nat /\ top + b - 1 \in Nat /\ n + b - 1 <= top + b - 1
      BY <1>4
    <2> QED
      BY <1>4, <2>1, ShareGrows
  <1>7. (top + b - 1) \div b = w
    <2> DEFINE q == (top + b - 1) \div b
               z == (top + b - 1) % b
    <2>1. q \in Nat /\ z \in Nat /\ z < b /\ top + b - 1 = b * q + z
      BY <1>4, SMTT(30)
    <2> HIDE DEF q, z
    <2>2. ~ (q < w)
      <3> SUFFICES ASSUME q < w PROVE FALSE
        OBVIOUS
      <3>1. b * (q + 1) <= b * w /\ b * (q + 1) = b * q + b /\ b * q \in Nat
        BY <1>4, <1>5, <2>1, SMTT(30)
      <3> QED
        BY <1>4, <1>5, <2>1, <3>1
    <2>3. ~ (w < q)
      <3> SUFFICES ASSUME w < q PROVE FALSE
        OBVIOUS
      <3>1. b * (w + 1) <= b * q /\ b * (w + 1) = b * w + b /\ b * q \in Nat
        BY <1>4, <1>5, <2>1, SMTT(30)
      <3> QED
        BY <1>4, <1>5, <2>1, <3>1
    <2>4. q = w
      BY <1>5, <2>1, <2>2, <2>3
    <2> QED
      BY <2>4 DEF q
  <1> QED
    BY <1>2, <1>3, <1>6, <1>7 DEF Ceil, Context

(* As many contexts as fit into a memory do not need more blocks than it has. *)
LEMMA SeatsFit ==
    ASSUME NEW n \in Nat, NEW p \in Nat, n <= p \div MaxLen
    PROVE  Context \in Nat /\ n * Context \in Nat /\ n * Context <= p \div BlockSize
  <1>1. BlockSize \in Nat \ {0} /\ MaxLen \in Nat \ {0} /\ MaxLen % BlockSize = 0
    BY BlocksAssumption
  <1>2. PICK b, top : b = BlockSize /\ top = MaxLen
    OBVIOUS
  <1>3. PICK w, k, x : w = top \div b /\ k = p \div top /\ x = p \div b
    OBVIOUS
  <1>4. b \in Nat \ {0} /\ top \in Nat \ {0} /\ top % b = 0
    BY <1>1, <1>2
  <1>5. w \in Nat /\ top = b * w
    BY <1>3, <1>4, SMTT(30)
  <1>6. k \in Nat /\ top * k \in Nat /\ top * k <= p
    BY <1>3, <1>4, SMTT(30)
  <1>7. x \in Nat /\ p < b * (x + 1)
    <2> DEFINE z == p % b
    <2>1. x \in Nat /\ z \in Nat /\ z < b /\ p = b * x + z
      BY <1>3, <1>4, SMTT(30)
    <2> HIDE DEF z
    <2>2. b * (x + 1) = b * x + b /\ b * x \in Nat
      BY <1>4, <2>1, SMTT(30)
    <2> QED
      BY <1>4, <2>1, <2>2
  <1>8. n <= k
    BY <1>2, <1>3
  <1>9. n * w \in Nat /\ n * w <= k * w /\ k * w \in Nat
    BY <1>5, <1>6, <1>8, SMTT(30)
  <1>10. k * w <= x
    <2>1. b * (k * w) = top * k
      BY <1>4, <1>5, <1>6, SMTT(30)
    <2>5. PICK v : v = k * w
      OBVIOUS
    <2>2. v \in Nat /\ b * v < b * (x + 1)
      <3>1. v \in Nat
        BY <1>9, <2>5
      <3>2. b * v = top * k
        BY <2>1, <2>5
      <3>5. PICK e : e = top * k
        OBVIOUS
      <3>6. PICK f : f = b * (x + 1)
        OBVIOUS
      <3>3. f \in Int /\ e \in Nat /\ e <= p /\ p < f
        BY <1>4, <1>6, <1>7, <3>5, <3>6
      <3>4. e < f
        BY <3>3
      <3> QED
        BY <3>1, <3>2, <3>4, <3>5, <3>6
    <2>3. v <= x
      <3> SUFFICES ASSUME x < v PROVE FALSE
        BY <1>7, <2>2
      <3>1. b * (x + 1) <= b * v
        BY <1>4, <1>7, <2>2, SMTT(30)
      <3>2. b * v \in Nat /\ b * (x + 1) \in Nat
        BY <1>4, <1>7, <2>2
      <3> QED
        BY <2>2, <3>1, <3>2
    <2> QED
      BY <2>3, <2>5
  <1> QED
    BY <1>2, <1>3, <1>5, <1>7, <1>9, <1>10 DEF Context

(* A set that has with a number all before it has as many as its last.        *)
LEMMA PrefixCount ==
    ASSUME NEW n \in Nat, NEW G \in SUBSET (1 .. n), \A x \in G : \A y \in 1 .. x : y \in G
    PROVE  Cardinality(G) = 0 \/ Cardinality(G) \in G
  <1>1. CASE G = {}
    BY <1>1, FS_EmptySet
  <1>2. CASE G # {}
    <2>1. G \in SUBSET (0 .. n)
      OBVIOUS
    <2>2. PICK m \in G : \A x \in G : x <= m
      BY <1>2, <2>1, LastOf
    <2>3. G = 1 .. m /\ m \in Nat
      <3>1. m \in 1 .. n /\ m \in Nat
        OBVIOUS
      <3>2. \A y \in 1 .. m : y \in G
        OBVIOUS
      <3>3. \A x \in G : x \in 1 .. m
        <4> TAKE x \in G
        <4>1. x \in 1 .. n /\ x <= m
          BY <2>2
        <4> QED
          BY <3>1, <4>1
      <3> QED
        BY <3>1, <3>2, <3>3
    <2>4. Cardinality(G) = m
      BY <2>3, FS_Interval
    <2> QED
      BY <2>2, <2>4
  <1> QED
    BY <1>1, <1>2

(* No more requests are taken than there are seats for.                       *)
LEMMA FreshHasSeats ==
    ASSUME waiting \in Seq(Request), Distinct(waiting), FreshCount # 0
    PROVE  /\ FreshCount \in 1 .. Len(waiting) /\ FreshCount + Cardinality(running) <= seats
           /\ IsFiniteSet(Range(SubSeq(waiting, 1, FreshCount)))
           /\ Cardinality(Range(SubSeq(waiting, 1, FreshCount))) <= FreshCount
  <1> DEFINE G == {n \in 1 .. Len(waiting) : \A k \in 1 .. n : Fresh(k)}
  <1>1. Len(waiting) \in Nat /\ FreshCount \in 0 .. Len(waiting)
    BY SeqRange, FreshFits
  <1>2. FreshCount = Cardinality(G)
    BY DEF FreshCount
  <1>3. \A x \in G : \A y \in 1 .. x : y \in G
    BY <1>1
  <1>4. \A n \in G : Fresh(n)
    <2> TAKE n \in G
    <2>1. n \in 1 .. n
      BY <1>1
    <2> QED
      BY <2>1
  <1>5. G \in SUBSET (1 .. Len(waiting))
    OBVIOUS
  <1> HIDE DEF G
  <1>6. FreshCount \in G
    BY <1>1, <1>2, <1>3, <1>5, PrefixCount
  <1>7. Fresh(FreshCount)
    BY <1>4, <1>6
  <1>8. FreshCount + Cardinality(running) <= seats
    BY <1>7 DEF Fresh
  <1> PICK c : c = FreshCount
    OBVIOUS
  <1> PICK s : s = SubSeq(waiting, 1, c)
    OBVIOUS
  <1>9. s \in Seq(Request) /\ Len(s) = c
    BY <1>1, SubSeqProperties
  <1>10. s \in Surjection(1 .. c, Range(s))
    <2>1. s \in [1 .. c -> Request]
      BY <1>9, LenProperties
    <2> QED
      BY <2>1 DEF Surjection, Range
  <1>11. IsFiniteSet(1 .. c) /\ Cardinality(1 .. c) = c
    BY <1>1, FS_Interval
  <1>12. IsFiniteSet(Range(s)) /\ Cardinality(Range(s)) <= c
    BY <1>10, <1>11, FS_Surjection
  <1> QED
    BY <1>1, <1>8, <1>12

LEMMA NeedIsWhole ==
    ASSUME PromiseInv, pc = "compute", NEW r \in Range(batch)
    PROVE  /\ r \in Request /\ held[r] \in Nat /\ Wanting(r) \in Int
           /\ held[r] + Wanting(r) \in Nat /\ held[r] + Wanting(r) <= Context
  <1>1. r \in Request /\ held[r] \in Nat /\ outputs[r] \in Nat /\ outputs[r] < Want
    <2>1. batch \in Seq(Request) /\ held \in [Request -> Nat] /\ outputs \in [Request -> Nat]
      BY DEF PromiseInv, BlockInv, PipeInv, PipeTypes
    <2>2. r \in Request
      BY <2>1, SeqRange
    <2>3. outputs[r] < Want
      BY DEF PromiseInv
    <2> QED
      BY <2>1, <2>2, <2>3
  <1>2. Length[r] \in Nat /\ Want \in Nat /\ Length[r] + Want <= MaxLen /\ MaxLen \in Nat
    BY <1>1, PipelineAssumption, BlocksAssumption
  <1>3. Length[r] + outputs[r] \in Nat /\ Length[r] + outputs[r] <= MaxLen
    BY <1>1, <1>2
  <1>4. Ceil(Length[r] + outputs[r]) \in Nat /\ Ceil(Length[r] + outputs[r]) <= Context
    BY <1>3, CeilIsWhole
  <1>5. Wanting(r) = Ceil(Length[r] + outputs[r]) - held[r]
    BY DEF Wanting
  <1> PICK c : c = Ceil(Length[r] + outputs[r])
    OBVIOUS
  <1>6. c \in Nat /\ c <= Context /\ Wanting(r) = c - held[r]
    BY <1>4, <1>5
  <1> QED
    BY <1>1, <1>6

LEMMA AllotIsWhole ==
    ASSUME PromiseInv, pc = "compute", NEW S, S \subseteq Range(batch), Allot(S)
    PROVE  \A r \in Request : held'[r] <= Context
  <1>1. ASSUME NEW r \in Request PROVE held'[r] <= Context
    <2>1. held'[r] = IF r \in S THEN held[r] + Wanting(r) ELSE held[r]
      BY DEF Allot
    <2>2. CASE r \in S
      BY <2>1, <2>2, NeedIsWhole
    <2>3. CASE r \notin S
      BY <2>1, <2>3 DEF PromiseInv
    <2> QED
      BY <2>2, <2>3
  <1> QED
    BY <1>1

(* A step that finds too few blocks while all that is held has a seat: fewer  *)
(* blocks were laid out than the plan counted on.                             *)
LEMMA ShortIsCovered ==
    ASSUME PromiseInv, pc = "compute", ~Suffices, ~Seatless
    PROVE  pool < planned \div BlockSize
  <1>1. /\ planned \in Nat /\ pool \in Nat /\ seats \in Nat /\ held \in [Request -> Nat]
        /\ batch \in Seq(Request) /\ running \subseteq Request /\ IsFiniteSet(running)
        /\ seats <= planned \div MaxLen /\ Cardinality(running \union Range(batch)) <= seats
    BY DEF PromiseInv, BlockInv, PipeInv, PipeTypes
  <1>2. Range(batch) \subseteq Request /\ IsFiniteSet(Range(batch)) /\ Len(batch) \in Nat
        /\ SubSeq(batch, 1, Len(batch)) = batch
    <2>1. Len(batch) \in Nat /\ \A i \in 1 .. Len(batch) : batch[i] \in Request
      BY <1>1, SeqRange, ElementOfSeq
    <2>2. SubSeq(batch, 1, Len(batch)) = batch
      BY <1>1
    <2> QED
      BY <1>1, <2>1, <2>2, SeqRange, SeqFinite
  <1>3. IsFiniteSet(Request)
    BY BlocksAssumption
  <1>4. PICK B, U, k : B = Range(batch) /\ U = running \union B /\ k = Context
    OBVIOUS
  <1>5. k \in Nat /\ Cardinality(U) * k <= planned \div BlockSize
    <2>1. IsFiniteSet(U) /\ Cardinality(U) \in Nat
      BY <1>1, <1>2, <1>4, FS_Union, FS_CardinalityType
    <2>2. Cardinality(U) <= planned \div MaxLen
      <3>1. MaxLen \in Nat \ {0} /\ planned \div MaxLen \in Int
        <4>1. MaxLen \in Nat \ {0}
          BY BlocksAssumption
        <4> QED
          BY <1>1, <4>1
      <3>2. Cardinality(U) <= seats
        BY <1>1, <1>4
      <3> QED
        BY <1>1, <2>1, <3>1, <3>2
    <2> QED
      BY <1>1, <1>4, <2>1, <2>2, SeatsFit
  <1>6. PICK w, a, h, hu :
           /\ w = [r \in B |-> Wanting(r)]
           /\ a = [r \in Request |-> IF r \in B /\ Wanting(r) > 0 THEN Wanting(r) ELSE 0]
           /\ h = [r \in Request |-> held[r] + a[r]]
           /\ hu = [r \in U |-> h[r]]
    OBVIOUS
  <1>7. \A r \in B : held[r] \in Nat /\ Wanting(r) \in Int /\ held[r] + Wanting(r) <= k
    BY <1>4, NeedIsWhole
  <1>8. \A r \in Request : held[r] \in Nat /\ held[r] <= k
    BY <1>1, <1>4 DEF PromiseInv
  <1>9. w \in [B -> Int] /\ a \in [Request -> Nat]
    BY <1>6, <1>7
  <1>10. SumOf(w) = SumOf(a)
    <2>1. a \in [Request -> Int]
      BY <1>9
    <2>2. \A r \in B : w[r] > 0 => r \in Request /\ a[r] = w[r]
      BY <1>2, <1>4, <1>6
    <2>3. \A r \in Request : a[r] > 0 => r \in B /\ w[r] = a[r]
      BY <1>6
    <2> QED
      BY <1>9, <2>1, <2>2, <2>3, SumSupport
  <1>11. h \in [Request -> Nat] /\ \A r \in Request : h[r] = held[r] + a[r]
    BY <1>6, <1>8, <1>9
  <1>12. SumOf(h) = SumOf(held) + SumOf(a)
    <2>1. PICK g : g = held
      OBVIOUS
    <2>2. g \in [Request -> Nat] /\ a \in [Request -> Nat] /\ \A r \in Request : h[r] = g[r] + a[r]
      BY <1>1, <1>9, <1>11, <2>1
    <2>3. h \in [Request -> Nat]
      BY <1>11
    <2>4. SumOf(h) = SumOf(g) + SumOf(a)
      BY <1>3, <2>2, <2>3, SumAdd
    <2> QED
      BY <2>1, <2>4
  <1>13. \A r \in Request : h[r] <= k
    <2> TAKE r \in Request
    <2>1. CASE r \in B /\ Wanting(r) > 0
      BY <1>6, <1>7, <1>11, <2>1
    <2>2. CASE ~ (r \in B /\ Wanting(r) > 0)
      BY <1>6, <1>8, <1>11, <2>2
    <2> QED
      BY <2>1, <2>2
  <1>14. \A r \in Request : h[r] > 0 => r \in U
    <2> TAKE r \in Request
    <2>1. r \notin B /\ held[r] = 0 => h[r] = 0
      BY <1>6, <1>11
    <2>2. held[r] > 0 => r \in running
      BY DEF Seatless
    <2>3. r \notin B /\ r \notin running => ~ (h[r] > 0)
      BY <1>8, <2>1, <2>2
    <2> QED
      BY <1>4, <2>3
  <1>15. IsFiniteSet(U) /\ U \subseteq Request /\ hu \in [U -> Int] /\ \A r \in U : hu[r] = h[r] /\ hu[r] <= k
    <2>1. IsFiniteSet(U)
      BY <1>1, <1>2, <1>4, FS_Union
    <2>2. U \subseteq Request
      BY <1>1, <1>2, <1>4
    <2>3. \A r \in U : h[r] \in Int /\ h[r] <= k
      BY <1>11, <1>13, <2>2
    <2>4. hu \in [U -> Int] /\ \A r \in U : hu[r] = h[r] /\ hu[r] <= k
      BY <1>6, <2>3
    <2> QED
      BY <2>1, <2>2, <2>4
  <1>16. SumOf(h) = SumOf(hu)
    <2>1. h \in [Request -> Int]
      BY <1>11
    <2>2. \A r \in Request : h[r] > 0 => r \in U /\ hu[r] = h[r]
      BY <1>14, <1>15
    <2>3. \A r \in U : hu[r] > 0 => r \in Request /\ h[r] = hu[r]
      BY <1>15
    <2> QED
      BY <1>15, <2>1, <2>2, <2>3, SumSupport
  <1>17. SumOf(hu) \in Nat /\ SumOf(hu) <= Cardinality(U) * k
    BY <1>5, <1>15, SumBound
  <1>18. SumOf(held) \in Nat /\ SumOf(w) \in Nat
    <2>1. held \in [Request -> Int]
      BY <1>1
    <2> QED
      BY <1>2, <1>3, <1>4, <1>9, <2>1, UnitsFinite
  <1>19. ~ (SumOf(w) <= pool - SumOf(held))
    <2>1. TakenBy(Len(batch)) = SumOf(w)
      BY <1>2, <1>4, <1>6 DEF TakenBy
    <2> QED
      BY <2>1 DEF Suffices, Free
  <1>20. PICK p, x, y, z, v : p = pool /\ x = SumOf(w) /\ y = SumOf(held) /\ z = planned \div BlockSize /\ v = Cardinality(U) * k
    OBVIOUS
  <1>21. y + x <= v /\ v <= z /\ x \in Nat /\ y \in Nat /\ p \in Nat /\ ~ (x <= p - y) /\ v \in Nat /\ z \in Int
    <2>1. z \in Int
      <3>1. BlockSize \in Nat \ {0}
        BY BlocksAssumption
      <3> QED
        BY <1>1, <1>20, <3>1
    <2>2. v \in Nat
      <3>1. Cardinality(U) \in Nat
        BY <1>15, FS_CardinalityType
      <3> QED
        BY <1>5, <1>20, <3>1
    <2>3. y + x <= v
      BY <1>10, <1>12, <1>16, <1>17, <1>20
    <2> QED
      BY <1>1, <1>5, <1>18, <1>19, <1>20, <2>1, <2>2, <2>3
  <1>22. p < z
    BY <1>21
  <1> QED
    BY <1>20, <1>22

(* A step that gives no seat and begins no batch.                             *)
LEMMA SeatsRest ==
    ASSUME PromiseInv, BlockInv', life = "serving", UNCHANGED <<life, planned, pool, seats>>,
           running' \subseteq running, \A r \in Request : held'[r] <= Context, PromiseIsCovered',
           pc' = "compute" => pc = "compute" /\ UNCHANGED <<batch, outputs>>
    PROVE  PromiseInv'
  <1>1. Cardinality(running) \in Nat /\ Cardinality(running') \in Nat /\ Cardinality(running') <= Cardinality(running)
    <2>1. IsFiniteSet(running)
      BY DEF PromiseInv, BlockInv, PipeInv, PipeTypes
    <2> QED
      BY <2>1, FS_Subset, FS_CardinalityType
  <1>2. Cardinality(running') <= seats'
    <2>1. seats \in Nat /\ Cardinality(running) <= seats
      BY DEF PromiseInv
    <2> QED
      BY <1>1, <2>1
  <1>3. ASSUME pc' = "compute"
        PROVE  /\ Cardinality(running' \union Range(batch')) <= seats'
               /\ \A r \in Range(batch') : outputs'[r] < Want
    <2>1. pc = "compute" /\ batch' = batch /\ outputs' = outputs
      BY <1>3
    <2>2. PICK U, V : U = running \union Range(batch) /\ V = running' \union Range(batch')
      OBVIOUS
    <2>3. V \subseteq U /\ Cardinality(U) <= seats /\ seats \in Nat
      BY <2>1, <2>2 DEF PromiseInv
    <2>4. IsFiniteSet(U)
      <3>1. IsFiniteSet(running) /\ IsFiniteSet(Range(batch))
        BY SeqFinite DEF PromiseInv, BlockInv, PipeInv, PipeTypes
      <3> QED
        BY <2>2, <3>1, FS_Union
    <2>5. Cardinality(V) \in Nat /\ Cardinality(U) \in Nat /\ Cardinality(V) <= Cardinality(U)
      BY <2>3, <2>4, FS_Subset, FS_CardinalityType
    <2>6. Cardinality(V) <= seats
      BY <2>3, <2>5
    <2> QED
      BY <2>1, <2>2, <2>6 DEF PromiseInv
  <1> QED
    BY <1>2, <1>3 DEF PromiseInv

LEMMA ChooseSeats ==
    ASSUME PromiseInv, BlockInv', Choose, UNCHANGED blocks, life = "serving", UNCHANGED <<life, planned, pool>>
    PROVE  PromiseInv'
  <1>1. UNCHANGED <<outputs, seats, held, short>>
    BY DEF Choose, blocks, remote
  <1>2. /\ waiting \in Seq(Request) /\ Distinct(waiting) /\ IsFiniteSet(running) /\ running \subseteq Request
        /\ seats \in Nat /\ Cardinality(running) <= seats /\ Cardinality(running) \in Nat
    BY FS_CardinalityType DEF PromiseInv, BlockInv, PipeInv, PipeTypes, TicketsOK
  <1>3. PICK n, fresh : n = FreshCount /\ fresh = SubSeq(waiting, 1, n)
    OBVIOUS
  <1>4. CASE fresh # <<>>
    <2>1. batch' = fresh /\ running' = running \union Range(fresh) /\ pc' = "compute"
      BY <1>3, <1>4 DEF Choose
    <2>2. n # 0
      <3>1. SubSeq(waiting, 1, 0) = <<>>
        BY <1>2
      <3> QED
        BY <1>3, <1>4, <3>1
    <2>3. /\ n \in Nat /\ n + Cardinality(running) <= seats
          /\ IsFiniteSet(Range(fresh)) /\ Cardinality(Range(fresh)) <= n
      <3>1. Len(waiting) \in Nat
        BY <1>2, SeqRange
      <3> QED
        BY <1>2, <1>3, <2>2, <3>1, FreshHasSeats
    <2>4. PICK U, F : U = running' /\ F = Range(fresh)
      OBVIOUS
    <2>5. U = running \union F /\ IsFiniteSet(F) /\ Cardinality(F) \in Nat /\ Cardinality(F) <= n
      BY <2>1, <2>3, <2>4, FS_CardinalityType
    <2>6. IsFiniteSet(U) /\ Cardinality(U) \in Nat /\ Cardinality(U) <= Cardinality(running) + Cardinality(F)
      <3>1. Cardinality(running \union F) = Cardinality(running) + Cardinality(F) - Cardinality(running \cap F)
            /\ IsFiniteSet(running \union F)
        BY <1>2, <2>5, FS_Union
      <3>2. IsFiniteSet(running \cap F) /\ Cardinality(running \cap F) \in Nat
        BY <1>2, <2>5, FS_Intersection, FS_CardinalityType
      <3>3. Cardinality(running \union F) \in Nat
        BY <3>1, FS_CardinalityType
      <3> QED
        BY <1>2, <2>5, <3>1, <3>2, <3>3
    <2>7. Cardinality(U) <= seats
      BY <1>2, <2>3, <2>5, <2>6
    <2>8. running' \union Range(batch') = U
      BY <2>1, <2>4
    <2>9. \A r \in Range(batch') : outputs[r] < Want
      <3>1. Range(fresh) \subseteq Range(waiting)
        <4>1. n \in 0 .. Len(waiting)
          BY <1>2, <1>3, FreshFits
        <4> QED
          BY <1>2, <1>3, <4>1, SeqSplit
      <3>2. \A r \in Range(waiting) : r \in Request /\ outputs[r] = 0
        BY <1>2, SeqRange DEF PromiseInv, BlockInv, PipeInv, NewOK, New
      <3>3. 0 < Want
        BY PipelineAssumption
      <3> QED
        BY <2>1, <3>1, <3>2, <3>3
    <2> QED
      BY <1>1, <2>1, <2>4, <2>7, <2>8, <2>9 DEF PromiseInv, PromiseIsCovered
  <1>5. CASE fresh = <<>>
    <2>1. PICK alive : alive = {r \in running : outputs[r] < Want}
      OBVIOUS
    <2>2. batch' = SetToSeq(alive) /\ running' = running
      BY <1>3, <1>5, <2>1 DEF Choose
    <2>3. IsFiniteSet(alive) /\ alive \subseteq running
      BY <1>2, <2>1, FS_Subset
    <2>4. Range(batch') = alive
      BY <2>2, <2>3, SeqOfSet
    <2>5. running' \union Range(batch') = running
      BY <2>2, <2>3, <2>4
    <2> QED
      BY <1>1, <1>2, <2>1, <2>2, <2>4, <2>5 DEF PromiseInv, PromiseIsCovered
  <1> QED
    BY <1>4, <1>5

(* Only the driver takes blocks.                                              *)
LEMMA DriverCovered ==
    ASSUME PromiseInv, BlockInv', life = "serving", UNCHANGED <<life, planned, pool, seats>>,
           StepDone \/ StepFails \/ BatchRefused
    PROVE  PromiseInv'
  <1>1. pc = "compute" /\ pc' # "compute" /\ running' \subseteq running
    BY DEF StepDone, StepFails, BatchRefused, Compute, ComputeFails, FailBatch, books
  <1>2. CASE StepDone \/ StepFails
    <2>1. Allot(Range(batch)) /\ short' = short
      BY <1>2 DEF StepDone, StepFails, FormBatch
    <2>2. \A r \in Request : held'[r] <= Context
      BY <1>1, <2>1, AllotIsWhole
    <2>3. PromiseIsCovered'
      BY <2>1 DEF PromiseInv, PromiseIsCovered
    <2> QED
      BY <1>1, <2>2, <2>3, SeatsRest
  <1>3. CASE BatchRefused
    <2>1. ~Suffices /\ Undo /\ short' = IF short = "starved" \/ ~Seatless THEN "starved" ELSE "late"
      BY <1>3 DEF BatchRefused
    <2>2. \A r \in Request : held'[r] <= Context
      <3>1. CASE FirstStep
        BY <2>1, <3>1 DEF Undo, PromiseInv
      <3>2. CASE ~FirstStep
        <4>0. PICK S : S = Range(SubSeq(batch, 1, Granted))
          OBVIOUS
        <4>1. batch \in Seq(Request) /\ Distinct(batch)
          BY <1>1 DEF PromiseInv, BlockInv, PipeInv, PipeTypes, BatchOK
        <4>2. Granted \in 0 .. Len(batch)
          <5>1. Len(batch) \in Nat
            BY <4>1, SeqRange
          <5> QED
            BY <5>1, CountWithin DEF Granted
        <4>3. S \subseteq Range(batch)
          BY <4>0, <4>1, <4>2, SeqSplit
        <4>4. Allot(S)
          BY <2>1, <3>2, <4>0 DEF Undo
        <4> QED
          BY <1>1, <4>3, <4>4, AllotIsWhole
      <3> QED
        BY <3>1, <3>2
    <2>3. PromiseIsCovered'
      <3>1. CASE short = "starved"
        BY <3>1 DEF PromiseInv, PromiseIsCovered
      <3>2. CASE ~Seatless
        BY <1>1, <2>1, <3>2, ShortIsCovered DEF PromiseIsCovered
      <3>3. CASE short # "starved" /\ Seatless
        BY <2>1, <3>3 DEF PromiseIsCovered
      <3> QED
        BY <3>1, <3>2, <3>3
    <2> QED
      BY <1>1, <2>2, <2>3, SeatsRest
  <1> QED
    BY <1>2, <1>3

LEMMA PlanStep ==
    ASSUME PromiseInv, BlockInv', PlanMemory
    PROVE  PromiseInv'
  <1>1. /\ life = "planning" /\ UNCHANGED <<running, pc, pool, held, short>>
    BY DEF PlanMemory, books, loop, blocks
  <1>2. PICK budget \in Budgets :
           /\ planned' = budget
           /\ IF budget < MaxLen THEN life' = "refused" /\ UNCHANGED seats
              ELSE life' = "laying" /\ seats' = Places(budget)
    BY DEF PlanMemory
  <1>3. budget \in Nat /\ MaxLen \in Nat \ {0} /\ Asked \in Nat
    <2>1. Budgets \subseteq Nat
      BY BlocksAssumption
    <2>2. MaxLen \in Nat \ {0} /\ Asked \in Nat
      BY BlocksAssumption
    <2> QED
      BY <2>1, <2>2
  <1>4. Places(budget) \in Nat /\ Places(budget) <= budget \div MaxLen
    <2>1. PICK q : q = budget \div MaxLen
      OBVIOUS
    <2>2. q \in Nat
      BY <1>3, <2>1, budget <= budget, ShareGrows
    <2>3. \E x \in {Asked, q} : \A y \in {Asked, q} : x <= y
      <3>1. Asked <= q \/ q <= Asked
        BY <1>3, <2>2
      <3> QED
        BY <1>3, <2>2, <3>1
    <2>4. Min({Asked, q}) \in {Asked, q} /\ \A y \in {Asked, q} : Min({Asked, q}) <= y
      BY <2>3 DEF Min
    <2> QED
      BY <1>3, <2>1, <2>2, <2>4 DEF Places
  <1>5. life' \in {"laying", "refused"} /\ seats' \in Nat /\ (life' = "laying" => seats' <= planned' \div MaxLen)
    BY <1>2, <1>4 DEF PromiseInv
  <1> QED
    BY <1>1, <1>2, <1>3, <1>5 DEF PromiseInv, PromiseIsCovered

LEMMA LayStep ==
    ASSUME PromiseInv, BlockInv', LayOutCache
    PROVE  PromiseInv'
  <1>1. life = "laying" /\ UNCHANGED <<seats, running, pc, planned, held, short>>
    BY DEF LayOutCache, pipeVars, blocks
  <1>2. life' \in {"serving", "refused"} /\ pool' \in Nat
    <2>1. PICK room \in Measured :
             LET low == Min({room[c] : c \in Card}) IN
             IF low < MaxLen THEN life' = "refused" /\ UNCHANGED pool
             ELSE life' = "serving" /\ pool' = low \div BlockSize
      BY DEF LayOutCache
    <2>2. PICK S : S = {room[c] : c \in Card}
      OBVIOUS
    <2>3. S \in SUBSET Nat /\ S # {} /\ BlockSize \in Nat \ {0}
      <3>1. Rooms \subseteq Nat /\ Card # {} /\ BlockSize \in Nat \ {0}
        BY BlocksAssumption
      <3> QED
        BY <2>2, <3>1 DEF Measured
    <2>4. Min(S) \in Nat
      <3>1. \E x \in S : \A y \in S : x <= y
        BY <2>3, LeastOf
      <3> QED
        BY <2>3, <3>1 DEF Min
    <2>5. Min(S) \div BlockSize \in Nat
      BY <2>3, <2>4, Min(S) <= Min(S), ShareGrows
    <2> QED
      BY <2>1, <2>2, <2>5 DEF PromiseInv
  <1>3. Cardinality(running') = 0
    BY <1>1, FS_EmptySet DEF PromiseInv
  <1> QED
    BY <1>1, <1>2, <1>3 DEF PromiseInv, PromiseIsCovered

LEMMA PromiseStep == ASSUME PromiseInv, BlockInv', [BlockNext]_blockVars PROVE PromiseInv'
  <1>1. CASE UNCHANGED blockVars
    BY <1>1 DEF blockVars, pipeVars, PromiseInv, PromiseIsCovered
  <1>2. CASE PlanMemory
    BY <1>2, PlanStep
  <1>3. CASE LayOutCache
    BY <1>3, LayStep
  <1>4. CASE Serving /\ (StepDone \/ StepFails \/ BatchRefused)
    <2>1. life = "serving" /\ UNCHANGED <<life, planned, pool, seats>>
      BY <1>4 DEF Serving, StepDone, StepFails, BatchRefused, Compute, ComputeFails, remote
    <2> QED
      BY <1>4, <2>1, DriverCovered
  <1>5. CASE Serving /\ Choose /\ UNCHANGED blocks
    BY <1>5, ChooseSeats DEF Serving
  <1>6. CASE Serving /\ Drain /\ ReleaseBlocks
    <2>1. /\ life = "serving" /\ UNCHANGED <<life, planned, pool, seats, running, short>>
          /\ pc = "drain" /\ pc' # "compute"
      BY <1>6 DEF Serving, Drain, ReleaseBlocks, remote
    <2>2. \A r \in Request : held'[r] <= Context
      <3>1. \A r \in Request : held'[r] = held[r] \/ held'[r] = 0
        BY <1>6 DEF ReleaseBlocks, PromiseInv, BlockInv
      <3>2. 0 <= Context
        <4>1. MaxLen \in Nat /\ BlockSize \in Nat \ {0}
          BY BlocksAssumption
        <4>2. Context \in Nat
          BY <4>1, MaxLen <= MaxLen, ShareGrows DEF Context
        <4> QED
          BY <4>2
      <3> QED
        BY <3>1, <3>2 DEF PromiseInv
    <2>3. PromiseIsCovered'
      BY <2>1 DEF PromiseInv, PromiseIsCovered
    <2> QED
      BY <2>1, <2>2, <2>3, SeatsRest
  <1>7. ASSUME life = "serving", UNCHANGED <<life, planned, pool, seats, blocks>>, running' \subseteq running,
               pc' = "compute" => pc = "compute" /\ UNCHANGED <<batch, outputs>>
        PROVE  PromiseInv'
    <2>1. held' = held /\ short' = short
      BY <1>7 DEF blocks
    <2>2. (\A r \in Request : held'[r] <= Context) /\ PromiseIsCovered'
      BY <1>7, <2>1 DEF PromiseInv, PromiseIsCovered
    <2> QED
      BY <1>7, <2>2, SeatsRest
  <1>8. CASE Serving /\ UNCHANGED blocks /\ \E r \in Request : Submit(r) \/ Cancel(r) \/ CancelReleases(r)
    <2>1. /\ life = "serving" /\ UNCHANGED <<life, planned, pool, seats, blocks, pc, batch, outputs>>
          /\ running' \subseteq running
      BY <1>8 DEF Serving, Submit, Cancel, CancelReleases, Unseat, loop, remote
    <2> QED
      BY <1>7, <2>1
  <1>9. CASE Serving /\ UNCHANGED blocks /\ (Answered \/ TailSilent)
    <2>1. /\ life = "serving" /\ UNCHANGED <<life, planned, pool, seats, blocks>>
          /\ running' \subseteq running /\ pc' # "compute"
      BY <1>9 DEF Serving, Answered, TailSilent, FailBatch, books, remote
    <2> QED
      BY <1>7, <2>1
  <1>10. CASE Serving /\ UNCHANGED blocks /\ Deliver
    <2>1. /\ life = "serving" /\ UNCHANGED <<life, planned, pool, seats, blocks>>
          /\ running' \subseteq running /\ pc' # "compute"
      BY <1>10 DEF Serving, Deliver, Gone, remote
    <2> QED
      BY <1>7, <2>1
  <1>11. CASE Serving /\ UNCHANGED blocks
              /\ (Load \/ StageHandles \/ StageFails \/ Lose \/ LoseAnswer \/ Late \/ Repeat)
    <2>1. /\ life = "serving" /\ UNCHANGED <<life, planned, pool, seats, blocks, running, outputs, pc, batch>>
      BY <1>11 DEF Serving, Load, StageHandles, StageFails, Lose, LoseAnswer, Late, Repeat, books, loop, remote
    <2> QED
      BY <1>7, <2>1
  <1> QED
    BY <1>1, <1>2, <1>3, <1>4, <1>5, <1>6, <1>8, <1>9, <1>10, <1>11 DEF BlockNext, StepDone, StepFails

(* The promise covers what it is given for, for any limits, cards, memories   *)
(* and requests, and however their steps and leavings interleave.             *)
THEOREM PromiseIsCoveredHolds == BlockSpec => []PromiseIsCovered
  <1>1. BlockInit => PromiseInv
    <2> SUFFICES ASSUME BlockInit PROVE PromiseInv
      OBVIOUS
    <2>1. BlockInv
      <3>1. PipeInv /\ running = {} /\ pc = "drain" /\ held = [r \in Request |-> 0] /\ granted = {}
        BY PipeBegins DEF BlockInit, PipeInit
      <3> QED
        BY <3>1 DEF BlockInv
    <2>2. seats \in Nat
      <3>1. Seats \subseteq Nat \ {0}
        BY PipelineAssumption
      <3> QED
        BY <3>1 DEF BlockInit, PipeInit
    <2>3. Context \in Nat
      <3>1. MaxLen \in Nat /\ BlockSize \in Nat \ {0}
        BY BlocksAssumption
      <3> QED
        BY <3>1, MaxLen <= MaxLen, ShareGrows DEF Context
    <2>4. \A r \in Request : held[r] = 0
      BY DEF BlockInit
    <2>5. life = "planning" /\ planned = 0 /\ pool = 0 /\ running = {} /\ pc = "drain" /\ short = "no"
      BY DEF BlockInit, PipeInit
    <2> QED
      BY <2>1, <2>2, <2>3, <2>4, <2>5 DEF PromiseInv, PromiseIsCovered
  <1>2. PromiseInv /\ BlockInv' /\ [BlockNext]_blockVars => PromiseInv'
    BY PromiseStep
  <1>3. PromiseInv => PromiseIsCovered
    BY DEF PromiseInv
  <1> QED
    BY <1>1, <1>2, <1>3, BlockInvariant, PTL DEF BlockSpec

(* ----------------------------------------------------- a cluster of Ray --- *)
RanksOK ==
    /\ rank \in [Rank -> {"ask", "start", "call", "head", "join", "group", "up", "script", "clean", "ended"}]
    /\ node \in [Rank -> {"none", "own", "old"}]
    /\ met \subseteq Rank /\ fell \subseteq Rank

(* Past its check the head's ports are its own, and leftovers only go; a node *)
(* of this cluster has been counted when it came.                             *)
HeadAlone == /\ rank[0] \in {"head", "join", "group", "up", "script"} => <<Host[0], 0>> \notin left
             /\ node[0] # "old"
OwnHaveMet == \A r \in Rank : node[r] = "own" => r \in met
RayInv == RanksOK /\ HeadAlone /\ OwnHaveMet /\ WholeOrNothing /\ NeighbourSpared

LEMMA HeadIsRank == 0 \in Rank
  BY RayAssumption DEF Rank

LEMMA AllAlive ==
    ASSUME node[0] # "none", AliveNodes >= Size
    PROVE  \A r \in Rank : node[r] = "own"
  <1> DEFINE own == {k \in Rank : node[k] = "own"}
  <1>1. IsFiniteSet(Rank) /\ Cardinality(Rank) = Size
    BY FS_Interval, RayAssumption DEF Rank
  <1>2. own \subseteq Rank
    OBVIOUS
  <1>3. Cardinality(own) >= Size
    BY DEF AliveNodes
  <1> HIDE DEF own
  <1>4. IsFiniteSet(own) /\ Cardinality(own) \in Nat /\ Cardinality(own) <= Cardinality(Rank)
    BY <1>1, <1>2, FS_Subset, FS_CardinalityType
  <1>5. own = Rank
    BY <1>1, <1>2, <1>3, <1>4, RayAssumption, FS_Subset
  <1> QED
    BY <1>5 DEF own

(* Before a node is started.                                                  *)
LEMMA BeforeStep ==
    ASSUME RayInv, NEW r \in Rank, Ask(r) \/ Check(r) \/ WaitForHead(r) \/ GiveUp(r) \/ Tell(r)
    PROVE  RayInv'
  <1> USE HeadIsRank DEF RayInv, RanksOK, HeadAlone, OwnHaveMet, WholeOrNothing, NeighbourSpared,
                         Goto, Refuse, Still
  <1>1. CASE Ask(r)
    BY <1>1 DEF Ask
  <1>2. CASE Check(r)
    BY <1>2 DEF Check, Occupied
  <1>3. CASE WaitForHead(r)
    BY <1>3 DEF WaitForHead
  <1>4. CASE GiveUp(r) \/ Tell(r)
    BY <1>4 DEF GiveUp, Tell
  <1> QED
    BY <1>1, <1>2, <1>3, <1>4

LEMMA AttemptStep ==
    ASSUME RayInv, NEW r \in Rank, Attempt(r)
    PROVE  RayInv'
  <1> USE HeadIsRank DEF RayInv, RanksOK, HeadAlone, OwnHaveMet, WholeOrNothing, NeighbourSpared,
                         Goto, Refuse, Still
  <1>1. HeadSeen(r) \in {"own", "old"} /\ (r = 0 => HeadSeen(r) = "own")
    BY DEF Attempt, HeadSeen
  <1> QED
    BY <1>1 DEF Attempt

(* The wait for the group, and the work.                                      *)
LEMMA GatheredStep ==
    ASSUME RayInv, NEW r \in Rank, Gathered(r)
    PROVE  RayInv'
  <1> USE HeadIsRank DEF RayInv, RanksOK, HeadAlone, OwnHaveMet, NeighbourSpared, Goto, Still
  <1>1. node[r] = "old" \/ met = Rank
    <2>1. CASE node[r] = "old"
      BY <2>1
    <2>2. CASE AliveNodes >= Size
      <3>1. node[0] # "none"
        BY <2>2, RayAssumption DEF AliveNodes
      <3> QED
        BY <2>2, <3>1, AllAlive
    <2> QED
      BY <2>1, <2>2 DEF Gathered, Whole
  <1> QED
    BY <1>1 DEF Gathered, WholeOrNothing

LEMMA GroupStep ==
    ASSUME RayInv, NEW r \in Rank, Connect(r) \/ NotGathered(r) \/ Hold(r) \/ RunScript \/ ScriptEnds
    PROVE  RayInv'
  <1> USE HeadIsRank DEF RayInv, RanksOK, HeadAlone, OwnHaveMet, WholeOrNothing, NeighbourSpared,
                         Goto, Refuse, Still
  <1>1. CASE Connect(r)
    BY <1>1 DEF Connect
  <1>2. CASE NotGathered(r) \/ Hold(r)
    BY <1>2 DEF NotGathered, Hold
  <1>3. CASE RunScript \/ ScriptEnds
    BY <1>3 DEF RunScript, ScriptEnds
  <1> QED
    BY <1>1, <1>2, <1>3

(* Nodes go: with their rank, by themselves or with the head's.               *)
LEMMA FallStep ==
    ASSUME RayInv, NEW r \in Rank, Cleanup(r) \/ NodeDies(r) \/ HeadLost(r) \/ LeftoversEnd
    PROVE  RayInv'
  <1> USE HeadIsRank DEF RayInv, RanksOK, HeadAlone, OwnHaveMet, WholeOrNothing, NeighbourSpared,
                         Goto, Still
  <1>1. CASE Cleanup(r)
    BY <1>1 DEF Cleanup
  <1>2. CASE NodeDies(r) \/ HeadLost(r)
    BY <1>2 DEF NodeDies, HeadLost, Falls
  <1>3. CASE LeftoversEnd
    BY <1>3 DEF LeftoversEnd
  <1> QED
    BY <1>1, <1>2, <1>3

LEMMA RayInvariant == RaySpec => []RayInv
  <1>1. RayInit => RayInv
    BY HeadIsRank DEF RayInit, RayInv, RanksOK, HeadAlone, OwnHaveMet, WholeOrNothing, NeighbourSpared
  <1>2. RayInv /\ [RayNext]_rayVars => RayInv'
    <2>1. RayInv /\ UNCHANGED rayVars => RayInv'
      BY DEF rayVars, RayInv, RanksOK, HeadAlone, OwnHaveMet, WholeOrNothing, NeighbourSpared
    <2> QED
      BY <2>1, HeadIsRank, BeforeStep, AttemptStep, GatheredStep, GroupStep, FallStep DEF RayNext
  <1> QED
    BY <1>1, <1>2, PTL DEF RaySpec

(* The client's script runs on a whole cluster or not at all (server.py main, *)
(* cluster.py wait_for_group): for groups of any size, on any machines, with  *)
(* any leftovers and however many nodes die.                                  *)
THEOREM WholeOrNothingHolds == RaySpec => []WholeOrNothing
  <1>1. RayInv => WholeOrNothing
    BY DEF RayInv
  <1> QED
    BY <1>1, RayInvariant, PTL

(* stop_node takes its own session down and no other rank's on the machine.   *)
THEOREM NeighbourSparedHolds == RaySpec => []NeighbourSpared
  <1>1. RayInv => NeighbourSpared
    BY DEF RayInv
  <1> QED
    BY <1>1, RayInvariant, PTL

(* -------------------------------------------------------------- weights --- *)
(* A checkpoint whose part must be enough: nothing is lost, there is no       *)
(* tower, and a tied head's embeddings go by a name the loader knows.         *)
Plain == Complete /\ print.tower = 0 /\ (print.names = "nested" => ~print.tied)

LEMMA KeysOfPlain ==
    ASSUME print \in Checkpoints, Plain
    PROVE  /\ \A i \in 0 .. Layers - 1 : Text(i) \in Keys
           /\ Embed \in Keys /\ Norm \in Keys /\ (LmHead \in Keys <=> print.head)
           /\ \A k \in Keys : k[1] # "tower" /\ (k[1] = "text" => k[2] \in 0 .. Layers - 1)
           /\ ~print.tied => print.head
  <1>1. /\ print.lost[1] = "none" /\ print.tower = 0 /\ (~print.tied => print.head)
        /\ print.lost \in {<<"none", 0>>, Embed, Norm} \union {Text(i) : i \in 0 .. Layers - 1}
    BY DEF Checkpoints, Plain, Complete
  <1>2. print.lost = <<"none", 0>>
    BY <1>1 DEF Embed, Norm, Text
  <1>3. Keys = ({Text(i) : i \in 0 .. Layers - 1} \union {Embed, Norm}
                \union (IF print.head THEN {LmHead} ELSE {})) \ {<<"none", 0>>}
    BY <1>1, <1>2 DEF Keys
  <1>4. \A i \in 0 .. Layers - 1 : Text(i) # <<"none", 0>> /\ Text(i)[1] = "text" /\ Text(i)[2] = i /\ Text(i) # LmHead
    BY DEF Text, LmHead
  <1>5. /\ Embed # <<"none", 0>> /\ Norm # <<"none", 0>> /\ LmHead # <<"none", 0>>
        /\ LmHead # Embed /\ LmHead # Norm
        /\ Embed[1] = "embed" /\ Norm[1] = "norm" /\ LmHead[1] = "head"
    BY DEF Embed, Norm, LmHead
  <1> QED
    BY <1>1, <1>3, <1>4, <1>5

(* In such a checkpoint the only layers are the text model's.                 *)
LEMMA TextIsDetected ==
    ASSUME print \in Checkpoints, Plain, NEW K \in SUBSET Keys, NEW n \in Nat,
           NEW i \in 0 .. Layers - 1, Text(i) \in K
    PROVE  Layered(K) = {"text"} /\ Detected(K, n) = {"text"}
  <1>1. Indices(K, "tower") = {}
    BY KeysOfPlain DEF Indices
  <1>2. i \in Indices(K, "text") /\ Indices(K, "text") \subseteq 0 .. Layers - 1
    BY KeysOfPlain DEF Indices, Text
  <1>3. Layered(K) = {"text"}
    BY <1>1, <1>2 DEF Layered
  <1>4. Cardinality(Indices(K, "text")) \in Nat
    <2>1. Layers - 1 \in Int
      BY WeightsAssumption
    <2>2. IsFiniteSet(0 .. Layers - 1)
      BY <2>1, FS_Interval
    <2> QED
      BY <1>2, <2>2, FS_Subset, FS_CardinalityType
  <1>5. Detected(K, n) = {"text"}
    <2> DEFINE complete == {p \in Layered(K) : \E j \in Indices(K, p) : j >= n - 1}
               candidates == IF complete # {} THEN complete ELSE Layered(K)
    <2>1. candidates = {"text"}
      BY <1>3
    <2>2. Detected(K, n) = {p \in candidates : \A q \in candidates :
                              Cardinality(Indices(K, p)) >= Cardinality(Indices(K, q))}
      BY DEF Detected
    <2> HIDE DEF candidates
    <2> QED
      BY <1>4, <2>1, <2>2
  <1> QED
    BY <1>3, <1>5

WeightTypes ==
    /\ print \in Checkpoints /\ engine_kind \in {"torch", "vllm"}
    /\ first \in 0 .. Layers - 1 /\ last \in 1 .. Layers /\ first < last
    /\ fetched \subseteq Files

(* What is written of a stage comes from its own tensor, or the head from the *)
(* embeddings it is tied to; and the stage is up with nothing unfilled.       *)
WrittenFromOwn ==
    /\ at \in {"loaded", "up"} /\ engine_kind = "torch" =>
          \A w \in filled : w[1] = w[2] \/ (w = <<LmHead, Embed>> /\ print.tied)
    /\ at = "up" /\ engine_kind = "torch" => Parameters \subseteq {w[1] : w \in filled}

(* What a plain checkpoint's stage needs of it: all of its tensors, and the   *)
(* embeddings when the head is tied to them.                                  *)
Enough(F) ==
    /\ \A k \in Keys : Wanted_by(k, "text") => FileOf(k) \in F
    /\ IsLast /\ print.tied /\ LmHead \notin Keys => FileOf(Embed) \in F

PlainGoesOn ==
    Plain =>
        /\ at # "refused"
        /\ at = "fetched" => Enough(fetched) /\ fetched # {} /\ \A need \in NeededFiles : need \subseteq fetched
        /\ at = "up" /\ engine_kind = "vllm" => Enough(opened)
        /\ at \in {"viewed", "matched", "loaded"} => Enough(opened)
        /\ at = "matched" => prefix = "text"
        /\ at = "loaded" => /\ \A k \in KeysIn(opened) \intersect Parameters : <<k, k>> \in filled
                            /\ IsLast /\ LmHead \notin Keys => <<LmHead, Embed>> \in filled

WeightInv == WeightTypes /\ WrittenFromOwn /\ PlainGoesOn

(* The files chosen for a plain checkpoint are enough.                        *)
LEMMA NeededIsEnough ==
    ASSUME WeightTypes, Plain, NEW need \in NeededFiles
    PROVE  /\ need \subseteq Files
           /\ need # {} => Enough(need)
           /\ NeededFiles = {need}
           /\ print.index => need # {}
           /\ Enough(Files) /\ Files # {}
  <1>1. /\ first \in 0 .. Layers - 1 /\ last \in 1 .. Layers /\ first < last /\ print \in Checkpoints /\ Layers \in Nat
    BY WeightsAssumption DEF WeightTypes
  <1>2. Text(first) \in Keys /\ Wanted_by(Text(first), "text")
    BY <1>1, KeysOfPlain DEF Wanted_by, Text
  <1>3. Layered(Keys) = {"text"} /\ Detected(Keys, last) = {"text"}
    BY <1>1, <1>2, TextIsDetected
  <1>4. need = {} \/ (print.index /\ need = Needed("text"))
    BY <1>3 DEF NeededFiles
  <1>5. Embed \in Keys /\ (print.names = "nested" => ~print.tied)
    BY <1>1, KeysOfPlain DEF Plain
  <1>6. Enough(Needed("text")) /\ Needed("text") # {} /\ Needed("text") \subseteq Files
    <2>1. \A k \in Keys : Wanted_by(k, "text") => FileOf(k) \in Needed("text")
      BY DEF Needed
    <2>2. IsLast /\ print.tied /\ LmHead \notin Keys => FileOf(Embed) \in Needed("text")
      BY <1>5 DEF Needed
    <2>3. Needed("text") \subseteq Files
      BY <1>5 DEF Needed, Files
    <2> QED
      BY <1>2, <2>1, <2>2, <2>3 DEF Enough
  <1>7. Enough(Files) /\ Files # {}
    BY <1>2, <1>5 DEF Enough, Files
  <1>8. (print.index => need # {}) /\ NeededFiles = {need}
    BY <1>3, <1>6 DEF NeededFiles
  <1> QED
    BY <1>4, <1>6, <1>7, <1>8

(* What a stage reads then has a layer of the text model and all it writes.   *)
LEMMA EnoughIsRead ==
    ASSUME WeightTypes, Plain, Enough(opened)
    PROVE  /\ \A k \in Keys \intersect Parameters : k \in KeysIn(opened)
           /\ \A n \in Nat : Layered(KeysIn(opened)) = {"text"} /\ Detected(KeysIn(opened), n) = {"text"}
           /\ \A k \in Parameters : Wanted_by(k, "text")
           /\ \A k \in Parameters : k \in Keys \/ k = LmHead
           /\ IsLast /\ LmHead \notin Keys => TiedSource = {<<LmHead, Embed>>} /\ print.tied
  <1>1. /\ first \in 0 .. Layers - 1 /\ last \in 1 .. Layers /\ first < last /\ print \in Checkpoints /\ Layers \in Nat
    BY WeightsAssumption DEF WeightTypes
  <1>2. /\ \A i \in 0 .. Layers - 1 : Text(i) \in Keys
        /\ Embed \in Keys /\ Norm \in Keys /\ (LmHead \in Keys <=> print.head)
        /\ ~print.tied => print.head
    BY <1>1, KeysOfPlain
  <1>3. \A i : Text(i)[1] = "text" /\ Text(i)[2] = i
    BY DEF Text
  <1>4. \A k \in Parameters : Wanted_by(k, "text")
    BY <1>1, <1>3 DEF Parameters, Wanted_by
  <1>5. \A k \in Parameters : k \in Keys \/ k = LmHead
    BY <1>1, <1>2 DEF Parameters
  <1>6. \A k \in Keys \intersect Parameters : k \in KeysIn(opened)
    BY <1>4 DEF KeysIn, Enough
  <1>7. Text(first) \in Parameters /\ Text(first) \in Keys
    BY <1>1, <1>2 DEF Parameters
  <1>8. KeysIn(opened) \in SUBSET Keys /\ Text(first) \in KeysIn(opened)
    BY <1>6, <1>7 DEF KeysIn
  <1>9. \A n \in Nat : Layered(KeysIn(opened)) = {"text"} /\ Detected(KeysIn(opened), n) = {"text"}
    BY <1>1, <1>8, TextIsDetected
  <1>10. IsLast /\ LmHead \notin Keys => TiedSource = {<<LmHead, Embed>>} /\ print.tied
    BY <1>2 DEF TiedSource, KeysIn, Enough, Plain
  <1> QED
    BY <1>4, <1>5, <1>6, <1>9, <1>10

LEMMA WeightsBegin == WeightInit => WeightInv
  BY DEF WeightInit, WeightInv, WeightTypes, WrittenFromOwn, PlainGoesOn

LEMMA WeightsStep ==
    ASSUME WeightInv, WeightNext
    PROVE  WeightInv'
  <1> USE DEF WeightInv
  <1>1. UNCHANGED <<print, first, last, engine_kind>>
    BY DEF WeightNext, Fetch, OpenFiles, MatchNames, LoadWeights, Serve, ShowView
  <1>2. /\ Keys' = Keys /\ Files' = Files /\ Parameters' = Parameters /\ Plain' = Plain /\ NeededFiles' = NeededFiles
        /\ (IsLast <=> IsLast')
        /\ \A k : FileOf(k)' = FileOf(k)
        /\ \A k, p : Wanted_by(k, p)' <=> Wanted_by(k, p)
    BY <1>1 DEF Keys, Files, Parameters, Plain, Complete, IsLast, IsFirst, FileOf, Place, Wanted_by,
                  NeededFiles, Needed, Layered, Detected, Indices
  <1>3. /\ Enough(fetched)' <=> (\A k \in Keys : Wanted_by(k, "text") => FileOf(k) \in fetched')
                                 /\ (IsLast /\ print.tied /\ LmHead \notin Keys => FileOf(Embed) \in fetched')
        /\ Enough(opened)' <=> (\A k \in Keys : Wanted_by(k, "text") => FileOf(k) \in opened')
                                 /\ (IsLast /\ print.tied /\ LmHead \notin Keys => FileOf(Embed) \in opened')
    BY <1>1, <1>2 DEF Enough
  <1>4. CASE Fetch
    <2>1. /\ at = "asked" /\ at' = "fetched" /\ UNCHANGED <<opened, prefix, filled>>
          /\ \E need \in NeededFiles, others \in SUBSET Files :
                fetched' = others \union (IF need = {} THEN Files ELSE need)
      BY <1>4 DEF Fetch
    <2>2. PICK need \in NeededFiles, others \in SUBSET Files :
                fetched' = others \union (IF need = {} THEN Files ELSE need)
      BY <2>1
    <2>3. need \subseteq Files
      BY DEF NeededFiles, Needed, Files
    <2>4. Plain => Enough(need) \/ need = {} 
      BY NeededIsEnough
    <2>5. Plain => Enough(Files) /\ Files # {}
      BY NeededIsEnough
    <2>6. Plain => Enough(fetched)' /\ fetched' # {} /\ \A n \in NeededFiles : n \subseteq fetched'
      <3>1. Plain => NeededFiles = {need}
        BY NeededIsEnough
      <3>2. need \subseteq fetched' /\ (need = {} => Files \subseteq fetched') /\ need # {} => fetched' # {}
        BY <2>2
      <3> QED
        BY <1>3, <2>2, <2>4, <2>5, <3>1 DEF Enough
    <2>7. WeightTypes' /\ WrittenFromOwn'
      BY <1>1, <1>2, <2>1, <2>2, <2>3 DEF WeightTypes, WrittenFromOwn
    <2>8. PlainGoesOn'
      BY <1>2, <2>1, <2>6 DEF PlainGoesOn
    <2> QED
      BY <2>7, <2>8
  <1>5. CASE OpenFiles
    <2>1. PICK need \in NeededFiles :
             LET names == IF need # {} THEN need ELSE IF print.index THEN Files ELSE fetched IN
             IF names \subseteq fetched /\ names # {}
             THEN at' = "viewed" /\ opened' = names
             ELSE at' = "refused" /\ UNCHANGED opened
      BY <1>5 DEF OpenFiles
    <2>2. at = "fetched" /\ engine_kind = "torch" /\ UNCHANGED <<fetched, prefix, filled>>
      BY <1>5 DEF OpenFiles
    <2>3. WeightTypes' /\ WrittenFromOwn'
      BY <1>1, <1>2, <2>1, <2>2 DEF WeightTypes, WrittenFromOwn
    <2>4. PlainGoesOn'
      <3>1. ASSUME Plain PROVE PlainGoesOn'
        <4>1. /\ need # {} => Enough(need)
              /\ print.index => need # {}
          BY <3>1, NeededIsEnough
        <4>2. Enough(fetched) /\ fetched # {} /\ need \subseteq fetched
          BY <2>2, <3>1 DEF PlainGoesOn
        <4>3. at' = "viewed" /\ opened' = IF need # {} THEN need ELSE fetched
          BY <2>1, <4>1, <4>2
        <4>4. Enough(opened)'
          BY <1>3, <4>1, <4>2, <4>3 DEF Enough
        <4> QED
          BY <4>3, <4>4 DEF PlainGoesOn
      <3> QED
        BY <1>2, <3>1 DEF PlainGoesOn
    <2> QED
      BY <2>3, <2>4
  <1>6. CASE MatchNames
    <2>1. /\ at = "viewed" /\ at' = "matched" /\ UNCHANGED <<fetched, opened, filled>>
      BY <1>6 DEF MatchNames
    <2>2. WeightTypes' /\ WrittenFromOwn'
      BY <1>1, <1>2, <2>1 DEF WeightTypes, WrittenFromOwn
    <2>3. Plain => prefix' = "text"
      BY <1>6, <2>1, EnoughIsRead, WeightsAssumption DEF MatchNames, PlainGoesOn
    <2>4. PlainGoesOn'
      <3>1. Plain => Enough(opened)
        BY <2>1 DEF PlainGoesOn
      <3>2. Plain => Enough(opened)'
        BY <1>3, <2>1, <3>1 DEF Enough
      <3> QED
        BY <1>2, <2>1, <2>3, <3>2 DEF PlainGoesOn
    <2> QED
      BY <2>2, <2>4
  <1>7. CASE LoadWeights
    <2> DEFINE headless == IsLast /\ <<LmHead, LmHead>> \notin Written
    <2>1. /\ at = "matched" /\ UNCHANGED <<fetched, opened, prefix>>
          /\ IF headless /\ (~print.tied \/ TiedSource = {})
             THEN at' = "refused" /\ UNCHANGED filled
             ELSE at' = "loaded" /\ filled' = Written \union (IF headless THEN TiedSource ELSE {})
      BY <1>7 DEF LoadWeights
    <2>2. \A w \in Written : w[1] = w[2]
      BY DEF Written
    <2>3. \A w \in TiedSource : w = <<LmHead, Embed>>
      BY DEF TiedSource
    <2>4. WeightTypes' /\ WrittenFromOwn'
      BY <1>1, <1>2, <2>1, <2>2, <2>3 DEF WeightTypes, WrittenFromOwn
    <2>5. ASSUME Plain PROVE PlainGoesOn'
      <3>1. prefix = "text" /\ Enough(opened)
        BY <2>1, <2>5 DEF PlainGoesOn
      <3>2. \A k \in KeysIn(opened) \intersect Parameters : <<k, k>> \in Written
        BY <2>5, <3>1, EnoughIsRead DEF Written
      <3>3. headless => LmHead \notin Keys
        BY <2>5, <3>1, <3>2, EnoughIsRead DEF Parameters
      <3>4. IsLast /\ LmHead \notin Keys => headless
        BY DEF Written, KeysIn
      <3>5. at' = "loaded" /\ filled' = Written \union (IF headless THEN TiedSource ELSE {})
        BY <2>1, <2>5, <3>1, <3>3, EnoughIsRead
      <3>6. KeysIn(opened)' = KeysIn(opened)
        BY <1>2, <2>1 DEF KeysIn
      <3>7. IsLast /\ LmHead \notin Keys => <<LmHead, Embed>> \in filled'
        BY <2>5, <3>1, <3>4, <3>5, EnoughIsRead
      <3>8. Enough(opened)'
        BY <1>3, <2>1, <3>1 DEF Enough
      <3> QED
        BY <1>1, <1>2, <2>1, <3>1, <3>2, <3>5, <3>6, <3>7, <3>8 DEF PlainGoesOn
    <2>6. PlainGoesOn'
      BY <1>2, <2>5 DEF PlainGoesOn
    <2> QED
      BY <2>4, <2>6
  <1>8. CASE Serve
    <2>1. /\ at = "loaded" /\ UNCHANGED <<fetched, opened, prefix, filled>>
          /\ at' = IF Parameters \subseteq {w[1] : w \in filled} THEN "up" ELSE "refused"
      BY <1>8 DEF Serve
    <2>2. WeightTypes' /\ WrittenFromOwn'
      BY <1>1, <1>2, <2>1 DEF WeightTypes, WrittenFromOwn
    <2>3. ASSUME Plain PROVE at' = "up" /\ Enough(opened)'
      <3>1. /\ \A k \in KeysIn(opened) \intersect Parameters : <<k, k>> \in filled
            /\ IsLast /\ LmHead \notin Keys => <<LmHead, Embed>> \in filled
            /\ Enough(opened)
        BY <2>1, <2>3 DEF PlainGoesOn
      <3>2. \A k \in Parameters : \E w \in filled : w[1] = k
        <4> SUFFICES ASSUME NEW k \in Parameters PROVE \E w \in filled : w[1] = k
          OBVIOUS
        <4>1. CASE k \in Keys
          <5>1. <<k, k>> \in filled /\ <<k, k>>[1] = k
            BY <2>3, <3>1, <4>1, EnoughIsRead
          <5> QED
            BY <5>1
        <4>2. CASE k \notin Keys
          <5>1. k = LmHead
            BY <2>3, <3>1, <4>2, EnoughIsRead
          <5>2. IsLast
            BY <5>1 DEF Parameters, LmHead, Embed, Text
          <5>3. <<LmHead, Embed>> \in filled /\ <<LmHead, Embed>>[1] = k
            BY <3>1, <4>2, <5>1, <5>2
          <5> QED
            BY <5>3
        <4> QED
          BY <4>1, <4>2
      <3>3. Enough(opened)'
        BY <1>3, <2>1, <3>1 DEF Enough
      <3>4. Parameters \subseteq {w[1] : w \in filled}
        BY <3>2
      <3> QED
        BY <2>1, <3>3, <3>4
    <2>4. PlainGoesOn'
      BY <1>1, <1>2, <2>1, <2>3 DEF PlainGoesOn
    <2> QED
      BY <2>2, <2>4
  <1>9. CASE ShowView
    <2>1. PICK need \in NeededFiles :
             opened' = IF need = {} THEN (IF print.index THEN Files ELSE fetched) ELSE need
      BY <1>9 DEF ShowView
    <2>2. /\ at = "fetched" /\ engine_kind = "vllm" /\ UNCHANGED <<fetched, prefix, filled>>
          /\ at' = IF opened' \subseteq fetched THEN "up" ELSE "refused"
      BY <1>9 DEF ShowView
    <2>3. WeightTypes' /\ WrittenFromOwn'
      BY <1>1, <1>2, <2>2 DEF WeightTypes, WrittenFromOwn
    <2>4. ASSUME Plain PROVE PlainGoesOn'
      <3>1. /\ need # {} => Enough(need)
            /\ print.index => need # {}
        BY <2>4, NeededIsEnough
      <3>2. Enough(fetched) /\ fetched # {} /\ need \subseteq fetched
        BY <2>2, <2>4 DEF PlainGoesOn
      <3>3. at' = "up" /\ opened' = IF need # {} THEN need ELSE fetched
        BY <2>1, <2>2, <3>1, <3>2
      <3>4. Enough(opened)'
        BY <1>3, <3>1, <3>2, <3>3 DEF Enough
      <3> QED
        BY <3>3, <3>4 DEF PlainGoesOn
    <2>5. PlainGoesOn'
      BY <1>2, <2>4 DEF PlainGoesOn
    <2> QED
      BY <2>3, <2>5
  <1> QED
    BY <1>4, <1>5, <1>6, <1>7, <1>8, <1>9 DEF WeightNext

(* A stage gets its own slice or none, and the part of a plain checkpoint     *)
(* that it downloads is all it needs: for every number of layers, of the      *)
(* model and of towers, every cut and every split into two files.             *)
THEOREM PartIsEnoughHolds == WeightSpec => []PartIsEnough
  <1>1. ASSUME WeightInv, UNCHANGED weightVars PROVE WeightInv'
    <2>1. UNCHANGED <<at, print, first, last, engine_kind, fetched, opened, prefix, filled>>
      BY <1>1 DEF weightVars
    <2>2. /\ Keys' = Keys /\ Files' = Files /\ Parameters' = Parameters /\ (Plain' <=> Plain)
          /\ (IsLast' <=> IsLast) /\ NeededFiles' = NeededFiles /\ KeysIn(opened)' = KeysIn(opened)
          /\ \A k : FileOf(k)' = FileOf(k)
          /\ \A k : Wanted_by(k, "text")' <=> Wanted_by(k, "text")
      BY <2>1 DEF Keys, Files, Parameters, Plain, Complete, IsLast, IsFirst, FileOf, Place, Wanted_by,
                  NeededFiles, Needed, Layered, Detected, Indices, KeysIn
    <2> QED
      BY <1>1, <2>1, <2>2 DEF WeightInv, WeightTypes, WrittenFromOwn, PlainGoesOn, Enough
  <1>2. ASSUME WeightInv PROVE PartIsEnough
    <2>1. ASSUME at = "up", engine_kind = "torch"
          PROVE  /\ \A p \in Parameters : \E w \in filled : w[1] = p
                 /\ \A w \in filled : w[1] = w[2] \/ (w = <<LmHead, Embed>> /\ print.tied)
      BY <1>2, <2>1 DEF WeightInv, WrittenFromOwn
    <2>2. ASSUME Plain
          PROVE  at # "refused" /\ (at = "up" /\ engine_kind = "vllm" => OwnTensors \subseteq KeysIn(opened))
      <3>1. at # "refused" /\ (at = "up" /\ engine_kind = "vllm" => Enough(opened))
        BY <1>2, <2>2 DEF WeightInv, PlainGoesOn
      <3>2. OwnTensors \subseteq Keys \intersect Parameters
        BY DEF OwnTensors, KeysIn
      <3> QED
        BY <1>2, <2>2, <3>1, <3>2, EnoughIsRead DEF WeightInv
    <2> QED
      BY <2>1, <2>2 DEF PartIsEnough, Plain
  <1> QED
    BY <1>1, <1>2, WeightsBegin, WeightsStep, PTL DEF WeightSpec

(* ------------------------------------------------------ a model is cut --- *)
LEMMA UptoStep ==
    \A n, s, i : n \in Nat /\ s \in [1 .. n -> Int] /\ i \in 1 .. n /\ s[i] \in Nat =>
        Upto(s, i - 1) \in Nat /\ Upto(s, i) = Upto(s, i - 1) + s[i]
  <1>a. SUFFICES ASSUME NEW n, NEW s, NEW i, n \in Nat, s \in [1 .. n -> Int], i \in 1 .. n, s[i] \in Nat
                 PROVE  Upto(s, i - 1) \in Nat /\ Upto(s, i) = Upto(s, i - 1) + s[i]
    OBVIOUS
  <1>0. PICK f, g : f = [k \in 1 .. i |-> s[k]] /\ g = [k \in 1 .. i - 1 |-> s[k]]
    OBVIOUS
  <1>1. f \in [1 .. i -> Int] /\ g \in [1 .. i - 1 -> Int] /\ f[i] = s[i]
    BY <1>a, <1>0
  <1>2. IsFiniteSet(1 .. i) /\ IsFiniteSet(1 .. i - 1)
    <2>1. 1 \in Int /\ i \in Int /\ i - 1 \in Int
      BY <1>a
    <2> QED
      BY <1>a, <2>1, FS_Interval
  <1>3. (1 .. i) \ {i} = 1 .. i - 1
    BY <1>a
  <1>5. SumOf(f) = f[i] + SumOf(g)
    <2>0. PICK S, x : S = 1 .. i /\ x = i
      OBVIOUS
    <2>1. IsFiniteSet(S) /\ f \in [S -> Int] /\ x \in S /\ f[x] \in Nat
      BY <1>a, <1>1, <1>2, <2>0
    <2>2. g \in [S \ {x} -> Int] /\ \A k \in S \ {x} : g[k] = f[k]
      BY <1>a, <1>0, <1>3, <2>0
    <2>3. SumOf(f) = f[x] + SumOf(g)
      BY <2>1, <2>2, SumAt
    <2> QED
      BY <1>a, <2>0, <2>3
  <1>6. SumOf(g) \in Nat
    BY <1>1, <1>2, UnitsFinite
  <1> QED
    BY <1>a, <1>0, <1>1, <1>5, <1>6 DEF Upto

LEMMA UptoNone == ASSUME NEW s PROVE Upto(s, 0) = 0
  <1>1. Units([k \in 1 .. 0 |-> s[k]]) = {}
    BY UnitsAre
  <1> QED
    BY <1>1, FS_EmptySet DEF Upto, SumOf

LEMMA NoneAbove ==
    \A n, s, k : n \in Nat /\ s \in [1 .. n -> Int] /\ k \in 1 .. n /\ s[k] \in Nat =>
        SumOf(s) \in Nat /\ s[k] <= SumOf(s)
  <1>a. SUFFICES ASSUME NEW n, NEW s, NEW k, n \in Nat, s \in [1 .. n -> Int], k \in 1 .. n, s[k] \in Nat
                 PROVE  SumOf(s) \in Nat /\ s[k] <= SumOf(s)
    OBVIOUS
  <1>1. IsFiniteSet(1 .. n)
    BY <1>a, FS_Interval
  <1>0. PICK g : g = [y \in (1 .. n) \ {k} |-> s[y]]
    OBVIOUS
  <1>2. SumOf(s) = s[k] + SumOf(g)
    <2>0. PICK S, f, x : S = 1 .. n /\ f = s /\ x = k
      OBVIOUS
    <2>1. IsFiniteSet(S) /\ f \in [S -> Int] /\ x \in S /\ f[x] \in Nat
      BY <1>a, <1>1, <2>0
    <2>2. g \in [S \ {x} -> Int] /\ \A y \in S \ {x} : g[y] = f[y]
      BY <1>a, <1>0, <2>0
    <2>3. SumOf(f) = f[x] + SumOf(g)
      BY <2>1, <2>2, SumAt
    <2> QED
      BY <1>a, <2>0, <2>3
  <1>3. IsFiniteSet((1 .. n) \ {k}) /\ g \in [(1 .. n) \ {k} -> Int]
    BY <1>a, <1>0, <1>1, FS_Difference
  <1>4. SumOf(g) \in Nat
    BY <1>3, UnitsFinite
  <1> QED
    BY <1>a, <1>2, <1>4

LEMMA BiggestIs ==
    ASSUME NEW n \in Nat, NEW s \in [1 .. n -> Int], NEW k \in 1 .. n, s[k] \in Nat
    PROVE  Biggest(s) \in 1 .. n /\ \A j \in 1 .. n : s[j] <= s[Biggest(s)]
  <1> DEFINE V == {s[j] : j \in {j \in 1 .. n : s[j] \in Nat}}
  <1>1. SumOf(s) \in Nat /\ V \in SUBSET (0 .. SumOf(s)) /\ V # {}
    <2>1. \A j \in 1 .. n : s[j] \in Nat => SumOf(s) \in Nat /\ s[j] <= SumOf(s)
      BY NoneAbove
    <2>2. s[k] \in V
      OBVIOUS
    <2> QED
      BY <2>1, <2>2
  <1>2. PICK v \in V : \A u \in V : u <= v
    <2> HIDE DEF V
    <2> QED
      BY <1>1, LastOf
  <1>3. v \in Nat /\ \A j \in 1 .. n : s[j] <= v
    <2>1. v \in Nat
      BY <1>1
    <2>2. ASSUME NEW j \in 1 .. n PROVE s[j] <= v
      <3>1. CASE s[j] \in Nat
        BY <1>2, <3>1
      <3>2. CASE s[j] \notin Nat
        BY <2>1, <3>2
      <3> QED
        BY <3>1, <3>2
    <2> QED
      BY <2>1, <2>2
  <1> DEFINE J == {j \in 1 .. n : s[j] = v}
  <1>4. J \in SUBSET Nat /\ J # {}
    OBVIOUS
  <1>5. PICK i \in J : \A j \in J : i <= j
    <2> HIDE DEF J
    <2> QED
      BY <1>4, LeastOf
  <1>6. i \in 1 .. n /\ \A j \in 1 .. n : s[j] < s[i] \/ (s[j] = s[i] /\ i <= j)
    BY <1>3, <1>5
  <1>7. DOMAIN s = 1 .. n
    OBVIOUS
  <1>8. Biggest(s) \in 1 .. n /\ \A j \in 1 .. n : s[j] < s[Biggest(s)] \/ (s[j] = s[Biggest(s)] /\ Biggest(s) <= j)
    <2>1. \E x \in 1 .. n : \A j \in 1 .. n : s[j] < s[x] \/ (s[j] = s[x] /\ x <= j)
      BY <1>6
    <2> QED
      BY <1>7, <2>1 DEF Biggest
  <1>9. ASSUME NEW j \in 1 .. n PROVE s[j] <= s[Biggest(s)]
    <2> PICK b : b = Biggest(s)
      OBVIOUS
    <2>1. b \in 1 .. n /\ (s[j] < s[b] \/ s[j] = s[b])
      BY <1>8
    <2>2. s[j] <= s[b]
      BY <2>1
    <2> QED
      BY <2>2
  <1> QED
    BY <1>8, <1>9

LEMMA LeastIs ==
    ASSUME NEW n \in Nat \ {0}, NEW s \in [1 .. n -> Nat \ {0}]
    PROVE  Least(s) \in Nat \ {0}
  <1>1. Range(s) \in SUBSET (Nat \ {0}) /\ Range(s) # {} /\ Range(s) \in SUBSET Nat
    BY DEF Range
  <1>2. \E x \in Range(s) : \A y \in Range(s) : x <= y
    BY <1>1, LeastOf
  <1> QED
    BY <1>1, <1>2 DEF Least

(* --------------------------------------------------------- between nodes --- *)
LEMMA SplitOK ==
    \A n, w, rest, S :
        n \in Nat \ {0} /\ w \in [1 .. n -> Nat \ {0}] /\ rest \in Nat /\ S \in Favoured(w, rest) =>
        /\ Shares(w, rest, S) \in [1 .. n -> Nat \ {0}] /\ SumOf(Shares(w, rest, S)) = n + rest
        /\ \A i, j \in 1 .. n : w[i] > w[j] => Shares(w, rest, S)[i] >= Shares(w, rest, S)[j]
  <1>a. SUFFICES ASSUME NEW n, NEW w, NEW rest, NEW S,
                        n \in Nat \ {0}, w \in [1 .. n -> Nat \ {0}], rest \in Nat, S \in Favoured(w, rest)
                 PROVE  /\ Shares(w, rest, S) \in [1 .. n -> Nat \ {0}] /\ SumOf(Shares(w, rest, S)) = n + rest
                        /\ \A i, j \in 1 .. n : w[i] > w[j] => Shares(w, rest, S)[i] >= Shares(w, rest, S)[j]
    OBVIOUS
  <1>1. IsFiniteSet(1 .. n) /\ Cardinality(1 .. n) = n /\ DOMAIN w = 1 .. n
    BY <1>a, FS_Interval
  <1>2. SumOf(w) \in Nat \ {0}
    <2>1. n \in Nat /\ w \in [1 .. n -> Int] /\ 1 \in 1 .. n /\ w[1] \in Nat /\ w[1] >= 1
      BY <1>a
    <2>2. SumOf(w) \in Nat /\ w[1] <= SumOf(w)
      BY <2>1, NoneAbove
    <2> QED
      BY <2>1, <2>2
  <1>20. PICK W : W = SumOf(w)
    OBVIOUS
  <1>21. PICK whole : whole = WholeShares(w, rest)
    OBVIOUS
  <1>22. PICK ones : ones = [i \in 1 .. n |-> IF i \in S THEN 1 ELSE 0]
    OBVIOUS
  <1>23. PICK each : each = [i \in 1 .. n |-> IF i \in 1 .. n THEN 1 ELSE 0]
    OBVIOUS
  <1>3. \A i \in 1 .. n : rest * w[i] \in Nat /\ whole[i] = (rest * w[i]) \div W /\ Tail_of(w, rest, i) = (rest * w[i]) % W
    BY <1>a, <1>1, <1>20, <1>21 DEF WholeShares, Tail_of
  <1>4. whole \in [1 .. n -> Nat]
    <2>1. \A a \in Nat : a \div W \in Nat
      <3>1. W \in Nat \ {0}
        BY <1>a, <1>2, <1>20
      <3> QED
        BY <3>1, ShareGrows
    <2>3. \A i \in 1 .. n : whole[i] \in Nat
      BY <1>a, <1>3, <2>1
    <2>2. whole = [i \in 1 .. n |-> whole[i]]
      BY <1>a, <1>1, <1>21 DEF WholeShares
    <2> QED
      BY <1>a, <2>2, <2>3
  <1>5. S \in SUBSET (1 .. n) /\ Cardinality(S) = rest - SumOf(whole)
        /\ \A i \in S, j \in (1 .. n) \ S : Tail_of(w, rest, i) >= Tail_of(w, rest, j)
    BY <1>a, <1>1, <1>21 DEF Favoured, Leftover
  <1>6. ones \in [1 .. n -> Nat] /\ each \in [1 .. n -> Nat]
    BY <1>a, <1>22, <1>23
  <1>7. SumOf(ones) = Cardinality(S)
    BY <1>1, <1>5, <1>6, <1>22, SumOnes
  <1>8. SumOf(each) = n
    BY <1>1, <1>6, <1>23, SumOnes
  <1>24. PICK two : two = [i \in 1 .. n |-> each[i] + whole[i]]
    OBVIOUS
  <1>9. two \in [1 .. n -> Nat] /\ SumOf(two) = n + SumOf(whole)
    <2>0. PICK D : D = 1 .. n
      OBVIOUS
    <2>1. IsFiniteSet(D) /\ each \in [D -> Nat] /\ whole \in [D -> Nat]
      BY <1>a, <1>1, <1>4, <1>6, <2>0
    <2>4. two \in [D -> Nat] /\ \A i \in D : two[i] = each[i] + whole[i]
      BY <1>4, <1>6, <1>24, <2>0
    <2>2. SumOf(two) = SumOf(each) + SumOf(whole)
      BY <2>1, <2>4, SumAdd
    <2>3. two \in [1 .. n -> Nat]
      BY <1>4, <1>6, <1>24
    <2> QED
      BY <1>a, <1>8, <2>2, <2>3
  <1>25. PICK sh : sh = Shares(w, rest, S)
    OBVIOUS
  <1>10. sh = [i \in 1 .. n |-> two[i] + ones[i]]
    <2>1. \A i \in 1 .. n : 1 + whole[i] + (IF i \in S THEN 1 ELSE 0) = two[i] + ones[i]
      BY <1>a, <1>4, <1>22, <1>23, <1>24
    <2> QED
      BY <1>a, <1>1, <1>21, <1>25, <2>1 DEF Shares
  <1>11. SumOf(sh) = SumOf(two) + SumOf(ones)
    <2>0. PICK D : D = 1 .. n
      OBVIOUS
    <2>1. IsFiniteSet(D) /\ two \in [D -> Nat] /\ ones \in [D -> Nat]
      BY <1>a, <1>1, <1>6, <1>9, <2>0
    <2>2. sh \in [D -> Nat] /\ \A i \in D : sh[i] = two[i] + ones[i]
      BY <1>6, <1>9, <1>10, <2>0
    <2>3. SumOf(sh) = SumOf(two) + SumOf(ones)
      BY <2>1, <2>2, SumAdd
    <2> QED
      BY <1>a, <2>3
  <1>12. SumOf(whole) \in Nat /\ SumOf(ones) \in Nat
    <2>1. whole \in [1 .. n -> Int] /\ ones \in [1 .. n -> Int]
      BY <1>a, <1>4, <1>6
    <2> QED
      BY <1>1, <2>1, UnitsFinite
  <1>13. SumOf(sh) = n + rest
    BY <1>a, <1>5, <1>7, <1>9, <1>11, <1>12
  <1>14. \A i \in 1 .. n : /\ whole[i] \in Nat /\ sh[i] \in Nat
                           /\ i \in S => sh[i] = whole[i] + 2
                           /\ i \notin S => sh[i] = whole[i] + 1
    BY <1>a, <1>4, <1>10, <1>22, <1>23, <1>24
  <1>0. \A x, y, z \in Nat : x < y /\ z # 0 => z * x < z * y
    BY <1>a, SMTT(30)
  <1>15. ASSUME NEW i \in 1 .. n, NEW j \in 1 .. n, w[i] > w[j] PROVE sh[i] >= sh[j]
    <2>1. PICK a, b : a = rest * w[j] /\ b = rest * w[i]
      OBVIOUS
    <2>2. a \in Nat /\ b \in Nat /\ a <= b /\ (rest # 0 => a < b)
      <3>1. CASE rest = 0
        BY <1>a, <2>1, <3>1
      <3>2. CASE rest # 0
        <4>1. rest * w[j] < rest * w[i]
          BY <1>a, <1>0, <1>15, <3>2
        <4> QED
          BY <1>a, <1>3, <2>1, <4>1
      <3> QED
        BY <1>a, <3>1, <3>2
    <2>3. /\ whole[j] <= whole[i] /\ whole[i] \in Nat /\ whole[j] \in Nat
          /\ whole[j] = whole[i] /\ a < b => a % W < b % W
          /\ a % W \in Nat /\ b % W \in Nat
      <3>1. W \in Nat \ {0} /\ whole[j] = a \div W /\ whole[i] = b \div W
        BY <1>a, <1>2, <1>3, <1>20, <2>1
      <3>2. a \div W <= b \div W /\ (a \div W = b \div W /\ a < b => a % W < b % W) /\ a % W \in Nat
        BY <2>2, <3>1, ShareGrows
      <3>3. b \in Nat /\ b <= b
        BY <1>a, <2>2
      <3>4. b % W \in Nat
        BY <3>1, <3>3, ShareGrows
      <3> QED
        BY <1>a, <1>14, <3>1, <3>2, <3>4
    <2>4. CASE whole[j] < whole[i]
      <3>1. whole[j] + 1 <= whole[i]
        BY <1>a, <2>3, <2>4
      <3>2. sh[j] <= whole[j] + 2 /\ sh[i] >= whole[i] + 1
        BY <1>14, <2>3
      <3>3. sh[i] \in Nat /\ sh[j] \in Nat
        BY <1>a, <1>14
      <3> QED
        BY <2>3, <3>1, <3>2, <3>3
    <2>5. CASE whole[j] = whole[i] /\ rest # 0
      <3>1. j \in S => i \in S
        <4>1. Tail_of(w, rest, j) = a % W /\ Tail_of(w, rest, i) = b % W
          BY <1>a, <1>3, <2>1
        <4>2. ~ (Tail_of(w, rest, j) >= Tail_of(w, rest, i))
          BY <1>a, <2>2, <2>3, <2>5, <4>1
        <4> QED
          BY <1>a, <1>5, <4>2
      <3> QED
        BY <1>a, <1>14, <2>3, <2>5, <3>1
    <2>6. CASE rest = 0
      <3>1. Cardinality(S) = 0
        BY <1>a, <1>5, <1>7, <1>12, <2>6
      <3>2. S = {}
        BY <1>a, <1>1, <1>5, <3>1, FS_Subset, FS_EmptySet
      <3> QED
        BY <1>a, <1>14, <2>3, <3>2
    <2> QED
      BY <1>a, <2>3, <2>4, <2>5, <2>6
  <1>16. sh \in [1 .. n -> Nat \ {0}]
    BY <1>4, <1>10, <1>14
  <1> QED
    BY <1>a, <1>13, <1>15, <1>16, <1>25

LEMMA RangesAre ==
    ASSUME NEW n \in Nat, NEW s \in [1 .. n -> Nat]
    PROVE  DOMAIN RangesOf(s) = 1 .. n /\ \A i \in 1 .. n : RangesOf(s)[i][2] - RangesOf(s)[i][1] = s[i]
  <1>1. s \in [1 .. n -> Int] /\ DOMAIN s = 1 .. n
    OBVIOUS
  <1>2. \A i \in 1 .. n : Upto(s, i - 1) \in Nat /\ Upto(s, i) = Upto(s, i - 1) + s[i]
    BY <1>1, UptoStep
  <1>3. \A i \in 1 .. n : RangesOf(s)[i] = <<Upto(s, i - 1), Upto(s, i)>>
    BY <1>1 DEF RangesOf
  <1>4. DOMAIN RangesOf(s) = 1 .. n
    BY <1>1 DEF RangesOf
  <1> QED
    BY <1>2, <1>3, <1>4

LEMMA LenIs == \A n, f : n \in Nat /\ f = [i \in 1 .. n |-> f[i]] => Len(f) = n
  <1>a. SUFFICES ASSUME NEW n, NEW f, n \in Nat, f = [i \in 1 .. n |-> f[i]] PROVE Len(f) = n
    OBVIOUS
  <1>0. PICK V : V = {f[i] : i \in 1 .. n}
    OBVIOUS
  <1>1. f \in [1 .. n -> V] /\ DOMAIN f = 1 .. n
    BY <1>a, <1>0
  <1>2. f \in Seq(V)
    BY <1>a, <1>1, SeqDef
  <1>3. Len(f) \in Nat /\ DOMAIN f = 1 .. Len(f)
    BY <1>2
  <1> QED
    BY <1>a, <1>1, <1>3

LEMMA VramIs ==
    \A e, b : b \in Box /\ told_of \in [Box -> Cards(2)] => Vram(e, b) \in Nat \ {0}
  <1>a. SUFFICES ASSUME NEW e, NEW b, b \in Box, told_of \in [Box -> Cards(2)] PROVE Vram(e, b) \in Nat \ {0}
    OBVIOUS
  <1>1. PICK t : t = told_of[b]
    OBVIOUS
  <1>2. t \in Cards(2)
    BY <1>a, <1>1
  <1>3. PICK n \in 1 .. 2 : t \in [1 .. n -> Amounts]
    BY <1>2 DEF Cards
  <1>4. n \in Nat \ {0} /\ n \in Nat /\ t \in [1 .. n -> Nat \ {0}] /\ t \in [1 .. n -> Int]
    <2>1. Amounts \subseteq Nat \ {0}
      BY CutAssumption
    <2>2. \A i \in 1 .. n : t[i] \in Nat \ {0}
      BY <1>3, <2>1
    <2>3. t = [i \in 1 .. n |-> t[i]]
      BY <1>3
    <2>4. t \in [1 .. n -> Nat \ {0}]
      BY <2>2, <2>3
    <2> QED
      BY <1>3, <2>4
  <1>5. Len(t) = n
    <2>1. t = [i \in 1 .. n |-> t[i]]
      BY <1>4
    <2> QED
      BY <1>4, <2>1, LenIs
  <1>6. Least(t) \in Nat \ {0}
    BY <1>4, LeastIs
  <1>7. SumOf(t) \in Nat \ {0}
    <2>1. 1 \in 1 .. n /\ t[1] \in Nat /\ t[1] >= 1
      BY <1>4
    <2>2. SumOf(t) \in Nat /\ t[1] <= SumOf(t)
      BY <1>4, <2>1, NoneAbove
    <2> QED
      BY <2>1, <2>2
  <1>8. \A x, y \in Nat \ {0} : x * y \in Nat \ {0}
    BY SMTT(30)
  <1>9. Len(t) * Least(t) \in Nat \ {0}
    BY <1>4, <1>5, <1>6, <1>8
  <1> QED
    BY <1>1, <1>7, <1>9 DEF Vram

(* ----------------------------------------------------- between the cards --- *)
Others(m, s, b) == [j \in (1 .. m) \ {b} |-> s[j]]

\* Every card but the biggest has a layer at least, and together they have all.
Fair(m, s, b, n) ==
    /\ b \in 1 .. m /\ s \in [1 .. m -> Int]
    /\ \A j \in (1 .. m) \ {b} : s[j] >= 1
    /\ SumOf(Others(m, s, b)) + s[b] = n

LEMMA OthersAre ==
    \A m, s, b : m \in Nat /\ s \in [1 .. m -> Int] /\ b \in 1 .. m =>
        /\ IsFiniteSet((1 .. m) \ {b}) /\ Cardinality((1 .. m) \ {b}) = m - 1
        /\ Others(m, s, b) \in [(1 .. m) \ {b} -> Int] /\ SumOf(Others(m, s, b)) \in Nat
        /\ s[b] \in Nat => SumOf(s) = s[b] + SumOf(Others(m, s, b))
  <1>a. SUFFICES ASSUME NEW m, NEW s, NEW b, m \in Nat, s \in [1 .. m -> Int], b \in 1 .. m
                 PROVE  /\ IsFiniteSet((1 .. m) \ {b}) /\ Cardinality((1 .. m) \ {b}) = m - 1
                        /\ Others(m, s, b) \in [(1 .. m) \ {b} -> Int] /\ SumOf(Others(m, s, b)) \in Nat
                        /\ s[b] \in Nat => SumOf(s) = s[b] + SumOf(Others(m, s, b))
    OBVIOUS
  <1>0. PICK S, f, x, g : S = 1 .. m /\ f = s /\ x = b /\ g = Others(m, s, b)
    OBVIOUS
  <1>1. IsFiniteSet(1 .. m) /\ Cardinality(1 .. m) = m
    BY <1>a, FS_Interval
  <1>2. IsFiniteSet(S) /\ Cardinality(S) = m /\ x \in S
    BY <1>a, <1>0, <1>1
  <1>3. IsFiniteSet(S \ {x}) /\ Cardinality(S \ {x}) = Cardinality(S) - 1
    BY <1>2, FS_RemoveElement
  <1>4. f \in [S -> Int] /\ g = [y \in S \ {x} |-> f[y]]
    BY <1>a, <1>0 DEF Others
  <1>5. g \in [S \ {x} -> Int] /\ \A y \in S \ {x} : g[y] = f[y]
    BY <1>4
  <1>6. SumOf(g) \in Nat
    BY <1>3, <1>5, UnitsFinite
  <1>7. f[x] \in Nat => SumOf(f) = f[x] + SumOf(g)
    BY <1>2, <1>4, <1>5, SumAt
  <1> QED
    BY <1>0, <1>2, <1>3, <1>5, <1>6, <1>7

LEMMA RoundedIs == \A a, b : a \in Nat /\ b \in Nat \ {0} => AtLeast(1, Rounded(a, b)) \in Nat \ {0}
  <1>a. SUFFICES ASSUME NEW a, NEW b, a \in Nat, b \in Nat \ {0} PROVE AtLeast(1, Rounded(a, b)) \in Nat \ {0}
    OBVIOUS
  <1>1. a \div b \in Nat
    BY <1>a, a <= a, ShareGrows
  <1>2. Rounded(a, b) = a \div b \/ Rounded(a, b) = a \div b + 1
    BY DEF Rounded
  <1> QED
    BY <1>1, <1>2 DEF AtLeast

LEMMA FairStart ==
    \A n, m, w : n \in Nat \ {0} /\ m \in Nat \ {0} /\ w \in [1 .. m -> Nat \ {0}] =>
        Fair(m, CardShares(n, w), Biggest(w), n)
  <1>a. SUFFICES ASSUME NEW n, NEW m, NEW w, n \in Nat \ {0}, m \in Nat \ {0}, w \in [1 .. m -> Nat \ {0}]
                 PROVE  Fair(m, CardShares(n, w), Biggest(w), n)
    OBVIOUS
  <1>1. m \in Nat /\ w \in [1 .. m -> Int] /\ 1 \in 1 .. m /\ w[1] \in Nat /\ w[1] >= 1 /\ DOMAIN w = 1 .. m
    BY <1>a
  <1>2. PICK W : W = SumOf(w)
    OBVIOUS
  <1>3. W \in Nat \ {0}
    <2>1. SumOf(w) \in Nat /\ w[1] <= SumOf(w)
      BY <1>1, NoneAbove
    <2> QED
      BY <1>1, <1>2, <2>1
  <1>4. PICK b : b = Biggest(w)
    OBVIOUS
  <1>5. b \in 1 .. m
    BY <1>1, <1>4, BiggestIs
  <1>6. PICK rounded : rounded = FirstShares(n, w)
    OBVIOUS
  <1>7. rounded \in [1 .. m -> Nat \ {0}]
    <2>1. \A i \in 1 .. m : n * w[i] \in Nat
      BY <1>a, SMTT(30)
    <2>2. \A i \in 1 .. m : AtLeast(1, Rounded(n * w[i], W)) \in Nat \ {0}
      BY <1>3, <2>1, RoundedIs
    <2>3. rounded = [i \in 1 .. m |-> AtLeast(1, Rounded(n * w[i], W))]
      BY <1>1, <1>2, <1>6 DEF FirstShares
    <2> QED
      BY <2>2, <2>3
  <1>8. rounded \in [1 .. m -> Int] /\ rounded[b] \in Nat
    BY <1>5, <1>7
  <1>9. SumOf(rounded) = rounded[b] + SumOf(Others(m, rounded, b)) /\ SumOf(Others(m, rounded, b)) \in Nat
    BY <1>1, <1>5, <1>8, OthersAre
  <1>10. PICK s : s = CardShares(n, w)
    OBVIOUS
  <1>11. s = [rounded EXCEPT ![b] = rounded[b] + n - SumOf(rounded)]
    BY <1>4, <1>6, <1>10 DEF CardShares
  <1>12. rounded[b] + n - SumOf(rounded) \in Int
    BY <1>a, <1>8, <1>9
  <1>13. s \in [1 .. m -> Int] /\ s[b] = rounded[b] + n - SumOf(rounded) /\ \A j \in (1 .. m) \ {b} : s[j] = rounded[j]
    BY <1>5, <1>8, <1>11, <1>12
  <1>14. Others(m, s, b) = Others(m, rounded, b)
    BY <1>13 DEF Others
  <1>15. SumOf(Others(m, s, b)) + s[b] = n
    BY <1>a, <1>8, <1>9, <1>13, <1>14
  <1>16. \A j \in (1 .. m) \ {b} : s[j] >= 1
    BY <1>7, <1>13
  <1> QED
    BY <1>4, <1>5, <1>10, <1>13, <1>15, <1>16 DEF Fair

\* With no fewer layers than cards the biggest always finds a card that has
\* two, and it is another one.
LEMMA DonorHasTwo ==
    \A m, s, b, n : m \in Nat /\ n \in Nat /\ Fair(m, s, b, n) /\ m <= n /\ s[b] < 1 =>
        Biggest(s) \in (1 .. m) \ {b} /\ s[Biggest(s)] >= 2
  <1>a. SUFFICES ASSUME NEW m, NEW s, NEW b, NEW n, m \in Nat, n \in Nat, Fair(m, s, b, n), m <= n, s[b] < 1
                 PROVE  Biggest(s) \in (1 .. m) \ {b} /\ s[Biggest(s)] >= 2
    OBVIOUS
  <1>1. b \in 1 .. m /\ s \in [1 .. m -> Int] /\ (\A j \in (1 .. m) \ {b} : s[j] >= 1)
        /\ SumOf(Others(m, s, b)) + s[b] = n
    BY <1>a DEF Fair
  <1>0. PICK S, g : S = (1 .. m) \ {b} /\ g = Others(m, s, b)
    OBVIOUS
  <1>2. IsFiniteSet(S) /\ Cardinality(S) = m - 1 /\ g \in [S -> Int] /\ SumOf(g) \in Nat
    BY <1>a, <1>0, <1>1, OthersAre
  <1>3. s[b] \in Int
    BY <1>1
  <1>4. SumOf(g) >= m
    BY <1>a, <1>0, <1>1, <1>2, <1>3
  <1>5. \E j \in S : g[j] >= 2
    <2>a. SUFFICES ASSUME ~ \E j \in S : g[j] >= 2 PROVE FALSE
      OBVIOUS
    <2>1. \A j \in S : g[j] <= 1
      BY <1>2, <2>a
    <2>2. 1 \in Nat
      OBVIOUS
    <2>3. PICK k : k = 1
      OBVIOUS
    <2>4. k \in Nat /\ \A j \in S : g[j] <= k
      BY <2>1, <2>3
    <2>5. SumOf(g) <= Cardinality(S) * k
      BY <1>2, <2>4, SumBound
    <2> QED
      BY <1>a, <1>2, <1>4, <2>3, <2>5
  <1>6. PICK j \in S : g[j] >= 2
    BY <1>5
  <1>7. j \in 1 .. m /\ s[j] \in Nat /\ s[j] >= 2
    BY <1>0, <1>1, <1>6 DEF Others
  <1>8. Biggest(s) \in 1 .. m /\ \A i \in 1 .. m : s[i] <= s[Biggest(s)]
    BY <1>a, <1>1, <1>7, BiggestIs
  <1>9. PICK d : d = Biggest(s)
    OBVIOUS
  <1>10. d \in 1 .. m /\ s[j] <= s[d]
    BY <1>7, <1>8, <1>9
  <1>11. s[d] \in Int /\ s[d] >= 2
    BY <1>1, <1>7, <1>10
  <1>12. d # b
    BY <1>a, <1>3, <1>11
  <1> QED
    BY <1>9, <1>10, <1>11, <1>12

LEMMA FairStays ==
    \A m, s, b, n, d : m \in Nat /\ Fair(m, s, b, n) /\ d \in (1 .. m) \ {b} /\ s[d] >= 2 =>
        Fair(m, [s EXCEPT ![d] = s[d] - 1, ![b] = s[b] + 1], b, n)
  <1>a. SUFFICES ASSUME NEW m, NEW s, NEW b, NEW n, NEW d,
                        m \in Nat, Fair(m, s, b, n), d \in (1 .. m) \ {b}, s[d] >= 2
                 PROVE  Fair(m, [s EXCEPT ![d] = s[d] - 1, ![b] = s[b] + 1], b, n)
    OBVIOUS
  <1>1. b \in 1 .. m /\ s \in [1 .. m -> Int] /\ (\A j \in (1 .. m) \ {b} : s[j] >= 1)
        /\ SumOf(Others(m, s, b)) + s[b] = n
    BY <1>a DEF Fair
  <1>2. PICK t : t = [s EXCEPT ![d] = s[d] - 1, ![b] = s[b] + 1]
    OBVIOUS
  <1>3. s[d] \in Int /\ s[b] \in Int /\ d \in 1 .. m /\ d # b
    BY <1>a, <1>1
  <1>4. s[d] - 1 \in Nat /\ s[d] \in Nat /\ s[b] + 1 \in Int
    BY <1>a, <1>3
  <1>5. t \in [1 .. m -> Int] /\ t[d] = s[d] - 1 /\ t[b] = s[b] + 1 /\ \A j \in (1 .. m) \ {b, d} : t[j] = s[j]
    BY <1>1, <1>2, <1>3, <1>4
  <1>6. \A j \in (1 .. m) \ {b} : t[j] >= 1
    <2>1. t[d] >= 1
      BY <1>a, <1>3, <1>5
    <2>2. \A j \in (1 .. m) \ {b, d} : t[j] >= 1
      BY <1>1, <1>5
    <2> QED
      BY <2>1, <2>2
  <1>0. PICK S, x, f, g, h : /\ S = (1 .. m) \ {b} /\ x = d /\ f = Others(m, s, b) /\ g = Others(m, t, b)
                             /\ h = [y \in S \ {x} |-> f[y]]
    OBVIOUS
  <1>7. IsFiniteSet(S) /\ f \in [S -> Int] /\ g \in [S -> Int] /\ SumOf(f) \in Nat /\ SumOf(g) \in Nat
    BY <1>a, <1>0, <1>1, <1>5, OthersAre
  <1>8. x \in S /\ f[x] = s[d] /\ g[x] = s[d] - 1
    BY <1>a, <1>0, <1>5 DEF Others
  <1>9. h \in [S \ {x} -> Int] /\ \A y \in S \ {x} : h[y] = f[y]
    BY <1>0, <1>7
  <1>10. \A y \in S \ {x} : h[y] = g[y]
    BY <1>0, <1>5, <1>9 DEF Others
  <1>11. f[x] \in Nat /\ g[x] \in Nat
    BY <1>4, <1>8
  <1>12. SumOf(f) = f[x] + SumOf(h)
    <2>1. IsFiniteSet(S) /\ f \in [S -> Int] /\ x \in S /\ f[x] \in Nat
      BY <1>7, <1>8, <1>11
    <2> QED
      BY <1>9, <2>1, SumAt
  <1>13. SumOf(g) = g[x] + SumOf(h)
    BY <1>7, <1>8, <1>9, <1>10, <1>11, SumAt
  <1>14. SumOf(h) \in Nat
    <2>1. IsFiniteSet(S \ {x})
      BY <1>7, FS_Difference
    <2> QED
      BY <1>9, <2>1, UnitsFinite
  <1>15. SumOf(g) + t[b] = n
    <2>1. SumOf(f) + s[b] = n
      BY <1>0, <1>1
    <2> QED
      BY <1>3, <1>4, <1>5, <1>8, <1>12, <1>13, <1>14, <2>1
  <1> QED
    BY <1>0, <1>1, <1>2, <1>5, <1>6, <1>15 DEF Fair

\* A rounded card that has a layer has the rounded layer.
LEMMA FirstIsHome ==
    \A m, s, n : m \in Nat \ {0} /\ n \in Nat \ {0} /\ s \in [1 .. m -> Int] /\ s[1] >= 1 => PlanCards(n, s)[1] = 1
  <1>a. SUFFICES ASSUME NEW m, NEW s, NEW n, m \in Nat \ {0}, n \in Nat \ {0}, s \in [1 .. m -> Int], s[1] >= 1
                 PROVE  PlanCards(n, s)[1] = 1
    OBVIOUS
  <1>1. 1 \in 1 .. m /\ s[1] \in Nat /\ DOMAIN s = 1 .. m /\ 1 \in 1 .. n /\ m \in Nat
    BY <1>a
  <1>2. Upto(s, 0) = 0 /\ Upto(s, 1) = s[1]
    <2>1. Upto(s, 1 - 1) \in Nat /\ Upto(s, 1) = Upto(s, 1 - 1) + s[1]
      BY <1>a, <1>1, UptoStep
    <2> QED
      BY <1>1, <2>1, UptoNone
  <1>3. \A c \in 1 .. m : c # 1 => ~ Upto(s, c - 1) < 1
    <2>a. SUFFICES ASSUME NEW c, c \in 1 .. m, c # 1 PROVE Upto(s, 1) <= Upto(s, c - 1) /\ Upto(s, c - 1) \in Nat
      <3>1. s[1] \in Nat /\ s[1] >= 1 /\ Upto(s, 1) = s[1]
        BY <1>a, <1>1, <1>2
      <3> QED
        BY <3>1
    <2>0. PICK A, B, f, g : A = 1 .. 1 /\ B = 1 .. c - 1 /\ f = [k \in 1 .. 1 |-> s[k]] /\ g = [k \in 1 .. c - 1 |-> s[k]]
      OBVIOUS
    <2>1. IsFiniteSet(1 .. c - 1)
      <3>1. 1 \in Int /\ c - 1 \in Int
        BY <2>a
      <3> QED
        BY <3>1, FS_Interval
    <2>2. f \in [A -> Int] /\ g \in [B -> Int] /\ A \subseteq B /\ (\A x \in A : f[x] <= g[x]) /\ IsFiniteSet(B)
      BY <1>a, <1>1, <2>a, <2>0, <2>1
    <2>3. SumOf(f) <= SumOf(g)
      BY <2>2, SumLess
    <2>4. SumOf(g) \in Nat
      BY <2>2, UnitsFinite
    <2> QED
      BY <2>0, <2>3, <2>4 DEF Upto
  <1>4. \A c \in 1 .. m : Upto(s, c - 1) < 1 /\ 1 <= Upto(s, c) <=> c = 1
    BY <1>a, <1>1, <1>2, <1>3
  <1>5. (CHOOSE c \in 1 .. m : Upto(s, c - 1) < 1 /\ 1 <= Upto(s, c)) = 1
    BY <1>1, <1>4
  <1> QED
    BY <1>1, <1>5 DEF PlanCards

LEMMA FairIsHome ==
    \A m, s, b, n : m \in Nat \ {0} /\ n \in Nat \ {0} /\ Fair(m, s, b, n) /\ s[b] >= 1 => PlanCards(n, s)[1] = 1
  <1>a. SUFFICES ASSUME NEW m, NEW s, NEW b, NEW n, m \in Nat \ {0}, n \in Nat \ {0}, Fair(m, s, b, n), s[b] >= 1
                 PROVE  PlanCards(n, s)[1] = 1
    OBVIOUS
  <1>1. s \in [1 .. m -> Int] /\ s[1] >= 1
    BY <1>a DEF Fair
  <1> QED
    BY <1>a, <1>1, FirstIsHome

(* -------------------------------------------------------------- the cut --- *)
SharesOK ==
    LET m == Len(measured) IN
    /\ m \in Nat \ {0} /\ slice \in Nat \ {0} /\ measured \in [1 .. m -> Nat \ {0}]
    /\ m <= slice => Fair(m, share, Biggest(measured), slice)

CutInv ==
    /\ phase = "asked" => told_of \in [Box -> Cards(2)] /\ depth \in Nat \ {0}
    /\ phase # "cut" => ranges = <<>>
    /\ phase = "cut" => \A k \in DOMAIN ranges : ranges[k][2] - ranges[k][1] \in Nat \ {0}
    /\ phase = "sent" => slice \in Nat \ {0}
    /\ phase = "sharing" => SharesOK
    /\ phase = "raised" => layer_card[1] = 1 \/ Len(layer_card) < Len(measured)
    /\ RoomIsHeeded /\ EntersAtHome

LEMMA CutInitInv == ASSUME CutInit PROVE CutInv
  <1>1. phase = "asked" /\ depth \in Depths /\ told_of \in [Box -> Cards(2)] /\ ranges = <<>>
    BY DEF CutInit
  <1>2. depth \in Nat \ {0}
    <2>1. Depths \subseteq Nat \ {0}
      BY CutAssumption
    <2> QED
      BY <1>1, <2>1
  <1> QED
    BY <1>1, <1>2 DEF CutInv, RoomIsHeeded, EntersAtHome

LEMMA CutModelStep == ASSUME CutInv, CutModel PROVE CutInv'
  <1>1. phase = "asked" /\ phase' = "cut" /\ told_of' = told_of /\ depth' = depth
    BY DEF CutModel
  <1>2. told_of \in [Box -> Cards(2)] /\ depth \in Nat \ {0}
    BY <1>1 DEF CutInv
  <1>a. PICK kind_of \in {"torch", "vllm"}, by, named \in BOOLEAN, n \in 1 .. Cardinality(Box) :
        \E s \in IF named THEN Named(n) ELSE Orders(n) :
           /\ n <= depth
           /\ engine_of' = kind_of /\ by_vram' = by /\ chosen' = s
           /\ \E S \in Favoured(Weights(kind_of, by, s), depth - n) :
                 ranges' = RangesOf(Shares(Weights(kind_of, by, s), depth - n, S))
    BY DEF CutModel
  <1>b. PICK s \in IF named THEN Named(n) ELSE Orders(n) :
           /\ n <= depth
           /\ engine_of' = kind_of /\ by_vram' = by /\ chosen' = s
           /\ \E S \in Favoured(Weights(kind_of, by, s), depth - n) :
                 ranges' = RangesOf(Shares(Weights(kind_of, by, s), depth - n, S))
    BY <1>a
  <1>c. PICK w, rest : w = Weights(kind_of, by, s) /\ rest = depth - n
    OBVIOUS
  <1>d. PICK S \in Favoured(w, rest) : ranges' = RangesOf(Shares(w, rest, S))
    BY <1>b, <1>c
  <1>e. PICK sh : sh = Shares(w, rest, S)
    OBVIOUS
  <1>3. n \in Nat \ {0} /\ n \in Nat /\ rest \in Nat /\ n + rest = depth
    <2>1. Cardinality(Box) \in Nat
      BY CutAssumption, FS_CardinalityType
    <2> QED
      BY <1>2, <1>b, <1>c, <2>1
  <1>4. s \in [1 .. n -> Box]
    BY <1>b DEF Named, Orders
  <1>5. w = [i \in 1 .. n |-> IF by THEN Vram(kind_of, s[i]) ELSE 1]
    BY <1>4, <1>c DEF Weights
  <1>6. \A i \in 1 .. n : Vram(kind_of, s[i]) \in Nat \ {0}
    BY <1>2, <1>4, VramIs
  <1>7. w \in [1 .. n -> Nat \ {0}]
    BY <1>5, <1>6
  <1>8. /\ sh \in [1 .. n -> Nat \ {0}] /\ SumOf(sh) = depth
        /\ \A i, j \in 1 .. n : w[i] > w[j] => sh[i] >= sh[j]
    BY <1>3, <1>7, <1>d, <1>e, SplitOK
  <1>9. sh \in [1 .. n -> Nat]
    BY <1>8
  <1>10. PICK r : r = ranges'
    OBVIOUS
  <1>11. DOMAIN r = 1 .. n /\ \A i \in 1 .. n : r[i][2] - r[i][1] = sh[i]
    BY <1>3, <1>9, <1>10, <1>d, <1>e, RangesAre
  <1>12. \A k \in DOMAIN r : r[k][2] - r[k][1] \in Nat \ {0}
    BY <1>8, <1>11
  <1>13. PICK size : size = [i \in DOMAIN r |-> r[i][2] - r[i][1]]
    OBVIOUS
  <1>14. size = sh
    <2>1. sh = [i \in 1 .. n |-> sh[i]]
      BY <1>8
    <2> QED
      BY <1>11, <1>13, <2>1
  <1>15. ASSUME NEW i \in 1 .. n, NEW j \in 1 .. n, by, Vram(kind_of, s[i]) > Vram(kind_of, s[j])
         PROVE  sh[i] >= sh[j]
    <2>1. w[i] > w[j]
      BY <1>5, <1>15
    <2> QED
      BY <1>8, <2>1
  <1>16. RoomIsHeeded'
    <2>2. SumOf(size) = depth'
      BY <1>1, <1>8, <1>14
    <2>3. \A i, j \in DOMAIN r :
             by_vram' /\ Vram(engine_of, chosen[i])' > Vram(engine_of, chosen[j])' => size[i] >= size[j]
      <3>1. SUFFICES ASSUME NEW i \in DOMAIN r, NEW j \in DOMAIN r, by_vram',
                            Vram(engine_of, chosen[i])' > Vram(engine_of, chosen[j])'
                     PROVE  size[i] >= size[j]
        OBVIOUS
      <3>2. Vram(kind_of, s[i]) > Vram(kind_of, s[j])
        BY <1>1, <1>b, <3>1 DEF Vram
      <3> QED
        BY <1>11, <1>14, <1>15, <1>b, <3>1, <3>2
    <2> QED
      BY <1>10, <1>13, <2>2, <2>3 DEF RoomIsHeeded
  <1> QED
    BY <1>1, <1>10, <1>12, <1>16 DEF CutInv, EntersAtHome

LEMMA SendStep == ASSUME CutInv, NEW k \in DOMAIN ranges, Send(k) PROVE CutInv'
  <1>1. phase = "cut" /\ phase' = "sent" /\ slice' = ranges[k][2] - ranges[k][1] /\ ranges' = <<>>
    BY DEF Send
  <1>2. slice' \in Nat \ {0}
    BY <1>1 DEF CutInv
  <1> QED
    BY <1>1, <1>2 DEF CutInv, RoomIsHeeded, EntersAtHome

LEMMA RaiseStep == ASSUME CutInv, Raise PROVE CutInv'
  <1>1. phase = "sent" /\ phase' = "sharing" /\ slice' = slice /\ ranges' = ranges
    BY DEF Raise
  <1>2. slice \in Nat \ {0} /\ ranges = <<>>
    BY <1>1 DEF CutInv
  <1>3. PICK t \in Cards(MaxCards) : measured' = t /\ share' = CardShares(slice, t)
    BY DEF Raise
  <1>4. PICK m \in 1 .. MaxCards : t \in [1 .. m -> Amounts]
    BY DEF Cards
  <1>5. m \in Nat \ {0} /\ m \in Nat
    <2>1. MaxCards \in Nat
      BY CutAssumption
    <2> QED
      BY <2>1
  <1>6. t \in [1 .. m -> Nat \ {0}]
    <2>1. Amounts \subseteq Nat \ {0}
      BY CutAssumption
    <2>2. \A i \in 1 .. m : t[i] \in Nat \ {0}
      BY <1>4, <2>1
    <2>3. t = [i \in 1 .. m |-> t[i]]
      BY <1>4
    <2> QED
      BY <2>2, <2>3
  <1>7. Len(t) = m
    <2>1. t = [i \in 1 .. m |-> t[i]]
      BY <1>6
    <2> QED
      BY <1>5, <2>1, LenIs
  <1>8. Fair(m, CardShares(slice, t), Biggest(t), slice)
    BY <1>2, <1>5, <1>6, FairStart
  <1>9. SharesOK'
    BY <1>1, <1>2, <1>3, <1>5, <1>6, <1>7, <1>8 DEF SharesOK
  <1> QED
    BY <1>1, <1>2, <1>9 DEF CutInv, RoomIsHeeded, EntersAtHome

LEMMA ShareStep == ASSUME CutInv, Share PROVE CutInv'
  <1>1. phase = "sharing" /\ measured' = measured /\ slice' = slice /\ ranges' = ranges
    BY DEF Share
  <1>2. SharesOK /\ ranges = <<>>
    BY <1>1 DEF CutInv
  <1>c. PICK m, big, d, s, n : m = Len(measured) /\ big = Biggest(measured) /\ d = Biggest(share) /\ s = share /\ n = slice
    OBVIOUS
  <1>3. m \in Nat \ {0} /\ m \in Nat /\ n \in Nat \ {0} /\ n \in Nat /\ (m <= n => Fair(m, s, big, n))
    BY <1>2, <1>c DEF SharesOK
  <1>4. CASE s[big] < 1 /\ d # big
    <2>1. /\ share' = [s EXCEPT ![d] = s[d] - 1, ![big] = s[big] + 1]
          /\ phase' = "sharing"
      BY <1>1, <1>4, <1>c DEF Share
    <2>2. m <= n => Fair(m, share', big, n)
      BY <1>3, <1>4, <1>c, <2>1, DonorHasTwo, FairStays
    <2>3. SharesOK'
      BY <1>1, <1>2, <1>c, <2>2 DEF SharesOK
    <2> QED
      BY <1>1, <1>2, <2>1, <2>3 DEF CutInv, RoomIsHeeded, EntersAtHome
  <1>5. CASE ~ (s[big] < 1 /\ d # big)
    <2>1. phase' = "raised" /\ layer_card' = PlanCards(n, s)
      BY <1>1, <1>5, <1>c DEF Share
    <2>2. CASE m <= n
      <3>1. Fair(m, s, big, n)
        BY <1>3, <2>2
      <3>2. s[big] >= 1
        <4>1. s[big] \in Int
          BY <3>1 DEF Fair
        <4>2. ~ s[big] < 1
          BY <1>3, <1>5, <1>c, <2>2, <3>1, DonorHasTwo
        <4> QED
          BY <4>1, <4>2
      <3>3. PlanCards(n, s)[1] = 1
        BY <1>3, <3>1, <3>2, FairIsHome
      <3> QED
        BY <1>1, <1>2, <2>1, <3>3 DEF CutInv, RoomIsHeeded, EntersAtHome
    <2>3. CASE ~ (m <= n)
      <3>0. PICK p : p = PlanCards(n, s)
        OBVIOUS
      <3>1. p = [i \in 1 .. n |-> p[i]]
        BY <3>0 DEF PlanCards
      <3>2. Len(p) = n
        BY <1>3, <3>1, LenIs
      <3>3. Len(layer_card') < Len(measured')
        BY <1>1, <1>3, <1>c, <2>1, <2>3, <3>0, <3>2
      <3> QED
        BY <1>1, <1>2, <2>1, <3>3 DEF CutInv, RoomIsHeeded, EntersAtHome
    <2> QED
      BY <2>2, <2>3
  <1> QED
    BY <1>4, <1>5

LEMMA CutStep == ASSUME CutInv, [CutNext]_cutVars PROVE CutInv'
  <1>1. CASE CutModel
    BY <1>1, CutModelStep
  <1>2. CASE RefuseCut
    BY <1>2 DEF CutInv, RefuseCut, RoomIsHeeded, EntersAtHome
  <1>3. CASE \E k \in DOMAIN ranges : Send(k)
    BY <1>3, SendStep
  <1>4. CASE Raise
    BY <1>4, RaiseStep
  <1>5. CASE Share
    BY <1>5, ShareStep
  <1>6. CASE Forward
    BY <1>6 DEF CutInv, Forward, RoomIsHeeded, EntersAtHome
  <1>7. CASE UNCHANGED cutVars
    BY <1>7 DEF CutInv, cutVars, RoomIsHeeded, EntersAtHome, SharesOK, Vram
  <1> QED
    BY <1>1, <1>2, <1>3, <1>4, <1>5, <1>6, <1>7 DEF CutNext

LEMMA CutInvariant == CutSpec => []CutInv
  <1> QED
    BY CutInitInv, CutStep, PTL DEF CutSpec

\* RoomIsHeeded, for every number of nodes, of layers and of bytes.
THEOREM RoomIsHeededHolds == CutSpec => []RoomIsHeeded
  <1>1. CutInv => RoomIsHeeded
    BY DEF CutInv
  <1> QED
    BY <1>1, CutInvariant, PTL

\* EntersAtHome, whatever the stage measures and however many cards it has.
THEOREM EntersAtHomeHolds == CutSpec => []EntersAtHome
  <1>1. CutInv => EntersAtHome
    BY DEF CutInv
  <1> QED
    BY <1>1, CutInvariant, PTL
=============================================================================
