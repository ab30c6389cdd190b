----------------------------- MODULE LinksProofs -----------------------------
(* Proofs about what passes between nodes, for any number of messages, calls  *)
(* or connections and any bounds:                                             *)
(* Links implements Delivery, what goes over one path keeps its order,        *)
(* tunnels leave nothing open, and answers do not cross.                      *)
EXTENDS Links, Tunnels, Replies, SequenceTheorems, FiniteSetTheorems, TLAPS

(* --------------------------------------------------------------- queues --- *)
(* Those of S that are in q come in the order they were sent; none comes      *)
(* twice.                                                                     *)
InOrder(q, S) == \A i, j \in 1 .. Len(q) : i < j /\ q[i] \in S /\ q[j] \in S => q[i] < q[j]
NoneTwice(q) == \A i, j \in 1 .. Len(q) : q[i] = q[j] => i = j
Times(q, m) == Cardinality({i \in DOMAIN q : q[i] = m})

LEMMA QueueEmpty == Range(<<>>) = {} /\ NoneTwice(<<>>) /\ \A S : InOrder(<<>>, S)
  BY DEF Range, InOrder, NoneTwice

LEMMA QueueRange ==
    ASSUME NEW q \in Seq(Msg)
    PROVE  /\ Range(q) \subseteq Msg /\ Range(q) = {q[i] : i \in 1 .. Len(q)}
           /\ q # <<>> => q[1] = Head(q) /\ Head(q) \in Range(q)
  BY LenProperties, ElementOfSeq, EmptySeq DEF Range

LEMMA QueueAppend ==
    ASSUME NEW q \in Seq(Msg), NEW m \in Msg
    PROVE  /\ Append(q, m) \in Seq(Msg)
           /\ Range(Append(q, m)) = Range(q) \union {m}
           /\ NoneTwice(q) /\ m \notin Range(q) => NoneTwice(Append(q, m))
           /\ \A S : InOrder(q, S) /\ (m \in S => \A x \in Range(q) \cap S : x < m)
                        => InOrder(Append(q, m), S)
  <1> DEFINE a == Append(q, m)
  <1>1. /\ a \in Seq(Msg) /\ Len(a) = Len(q) + 1 /\ Len(q) \in Nat
        /\ \A i \in 1 .. Len(q) : a[i] = q[i]
        /\ a[Len(q) + 1] = m
    BY AppendProperties, LenProperties
  <1> HIDE DEF a
  <1>2. 1 .. Len(a) = (1 .. Len(q)) \union {Len(q) + 1}
    BY <1>1
  <1>3. Range(a) = Range(q) \union {m}
    BY <1>1, <1>2, QueueRange
  <1>4. ASSUME NoneTwice(q), m \notin Range(q) PROVE NoneTwice(a)
    <2>1. \A i \in 1 .. Len(q) : q[i] # m
      BY <1>4, QueueRange
    <2> QED
      BY <1>1, <1>2, <1>4, <2>1 DEF NoneTwice
  <1>5. ASSUME NEW S, InOrder(q, S), m \in S => \A x \in Range(q) \cap S : x < m
        PROVE  InOrder(a, S)
    <2> SUFFICES ASSUME NEW i \in 1 .. Len(a), NEW j \in 1 .. Len(a),
                        i < j, a[i] \in S, a[j] \in S
                 PROVE  a[i] < a[j]
      BY DEF InOrder
    <2>1. i \in 1 .. Len(q) /\ a[i] = q[i]
      BY <1>1, <1>2
    <2>2. CASE j = Len(q) + 1
      <3>1. q[i] \in Range(q) \cap S
        BY <2>1, QueueRange
      <3> QED
        BY <1>1, <1>5, <2>1, <2>2, <3>1
    <2>3. CASE j \in 1 .. Len(q)
      BY <1>1, <1>5, <2>1, <2>3 DEF InOrder
    <2> QED
      BY <1>2, <2>2, <2>3
  <1> QED
    BY <1>1, <1>3, <1>4, <1>5 DEF a

LEMMA QueueTail ==
    ASSUME NEW q \in Seq(Msg), q # <<>>
    PROVE  /\ Tail(q) \in Seq(Msg) /\ Head(q) \in Msg
           /\ Range(q) = Range(Tail(q)) \union {Head(q)}
           /\ NoneTwice(q) => NoneTwice(Tail(q)) /\ Head(q) \notin Range(Tail(q))
           /\ \A S : InOrder(q, S) =>
                 /\ InOrder(Tail(q), S)
                 /\ Head(q) \in S => \A x \in Range(Tail(q)) \cap S : Head(q) < x
  <1> DEFINE t == Tail(q)
  <1>1. /\ t \in Seq(Msg) /\ Head(q) \in Msg /\ Len(t) = Len(q) - 1 /\ Len(q) \in Nat
        /\ \A i \in 1 .. Len(t) : t[i] = q[i + 1]
        /\ q[1] = Head(q) /\ Len(q) # 0
    BY HeadTailProperties, LenProperties, QueueRange, EmptySeq
  <1> HIDE DEF t
  <1>2. /\ \A i \in 1 .. Len(t) : i + 1 \in 1 .. Len(q) /\ i + 1 # 1
        /\ \A i \in 1 .. Len(q) : i = 1 \/ i - 1 \in 1 .. Len(t)
        /\ 1 \in 1 .. Len(q)
    BY <1>1
  <1>3. Range(q) = Range(t) \union {Head(q)}
    <2>1. ASSUME NEW x \in Range(q) PROVE x \in Range(t) \union {Head(q)}
      <3>1. PICK i \in 1 .. Len(q) : x = q[i]
        BY QueueRange
      <3>2. CASE i = 1
        BY <1>1, <3>1, <3>2
      <3>3. CASE i - 1 \in 1 .. Len(t)
        <4>1. t[i - 1] = q[i]
          BY <1>1, <3>3
        <4> QED
          BY <1>1, <3>1, <3>3, <4>1, QueueRange
      <3> QED
        BY <1>2, <3>2, <3>3
    <2>2. ASSUME NEW x \in Range(t) PROVE x \in Range(q)
      BY <1>1, <1>2, QueueRange
    <2> QED
      BY <2>1, <2>2, <1>1, QueueRange
  <1>4. ASSUME NoneTwice(q) PROVE NoneTwice(t) /\ Head(q) \notin Range(t)
    <2>1. NoneTwice(t)
      <3> SUFFICES ASSUME NEW i \in 1 .. Len(t), NEW j \in 1 .. Len(t), t[i] = t[j] PROVE i = j
        BY DEF NoneTwice
      <3>1. i + 1 = j + 1
        BY <1>1, <1>2, <1>4 DEF NoneTwice
      <3> QED
        BY <3>1
    <2>2. \A i \in 1 .. Len(t) : t[i] # Head(q)
      BY <1>1, <1>2, <1>4 DEF NoneTwice
    <2> QED
      BY <1>1, <2>1, <2>2, QueueRange
  <1>5. ASSUME NEW S, InOrder(q, S)
        PROVE  InOrder(t, S) /\ (Head(q) \in S => \A x \in Range(t) \cap S : Head(q) < x)
    <2>1. InOrder(t, S)
      <3> SUFFICES ASSUME NEW i \in 1 .. Len(t), NEW j \in 1 .. Len(t),
                          i < j, t[i] \in S, t[j] \in S
                   PROVE  t[i] < t[j]
        BY DEF InOrder
      <3>1. i + 1 < j + 1
        OBVIOUS
      <3> QED
        BY <1>1, <1>2, <1>5, <3>1 DEF InOrder
    <2>2. ASSUME Head(q) \in S, NEW x \in Range(t) \cap S PROVE Head(q) < x
      <3>1. PICK i \in 1 .. Len(t) : x = t[i]
        BY <1>1, QueueRange
      <3>2. 1 < i + 1 /\ x = q[i + 1]
        BY <1>1, <3>1
      <3> QED
        BY <1>1, <1>2, <1>5, <2>2, <3>2 DEF InOrder
    <2> QED
      BY <2>1, <2>2
  <1> QED
    BY <1>1, <1>3, <1>4, <1>5 DEF t

(* RelayDelivers takes the first message.                                     *)
LEMMA FirstOut == ASSUME NEW q \in Seq(Msg), q # <<>> PROVE RemoveAt(q, 1) = Tail(q)
  <1>1. SubSeq(q, 1, 0) = <<>> /\ SubSeq(q, 2, Len(q)) = Tail(q)
    BY SubSeqEmpty, TailIsSubSeq
  <1>2. RemoveAt(q, 1) = SubSeq(q, 1, 0) \o SubSeq(q, 2, Len(q))
    BY DEF RemoveAt
  <1>3. Tail(q) \in Seq(Msg)
    BY HeadTailProperties
  <1> QED
    BY <1>1, <1>2, <1>3, ConcatEmptySeq

LEMMA OrderShrinks ==
    ASSUME NEW q \in Seq(Msg), NEW S, NEW T, InOrder(q, S), T \cap Range(q) \subseteq S
    PROVE  InOrder(q, T)
  <1>1. \A i \in 1 .. Len(q) : q[i] \in T => q[i] \in S
    BY QueueRange
  <1> QED
    BY <1>1 DEF InOrder

(* A message is given to the task: one more of it, no more of the others.     *)
LEMMA TimesAppend ==
    ASSUME NEW q \in Seq(Msg), NEW m \in Msg, NEW n \in Msg
    PROVE  /\ Times(q, n) \in Nat
           /\ Times(Append(q, m), n) = IF n = m THEN Times(q, n) + 1 ELSE Times(q, n)
  <1> DEFINE a == Append(q, m)
             A == {i \in DOMAIN q : q[i] = n}
             B == {i \in DOMAIN a : a[i] = n}
  <1>1. /\ a \in Seq(Msg) /\ Len(a) = Len(q) + 1 /\ Len(q) \in Nat
        /\ \A i \in 1 .. Len(q) : a[i] = q[i]
        /\ a[Len(q) + 1] = m /\ DOMAIN q = 1 .. Len(q)
    BY AppendProperties, LenProperties
  <1>2. DOMAIN a = 1 .. Len(a)
    BY <1>1, LenProperties
  <1> HIDE DEF a
  <1>3. DOMAIN a = (1 .. Len(q)) \union {Len(q) + 1} /\ Len(q) + 1 \notin A
    BY <1>1, <1>2
  <1>4. IsFiniteSet(A)
    <2>1. IsFiniteSet(1 .. Len(q))
      BY <1>1, FS_Interval
    <2> QED
      BY <1>1, <2>1, FS_Subset
  <1>5. Cardinality(A) \in Nat /\ Cardinality(A \union {Len(q) + 1}) = Cardinality(A) + 1
    BY <1>3, <1>4, FS_CardinalityType, FS_AddElement
  <1>6. B = IF n = m THEN A \union {Len(q) + 1} ELSE A
    BY <1>1, <1>3
  <1> QED
    BY <1>5, <1>6 DEF Times, a

LEMMA NeverHeard == ASSUME NEW q \in Seq(Msg), NEW m, m \notin Range(q) PROVE Times(q, m) = 0
  <1>1. {i \in DOMAIN q : q[i] = m} = {}
    BY DEF Range
  <1> QED
    BY <1>1, FS_EmptySet DEF Times

(* ------------------------------------------------ the inductive invariant --- *)
Way == {"direct", "relay"}
LinkTypeOK ==
    /\ sent \in 0 .. Msgs
    /\ wire \in Seq(Msg) /\ relay \in Seq(Msg) /\ inbox \in Seq(Msg)
    /\ pending \in Seq(Msg) /\ heard \in Seq(Msg)
    /\ watching \in Msg \union {0} /\ inline \in Msg \union {0}
    /\ future \in [Msg -> {"none", "flying", "ok", "refused", "failed"}]
    /\ path \in [Msg -> SUBSET Way]
    /\ missed \in [Msg -> SUBSET {"broken", "unheard", "refused"}]

(* Whose acknowledgement somebody waits for; who has an excuse; who went over *)
(* one way and no other.                                                      *)
Followed == Range(pending) \union ({watching, inline} \ {0})
Excused == {m \in Msg : missed[m] # {}}
Only(w) == {m \in Msg : path[m] = {w}}
OnLink == Range(wire) \union Range(inbox)

(* The future has left no trace.                                              *)
Unsent ==
    /\ OnLink \union Range(relay) \union Followed \union Range(heard) \union Excused \subseteq 1 .. sent
    /\ \A m \in Msg : path[m] = {} <=> m > sent

(* Each queue keeps to its way.                                               *)
Ways == /\ \A m \in OnLink \union Followed : "direct" \in path[m]
        /\ \A m \in Range(relay) : "relay" \in path[m]

(* A message is at most once on the link, and at most once with the watcher   *)
(* or on the relay.                                                           *)
Alone ==
    /\ InOrder(wire, Msg) /\ InOrder(inbox, Msg)
    /\ \A x \in Range(inbox), y \in Range(wire) : x < y
    /\ NoneTwice(relay) /\ NoneTwice(pending)
    /\ Followed \cap Range(relay) = {}
    /\ watching \notin Range(pending) /\ inline \notin Range(pending)
    /\ watching = inline => watching = 0

(* An acknowledgement says what became of the message.                        *)
Answers ==
    /\ \A m \in Range(wire) : future[m] = "flying"
    /\ \A m \in Msg : /\ future[m] = "ok" => m \in Range(inbox) \union Range(heard) \union Excused
                      /\ future[m] = "refused" => m \in Excused

(* What is on the link is followed, or was given up and relayed.              *)
Traced == Range(wire) \subseteq Followed \union Range(relay) \union Range(heard) \union Excused

(* Heard copies and those still to come are two at most.                      *)
Copies(m) == (IF m \in OnLink THEN 1 ELSE 0) + (IF m \in Followed \union Range(relay) THEN 1 ELSE 0)
Twice == \A m \in Msg : Times(heard, m) + Copies(m) <= 2

(* What was heard over one way alone came before what that way still carries. *)
Ordered ==
    /\ InOrder(heard, Only("direct")) /\ InOrder(heard, Only("relay"))
    /\ InOrder(relay, Only("relay"))
    /\ \A x \in Range(heard) \cap Only("direct"), y \in OnLink : x < y
    /\ \A x \in Range(heard) \cap Only("relay"), y \in Range(relay) \cap Only("relay") : x < y

IInv == /\ LinkTypeOK /\ Unsent /\ Ways /\ Alone /\ Answers /\ Traced /\ Twice /\ Ordered

(* -------------------------------------------- what Delivery makes of it --- *)
(* The messages under way, and Delivery over them: under the invariant this   *)
(* is Channel, whose sets are cut down to what was sent.                      *)
Onway == OnLink \union Range(relay) \union Followed
Plain == INSTANCE Delivery WITH away <- Onway, excused <- Excused
PlainStep == [Plain!DeliveryNext]_(Plain!deliveryVars)

(* The library's operators mean the same in either instance.                  *)
LEMMA SameLibrary ==
    ASSUME NEW S
    PROVE  /\ Plain!Cardinality(S) = Cardinality(S) /\ Channel!Cardinality(S) = Cardinality(S)
           /\ Plain!Range(S) = Range(S) /\ Channel!Range(S) = Range(S)
  <1>1. Plain!Cardinality(S) = Cardinality(S) /\ Channel!Cardinality(S) = Cardinality(S)
    BY DEF Cardinality, Plain!Cardinality, Channel!Cardinality
  <1>2. Plain!Range(S) = Range(S) /\ Channel!Range(S) = Range(S)
    BY DEF Range, Plain!Range, Channel!Range
  <1> QED
    BY <1>1, <1>2

LEMMA Stutters == UNCHANGED <<sent, Onway, heard, Excused>> => PlainStep
  BY DEF PlainStep, Plain!deliveryVars

LEMMA ExcusedStep ==
    ASSUME NEW lost, lost \subseteq Onway, Excused' = Excused \union lost,
           Onway' \subseteq Onway, Onway \ Onway' \subseteq lost, UNCHANGED <<sent, heard>>
    PROVE  PlainStep
  <1>1. CASE lost = {}
    BY <1>1, Stutters
  <1>2. CASE lost # {}
    <2>1. Onway' = Onway \ (Onway \ Onway') /\ Onway \ Onway' \in SUBSET lost
      OBVIOUS
    <2>2. Plain!Excuse(lost)
      BY <2>1 DEF Plain!Excuse
    <2>3. lost \in (SUBSET Onway) \ {{}}
      BY <1>2
    <2> QED
      BY <2>2, <2>3 DEF PlainStep, Plain!DeliveryNext
  <1> QED
    BY <1>1, <1>2

LEMMA SettledStep ==
    ASSUME Excused' = Excused, Onway' \subseteq Onway,
           Onway \ Onway' \subseteq Range(heard) \union Excused, UNCHANGED <<sent, heard>>
    PROVE  PlainStep
  <1> DEFINE rest == Onway \ Onway'
  <1>1. CASE rest = {}
    BY <1>1, Stutters
  <1>2. CASE rest # {}
    <2>1. Onway' = Onway \ rest /\ rest \in (SUBSET Onway) \ {{}}
      BY <1>2
    <2>2. Plain!Settled(rest)
      BY <2>1, SameLibrary DEF Plain!Settled
    <2> QED
      BY <2>1, <2>2 DEF PlainStep, Plain!DeliveryNext
  <1> QED
    BY <1>1, <1>2

LEMMA HeardStep ==
    ASSUME NEW m \in Onway, Times(heard, m) < 2, heard' = Append(heard, m),
           Onway' \in {Onway, Onway \ {m}}, Excused' = Excused, sent' = sent
    PROVE  PlainStep
  <1>1. Plain!TimesHeard(m) = Times(heard, m)
    BY SameLibrary DEF Plain!TimesHeard, Times
  <1>2. Plain!Hear(m)
    BY <1>1 DEF Plain!Hear
  <1> QED
    BY <1>2 DEF PlainStep, Plain!DeliveryNext

LEMMA SentStep ==
    ASSUME sent < Msgs, sent' = sent + 1, heard' = heard,
           \/ Onway' = Onway \union {sent'} /\ Excused' = Excused
           \/ Onway' = Onway /\ Excused' = Excused \union {sent'}
    PROVE  PlainStep
  BY DEF PlainStep, Plain!DeliveryNext, Plain!Send

(* ------------------------------------------------- what the steps do --- *)
tracked == <<sent, wire, future, acks, relay, inbox, heard, path, missed>>
Quiet == \/ Route \/ Measure \/ CooldownEnds \/ StreamBack \/ PeerMoves
         \/ UNCHANGED linkVars

LEMMA QuietKeeps == Quiet => UNCHANGED tracked
  BY DEF Quiet, Route, Measure, CooldownEnds, StreamBack, PeerMoves, linkVars, tracked, acks, far,
         choice, Upset

LEMMA QuietStep == IInv /\ UNCHANGED tracked => IInv' /\ PlainStep
  <1> SUFFICES ASSUME IInv, UNCHANGED tracked PROVE IInv' /\ PlainStep
    OBVIOUS
  <1>1. UNCHANGED <<sent, wire, future, pending, watching, inline, relay, inbox, heard, path, missed>>
    BY DEF tracked, acks
  <1>2. /\ UNCHANGED <<Followed, Excused, OnLink>> /\ \A w : Only(w)' = Only(w)
        /\ \A m : Copies(m)' = Copies(m)
    BY <1>1 DEF Followed, Excused, OnLink, Only, Copies
  <1>3. LinkTypeOK'
    BY <1>1 DEF IInv, LinkTypeOK
  <1>4. Unsent' /\ Ways' /\ Alone'
    BY <1>1, <1>2 DEF IInv, Unsent, Ways, Alone
  <1>5. Answers' /\ Traced'
    BY <1>1, <1>2 DEF IInv, Answers, Traced
  <1>6. Twice' /\ Ordered'
    BY <1>1, <1>2 DEF IInv, Twice, Ordered
  <1>7. PlainStep
    BY <1>1, <1>2, Stutters DEF Onway
  <1> QED
    BY <1>3, <1>4, <1>5, <1>6, <1>7 DEF IInv

LEMMA Queues ==
    ASSUME LinkTypeOK
    PROVE  /\ Range(wire) \subseteq Msg /\ Range(relay) \subseteq Msg /\ Range(inbox) \subseteq Msg
           /\ Range(pending) \subseteq Msg /\ Range(heard) \subseteq Msg
           /\ Followed \subseteq Msg /\ OnLink \subseteq Msg
           /\ sent \in Nat /\ \A m \in Msg : m \in Nat /\ 0 < m
           /\ \A m \in Msg : Times(heard, m) \in Nat
  <1>1. /\ Range(wire) \subseteq Msg /\ Range(relay) \subseteq Msg /\ Range(inbox) \subseteq Msg
        /\ Range(pending) \subseteq Msg /\ Range(heard) \subseteq Msg
    BY QueueRange DEF LinkTypeOK
  <1>2. Followed \subseteq Msg /\ OnLink \subseteq Msg
    BY <1>1 DEF LinkTypeOK, Followed, OnLink
  <1>3. sent \in Nat /\ \A m \in Msg : m \in Nat /\ 0 < m
    BY LinksAssumption DEF LinkTypeOK, Msg
  <1>4. \A m \in Msg : Times(heard, m) \in Nat
    BY TimesAppend DEF LinkTypeOK
  <1> QED
    BY <1>1, <1>2, <1>3, <1>4

LEMMA SendDirectStep == IInv /\ SendDirect => IInv' /\ PlainStep
  <1> SUFFICES ASSUME IInv, SendDirect PROVE IInv' /\ PlainStep
    OBVIOUS
  <1> DEFINE m == sent + 1
  <1>1. /\ m \in Msg /\ inline = 0 /\ sent' = m /\ wire' = Append(wire, m)
        /\ future' = [future EXCEPT ![m] = "flying"] /\ path' = [path EXCEPT ![m] = {"direct"}]
        /\ UNCHANGED <<relay, inbox, heard, watching, missed>>
        /\ \/ pending' = Append(pending, m) /\ inline' = inline
           \/ pending' = pending /\ inline' = m
    BY DEF SendDirect, far
  <1>2. LinkTypeOK /\ Unsent /\ Ways /\ Alone /\ Answers /\ Traced /\ Twice /\ Ordered
    BY DEF IInv
  <1>3. /\ Range(wire) \subseteq Msg /\ Range(relay) \subseteq Msg /\ Range(inbox) \subseteq Msg
        /\ Range(pending) \subseteq Msg /\ Range(heard) \subseteq Msg /\ sent \in Nat
        /\ \A n \in Msg : n \in Nat /\ 0 \notin Msg
    BY <1>2, Queues
  <1>4. /\ m \notin OnLink \union Range(relay) \union Followed \union Range(heard) \union Excused
        /\ \A x \in OnLink \union Range(relay) \union Followed \union Range(heard) \union Excused :
              x < m /\ x # m /\ x \in 1 .. sent
    BY <1>2, <1>3 DEF Unsent
  <1>5. Range(wire') = Range(wire) \union {m}
    BY <1>1, <1>2, QueueAppend DEF LinkTypeOK
  <1>6. Followed' = Followed \union {m} /\ OnLink' = OnLink \union {m} /\ Excused' = Excused
    <2>1. CASE pending' = Append(pending, m) /\ inline' = inline
      <3>1. Range(pending') = Range(pending) \union {m}
        BY <1>1, <1>2, <2>1, QueueAppend DEF LinkTypeOK
      <3> QED
        BY <1>1, <1>5, <2>1, <3>1 DEF Followed, OnLink, Excused
    <2>2. CASE pending' = pending /\ inline' = m
      BY <1>1, <1>3, <1>5, <2>2 DEF Followed, OnLink, Excused
    <2> QED
      BY <1>1, <2>1, <2>2
  <1>7. /\ Only("direct")' = Only("direct") \union {m}
        /\ Only("relay")' = Only("relay") \ {m}
        /\ \A n \in Msg \ {m} : path'[n] = path[n] /\ future'[n] = future[n]
        /\ path'[m] = {"direct"} /\ future'[m] = "flying"
    BY <1>1, <1>2 DEF LinkTypeOK, Only
  <1>8. LinkTypeOK'
    <2>1. wire' \in Seq(Msg) /\ pending' \in Seq(Msg)
      <3>1. wire \in Seq(Msg) /\ pending \in Seq(Msg)
        BY <1>2 DEF LinkTypeOK
      <3>2. Append(wire, m) \in Seq(Msg) /\ Append(pending, m) \in Seq(Msg)
        BY <1>1, <3>1, QueueAppend
      <3> QED
        BY <1>1, <3>1, <3>2
    <2>2. sent' \in 0 .. Msgs
      BY <1>1, LinksAssumption DEF Msg
    <2>3. path' \in [Msg -> SUBSET Way] /\ future' \in [Msg -> {"none", "flying", "ok", "refused", "failed"}]
      BY <1>1, <1>2 DEF LinkTypeOK, Way
    <2> QED
      BY <1>1, <1>2, <2>1, <2>2, <2>3 DEF LinkTypeOK
  <1>9. Unsent'
    <2>1. \A n \in Msg : path'[n] = {} <=> n > sent'
      <3>1. \A n \in Msg \ {m} : n > sent' <=> n > sent
        BY <1>1, <1>3
      <3> QED
        BY <1>1, <1>2, <1>3, <1>7, <3>1 DEF Unsent
    <2> QED
      BY <1>1, <1>2, <1>3, <1>6, <2>1 DEF Unsent
  <1>10. Ways'
    BY <1>1, <1>2, <1>4, <1>6, <1>7, <1>3, Queues DEF Ways
  <1>11. Alone'
    <2>1. InOrder(wire', Msg) /\ \A x \in Range(inbox), y \in Range(wire') : x < y
      BY <1>1, <1>2, <1>3, <1>4, <1>5, QueueAppend DEF Alone, LinkTypeOK, OnLink
    <2>2. NoneTwice(pending')
      <3>1. NoneTwice(pending) /\ m \notin Range(pending) /\ pending \in Seq(Msg)
        BY <1>2, <1>4 DEF Alone, LinkTypeOK, Followed
      <3>2. NoneTwice(Append(pending, m))
        BY <1>1, <3>1, QueueAppend
      <3> QED
        BY <1>1, <3>1, <3>2
    <2>3. Followed' \cap Range(relay') = {}
      BY <1>1, <1>2, <1>4, <1>6 DEF Alone
    <2>4. watching' \notin Range(pending') /\ inline' \notin Range(pending')
          /\ (watching' = inline' => watching' = 0)
      <3>1. Range(pending') = Range(pending) \/ Range(pending') = Range(pending) \union {m}
        BY <1>1, <1>2, QueueAppend DEF LinkTypeOK
      <3> QED
        BY <1>1, <1>2, <1>3, <1>4, <3>1, QueueAppend DEF Alone, LinkTypeOK, Followed
    <2> QED
      BY <1>1, <1>2, <2>1, <2>2, <2>3, <2>4 DEF Alone
  <1>12. Answers'
    BY <1>1, <1>2, <1>3, <1>5, <1>6, <1>7 DEF Answers
  <1>13. Traced'
    BY <1>1, <1>2, <1>5, <1>6 DEF Traced
  <1>14. Twice'
    <2>1. Times(heard, m) = 0
      BY <1>2, <1>4, NeverHeard DEF LinkTypeOK
    <2> QED
      <3>1. \A n \in Msg \ {m} : Copies(n)' = Copies(n)
        BY <1>1, <1>6 DEF Copies
      <3>2. \A k : Copies(k)' \in 0 .. 2
        BY DEF Copies
      <3> SUFFICES ASSUME NEW n \in Msg PROVE Times(heard, n) + Copies(n)' <= 2
        BY <1>1 DEF Twice
      <3>3. CASE n = m
        <4>1. Times(heard, n) = 0 /\ Copies(n)' \in 0 .. 2
          BY <2>1, <3>2, <3>3
        <4> QED
          BY <4>1
      <3>4. CASE n # m
        BY <1>2, <3>1, <3>4 DEF Twice
      <3> QED
        BY <3>3, <3>4
  <1>15. Ordered'
    <2>1. InOrder(heard, Only("direct")') /\ InOrder(heard, Only("relay")') /\ InOrder(relay, Only("relay")')
      <3>1. /\ InOrder(heard, Only("direct")) /\ InOrder(heard, Only("relay"))
            /\ InOrder(relay, Only("relay"))
        BY <1>2 DEF Ordered
      <3> QED
        BY <1>2, <1>4, <1>7, <3>1, OrderShrinks DEF LinkTypeOK
    <2> QED
      BY <1>1, <1>2, <1>4, <1>6, <1>7, <2>1 DEF Ordered
  <1>16. PlainStep
    <2>1. sent < Msgs
      BY <1>1, <1>3, LinksAssumption DEF Msg
    <2>2. Onway' = Onway \union {sent'}
      BY <1>1, <1>6 DEF Onway
    <2> QED
      BY <1>1, <1>6, <2>1, <2>2, SentStep
  <1> QED
    BY <1>8, <1>9, <1>10, <1>11, <1>12, <1>13, <1>14, <1>15, <1>16 DEF IInv

(* What an excuse does.                                                       *)
LEMMA MissEffect ==
    ASSUME LinkTypeOK, NEW S, S \subseteq Msg, NEW why \in {"broken", "unheard", "refused"},
           Misses(S, why)
    PROVE  /\ missed' \in [Msg -> SUBSET {"broken", "unheard", "refused"}]
           /\ Excused' = Excused \union S
           /\ S = {} => missed' = missed
  <1>1. missed' = [m \in Msg |-> IF m \in S THEN missed[m] \union {why} ELSE missed[m]]
    BY DEF Misses
  <1> QED
    BY <1>1 DEF LinkTypeOK, Excused

LEMMA RelayEffect ==
    ASSUME LinkTypeOK, NEW m \in Msg, Relay(m)
    PROVE  /\ missed' \in [Msg -> SUBSET {"broken", "unheard", "refused"}]
           /\ path' \in [Msg -> SUBSET Way] /\ path'[m] = path[m] \union {"relay"}
           /\ \A n \in Msg \ {m} : path'[n] = path[n]
           /\ \/ relay' = Append(relay, m) /\ Excused' = Excused
              \/ relay' = relay /\ Excused' = Excused \union {m}
  <1>1. path' = [path EXCEPT ![m] = @ \union {"relay"}] /\ path \in [Msg -> SUBSET Way]
    BY DEF Relay, LinkTypeOK
  <1>2. CASE streaming
    <2>1. relay' = Append(relay, m) /\ Misses({}, "broken")
      BY <1>2 DEF Relay
    <2>2. /\ missed' \in [Msg -> SUBSET {"broken", "unheard", "refused"}]
          /\ Excused' = Excused \union {}
      <3>1. {} \subseteq Msg
        OBVIOUS
      <3> QED
        BY <2>1, <3>1, MissEffect
    <2> QED
      BY <1>1, <2>1, <2>2 DEF Way
  <1>3. CASE ~streaming
    <2>1. relay' = relay /\ Misses({m}, "broken")
      BY <1>3 DEF Relay
    <2>2. /\ missed' \in [Msg -> SUBSET {"broken", "unheard", "refused"}]
          /\ Excused' = Excused \union {m}
      BY <2>1, MissEffect
    <2> QED
      BY <1>1, <2>1, <2>2 DEF Way
  <1> QED
    BY <1>2, <1>3

LEMMA SendRelayedStep == IInv /\ SendRelayed => IInv' /\ PlainStep
  <1> SUFFICES ASSUME IInv, SendRelayed PROVE IInv' /\ PlainStep
    OBVIOUS
  <1> DEFINE m == sent + 1
  <1>1. /\ m \in Msg /\ sent' = m /\ Relay(m)
        /\ UNCHANGED <<wire, future, pending, watching, inline, inbox, heard>>
    BY DEF SendRelayed, far, acks
  <1>2. LinkTypeOK /\ Unsent /\ Ways /\ Alone /\ Answers /\ Traced /\ Twice /\ Ordered
    BY DEF IInv
  <1>3. /\ Range(wire) \subseteq Msg /\ Range(relay) \subseteq Msg /\ Range(inbox) \subseteq Msg
        /\ Range(pending) \subseteq Msg /\ Range(heard) \subseteq Msg /\ sent \in Nat
        /\ \A n \in Msg : n \in Nat /\ 0 \notin Msg
    BY <1>2, Queues
  <1>4. /\ m \notin OnLink \union Range(relay) \union Followed \union Range(heard) \union Excused
        /\ path[m] = {}
        /\ \A x \in OnLink \union Range(relay) \union Followed \union Range(heard) \union Excused :
              x < m /\ x # m /\ x \in 1 .. sent
    BY <1>1, <1>2, <1>3 DEF Unsent
  <1>5. Followed' = Followed /\ OnLink' = OnLink
    BY <1>1 DEF Followed, OnLink
  <1>6. /\ missed' \in [Msg -> SUBSET {"broken", "unheard", "refused"}]
        /\ path' \in [Msg -> SUBSET Way] /\ path'[m] = {"relay"}
        /\ \A n \in Msg \ {m} : path'[n] = path[n]
        /\ \/ relay' = Append(relay, m) /\ Excused' = Excused
           \/ relay' = relay /\ Excused' = Excused \union {m}
    BY <1>1, <1>2, <1>4, RelayEffect
  <1>7. /\ Only("direct")' = Only("direct") \ {m}
        /\ Only("relay")' = Only("relay") \union {m}
    BY <1>1, <1>2, <1>6 DEF Only
  <1>8. /\ relay' \in Seq(Msg) /\ NoneTwice(relay') /\ InOrder(relay', Only("relay")')
        /\ Range(relay') \subseteq Range(relay) \union {m} /\ Range(relay) \subseteq Range(relay')
    <2>1. relay \in Seq(Msg) /\ NoneTwice(relay) /\ InOrder(relay, Only("relay"))
      BY <1>2 DEF LinkTypeOK, Alone, Ordered
    <2>2. InOrder(relay, Only("relay")')
      BY <1>4, <1>7, <2>1, OrderShrinks
    <2>3. CASE relay' = Append(relay, m)
      BY <1>1, <1>4, <2>1, <2>2, <2>3, QueueAppend
    <2>4. CASE relay' = relay
      BY <2>1, <2>2, <2>4
    <2> QED
      BY <1>6, <2>3, <2>4
  <1>9. LinkTypeOK'
    <2>1. sent' \in 0 .. Msgs
      BY <1>1, LinksAssumption DEF Msg
    <2> QED
      BY <1>1, <1>2, <1>6, <1>8, <2>1 DEF LinkTypeOK
  <1>10. Unsent'
    <2>1. \A n \in Msg : path'[n] = {} <=> n > sent'
      <3>1. \A n \in Msg \ {m} : n > sent' <=> n > sent
        BY <1>1, <1>3
      <3> QED
        BY <1>1, <1>2, <1>3, <1>6, <3>1 DEF Unsent
    <2>2. \A x \in 1 .. sent : x \in 1 .. sent'
      BY <1>1, <1>3
    <2> QED
      BY <1>1, <1>3, <1>4, <1>5, <1>6, <1>8, <2>1, <2>2 DEF Unsent
  <1>11. Ways'
    BY <1>2, <1>4, <1>5, <1>6, <1>8, <1>3, Queues DEF Ways
  <1>12. Alone'
    BY <1>1, <1>2, <1>4, <1>5, <1>8 DEF Alone
  <1>13. Answers' /\ Traced'
    BY <1>1, <1>2, <1>5, <1>6, <1>8 DEF Answers, Traced
  <1>14. Twice'
    <2> SUFFICES ASSUME NEW n \in Msg PROVE Times(heard, n) + Copies(n)' <= 2
      BY <1>1 DEF Twice
    <2>1. CASE n = m
      <3>1. Times(heard, n) = 0
        BY <1>2, <1>4, <2>1, NeverHeard DEF LinkTypeOK
      <3>2. Copies(n)' \in 0 .. 2
        BY DEF Copies
      <3> QED
        BY <3>1, <3>2
    <2>2. CASE n # m
      <3>1. Copies(n)' = Copies(n)
        BY <1>5, <1>8, <2>2 DEF Copies
      <3> QED
        BY <1>2, <3>1 DEF Twice
    <2> QED
      BY <2>1, <2>2
  <1>15. Ordered'
    <2>1. InOrder(heard, Only("direct")') /\ InOrder(heard, Only("relay")')
      <3>1. InOrder(heard, Only("direct")) /\ InOrder(heard, Only("relay"))
        BY <1>2 DEF Ordered
      <3> QED
        BY <1>2, <1>4, <1>7, <3>1, OrderShrinks DEF LinkTypeOK
    <2> QED
      BY <1>1, <1>2, <1>4, <1>5, <1>7, <1>8, <2>1 DEF Ordered
  <1>16. PlainStep
    <2>1. sent < Msgs
      BY <1>1, <1>3, LinksAssumption DEF Msg
    <2>2. relay' = Append(relay, m) => Range(relay') = Range(relay) \union {m}
      BY <1>1, <1>2, QueueAppend DEF LinkTypeOK
    <2> QED
      BY <1>1, <1>5, <1>6, <2>1, <2>2, SentStep DEF Onway
  <1> QED
    BY <1>9, <1>10, <1>11, <1>12, <1>13, <1>14, <1>15, <1>16 DEF IInv

LEMMA WatchStep == IInv /\ Watch => IInv' /\ PlainStep
  <1> SUFFICES ASSUME IInv, Watch PROVE IInv' /\ PlainStep
    OBVIOUS
  <1>1. /\ watching = 0 /\ pending # <<>> /\ watching' = Head(pending) /\ pending' = Tail(pending)
        /\ UNCHANGED <<sent, wire, future, inline, relay, inbox, heard, path, missed>>
    BY DEF Watch, far
  <1>2. LinkTypeOK /\ Unsent /\ Ways /\ Alone /\ Answers /\ Traced /\ Twice /\ Ordered
    BY DEF IInv
  <1>3. /\ Head(pending) \in Msg /\ pending' \in Seq(Msg) /\ NoneTwice(pending')
        /\ Range(pending) = Range(pending') \union {watching'}
        /\ watching' \notin Range(pending') /\ 0 \notin Msg /\ Range(pending) \subseteq Msg
    BY <1>1, <1>2, QueueTail, Queues DEF LinkTypeOK, Alone
  <1>4. /\ UNCHANGED <<Followed, Excused, OnLink>> /\ \A w : Only(w)' = Only(w)
        /\ \A m : Copies(m)' = Copies(m)
    <2>1. Followed' = Followed
      BY <1>1, <1>3 DEF Followed
    <2> QED
      BY <1>1, <2>1 DEF Excused, OnLink, Only, Copies
  <1>5. LinkTypeOK'
    BY <1>1, <1>2, <1>3 DEF LinkTypeOK
  <1>6. Unsent' /\ Ways'
    BY <1>1, <1>2, <1>4 DEF Unsent, Ways
  <1>7. Alone'
    BY <1>1, <1>2, <1>3, <1>4 DEF Alone
  <1>8. Answers' /\ Traced' /\ Twice' /\ Ordered'
    BY <1>1, <1>2, <1>4 DEF Answers, Traced, Twice, Ordered
  <1>9. PlainStep
    BY <1>1, <1>4, Stutters DEF Onway
  <1> QED
    BY <1>5, <1>6, <1>7, <1>8, <1>9 DEF IInv

(* The watcher, or the sending thread, is through with m.                     *)
LEMMA SettleStep ==
    ASSUME IInv, NEW m \in Msg, Settle(m),
           \/ m = watching /\ watching' = 0 /\ inline' = inline
           \/ m = inline /\ inline' = 0 /\ watching' = watching,
           UNCHANGED <<sent, wire, future, pending, inbox, heard>>
    PROVE  IInv' /\ PlainStep
  <1>2. LinkTypeOK /\ Unsent /\ Ways /\ Alone /\ Answers /\ Traced /\ Twice /\ Ordered
    BY DEF IInv
  <1>3. /\ Range(wire) \subseteq Msg /\ Range(relay) \subseteq Msg /\ Range(inbox) \subseteq Msg
        /\ Range(pending) \subseteq Msg /\ Range(heard) \subseteq Msg /\ sent \in Nat
        /\ \A n \in Msg : n \in Nat /\ 0 \notin Msg
    BY <1>2, Queues
  <1>1. Followed' = Followed \ {m} /\ OnLink' = OnLink /\ m \in Followed /\ m \notin Range(relay)
    BY <1>2, <1>3 DEF Followed, OnLink, Alone
  <1>4. m \in 1 .. sent /\ path[m] # {} /\ "direct" \in path[m]
    BY <1>1, <1>2 DEF Unsent, Ways
  <1>5. /\ missed' \in [Msg -> SUBSET {"broken", "unheard", "refused"}]
        /\ path' \in [Msg -> SUBSET Way] /\ path[m] \subseteq path'[m]
        /\ \A n \in Msg \ {m} : path'[n] = path[n]
        /\ \/ /\ future[m] \in {"ok", "refused"} /\ relay' = relay /\ Excused' = Excused
              /\ path' = path
           \/ /\ "relay" \in path'[m]
              /\ \/ relay' = Append(relay, m) /\ Excused' = Excused
                 \/ relay' = relay /\ Excused' = Excused \union {m}
    <2>1. CASE future[m] \in {"ok", "refused"}
      <3>1. UNCHANGED <<relay, path, missed>>
        BY <2>1 DEF Settle
      <3> QED
        BY <1>2, <2>1, <3>1 DEF LinkTypeOK, Excused
    <2>2. CASE ~(future[m] \in {"ok", "refused"})
      <3>1. Relay(m)
        BY <2>2 DEF Settle
      <3> QED
        BY <1>2, <3>1, RelayEffect
    <2> QED
      BY <2>1, <2>2
  <1>6. Only("direct")' \subseteq Only("direct") /\ Only("relay")' \subseteq Only("relay")
        /\ m \notin Only("relay")'
    <2>1. "direct" \in path'[m] /\ path'[m] # {"relay"}
      BY <1>4, <1>5
    <2>2. path'[m] = {"direct"} => path[m] = {"direct"}
      BY <1>4, <1>5
    <2> QED
      BY <1>5, <2>1, <2>2 DEF Only
  <1>7. /\ relay' \in Seq(Msg) /\ NoneTwice(relay') /\ InOrder(relay', Only("relay")')
        /\ Range(relay') \subseteq Range(relay) \union {m} /\ Range(relay) \subseteq Range(relay')
    <2>1. relay \in Seq(Msg) /\ NoneTwice(relay) /\ InOrder(relay, Only("relay"))
      BY <1>2 DEF LinkTypeOK, Alone, Ordered
    <2>2. InOrder(relay, Only("relay")')
      BY <1>6, <2>1, OrderShrinks
    <2>3. CASE relay' = Append(relay, m)
      BY <1>1, <1>6, <2>1, <2>2, <2>3, QueueAppend
    <2>4. CASE relay' = relay
      BY <2>1, <2>2, <2>4
    <2> QED
      BY <1>5, <2>3, <2>4
  <1>8. m \in Range(relay') \/ m \in Excused' \/ future[m] \in {"ok", "refused"}
    <2>1. CASE relay' = Append(relay, m)
      BY <1>2, <2>1, QueueAppend DEF LinkTypeOK
    <2> QED
      BY <1>5, <2>1
  <1>9. LinkTypeOK'
    BY <1>2, <1>5, <1>7 DEF LinkTypeOK
  <1>10. Unsent'
    <2>1. \A n \in Msg : path'[n] = {} <=> n > sent
      BY <1>2, <1>3, <1>4, <1>5 DEF Unsent
    <2> QED
      BY <1>1, <1>2, <1>4, <1>5, <1>7, <2>1 DEF Unsent
  <1>11. Ways'
    <2>1. \A n \in OnLink' \union Followed' : "direct" \in path'[n]
      BY <1>1, <1>2, <1>3, <1>5, Queues DEF Ways
    <2>2. \A n \in Range(relay') : "relay" \in path'[n]
      <3>1. CASE relay' = relay
        BY <1>1, <1>2, <1>3, <1>5, <3>1 DEF Ways
      <3>2. CASE relay' # relay
        BY <1>2, <1>3, <1>5, <1>7, <3>2 DEF Ways
      <3> QED
        BY <3>1, <3>2
    <2> QED
      BY <2>1, <2>2 DEF Ways
  <1>12. Alone'
    BY <1>1, <1>2, <1>3, <1>7 DEF Alone
  <1>13. Answers'
    BY <1>2, <1>5 DEF Answers
  <1>14. Traced'
    <2>1. Excused \subseteq Excused'
      BY <1>5
    <2>2. m \in Range(wire) => future[m] = "flying"
      BY <1>2 DEF Answers
    <2> QED
      BY <1>1, <1>2, <1>7, <1>8, <2>1, <2>2 DEF Traced
  <1>15. Twice'
    <2> SUFFICES ASSUME NEW n \in Msg PROVE Times(heard, n) + Copies(n)' <= 2
      BY DEF Twice
    <2>1. n \in Followed' \union Range(relay') => n \in Followed \union Range(relay)
      BY <1>1, <1>7
    <2>2. Copies(n)' <= Copies(n) /\ Copies(n)' \in 0 .. 2 /\ Copies(n) \in 0 .. 2
      BY <1>1, <2>1 DEF Copies
    <2>3. Times(heard, n) \in Nat /\ Times(heard, n) + Copies(n) <= 2
      BY <1>2, Queues DEF Twice
    <2> QED
      BY <2>2, <2>3
  <1>16. Ordered'
    <2>1. InOrder(heard, Only("direct")') /\ InOrder(heard, Only("relay")')
      BY <1>2, <1>6, OrderShrinks DEF Ordered, LinkTypeOK
    <2> QED
      BY <1>1, <1>2, <1>6, <1>7, <2>1 DEF Ordered
  <1>17. PlainStep
    <2>1. Onway' \subseteq Onway /\ Onway \ Onway' \subseteq {m}
          /\ (m \in Range(relay') \union OnLink => Onway' = Onway)
      BY <1>1, <1>7 DEF Onway
    <2>2. CASE future[m] \in {"ok", "refused"} /\ Excused' = Excused
      <3>1. m \in OnLink \union Range(heard) \union Excused
        BY <1>2, <2>2 DEF Answers, OnLink
      <3>2. Onway \ Onway' \subseteq Range(heard) \union Excused
        BY <2>1, <3>1
      <3> QED
        BY <2>1, <2>2, <3>2, SettledStep
    <2>3. CASE relay' = Append(relay, m) /\ Excused' = Excused
      <3>1. m \in Range(relay')
        BY <1>2, <2>3, QueueAppend DEF LinkTypeOK
      <3> QED
        BY <2>1, <2>3, <3>1, Stutters
    <2>4. CASE Excused' = Excused \union {m}
      <3>1. {m} \subseteq Onway
        BY <1>1 DEF Onway
      <3> QED
        BY <2>1, <2>4, <3>1, ExcusedStep
    <2> QED
      BY <1>5, <2>2, <2>3, <2>4
  <1> QED
    BY <1>9, <1>10, <1>11, <1>12, <1>13, <1>14, <1>15, <1>16, <1>17 DEF IInv

LEMMA FollowStep == IInv /\ (Follow \/ FollowInline) => IInv' /\ PlainStep
  <1> SUFFICES ASSUME IInv, Follow \/ FollowInline PROVE IInv' /\ PlainStep
    OBVIOUS
  <1>1. watching \in Msg \union {0} /\ inline \in Msg \union {0}
    BY DEF IInv, LinkTypeOK
  <1>2. CASE Follow
    BY <1>1, <1>2, SettleStep DEF Follow, far
  <1>3. CASE FollowInline
    BY <1>1, <1>3, SettleStep DEF FollowInline, far
  <1> QED
    BY <1>2, <1>3

LEMMA ArriveStep == IInv /\ Arrive => IInv' /\ PlainStep
  <1> SUFFICES ASSUME IInv, Arrive PROVE IInv' /\ PlainStep
    OBVIOUS
  <1>2. LinkTypeOK /\ Unsent /\ Ways /\ Alone /\ Answers /\ Traced /\ Twice /\ Ordered
    BY DEF IInv
  <1>3. /\ Range(wire) \subseteq Msg /\ Range(relay) \subseteq Msg /\ Range(inbox) \subseteq Msg
        /\ Range(pending) \subseteq Msg /\ Range(heard) \subseteq Msg /\ sent \in Nat
        /\ \A n \in Msg : n \in Nat /\ 0 \notin Msg
    BY <1>2, Queues
  <1> DEFINE m == Head(wire)
  <1>1. /\ wire # <<>> /\ wire' = Tail(wire)
        /\ UNCHANGED <<sent, pending, watching, inline, relay, heard, path>>
    BY DEF Arrive, acks
  <1>4. \/ inbox' = Append(inbox, m) /\ Misses({}, "refused")
           /\ \E a \in {"failed", "ok"} : future' = [future EXCEPT ![m] = a]
        \/ inbox' = inbox /\ Misses({m}, "refused")
           /\ \E a \in {"failed", "refused"} : future' = [future EXCEPT ![m] = a]
    BY DEF Arrive
  <1>5. /\ m \in Msg /\ wire' \in Seq(Msg) /\ InOrder(wire', Msg)
        /\ Range(wire) = Range(wire') \union {m} /\ m \notin Range(wire')
        /\ \A x \in Range(wire') : m < x
        /\ \A x \in Range(inbox) : x < m
    <2>1. /\ m \in Msg /\ wire' \in Seq(Msg) /\ InOrder(wire', Msg)
          /\ Range(wire) = Range(wire') \union {m}
          /\ \A x \in Range(wire') \cap Msg : m < x
      BY <1>1, <1>2, QueueTail DEF LinkTypeOK, Alone
    <2> QED
      BY <1>2, <1>3, <2>1 DEF Alone
  <1>6. /\ missed' \in [Msg -> SUBSET {"broken", "unheard", "refused"}]
        /\ \/ inbox' = Append(inbox, m) /\ Excused' = Excused
           \/ inbox' = inbox /\ Excused' = Excused \union {m}
        /\ future' \in [Msg -> {"none", "flying", "ok", "refused", "failed"}]
        /\ future'[m] = "ok" => inbox' = Append(inbox, m)
        /\ future'[m] = "refused" => m \in Excused'
        /\ \A n \in Msg \ {m} : future'[n] = future[n]
    <2>1. {} \subseteq Msg /\ {m} \subseteq Msg
      BY <1>5
    <2>2. CASE inbox' = Append(inbox, m) /\ Misses({}, "refused")
               /\ \E a \in {"failed", "ok"} : future' = [future EXCEPT ![m] = a]
      <3>1. missed' \in [Msg -> SUBSET {"broken", "unheard", "refused"}] /\ Excused' = Excused \union {}
        BY <1>2, <2>1, <2>2, MissEffect
      <3> QED
        BY <1>2, <1>5, <2>2, <3>1 DEF LinkTypeOK
    <2>3. CASE inbox' = inbox /\ Misses({m}, "refused")
               /\ \E a \in {"failed", "refused"} : future' = [future EXCEPT ![m] = a]
      <3>1. missed' \in [Msg -> SUBSET {"broken", "unheard", "refused"}] /\ Excused' = Excused \union {m}
        BY <1>2, <2>1, <2>3, MissEffect
      <3> QED
        BY <1>2, <1>5, <2>3, <3>1 DEF LinkTypeOK
    <2> QED
      BY <1>4, <2>2, <2>3
  <1>7. /\ inbox' \in Seq(Msg) /\ InOrder(inbox', Msg) /\ Range(inbox) \subseteq Range(inbox')
        /\ Range(inbox') \subseteq Range(inbox) \union {m}
        /\ inbox' = Append(inbox, m) => m \in Range(inbox')
    <2>1. inbox \in Seq(Msg) /\ InOrder(inbox, Msg)
      BY <1>2 DEF LinkTypeOK, Alone
    <2>2. CASE inbox' = Append(inbox, m)
      BY <1>5, <2>1, <2>2, QueueAppend
    <2>3. CASE inbox' = inbox /\ inbox' # Append(inbox, m)
      BY <2>1, <2>3
    <2> QED
      BY <1>6, <2>2, <2>3
  <1>8. Followed' = Followed /\ OnLink' \subseteq OnLink /\ m \in OnLink
        /\ Excused \subseteq Excused' /\ Excused' \subseteq Excused \union {m}
        /\ Only("direct")' = Only("direct") /\ Only("relay")' = Only("relay")
    BY <1>1, <1>5, <1>6, <1>7 DEF Followed, OnLink, Only
  <1>9. LinkTypeOK'
    BY <1>1, <1>2, <1>5, <1>6, <1>7 DEF LinkTypeOK
  <1>10. Unsent' /\ Ways'
    BY <1>1, <1>2, <1>8 DEF Unsent, Ways
  <1>11. Alone'
    <2>1. \A x \in Range(inbox'), y \in Range(wire') : x < y
      BY <1>2, <1>5, <1>7 DEF Alone
    <2> QED
      BY <1>1, <1>2, <1>5, <1>7, <1>8, <2>1 DEF Alone
  <1>12. Answers'
    <2>1. \A n \in Range(wire') : future'[n] = "flying"
      BY <1>2, <1>3, <1>5, <1>6 DEF Answers
    <2>2. \A n \in Msg \ {m} :
             /\ future'[n] = "ok" => n \in Range(inbox') \union Range(heard') \union Excused'
             /\ future'[n] = "refused" => n \in Excused'
      BY <1>1, <1>2, <1>6, <1>7, <1>8 DEF Answers
    <2> QED
      BY <1>6, <1>7, <2>1, <2>2 DEF Answers
  <1>13. Traced'
    BY <1>1, <1>2, <1>5, <1>8 DEF Traced
  <1>14. Twice'
    <2> SUFFICES ASSUME NEW n \in Msg PROVE Times(heard, n) + Copies(n)' <= 2
      BY <1>1 DEF Twice
    <2>1. Copies(n)' <= Copies(n) /\ Copies(n)' \in 0 .. 2 /\ Copies(n) \in 0 .. 2
      BY <1>1, <1>8 DEF Copies
    <2>2. Times(heard, n) \in Nat /\ Times(heard, n) + Copies(n) <= 2
      BY <1>2, Queues DEF Twice
    <2> QED
      BY <2>1, <2>2
  <1>15. Ordered'
    BY <1>1, <1>2, <1>8 DEF Ordered
  <1>16. PlainStep
    <2>1. Onway' \subseteq Onway /\ Onway \ Onway' \subseteq {m} /\ {m} \subseteq Onway
          /\ (m \in Range(inbox') => Onway' = Onway)
      BY <1>1, <1>5, <1>7, <1>8 DEF Onway, OnLink
    <2>2. CASE inbox' = Append(inbox, m) /\ Excused' = Excused
      BY <1>1, <1>7, <2>1, <2>2, Stutters
    <2>3. CASE Excused' = Excused \union {m}
      BY <1>1, <2>1, <2>3, ExcusedStep
    <2> QED
      BY <1>6, <2>2, <2>3
  <1> QED
    BY <1>9, <1>10, <1>11, <1>12, <1>13, <1>14, <1>15, <1>16 DEF IInv

LEMMA LinkBreaksStep == IInv /\ LinkBreaks => IInv' /\ PlainStep
  <1> SUFFICES ASSUME IInv, LinkBreaks PROVE IInv' /\ PlainStep
    OBVIOUS
  <1>2. LinkTypeOK /\ Unsent /\ Ways /\ Alone /\ Answers /\ Traced /\ Twice /\ Ordered
    BY DEF IInv
  <1>3. /\ Range(wire) \subseteq Msg /\ Range(relay) \subseteq Msg /\ Range(inbox) \subseteq Msg
        /\ Range(pending) \subseteq Msg /\ Range(heard) \subseteq Msg /\ sent \in Nat
        /\ \A n \in Msg : n \in Nat /\ 0 \notin Msg
    BY <1>2, Queues
  <1>1. /\ wire' = <<>> /\ Range(wire') = {}
        /\ future' = [m \in Msg |-> IF m \in Range(wire) THEN "failed" ELSE future[m]]
        /\ UNCHANGED <<sent, pending, watching, inline, relay, inbox, heard, path, missed>>
    BY QueueEmpty DEF LinkBreaks, acks, far
  <1>4. /\ Followed' = Followed /\ OnLink' \subseteq OnLink /\ Excused' = Excused
        /\ \A w : Only(w)' = Only(w)
    BY <1>1 DEF Followed, OnLink, Excused, Only
  <1>5. LinkTypeOK'
    BY <1>1, <1>2 DEF LinkTypeOK
  <1>6. Unsent' /\ Ways'
    BY <1>1, <1>2, <1>4 DEF Unsent, Ways
  <1>7. Alone'
    BY <1>1, <1>2, <1>4, QueueEmpty DEF Alone
  <1>8. Answers' /\ Traced'
    BY <1>1, <1>2, <1>4 DEF Answers, Traced
  <1>9. Twice'
    <2> SUFFICES ASSUME NEW n \in Msg PROVE Times(heard, n) + Copies(n)' <= 2
      BY <1>1 DEF Twice
    <2>1. Copies(n)' <= Copies(n) /\ Copies(n)' \in 0 .. 2 /\ Copies(n) \in 0 .. 2
      BY <1>1, <1>4 DEF Copies
    <2>2. Times(heard, n) \in Nat /\ Times(heard, n) + Copies(n) <= 2
      BY <1>2, Queues DEF Twice
    <2> QED
      BY <2>1, <2>2
  <1>10. Ordered'
    BY <1>1, <1>2, <1>4 DEF Ordered
  <1>11. PlainStep
    <2>1. Onway' \subseteq Onway /\ Onway \ Onway' \subseteq Range(wire) \ (Followed \union Range(relay))
      BY <1>1, <1>4 DEF Onway, OnLink
    <2>2. Onway \ Onway' \subseteq Range(heard) \union Excused
      BY <1>2, <2>1 DEF Traced
    <2> QED
      BY <1>1, <1>4, <2>1, <2>2, SettledStep
  <1> QED
    BY <1>5, <1>6, <1>7, <1>8, <1>9, <1>10, <1>11 DEF IInv

LEMMA StreamBreaksStep == IInv /\ StreamBreaks => IInv' /\ PlainStep
  <1> SUFFICES ASSUME IInv, StreamBreaks PROVE IInv' /\ PlainStep
    OBVIOUS
  <1>2. LinkTypeOK /\ Unsent /\ Ways /\ Alone /\ Answers /\ Traced /\ Twice /\ Ordered
    BY DEF IInv
  <1>3. /\ Range(wire) \subseteq Msg /\ Range(relay) \subseteq Msg /\ Range(inbox) \subseteq Msg
        /\ Range(pending) \subseteq Msg /\ Range(heard) \subseteq Msg /\ sent \in Nat
        /\ \A n \in Msg : n \in Nat /\ 0 \notin Msg
    BY <1>2, Queues
  <1>1. /\ relay' = <<>> /\ Range(relay') = {} /\ Misses(Range(relay), "broken")
        /\ UNCHANGED <<sent, wire, future, pending, watching, inline, inbox, heard, path>>
    BY QueueEmpty DEF StreamBreaks, acks, far
  <1>4. /\ missed' \in [Msg -> SUBSET {"broken", "unheard", "refused"}]
        /\ Excused' = Excused \union Range(relay)
    BY <1>1, <1>2, <1>3, MissEffect
  <1>5. Followed' = Followed /\ OnLink' = OnLink /\ \A w : Only(w)' = Only(w)
    BY <1>1 DEF Followed, OnLink, Only
  <1>6. LinkTypeOK'
    BY <1>1, <1>2, <1>4 DEF LinkTypeOK
  <1>7. Unsent' /\ Ways'
    BY <1>1, <1>2, <1>4, <1>5 DEF Unsent, Ways
  <1>8. Alone'
    BY <1>1, <1>2, <1>5, QueueEmpty DEF Alone
  <1>9. Answers' /\ Traced'
    BY <1>1, <1>2, <1>4, <1>5 DEF Answers, Traced
  <1>10. Twice'
    <2> SUFFICES ASSUME NEW n \in Msg PROVE Times(heard, n) + Copies(n)' <= 2
      BY <1>1 DEF Twice
    <2>1. Copies(n)' <= Copies(n) /\ Copies(n)' \in 0 .. 2 /\ Copies(n) \in 0 .. 2
      BY <1>1, <1>5 DEF Copies
    <2>2. Times(heard, n) \in Nat /\ Times(heard, n) + Copies(n) <= 2
      BY <1>2, Queues DEF Twice
    <2> QED
      BY <2>1, <2>2
  <1>11. Ordered'
    <2>1. InOrder(relay', Only("relay")')
      BY <1>1, QueueEmpty
    <2> QED
      BY <1>1, <1>2, <1>5, <2>1 DEF Ordered
  <1>12. PlainStep
    <2>1. Range(relay) \subseteq Onway /\ Onway' \subseteq Onway /\ Onway \ Onway' \subseteq Range(relay)
      BY <1>1, <1>5 DEF Onway
    <2> QED
      BY <1>1, <1>4, <2>1, ExcusedStep
  <1> QED
    BY <1>6, <1>7, <1>8, <1>9, <1>10, <1>11, <1>12 DEF IInv

(* The task is given m, or is not there to be given it: either way m is no    *)
(* longer where it came from, and that was the oldest of its way.             *)
LEMMA GiveEffect ==
    ASSUME LinkTypeOK, NEW m \in Msg, Give(m)
    PROVE  /\ missed' \in [Msg -> SUBSET {"broken", "unheard", "refused"}]
           /\ heard' \in Seq(Msg)
           /\ \/ heard' = Append(heard, m) /\ Excused' = Excused /\ m \in Range(heard')
              \/ heard' = heard /\ Excused' = Excused \union {m}
           /\ Range(heard) \subseteq Range(heard') /\ Range(heard') \subseteq Range(heard) \union {m}
           /\ \A n \in Msg : /\ Times(heard, n) \in Nat
                             /\ n # m => Times(heard', n) = Times(heard, n)
           /\ Times(heard', m) \in {Times(heard, m), Times(heard, m) + 1}
  <1>1. heard \in Seq(Msg) /\ {m} \subseteq Msg
    BY DEF LinkTypeOK
  <1>2. CASE peer = "serving"
    <2>1. heard' = Append(heard, m) /\ missed' = missed
      BY <1>2 DEF Give
    <2>2. /\ heard' \in Seq(Msg) /\ Range(heard') = Range(heard) \union {m}
      BY <1>1, <2>1, QueueAppend
    <2>3. \A n \in Msg : /\ Times(heard, n) \in Nat
                         /\ Times(heard', n) = IF n = m THEN Times(heard, n) + 1 ELSE Times(heard, n)
      BY <1>1, <2>1, TimesAppend
    <2> QED
      BY <2>1, <2>2, <2>3 DEF LinkTypeOK, Excused
  <1>3. CASE peer # "serving"
    <2>1. heard' = heard /\ Misses({m}, "unheard")
      BY <1>3 DEF Give
    <2>2. missed' \in [Msg -> SUBSET {"broken", "unheard", "refused"}] /\ Excused' = Excused \union {m}
      BY <1>1, <2>1, MissEffect
    <2> QED
      BY <1>1, <2>1, <2>2, TimesAppend
  <1> QED
    BY <1>2, <1>3

LEMMA PumpStep == IInv /\ Pump => IInv' /\ PlainStep
  <1> SUFFICES ASSUME IInv, Pump PROVE IInv' /\ PlainStep
    OBVIOUS
  <1>2. LinkTypeOK /\ Unsent /\ Ways /\ Alone /\ Answers /\ Traced /\ Twice /\ Ordered
    BY DEF IInv
  <1>3. /\ Range(wire) \subseteq Msg /\ Range(relay) \subseteq Msg /\ Range(inbox) \subseteq Msg
        /\ Range(pending) \subseteq Msg /\ Range(heard) \subseteq Msg /\ sent \in Nat
        /\ \A n \in Msg : n \in Nat /\ 0 \notin Msg
    BY <1>2, Queues
  <1> DEFINE m == Head(inbox)
  <1>1. /\ inbox # <<>> /\ inbox' = Tail(inbox) /\ Give(m)
        /\ UNCHANGED <<sent, wire, future, pending, watching, inline, relay, path>>
    BY DEF Pump, acks
  <1>4. /\ m \in Msg /\ inbox' \in Seq(Msg) /\ InOrder(inbox', Msg)
        /\ Range(inbox) = Range(inbox') \union {m}
        /\ \A x \in Range(inbox') : m < x
    <2>1. inbox \in Seq(Msg) /\ InOrder(inbox, Msg)
      BY <1>2 DEF LinkTypeOK, Alone
    <2>2. /\ m \in Msg /\ inbox' \in Seq(Msg) /\ InOrder(inbox', Msg)
          /\ Range(inbox) = Range(inbox') \union {m}
          /\ \A x \in Range(inbox') \cap Msg : m < x
      BY <1>1, <2>1, QueueTail
    <2> QED
      BY <1>3, <2>2
  <1>5. \A x \in Range(wire) : m < x
    BY <1>2, <1>4 DEF Alone
  <1>6. m \notin Range(inbox') \union Range(wire) /\ OnLink' = OnLink \ {m} /\ m \in OnLink
        /\ Followed' = Followed /\ \A w : Only(w)' = Only(w)
    BY <1>1, <1>3, <1>4, <1>5 DEF OnLink, Followed, Only
  <1>7. /\ missed' \in [Msg -> SUBSET {"broken", "unheard", "refused"}]
        /\ heard' \in Seq(Msg)
        /\ \/ heard' = Append(heard, m) /\ Excused' = Excused /\ m \in Range(heard')
           \/ heard' = heard /\ Excused' = Excused \union {m}
        /\ Range(heard) \subseteq Range(heard') /\ Range(heard') \subseteq Range(heard) \union {m}
        /\ \A n \in Msg : /\ Times(heard, n) \in Nat
                          /\ n # m => Times(heard', n) = Times(heard, n)
        /\ Times(heard', m) \in {Times(heard, m), Times(heard, m) + 1}
    BY <1>1, <1>2, <1>4, GiveEffect
  <1>8. m \notin Only("relay")
    BY <1>2, <1>6 DEF Ways, Only
  <1>9. LinkTypeOK'
    BY <1>1, <1>2, <1>4, <1>7 DEF LinkTypeOK
  <1>10. Unsent' /\ Ways'
    BY <1>1, <1>2, <1>6, <1>7 DEF Unsent, Ways
  <1>11. Alone'
    BY <1>1, <1>2, <1>4, <1>6 DEF Alone
  <1>12. Answers' /\ Traced'
    BY <1>1, <1>2, <1>4, <1>6, <1>7 DEF Answers, Traced
  <1>13. Twice'
    <2> SUFFICES ASSUME NEW n \in Msg PROVE Times(heard', n) + Copies(n)' <= 2
      BY DEF Twice
    <2>1. Times(heard, n) \in Nat /\ Times(heard, n) + Copies(n) <= 2
      BY <1>2, <1>7 DEF Twice
    <2>2. CASE n = m
      <3>1. Copies(n)' = Copies(n) - 1 /\ Copies(n) \in 0 .. 2
        BY <1>1, <1>6, <2>2 DEF Copies
      <3>2. Times(heard', n) <= Times(heard, n) + 1 /\ Times(heard', n) \in Nat
        BY <1>4, <1>7, <2>2
      <3> QED
        BY <2>1, <3>1, <3>2
    <2>3. CASE n # m
      <3>1. Copies(n)' = Copies(n)
        BY <1>1, <1>6, <2>3 DEF Copies
      <3> QED
        BY <1>7, <2>1, <2>3, <3>1
    <2> QED
      BY <2>2, <2>3
  <1>14. Ordered'
    <2>1. /\ InOrder(heard, Only("direct")) /\ InOrder(heard, Only("relay")) /\ heard \in Seq(Msg)
          /\ \A x \in Range(heard) \cap Only("direct") : x < m
      BY <1>2, <1>6 DEF Ordered, LinkTypeOK
    <2>2. InOrder(heard', Only("direct")) /\ InOrder(heard', Only("relay"))
      <3>1. CASE heard' = Append(heard, m)
        BY <1>4, <1>8, <2>1, <3>1, QueueAppend
      <3> QED
        BY <1>7, <2>1, <3>1
    <2>3. \A y \in OnLink' : m < y
      BY <1>1, <1>4, <1>5 DEF OnLink
    <2>4. \A x \in Range(heard') \cap Only("direct"), y \in OnLink' : x < y
      BY <1>2, <1>6, <1>7, <2>3 DEF Ordered
    <2>5. \A x \in Range(heard') \cap Only("relay"), y \in Range(relay) \cap Only("relay") : x < y
      BY <1>2, <1>7, <1>8 DEF Ordered
    <2> QED
      BY <1>1, <1>2, <1>6, <2>2, <2>4, <2>5 DEF Ordered
  <1>15. PlainStep
    <2>1. m \in Onway /\ Onway' \in {Onway, Onway \ {m}}
      BY <1>1, <1>6 DEF Onway
    <2>2. Times(heard, m) < 2
      <3>1. Copies(m) >= 1 /\ Copies(m) \in 0 .. 2
        BY <1>6 DEF Copies
      <3> QED
        BY <1>2, <1>4, <1>7, <3>1 DEF Twice
    <2>3. CASE heard' = Append(heard, m) /\ Excused' = Excused
      BY <1>1, <2>1, <2>2, <2>3, HeardStep
    <2>4. CASE heard' = heard /\ Excused' = Excused \union {m}
      BY <1>1, <2>1, <2>4, ExcusedStep
    <2> QED
      BY <1>7, <2>3, <2>4
  <1> QED
    BY <1>9, <1>10, <1>11, <1>12, <1>13, <1>14, <1>15 DEF IInv

LEMMA TakesFirst ==
    ASSUME LinkTypeOK, RelayDelivers
    PROVE  /\ relay # <<>> /\ relay' = Tail(relay) /\ Give(Head(relay))
           /\ UNCHANGED <<sent, wire, future, pending, watching, inline, inbox, path>>
  <1>1. PICK i \in Relayed : /\ Give(relay[i]) /\ relay' = RemoveAt(relay, i)
                             /\ UNCHANGED <<sent, wire, future, pending, watching, inline, inbox, path>>
    BY DEF RelayDelivers, acks
  <1>2. relay # <<>> /\ i = 1
    BY <1>1 DEF Relayed
  <1>3. relay[1] = Head(relay) /\ RemoveAt(relay, 1) = Tail(relay)
    BY <1>2, QueueRange, FirstOut DEF LinkTypeOK
  <1> QED
    BY <1>1, <1>2, <1>3

LEMMA RelayDeliversStep == IInv /\ RelayDelivers => IInv' /\ PlainStep
  <1> SUFFICES ASSUME IInv, RelayDelivers PROVE IInv' /\ PlainStep
    OBVIOUS
  <1>2. LinkTypeOK /\ Unsent /\ Ways /\ Alone /\ Answers /\ Traced /\ Twice /\ Ordered
    BY DEF IInv
  <1>3. /\ Range(wire) \subseteq Msg /\ Range(relay) \subseteq Msg /\ Range(inbox) \subseteq Msg
        /\ Range(pending) \subseteq Msg /\ Range(heard) \subseteq Msg /\ sent \in Nat
        /\ \A n \in Msg : n \in Nat /\ 0 \notin Msg
    BY <1>2, Queues
  <1> DEFINE m == Head(relay)
  <1>1. /\ relay # <<>> /\ relay' = Tail(relay) /\ Give(m)
        /\ UNCHANGED <<sent, wire, future, pending, watching, inline, inbox, path>>
    BY <1>2, TakesFirst
  <1>4. /\ m \in Msg /\ relay' \in Seq(Msg) /\ NoneTwice(relay') /\ InOrder(relay', Only("relay"))
        /\ Range(relay) = Range(relay') \union {m} /\ m \notin Range(relay')
        /\ m \in Only("relay") => \A x \in Range(relay') \cap Only("relay") : m < x
    <2>1. relay \in Seq(Msg) /\ NoneTwice(relay) /\ InOrder(relay, Only("relay"))
      BY <1>2 DEF LinkTypeOK, Alone, Ordered
    <2> QED
      BY <1>1, <2>1, QueueTail
  <1>5. OnLink' = OnLink /\ Followed' = Followed /\ \A w : Only(w)' = Only(w)
    BY <1>1 DEF OnLink, Followed, Only
  <1>6. m \notin Followed /\ m \in Followed \union Range(relay)
        /\ m \notin Followed' \union Range(relay')
    BY <1>2, <1>4, <1>5 DEF Alone
  <1>7. /\ missed' \in [Msg -> SUBSET {"broken", "unheard", "refused"}]
        /\ heard' \in Seq(Msg)
        /\ \/ heard' = Append(heard, m) /\ Excused' = Excused /\ m \in Range(heard')
           \/ heard' = heard /\ Excused' = Excused \union {m}
        /\ Range(heard) \subseteq Range(heard') /\ Range(heard') \subseteq Range(heard) \union {m}
        /\ \A n \in Msg : /\ Times(heard, n) \in Nat
                          /\ n # m => Times(heard', n) = Times(heard, n)
        /\ Times(heard', m) \in {Times(heard, m), Times(heard, m) + 1}
    BY <1>1, <1>2, <1>4, GiveEffect
  <1>8. m \notin Only("direct")
    BY <1>2, <1>4 DEF Ways, Only
  <1>9. LinkTypeOK'
    BY <1>1, <1>2, <1>4, <1>7 DEF LinkTypeOK
  <1>10. Unsent' /\ Ways'
    BY <1>1, <1>2, <1>4, <1>5, <1>7 DEF Unsent, Ways
  <1>11. Alone'
    BY <1>1, <1>2, <1>4, <1>5 DEF Alone
  <1>12. Answers' /\ Traced'
    BY <1>1, <1>2, <1>4, <1>5, <1>7 DEF Answers, Traced
  <1>13. Twice'
    <2> SUFFICES ASSUME NEW n \in Msg PROVE Times(heard', n) + Copies(n)' <= 2
      BY DEF Twice
    <2>1. Times(heard, n) \in Nat /\ Times(heard, n) + Copies(n) <= 2
      BY <1>2, <1>7 DEF Twice
    <2>2. CASE n = m
      <3>1. Copies(n)' = Copies(n) - 1 /\ Copies(n) \in 0 .. 2
        BY <1>1, <1>5, <1>6, <2>2 DEF Copies
      <3>2. Times(heard', n) <= Times(heard, n) + 1 /\ Times(heard', n) \in Nat
        BY <1>4, <1>7, <2>2
      <3> QED
        BY <2>1, <3>1, <3>2
    <2>3. CASE n # m
      <3>1. Copies(n)' = Copies(n)
        BY <1>1, <1>4, <1>5, <2>3 DEF Copies
      <3> QED
        BY <1>7, <2>1, <2>3, <3>1
    <2> QED
      BY <2>2, <2>3
  <1>14. Ordered'
    <2>1. /\ InOrder(heard, Only("direct")) /\ InOrder(heard, Only("relay")) /\ heard \in Seq(Msg)
          /\ m \in Only("relay") => \A x \in Range(heard) \cap Only("relay") : x < m
      BY <1>2, <1>4 DEF Ordered, LinkTypeOK
    <2>2. InOrder(heard', Only("direct")) /\ InOrder(heard', Only("relay"))
      <3>1. CASE heard' = Append(heard, m)
        BY <1>4, <1>8, <2>1, <3>1, QueueAppend
      <3> QED
        BY <1>7, <2>1, <3>1
    <2>3. \A x \in Range(heard') \cap Only("direct"), y \in OnLink : x < y
      BY <1>2, <1>7, <1>8 DEF Ordered
    <2>4. \A x \in Range(heard') \cap Only("relay"), y \in Range(relay') \cap Only("relay") : x < y
      BY <1>2, <1>4, <1>7 DEF Ordered
    <2> QED
      BY <1>1, <1>2, <1>4, <1>5, <2>2, <2>3, <2>4 DEF Ordered
  <1>15. PlainStep
    <2>1. m \in Onway /\ Onway' \in {Onway, Onway \ {m}}
      BY <1>4, <1>5, <1>6 DEF Onway
    <2>2. Times(heard, m) < 2
      <3>1. Copies(m) >= 1 /\ Copies(m) \in 0 .. 2
        BY <1>4, <1>6 DEF Copies
      <3> QED
        BY <1>2, <1>4, <1>7, <3>1 DEF Twice
    <2>3. CASE heard' = Append(heard, m) /\ Excused' = Excused
      BY <1>1, <2>1, <2>2, <2>3, HeardStep
    <2>4. CASE heard' = heard /\ Excused' = Excused \union {m}
      BY <1>1, <2>1, <2>4, ExcusedStep
    <2> QED
      BY <1>7, <2>3, <2>4
  <1> QED
    BY <1>9, <1>10, <1>11, <1>12, <1>13, <1>14, <1>15 DEF IInv

LEMMA InitIInv == LinkInit => IInv
  <1> SUFFICES ASSUME LinkInit PROVE IInv
    OBVIOUS
  <1>1. /\ sent = 0 /\ wire = <<>> /\ future = [m \in Msg |-> "none"]
        /\ pending = <<>> /\ watching = 0 /\ inline = 0 /\ relay = <<>> /\ inbox = <<>>
        /\ heard = <<>> /\ path = [m \in Msg |-> {}] /\ missed = [m \in Msg |-> {}]
    BY DEF LinkInit
  <1>2. OnLink = {} /\ Range(relay) = {} /\ Followed = {} /\ Range(heard) = {} /\ Excused = {}
        /\ Range(wire) = {} /\ Range(inbox) = {} /\ Range(pending) = {}
    BY <1>1, QueueEmpty DEF OnLink, Followed, Excused
  <1>3. LinkTypeOK
    BY <1>1, LinksAssumption DEF LinkTypeOK, Way
  <1>4. Unsent
    BY <1>1, <1>2, LinksAssumption DEF Unsent, Msg
  <1>5. Ways /\ Answers /\ Traced
    BY <1>1, <1>2 DEF Ways, Answers, Traced
  <1>6. Alone
    BY <1>1, <1>2, QueueEmpty DEF Alone
  <1>7. Twice
    <2> SUFFICES ASSUME NEW m \in Msg PROVE Times(heard, m) + Copies(m) <= 2
      BY DEF Twice
    <2>1. Times(heard, m) = 0
      BY <1>2, <1>3, NeverHeard DEF LinkTypeOK
    <2>2. Copies(m) \in 0 .. 2
      BY DEF Copies
    <2> QED
      BY <2>1, <2>2
  <1>8. Ordered
    BY <1>1, <1>2, QueueEmpty DEF Ordered
  <1> QED
    BY <1>3, <1>4, <1>5, <1>6, <1>7, <1>8 DEF IInv

LEMMA StepIInv == IInv /\ [LinkNext]_linkVars => IInv' /\ PlainStep
  <1>1. IInv /\ Quiet => IInv' /\ PlainStep
    BY QuietKeeps, QuietStep
  <1> QED
    BY <1>1, SendDirectStep, SendRelayedStep, WatchStep, FollowStep, ArriveStep, LinkBreaksStep,
       PumpStep, RelayDeliversStep, StreamBreaksStep DEF LinkNext, Quiet

LEMMA Inductive == LinkSpec => []IInv
  BY InitIInv, StepIInv, PTL DEF LinkSpec

(* Whatever path fails, comes back or is chosen anew, and however the link    *)
(* and the relay interleave, messages that went one way alone are heard in    *)
(* the order they were sent and once each (links.py, LinkTable.send; peer.py, *)
(* pump).                                                                     *)
THEOREM OneWayKeepsOrder == LinkSpec => []OrderOnOnePath
  <1>1. IInv => OrderOnOnePath
    <2> SUFFICES ASSUME IInv, NEW i \in 1 .. Len(heard), NEW j \in 1 .. Len(heard),
                        i < j, path[heard[i]] = path[heard[j]], path[heard[i]] # {"direct", "relay"}
                 PROVE  heard[i] < heard[j]
      BY DEF OrderOnOnePath
    <2>1. /\ LinkTypeOK /\ Unsent /\ InOrder(heard, Only("direct")) /\ InOrder(heard, Only("relay"))
      BY DEF IInv, Ordered
    <2>2. heard[i] \in Range(heard) /\ heard[i] \in Msg /\ heard[j] \in Msg
      BY <2>1, QueueRange DEF LinkTypeOK
    <2>3. path[heard[i]] # {} /\ path[heard[i]] \subseteq {"direct", "relay"}
      <3>1. heard[i] \in 1 .. sent
        BY <2>1, <2>2 DEF Unsent
      <3>2. ~(heard[i] > sent)
        BY <2>1, <3>1 DEF LinkTypeOK
      <3> QED
        BY <2>1, <2>2, <3>2 DEF Unsent, LinkTypeOK, Way
    <2>4. path[heard[i]] = {"direct"} \/ path[heard[i]] = {"relay"}
      BY <2>3
    <2>5. \/ heard[i] \in Only("direct") /\ heard[j] \in Only("direct")
          \/ heard[i] \in Only("relay") /\ heard[j] \in Only("relay")
      BY <2>2, <2>4 DEF Only
    <2> QED
      BY <2>1, <2>5 DEF InOrder
  <1> QED
    BY <1>1, Inductive, PTL

(* Under the invariant nothing is under way or excused that was not sent, so  *)
(* that what was shown of Onway and Excused is about Channel.                 *)
LEMMA SameChannel ==
    IInv => Onway = {m \in 1 .. sent : Underway(m)} /\ Excused = {m \in 1 .. sent : missed[m] # {}}
  <1> SUFFICES ASSUME IInv
               PROVE  Onway = {m \in 1 .. sent : Underway(m)}
                      /\ Excused = {m \in 1 .. sent : missed[m] # {}}
    OBVIOUS
  <1>1. LinkTypeOK /\ Unsent
    BY DEF IInv
  <1>2. Onway \union Excused \subseteq 1 .. sent /\ 1 .. sent \subseteq Msg /\ 0 \notin 1 .. sent
    BY <1>1, LinksAssumption DEF Unsent, LinkTypeOK, Onway, Msg
  <1>3. \A m \in 1 .. sent : Underway(m) <=> m \in Onway
    BY <1>2 DEF Underway, Onway, OnLink, Followed
  <1> QED
    BY <1>2, <1>3 DEF Excused

(* "Never let a direct-path failure lose a token" (links.py): every behaviour *)
(* of the sender, the link, the watcher, the relay and the receiver is one    *)
(* that Delivery allows, for any number of messages and any sizes of the      *)
(* queues.                                                                    *)
THEOREM LinksImplementDelivery == LinkSpec => NothingVanishes
  <1>1. LinkInit => Channel!DeliveryInit
    <2>1. LinkInit => IInv /\ sent = 0 /\ heard = <<>>
      BY InitIInv DEF LinkInit
    <2> QED
      BY <2>1 DEF Channel!DeliveryInit
  <1>2. IInv /\ IInv' /\ PlainStep => [Channel!DeliveryNext]_(Channel!deliveryVars)
    <2> SUFFICES ASSUME IInv, IInv', PlainStep
                 PROVE  [Channel!DeliveryNext]_(Channel!deliveryVars)
      OBVIOUS
    <2>1. Onway = {m \in 1 .. sent : Underway(m)} /\ Excused = {m \in 1 .. sent : missed[m] # {}}
      BY SameChannel
    <2>2. (IInv => Onway = {m \in 1 .. sent : Underway(m)} /\ Excused = {m \in 1 .. sent : missed[m] # {}})'
      BY SameChannel, PTL
    <2> DEFINE away == {m \in 1 .. sent : Underway(m)}
               excused == {m \in 1 .. sent : missed[m] # {}}
    <2>3. away = Onway /\ excused = Excused /\ away' = Onway' /\ excused' = Excused'
      BY <2>1, <2>2
    <2>4. Channel!deliveryVars = <<sent, away, heard, excused>>
          /\ Channel!deliveryVars' = <<sent, away, heard, excused>>'
      BY DEF Channel!deliveryVars
    <2>5. ASSUME Plain!Send PROVE Channel!Send
      BY <2>3, <2>5 DEF Plain!Send, Channel!Send
    <2>6. ASSUME NEW m \in Onway, Plain!Hear(m) PROVE m \in away /\ Channel!Hear(m)
      <3>1. Channel!TimesHeard(m) = Plain!TimesHeard(m)
        BY SameLibrary DEF Plain!TimesHeard, Channel!TimesHeard
      <3> QED
        BY <2>3, <2>6, <3>1 DEF Plain!Hear, Channel!Hear
    <2>7. ASSUME NEW some \in (SUBSET Onway) \ {{}}, Plain!Excuse(some)
          PROVE  some \in (SUBSET away) \ {{}} /\ Channel!Excuse(some)
      BY <2>3, <2>7 DEF Plain!Excuse, Channel!Excuse
    <2>8. ASSUME NEW some \in (SUBSET Onway) \ {{}}, Plain!Settled(some)
          PROVE  some \in (SUBSET away) \ {{}} /\ Channel!Settled(some)
      BY <2>3, <2>8, SameLibrary DEF Plain!Settled, Channel!Settled
    <2>9. CASE UNCHANGED Plain!deliveryVars
      BY <2>3, <2>4, <2>9 DEF Plain!deliveryVars
    <2> QED
      BY <2>5, <2>6, <2>7, <2>8, <2>9 DEF PlainStep, Plain!DeliveryNext, Channel!DeliveryNext
  <1> QED
    BY <1>1, <1>2, StepIInv, Inductive, PTL DEF LinkSpec, NothingVanishes, Channel!DeliverySpec

(* -------------------------------------------------------------- tunnels --- *)
(* A connection is asked for once, before anything else that is sent of it.   *)
Calls == {"connect", "close"}
OnceAsked(q) == q \in Seq(Calls) /\ \A i \in 2 .. Len(q) : q[i] = "close"
Asks(q) == q # <<>> /\ Head(q) = "connect"

LEMMA CallsGoOn ==
    ASSUME NEW q, OnceAsked(q)
    PROVE  /\ OnceAsked(Append(q, "close")) /\ (Asks(Append(q, "close")) <=> Asks(q))
           /\ q # <<>> => OnceAsked(Tail(q)) /\ ~Asks(Tail(q))
  <1>1. q \in Seq(Calls) /\ \A i \in 2 .. Len(q) : q[i] = "close"
    BY DEF OnceAsked
  <1>2. OnceAsked(Append(q, "close"))
    BY <1>1 DEF OnceAsked, Calls
  <1>3. Asks(Append(q, "close")) <=> Asks(q)
    <2>1. CASE q = <<>>
      BY <2>1 DEF Asks
    <2>2. CASE q # <<>>
      <3>1. Append(q, "close")[1] = q[1] /\ Append(q, "close") # <<>> /\ Append(q, "close") \in Seq(Calls)
        BY <1>1, <2>2 DEF Calls
      <3> QED
        BY <1>1, <2>2, <3>1 DEF Asks
    <2> QED
      BY <2>1, <2>2
  <1>4. ASSUME q # <<>> PROVE OnceAsked(Tail(q)) /\ ~Asks(Tail(q))
    <2>1. Tail(q) \in Seq(Calls) /\ Len(Tail(q)) = Len(q) - 1
          /\ \A i \in 1 .. Len(Tail(q)) : Tail(q)[i] = q[i + 1]
      BY <1>1, <1>4
    <2>2. \A i \in 1 .. Len(Tail(q)) : Tail(q)[i] = "close"
      BY <1>1, <2>1
    <2>3. OnceAsked(Tail(q))
      BY <2>1, <2>2 DEF OnceAsked
    <2>4. Tail(q) # <<>> => Head(Tail(q)) = "close"
      <3>1. ASSUME NEW r \in Seq(Calls), r # <<>> PROVE 1 \in 1 .. Len(r) /\ Head(r) = r[1]
        BY <3>1
      <3> QED
        BY <2>1, <2>2, <3>1
    <2> QED
      BY <2>3, <2>4 DEF Asks
  <1> QED
    BY <1>2, <1>3, <1>4

TunnelTypes ==
    /\ task \in [Opener -> {"new", "running", "releasing", "forgotten", "ended", "done"}]
    /\ opened \in [Opener -> SUBSET UNION {PortsOf[t] : t \in Opener}]
    /\ near \in [Conn -> {"idle", "opening", "open", "closed"}]
    /\ call \in [Conn -> Seq(Calls)] /\ line \in [Conn -> Seq(Nat)] /\ said \in [Conn -> Nat]
    /\ dialing \subseteq Conn /\ accepted \subseteq dialing /\ conns \subseteq Conn
    /\ read \subseteq Conn /\ cut \subseteq torn

PortsNeeded == \A p \in allowed : \E t \in Opener : task[t] # "done" /\ p \in opened[t]

(* How far each connection is.  While it is asked for or dialed it is not in  *)
(* the table, and its opener waits, if its link holds; nothing is on the way  *)
(* to an opener that waits.  What comes through the orchestrator is read from *)
(* its entry on.                                                              *)
ConnOK(c) ==
    /\ OnceAsked(call[c])
    /\ c \in dialing => Asks(call[c])
    /\ Asks(call[c]) => c \notin conns
    /\ near[c] = "idle" =>
          ~Asks(call[c]) /\ call[c] = <<>> /\ c \notin conns \union read /\ line[c] = <<>>
    /\ c \in Outside => (c \in conns => c \in read)
    /\ c \notin Outside =>
          /\ Asks(call[c]) /\ c \notin torn => near[c] = "opening"
          /\ near[c] = "opening" => line[c] = <<>> /\ c \notin read
          /\ c \in conns \ read => near[c] = "opening" \/ c \in torn
ConnsOK == \A c \in Conn : ConnOK(c)

TunnelInv == TunnelTypes /\ PortsNeeded /\ ConnsOK

LEMMA TunnelsBegin == TunnelInit => TunnelInv
  <1> SUFFICES ASSUME TunnelInit PROVE TunnelInv
    OBVIOUS
  <1>1. TunnelTypes
    BY DEF TunnelInit, TunnelTypes, Calls
  <1>2. PortsNeeded
    BY DEF TunnelInit, PortsNeeded
  <1>3. \A c \in Conn : call[c] = <<>> /\ near[c] = "idle" /\ line[c] = <<>> /\ c \notin dialing \union conns \union read
    BY DEF TunnelInit
  <1>4. OnceAsked(<<>>) /\ ~Asks(<<>>)
    BY DEF OnceAsked, Asks
  <1>5. ConnsOK
    BY <1>3, <1>4 DEF ConnsOK, ConnOK
  <1> QED
    BY <1>1, <1>2, <1>5 DEF TunnelInv

(* What a step of a task leaves of the connections.                           *)
LEMMA ConnsStay ==
    ASSUME ConnsOK, conns' \subseteq conns,
           UNCHANGED <<near, call, dialing, accepted, read, data, breakage>>
    PROVE  ConnsOK'
  BY DEF ConnsOK, ConnOK, data, breakage

LEMMA TasksStep ==
    ASSUME TunnelInv, NEW t \in Opener,
           Forward(t) \/ Release(t) \/ ReleaseForgets(t) \/ ProcessEnds(t) \/ CarryOutForgets(t)
    PROVE  TunnelInv'
  <1> USE DEF TunnelInv
  <1>1. /\ UNCHANGED <<near, call, dialing, accepted, read, data, breakage>>
        /\ conns' \subseteq conns
    BY DEF Forward, Release, ReleaseForgets, ProcessEnds, CarryOutForgets, Becomes, Forget
  <1>2. ConnsOK'
    BY <1>1, ConnsStay
  <1>3. CASE Forward(t)
    <2>1. /\ task[t] # "done" /\ opened[t] = {} /\ task' = [task EXCEPT ![t] = IF @ = "new" THEN "running" ELSE @]
          /\ opened' = [opened EXCEPT ![t] = PortsOf[t]] /\ allowed' = allowed \union PortsOf[t]
          /\ conns' = conns
      BY <1>3 DEF Forward
    <2>2. TunnelTypes'
      BY <1>1, <2>1 DEF TunnelTypes, data, breakage
    <2>3. PortsNeeded'
      BY <2>1 DEF PortsNeeded, TunnelTypes
    <2> QED
      BY <1>2, <2>2, <2>3
  <1>4. CASE Release(t) \/ ProcessEnds(t)
    <2>1. PICK next \in {"releasing", "ended"} : task' = [task EXCEPT ![t] = next]
      BY <1>4 DEF Release, ProcessEnds, Becomes
    <2>2. UNCHANGED <<opened, allowed, conns>>
      BY <1>4 DEF Release, ProcessEnds
    <2>3. TunnelTypes' /\ PortsNeeded'
      BY <1>1, <2>1, <2>2 DEF TunnelTypes, PortsNeeded, data, breakage
    <2> QED
      BY <1>2, <2>3
  <1>5. CASE ReleaseForgets(t) \/ CarryOutForgets(t)
    <2>1. PICK next \in {"forgotten", "done"} : task' = [task EXCEPT ![t] = next]
      BY <1>5 DEF ReleaseForgets, CarryOutForgets, Becomes
    <2>2. /\ allowed' = allowed \ opened[t] /\ opened' = [opened EXCEPT ![t] = {}]
          /\ conns' \subseteq conns
      BY <1>5 DEF ReleaseForgets, CarryOutForgets, Forget, ClosePorts
    <2>3. TunnelTypes'
      BY <1>1, <2>1, <2>2 DEF TunnelTypes, data, breakage
    <2>4. PortsNeeded'
      BY <2>1, <2>2 DEF TunnelTypes, PortsNeeded
    <2> QED
      BY <1>2, <2>3, <2>4
  <1> QED
    BY <1>3, <1>4, <1>5

LEMMA OpenStep ==
    ASSUME TunnelInv, NEW c \in Conn, Open(c)
    PROVE  ConnsOK'
  <1>1. /\ near[c] = "idle" /\ near' = [near EXCEPT ![c] = "opening"]
        /\ call' = [call EXCEPT ![c] = <<"connect">>]
        /\ UNCHANGED <<dialing, conns, read, line, torn>>
    BY DEF Open, data, breakage
  <1>2. OnceAsked(<<"connect">>) /\ Asks(<<"connect">>)
    BY DEF OnceAsked, Asks, Calls
  <1>3. near \in [Conn -> {"idle", "opening", "open", "closed"}] /\ call \in [Conn -> Seq(Calls)] /\ ConnsOK
    BY DEF TunnelInv, TunnelTypes
  <1> QED
    BY <1>1, <1>2, <1>3 DEF ConnsOK, ConnOK

LEMMA AnswerStep ==
    ASSUME TunnelInv, NEW c \in Conn, RefuseConn(c) \/ DialFails(c) \/ Enter(c) \/ Close(c)
    PROVE  ConnsOK'
  <1>1. /\ call[c] # <<>> /\ call' = [call EXCEPT ![c] = Tail(@)] /\ torn' = torn
        /\ ConnsOK /\ TunnelTypes
    BY DEF TunnelInv, TunnelTypes, ConnsOK, ConnOK, Asks, RefuseConn, DialFails, Enter, Close, Called, Handled, breakage
  <1>2. OnceAsked(call'[c]) /\ ~Asks(call'[c]) /\ \A d \in Conn : d # c => call'[d] = call[d]
    BY <1>1, CallsGoOn DEF TunnelTypes, ConnsOK, ConnOK
  <1>3. c \notin dialing'
    BY <1>1 DEF RefuseConn, DialFails, Enter, Close, Called, ConnsOK, ConnOK, Asks
  <1>4. near[c] # "idle"
    BY <1>1 DEF ConnsOK, ConnOK
  <1>5. CASE RefuseConn(c) \/ DialFails(c)
    <2>1. Asks(call[c]) /\ dialing' \subseteq dialing /\ UNCHANGED <<conns, read>>
      BY <1>1, <1>5 DEF RefuseConn, DialFails, Called, Asks, ConnsOK, ConnOK, TunnelTypes
    <2>2. \/ c \in cut /\ UNCHANGED <<near, line>>
          \/ c \in Outside /\ (\A d \in Conn : d # c => line'[d] = line[d]) /\ near' = near
          \/ c \notin Outside /\ near' = [near EXCEPT ![c] = "closed"] /\ line' = line
      BY <1>1, <1>5 DEF RefuseConn, DialFails, Replied, TunnelTypes
    <2>3. c \notin conns /\ c \in cut => c \in torn
      BY <1>1, <2>1 DEF ConnsOK, ConnOK, TunnelTypes
    <2>4. ASSUME NEW d \in Conn PROVE ConnOK(d)'
      <3>1. CASE d = c
        BY <1>1, <1>2, <1>3, <1>4, <2>1, <2>2, <2>3, <3>1 DEF ConnsOK, ConnOK, TunnelTypes
      <3>2. CASE d # c
        BY <1>1, <1>2, <2>1, <2>2, <3>2 DEF ConnsOK, ConnOK, TunnelTypes
      <3> QED
        BY <3>1, <3>2
    <2> QED
      BY <2>4 DEF ConnsOK
  <1>6. CASE Enter(c)
    <2>1. /\ c \in dialing /\ dialing' = dialing \ {c} /\ conns' = conns \union {c}
          /\ read' = IF c \in Outside THEN read \union {c} ELSE read
          /\ UNCHANGED <<near, line>>
      BY <1>1, <1>6 DEF Enter, data, TunnelTypes
    <2>2. c \notin Outside => near[c] = "opening" \/ c \in torn
      BY <1>1, <2>1 DEF ConnsOK, ConnOK
    <2> QED
      BY <1>1, <1>2, <1>4, <2>1, <2>2 DEF ConnsOK, ConnOK
  <1>7. CASE Close(c)
    <2>1. conns' = conns \ {c} /\ UNCHANGED <<near, line, dialing, read>>
      BY <1>7 DEF Close, data
    <2> QED
      BY <1>1, <1>2, <1>3, <1>4, <2>1 DEF ConnsOK, ConnOK
  <1> QED
    BY <1>5, <1>6, <1>7

LEMMA ReadStep ==
    ASSUME TunnelInv, NEW c \in Conn,
           Dial(c) \/ Accept(c) \/ Stream(c) \/ Talk(c) \/ Finish(c) \/ Mend(c)
    PROVE  ConnsOK'
  <1>1. TunnelTypes /\ ConnsOK /\ torn' = torn /\ call' = call
    BY DEF TunnelInv, Dial, Accept, Stream, Talk, Finish, Mend, breakage
  <1>2. CASE Dial(c)
    <2>1. dialing' = dialing \union {c} /\ Asks(call[c]) /\ UNCHANGED <<near, conns, read, line>>
      BY <1>2 DEF Dial, Called, Asks, data
    <2> QED
      BY <1>1, <2>1 DEF ConnsOK, ConnOK
  <1>3. CASE Accept(c) \/ Mend(c)
    <2>1. UNCHANGED <<near, conns, read, line, dialing>>
      BY <1>3 DEF Accept, Mend, data
    <2> QED
      BY <1>1, <2>1 DEF ConnsOK, ConnOK
  <1>4. CASE Stream(c)
    <2>1. /\ c \notin Outside /\ call[c] = <<>> /\ near' = [near EXCEPT ![c] = "open"]
          /\ UNCHANGED <<dialing, conns>>
          /\ \/ c \in conns /\ read' = read \union {c} /\ line' = line
             \/ c \notin conns /\ read' = read /\ \A d \in Conn : d # c => line'[d] = line[d]
      <3>1. call[c] \in Seq(Calls)
        BY <1>1 DEF TunnelTypes
      <3>2. call[c] # <<>> => Head(call[c]) # "nothing"
        BY <3>1 DEF Calls
      <3> QED
        BY <1>1, <1>4, <3>2 DEF Stream, Called, TunnelTypes
    <2> QED
      BY <1>1, <2>1 DEF ConnsOK, ConnOK, TunnelTypes, Asks
  <1>5. CASE Talk(c) \/ Finish(c)
    <2>1. /\ c \in read /\ \A d \in Conn : d # c => line'[d] = line[d]
          /\ UNCHANGED <<near, dialing>>
          /\ \/ UNCHANGED <<conns, read>>
             \/ conns' = conns \ {c} /\ read' = read \ {c}
      BY <1>1, <1>5 DEF Talk, Finish, Sent, TunnelTypes
    <2>2. near[c] # "idle" /\ (c \notin Outside => near[c] # "opening")
      BY <1>1, <2>1 DEF ConnsOK, ConnOK
    <2> QED
      BY <1>1, <2>1, <2>2 DEF ConnsOK, ConnOK, TunnelTypes
  <1> QED
    BY <1>2, <1>3, <1>4, <1>5

LEMMA CloseStep ==
    ASSUME TunnelInv, NEW c \in Conn, Carry(c) \/ HangUp(c)
    PROVE  ConnsOK'
  <1>1. /\ TunnelTypes /\ ConnsOK /\ UNCHANGED <<torn, dialing, conns, read>>
        /\ \A d \in Conn : d # c => line'[d] = line[d]
    BY DEF TunnelInv, TunnelTypes, Carry, HangUp, breakage, data
  <1>2. near[c] # "idle" /\ (c \notin Outside => near[c] # "opening")
        /\ (c \notin Outside /\ near[c] = "open" /\ c \in conns => c \in read \union torn)
        /\ (line[c] = <<>> => line'[c] = <<>>)
    BY <1>1 DEF Carry, HangUp, ConnsOK, ConnOK, TunnelTypes, data
  <1>3. CASE UNCHANGED <<near, call>>
    BY <1>1, <1>2, <1>3 DEF ConnsOK, ConnOK
  <1>4. CASE near[c] # "closed" /\ CloseNear(c)
    <2>1. near' = [near EXCEPT ![c] = "closed"] /\ \A d \in Conn : d # c => call'[d] = call[d]
      BY <1>1, <1>4 DEF CloseNear, TunnelTypes
    <2>2. call'[c] = call[c] \/ call'[c] = Append(call[c], "close")
      BY <1>1, <1>4 DEF CloseNear, TunnelTypes
    <2>3. OnceAsked(call'[c]) /\ (Asks(call'[c]) <=> Asks(call[c]))
      <3>1. OnceAsked(call[c])
        BY <1>1 DEF ConnsOK, ConnOK
      <3> QED
        BY <2>2, <3>1, CallsGoOn
    <2>4. c \notin Outside /\ Asks(call[c]) => c \in torn
      BY <1>1, <1>2 DEF ConnsOK, ConnOK
    <2>5. ASSUME NEW d \in Conn PROVE ConnOK(d)'
      <3>1. CASE d = c
        BY <1>1, <1>2, <1>4, <2>1, <2>3, <2>4, <3>1 DEF ConnsOK, ConnOK, TunnelTypes
      <3>2. CASE d # c
        BY <1>1, <2>1, <3>2 DEF ConnsOK, ConnOK, TunnelTypes
      <3> QED
        BY <3>1, <3>2
    <2> QED
      BY <2>5 DEF ConnsOK
  <1>5. UNCHANGED <<near, call>> \/ (near[c] # "closed" /\ CloseNear(c))
    BY DEF Carry, HangUp
  <1> QED
    BY <1>3, <1>4, <1>5

LEMMA BreakStep ==
    ASSUME TunnelInv, NEW c \in Conn, Break(c)
    PROVE  ConnsOK'
  <1>1. /\ TunnelTypes /\ ConnsOK /\ UNCHANGED <<dialing, conns, read>>
        /\ near[c] \in {"opening", "open"} /\ torn' = torn \union {c}
        /\ line' = [line EXCEPT ![c] = <<>>]
        /\ call' = [call EXCEPT ![c] = IF c \in dialing THEN @ ELSE <<>>]
        /\ near' = IF c \in Outside THEN near ELSE [near EXCEPT ![c] = "closed"]
    BY DEF TunnelInv, Break
  <1>2. OnceAsked(<<>>) /\ ~Asks(<<>>)
    BY DEF OnceAsked, Asks
  <1>3. ASSUME NEW d \in Conn PROVE ConnOK(d)'
    <2>1. CASE d = c
      BY <1>1, <1>2, <2>1 DEF ConnsOK, ConnOK, TunnelTypes
    <2>2. CASE d # c
      BY <1>1, <2>2 DEF ConnsOK, ConnOK, TunnelTypes
    <2> QED
      BY <2>1, <2>2
  <1> QED
    BY <1>3 DEF ConnsOK

LEMMA ConnTypesKept ==
    ASSUME TunnelInv, NEW c \in Conn,
           \/ Open(c) \/ Dial(c) \/ RefuseConn(c) \/ Accept(c) \/ DialFails(c) \/ Enter(c) \/ Stream(c)
           \/ Talk(c) \/ Finish(c) \/ Carry(c) \/ HangUp(c) \/ Close(c) \/ Break(c) \/ Mend(c)
    PROVE  TunnelTypes' /\ PortsNeeded'
  <1>1. UNCHANGED <<task, opened, allowed>> /\ TunnelTypes /\ PortsNeeded
    BY DEF TunnelInv, Open, Dial, RefuseConn, Accept, DialFails, Enter, Stream, Talk, Finish, Carry,
           HangUp, Close, Break, Mend, tables
  <1>2. PortsNeeded'
    BY <1>1 DEF PortsNeeded
  <1>3. Asks(call[c]) => call[c] # <<>>
    BY DEF Asks
  <1>4. c \in dialing => call[c] # <<>>
    BY <1>3 DEF TunnelInv, ConnsOK, ConnOK
  <1>5. call' \in [Conn -> Seq(Calls)]
    <2>1. \/ call' = call
          \/ \E q \in {<<>>, <<"connect">>} : call' = [call EXCEPT ![c] = q]
          \/ call[c] # <<>> /\ call' = [call EXCEPT ![c] = Tail(@)]
          \/ call' = [call EXCEPT ![c] = Append(@, "close")]
          \/ call' = [call EXCEPT ![c] = @]
      <3>1. CASE Break(c)
        BY <3>1 DEF Break
      <3>2. CASE RefuseConn(c) \/ DialFails(c) \/ Enter(c) \/ Close(c)
        BY <1>1, <1>4, <3>2 DEF RefuseConn, DialFails, Enter, Close, Handled, Called, TunnelTypes
      <3>3. CASE Carry(c) \/ HangUp(c)
        BY <3>3 DEF Carry, HangUp, CloseNear
      <3>4. CASE Open(c) \/ Dial(c) \/ Accept(c) \/ Stream(c) \/ Talk(c) \/ Finish(c) \/ Mend(c)
        BY <3>4 DEF Open, Dial, Accept, Stream, Talk, Finish, Mend
      <3> QED
        BY <3>1, <3>2, <3>3, <3>4
    <2>2. call \in [Conn -> Seq(Calls)] /\ call[c] \in Seq(Calls)
      BY <1>1 DEF TunnelTypes
    <2>3. /\ <<>> \in Seq(Calls) /\ <<"connect">> \in Seq(Calls)
          /\ Append(call[c], "close") \in Seq(Calls)
          /\ call[c] # <<>> => Tail(call[c]) \in Seq(Calls)
      BY <2>2 DEF Calls
    <2> QED
      BY <2>1, <2>2, <2>3
  <1>6. line' \in [Conn -> Seq(Nat)] /\ said' \in [Conn -> Nat]
    <2>1. /\ said' = said \/ said' = [said EXCEPT ![c] = @ + 1]
          /\ \/ line' = line
             \/ \E q \in {<<>>, <<Eof>>} : line' = [line EXCEPT ![c] = q]
             \/ \E piece \in {Eof, said[c] + 1} :
                   line' = [line EXCEPT ![c] = IF c \in cut THEN @ ELSE Append(@, piece)]
             \/ line[c] # <<>> /\ line' = [line EXCEPT ![c] = Tail(@)]
      BY DEF Open, Dial, RefuseConn, Accept, DialFails, Enter, Stream, Talk, Finish,
           Carry, HangUp, Close, Break, Mend, Replied, Sent, data
    <2>2. line \in [Conn -> Seq(Nat)] /\ line[c] \in Seq(Nat) /\ said \in [Conn -> Nat]
      BY <1>1 DEF TunnelTypes
    <2>3. /\ <<>> \in Seq(Nat) /\ <<Eof>> \in Seq(Nat)
          /\ \A piece \in {Eof, said[c] + 1} : Append(line[c], piece) \in Seq(Nat)
          /\ line[c] # <<>> => Tail(line[c]) \in Seq(Nat)
      BY <2>2 DEF Eof
    <2>4. said' \in [Conn -> Nat]
      <3>1. said[c] \in Nat /\ said[c] + 1 \in Nat
        BY <2>2
      <3>2. said' = said \/ \E n \in Nat : said' = [said EXCEPT ![c] = n]
        BY <2>1, <3>1
      <3> QED
        BY <2>2, <3>2
    <2>5. line' \in [Conn -> Seq(Nat)]
      <3>1. \/ line' = line
            \/ \E q \in Seq(Nat) : line' = [line EXCEPT ![c] = q]
        BY <2>1, <2>2, <2>3
      <3> QED
        BY <2>2, <3>1
    <2> QED
      BY <2>4, <2>5
  <1>7. near' \in [Conn -> {"idle", "opening", "open", "closed"}]
    BY <1>1 DEF TunnelTypes, Open, Dial, RefuseConn, Accept, DialFails, Enter, Stream, Talk, Finish,
           Carry, HangUp, Close, Break, Mend, CloseNear, Replied
  <1>8. dialing' \subseteq Conn /\ accepted' \subseteq dialing' /\ conns' \subseteq Conn
        /\ read' \subseteq Conn /\ cut' \subseteq torn'
    BY <1>1 DEF TunnelTypes, Open, Dial, RefuseConn, Accept, DialFails, Enter, Stream, Talk, Finish,
           Carry, HangUp, Close, Break, Mend, breakage
  <1> QED
    BY <1>1, <1>2, <1>5, <1>6, <1>7, <1>8 DEF TunnelTypes

(* Nothing of a node stays open to the others for a task that is gone, and a  *)
(* connection of its table has a reader, but while it is being opened or      *)
(* after its link broke: for any tasks, ports they may share, connections,    *)
(* ceiling and number of breaks.                                              *)
THEOREM NothingIsLeftOpenHolds == TunnelSpec => []NothingIsLeftOpen
  <1>1. ASSUME TunnelInv, TunnelNext PROVE TunnelInv'
    <2>1. CASE \E t \in Opener : Forward(t) \/ Release(t) \/ ReleaseForgets(t)
                                 \/ ProcessEnds(t) \/ CarryOutForgets(t)
      BY <1>1, <2>1, TasksStep
    <2>2. CASE \E c \in Conn : \/ Open(c) \/ Dial(c) \/ RefuseConn(c) \/ Accept(c) \/ DialFails(c) \/ Enter(c)
                               \/ Stream(c) \/ Talk(c) \/ Finish(c) \/ Carry(c) \/ HangUp(c) \/ Close(c)
                               \/ Break(c) \/ Mend(c)
      <3>1. PICK c \in Conn : \/ Open(c) \/ Dial(c) \/ RefuseConn(c) \/ Accept(c) \/ DialFails(c) \/ Enter(c)
                               \/ Stream(c) \/ Talk(c) \/ Finish(c) \/ Carry(c) \/ HangUp(c) \/ Close(c)
                               \/ Break(c) \/ Mend(c)
        BY <2>2
      <3>2. ConnsOK'
        BY <1>1, <3>1, OpenStep, AnswerStep, ReadStep, CloseStep, BreakStep
      <3>3. TunnelTypes' /\ PortsNeeded'
        BY <1>1, <3>1, ConnTypesKept
      <3> QED
        BY <3>2, <3>3 DEF TunnelInv
    <2> QED
      BY <1>1, <2>1, <2>2 DEF TunnelNext
  <1>2. ASSUME TunnelInv, UNCHANGED tunnelVars PROVE TunnelInv'
    BY <1>2 DEF TunnelInv, TunnelTypes, PortsNeeded, ConnsOK, ConnOK, tunnelVars
  <1>3. TunnelInv => NothingIsLeftOpen
    BY DEF TunnelInv, TunnelTypes, PortsNeeded, ConnsOK, ConnOK, NothingIsLeftOpen
  <1> QED
    BY <1>1, <1>2, <1>3, TunnelsBegin, PTL DEF TunnelSpec

(* ----------------------------------------------------------------- answers --- *)
(* A piece's place among those of its call: the end of a file comes after all. *)
Chunk == {m \in [user : User, error : BOOLEAN, data : 0 .. Pieces, last : BOOLEAN] :
             m.error => m.data = 0 /\ m.last}
Num(m) == IF m.data # 0 THEN m.data ELSE Steps(m.user)
Proper == {m \in Chunk : ~m.error =>
              /\ m.data = 0 => Collects(m.user) /\ m.last
              /\ m.last <=> Num(m) = Steps(m.user)
              /\ m.data <= Length(m.user)}
Thread == {s \in [user : User, next : 1 .. Pieces + 1] : s.next <= Steps(s.user)}

ReplyTypes ==
    /\ kind \in [User -> Kinds]
    /\ stage \in [User -> {"idle", "waiting", "settled", "returned", "failed"}]
    /\ out \in [User -> Seq(0 .. Pieces)]
    /\ entry = None \/ (entry \in [user : User, data : Seq(0 .. Pieces)] /\ Collects(entry.user))
    /\ online \in BOOLEAN /\ down \in Seq(User) /\ up \in Seq(Proper) /\ sender \subseteq Thread
    /\ alone \in [User -> BOOLEAN]
    /\ \A i, j \in 1 .. Len(down) : down[i] = down[j] => i = j
    /\ \A s, t \in sender : s.user = t.user => s = t

Asked(u) == u \in {down[i] : i \in 1 .. Len(down)}
Said(u) == {i \in 1 .. Len(up) : up[i].user = u}
Says(u) == {s \in sender : s.user = u}
Untouched(u) == Said(u) = {} /\ Says(u) = {}

(* What a call is still told is in order, and comes after what it has.        *)
InTurn(u) ==
    /\ \A i, j \in Said(u) : i < j => up[j].data = 0 \/ up[i].data < up[j].data
    /\ \A s \in Says(u) : \A i \in Said(u) : up[i].data < s.next
Rising(q) == \A i, j \in 1 .. Len(q) : i < j => q[i] < q[j]
After(u) ==
    \A k \in 1 .. Len(out[u]) :
        /\ \A i \in Said(u) : up[i].data = 0 \/ out[u][k] < up[i].data
        /\ \A s \in Says(u) : out[u][k] < s.next
Answered(u) ==
    /\ Asked(u) => out[u] = <<>>
    /\ stage[u] # "failed" => Rising(out[u])
    /\ stage[u] = "waiting" => After(u)

(* While a call is alone nothing is left out between what it has and what it  *)
(* is told.                                                                   *)
Given(u) == IF Collects(u) THEN entry.data ELSE out[u]
First(k) == [i \in 1 .. k |-> i]
Follows(u, k, n, j) ==
    n = k + 1 \/ \E i \in Said(u) : i < j /\ ~up[i].error /\ Num(up[i]) = n - 1
NoGap(u, k) ==
    /\ Given(u) = First(k) /\ (Asked(u) => k = 0)
    /\ \A j \in Said(u) : up[j].error \/ Follows(u, k, Num(up[j]), j)
    /\ \A s \in Says(u) : Follows(u, k, s.next, Len(up) + 1)
Lonely(u) ==
    /\ entry # None /\ entry.user = u
    /\ \A v \in User \ {u} : Collects(v) => ~Active(v) /\ ~Asked(v) /\ Untouched(v)
AloneOK(u) ==
    /\ online
    /\ stage[u] = "waiting" => /\ \E k \in 0 .. Length(u) : NoGap(u, k)
                               /\ Collects(u) => Lonely(u)
    /\ stage[u] = "settled" => out[u] = <<0>> \/ out[u] = First(Length(u))
    /\ stage[u] = "returned" => out[u] = First(Length(u))

CallOK(u) ==
    /\ stage[u] = "idle" => ~Asked(u) /\ Untouched(u) /\ out[u] = <<>> /\ ~alone[u]
    /\ Asked(u) => Untouched(u)
    /\ InTurn(u)
    /\ Collects(u) \/ Answered(u)
    /\ alone[u] => AloneOK(u)

ReplyInv == ReplyTypes /\ \A u \in User : CallOK(u)

LEMMA Sizes ==
    /\ Pieces \in Nat \ {0} /\ "none" \notin User
    /\ \A u \in User : kind \in [User -> Kinds] =>
          /\ kind[u] \in Kinds /\ (Collects(u) \in BOOLEAN)
          /\ Length(u) \in 1 .. Pieces /\ Steps(u) \in 1 .. Pieces + 1
          /\ Collects(u) => Length(u) = Pieces /\ Steps(u) = Pieces + 1
          /\ ~Collects(u) => Steps(u) = Length(u)
  BY RepliesAssumption DEF Length, Steps, Collects, Kinds

LEMMA KindStays ==
    ASSUME kind' = kind
    PROVE  /\ \A u : Collects(u)' = Collects(u) /\ Length(u)' = Length(u) /\ Steps(u)' = Steps(u)
           /\ Proper' = Proper /\ Thread' = Thread
           /\ \A m : Num(m)' = Num(m)
  <1>1. \A u : Collects(u)' = Collects(u) /\ Length(u)' = Length(u) /\ Steps(u)' = Steps(u)
    BY DEF Collects, Length, Steps
  <1>2. \A m : Num(m)' = Num(m)
    BY <1>1 DEF Num
  <1> QED
    BY <1>1, <1>2 DEF Proper, Thread

LEMMA SaidIs ==
    ASSUME ReplyTypes
    PROVE  /\ Len(up) \in Nat /\ \A i \in 1 .. Len(up) : up[i] \in Proper
           /\ \A u : \A i : i \in Said(u) <=> i \in Nat /\ 1 <= i /\ i <= Len(up) /\ up[i].user = u
  <1>1. up \in Seq(Proper)
    BY DEF ReplyTypes
  <1> QED
    BY <1>1 DEF Said

(* What reaches a call may go on while nothing new comes to it; the queue may *)
(* have gone up by d.                                                         *)
LEMMA BaseStays ==
    ASSUME ReplyTypes, NEW u \in User, CallOK(u), NEW d \in {0, 1},
           stage'[u] = "idle" => stage[u] = "idle" /\ out'[u] = out[u],
           alone'[u] => alone[u],
           Asked(u)' => Asked(u), Says(u)' \subseteq Says(u),
           \A i \in Said(u)' : i \in Nat /\ i + d \in Said(u) /\ up'[i] = up[i + d]
    PROVE  /\ stage'[u] = "idle" => ~Asked(u)' /\ Untouched(u)' /\ out'[u] = <<>> /\ ~alone'[u]
           /\ Asked(u)' => Untouched(u)'
           /\ InTurn(u)'
  <1>1. Untouched(u) => Untouched(u)'
    <2>1. Said(u) = {} => Said(u)' = {}
      OBVIOUS
    <2>2. Says(u) = {} => Says(u)' = {}
      OBVIOUS
    <2> QED
      BY <2>1, <2>2 DEF Untouched
  <1>2. stage'[u] = "idle" => ~Asked(u)' /\ Untouched(u)' /\ out'[u] = <<>> /\ ~alone'[u]
    BY <1>1 DEF CallOK
  <1>3. Asked(u)' => Untouched(u)'
    BY <1>1 DEF CallOK
  <1>4. InTurn(u)'
    <2>1. InTurn(u)
      BY DEF CallOK
    <2>2. ASSUME NEW i \in Said(u)', NEW j \in Said(u)', i < j
          PROVE  up'[j].data = 0 \/ up'[i].data < up'[j].data
      <3>1. i + d < j + d
        BY <2>2
      <3> QED
        BY <2>1, <3>1 DEF InTurn
    <2>3. ASSUME NEW s \in Says(u)', NEW i \in Said(u)' PROVE up'[i].data < s.next
      BY <2>1 DEF InTurn
    <2> QED
      BY <2>2, <2>3 DEF InTurn
  <1> QED
    BY <1>2, <1>3, <1>4

(* A call to which nothing happens.                                           *)
LEMMA CallStays ==
    ASSUME ReplyTypes, NEW u \in User, CallOK(u), NEW d \in {0, 1}, kind' = kind,
           stage'[u] = stage[u], out'[u] = out[u],
           alone'[u] => alone[u] /\ online',
           Asked(u)' => Asked(u), Says(u)' \subseteq Says(u),
           \A i \in Said(u)' : i \in Nat /\ i + d \in Said(u) /\ up'[i] = up[i + d],
           \A i \in Said(u) : i - d \in Said(u)',
           Len(up') \in Nat /\ \A i \in Said(u)' : i < Len(up') + 1,
           alone'[u] /\ stage[u] = "waiting" /\ Collects(u) => entry' = entry /\ Lonely(u)'
    PROVE  CallOK(u)'
  <1>1. /\ stage'[u] = "idle" => ~Asked(u)' /\ Untouched(u)' /\ out'[u] = <<>> /\ ~alone'[u]
        /\ Asked(u)' => Untouched(u)'
        /\ InTurn(u)'
    BY BaseStays
  <1>2. /\ Collects(u)' = Collects(u) /\ Length(u)' = Length(u) /\ Steps(u)' = Steps(u)
        /\ \A m : Num(m)' = Num(m)
    BY KindStays
  <1>3. Collects(u)' \/ Answered(u)'
    <2>1. Collects(u) \/ Answered(u)
      BY DEF CallOK
    <2>2. After(u) => After(u)'
      BY DEF After
    <2> QED
      BY <1>2, <2>1, <2>2 DEF Answered, Rising
  <1>4. ASSUME alone'[u] PROVE AloneOK(u)'
    <2>1. AloneOK(u)
      BY <1>4 DEF CallOK
    <2>2. ASSUME NEW k \in 0 .. Length(u), NoGap(u, k), stage[u] = "waiting" PROVE NoGap(u, k)'
      <3>1. Given(u)' = Given(u)
        BY <1>2, <1>4, <2>2 DEF Given
      <3>2. ASSUME NEW n, NEW j \in Nat, Follows(u, k, n, j + d) PROVE Follows(u, k, n, j)'
        <4>1. CASE n = k + 1
          BY <4>1 DEF Follows
        <4>2. CASE n # k + 1
          <5>1. PICK i \in Said(u) : i < j + d /\ ~up[i].error /\ Num(up[i]) = n - 1
            BY <3>2, <4>2 DEF Follows
          <5>2. i \in Nat /\ i - d \in Said(u)'
            BY SaidIs
          <5>4. i - d \in Nat /\ i - d < j
            BY <5>1, <5>2
          <5>3. up'[i - d] = up[i]
            <6>1. i - d \in Nat /\ (i - d) + d = i
              BY <5>2
            <6> QED
              BY <5>2, <6>1
          <5>5. Num(up'[i - d]) = Num(up[i]) /\ Num(up[i - d])' = Num(up'[i - d])
            BY <5>3 DEF Num, Steps, Length, Collects
          <5> QED
            BY <5>1, <5>2, <5>3, <5>4, <5>5 DEF Follows
        <4> QED
          BY <4>1, <4>2
      <3>3. ASSUME NEW j \in Said(u)', ~up'[j].error PROVE Follows(u, k, Num(up[j]), j)'
        <4>1. j \in Nat /\ j + d \in Said(u) /\ up'[j] = up[j + d]
          OBVIOUS
        <4>5. Num(up[j])' = Num(up[j + d])
          BY <4>1 DEF Num, Steps, Length, Collects
        <4>2. Follows(u, k, Num(up[j + d]), j + d)
          BY <2>2, <3>3, <4>1 DEF NoGap
        <4> DEFINE n == Num(up[j + d])
        <4>3. \A m : Follows(u, k, m, j + d) => Follows(u, k, m, j)'
          BY <3>2, <4>1
        <4> QED
          BY <4>2, <4>3, <4>5 DEF Follows
      <3>4. ASSUME NEW s \in Says(u)' PROVE Follows(u, k, s.next, Len(up) + 1)'
        <4>1. Follows(u, k, s.next, Len(up) + 1)
          BY <2>2 DEF NoGap
        <4>2. CASE s.next = k + 1
          BY <4>2 DEF Follows
        <4>3. CASE s.next # k + 1
          <5>1. PICK i \in Said(u) : ~up[i].error /\ Num(up[i]) = s.next - 1
            BY <4>1, <4>3 DEF Follows
          <5>2. i - d \in Said(u)' /\ i \in Nat /\ i - d < Len(up') + 1 /\ i - d \in Nat /\ (i - d) + d = i
            BY <5>1, SaidIs
          <5>3. up'[i - d] = up[i]
            BY <5>2
          <5>4. Num(up[i - d])' = Num(up[i])
            BY <5>3 DEF Num, Steps, Length, Collects
          <5> QED
            BY <5>1, <5>2, <5>3, <5>4 DEF Follows
        <4> QED
          BY <4>2, <4>3
      <3> QED
        BY <2>2, <3>1, <3>3, <3>4 DEF NoGap, First
    <2> QED
      BY <1>2, <1>4, <2>1, <2>2 DEF AloneOK, First
  <1> QED
    BY <1>1, <1>3, <1>4 DEF CallOK

(* What a call is still told, when the queue grows or its head goes.          *)
Same(u, d) ==
    /\ \A i \in Said(u)' : i \in Nat /\ i + d \in Said(u) /\ up'[i] = up[i + d]
    /\ \A i \in Said(u) : i - d \in Said(u)'
    /\ Len(up') \in Nat /\ \A i \in Said(u)' : i < Len(up') + 1

LEMMA UpStays ==
    ASSUME ReplyTypes, up' = up
    PROVE  \A u : Same(u, 0)
  <1>1. Len(up) \in Nat /\ \A u : \A i \in Said(u) : i \in Nat /\ i < Len(up) + 1 /\ i + 0 = i /\ i - 0 = i
    BY SaidIs
  <1>2. \A u : Said(u)' = Said(u)
    BY DEF Said
  <1> QED
    BY <1>1, <1>2 DEF Same

LEMMA UpGrows ==
    ASSUME ReplyTypes, NEW m \in Proper, up' = Append(up, m)
    PROVE  /\ up' \in Seq(Proper) /\ Len(up') = Len(up) + 1 /\ Len(up) \in Nat /\ up'[Len(up) + 1] = m
           /\ \A i \in 1 .. Len(up) : up'[i] = up[i]
           /\ \A u : u # m.user => Same(u, 0)
           /\ \A i : i \in Said(m.user)' <=> i \in Said(m.user) \/ i = Len(up) + 1
  <1>1. /\ up' \in Seq(Proper) /\ Len(up') = Len(up) + 1 /\ Len(up) \in Nat
        /\ up'[Len(up) + 1] = m
        /\ \A i \in 1 .. Len(up) : up'[i] = up[i]
    BY AppendProperties, LenProperties DEF ReplyTypes
  <1>2. \A u, i : i \in Said(u)' <=> i \in 1 .. Len(up') /\ up'[i].user = u
    BY DEF Said
  <1>3. \A u, i : i \in Said(u) <=> i \in 1 .. Len(up) /\ up[i].user = u
    BY DEF Said
  <1>4. \A i \in 1 .. Len(up') : i \in 1 .. Len(up) \/ i = Len(up) + 1
    BY <1>1
  <1>5. \A i : i \in Said(m.user)' <=> i \in Said(m.user) \/ i = Len(up) + 1
    <2>1. Len(up) + 1 \in Said(m.user)'
      BY <1>1, <1>2
    <2>2. \A i : i \in Said(m.user) => i \in Said(m.user)'
      BY <1>1, <1>2, <1>3
    <2>3. \A i : i \in Said(m.user)' => i \in Said(m.user) \/ i = Len(up) + 1
      BY <1>1, <1>2, <1>3, <1>4
    <2> QED
      BY <2>1, <2>2, <2>3
  <1>6. ASSUME NEW u, u # m.user PROVE Same(u, 0)
    <2>1. \A i : i \in Said(u)' <=> i \in Said(u)
      BY <1>1, <1>2, <1>3, <1>4, <1>6
    <2>2. \A i \in Said(u) : i \in Nat /\ i + 0 = i /\ i - 0 = i /\ i < Len(up') + 1 /\ up'[i] = up[i]
      BY <1>1, <1>3
    <2> QED
      BY <1>1, <2>1, <2>2 DEF Same
  <1> QED
    BY <1>1, <1>5, <1>6

LEMMA UpShrinks ==
    ASSUME ReplyTypes, up # <<>>, up' = Tail(up)
    PROVE  /\ up' \in Seq(Proper) /\ Len(up') = Len(up) - 1 /\ Len(up) \in Nat /\ Len(up) > 0
           /\ Head(up) = up[1] /\ Head(up) \in Proper /\ 1 \in Said(Head(up).user)
           /\ \A u : \A i \in Said(u)' : i \in Nat /\ i > 0 /\ i + 1 \in Said(u) /\ up'[i] = up[i + 1] /\ i < Len(up') + 1
           /\ \A u : \A i \in Said(u) : i \in Nat /\ i > 0 /\ (i # 1 => i - 1 \in Said(u)')
           /\ \A u : u # Head(up).user => Same(u, 1)
  <1>1. /\ up' \in Seq(Proper) /\ Len(up') = Len(up) - 1 /\ Len(up) \in Nat /\ Len(up) > 0
        /\ Head(up) = up[1] /\ Head(up) \in Proper
        /\ \A i \in 1 .. Len(up') : up'[i] = up[i + 1]
    BY HeadTailProperties, LenProperties, EmptySeq DEF ReplyTypes
  <1>2. \A u, i : i \in Said(u)' <=> i \in 1 .. Len(up') /\ up'[i].user = u
    BY DEF Said
  <1>3. \A u, i : i \in Said(u) <=> i \in 1 .. Len(up) /\ up[i].user = u
    BY DEF Said
  <1>4. ASSUME NEW u, NEW i \in Said(u)'
        PROVE  i \in Nat /\ i > 0 /\ i + 1 \in Said(u) /\ up'[i] = up[i + 1] /\ i < Len(up') + 1
    BY <1>1, <1>2, <1>3
  <1>5. ASSUME NEW u, NEW i \in Said(u) PROVE i \in Nat /\ i > 0 /\ (i # 1 => i - 1 \in Said(u)')
    <2>1. i \in 1 .. Len(up) /\ up[i].user = u
      BY <1>3
    <2>2. ASSUME i # 1 PROVE i - 1 \in Said(u)'
      <3>1. i - 1 \in 1 .. Len(up') /\ (i - 1) + 1 = i
        BY <1>1, <2>1, <2>2
      <3> QED
        BY <1>1, <1>2, <2>1, <3>1
    <2> QED
      BY <2>1, <2>2
  <1>6. 1 \in Said(Head(up).user)
    BY <1>1, <1>3
  <1>7. ASSUME NEW u, u # Head(up).user PROVE Same(u, 1)
    <2>1. 1 \notin Said(u)
      BY <1>1, <1>3, <1>7
    <2>2. \A i \in Said(u) : i # 1
      BY <2>1
    <2> QED
      BY <1>1, <1>4, <1>5, <2>2 DEF Same
  <1> QED
    BY <1>1, <1>4, <1>5, <1>6, <1>7

(* A collection that is alone stays so while the others only end.             *)
LEMMA LonelyStays ==
    ASSUME NEW u \in User, Lonely(u), kind' = kind, entry' = entry, NEW d,
           \A v \in User : v # u => \/ ~Collects(v)
                                    \/ /\ Active(v)' => Active(v)
                                       /\ ~Asked(v) /\ Untouched(v) => ~Asked(v)' /\ Untouched(v)'
    PROVE  Lonely(u)'
  <1>1. \A v \in User : Collects(v)' = Collects(v)
    BY DEF Collects
  <1> QED
    BY <1>1 DEF Lonely

LEMMA UntouchedStays ==
    ASSUME NEW u, NEW d, Untouched(u), Same(u, d), Says(u)' \subseteq Says(u)
    PROVE  Untouched(u)'
  <1>1. Said(u) = {} /\ Says(u) = {}
    BY DEF Untouched
  <1>2. Said(u)' = {} /\ Says(u)' = {}
    BY <1>1 DEF Same
  <1> QED
    BY <1>2 DEF Untouched

(* The same of a call to which nothing happens, by Same.                      *)
LEMMA NothingHappens ==
    ASSUME ReplyTypes, NEW u \in User, CallOK(u), NEW d \in {0, 1}, kind' = kind,
           stage'[u] = stage[u], out'[u] = out[u],
           alone'[u] => alone[u] /\ online',
           Asked(u)' => Asked(u), Says(u)' \subseteq Says(u), Same(u, d),
           alone'[u] /\ stage[u] = "waiting" /\ Collects(u) => entry' = entry /\ Lonely(u)'
    PROVE  CallOK(u)'
  BY CallStays DEF Same

LEMMA ReplyFacts == ReplyInv => ReplyTypes /\ \A u \in User : CallOK(u)
  BY DEF ReplyInv

LEMMA EndsKeeps ==
    ASSUME ReplyInv, NEW v \in User, stage[v] \in {"waiting", "settled"}, PopEntry(v),
           NEW x \in {"failed", "returned"}, stage' = [stage EXCEPT ![v] = x],
           x = "returned" => stage[v] = "settled" /\ ~(out[v] # <<>> /\ Last(out[v]) = 0),
           UNCHANGED <<kind, out, online, down, up, sender, alone>>
    PROVE  ReplyInv'
  <1>1. ReplyTypes /\ \A u \in User : CallOK(u)
    BY ReplyFacts
  <1>2. /\ stage \in [User -> {"idle", "waiting", "settled", "returned", "failed"}]
        /\ stage' \in [User -> {"idle", "waiting", "settled", "returned", "failed"}]
        /\ stage'[v] = x /\ \A u \in User : u # v => stage'[u] = stage[u]
    BY <1>1 DEF ReplyTypes
  <1>3. /\ \A u : Collects(u)' = Collects(u) /\ Length(u)' = Length(u)
        /\ Proper' = Proper /\ Thread' = Thread
    BY KindStays
  <1>4. ReplyTypes'
    <2>1. entry' = None \/ entry' = entry
      BY DEF PopEntry
    <2> QED
      BY <1>1, <1>2, <1>3, <2>1 DEF ReplyTypes
  <1>5. \A u : Same(u, 0) /\ Asked(u)' = Asked(u) /\ Says(u)' = Says(u)
    BY <1>1, UpStays DEF Asked, Says
  <1>6. CallOK(v)'
    <2>1. CallOK(v)
      BY <1>1
    <2>2. /\ stage'[v] = "idle" => ~Asked(v)' /\ Untouched(v)' /\ out'[v] = <<>> /\ ~alone'[v]
          /\ Asked(v)' => Untouched(v)'
          /\ InTurn(v)'
      <3>1. \A i \in Said(v)' : i \in Nat /\ i + 0 \in Said(v) /\ up'[i] = up[i + 0]
        BY <1>5 DEF Same
      <3> QED
        BY <1>1, <1>2, <1>5, <2>1, <3>1, BaseStays
    <2>3. Collects(v)' \/ Answered(v)'
      <3>1. Collects(v) \/ Answered(v)
        BY <2>1 DEF CallOK
      <3> QED
        BY <1>2, <1>3, <1>5, <3>1 DEF Answered, Rising
    <2>4. ASSUME alone'[v] PROVE AloneOK(v)'
      <3>1. AloneOK(v)
        BY <2>1, <2>4 DEF CallOK
      <3>2. ASSUME x = "returned" PROVE out[v] = First(Length(v))
        <4>1. out[v] = <<0>> \/ out[v] = First(Length(v))
          BY <3>1, <3>2 DEF AloneOK
        <4>2. out[v] = <<0>> => out[v] # <<>> /\ Last(out[v]) = 0
          BY DEF Last
        <4> QED
          BY <3>2, <4>1, <4>2
      <3> QED
        BY <1>2, <1>3, <3>1, <3>2 DEF AloneOK, First
    <2> QED
      BY <2>2, <2>3, <2>4 DEF CallOK
  <1>7. ASSUME NEW u \in User, u # v PROVE CallOK(u)'
    <2>1. CallOK(u)
      BY <1>1
    <2>2. ASSUME alone'[u], stage[u] = "waiting", Collects(u) PROVE entry' = entry /\ Lonely(u)'
      <3>1. AloneOK(u) /\ Lonely(u)
        BY <2>1, <2>2 DEF CallOK, AloneOK
      <3>2. ~Collects(v)
        BY <1>7, <3>1 DEF Lonely, Active
      <3>3. entry' = entry
        BY <3>2 DEF PopEntry
      <3>4. ASSUME NEW w \in User, w # u
            PROVE  \/ ~Collects(w)
                   \/ /\ Active(w)' => Active(w)
                      /\ ~Asked(w) /\ Untouched(w) => ~Asked(w)' /\ Untouched(w)'
        <4>1. CASE w = v
          BY <3>2, <4>1
        <4>2. CASE w # v
          BY <1>2, <1>5, <4>2, UntouchedStays DEF Active
        <4> QED
          BY <4>1, <4>2
      <3> QED
        BY <3>1, <3>3, <3>4, LonelyStays
    <2>3. alone'[u] => alone[u] /\ online'
      BY <2>1 DEF CallOK, AloneOK
    <2> QED
      BY <1>1, <1>2, <1>5, <1>7, <2>1, <2>2, <2>3, NothingHappens
  <1> QED
    BY <1>4, <1>6, <1>7 DEF ReplyInv

LEMMA BreakKeeps == ASSUME ReplyInv, BreakStream PROVE ReplyInv'
  <1>1. ReplyTypes /\ \A u \in User : CallOK(u)
    BY ReplyFacts
  <1>2. /\ online' = FALSE /\ down' = <<>> /\ up' = <<>> /\ alone' = [u \in User |-> FALSE]
        /\ UNCHANGED <<kind, stage, out, entry, sender>>
    BY DEF BreakStream
  <1>3. /\ \A u : Collects(u)' = Collects(u) /\ Length(u)' = Length(u)
        /\ Proper' = Proper /\ Thread' = Thread
    BY <1>2, KindStays
  <1>4. ReplyTypes'
    <2>1. down' \in Seq(User) /\ up' \in Seq(Proper) /\ Len(down') = 0 /\ online' \in BOOLEAN
          /\ alone' \in [User -> BOOLEAN]
      BY <1>2, EmptySeq
    <2>2. \A i, j \in 1 .. Len(down') : down'[i] = down'[j] => i = j
      BY <2>1
    <2> QED
      BY <1>1, <1>2, <1>3, <2>1, <2>2 DEF ReplyTypes
  <1>5. \A u : Said(u)' = {} /\ Asked(u)' = FALSE /\ Says(u)' = Says(u)
    BY <1>2 DEF Said, Asked, Says
  <1>6. ASSUME NEW u \in User PROVE CallOK(u)'
    <2>1. CallOK(u) /\ ~alone'[u]
      BY <1>1, <1>2
    <2>2. stage'[u] = "idle" => ~Asked(u)' /\ Untouched(u)' /\ out'[u] = <<>>
      BY <1>2, <1>5, <2>1 DEF CallOK, Untouched
    <2>3. InTurn(u)'
      BY <1>5 DEF InTurn
    <2>4. Collects(u)' \/ Answered(u)'
      <3>1. Collects(u) \/ Answered(u)
        BY <2>1 DEF CallOK
      <3>2. stage[u] = "waiting" /\ Answered(u) => After(u)'
        BY <1>2, <1>5 DEF Answered, After
      <3> QED
        BY <1>2, <1>3, <1>5, <3>1, <3>2 DEF Answered, Rising
    <2> QED
      BY <1>5, <2>1, <2>2, <2>3, <2>4 DEF CallOK
  <1> QED
    BY <1>4, <1>6 DEF ReplyInv

LEMMA ReattachKeeps == ASSUME ReplyInv, Reattach PROVE ReplyInv'
  <1>1. ReplyTypes /\ \A u \in User : CallOK(u)
    BY ReplyFacts
  <1>2. ~online /\ online' = TRUE /\ UNCHANGED <<kind, stage, out, entry, down, up, sender, alone>>
    BY DEF Reattach
  <1>3. Proper' = Proper /\ Thread' = Thread /\ \A u : Collects(u)' = Collects(u)
    BY <1>2, KindStays
  <1>4. ReplyTypes'
    BY <1>1, <1>2, <1>3 DEF ReplyTypes
  <1>5. \A u : Same(u, 0) /\ Asked(u)' = Asked(u) /\ Says(u)' = Says(u)
    BY <1>1, <1>2, UpStays DEF Asked, Says
  <1>6. ASSUME NEW u \in User PROVE CallOK(u)'
    <2>1. CallOK(u)
      BY <1>1
    <2>2. ~alone[u] /\ ~alone'[u]
      BY <1>2, <2>1 DEF CallOK, AloneOK
    <2> QED
      BY <1>1, <1>2, <1>5, <2>1, <2>2, NothingHappens
  <1> QED
    BY <1>4, <1>6 DEF ReplyInv

LEMMA ReceiveKeeps == ASSUME ReplyInv, Receive PROVE ReplyInv'
  <1>1. ReplyTypes /\ \A u \in User : CallOK(u)
    BY ReplyFacts
  <1>0. /\ down # <<>> /\ down \in Seq(User) /\ Head(down) \in User
    <2>1. down # <<>> /\ down \in Seq(User)
      BY <1>1 DEF Receive, ReplyTypes
    <2> QED
      BY <2>1, HeadTailProperties
  <1> PICK v \in User : v = Head(down)
    BY <1>0
  <1> DEFINE s == [user |-> v, next |-> 1]
  <1>2. /\ down # <<>> /\ down' = Tail(down) /\ sender' = sender \union {s}
        /\ UNCHANGED <<kind, stage, out, entry, online, up, alone>>
    BY DEF Receive
  <1>3. /\ Proper' = Proper /\ Thread' = Thread
        /\ \A u : Collects(u)' = Collects(u) /\ Length(u)' = Length(u) /\ Steps(u)' = Steps(u)
        /\ \A m : Num(m)' = Num(m)
    BY <1>2, KindStays
  <1>4. /\ down \in Seq(User) /\ down' \in Seq(User) /\ v \in User /\ v = down[1] /\ Len(down) \in Nat
        /\ Len(down') = Len(down) - 1 /\ Len(down) > 0
        /\ \A i \in 1 .. Len(down') : down'[i] = down[i + 1]
    BY <1>1, <1>2, HeadTailProperties, LenProperties, EmptySeq DEF ReplyTypes
  <1>5. \A u : Asked(u) <=> \E i \in 1 .. Len(down) : down[i] = u
    BY DEF Asked
  <1>6. \A u : Asked(u)' <=> \E i \in 1 .. Len(down') : down'[i] = u
    BY DEF Asked
  <1>7. \A i, j \in 1 .. Len(down) : down[i] = down[j] => i = j
    BY <1>1 DEF ReplyTypes
  <1>8. \A i \in 1 .. Len(down') : i + 1 \in 1 .. Len(down) /\ i + 1 # 1
    BY <1>4
  <1>9. Asked(v) /\ ~Asked(v)' /\ \A u : Asked(u)' => Asked(u)
    <2>1. 1 \in 1 .. Len(down)
      BY <1>4
    <2> QED
      BY <1>4, <1>5, <1>6, <1>7, <1>8, <2>1
  <1>10. \A i, j \in 1 .. Len(down') : down'[i] = down'[j] => i = j
    <2> SUFFICES ASSUME NEW i \in 1 .. Len(down'), NEW j \in 1 .. Len(down'), down'[i] = down'[j] PROVE i = j
      OBVIOUS
    <2>1. i + 1 = j + 1
      BY <1>4, <1>7, <1>8
    <2> QED
      BY <1>4, <2>1
  <1>11. CallOK(v) /\ Untouched(v)
    BY <1>1, <1>4, <1>9 DEF CallOK
  <1>12. /\ Says(v)' = {s} /\ \A u : u # v => Says(u)' = Says(u)
    BY <1>2, <1>11 DEF Says, Untouched
  <1>13. ReplyTypes'
    <2>1. s \in Thread
      <3>1. Steps(v) \in 1 .. Pieces + 1
        BY <1>1, <1>4, Sizes DEF ReplyTypes
      <3> QED
        BY <1>4, <3>1, Sizes DEF Thread
    <2>2. \A a, b \in sender' : a.user = b.user => a = b
      <3>1. \A a \in sender : a.user # v
        BY <1>11 DEF Untouched, Says
      <3> QED
        BY <1>1, <1>2, <3>1 DEF ReplyTypes
    <2> HIDE DEF s
    <2> QED
      BY <1>1, <1>2, <1>3, <1>4, <1>10, <2>1, <2>2 DEF ReplyTypes
  <1>14. \A u : Same(u, 0)
    BY <1>1, <1>2, UpStays
  <1>15. ASSUME NEW u \in User, Lonely(u), u # v => ~Collects(u) \/ ~Collects(v) PROVE Lonely(u)'
    <2>1. ASSUME NEW w \in User, w # u
          PROVE  \/ ~Collects(w)
                 \/ /\ Active(w)' => Active(w)
                    /\ ~Asked(w) /\ Untouched(w) => ~Asked(w)' /\ Untouched(w)'
      <3>1. CASE w = v
        BY <1>2, <1>9, <3>1 DEF Active
      <3>2. CASE w # v
        BY <1>2, <1>9, <1>12, <1>14, <3>2, UntouchedStays DEF Active
      <3> QED
        BY <3>1, <3>2
    <2> QED
      BY <1>2, <1>15, <2>1, LonelyStays
  <1>16. ASSUME NEW u \in User, u # v PROVE CallOK(u)'
    <2>1. CallOK(u)
      BY <1>1
    <2>2. alone'[u] => alone[u] /\ online'
      BY <1>2, <2>1 DEF CallOK, AloneOK
    <2>3. ASSUME alone'[u], stage[u] = "waiting", Collects(u) PROVE entry' = entry /\ Lonely(u)'
      <3>1. Lonely(u)
        BY <1>2, <2>1, <2>3 DEF CallOK, AloneOK
      <3>2. ~Collects(v)
        BY <1>4, <1>9, <1>16, <3>1 DEF Lonely
      <3> QED
        BY <1>2, <1>15, <3>1, <3>2
    <2> QED
      BY <1>1, <1>2, <1>9, <1>12, <1>14, <1>16, <2>1, <2>2, <2>3, NothingHappens
  <1>17. CallOK(v)'
    <2>1. Said(v)' = {}
      BY <1>2, <1>11 DEF Untouched, Said
    <2>2. InTurn(v)'
      BY <2>1 DEF InTurn
    <2>3. stage[v] # "idle"
      BY <1>9, <1>11 DEF CallOK
    <2>4. Collects(v)' \/ Answered(v)'
      <3>1. Collects(v) \/ Answered(v)
        BY <1>11 DEF CallOK
      <3>2. Answered(v) => out'[v] = <<>>
        BY <1>2, <1>9 DEF Answered
      <3>3. out'[v] = <<>> => Rising(out[v])' /\ After(v)'
        BY DEF Rising, After
      <3> QED
        BY <1>3, <1>9, <3>1, <3>2, <3>3 DEF Answered
    <2>5. ASSUME alone'[v] PROVE AloneOK(v)'
      <3>1. AloneOK(v)
        BY <1>2, <1>11, <2>5 DEF CallOK
      <3>2. ASSUME stage[v] = "waiting"
            PROVE  (\E k \in 0 .. Length(v) : NoGap(v, k)') /\ (Collects(v) => Lonely(v)')
        <4>1. PICK k \in 0 .. Length(v) : NoGap(v, k)
          BY <3>1, <3>2 DEF AloneOK
        <4>2. k = 0 /\ Given(v) = First(k)
          BY <1>9, <4>1 DEF NoGap
        <4>3. Given(v)' = First(k)
          BY <1>2, <1>3, <4>2 DEF Given
        <4>4. \A a \in Says(v)' : a.next = k + 1
          BY <1>12, <4>2
        <4>5. NoGap(v, k)'
          BY <1>9, <2>1, <4>3, <4>4 DEF NoGap, Follows, First
        <4>6. Collects(v) => Lonely(v)'
          BY <1>4, <1>15, <3>1, <3>2 DEF AloneOK
        <4> QED
          BY <4>5, <4>6
      <3> QED
        BY <1>2, <1>3, <3>1, <3>2 DEF AloneOK, First
    <2> QED
      BY <1>2, <1>9, <2>2, <2>3, <2>4, <2>5 DEF CallOK
  <1> QED
    BY <1>13, <1>16, <1>17 DEF ReplyInv

LEMMA CallKeeps == ASSUME ReplyInv, NEW v \in User, Call(v) PROVE ReplyInv'
  <1>1. ReplyTypes /\ \A u \in User : CallOK(u)
    BY ReplyFacts
  <1>2. /\ stage[v] = "idle" /\ online /\ stage' = [stage EXCEPT ![v] = "waiting"]
        /\ entry' = (IF Collects(v) THEN [user |-> v, data |-> <<>>] ELSE entry)
        /\ \A u \in User : alone'[u] = (IF u = v THEN ~(Collects(v) /\ Traces) ELSE alone[u] /\ ~Overlaps(v, u))
        /\ alone' \in [User -> BOOLEAN]
        /\ down' = Append(down, v)
        /\ UNCHANGED <<kind, out, online, up, sender>>
    <2>1. alone' = [u \in User |-> IF u = v THEN ~(Collects(v) /\ Traces) ELSE alone[u] /\ ~Overlaps(v, u)]
      BY Zenon DEF Call
    <2>2. /\ \A u \in User : alone'[u] = (IF u = v THEN ~(Collects(v) /\ Traces) ELSE alone[u] /\ ~Overlaps(v, u))
          /\ alone' \in [User -> BOOLEAN]
      BY Zenon, <2>1
    <2>3. /\ stage[v] = "idle" /\ online /\ stage' = [stage EXCEPT ![v] = "waiting"]
          /\ entry' = (IF Collects(v) THEN [user |-> v, data |-> <<>>] ELSE entry)
          /\ down' = Append(down, v)
          /\ UNCHANGED <<kind, out, online, up, sender>>
      BY DEF Call
    <2> QED
      BY <2>2, <2>3
  <1>3. /\ Proper' = Proper /\ Thread' = Thread
        /\ \A u : Collects(u)' = Collects(u) /\ Length(u)' = Length(u) /\ Steps(u)' = Steps(u)
    BY <1>2, KindStays
  <1>4. /\ down \in Seq(User) /\ down' \in Seq(User) /\ Len(down) \in Nat /\ Len(down') = Len(down) + 1
        /\ down'[Len(down) + 1] = v /\ \A i \in 1 .. Len(down) : down'[i] = down[i]
    BY <1>1, <1>2, AppendProperties, LenProperties DEF ReplyTypes
  <1>5. \A u : Asked(u) <=> \E i \in 1 .. Len(down) : down[i] = u
    BY DEF Asked
  <1>6. \A u : Asked(u)' <=> \E i \in 1 .. Len(down') : down'[i] = u
    BY DEF Asked
  <1>7. \A i \in 1 .. Len(down') : i \in 1 .. Len(down) \/ i = Len(down) + 1
    BY <1>4
  <1>8. \A u : u # v => (Asked(u)' => Asked(u))
    BY <1>4, <1>5, <1>6, <1>7
  <1>9. CallOK(v) /\ ~Asked(v) /\ Untouched(v) /\ out[v] = <<>>
    BY <1>1, <1>2 DEF CallOK
  <1>10. \A i, j \in 1 .. Len(down') : down'[i] = down'[j] => i = j
    <2>1. \A i \in 1 .. Len(down) : down[i] # v
      BY <1>5, <1>9
    <2>2. \A i, j \in 1 .. Len(down) : down[i] = down[j] => i = j
      BY <1>1 DEF ReplyTypes
    <2> QED
      BY <1>4, <1>7, <2>1, <2>2
  <1>11. /\ stage \in [User -> {"idle", "waiting", "settled", "returned", "failed"}]
         /\ stage' \in [User -> {"idle", "waiting", "settled", "returned", "failed"}]
         /\ stage'[v] = "waiting" /\ \A u \in User : u # v => stage'[u] = stage[u]
    BY <1>1, <1>2 DEF ReplyTypes
  <1>12. ReplyTypes'
    <2>1. entry' = None \/ (entry' \in [user : User, data : Seq(0 .. Pieces)] /\ Collects(entry'.user))
      <3>1. <<>> \in Seq(0 .. Pieces)
        BY EmptySeq
      <3>2. CASE Collects(v)
        BY <1>2, <3>1, <3>2
      <3>3. CASE ~Collects(v)
        BY <1>1, <1>2, <3>3 DEF ReplyTypes
      <3> QED
        BY <3>2, <3>3
    <2>3. entry' = None \/ (entry' \in [user : User, data : Seq(0 .. Pieces)] /\ Collects(entry.user)')
      BY <1>2, <2>1 DEF Collects
    <2> QED
      BY <1>1, <1>2, <1>3, <1>4, <1>10, <1>11, <2>3 DEF ReplyTypes
  <1>13. \A u : Same(u, 0) /\ Says(u)' = Says(u) /\ Said(u)' = Said(u)
    BY <1>1, <1>2, UpStays DEF Says, Said
  <1>14. \A u : Untouched(u)' = Untouched(u)
    BY <1>13 DEF Untouched
  <1>15. ASSUME NEW u \in User, u # v PROVE CallOK(u)'
    <2>1. CallOK(u)
      BY <1>1
    <2>2. alone'[u] => alone[u] /\ ~Overlaps(v, u)
      BY <1>2, <1>15
    <2>3. ASSUME alone'[u], stage[u] = "waiting", Collects(u) PROVE entry' = entry /\ Lonely(u)'
      <3>1. Lonely(u)
        BY <2>1, <2>2, <2>3 DEF CallOK, AloneOK
      <3>2. ~Collects(v)
        BY <2>2, <2>3 DEF Overlaps
      <3>3. ASSUME NEW w \in User, w # u
            PROVE  \/ ~Collects(w)
                   \/ /\ Active(w)' => Active(w)
                      /\ ~Asked(w) /\ Untouched(w) => ~Asked(w)' /\ Untouched(w)'
        <4>1. CASE w = v
          BY <3>2, <4>1
        <4>2. CASE w # v
          BY <1>8, <1>11, <1>14, <4>2 DEF Active
        <4> QED
          BY <4>1, <4>2
      <3>4. entry' = entry
        BY <1>2, <3>2
      <3> QED
        BY <1>2, <3>1, <3>3, <3>4, LonelyStays
    <2> QED
      BY <1>1, <1>2, <1>8, <1>11, <1>13, <1>15, <2>1, <2>2, <2>3, NothingHappens
  <1>16. CallOK(v)'
    <2>1. Said(v)' = {} /\ Says(v)' = {} /\ Untouched(v)' /\ out'[v] = <<>>
      BY <1>2, <1>9, <1>13 DEF Untouched
    <2>2. InTurn(v)'
      BY <2>1 DEF InTurn
    <2>3. Answered(v)'
      <3>1. Len(out'[v]) = 0
        BY <2>1
      <3> QED
        BY <2>1, <3>1 DEF Answered, Rising, After
    <2>4. ASSUME alone'[v] PROVE AloneOK(v)'
      <3>1. ~(Collects(v) /\ Traces)
        BY <1>2, <2>4
      <3>2. Given(v)' = First(0)
        <4>1. First(0) = <<>>
          BY DEF First
        <4> QED
          BY <1>2, <1>3, <2>1, <4>1 DEF Given
      <3>3. NoGap(v, 0)'
        BY <2>1, <3>2 DEF NoGap, First
      <3>4. ASSUME Collects(v) PROVE Lonely(v)'
        <4>1. entry' # None /\ entry'.user = v
          <5>1. entry'.user = v /\ entry' = [user |-> v, data |-> <<>>]
            BY <1>2, <3>4
          <5>2. v # "none" /\ None.user = "none"
            BY Sizes DEF None
          <5> QED
            BY <5>1, <5>2
        <4>2. ASSUME NEW w \in User \ {v}, Collects(w) PROVE ~Active(w)' /\ ~Asked(w)' /\ Untouched(w)'
          <5>1. ~Active(w) /\ ~Asked(w)
            BY <1>5, <3>1, <3>4, <4>2 DEF Traces
          <5>2. Said(w) = {} /\ Says(w) = {}
            BY <3>1, <3>4, <4>2 DEF Traces, Said, Says
          <5> QED
            BY <1>8, <1>11, <1>14, <4>2, <5>1, <5>2 DEF Active, Untouched
        <4> QED
          BY <1>2, <1>3, <4>1, <4>2 DEF Lonely, None
      <3>5. 0 \in 0 .. Length(v)
        <4>1. Length(v) \in 1 .. Pieces /\ Pieces \in Nat
          BY <1>1, Sizes DEF ReplyTypes
        <4> QED
          BY <4>1
      <3> QED
        BY <1>2, <1>3, <1>11, <3>3, <3>4, <3>5 DEF AloneOK
    <2> QED
      BY <1>11, <2>1, <2>2, <2>3, <2>4 DEF CallOK
  <1> QED
    BY <1>12, <1>15, <1>16 DEF ReplyInv

LEMMA SendKeeps == ASSUME ReplyInv, NEW s \in sender, Send(s) PROVE ReplyInv'
  <1>1. ReplyTypes /\ \A u \in User : CallOK(u)
    BY ReplyFacts
  <1>0. s.user \in User
    BY <1>1 DEF ReplyTypes, Thread
  <1> PICK v \in User : v = s.user
    BY <1>0
  <1> DEFINE t == [s EXCEPT !.next = @ + 1]
  <1>2. PICK broken \in BOOLEAN :
           /\ up' = (IF online THEN Append(up, Piece(s, broken)) ELSE up)
           /\ sender' = (sender \ {s}) \union (IF broken \/ s.next = Steps(v) THEN {} ELSE {t})
    BY DEF Send
  <1>3. UNCHANGED <<kind, stage, out, entry, online, down, alone>>
    BY DEF Send
  <1> PICK m : m = Piece(s, broken)
    OBVIOUS
  <1>4. /\ Proper' = Proper /\ Thread' = Thread
        /\ \A u : Collects(u)' = Collects(u) /\ Length(u)' = Length(u) /\ Steps(u)' = Steps(u)
        /\ \A x : Num(x)' = Num(x)
    BY <1>3, KindStays
  <1>5. /\ s \in Thread /\ v \in User /\ s.next \in 1 .. Steps(v) /\ s = [user |-> v, next |-> s.next]
        /\ Length(v) \in 1 .. Pieces /\ Steps(v) \in 1 .. Pieces + 1 /\ Pieces \in Nat
        /\ Collects(v) => Length(v) = Pieces /\ Steps(v) = Pieces + 1
        /\ ~Collects(v) => Steps(v) = Length(v)
    <2>1. s \in Thread /\ v \in User /\ s.next \in 1 .. Pieces + 1 /\ s.next <= Steps(v) /\ s = [user |-> v, next |-> s.next]
      BY <1>1 DEF ReplyTypes, Thread
    <2> QED
      BY <1>1, <2>1, Sizes DEF ReplyTypes
  <1>6. /\ m \in Proper /\ m.user = v /\ m.error = broken
        /\ m.data = 0 \/ m.data = s.next
        /\ ~broken => Num(m) = s.next
    <2>1. /\ m.user = v /\ m.error = broken /\ m.last = (broken \/ s.next = Steps(v))
          /\ m.data = (IF broken \/ s.next > Length(v) THEN 0 ELSE s.next)
          /\ m = [user |-> m.user, error |-> m.error, data |-> m.data, last |-> m.last]
      BY DEF Piece
    <2>2. m.data \in 0 .. Pieces /\ m.last \in BOOLEAN /\ m.data <= Length(v) /\ (m.data = 0 \/ m.data = s.next)
      BY <1>5, <2>1
    <2>3. ~broken => Num(m) = s.next
      <3>1. CASE m.data # 0
        BY <2>2, <3>1 DEF Num
      <3>2. CASE m.data = 0 /\ ~broken
        <4>1. s.next > Length(v)
          BY <1>5, <2>1, <3>2
        <4>2. s.next = Steps(v)
          BY <1>5, <4>1
        <4> QED
          BY <2>1, <3>2, <4>2 DEF Num
      <3> QED
        BY <3>1, <3>2
    <2>4. ASSUME ~broken, m.data = 0 PROVE Collects(v) /\ m.last
      <3>1. s.next > Length(v)
        BY <1>5, <2>1, <2>4
      <3>2. Collects(v) /\ s.next = Steps(v)
        BY <1>5, <3>1
      <3> QED
        BY <2>1, <3>2
    <2>5. m \in Chunk
      BY <1>5, <2>1, <2>2 DEF Chunk
    <2> QED
      BY <2>1, <2>2, <2>3, <2>4, <2>5 DEF Proper
  <1>7. Says(v) = {s} /\ ~Asked(v) /\ stage[v] # "idle" /\ CallOK(v) /\ ~Untouched(v)
    <2>1. Says(v) = {s}
      BY <1>1 DEF Says, ReplyTypes
    <2>2. ~Untouched(v)
      BY <2>1 DEF Untouched
    <2> QED
      BY <1>1, <1>5, <2>1, <2>2 DEF CallOK
  <1>8. t = [user |-> v, next |-> s.next + 1] /\ t.user = v /\ t.next = s.next + 1
    BY <1>5
  <1> HIDE DEF t
  <1>9. /\ \A u : u # v => Says(u)' = Says(u)
        /\ Says(v)' \subseteq {t} /\ (broken => Says(v)' = {})
    <2>1. \A x : x \in sender /\ x.user = v => x = s
      BY <1>7 DEF Says
    <2> QED
      BY <1>2, <1>8, <2>1 DEF Says
  <1>10. sender' \subseteq Thread /\ \A a, b \in sender' : a.user = b.user => a = b
    <2>1. sender \subseteq Thread /\ \A a, b \in sender : a.user = b.user => a = b
      BY <1>1 DEF ReplyTypes
    <2>2. s.next # Steps(v) => t \in Thread
      BY <1>5, <1>8 DEF Thread
    <2>3. sender' \subseteq (sender \ {s}) \union {t} /\ \A x \in sender \ {s} : x.user # t.user
      BY <1>2, <1>8, <2>1
    <2> QED
      BY <1>2, <2>1, <2>2, <2>3
  <1>11. up' \in Seq(Proper)
    BY <1>1, <1>2, <1>6, UpGrows DEF ReplyTypes
  <1>12. ReplyTypes'
    BY <1>1, <1>3, <1>4, <1>10, <1>11 DEF ReplyTypes
  <1>13. \A u : (u # v => Same(u, 0)) /\ Asked(u)' = Asked(u)
    <2>1. \A u : Asked(u)' = Asked(u)
      BY <1>3 DEF Asked
    <2>2. CASE online
      BY <1>1, <1>2, <1>6, <2>1, <2>2, UpGrows
    <2>3. CASE ~online
      BY <1>1, <1>2, <2>1, <2>3, UpStays
    <2> QED
      BY <2>2, <2>3
  <1>14. ASSUME NEW u \in User, Lonely(u) PROVE Lonely(u)'
    <2>1. ASSUME NEW w \in User, w # u
          PROVE  \/ ~Collects(w)
                 \/ /\ Active(w)' => Active(w)
                    /\ ~Asked(w) /\ Untouched(w) => ~Asked(w)' /\ Untouched(w)'
      <3>1. CASE w = v
        BY <1>3, <1>7, <3>1 DEF Active
      <3>2. CASE w # v
        BY <1>3, <1>9, <1>13, <3>2, UntouchedStays DEF Active
      <3> QED
        BY <3>1, <3>2
    <2> QED
      BY <1>3, <1>14, <2>1, LonelyStays
  <1>15. ASSUME NEW u \in User, u # v PROVE CallOK(u)'
    <2>1. CallOK(u)
      BY <1>1
    <2>2. alone'[u] => alone[u] /\ online'
      BY <1>3, <2>1 DEF CallOK, AloneOK
    <2>3. ASSUME alone'[u], stage[u] = "waiting", Collects(u) PROVE entry' = entry /\ Lonely(u)'
      BY <1>3, <1>14, <2>1, <2>3 DEF CallOK, AloneOK
    <2> QED
      BY <1>1, <1>3, <1>9, <1>13, <1>15, <2>1, <2>2, <2>3, NothingHappens
  <1>16. ASSUME ~online PROVE CallOK(v)'
    <2>1. up' = up
      BY <1>2, <1>16
    <2>2. Said(v)' = Said(v) /\ \A i \in Said(v) : up[i].data \in Nat
      <3>1. \A i \in Said(v) : up[i] \in Proper
        BY <1>1, SaidIs
      <3> QED
        BY <2>1, <3>1 DEF Said, Proper, Chunk
    <2>3. InTurn(v)'
      <3>1. InTurn(v)
        BY <1>7 DEF CallOK
      <3>2. \A i \in Said(v) : up[i].data < s.next
        BY <1>7, <3>1 DEF InTurn
      <3>3. \A a \in Says(v)' : \A i \in Said(v) : up[i].data < a.next
        BY <1>5, <1>8, <1>9, <2>2, <3>2
      <3> QED
        BY <2>1, <2>2, <3>1, <3>3 DEF InTurn
    <2>4. Collects(v)' \/ Answered(v)'
      <3>1. Collects(v) \/ Answered(v)
        BY <1>7 DEF CallOK
      <3>2. ASSUME Answered(v), stage[v] = "waiting" PROVE After(v)'
        <4>1. After(v)
          BY <3>2 DEF Answered
        <4>2. \A k \in 1 .. Len(out[v]) : out[v][k] \in Nat /\ out[v][k] < s.next
          <5>1. out[v] \in Seq(0 .. Pieces)
            BY <1>1, <1>5 DEF ReplyTypes
          <5>2. \A k \in 1 .. Len(out[v]) : out[v][k] \in 0 .. Pieces
            BY <5>1, ElementOfSeq
          <5> QED
            BY <1>5, <1>7, <4>1, <5>2 DEF After
        <4>3. \A k \in 1 .. Len(out[v]) : \A a \in Says(v)' : out[v][k] < a.next
          BY <1>5, <1>8, <1>9, <4>2
        <4> QED
          BY <1>3, <2>1, <2>2, <4>1, <4>3 DEF After
      <3> QED
        BY <1>3, <1>4, <1>13, <3>1, <3>2 DEF Answered, Rising
    <2>5. ~alone'[v]
      BY <1>3, <1>7, <1>16 DEF CallOK, AloneOK
    <2>6. ~Asked(v)' /\ stage'[v] # "idle"
      BY <1>3, <1>7, <1>13
    <2> QED
      BY <2>3, <2>4, <2>5, <2>6 DEF CallOK
  <1>17. ASSUME online PROVE CallOK(v)'
    <2>1. /\ Len(up') = Len(up) + 1 /\ Len(up) \in Nat /\ up'[Len(up) + 1] = m
          /\ \A i \in 1 .. Len(up) : up'[i] = up[i]
          /\ \A i : i \in Said(v)' <=> i \in Said(v) \/ i = Len(up) + 1
      BY <1>1, <1>2, <1>6, <1>17, UpGrows
    <2>2. \A i \in Said(v) : i \in Nat /\ i < Len(up) + 1 /\ up'[i] = up[i] /\ up[i].data \in Nat
      <3>1. \A i \in Said(v) : i \in 1 .. Len(up) /\ up[i] \in Proper
        BY <1>1, SaidIs
      <3> QED
        BY <2>1, <3>1 DEF Proper, Chunk
    <2>3. InTurn(v)'
      <3>1. InTurn(v)
        BY <1>7 DEF CallOK
      <3>2. \A i \in Said(v) : up[i].data < s.next
        BY <1>7, <3>1 DEF InTurn
      <3>3. ASSUME NEW i \in Said(v)', NEW j \in Said(v)', i < j
            PROVE  up'[j].data = 0 \/ up'[i].data < up'[j].data
        <4>1. i \in Said(v)
          BY <2>1, <2>2, <3>3
        <4>2. CASE j \in Said(v)
          BY <2>2, <3>1, <3>3, <4>1, <4>2 DEF InTurn
        <4>3. CASE j = Len(up) + 1
          BY <1>6, <2>1, <2>2, <3>2, <4>1, <4>3
        <4> QED
          BY <2>1, <4>2, <4>3
      <3>4. ASSUME NEW a \in Says(v)', NEW i \in Said(v)' PROVE up'[i].data < a.next
        <4>1. a.next = s.next + 1 /\ s.next \in Nat /\ s.next > 0
          BY <1>5, <1>8, <1>9
        <4>2. CASE i \in Said(v)
          BY <2>2, <3>2, <4>1, <4>2
        <4>3. CASE i = Len(up) + 1
          BY <1>6, <2>1, <4>1, <4>3
        <4> QED
          BY <2>1, <4>2, <4>3
      <3> QED
        BY <3>3, <3>4 DEF InTurn
    <2>4. Collects(v)' \/ Answered(v)'
      <3>1. Collects(v) \/ Answered(v)
        BY <1>7 DEF CallOK
      <3>2. ASSUME Answered(v), stage[v] = "waiting" PROVE After(v)'
        <4>1. After(v)
          BY <3>2 DEF Answered
        <4>2. \A k \in 1 .. Len(out[v]) : out[v][k] \in Nat /\ out[v][k] < s.next
          <5>1. out[v] \in Seq(0 .. Pieces)
            BY <1>1, <1>5 DEF ReplyTypes
          <5>2. \A k \in 1 .. Len(out[v]) : out[v][k] \in 0 .. Pieces
            BY <5>1, ElementOfSeq
          <5> QED
            BY <1>5, <1>7, <4>1, <5>2 DEF After
        <4>3. \A k \in 1 .. Len(out[v]) : \A a \in Says(v)' : out[v][k] < a.next
          BY <1>5, <1>8, <1>9, <4>2
        <4>4. ASSUME NEW k \in 1 .. Len(out[v]), NEW i \in Said(v)' PROVE up'[i].data = 0 \/ out[v][k] < up'[i].data
          <5>1. CASE i \in Said(v)
            BY <2>2, <4>1, <5>1 DEF After
          <5>2. CASE i = Len(up) + 1
            BY <1>6, <2>1, <4>2, <5>2
          <5> QED
            BY <2>1, <5>1, <5>2
        <4> QED
          BY <1>3, <4>3, <4>4 DEF After
      <3> QED
        BY <1>3, <1>4, <1>13, <3>1, <3>2 DEF Answered, Rising
    <2>5. ASSUME alone'[v] PROVE AloneOK(v)'
      <3>1. AloneOK(v)
        BY <1>3, <1>7, <2>5 DEF CallOK
      <3>2. ASSUME NEW k \in 0 .. Length(v), NoGap(v, k) PROVE NoGap(v, k)'
        <4>1. \A x : Num(x)' = Num(x)
          BY <1>4
        <4>2. ASSUME NEW n, NEW j \in Nat, j < Len(up) + 2, Follows(v, k, n, j) PROVE Follows(v, k, n, j)'
          <5>1. CASE n = k + 1
            BY <5>1 DEF Follows
          <5>2. CASE n # k + 1
            <6>1. PICK i \in Said(v) : i < j /\ ~up[i].error /\ Num(up[i]) = n - 1
              BY <4>2, <5>2 DEF Follows
            <6>2. i \in Said(v)' /\ up'[i] = up[i]
              BY <2>1, <2>2
            <6>3. Num(up[i])' = Num(up[i])
              BY <1>3, <6>2 DEF Num, Steps, Length, Collects
            <6> QED
              BY <6>1, <6>2, <6>3 DEF Follows
          <5> QED
            BY <5>1, <5>2
        <4>3. ASSUME NEW j \in Said(v)', ~up'[j].error PROVE Follows(v, k, Num(up[j]), j)'
          <5>1. CASE j \in Said(v)
            <6>1. Num(up[j])' = Num(up[j]) /\ up'[j] = up[j] /\ j \in Nat /\ j < Len(up) + 2
              BY <1>3, <2>1, <2>2, <5>1 DEF Num, Steps, Length, Collects
            <6>2. Follows(v, k, Num(up[j]), j)
              BY <3>2, <4>3, <5>1, <6>1 DEF NoGap
            <6>3. \A n : Follows(v, k, n, j) => Follows(v, k, n, j)'
              BY <4>2, <6>1
            <6> QED
              BY <6>1, <6>2, <6>3 DEF Follows
          <5>2. CASE j = Len(up) + 1
            <6>1. Num(up[j])' = s.next /\ j \in Nat /\ j < Len(up) + 2
              <7>1. Num(up[j])' = Num(m)
                BY <1>3, <2>1, <5>2 DEF Num, Steps, Length, Collects
              <7> QED
                BY <1>6, <2>1, <4>3, <5>2, <7>1
            <6>2. Follows(v, k, s.next, j)
              BY <1>7, <3>2, <5>2 DEF NoGap
            <6>3. Follows(v, k, s.next, j)'
              BY <4>2, <6>1, <6>2
            <6> QED
              BY <6>1, <6>3 DEF Follows
          <5> QED
            BY <2>1, <5>1, <5>2
        <4>4. ASSUME NEW a \in Says(v)' PROVE Follows(v, k, a.next, Len(up) + 1)'
          <5>1. a = t /\ ~broken /\ a.next = s.next + 1 /\ a.next - 1 = s.next
            BY <1>5, <1>8, <1>9
          <5> DEFINE e == Len(up) + 1
          <5>2. up'[e] = m /\ ~m.error /\ e \in Said(v)' /\ e < Len(up') + 1
            BY <1>6, <2>1, <5>1
          <5>3. (IF m.data # 0 THEN m.data ELSE Steps(m.user)') = a.next - 1
            <6>1. Num(m) = s.next /\ Steps(v)' = Steps(v)
              BY <1>4, <1>6, <5>1
            <6> QED
              BY <1>6, <5>1, <6>1 DEF Num
          <5> HIDE DEF e
          <5>4. \E i \in Said(v)' : i < Len(up') + 1 /\ ~up'[i].error /\ Num(up[i])' = a.next - 1
            <6>1. \E i : i = e
              OBVIOUS
            <6>2. PICK i : i = e
              BY <6>1
            <6>3. Num(up[i])' = (IF m.data # 0 THEN m.data ELSE Steps(m.user)')
              BY <1>3, <5>2, <6>2 DEF Num, Steps, Length, Collects
            <6> QED
              BY <5>2, <5>3, <6>2, <6>3
          <5> QED
            BY <5>4 DEF Follows
        <4>5. Given(v)' = Given(v)
          BY <1>3, <1>4 DEF Given
        <4> QED
          BY <1>7, <1>13, <3>2, <4>3, <4>4, <4>5 DEF NoGap, First
      <3> QED
        BY <1>3, <1>4, <1>5, <1>14, <3>1, <3>2 DEF AloneOK, First
    <2>6. ~Asked(v)' /\ stage'[v] # "idle"
      BY <1>3, <1>7, <1>13
    <2> QED
      BY <2>3, <2>4, <2>5, <2>6 DEF CallOK
  <1> QED
    BY <1>12, <1>15, <1>16, <1>17 DEF ReplyInv

LEMMA FirstGrows ==
    ASSUME NEW k \in Nat
    PROVE  /\ Append(First(k), k + 1) = First(k + 1) /\ Len(First(k)) = k
           /\ First(k) \in Seq(Nat)
  <1>1. First(k) \in Seq(Nat) /\ Len(First(k)) = k /\ \A i \in 1 .. k : First(k)[i] = i
    BY DEF First
  <1>2. /\ First(k + 1) \in Seq(Nat) /\ Len(First(k + 1)) = k + 1
        /\ \A i \in 1 .. k + 1 : First(k + 1)[i] = i
    BY DEF First
  <1> HIDE DEF First
  <1>3. /\ Append(First(k), k + 1) \in Seq(Nat) /\ Len(Append(First(k), k + 1)) = k + 1
        /\ \A i \in 1 .. k : Append(First(k), k + 1)[i] = i
        /\ Append(First(k), k + 1)[k + 1] = k + 1
    BY <1>1, AppendProperties
  <1>4. \A i \in 1 .. k + 1 : Append(First(k), k + 1)[i] = First(k + 1)[i]
    BY <1>2, <1>3
  <1> QED
    BY <1>1, <1>2, <1>3, <1>4, SeqEqual

(* A piece is taken: what follows it follows what has now been given.         *)
LEMMA GapMoves ==
    ASSUME ReplyTypes, NEW u \in User, InTurn(u), kind' = kind, sender' = sender, NEW k \in Nat, NoGap(u, k),
           up # <<>>, up' = Tail(up), NEW m \in Proper, m = Head(up), m.user = u,
           ~m.error, ~m.last, ~Asked(u)', Given(u)' = First(k + 1)
    PROVE  Num(m) = k + 1 /\ NoGap(u, k + 1)'
  <1>1. /\ 1 \in Said(u) /\ up[1] = m /\ Len(up') = Len(up) - 1 /\ Len(up) \in Nat /\ Len(up) > 0
        /\ \A i \in Said(u)' : i \in Nat /\ i > 0 /\ i + 1 \in Said(u) /\ up'[i] = up[i + 1] /\ i < Len(up') + 1
        /\ \A i \in Said(u) : i \in Nat /\ i > 0 /\ (i # 1 => i - 1 \in Said(u)')
    BY UpShrinks
  <1>2. Num(m) = k + 1
    <2>1. Follows(u, k, Num(up[1]), 1)
      BY <1>1 DEF NoGap
    <2> QED
      BY <1>1, <2>1 DEF Follows
  <1>3. m.data = k + 1 /\ k + 1 # Steps(u)
    <2>1. (m.data = 0 => m.last) /\ (m.last <=> Num(m) = Steps(m.user))
      BY DEF Proper
    <2> QED
      BY <1>2, <2>1 DEF Num
  <1>4. Says(u)' = Says(u)
    BY DEF Says
  <1>5. ASSUME NEW n \in Nat, NEW j \in Nat, Follows(u, k, n, j + 1), n # k + 1 PROVE Follows(u, k + 1, n, j)'
    <2>1. PICK i \in Said(u) : i < j + 1 /\ ~up[i].error /\ Num(up[i]) = n - 1
      BY <1>5 DEF Follows
    <2> PICK h : h = i - 1
      OBVIOUS
    <2>2. CASE i = 1
      <3>1. n - 1 = k + 1
        BY <1>1, <1>2, <2>1, <2>2
      <3>2. n = k + 1 + 1
        BY <3>1
      <3> QED
        BY <3>1, <3>2 DEF Follows
    <2>3. CASE i # 1
      <3>1. h \in Said(u)' /\ h < j /\ up'[h] = up[i] /\ h + 1 = i
        BY <1>1, <2>1, <2>3
      <3>2. Num(up[h])' = Num(up[i])
        BY <3>1 DEF Num, Steps, Length, Collects
      <3> QED
        BY <2>1, <3>1, <3>2 DEF Follows
    <2> QED
      BY <2>2, <2>3
  <1>6. ASSUME NEW j \in Said(u)', ~up'[j].error PROVE Follows(u, k + 1, Num(up[j]), j)'
    <2>1. j \in Nat /\ j > 0 /\ j + 1 \in Said(u) /\ up'[j] = up[j + 1]
      BY <1>1
    <2>2. Num(up[j])' = Num(up[j + 1])
      BY <2>1 DEF Num, Steps, Length, Collects
    <2>3. Follows(u, k, Num(up[j + 1]), j + 1)
      BY <1>6, <2>1 DEF NoGap
    <2>4. Num(up[j + 1]) # k + 1 /\ Num(up[j + 1]) \in Nat
      <3>1. up[j + 1].data = 0 \/ k + 1 < up[j + 1].data
        BY <1>1, <1>3, <2>1 DEF InTurn
      <3>2. up[j + 1] \in Proper /\ up[j + 1].user = u
        BY <2>1, SaidIs
      <3>3. up[j + 1].data # 0 => up[j + 1].data \in Nat
        BY <3>2, Sizes DEF Proper, Chunk
      <3>4. Steps(u) \in Nat
        BY Sizes DEF ReplyTypes
      <3> QED
        BY <1>3, <3>1, <3>2, <3>3, <3>4 DEF Num
    <2> QED
      <3>1. \A n \in Nat : Follows(u, k, n, j + 1) /\ n # k + 1 => Follows(u, k + 1, n, j)'
        BY <1>5, <2>1
      <3> QED
        BY <2>2, <2>3, <2>4, <3>1 DEF Follows
  <1>7. ASSUME NEW s \in Says(u)' PROVE Follows(u, k + 1, s.next, Len(up) + 1)'
    <2>1. Follows(u, k, s.next, Len(up) + 1) /\ s \in Says(u)
      BY <1>4 DEF NoGap
    <2>2. s.next # k + 1 /\ s.next \in Nat
      <3>1. k + 1 < s.next
        BY <1>1, <1>3, <2>1 DEF InTurn
      <3>2. s \in Thread
        BY <2>1 DEF Says, ReplyTypes
      <3> QED
        BY <3>1, <3>2, Sizes DEF Thread
    <2> PICK e : e = Len(up') + 1
      OBVIOUS
    <2>3. e = Len(up) /\ e \in Nat
      BY <1>1
    <2>4. Follows(u, k + 1, s.next, e)'
      BY <1>5, <2>1, <2>2, <2>3
    <2> QED
      BY <2>4 DEF Follows
  <1> QED
    BY <1>2, <1>4, <1>6, <1>7 DEF NoGap, First

(* What the head of the queue is, to the call it is for.                      *)
LEMMA HeadIs ==
    ASSUME ReplyTypes, NEW u \in User, NEW k \in Nat, NoGap(u, k), up # <<>>, up' = Tail(up),
           NEW m \in Proper, m = Head(up), m.user = u, ~m.error
    PROVE  Num(m) = k + 1
  <1>1. /\ 1 \in Said(u) /\ up[1] = m /\ \A i \in Said(u) : i \in Nat /\ i > 0
    BY UpShrinks
  <1>2. Follows(u, k, Num(up[1]), 1)
    BY <1>1 DEF NoGap
  <1> QED
    BY <1>1, <1>2 DEF Follows

LEMMA AnswerKeeps ==
    ASSUME ReplyInv, up # <<>>, up' = Tail(up), NEW m \in Proper, m = Head(up), Answer(m),
           UNCHANGED <<kind, online, down, sender, alone>>
    PROVE  ReplyInv'
  <1>1. ReplyTypes /\ \A u \in User : CallOK(u)
    BY ReplyFacts
  <1>0. m.user \in User
    BY DEF Proper, Chunk
  <1> PICK v \in User : v = m.user
    BY <1>0
  <1>2. /\ ~Collects(v) /\ entry' = entry
        /\ \A u \in User : u # v => stage'[u] = stage[u] /\ out'[u] = out[u]
        /\ stage[v] # "waiting" => stage'[v] = stage[v] /\ out'[v] = out[v]
        /\ stage[v] = "waiting" => /\ stage'[v] = (IF m.last THEN "settled" ELSE "waiting")
                                   /\ out'[v] = (IF m.error THEN <<0>> ELSE Append(out[v], m.data))
    BY DEF Answer, Addressed
  <1>3. /\ Proper' = Proper /\ Thread' = Thread
        /\ \A u : Collects(u)' = Collects(u) /\ Length(u)' = Length(u) /\ Steps(u)' = Steps(u)
    BY KindStays
  <1>4. /\ 1 \in Said(v) /\ up[1] = m /\ Len(up') = Len(up) - 1 /\ Len(up) \in Nat /\ Len(up) > 0
        /\ up' \in Seq(Proper)
        /\ \A i \in Said(v)' : i \in Nat /\ i > 0 /\ i + 1 \in Said(v) /\ up'[i] = up[i + 1] /\ i < Len(up') + 1
        /\ \A u : u # v => Same(u, 1)
    BY <1>1, UpShrinks
  <1>5. /\ m.data \in 0 .. Pieces /\ m.error \in BOOLEAN /\ m.last \in BOOLEAN
        /\ ~m.error => m.data # 0 /\ Num(m) = m.data /\ (m.last <=> m.data = Length(v))
        /\ m.error => m.last
    BY <1>1, <1>2, Sizes DEF Proper, Chunk, Num, ReplyTypes
  <1>6. out \in [User -> Seq(0 .. Pieces)] /\ out' \in [User -> Seq(0 .. Pieces)]
    <2>1. out \in [User -> Seq(0 .. Pieces)]
      BY <1>1 DEF ReplyTypes
    <2>2. Append(out[v], m.data) \in Seq(0 .. Pieces) /\ <<0>> \in Seq(0 .. Pieces)
      BY <1>5, <2>1, AppendProperties, Sizes
    <2>3. \A u \in User : out'[u] \in Seq(0 .. Pieces)
      BY <1>2, <2>1, <2>2
    <2>4. out' = [u \in User |-> out'[u]]
      BY DEF Answer
    <2> HIDE DEF Answer
    <2> QED
      BY <2>1, <2>3, <2>4
  <1>7. stage' \in [User -> {"idle", "waiting", "settled", "returned", "failed"}]
    <2>1. stage \in [User -> {"idle", "waiting", "settled", "returned", "failed"}]
      BY <1>1 DEF ReplyTypes
    <2>2. \A u \in User : stage'[u] \in {"idle", "waiting", "settled", "returned", "failed"}
      BY <1>2, <2>1
    <2>3. stage' = [u \in User |-> stage'[u]]
      BY DEF Answer
    <2> QED
      BY <2>2, <2>3
  <1>8. ReplyTypes'
    BY <1>1, <1>2, <1>3, <1>4, <1>6, <1>7 DEF ReplyTypes
  <1>9. \A u : Says(u)' = Says(u) /\ Asked(u)' = Asked(u)
    BY DEF Says, Asked
  <1>10. ASSUME NEW u \in User, u # v PROVE CallOK(u)'
    <2>1. CallOK(u)
      BY <1>1
    <2>2. alone'[u] => alone[u] /\ online'
      BY <2>1 DEF CallOK, AloneOK
    <2>3. ASSUME alone'[u], stage[u] = "waiting", Collects(u) PROVE entry' = entry /\ Lonely(u)'
      <3>1. Lonely(u)
        BY <2>1, <2>3 DEF CallOK, AloneOK
      <3>2. ASSUME NEW w \in User, w # u
            PROVE  \/ ~Collects(w)
                   \/ /\ Active(w)' => Active(w)
                      /\ ~Asked(w) /\ Untouched(w) => ~Asked(w)' /\ Untouched(w)'
        <4>1. CASE w = v
          BY <1>2, <4>1
        <4>2. CASE w # v
          BY <1>2, <1>4, <1>9, <4>2, UntouchedStays DEF Active
        <4> QED
          BY <4>1, <4>2
      <3> QED
        BY <1>2, <3>1, <3>2, LonelyStays
    <2> QED
      BY <1>1, <1>2, <1>4, <1>9, <1>10, <2>1, <2>2, <2>3, NothingHappens
  <1>11. CallOK(v)'
    <2>1. CallOK(v) /\ ~Asked(v) /\ stage[v] # "idle"
      BY <1>1, <1>4 DEF CallOK, Untouched
    <2>2. /\ stage'[v] = "idle" => ~Asked(v)' /\ Untouched(v)' /\ out'[v] = <<>> /\ ~alone'[v]
          /\ Asked(v)' => Untouched(v)'
          /\ InTurn(v)'
      <3>1. stage'[v] # "idle"
        BY <1>2, <2>1
      <3> QED
        BY <1>1, <1>4, <1>9, <2>1, <3>1, BaseStays
    <2>3. Answered(v)
      BY <1>2, <2>1 DEF CallOK
    <2>4. ASSUME stage[v] # "waiting" PROVE CallOK(v)'
      <3>1. Answered(v)'
        BY <1>2, <1>9, <2>3, <2>4 DEF Answered, Rising
      <3>2. alone'[v] => AloneOK(v)'
        BY <1>2, <1>3, <2>1, <2>4 DEF CallOK, AloneOK, First
      <3> QED
        BY <2>2, <3>1, <3>2 DEF CallOK
    <2>5. ASSUME stage[v] = "waiting", m.error PROVE CallOK(v)'
      <3>1. stage'[v] = "settled" /\ out'[v] = <<0>>
        BY <1>2, <1>5, <2>5
      <3>2. Rising(out[v])'
        BY <3>1 DEF Rising
      <3>3. Answered(v)'
        BY <1>9, <2>1, <3>1, <3>2 DEF Answered
      <3>4. alone'[v] => AloneOK(v)'
        BY <2>1, <3>1 DEF CallOK, AloneOK
      <3> QED
        BY <2>2, <3>3, <3>4 DEF CallOK
    <2>6. ASSUME stage[v] = "waiting", ~m.error PROVE CallOK(v)'
      <3>1. stage'[v] = (IF m.last THEN "settled" ELSE "waiting") /\ out'[v] = Append(out[v], m.data)
        BY <1>2, <2>6
      <3>2. After(v) /\ Rising(out[v]) /\ InTurn(v)
        BY <2>1, <2>3, <2>6 DEF Answered, CallOK
      <3>3. /\ Len(out'[v]) = Len(out[v]) + 1 /\ Len(out[v]) \in Nat /\ out'[v][Len(out[v]) + 1] = m.data
            /\ \A k \in 1 .. Len(out[v]) : out'[v][k] = out[v][k] /\ out[v][k] < m.data
        <4>1. \A k \in 1 .. Len(out[v]) : out[v][k] < m.data
          BY <1>4, <1>5, <2>6, <3>2 DEF After
        <4> QED
          BY <1>5, <1>6, <3>1, <4>1, AppendProperties, LenProperties
      <3> PICK n : n = Len(out[v])
        OBVIOUS
      <3>8. n \in Nat /\ Len(out'[v]) = n + 1
        BY <3>3
      <3>9. \A k : k \in 1 .. Len(out'[v]) => k \in 1 .. n \/ k = n + 1
        BY <3>8
      <3>10. \A k : k \in 1 .. n => out'[v][k] = out[v][k] /\ out[v][k] < m.data
        BY <3>3
      <3>11. out'[v][n + 1] = m.data
        BY <3>3
      <3>4. Rising(out[v])'
        <4> SUFFICES ASSUME NEW i \in 1 .. Len(out'[v]), NEW j \in 1 .. Len(out'[v]), i < j
                     PROVE  out'[v][i] < out'[v][j]
          BY DEF Rising
        <4>1. i \in 1 .. n
          BY <3>8
        <4>2. CASE j \in 1 .. n
          BY <3>2, <3>10, <4>1, <4>2 DEF Rising
        <4>3. CASE j = n + 1
          BY <3>10, <3>11, <4>1, <4>3
        <4> QED
          BY <3>9, <4>2, <4>3
      <3>5. After(v)'
        <4>1. ASSUME NEW k \in 1 .. Len(out'[v]), NEW i \in Said(v)' PROVE up'[i].data = 0 \/ out'[v][k] < up'[i].data
          <5>1. i \in Nat /\ i > 0 /\ i + 1 \in Said(v) /\ up'[i] = up[i + 1]
            BY <1>4
          <5>2. CASE k \in 1 .. n
            BY <3>2, <3>3, <5>1, <5>2 DEF After
          <5>3. CASE k = n + 1
            <6>1. 1 < i + 1
              BY <5>1
            <6> QED
              BY <1>4, <3>2, <3>3, <5>1, <5>3, <6>1 DEF InTurn
          <5> QED
            BY <3>9, <5>2, <5>3
        <4>2. ASSUME NEW k \in 1 .. Len(out'[v]), NEW s \in Says(v)' PROVE out'[v][k] < s.next
          <5>1. s \in Says(v)
            BY <1>9
          <5>2. CASE k \in 1 .. n
            BY <3>2, <3>3, <5>1, <5>2 DEF After
          <5>3. CASE k = n + 1
            BY <1>4, <3>2, <3>3, <5>1, <5>3 DEF InTurn
          <5> QED
            BY <3>9, <5>2, <5>3
        <4> QED
          BY <4>1, <4>2 DEF After
      <3>6. Answered(v)'
        BY <1>9, <2>1, <3>4, <3>5 DEF Answered
      <3>7. ASSUME alone'[v] PROVE AloneOK(v)'
        <4>1. AloneOK(v)
          BY <2>1, <3>7 DEF CallOK
        <4>2. PICK k \in 0 .. Length(v) : NoGap(v, k)
          BY <2>6, <4>1 DEF AloneOK
        <4>3. k \in Nat /\ Length(v) \in Nat /\ k <= Length(v)
          BY <1>1, <4>2, Sizes DEF ReplyTypes
        <4>4. m.data = k + 1
          BY <1>1, <1>5, <2>6, <4>2, <4>3, HeadIs
        <4>5. out'[v] = First(k + 1)
          <5>1. out[v] = First(k)
            BY <1>2, <4>2 DEF NoGap, Given
          <5> QED
            BY <3>1, <4>3, <4>4, <5>1, FirstGrows
        <4>6. m.last => out'[v] = First(Length(v))
          BY <1>5, <2>6, <4>4, <4>5
        <4>7. ASSUME ~m.last PROVE k + 1 \in 0 .. Length(v) /\ NoGap(v, k + 1)'
          <5>1. Given(v)' = First(k + 1)
            BY <1>2, <1>3, <4>5 DEF Given
          <5>2. NoGap(v, k + 1)'
            BY <1>1, <1>9, <2>1, <2>6, <3>2, <4>2, <4>3, <4>7, <5>1, GapMoves
          <5>3. m.data <= Length(v)
            BY <2>6 DEF Proper
          <5> QED
            BY <4>3, <4>4, <5>2, <5>3
        <4> QED
          BY <1>2, <1>3, <3>1, <4>1, <4>6, <4>7 DEF AloneOK, First
      <3> QED
        BY <2>2, <3>6, <3>7 DEF CallOK
    <2> QED
      BY <1>5, <2>4, <2>5, <2>6
  <1> QED
    BY <1>8, <1>10, <1>11 DEF ReplyInv

LEMMA ChunkKeeps ==
    ASSUME ReplyInv, up # <<>>, up' = Tail(up), NEW m \in Proper, m = Head(up), ResultChunk(m),
           UNCHANGED <<kind, online, down, sender, alone>>
    PROVE  ReplyInv'
  <1>1. ReplyTypes /\ \A u \in User : CallOK(u)
    BY ReplyFacts
  <1>0. m.user \in User
    BY DEF Proper, Chunk
  <1> PICK v \in User : v = m.user
    BY <1>0
  <1> DEFINE buffer == IF m.data = 0 THEN entry.data ELSE Append(entry.data, m.data)
  <1>2. /\ Collects(v) /\ (entry = None => entry' = entry /\ stage' = stage /\ out' = out)
        /\ entry # None => entry' = [entry EXCEPT !.data = buffer]
        /\ entry # None /\ m.last /\ stage[entry.user] = "waiting" =>
              /\ stage' = [stage EXCEPT ![entry.user] = "settled"]
              /\ out' = [out EXCEPT ![entry.user] = IF m.error THEN <<0>> ELSE buffer]
        /\ ~(entry # None /\ m.last /\ stage[entry.user] = "waiting") => stage' = stage /\ out' = out
    BY DEF ResultChunk
  <1>3. /\ Proper' = Proper /\ Thread' = Thread
        /\ \A u : Collects(u)' = Collects(u) /\ Length(u)' = Length(u) /\ Steps(u)' = Steps(u)
    BY KindStays
  <1>4. /\ 1 \in Said(v) /\ up[1] = m /\ Len(up') = Len(up) - 1 /\ Len(up) \in Nat /\ Len(up) > 0
        /\ up' \in Seq(Proper)
        /\ \A u : u # v => Same(u, 1)
        /\ \A u : \A i \in Said(u)' : i \in Nat /\ i + 1 \in Said(u) /\ up'[i] = up[i + 1]
    BY <1>1, UpShrinks
  <1>5. /\ m.data \in 0 .. Pieces /\ m.error \in BOOLEAN /\ m.last \in BOOLEAN /\ Pieces \in Nat
        /\ Steps(v) = Length(v) + 1 /\ Length(v) \in Nat
        /\ ~m.error => m.data <= Length(v) /\ (m.data = 0 => m.last) /\ (m.last <=> Num(m) = Steps(v))
    BY <1>1, <1>2, Sizes DEF Proper, Chunk, ReplyTypes
  <1>6. /\ stage \in [User -> {"idle", "waiting", "settled", "returned", "failed"}]
        /\ out \in [User -> Seq(0 .. Pieces)]
        /\ entry # None => /\ entry.user \in User /\ Collects(entry.user) /\ entry.data \in Seq(0 .. Pieces)
                           /\ entry = [user |-> entry.user, data |-> entry.data]
    BY <1>1 DEF ReplyTypes
  <1>7. entry # None => buffer \in Seq(0 .. Pieces)
    BY <1>5, <1>6, AppendProperties
  <1>8. entry # None => entry' = [user |-> entry.user, data |-> buffer]
    BY <1>2, <1>6
  <1> HIDE DEF buffer
  <1>9. /\ stage' \in [User -> {"idle", "waiting", "settled", "returned", "failed"}]
        /\ out' \in [User -> Seq(0 .. Pieces)]
        /\ \A u \in User : stage'[u] # stage[u] \/ out'[u] # out[u] =>
              /\ entry # None /\ entry.user = u /\ m.last /\ stage[u] = "waiting"
              /\ stage'[u] = "settled" /\ out'[u] = (IF m.error THEN <<0>> ELSE buffer)
    <2>1. CASE entry # None /\ m.last /\ stage[entry.user] = "waiting"
      <3>1. stage' = [stage EXCEPT ![entry.user] = "settled"] /\ entry.user \in User
        BY <1>2, <1>6, <2>1
      <3>2. out' = [out EXCEPT ![entry.user] = IF m.error THEN <<0>> ELSE buffer]
        BY <1>2, <2>1
      <3>3. (IF m.error THEN <<0>> ELSE buffer) \in Seq(0 .. Pieces)
        <4>1. <<0>> \in Seq(0 .. Pieces)
          BY <1>5
        <4> QED
          BY <1>7, <2>1, <4>1
      <3>4. /\ stage' \in [User -> {"idle", "waiting", "settled", "returned", "failed"}]
            /\ out' \in [User -> Seq(0 .. Pieces)]
        BY <1>6, <3>1, <3>2, <3>3
      <3>5. \A u \in User : u # entry.user => stage'[u] = stage[u] /\ out'[u] = out[u]
        BY <1>6, <3>1, <3>2
      <3>6. stage'[entry.user] = "settled" /\ out'[entry.user] = (IF m.error THEN <<0>> ELSE buffer)
        BY <1>6, <3>1, <3>2
      <3> QED
        BY <2>1, <3>4, <3>5, <3>6
    <2>2. CASE ~(entry # None /\ m.last /\ stage[entry.user] = "waiting")
      BY <1>2, <1>6, <2>2
    <2> QED
      BY <2>1, <2>2
  <1>10. ReplyTypes'
    <2>1. entry' = None \/ (entry' \in [user : User, data : Seq(0 .. Pieces)] /\ Collects(entry'.user))
      <3>1. CASE entry = None
        BY <1>2, <3>1
      <3>2. CASE entry # None
        BY <1>6, <1>7, <1>8, <3>2
      <3> QED
        BY <3>1, <3>2
    <2>2. entry' = None \/ (entry' \in [user : User, data : Seq(0 .. Pieces)] /\ Collects(entry.user)')
      BY <2>1 DEF Collects
    <2> QED
      BY <1>1, <1>3, <1>4, <1>9, <2>2 DEF ReplyTypes
  <1>11. \A u : Says(u)' = Says(u) /\ Asked(u)' = Asked(u)
    BY DEF Says, Asked
  <1>12. ASSUME NEW u \in User, ~Collects(u) PROVE CallOK(u)'
    <2>1. CallOK(u)
      BY <1>1
    <2>2. alone'[u] => alone[u] /\ online'
      BY <2>1 DEF CallOK, AloneOK
    <2>3. stage'[u] = stage[u] /\ out'[u] = out[u] /\ u # v
      BY <1>2, <1>6, <1>9, <1>12
    <2> QED
      BY <1>1, <1>4, <1>11, <1>12, <2>1, <2>2, <2>3, NothingHappens
  <1>13. ASSUME NEW u \in User, Collects(u) PROVE CallOK(u)'
    <2>1. CallOK(u)
      BY <1>1
    <2>2. /\ stage'[u] = "idle" => ~Asked(u)' /\ Untouched(u)' /\ out'[u] = <<>> /\ ~alone'[u]
          /\ Asked(u)' => Untouched(u)'
          /\ InTurn(u)'
      <3>1. stage'[u] = "idle" => stage[u] = "idle" /\ out'[u] = out[u]
        BY <1>9
      <3> QED
        BY <1>1, <1>4, <1>11, <2>1, <3>1, BaseStays
    <2>3. ASSUME alone'[u] PROVE AloneOK(u)'
      <3>1. AloneOK(u)
        BY <2>1, <2>3 DEF CallOK
      <3>2. ASSUME stage[u] = "waiting" PROVE entry # None /\ entry.user = u /\ u = v /\ Lonely(u)
        <4>1. Lonely(u)
          BY <1>13, <3>1, <3>2 DEF AloneOK
        <4>2. u = v
          BY <1>2, <1>4, <4>1 DEF Lonely, Untouched
        <4> QED
          BY <4>1, <4>2 DEF Lonely
      <3>3. ASSUME stage[u] = "waiting" PROVE \E k \in 0 .. Length(u) : NoGap(u, k)
        BY <3>1, <3>3 DEF AloneOK
      <3>4. ASSUME stage'[u] = "waiting"
            PROVE  (\E k \in 0 .. Length(u) : NoGap(u, k)') /\ Lonely(u)'
        <4>1. stage[u] = "waiting" /\ entry # None /\ entry.user = u /\ u = v /\ Lonely(u)
          BY <1>9, <3>2, <3>4
        <4>2. ~m.last
          BY <1>2, <1>6, <3>4, <4>1
        <4>3. ~m.error
          BY <4>2 DEF Proper, Chunk
        <4>4. PICK k \in 0 .. Length(u) : NoGap(u, k)
          BY <3>3, <4>1
        <4>5. k \in Nat /\ ~Asked(u) /\ InTurn(u)
          BY <1>4, <1>5, <2>1, <4>1, <4>4 DEF CallOK, Untouched
        <4>6. Num(m) = k + 1
          BY <1>1, <4>1, <4>3, <4>4, <4>5, HeadIs
        <4>7. m.data = k + 1 /\ k + 1 <= Length(u)
          BY <1>5, <4>1, <4>2, <4>3, <4>6 DEF Num
        <4>8. Given(u)' = First(k + 1)
          <5>1. entry.data = First(k)
            BY <1>13, <4>4 DEF NoGap, Given
          <5>2. entry'.data = Append(entry.data, m.data)
            BY <1>8, <4>1, <4>5, <4>7 DEF buffer
          <5> QED
            BY <1>3, <1>13, <4>5, <4>7, <5>1, <5>2, FirstGrows DEF Given
        <4>9. NoGap(u, k + 1)'
          BY <1>1, <1>11, <4>1, <4>2, <4>3, <4>4, <4>5, <4>8, GapMoves
        <4>10. Lonely(u)'
          <5>1. ASSUME NEW w \in User \ {u}, Collects(w)' PROVE ~Active(w)' /\ ~Asked(w)' /\ Untouched(w)'
            <6>1. ~Active(w) /\ ~Asked(w) /\ Untouched(w)
              BY <1>3, <4>1, <5>1 DEF Lonely
            <6>2. stage'[w] = stage[w]
              BY <1>9, <4>1
            <6> QED
              BY <1>4, <1>11, <4>1, <6>1, <6>2, UntouchedStays DEF Active
          <5>2. entry'.user = u /\ entry' # None
            <6>1. entry'.user = u
              BY <1>8, <4>1
            <6>2. None.user = "none" /\ u # "none"
              BY Sizes DEF None
            <6> QED
              BY <6>1, <6>2
          <5> QED
            BY <5>1, <5>2 DEF Lonely, None
        <4> QED
          BY <1>5, <4>1, <4>5, <4>7, <4>9, <4>10
      <3>5. ASSUME stage'[u] = "settled" PROVE out'[u] = <<0>> \/ out'[u] = First(Length(u))
        <4>1. CASE stage[u] = "settled"
          BY <1>9, <3>1, <3>5, <4>1 DEF AloneOK
        <4>2. CASE stage[u] # "settled"
          <5>1. stage[u] = "waiting" /\ m.last /\ out'[u] = (IF m.error THEN <<0>> ELSE buffer)
            BY <1>9, <3>5, <4>2
          <5>2. CASE ~m.error
            <6>1. PICK k \in 0 .. Length(u) : NoGap(u, k)
              BY <3>3, <5>1
            <6>2. u = v /\ k \in Nat
              BY <1>5, <3>2, <5>1, <6>1
            <6>3. Num(m) = k + 1
              BY <1>1, <5>2, <6>1, <6>2, HeadIs
            <6>4. m.data = 0 /\ k = Length(u)
              BY <1>5, <5>1, <5>2, <6>2, <6>3 DEF Num
            <6> QED
              BY <1>13, <5>1, <5>2, <6>1, <6>4 DEF NoGap, Given, buffer
          <5> QED
            BY <5>1, <5>2
        <4> QED
          BY <4>1, <4>2
      <3>6. stage'[u] = "returned" => out'[u] = First(Length(u))
        BY <1>9, <3>1 DEF AloneOK
      <3> QED
        BY <1>3, <3>1, <3>4, <3>5, <3>6 DEF AloneOK, First
    <2> QED
      BY <1>3, <1>13, <2>2, <2>3 DEF CallOK
  <1> QED
    BY <1>10, <1>12, <1>13 DEF ReplyInv

LEMMA ReplyStart == ReplyInit => ReplyInv
  <1> SUFFICES ASSUME ReplyInit PROVE ReplyInv
    OBVIOUS
  <1>1. /\ kind \in [User -> Kinds] /\ stage = [u \in User |-> "idle"] /\ out = [u \in User |-> <<>>]
        /\ entry = None /\ online = TRUE /\ down = <<>> /\ up = <<>> /\ sender = {}
        /\ alone = [u \in User |-> FALSE]
    BY DEF ReplyInit
  <1>2. ReplyTypes
    <2>1. <<>> \in Seq(0 .. Pieces) /\ down \in Seq(User) /\ up \in Seq(Proper) /\ Len(down) = 0
      BY <1>1
    <2>2. \A i, j \in 1 .. Len(down) : down[i] = down[j] => i = j
      BY <2>1
    <2> QED
      BY <1>1, <2>1, <2>2 DEF ReplyTypes
  <1>3. ASSUME NEW u \in User PROVE CallOK(u)
    <2>1. Said(u) = {} /\ Says(u) = {} /\ ~Asked(u)
      BY <1>1 DEF Said, Says, Asked
    <2>2. out[u] = <<>> /\ stage[u] = "idle" /\ ~alone[u]
      BY <1>1
    <2> QED
      BY <2>1, <2>2 DEF CallOK, Untouched, InTurn, Answered, Rising
  <1> QED
    BY <1>2, <1>3 DEF ReplyInv

LEMMA RepliesStep == ReplyInv /\ [ReplyNext]_replyVars => ReplyInv'
  <1> SUFFICES ASSUME ReplyInv, [ReplyNext]_replyVars PROVE ReplyInv'
    OBVIOUS
  <1>1. ASSUME NEW u \in User, Call(u) PROVE ReplyInv'
    BY <1>1, CallKeeps
  <1>2. ASSUME NEW u \in User, Resume(u) PROVE ReplyInv'
    <2> DEFINE x == IF out[u] # <<>> /\ Last(out[u]) = 0 THEN "failed" ELSE "returned"
    <2>1. /\ stage[u] = "settled" /\ PopEntry(u) /\ stage' = [stage EXCEPT ![u] = x]
          /\ UNCHANGED <<kind, out, online, down, up, sender, alone>>
      BY <1>2 DEF Resume
    <2>2. x \in {"failed", "returned"} /\ (x = "returned" => ~(out[u] # <<>> /\ Last(out[u]) = 0))
      OBVIOUS
    <2> HIDE DEF x
    <2> QED
      BY <2>1, <2>2, EndsKeeps
  <1>3. ASSUME NEW u \in User, TimeOut(u) PROVE ReplyInv'
    <2>1. /\ stage[u] = "waiting" /\ PopEntry(u) /\ stage' = [stage EXCEPT ![u] = "failed"]
          /\ UNCHANGED <<kind, out, online, down, up, sender, alone>>
      BY <1>3 DEF TimeOut
    <2> QED
      BY <2>1, EndsKeeps
  <1>4. ASSUME HubReceive PROVE ReplyInv'
    <2>1. /\ up # <<>> /\ up' = Tail(up) /\ (ResultChunk(Head(up)) \/ Answer(Head(up)))
          /\ UNCHANGED <<kind, online, down, sender, alone>>
      BY <1>4 DEF HubReceive
    <2>2. Head(up) \in Proper
      BY <2>1, ReplyFacts, UpShrinks
    <2>3. PICK m \in Proper : m = Head(up)
      BY <2>2
    <2> QED
      BY <2>1, <2>3, AnswerKeeps, ChunkKeeps
  <1>5. CASE UNCHANGED replyVars
    <2>1. /\ UNCHANGED <<kind, stage, out, entry, online, down, up, sender, alone>>
      BY <1>5 DEF replyVars
    <2>2. ReplyTypes /\ \A u \in User : CallOK(u)
      BY ReplyFacts
    <2>3. Proper' = Proper /\ Thread' = Thread /\ \A u : Collects(u)' = Collects(u)
      BY <2>1, KindStays
    <2>4. ReplyTypes'
      BY <2>1, <2>2, <2>3 DEF ReplyTypes
    <2>5. \A u : Same(u, 0) /\ Asked(u)' = Asked(u) /\ Says(u)' = Says(u)
      BY <2>1, <2>2, UpStays DEF Asked, Says
    <2>6. ASSUME NEW u \in User PROVE CallOK(u)'
      <3>1. CallOK(u)
        BY <2>2
      <3>2. alone'[u] => alone[u] /\ online'
        BY <2>1, <3>1 DEF CallOK, AloneOK
      <3>3. ASSUME alone'[u], stage[u] = "waiting", Collects(u) PROVE entry' = entry /\ Lonely(u)'
        <4>1. Lonely(u)
          BY <2>1, <3>1, <3>3 DEF CallOK, AloneOK
        <4>2. \A w \in User : w # u =>
                 /\ Active(w)' => Active(w)
                 /\ ~Asked(w) /\ Untouched(w) => ~Asked(w)' /\ Untouched(w)'
          BY <2>1, <2>5, UntouchedStays DEF Active
        <4> QED
          BY <2>1, <4>1, <4>2, LonelyStays
      <3> QED
        BY <2>1, <2>2, <2>5, <3>1, <3>2, <3>3, NothingHappens
    <2> QED
      BY <2>4, <2>6 DEF ReplyInv
  <1> QED
    BY <1>1, <1>2, <1>3, <1>4, <1>5, ReceiveKeeps, BreakKeeps, ReattachKeeps, SendKeeps DEF ReplyNext

(* Whatever the calls ask for, however many there are and of however many     *)
(* pieces, and wherever the stream breaks: a collection nothing overlaps gives *)
(* the whole file once and in order, and no other call is given a piece out of *)
(* order, twice or of another call, nor, while the stream holds, too few.      *)
THEOREM AnswersDoNotCrossHolds == ReplySpec => []AnswersDoNotCross
  <1>1. ReplyInv => AnswersDoNotCross
    <2> SUFFICES ASSUME ReplyInv, NEW u \in User
                 PROVE  IF Collects(u) THEN stage[u] = "returned" /\ alone[u] => out[u] = All
                        ELSE stage[u] # "failed" =>
                             /\ \A i, j \in 1 .. Len(out[u]) : i < j => (out[u][i] < out[u][j] \/ out[u][j] = 0)
                             /\ stage[u] = "returned" /\ alone[u] => Len(out[u]) = Length(u)
      BY DEF AnswersDoNotCross
    <2>1. CallOK(u) /\ Length(u) \in Nat /\ (Collects(u) => Length(u) = Pieces)
      BY ReplyFacts, Sizes DEF ReplyTypes
    <2>2. stage[u] = "returned" /\ alone[u] => out[u] = First(Length(u))
      BY <2>1 DEF CallOK, AloneOK
    <2>3. First(Pieces) = All
      BY DEF First, All, Data
    <2>4. ~Collects(u) /\ stage[u] # "failed" => Rising(out[u])
      BY <2>1 DEF CallOK, Answered
    <2>5. Len(First(Length(u))) = Length(u)
      BY <2>1, FirstGrows
    <2> QED
      BY <2>1, <2>2, <2>3, <2>4, <2>5 DEF Rising
  <1>2. ReplySpec => []ReplyInv
    BY ReplyStart, RepliesStep, PTL DEF ReplySpec
  <1> QED
    BY <1>1, <1>2, PTL
=============================================================================
