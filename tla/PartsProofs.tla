----------------------------- MODULE PartsProofs -----------------------------
(* Proofs about parts that stand alone, each for any values of its constants: *)
(* the ports of a group, a task's inputs, tickets that wait for nodes, how a  *)
(* node changes its version and how it enters the swarm; and a training, for  *)
(* any number of stages, steps and microbatches and any losses: its stages    *)
(* step together, and what is kept of it is true, for any number of viewers.  *)
EXTENDS Inputs, Update, Swarm, WaitingRoom, Ports, Training, Jobs, CountingProofs

(* ------------------------------------------------------- counting slots --- *)
(* Among finitely many slots there is one for every count below theirs.       *)
LEMMA NthIsOne ==
    ASSUME NEW top \in Nat, NEW S \in SUBSET (0 .. top), NEW i \in Nat, i < Cardinality(S)
    PROVE  Nth(S, i) \in S
  <1> DEFINE Below(n) == Cardinality({k \in S : k < n})
             Past == {n \in Nat : i < Below(n)}
  <1>1. \A k \in S : k \in Nat /\ k <= top
    OBVIOUS
  <1>2. IsFiniteSet(S) /\ \A n : IsFiniteSet({k \in S : k < n})
    <2>1. IsFiniteSet(0 .. top)
      BY FS_Interval
    <2>2. IsFiniteSet(S)
      BY <2>1, FS_Subset
    <2>3. ASSUME NEW n PROVE IsFiniteSet({k \in S : k < n})
      <3>1. {k \in S : k < n} \subseteq S
        OBVIOUS
      <3> QED
        BY <2>2, <3>1, FS_Subset
    <2> QED
      BY <2>2, <2>3
  <1>3. \A n \in Nat : Below(n) \in Nat
    BY <1>2, FS_CardinalityType
  <1>4. {k \in S : k < top + 1} = S /\ {k \in S : k < 0} = {}
    <2>1. \A k \in S : k < top + 1 /\ ~(k < 0)
      BY <1>1
    <2> QED
      BY <2>1
  <1>5. top + 1 \in Past /\ 0 \notin Past
    BY <1>4, FS_EmptySet
  <1>6. PICK n \in Past : \A m \in Past : n <= m
    <2>1. Past \in SUBSET Nat /\ Past # {}
      BY <1>5
    <2> HIDE DEF Past
    <2> QED
      BY <2>1, LeastOf
  <1>7. n - 1 \in Nat /\ ~(i < Below(n - 1)) /\ i < Below(n) /\ n \in Nat
    BY <1>5, <1>6
  <1>8. {k \in S : k < n} = {k \in S : k < n - 1} \union (S \intersect {n - 1})
    <2>1. \A k \in S : k < n <=> k < n - 1 \/ k = n - 1
      BY <1>1, <1>7
    <2> QED
      BY <2>1
  <1>9. CASE n - 1 \in S
    <2>1. {k \in S : k < n} = {k \in S : k < n - 1} \union {n - 1}
      BY <1>8, <1>9
    <2>2. n - 1 \notin {k \in S : k < n - 1}
      BY <1>7
    <2>3. Below(n) = Below(n - 1) + 1
      BY <1>2, <2>1, <2>2, FS_AddElement
    <2>4. Below(n - 1) = i
      BY <1>3, <1>7, <2>3
    <2> QED
      BY <1>9, <2>4 DEF Nth
  <1>10. CASE n - 1 \notin S
    <2>1. {k \in S : k < n} = {k \in S : k < n - 1}
      BY <1>8, <1>10
    <2> QED
      BY <1>7, <2>1
  <1> QED
    BY <1>9, <1>10

(* ---------------------------------------------------------------- ports --- *)
LEMMA Times ==
    ASSUME NEW a \in Nat, NEW b \in Nat, NEW w \in Nat, a < b
    PROVE  a * w \in Nat /\ b * w \in Nat /\ a * w + w <= b * w
  <1>1. PICK d \in Nat : b = a + 1 + d
    <2>1. b - a - 1 \in Nat /\ b = a + 1 + (b - a - 1)
      OBVIOUS
    <2> QED
      BY <2>1
  <1>2. b * w = a * w + w + d * w /\ a * w \in Nat /\ d * w \in Nat
    BY <1>1
  <1> QED
    BY <1>2

LEMMA StrideHolds ==
    ASSUME NEW base \in Nat, NEW r \in Nat
    PROVE  OwnPorts(base, r) \subseteq base + r * Stride .. base + r * Stride + Stride - 1
  <1>1. base + r * Stride \in Nat
    BY PortsAssumption
  <1> QED
    BY <1>1, PortsAssumption DEF OwnPorts, Service, Workers, Client, Begins

(* A good slot is in the window, and away from Ray's range.                   *)
LEMMA GroupBaseHolds ==
    ASSUME NEW s \in Nat \ {0}, NEW h \in Nat
    PROVE  /\ GroupBase(s, h) \in Nat
           /\ Slots(s) > 1 /\ Good(s) # {} =>
                 /\ Base <= GroupBase(s, h) /\ GroupBase(s, h) + s * Stride <= WindowEnd
                 /\ GroupBase(s, h) >= RayLast \/ GroupBase(s, h) + s * Stride <= RayFirst
  <1> DEFINE W == s * Stride
  <1>1. W \in Nat \ {0} /\ Width(s) = W
    BY PortsAssumption DEF Width, Larger
  <1>2. Slots(s) \in Nat \ {0}
    BY <1>1, PortsAssumption DEF Slots, Larger
  <1>3. CASE Slots(s) <= 1 \/ Good(s) = {}
    BY <1>2, <1>3, PortsAssumption DEF GroupBase
  <1>4. CASE Slots(s) > 1 /\ Good(s) # {}
    <2> DEFINE G == Good(s)
               i == h % Cardinality(G)
               n == Nth(G, i)
    <2>1. G \in SUBSET (0 .. Slots(s) - 1) /\ Slots(s) - 1 \in Nat
      BY <1>2 DEF Good
    <2>2. IsFiniteSet(G) /\ Cardinality(G) \in Nat \ {0}
      <3>1. IsFiniteSet(0 .. Slots(s) - 1)
        BY <2>1, FS_Interval
      <3>2. G # {}
        BY <1>4
      <3> HIDE DEF G
      <3>3. IsFiniteSet(G)
        BY <2>1, <3>1, FS_Subset
      <3> QED
        BY <3>2, <3>3, FS_CardinalityType, FS_EmptySet
    <2>3. i \in Nat /\ i < Cardinality(G)
      <3> HIDE DEF G
      <3> QED
        BY <2>2
    <2>4. n \in G
      <3> HIDE DEF G, i
      <3> QED
        BY <2>1, <2>3, NthIsOne
    <2>5. GroupBase(s, h) = Base + n * W
      BY <1>1, <1>2, <1>4 DEF GroupBase
    <2>6. n \in Nat /\ n < Slots(s) /\ ~TouchesRay(Base + n * W, W)
      BY <1>1, <1>2, <2>4 DEF Good
    <2> HIDE DEF n, W
    <2>7. n * W \in Nat /\ n * W + W <= Slots(s) * W
      BY <1>1, <1>2, <2>6, Times
    <2>8. Slots(s) * W <= WindowEnd - Base
      <3>1. WindowEnd > Base /\ Slots(s) = (WindowEnd - Base) \div W
        BY <1>1, <1>4, PortsAssumption DEF Slots, Larger
      <3>2. WindowEnd - Base \in Nat
        BY <3>1, PortsAssumption
      <3>3. ((WindowEnd - Base) \div W) * W <= WindowEnd - Base
        BY <1>1, <3>2
      <3> QED
        BY <3>1, <3>3
    <2>9. Base \in Nat /\ WindowEnd \in Nat /\ RayFirst \in Nat /\ RayLast \in Nat
      BY PortsAssumption
    <2>10. Base + n * W >= RayLast \/ Base + n * W + W <= RayFirst
      BY <1>1, <2>6, <2>7, <2>9 DEF TouchesRay
    <2>11. Base + n * W + W <= WindowEnd
      <3>1. Slots(s) * W \in Nat
        BY <1>1, <1>2
      <3> QED
        BY <1>1, <2>7, <2>8, <2>9, <3>1
    <2> QED
      BY <1>1, <2>5, <2>7, <2>9, <2>10, <2>11 DEF W
  <1> QED
    BY <1>2, <1>3, <1>4

(* Ports nobody asks for collide with nobody (looma_ray/ports.py): for groups *)
(* of any size, any hash of their names, any window and any range of Ray's.   *)
THEOREM NobodyCollidesHolds == PortsSpec => []NobodyCollides
  <1> DEFINE InRange == size \in Nat \ {0} /\ hash \in Nat
  <1>1. PortsInit => InRange
    BY PortsAssumption DEF PortsInit
  <1>2. InRange /\ [PortsNext]_portVars => InRange'
    BY PortsAssumption DEF PortsNext, portVars
  <1>3. InRange => NobodyCollides
    <2> SUFFICES ASSUME InRange PROVE NobodyCollides
      OBVIOUS
    <2> DEFINE base == GroupBase(size, hash)
    <2>1. /\ base \in Nat
          /\ Slots(size) > 1 /\ Good(size) # {} =>
                /\ Base <= base /\ base + size * Stride <= WindowEnd
                /\ base >= RayLast \/ base + size * Stride <= RayFirst
      BY GroupBaseHolds
    <2> HIDE DEF base
    <2>2. \A r \in 0 .. size - 1 :
             /\ r \in Nat /\ r * Stride \in Nat /\ r * Stride + Stride <= size * Stride
             /\ OwnPorts(base, r) \subseteq base + r * Stride .. base + r * Stride + Stride - 1
      BY <2>1, Times, StrideHolds, PortsAssumption
    <2>3. RanksApart(base)
      <3>1. ASSUME NEW r \in Nat, NEW k \in Nat, r < k
            PROVE  OwnPorts(base, r) \intersect OwnPorts(base, k) = {}
        <4>1. r * Stride \in Nat /\ k * Stride \in Nat /\ r * Stride + Stride <= k * Stride
          BY <3>1, Times, PortsAssumption
        <4>2. /\ OwnPorts(base, r) \subseteq base + r * Stride .. base + r * Stride + Stride - 1
              /\ OwnPorts(base, k) \subseteq base + k * Stride .. base + k * Stride + Stride - 1
          BY <2>1, StrideHolds
        <4> QED
          BY <2>1, <4>1, <4>2, PortsAssumption
      <3>2. \A r, k \in 0 .. size - 1 : r \in Nat /\ k \in Nat /\ (r # k => r < k \/ k < r)
        OBVIOUS
      <3> QED
        BY <3>1, <3>2 DEF RanksApart
    <2>4. PartsApart(base)
      <3> SUFFICES ASSUME NEW r \in 0 .. size - 1
                   PROVE  /\ Workers(base, r) \intersect Client(base, r) = {}
                          /\ Service(base, r) \intersect Crossing(base, r) = Essential(base, r)
        BY DEF PartsApart
      <3>1. base + r * Stride \in Nat
        BY <2>1, <2>2
      <3> QED
        BY <3>1, PortsAssumption DEF Workers, Client, Service, Crossing, Essential, Begins
    <2>5. OutOfRay(base)
      <3> SUFFICES ASSUME Slots(size) > 1, Good(size) # {}, NEW r \in 0 .. size - 1
                   PROVE  /\ OwnPorts(base, r) \intersect (RayFirst .. RayLast - 1) = {}
                          /\ OwnPorts(base, r) \subseteq Base .. WindowEnd - 1
        BY DEF OutOfRay
      <3>1. /\ base + r * Stride >= base
            /\ base + r * Stride + Stride - 1 <= base + size * Stride - 1
            /\ size * Stride \in Nat
        BY <2>1, <2>2, PortsAssumption
      <3>2. \A p \in OwnPorts(base, r) : p \in Int /\ base <= p /\ p < base + size * Stride
        BY <2>1, <2>2, <3>1, PortsAssumption
      <3> QED
        BY <2>1, <3>1, <3>2, PortsAssumption
    <2> QED
      BY <2>3, <2>4, <2>5 DEF NobodyCollides, base
  <1> QED
    BY <1>1, <1>2, <1>3, PTL DEF PortsSpec

(* ------------------------------------------------------ a task's inputs --- *)
FolderOK == /\ folder \in [Files -> {"absent", "partial", "whole"}]
            /\ got \in [Files -> Nat]

(* A file becomes whole only in Finish, which counts its pieces; the pieces   *)
(* that are behind in another queue, or lost with the stream, do not matter.  *)
LEMMA InputStep ==
    ASSUME FolderOK, InputIsWhole, [InputNext]_inputVars
    PROVE  (FolderOK /\ InputIsWhole)'
  <1> USE DEF FolderOK, InputIsWhole
  <1>1. CASE Run \/ InputChunk \/ ReleaseTask \/ StreamBreaks
    BY <1>1 DEF Run, InputChunk, ReleaseTask, StreamBreaks
  <1>2. CASE Deliver
    BY <1>2 DEF Deliver
  <1>3. CASE EnvironmentFails \/ FinishFails \/ Interrupted \/ IdleTimeout
    BY <1>3 DEF EnvironmentFails, FinishFails, Interrupted, IdleTimeout, Refuse, Abort
  <1>4. CASE Write
    BY <1>4, InputsAssumption DEF Write, Take, Done, Wrote
  <1>5. CASE Finish
    BY <1>5 DEF Finish, Take, Complete
  <1>6. CASE StartTask
    BY <1>6 DEF StartTask, Done
  <1>7. CASE UNCHANGED inputVars
    BY <1>7 DEF inputVars
  <1> QED
    BY <1>1, <1>2, <1>3, <1>4, <1>5, <1>6, <1>7 DEF InputNext, Preparing

(* No task sees half a file (files.py, InputDelivery): whatever is released,  *)
(* broken off, refused or timed out meanwhile, for any files and pieces.      *)
THEOREM InputIsWholeHolds == InputSpec => []InputIsWhole
  <1>1. InputInit => FolderOK /\ InputIsWhole
    BY InputsAssumption DEF InputInit, FolderOK, InputIsWhole
  <1>2. FolderOK /\ InputIsWhole /\ [InputNext]_inputVars => (FolderOK /\ InputIsWhole)'
    BY InputStep
  <1> QED
    BY <1>1, <1>2, PTL DEF InputSpec

(* ------------------------------------------------- the version of a node --- *)
VersionsOK == /\ current \in Nat /\ previous \in Nat /\ run \in Nat
              /\ offered \in Nat /\ fetching \in Nat
              /\ incoming \in [version : Nat, worth : {"none", "intact", "corrupt", "unreadable"}]
AgentRuns == agent # "none" => phase = "running"
LinkIsRun == IF phase \in {"switching", "switched"} THEN run > current ELSE run = current
FailingUnproven == phase = "failing" => run \notin healthy
UpdateInv == VersionsOK /\ AgentRuns /\ LinkIsRun /\ FailingUnproven

OnlyBackByRollback == current' < current => phase = "failing" /\ current \notin healthy

(* Orchestrator and agent: neither touches a link, and what registers runs.   *)
LEMMA OfferStep ==
    ASSUME UpdateInv,
           \/ \E v \in NewVersion : Publish(v)
           \/ SetWave \/ Withdraw \/ Register \/ Fetched \/ FetchFails \/ StepAside
           \/ Pause \/ Unpause
    PROVE  UpdateInv' /\ OnlyBackByRollback
  <1> USE DEF UpdateInv, VersionsOK, AgentRuns, LinkIsRun, FailingUnproven, OnlyBackByRollback,
              central, disk
  <1>1. CASE \E v \in NewVersion : Publish(v)
    BY <1>1, UpdateAssumption DEF Publish, NewVersion
  <1>2. CASE SetWave
    BY <1>2 DEF SetWave, OnRelease
  <1>3. CASE Withdraw \/ FetchFails \/ StepAside \/ Pause \/ Unpause
    BY <1>3 DEF Withdraw, FetchFails, StepAside, Pause, Unpause
  <1>4. CASE Register
    BY <1>4 DEF Register, OnRelease
  <1>5. CASE Fetched
    BY <1>5 DEF Fetched
  <1> QED
    BY <1>1, <1>2, <1>3, <1>4, <1>5

(* The end of the agent: a version is given up only if it never registered.   *)
LEMMA ExitStep ==
    ASSUME UpdateInv, ExitPlanned \/ Crashes \/ Terminated \/ Dies \/ PowerFailure
    PROVE  UpdateInv' /\ OnlyBackByRollback
  <1> USE DEF UpdateInv, VersionsOK, AgentRuns, LinkIsRun, FailingUnproven, OnlyBackByRollback,
              central, disk, Gone
  <1>1. ASSUME agent # "none", ExitSoon PROVE UpdateInv' /\ OnlyBackByRollback
    BY <1>1 DEF ExitSoon, ConsiderRollback, CrashedOften
  <1>2. CASE ExitPlanned
    BY <1>2 DEF ExitPlanned
  <1>3. CASE Crashes
    BY <1>1, <1>3 DEF Crashes
  <1>4. CASE Terminated
    <2>1. agent # "none" /\ (ExitSoon \/ ExitLate)
      BY <1>4 DEF Terminated
    <2>2. CASE ExitSoon
      BY <1>1, <2>1, <2>2
    <2>3. CASE ExitLate
      BY <2>1, <2>3 DEF ExitLate
    <2> QED
      BY <2>1, <2>2, <2>3
  <1>5. CASE Dies
    BY <1>1, <1>5 DEF Dies
  <1>6. CASE PowerFailure
    BY <1>6 DEF PowerFailure
  <1> QED
    BY <1>2, <1>3, <1>4, <1>5, <1>6

(* The launcher between two runs.                                             *)
LEMMA LaunchStep ==
    ASSUME UpdateInv,
           \/ RollBack \/ PassGate \/ InstallRefuses \/ Install
           \/ SwitchPrevious \/ SwitchCurrent \/ RunOnce
    PROVE  UpdateInv' /\ OnlyBackByRollback
  <1> USE DEF UpdateInv, VersionsOK, AgentRuns, LinkIsRun, FailingUnproven, OnlyBackByRollback,
              central, disk
  <1>1. CASE RollBack
    BY <1>1 DEF RollBack
  <1>2. CASE PassGate \/ RunOnce
    BY <1>2 DEF PassGate, RunOnce
  <1>3. CASE InstallRefuses
    BY <1>3 DEF InstallRefuses, Nothing
  <1>4. CASE Install
    BY <1>4 DEF Install, Trusted, Nothing
  <1>5. CASE SwitchPrevious
    BY <1>5 DEF SwitchPrevious
  <1>6. CASE SwitchCurrent
    BY <1>6 DEF SwitchCurrent
  <1> QED
    BY <1>1, <1>2, <1>3, <1>4, <1>5, <1>6

(* A node's links go back only in roll_back, and only from a version without  *)
(* a health marker (supervise.py, payload.py): install turns away what is not *)
(* newer, however late it is published and wherever the power fails.          *)
THEOREM BackwardsOnlyByRollbackHolds == UpdateSpec => BackwardsOnlyByRollback
  <1>1. UpdateInit => UpdateInv
    BY DEF UpdateInit, UpdateInv, VersionsOK, AgentRuns, LinkIsRun, FailingUnproven, Nothing
  <1>2. UpdateInv /\ [UpdateNext]_updateVars => UpdateInv' /\ [OnlyBackByRollback]_updateVars
    <2>1. UpdateInv /\ UNCHANGED updateVars => UpdateInv'
      BY DEF UpdateInv, VersionsOK, AgentRuns, LinkIsRun, FailingUnproven, updateVars
    <2> QED
      BY <2>1, OfferStep, ExitStep, LaunchStep DEF UpdateNext, Launcher
  <1> QED
    BY <1>1, <1>2, PTL DEF UpdateSpec, BackwardsOnlyByRollback, OnlyBackByRollback

(* ---------------------------------------------------- entering the swarm --- *)
PeersOK == peer \in [Peer -> {"off", "joining", "up"}]

(* PeerLayer.on_rendezvous builds a node once: no registration, fall of the   *)
(* rendezvous, sample or other agent's death takes a working node away.       *)
THEOREM WorkingNodeSurvivesHolds == SwarmSpec => WorkingNodeSurvives
  <1> DEFINE Survives == \A a \in Peer : peer[a] = "up" => peer'[a] = "up" \/ restarts' = restarts + 1
  <1>1. SwarmInit => PeersOK
    BY DEF SwarmInit, PeersOK, All
  <1>2. PeersOK /\ [SwarmNext]_swarmVars => PeersOK' /\ [Survives]_swarmVars
    <2> SUFFICES ASSUME PeersOK, [SwarmNext]_swarmVars PROVE PeersOK' /\ [Survives]_swarmVars
      OBVIOUS
    <2> USE DEF PeersOK, outside
    <2>1. ASSUME NEW a \in Peer, Registered(a) PROVE PeersOK' /\ Survives
      BY <2>1 DEF Registered, BringUp
    <2>2. ASSUME NEW a \in Peer, AwaitJoin(a) \/ Join(a) \/ Peek(a) \/ Sample(a) \/ Work(a)
          PROVE  PeersOK' /\ Survives
      BY <2>2 DEF AwaitJoin, Join, Peek, Sample, Work
    <2>3. ASSUME NEW a \in Peer, Close(a) \/ Killed(a) PROVE PeersOK' /\ Survives
      BY <2>3 DEF Close, Killed, GoDown
    <2>4. CASE MeetingFalls \/ MeetingRises \/ \E p \in 0 .. Attempts - 1 : SystemFrees(p)
      BY <2>4 DEF MeetingFalls, MeetingRises, SystemFrees
    <2>5. CASE UNCHANGED swarmVars
      BY <2>5 DEF swarmVars
    <2> QED
      BY <2>1, <2>2, <2>3, <2>4, <2>5 DEF SwarmNext
  <1> QED
    BY <1>1, <1>2, PTL DEF SwarmSpec, WorkingNodeSurvives

(* ------------------------------------------------- tickets that wait ------ *)
TicketState == {"none", "waiting", "started", "failed", "expired", "cancelled", "direct", "forgotten"}
TicketsOK == /\ ticket \in [Ticket -> TicketState]
             /\ line \in Seq(Ticket) /\ usher \in SUBSET Ticket
             /\ starts \in [Ticket -> Nat]
Unserved == {"none", "waiting", "failed", "expired", "cancelled"}

(* Whoever the sweep opens a lease for was waiting when the sweep chose it,   *)
(* and can meanwhile only have been closed or forgotten; of all others, a     *)
(* ticket that is not served yet, or was written off, has had no start.       *)
UsherWaited == \A t \in usher : ticket[t] \in {"waiting", "expired", "cancelled", "forgotten"}
NoStartUnserved == \A t \in Ticket \ usher : ticket[t] \in Unserved => starts[t] = 0
OneStart == \A t \in Ticket : starts[t] <= 1
WaitInv == TicketsOK /\ UsherWaited /\ NoStartUnserved /\ OneStart

LEMMA OneMore ==
    ASSUME TicketsOK, NEW t \in Ticket, Start(t)
    PROVE  starts' \in [Ticket -> Nat] /\ \A u \in Ticket : starts'[u] = IF u = t THEN starts[u] + 1 ELSE starts[u]
  BY DEF Start, TicketsOK, TicketState

LEMMA RentStep ==
    ASSUME WaitInv, NEW t \in Ticket, Rent(t)
    PROVE  WaitInv'
  <1> USE DEF WaitInv, TicketsOK, UsherWaited, NoStartUnserved, OneStart, TicketState, Unserved
  <1>1. t \notin usher /\ starts[t] = 0 /\ UNCHANGED usher
    BY DEF Rent
  <1>2. CASE ticket' = [ticket EXCEPT ![t] = "direct"] /\ Start(t) /\ UNCHANGED line
    <2>1. /\ starts' \in [Ticket -> Nat]
          /\ \A u \in Ticket : starts'[u] = IF u = t THEN starts[u] + 1 ELSE starts[u]
      BY <1>2, OneMore
    <2>2. /\ ticket' \in [Ticket -> TicketState]
          /\ \A u \in Ticket : ticket'[u] = IF u = t THEN "direct" ELSE ticket[u]
      BY <1>2
    <2> QED
      <3>1. TicketsOK'
        BY <1>1, <1>2, <2>1, <2>2
      <3>2. UsherWaited'
        BY <1>1, <2>2
      <3>3. NoStartUnserved'
        BY <1>1, <2>1, <2>2
      <3>4. OneStart'
        <4> SUFFICES ASSUME NEW u \in Ticket PROVE starts'[u] <= 1
          OBVIOUS
        <4>1. starts[u] \in Nat /\ starts[u] <= 1
          OBVIOUS
        <4>2. CASE u = t
          BY <1>1, <2>1, <4>2
        <4>3. CASE u # t
          BY <2>1, <4>1, <4>3
        <4> QED
          BY <4>2, <4>3
      <3> QED
        BY <3>1, <3>2, <3>3, <3>4
  <1>3. CASE /\ ticket' = [ticket EXCEPT ![t] = "waiting"] /\ line' = Append(line, t)
             /\ UNCHANGED <<held, starts>>
    BY <1>1, <1>3
  <1> QED
    BY <1>2, <1>3 DEF Rent

(* The positions of what the sweep looks at are of tickets that wait.         *)
LEMMA SweepStep ==
    ASSUME WaitInv, Sweep
    PROVE  WaitInv'
  <1> DEFINE tk == Expired(ticket)
             fit == {i \in Due(tk) : EnoughFree(line[i])}
             good == {i \in fit : line[i] \notin Spoilt}
             failed == {line[i] : i \in {i \in fit \ good : \A j \in good : i < j}}
  <1>1. /\ \A t \in Ticket : tk[t] = ticket[t] \/ (ticket[t] = "waiting" /\ tk[t] = "expired")
        /\ tk \in [Ticket -> TicketState]
    <2>1. \A t \in Ticket : tk[t] = IF ticket[t] = "waiting" /\ t \in old THEN "expired" ELSE ticket[t]
      BY DEF Expired
    <2>2. \A t \in Ticket : ticket[t] \in TicketState /\ "expired" \in TicketState
      BY DEF WaitInv, TicketsOK, TicketState
    <2> QED
      <3>1. \A t \in Ticket : tk[t] = ticket[t] \/ (ticket[t] = "waiting" /\ tk[t] = "expired")
        BY <2>1
      <3>2. tk = [t \in Ticket |-> tk[t]]
        BY DEF Expired
      <3>3. \A t \in Ticket : tk[t] \in TicketState
        BY <2>2, <3>1
      <3> HIDE DEF tk
      <3> QED
        BY <3>1, <3>2, <3>3
  <1>2. \A i \in fit : line[i] \in Ticket /\ tk[line[i]] = "waiting"
    BY DEF Due, WaitInv, TicketsOK
  <1>3. /\ \A t \in failed : t \in Ticket /\ tk[t] = "waiting" /\ t \in Spoilt
        /\ \A i \in good : line[i] \in Ticket /\ tk[line[i]] = "waiting" /\ line[i] \notin failed
    BY <1>2
  <1>4. /\ usher = {} /\ UNCHANGED line
        /\ ticket' = [t \in Ticket |-> IF t \in failed THEN "failed" ELSE tk[t]]
        /\ \/ UNCHANGED <<usher, starts>>
           \/ \E i \in good : usher' = {line[i]} /\ Start(line[i])
    BY DEF Sweep
  <1> HIDE DEF tk, fit, good, failed
  <1>5. \A t \in Ticket : ticket'[t] = IF t \in failed THEN "failed" ELSE tk[t]
    BY <1>4
  <1>6. CASE UNCHANGED <<usher, starts>>
    BY <1>1, <1>3, <1>4, <1>5, <1>6
       DEF WaitInv, TicketsOK, UsherWaited, NoStartUnserved, OneStart, TicketState, Unserved
  <1>7. CASE \E i \in good : usher' = {line[i]} /\ Start(line[i])
    <2>1. PICK i \in good : usher' = {line[i]} /\ Start(line[i])
      BY <1>7
    <2> DEFINE t == line[i]
    <2>2. t \in Ticket /\ tk[t] = "waiting" /\ t \notin failed
      BY <1>3
    <2>3. starts' \in [Ticket -> Nat] /\ \A u \in Ticket : starts'[u] = IF u = t THEN starts[u] + 1 ELSE starts[u]
      BY <2>1, <2>2, OneMore DEF WaitInv
    <2>4. usher' = {t}
      BY <2>1
    <2> HIDE DEF t
    <2>5. ticket[t] = "waiting" /\ ticket'[t] = "waiting" /\ starts[t] = 0
      BY <1>1, <1>4, <1>5, <2>2 DEF WaitInv, NoStartUnserved, Unserved
    <2>6. TicketsOK'
      BY <1>1, <1>4, <1>5, <2>2, <2>3, <2>4 DEF WaitInv, TicketsOK, TicketState
    <2>7. UsherWaited'
      BY <2>4, <2>5 DEF UsherWaited
    <2>8. NoStartUnserved'
      BY <1>1, <1>3, <1>4, <1>5, <2>3, <2>4 DEF WaitInv, NoStartUnserved, Unserved
    <2>9. OneStart'
      <3> SUFFICES ASSUME NEW u \in Ticket PROVE starts'[u] <= 1
        BY DEF OneStart
      <3>1. starts[u] <= 1
        BY DEF WaitInv, OneStart
      <3>2. starts'[u] = IF u = t THEN starts[u] + 1 ELSE starts[u]
        BY <2>3
      <3>3. CASE u = t
        BY <2>5, <3>2, <3>3
      <3>4. CASE u # t
        BY <3>1, <3>2, <3>4
      <3> QED
        BY <3>3, <3>4
    <2> QED
      BY <2>6, <2>7, <2>8, <2>9 DEF WaitInv
  <1> QED
    BY <1>4, <1>6, <1>7

LEMMA RoomStep ==
    ASSUME WaitInv, [WaitNext]_waitVars
    PROVE  WaitInv'
  <1> USE DEF WaitInv, TicketsOK, UsherWaited, NoStartUnserved, OneStart, TicketState, Unserved
  <1>1. CASE Settled
    BY <1>1 DEF Settled
  <1>2. CASE Read
    BY <1>2 DEF Read, Expired
  <1>3. ASSUME NEW t \in Ticket, Cancel(t) PROVE WaitInv'
    BY <1>3 DEF Cancel, Closed
  <1>4. ASSUME NEW t \in Ticket, TimeIsOver(t) \/ Ends(t) PROVE WaitInv'
    BY <1>4 DEF TimeIsOver, Ends
  <1>5. ASSUME NEW n \in Place, Telemetry(n) PROVE WaitInv'
    BY <1>5 DEF Telemetry
  <1>6. CASE UNCHANGED waitVars
    BY <1>6 DEF waitVars
  <1> QED
    BY <1>1, <1>2, <1>3, <1>4, <1>5, <1>6, RentStep, SweepStep DEF WaitNext

(* A ticket is worth one cluster (waiting.py, serve_waiting): for any number  *)
(* of tickets, nodes and sizes, and wherever a cancellation, a page or the    *)
(* end of its time falls while its lease is being opened.                     *)
THEOREM OneClusterATicketHolds == WaitSpec => []OneClusterATicket
  <1>1. WaitInit => WaitInv
    BY DEF WaitInit, WaitInv, TicketsOK, UsherWaited, NoStartUnserved, OneStart, TicketState
  <1>2. WaitInv /\ [WaitNext]_waitVars => WaitInv'
    BY RoomStep
  <1>3. WaitInv => OneClusterATicket
    BY DEF WaitInv, NoStartUnserved, OneStart, Unserved, OneClusterATicket
  <1> QED
    BY <1>1, <1>2, <1>3, PTL DEF WaitSpec

(* ------------------------------------------------------------- training --- *)
(* In a queue, those of S come once.                                          *)
Once(q, S) == \A i, j \in 1 .. Len(q) : q[i] \in S /\ q[j] \in S => i = j

LEMMA Queued ==
    ASSUME NEW T, NEW q \in Seq(T)
    PROVE  Range(q) = {q[i] : i \in 1 .. Len(q)} /\ Range(q) \subseteq T /\ Len(q) \in Nat
  BY LenProperties, ElementOfSeq DEF Range

LEMMA QueueBegins == Range(<<>>) = {} /\ \A S : Once(<<>>, S)
  BY DEF Range, Once

LEMMA QueueGrows ==
    ASSUME NEW T, NEW q \in Seq(T), NEW m \in T
    PROVE  /\ Append(q, m) \in Seq(T)
           /\ Range(Append(q, m)) = Range(q) \union {m}
           /\ \A S : Once(q, S) /\ (m \in S => Range(q) \intersect S = {}) => Once(Append(q, m), S)
  <1> DEFINE a == Append(q, m)
  <1>1. /\ a \in Seq(T) /\ Len(a) = Len(q) + 1 /\ Len(q) \in Nat
        /\ \A i \in 1 .. Len(q) : a[i] = q[i]
        /\ a[Len(q) + 1] = m
    BY AppendProperties, LenProperties
  <1>2. /\ Range(a) = {a[i] : i \in 1 .. Len(a)}
        /\ Range(q) = {q[i] : i \in 1 .. Len(q)}
    BY <1>1, Queued
  <1> HIDE DEF a
  <1>3. Range(a) = Range(q) \union {m}
    <2>1. \A x \in Range(a) : x \in Range(q) \/ x = m
      <3> TAKE x \in Range(a)
      <3>1. PICK i \in 1 .. Len(a) : x = a[i]
        BY <1>2
      <3> QED
        BY <1>1, <1>2, <3>1
    <2>2. \A i \in 1 .. Len(q) : i \in 1 .. Len(a) /\ a[i] = q[i]
      BY <1>1
    <2>3. Len(q) + 1 \in 1 .. Len(a)
      BY <1>1
    <2> QED
      BY <1>1, <1>2, <2>1, <2>2, <2>3
  <1>4. ASSUME NEW S, Once(q, S), m \in S => Range(q) \intersect S = {} PROVE Once(a, S)
    <2> SUFFICES ASSUME NEW i \in 1 .. Len(a), NEW j \in 1 .. Len(a), a[i] \in S, a[j] \in S
                 PROVE  i = j
      BY DEF Once
    <2>1. \A k \in 1 .. Len(q) : q[k] \in Range(q)
      BY <1>2
    <2>2. CASE i \in 1 .. Len(q) /\ j \in 1 .. Len(q)
      BY <1>1, <1>4, <2>2 DEF Once
    <2>3. CASE i = Len(q) + 1 /\ j \in 1 .. Len(q)
      BY <1>1, <1>4, <2>1, <2>3
    <2>4. CASE j = Len(q) + 1 /\ i \in 1 .. Len(q)
      BY <1>1, <1>4, <2>1, <2>4
    <2> QED
      BY <1>1, <2>2, <2>3, <2>4
  <1> QED
    BY <1>1, <1>3, <1>4 DEF a

LEMMA QueueShrinks ==
    ASSUME NEW T, NEW q \in Seq(T), q # <<>>
    PROVE  /\ Tail(q) \in Seq(T) /\ Head(q) \in T /\ Head(q) \in Range(q)
           /\ Range(q) = Range(Tail(q)) \union {Head(q)}
           /\ \A S : Once(q, S) => /\ Once(Tail(q), S)
                                   /\ Head(q) \in S => Range(Tail(q)) \intersect S = {}
  <1> DEFINE t == Tail(q)
             h == Head(q)
  <1>1. /\ t \in Seq(T) /\ Len(t) = Len(q) - 1 /\ Len(q) \in Nat /\ Len(q) > 0 /\ h \in T /\ h = q[1]
        /\ \A i \in 1 .. Len(t) : t[i] = q[i + 1]
    BY HeadTailProperties, LenProperties, EmptySeq
  <1>2. /\ Range(t) = {t[i] : i \in 1 .. Len(t)}
        /\ Range(q) = {q[i] : i \in 1 .. Len(q)}
    BY <1>1, Queued
  <1> HIDE DEF t, h
  <1>3. Range(q) = Range(t) \union {h}
    <2>1. \A i \in 1 .. Len(q) : q[i] \in Range(t) \union {h}
      <3> TAKE i \in 1 .. Len(q)
      <3>1. CASE i = 1
        BY <1>1, <3>1
      <3>2. CASE i # 1
        <4>1. i - 1 \in 1 .. Len(t) /\ t[i - 1] = q[i]
          BY <1>1, <3>2
        <4> QED
          BY <1>2, <4>1
      <3> QED
        BY <3>1, <3>2
    <2>2. \A i \in 1 .. Len(t) : i + 1 \in 1 .. Len(q) /\ t[i] = q[i + 1]
      BY <1>1
    <2>3. 1 \in 1 .. Len(q)
      BY <1>1
    <2> QED
      BY <1>1, <1>2, <2>1, <2>2, <2>3
  <1>4. ASSUME NEW S, Once(q, S) PROVE Once(t, S) /\ (h \in S => Range(t) \intersect S = {})
    <2>1. \A i \in 1 .. Len(t) : i + 1 \in 1 .. Len(q) /\ t[i] = q[i + 1]
      BY <1>1
    <2>2. Once(t, S)
      <3> SUFFICES ASSUME NEW i \in 1 .. Len(t), NEW j \in 1 .. Len(t), t[i] \in S, t[j] \in S
                   PROVE  i = j
        BY DEF Once
      <3>1. i + 1 = j + 1
        BY <1>4, <2>1 DEF Once
      <3> QED
        BY <1>1, <3>1
    <2>3. ASSUME h \in S, NEW x \in Range(t), x \in S PROVE FALSE
      <3>1. PICK i \in 1 .. Len(t) : x = t[i]
        BY <1>2, <2>3
      <3>2. i + 1 = 1
        BY <1>1, <1>4, <2>1, <2>3, <3>1 DEF Once
      <3> QED
        BY <1>1, <3>2
    <2> QED
      BY <2>2, <2>3
  <1> QED
    BY <1>1, <1>3, <1>4 DEF t, h


(* What counts: not a probe, which may be repeated and changes nothing, and   *)
(* not the end.                                                               *)
Ops == {"ping", "forward", "backward", "norm", "step", "collect", "finish"}
Calls == [op : Ops, stage : Stage, micro : 0 .. Micros]
Letter == {m \in [call : Calls, step : 0 .. Steps, try : 0 .. MaxPings] :
              m.call.op \in {"forward", "backward"} => KeyOf(m) \in Key}
Stepping == {m \in Letter : m.call.op \notin {"ping", "finish"}}
Gradient == [Key -> Nat]
Reply == [of : Letter, error : BOOLEAN, gives : Seq(Gradient)]
From(s) == {r \in Reply : r.of.call.stage = s /\ r.of \in Stepping}

TrainTypes ==
    /\ trainer \in {"reading", "calling", "awaiting", "writing", "done", "failed"}
    /\ at \in Calls /\ step_no \in 0 .. Steps /\ tries \in 1 .. MaxPings
    /\ graphs \in [Stage -> SUBSET Key] /\ grad \in [Stage -> Gradient] /\ applied \in [Stage -> Seq(Gradient)]
    /\ piece \in [Stage -> Seq(Gradient)]
    /\ net \in [Stage -> Seq(Letter)] /\ replies \in Seq(Reply)
    /\ astray \subseteq Stage \X Letter /\ again \subseteq Stage

(* Where the head may be.                                                     *)
AtOK ==
    /\ at.op # "finish"
    /\ at.op = "ping" => step_no = 0
    /\ at.op \in {"forward", "backward", "norm", "step"} => step_no < Steps
    /\ at.op \in {"forward", "backward"} => at.micro > 0
    /\ at.op = "backward" => at.stage < Final
    /\ at.op = "collect" => step_no = Steps
    /\ trainer = "reading" => at = Call("ping", 0, 0)
    /\ trainer \in {"writing", "done"} => at.op = "collect" /\ at.stage = Final

(* What s holds when the head is at call c of step n; b: s is through with it. *)
Got(n, j) == [k \in Key |-> IF k[1] = n /\ k[2] <= j THEN 1 ELSE 0]
Gotten(n) == [i \in 1 .. n |-> Of(i - 1)]
Holds(c, n, s, b, done, retained, sum) ==
    /\ done = Gotten(IF c.op = "step" /\ b THEN n + 1 ELSE n)
    /\ retained = IF (c.op = "forward" /\ s # Final /\ b) \/ (c.op = "backward" /\ ~b)
              THEN {<<n, c.micro>>} ELSE {}
    /\ sum = IF c.op = "forward" THEN Got(n, IF s = Final /\ b THEN c.micro ELSE c.micro - 1)
             ELSE IF c.op = "backward" THEN Got(n, IF b THEN c.micro ELSE c.micro - 1)
             ELSE IF c.op = "norm" \/ (c.op = "step" /\ ~b) THEN Of(n)
             ELSE No
ShouldHold(s, b) == Holds(at, step_no, s, b, applied[s], graphs[s], grad[s])
Passed(c, s) == IF c.op = "backward" THEN s > c.stage ELSE s < c.stage

(* Still to come to s, and it counts; answered by s.                          *)
Strays(s) == {x[2] : x \in {y \in astray : y[1] = s /\ y[2] \in Stepping}}
InNet(s) == Range(net[s]) \intersect Stepping
Answers(s) == Range(replies) \intersect From(s)
ToCome(s) == InNet(s) \union Strays(s)

StageOK(s) ==
    /\ s # at.stage => ShouldHold(s, Passed(at, s))
    /\ s = at.stage => ShouldHold(s, TRUE) \/ ShouldHold(s, FALSE)
    /\ s = at.stage /\ (trainer \in {"reading", "calling"} \/ ToCome(s) # {}) => ShouldHold(s, FALSE)
    /\ ToCome(s) # {} \/ Answers(s) # {} => s = at.stage /\ trainer \in {"awaiting", "failed"}
    /\ ToCome(s) \subseteq {Message} /\ Once(net[s], Stepping) /\ (Strays(s) # {} => InNet(s) = {})
    /\ Once(replies, From(s)) /\ (Answers(s) # {} => ToCome(s) = {})
    /\ \A r \in Answers(s) : /\ r.of = Message
                             /\ ~r.error => ShouldHold(s, TRUE)
                             /\ at.op = "collect" => r.gives = applied[s]
    /\ at.op = "collect" /\ (s < at.stage \/ trainer \in {"writing", "done"}) => piece[s] = Gotten(Steps)

Addressed ==
    /\ \A s \in Stage : \A m \in Range(net[s]) : m.call.stage = s
    /\ \A x \in astray : x[2].call.stage = x[1]

TrainInv == TrainTypes /\ AtOK /\ Addressed /\ \A s \in Stage \ again : StageOK(s)

(* ------------------------------------------------------------ gradients --- *)
LEMMA Keys ==
    /\ Stage = 0 .. Final /\ Final \in Nat /\ Micros \in Nat \ {0} /\ Steps \in Nat \ {0}
    /\ MaxPings \in Nat \ {0}
    /\ \A k \in Key : k[1] \in 0 .. Steps - 1 /\ k[2] \in 1 .. Micros /\ k = <<k[1], k[2]>>
    /\ \A n \in 0 .. Steps - 1, m \in 1 .. Micros : <<n, m>> \in Key
  BY TrainingAssumption DEF Stage, Final, Key

LEMMA Gradients ==
    /\ No \in Gradient
    /\ \A n \in Nat : Of(n) \in Gradient /\ Got(n, 0) = No /\ Got(n, Micros) = Of(n)
    /\ \A n \in 0 .. Steps - 1 : Of(n) # No
    /\ \A n \in Nat, j \in Nat : Got(n, j) \in Gradient
  <1>1. No \in Gradient /\ \A n \in Nat : Of(n) \in Gradient /\ \A j \in Nat : Got(n, j) \in Gradient
    BY DEF No, Of, Got, Gradient
  <1>2. ASSUME NEW n \in Nat PROVE Got(n, 0) = No /\ Got(n, Micros) = Of(n)
    BY Keys DEF Got, No, Of
  <1>3. ASSUME NEW n \in 0 .. Steps - 1 PROVE Of(n) # No
    <2>1. <<n, 1>> \in Key
      BY Keys
    <2>2. Of(n)[<<n, 1>>] = 1 /\ No[<<n, 1>>] = 0
      BY <2>1 DEF Of, No
    <2> QED
      BY <2>2
  <1> QED
    BY <1>1, <1>2, <1>3

LEMMA MicroAdded ==
    ASSUME NEW n \in 0 .. Steps - 1, NEW j \in 1 .. Micros
    PROVE  Summed(Got(n, j - 1), <<n, j>>) = Got(n, j)
  <1>1. <<n, j>> \in Key
    BY Keys
  <1> DEFINE f == Got(n, j - 1)
  <1>2. /\ f[<<n, j>>] = 0
        /\ \A k \in Key : f[k] = IF k[1] = n /\ k[2] <= j - 1 THEN 1 ELSE 0
    BY <1>1 DEF Got
  <1>3. Summed(f, <<n, j>>) = [k \in Key |-> IF k = <<n, j>> THEN f[k] + 1 ELSE f[k]]
    BY DEF Summed, Got
  <1>4. ASSUME NEW k \in Key
        PROVE  (IF k = <<n, j>> THEN f[k] + 1 ELSE f[k]) = IF k[1] = n /\ k[2] <= j THEN 1 ELSE 0
    <2>1. k[1] \in Nat /\ k[2] \in Nat /\ k = <<k[1], k[2]>>
      BY Keys
    <2>2. CASE k = <<n, j>>
      BY <1>2, <2>2
    <2>3. CASE k # <<n, j>>
      <3>1. k[1] # n \/ k[2] # j
        BY <2>1, <2>3
      <3> QED
        BY <1>2, <2>1, <2>3, <3>1
    <2> QED
      BY <2>2, <2>3
  <1> QED
    BY <1>3, <1>4 DEF Got

LEMMA StepTaken ==
    ASSUME NEW n \in 0 .. Steps
    PROVE  /\ Gotten(n) \in Seq(Gradient) /\ IsPrefix(Gotten(n), Schedule)
           /\ Append(Gotten(n), Of(n)) = Gotten(n + 1)
           /\ Gotten(0) = <<>> /\ Gotten(Steps) = Schedule
  <1>1. n \in Nat /\ Steps \in Nat /\ n <= Steps
    BY Keys
  <1>2. \A i \in 1 .. Steps : Of(i - 1) \in Gradient
    BY Gradients, Keys
  <1>3. \A k \in 0 .. Steps : Gotten(k) \in Seq(Gradient) /\ Len(Gotten(k)) = k /\ \A i \in 1 .. k : Gotten(k)[i] = Of(i - 1)
    BY <1>1, <1>2 DEF Gotten
  <1>4. Gotten(0) = <<>> /\ Gotten(Steps) = Schedule
    BY DEF Gotten, Schedule
  <1>5. Append(Gotten(n), Of(n)) = Gotten(n + 1)
    BY <1>1, <1>3 DEF Gotten
  <1>6. IsPrefix(Gotten(n), Schedule)
    <2> DEFINE t == Gotten(Steps)
               u == Gotten(n)
    <2>1. /\ t \in Seq(Gradient) /\ Len(t) = Steps /\ u \in Seq(Gradient) /\ Len(u) = n
          /\ \A i \in 1 .. n : t[i] = u[i] /\ u[i] \in Gradient
      <3>1. Steps \in 0 .. Steps
        BY <1>1
      <3>2. \A i \in 1 .. n : i \in 1 .. Steps
        BY <1>1
      <3> QED
        BY <1>1, <1>2, <1>3, <3>1, <3>2
    <2> HIDE DEF t, u
    <2>2. SubSeq(u, 1, n) \in Seq(Gradient) /\ SubSeq(t, 1, n) \in Seq(Gradient)
          /\ Len(SubSeq(u, 1, n)) = n /\ Len(SubSeq(t, 1, n)) = n
          /\ \A i \in 1 .. n : SubSeq(u, 1, n)[i] = u[i] /\ SubSeq(t, 1, n)[i] = t[i]
      BY <1>1, <2>1, SubSeqProperties
    <2>3. SubSeq(u, 1, n) = SubSeq(t, 1, n)
      BY <2>1, <2>2, SeqEqual
    <2> QED
      BY <1>1, <1>4, <2>1, <2>3 DEF IsPrefix, t, u
  <1> QED
    BY <1>1, <1>3, <1>4, <1>5, <1>6

(* ----------------------------------------------------- what the head does --- *)
(* The call that follows, and what each stage should hold then.               *)
LEMMA CallFields ==
    \A op, t, m : Call(op, t, m).op = op /\ Call(op, t, m).stage = t /\ Call(op, t, m).micro = m
  BY DEF Call

LEMMA AtFields ==
    ASSUME TrainTypes, AtOK
    PROVE  /\ at.op \in {"ping", "forward", "backward", "norm", "step", "collect"}
           /\ at.stage \in 0 .. Final /\ at.micro \in 0 .. Micros /\ step_no \in 0 .. Steps
           /\ at.op \in {"forward", "backward"} => at.micro \in 1 .. Micros
  BY Keys DEF TrainTypes, AtOK, Calls, Ops

LEMMA OnwardCases ==
    ASSUME TrainTypes, AtOK, GoesOn
    PROVE  LET c == at'.op  t == at'.stage  m == at'.micro IN
           \/ at.op = "ping" /\ at.stage < Final /\ c = "ping" /\ t = at.stage + 1 /\ m = 0 /\ step_no' = step_no
           \/ at.op = "ping" /\ at.stage = Final /\ c = "forward" /\ t = 0 /\ m = 1 /\ step_no' = step_no
           \/ at.op = "forward" /\ at.stage < Final /\ c = "forward" /\ t = at.stage + 1 /\ m = at.micro /\ step_no' = step_no
           \/ at.op = "forward" /\ at.stage = Final /\ Final > 0 /\ c = "backward" /\ t = Final - 1 /\ m = at.micro /\ step_no' = step_no
           \/ /\ (at.op = "forward" /\ Final = 0) \/ at.op = "backward"
              /\ at.stage = 0 /\ at.micro < Micros /\ c = "forward" /\ t = 0 /\ m = at.micro + 1 /\ step_no' = step_no
           \/ /\ (at.op = "forward" /\ Final = 0) \/ at.op = "backward"
              /\ at.stage = 0 /\ at.micro = Micros /\ c = "norm" /\ t = 0 /\ m = 0 /\ step_no' = step_no
           \/ at.op = "backward" /\ at.stage > 0 /\ c = "backward" /\ t = at.stage - 1 /\ m = at.micro /\ step_no' = step_no
           \/ at.op = "norm" /\ at.stage < Final /\ c = "norm" /\ t = at.stage + 1 /\ m = 0 /\ step_no' = step_no
           \/ at.op = "norm" /\ at.stage = Final /\ c = "step" /\ t = 0 /\ m = 0 /\ step_no' = step_no
           \/ at.op = "step" /\ at.stage < Final /\ c = "step" /\ t = at.stage + 1 /\ m = 0 /\ step_no' = step_no
           \/ at.op = "step" /\ at.stage = Final /\ step_no + 1 < Steps /\ c = "forward" /\ t = 0 /\ m = 1 /\ step_no' = step_no + 1
           \/ at.op = "step" /\ at.stage = Final /\ step_no + 1 = Steps /\ c = "collect" /\ t = 0 /\ m = 0 /\ step_no' = step_no + 1
           \/ /\ at.op = "collect" /\ c = "collect" /\ t = (IF at.stage < Final THEN at.stage + 1 ELSE Final)
              /\ m = 0 /\ step_no' = step_no
  <1>1. /\ at.op \in {"ping", "forward", "backward", "norm", "step", "collect"}
        /\ at.stage \in 0 .. Final /\ at.micro \in 0 .. Micros /\ step_no \in 0 .. Steps
    BY AtFields
  <1>2. /\ at' = Following
        /\ step_no' = IF at.op = "step" /\ at.stage = Final THEN step_no + 1 ELSE step_no
    BY DEF GoesOn
  <1>5. CASE at.op = "ping"
    <2>1. at' = IF at.stage < Final THEN Call("ping", at.stage + 1, 0) ELSE Call("forward", 0, 1)
      BY <1>2, <1>5 DEF Following
    <2> QED
      BY <1>1, <1>2, <1>5, <2>1, CallFields, Keys
  <1>6. CASE at.op = "forward"
    <2>1. at' = IF at.stage < Final THEN Call("forward", at.stage + 1, at.micro)
                ELSE IF Final = 0 THEN NextMicro(at.micro) ELSE Call("backward", Final - 1, at.micro)
      BY <1>2, <1>6 DEF Following
    <2> QED
      BY <1>1, <1>2, <1>6, <2>1, CallFields, Keys DEF NextMicro
  <1>7. CASE at.op = "backward"
    <2>1. at' = IF at.stage > 0 THEN Call("backward", at.stage - 1, at.micro) ELSE NextMicro(at.micro)
      BY <1>2, <1>7 DEF Following
    <2> QED
      BY <1>1, <1>2, <1>7, <2>1, CallFields, Keys DEF NextMicro
  <1>8. CASE at.op = "norm"
    <2>1. at' = IF at.stage < Final THEN Call("norm", at.stage + 1, 0) ELSE Call("step", 0, 0)
      BY <1>2, <1>8 DEF Following
    <2> QED
      BY <1>1, <1>2, <1>8, <2>1, CallFields, Keys
  <1>9. CASE at.op = "step"
    <2>1. at' = IF at.stage < Final THEN Call("step", at.stage + 1, 0)
                ELSE IF step_no + 1 < Steps THEN Call("forward", 0, 1) ELSE Call("collect", 0, 0)
      BY <1>2, <1>9 DEF Following
    <2>2. step_no < Steps
      BY <1>9 DEF AtOK
    <2> QED
      BY <1>1, <1>2, <1>9, <2>1, <2>2, CallFields, Keys
  <1>10. CASE at.op = "collect"
    <2>1. at' = Call("collect", IF at.stage < Final THEN at.stage + 1 ELSE at.stage, 0)
      BY <1>2, <1>10 DEF Following
    <2> QED
      BY <1>1, <1>2, <1>10, <2>1, CallFields, Keys
  <1> QED
    BY <1>1, <1>5, <1>6, <1>7, <1>8, <1>9, <1>10

LEMMA OnwardAt ==
    ASSUME TrainTypes, AtOK, trainer \in {"calling", "awaiting"}, GoesOn
    PROVE  /\ at' \in Calls /\ step_no' \in 0 .. Steps /\ tries' \in 1 .. MaxPings
           /\ trainer' \in {"calling", "writing"} /\ AtOK'
  <1>1. /\ at.op \in {"ping", "forward", "backward", "norm", "step", "collect"}
        /\ at.stage \in 0 .. Final /\ at.micro \in 0 .. Micros /\ step_no \in 0 .. Steps
        /\ at.op \in {"forward", "backward"} => at.micro \in 1 .. Micros
    BY AtFields
  <1>2. /\ tries' = 1
        /\ trainer' = IF at.op = "collect" /\ at.stage = Final THEN "writing" ELSE "calling"
    BY DEF GoesOn
  <1>3. at' = Call(at'.op, at'.stage, at'.micro)
    <2>1. \E op, t, m : at' = Call(op, t, m)
      BY <1>1 DEF GoesOn, Following, NextMicro
    <2> QED
      BY <2>1 DEF Call
  <1>4. /\ at'.op \in Ops /\ at'.stage \in 0 .. Final /\ at'.micro \in 0 .. Micros /\ step_no' \in 0 .. Steps
    <2>1. at'.op \in {"ping", "forward", "backward", "norm", "step", "collect"}
      BY OnwardCases
    <2>2. at'.stage \in 0 .. Final
      BY <1>1, OnwardCases, Keys
    <2>3. at'.micro \in 0 .. Micros
      BY <1>1, OnwardCases, Keys
    <2>4. step_no' \in 0 .. Steps
      BY <1>1, OnwardCases, Keys
    <2> QED
      BY <2>1, <2>2, <2>3, <2>4 DEF Ops
  <1>5. at' \in Calls
    BY <1>3, <1>4, Keys DEF Calls, Call
  <1>6. /\ at'.op # "finish"
        /\ at'.op = "ping" => step_no' = 0
        /\ at'.op \in {"forward", "backward", "norm", "step"} => step_no' < Steps
        /\ at'.op \in {"forward", "backward"} => at'.micro > 0
        /\ at'.op = "backward" => at'.stage < Final
        /\ at'.op = "collect" => step_no' = Steps
    BY <1>1, OnwardCases, Keys DEF AtOK
  <1>7. trainer' = "writing" => at'.op = "collect" /\ at'.stage = Final
    BY <1>1, <1>2, OnwardCases
  <1>8. trainer' \in {"calling", "writing"} /\ tries' \in 1 .. MaxPings
    BY <1>2, Keys
  <1> QED
    BY <1>4, <1>5, <1>6, <1>7, <1>8 DEF AtOK

LEMMA OnwardHolds ==
    ASSUME TrainTypes, AtOK, GoesOn,
           NEW s \in Stage, NEW a, NEW g, NEW r,
           Holds(at, step_no, s, Passed(at, s) \/ s = at.stage, a, g, r)
    PROVE  /\ Holds(at', step_no', s, Passed(at', s), a, g, r)
           /\ s = at'.stage => Passed(at', s) = FALSE
  <1>1. /\ at.op \in {"ping", "forward", "backward", "norm", "step", "collect"}
        /\ at.stage \in 0 .. Final /\ at.micro \in 0 .. Micros /\ step_no \in 0 .. Steps
        /\ at.op \in {"forward", "backward"} => at.micro \in 1 .. Micros
        /\ s \in 0 .. Final /\ Final \in Nat /\ Micros \in Nat
        /\ at.op = "backward" => at.stage < Final
        /\ at.op = "ping" => step_no = 0
    BY AtFields, Keys DEF AtOK
  <1>2. \A n \in Nat : Got(n, 0) = No /\ Got(n, Micros) = Of(n)
    BY Gradients
  <1>3. s = at'.stage => Passed(at', s) = FALSE
    BY <1>1, OnwardCases DEF Passed
  <1> DEFINE b == Passed(at, s) \/ s = at.stage
             c == Passed(at', s)
             h == IF (at.op = "forward" /\ s # Final /\ b) \/ (at.op = "backward" /\ ~b)
                  THEN {<<step_no, at.micro>>} ELSE {}
             hh == IF (at'.op = "forward" /\ s # Final /\ c) \/ (at'.op = "backward" /\ ~c)
                   THEN {<<step_no', at'.micro>>} ELSE {}
  <1>4. (IF at.op = "step" /\ b THEN step_no + 1 ELSE step_no) = IF at'.op = "step" /\ c THEN step_no' + 1 ELSE step_no'
    BY <1>1, OnwardCases DEF Passed
  <1>5. h = hh
    <2>1. CASE at.op \in {"ping", "norm", "step", "collect"}
      BY <1>1, <2>1, OnwardCases DEF Passed
    <2>2. CASE at.op = "forward" /\ at.stage < Final
      <3>1. at'.op = "forward" /\ at'.stage = at.stage + 1 /\ at'.micro = at.micro /\ step_no' = step_no
        BY <1>1, <2>2, OnwardCases
      <3> QED
        BY <1>1, <2>2, <3>1 DEF Passed
    <2>3. CASE at.op = "forward" /\ at.stage = Final
      <3>1. CASE Final = 0
        <4>1. at'.op # "backward" /\ (at'.op = "forward" => at'.stage = 0)
          BY <1>1, <2>3, <3>1, OnwardCases
        <4> QED
          BY <1>1, <2>3, <3>1, <4>1 DEF Passed
      <3>2. CASE Final > 0
        <4>1. at'.op = "backward" /\ at'.stage = Final - 1 /\ at'.micro = at.micro /\ step_no' = step_no
          BY <1>1, <2>3, <3>2, OnwardCases
        <4> QED
          BY <1>1, <2>3, <3>2, <4>1 DEF Passed
      <3> QED
        BY <1>1, <3>1, <3>2
    <2>4. CASE at.op = "backward"
      BY <1>1, <2>4, OnwardCases DEF Passed
    <2> QED
      BY <1>1, <2>1, <2>2, <2>3, <2>4
  <1>6. (IF at.op = "forward" THEN Got(step_no, IF s = Final /\ b THEN at.micro ELSE at.micro - 1)
         ELSE IF at.op = "backward" THEN Got(step_no, IF b THEN at.micro ELSE at.micro - 1)
         ELSE IF at.op = "norm" \/ (at.op = "step" /\ ~b) THEN Of(step_no) ELSE No)
        = (IF at'.op = "forward" THEN Got(step_no', IF s = Final /\ c THEN at'.micro ELSE at'.micro - 1)
           ELSE IF at'.op = "backward" THEN Got(step_no', IF c THEN at'.micro ELSE at'.micro - 1)
           ELSE IF at'.op = "norm" \/ (at'.op = "step" /\ ~c) THEN Of(step_no') ELSE No)
    <2>1. step_no \in Nat /\ Got(step_no, 0) = No /\ Got(step_no, Micros) = Of(step_no)
      BY <1>1, <1>2
    <2>2. CASE at.op \in {"ping", "collect"}
      BY <1>1, <1>2, <2>2, OnwardCases DEF Passed
    <2>3. CASE at.op = "forward"
      BY <1>1, <2>1, <2>3, OnwardCases DEF Passed
    <2>4. CASE at.op = "backward"
      BY <1>1, <2>1, <2>4, OnwardCases DEF Passed
    <2>5. CASE at.op \in {"norm", "step"}
      BY <1>1, <1>2, <2>5, OnwardCases DEF Passed
    <2> QED
      BY <1>1, <2>2, <2>3, <2>4, <2>5
  <1> QED
    BY <1>3, <1>4, <1>5, <1>6 DEF Holds

LEMMA MessageIsLetter ==
    ASSUME TrainTypes, AtOK
    PROVE  /\ Message \in Letter /\ Message.call = at /\ Message.step = step_no
           /\ Message \in Stepping <=> at.op # "ping"
           /\ at.op \in {"forward", "backward"} => KeyOf(Message) \in Key /\ KeyOf(Message) = <<step_no, at.micro>>
  <1>1. Message.call = at /\ Message.step = step_no /\ Message \in [call : Calls, step : 0 .. Steps, try : 0 .. MaxPings]
    BY Keys DEF Message, TrainTypes
  <1>2. at.op \in {"forward", "backward"} => KeyOf(Message) \in Key /\ KeyOf(Message) = <<step_no, at.micro>>
    BY <1>1, AtFields, Keys DEF KeyOf, AtOK
  <1> QED
    BY <1>1, <1>2 DEF Letter, Stepping, AtOK

(* What a message does to the weights of the stage it is for.                 *)
LEMMA Effect ==
    ASSUME TrainTypes, AtOK, NEW s \in Stage, NEW m \in Letter, Does(s, m)
    PROVE  \E a \in Seq(Gradient), g \in SUBSET Key, r \in Gradient :
              /\ applied' = [applied EXCEPT ![s] = a]
              /\ graphs' = [graphs EXCEPT ![s] = g]
              /\ grad' = [grad EXCEPT ![s] = r]
              /\ Refuses(s, m) \/ m.call.op \in {"ping", "finish", "norm", "collect"}
                    => a = applied[s] /\ g = graphs[s] /\ r = grad[s]
              /\ m = Message /\ s = at.stage /\ ~Refuses(s, m) /\ ShouldHold(s, FALSE)
                    => Holds(at, step_no, s, TRUE, a, g, r)
  <1> DEFINE Goal(a, g, r) ==
              /\ applied' = [applied EXCEPT ![s] = a]
              /\ graphs' = [graphs EXCEPT ![s] = g]
              /\ grad' = [grad EXCEPT ![s] = r]
              /\ Refuses(s, m) \/ m.call.op \in {"ping", "finish", "norm", "collect"}
                    => a = applied[s] /\ g = graphs[s] /\ r = grad[s]
              /\ m = Message /\ s = at.stage /\ ~Refuses(s, m) /\ ShouldHold(s, FALSE)
                    => Holds(at, step_no, s, TRUE, a, g, r)
  <1>1. /\ graphs \in [Stage -> SUBSET Key] /\ grad \in [Stage -> Gradient] /\ applied \in [Stage -> Seq(Gradient)]
        /\ applied[s] \in Seq(Gradient) /\ graphs[s] \in SUBSET Key /\ grad[s] \in Gradient
        /\ m.call.op \in Ops
    BY DEF TrainTypes, Letter, Calls
  <1>2. /\ m = Message => m.call = at
        /\ at.op \in {"forward", "backward"} /\ m = Message => KeyOf(m) = <<step_no, at.micro>>
    BY MessageIsLetter
  <1>3. m.call.op \in {"forward", "backward"} => KeyOf(m) \in Key
    BY DEF Letter
  <1>4. \A k \in Key, f \in Gradient : Summed(f, k) \in Gradient
    BY DEF Summed, Gradient
  <1>5. CASE Refuses(s, m)
    <2>1. UNCHANGED <<applied, graphs, grad>>
      BY <1>5 DEF Does, weights
    <2>2. Goal(applied[s], graphs[s], grad[s])
      BY <1>1, <1>5, <2>1
    <2> QED
      BY <1>1, <2>2
  <1>6. CASE ~Refuses(s, m) /\ m.call.op = "forward"
    <2>1. Forward(s, m)
      BY <1>6 DEF Does
    <2>2. CASE s = Final
      <3> DEFINE r == Summed(grad[s], KeyOf(m))
      <3>1. r \in Gradient /\ grad' = [grad EXCEPT ![s] = r] /\ graphs' = graphs /\ applied' = applied
        BY <1>1, <1>3, <1>4, <1>6, <2>1, <2>2 DEF Forward
      <3>2. ASSUME m = Message, s = at.stage, ShouldHold(s, FALSE)
            PROVE  Holds(at, step_no, s, TRUE, applied[s], graphs[s], r)
        <4>1. at.op = "forward" /\ KeyOf(m) = <<step_no, at.micro>>
          BY <1>2, <1>6, <3>2
        <4>2. at.micro \in 1 .. Micros /\ step_no \in 0 .. Steps - 1
          BY <4>1, AtFields, Keys DEF AtOK
        <4>3. grad[s] = Got(step_no, at.micro - 1) /\ applied[s] = Gotten(step_no) /\ graphs[s] = {}
          BY <2>2, <3>2, <4>1 DEF ShouldHold, Holds
        <4>4. r = Got(step_no, at.micro)
          BY <4>1, <4>2, <4>3, MicroAdded
        <4> QED
          BY <2>2, <4>1, <4>3, <4>4 DEF Holds
      <3>3. Goal(applied[s], graphs[s], r)
        BY <1>1, <1>6, <3>1, <3>2
      <3> QED
        BY <1>1, <3>1, <3>3
    <2>3. CASE s # Final
      <3> DEFINE g == graphs[s] \union {KeyOf(m)}
      <3>1. g \in SUBSET Key /\ graphs' = [graphs EXCEPT ![s] = g] /\ grad' = grad /\ applied' = applied
        BY <1>1, <1>3, <1>6, <2>1, <2>3 DEF Forward
      <3>2. ASSUME m = Message, s = at.stage, ShouldHold(s, FALSE)
            PROVE  Holds(at, step_no, s, TRUE, applied[s], g, grad[s])
        <4>1. at.op = "forward" /\ KeyOf(m) = <<step_no, at.micro>>
          BY <1>2, <1>6, <3>2
        <4>2. grad[s] = Got(step_no, at.micro - 1) /\ applied[s] = Gotten(step_no) /\ graphs[s] = {}
          BY <2>3, <3>2, <4>1 DEF ShouldHold, Holds
        <4> QED
          BY <2>3, <4>1, <4>2 DEF Holds
      <3>3. Goal(applied[s], g, grad[s])
        BY <1>1, <1>6, <3>1, <3>2
      <3> QED
        BY <1>1, <3>1, <3>3
    <2> QED
      BY <2>2, <2>3
  <1>7. CASE ~Refuses(s, m) /\ m.call.op = "backward"
    <2> DEFINE g == graphs[s] \ {KeyOf(m)}
               r == Summed(grad[s], KeyOf(m))
    <2>1. Backward(s, m)
      BY <1>7 DEF Does
    <2>2. /\ g \in SUBSET Key /\ graphs' = [graphs EXCEPT ![s] = g] /\ applied' = applied
          /\ r \in Gradient /\ grad' = [grad EXCEPT ![s] = r]
      BY <1>1, <1>3, <1>4, <1>7, <2>1 DEF Backward
    <2>3. ASSUME m = Message, s = at.stage, ShouldHold(s, FALSE)
          PROVE  Holds(at, step_no, s, TRUE, applied[s], g, r)
      <3>1. at.op = "backward" /\ KeyOf(m) = <<step_no, at.micro>>
        BY <1>2, <1>7, <2>3
      <3>2. at.micro \in 1 .. Micros /\ step_no \in 0 .. Steps - 1
        BY <3>1, AtFields, Keys DEF AtOK
      <3>3. grad[s] = Got(step_no, at.micro - 1) /\ applied[s] = Gotten(step_no) /\ graphs[s] = {<<step_no, at.micro>>}
        BY <2>3, <3>1 DEF ShouldHold, Holds
      <3>4. r = Got(step_no, at.micro) /\ g = {}
        BY <3>1, <3>2, <3>3, MicroAdded
      <3> QED
        BY <3>1, <3>3, <3>4 DEF Holds
    <2>4. Goal(applied[s], g, r)
      BY <1>1, <1>7, <2>2, <2>3
    <2> QED
      BY <1>1, <2>2, <2>4
  <1>8. CASE ~Refuses(s, m) /\ m.call.op = "step"
    <2> DEFINE a == IF grad[s] = No THEN applied[s] ELSE Append(applied[s], grad[s])
    <2>1. OptimizerStep(s)
      BY <1>8 DEF Does
    <2>2. a \in Seq(Gradient)
      BY <1>1, AppendProperties
    <2>3. /\ applied' = [applied EXCEPT ![s] = a] /\ graphs' = graphs
          /\ grad' = [grad EXCEPT ![s] = No] /\ No \in Gradient
      BY <1>1, <2>1, Gradients DEF OptimizerStep, Zeroed
    <2>4. ASSUME m = Message, s = at.stage, ShouldHold(s, FALSE)
          PROVE  Holds(at, step_no, s, TRUE, a, graphs[s], No)
      <3>1. at.op = "step"
        BY <1>2, <1>8, <2>4
      <3>2. step_no \in 0 .. Steps - 1 /\ step_no \in 0 .. Steps
        BY <3>1, AtFields, Keys DEF AtOK
      <3>3. grad[s] = Of(step_no) /\ applied[s] = Gotten(step_no) /\ graphs[s] = {}
        BY <2>4, <3>1 DEF ShouldHold, Holds
      <3>4. a = Gotten(step_no + 1)
        BY <3>2, <3>3, Gradients, StepTaken
      <3> HIDE DEF a
      <3> QED
        BY <3>1, <3>3, <3>4 DEF Holds
    <2>5. Goal(a, graphs[s], No)
      BY <1>1, <1>8, <2>3, <2>4
    <2> QED
      BY <1>1, <2>2, <2>3, <2>5
  <1>9. CASE ~Refuses(s, m) /\ m.call.op \in {"ping", "finish", "norm", "collect"}
    <2>1. UNCHANGED <<applied, graphs, grad>>
      BY <1>9 DEF Does, weights
    <2>2. ASSUME m = Message, s = at.stage, ShouldHold(s, FALSE)
          PROVE  Holds(at, step_no, s, TRUE, applied[s], graphs[s], grad[s])
      BY <1>2, <1>9, <2>2 DEF ShouldHold, Holds
    <2>3. Goal(applied[s], graphs[s], grad[s])
      BY <1>1, <1>9, <2>1, <2>2
    <2> QED
      BY <1>1, <2>3
  <1> QED
    BY <1>1, <1>5, <1>6, <1>7, <1>8, <1>9 DEF Ops

(* A stage goes on when nothing is done to it and its messages only get fewer. *)
LEMMA StageGoesOn ==
    ASSUME NEW s \in Stage, StageOK(s), UNCHANGED <<at, step_no, tries>>,
           applied'[s] = applied[s], graphs'[s] = graphs[s], grad'[s] = grad[s], piece'[s] = piece[s],
           ToCome(s)' \subseteq ToCome(s), Once(net'[s], Stepping), Strays(s)' # {} => InNet(s)' = {},
           Answers(s)' \subseteq Answers(s), Once(replies', From(s)),
           trainer' \in {"reading", "calling"} => trainer \in {"reading", "calling"},
           trainer \in {"awaiting", "failed"} => trainer' \in {"awaiting", "failed"},
           trainer' \in {"writing", "done"} => trainer \in {"writing", "done"}
    PROVE  StageOK(s)'
  <1>1. Message' = Message
    BY DEF Message
  <1>2. \A b : ShouldHold(s, b)' <=> ShouldHold(s, b)
    BY DEF ShouldHold
  <1>3. Passed(at, s)' = Passed(at, s)
    BY DEF Passed
  <1>4. /\ s # at'.stage => ShouldHold(s, Passed(at, s))'
        /\ s = at'.stage => ShouldHold(s, TRUE)' \/ ShouldHold(s, FALSE)'
        /\ s = at'.stage /\ (trainer' \in {"reading", "calling"} \/ ToCome(s)' # {}) => ShouldHold(s, FALSE)'
    <2>1. ShouldHold(s, Passed(at, s))' <=> ShouldHold(s, Passed(at, s))
      BY <1>3 DEF ShouldHold
    <2>2. ToCome(s)' # {} => ToCome(s) # {}
      OBVIOUS
    <2> QED
      BY <1>2, <2>1, <2>2 DEF StageOK
  <1>5. /\ ToCome(s)' # {} \/ Answers(s)' # {} => s = at'.stage /\ trainer' \in {"awaiting", "failed"}
        /\ ToCome(s)' \subseteq {Message'}
        /\ Answers(s)' # {} => ToCome(s)' = {}
    BY <1>1 DEF StageOK
  <1>6. \A r \in Answers(s)' : /\ r.of = Message'
                               /\ ~r.error => ShouldHold(s, TRUE)'
                               /\ at'.op = "collect" => r.gives = applied'[s]
    BY <1>1, <1>2 DEF StageOK
  <1>7. at'.op = "collect" /\ (s < at'.stage \/ trainer' \in {"writing", "done"}) => piece'[s] = Gotten(Steps)
    BY DEF StageOK
  <1> QED
    BY <1>4, <1>5, <1>6, <1>7 DEF StageOK

(* Nothing is under way to a stage that the head does not wait for.           *)
LEMMA Quiet ==
    ASSUME TrainTypes, AtOK, NEW s \in Stage, StageOK(s),
           at.op = "ping" \/ s # at.stage \/ trainer \notin {"awaiting", "failed"}
    PROVE  ToCome(s) = {} /\ Answers(s) = {}
  <1>1. CASE at.op = "ping"
    <2>1. Message \notin Stepping
      BY <1>1, MessageIsLetter
    <2>2. ToCome(s) \subseteq Stepping /\ \A r \in Answers(s) : r.of \in Stepping
      BY DEF ToCome, InNet, Strays, Answers, From
    <2>3. ToCome(s) \subseteq {Message} /\ \A r \in Answers(s) : r.of = Message
      BY DEF StageOK
    <2> QED
      BY <2>1, <2>2, <2>3
  <1>2. CASE s # at.stage \/ trainer \notin {"awaiting", "failed"}
    BY <1>2 DEF StageOK
  <1> QED
    BY <1>1, <1>2

(* The head goes on: the stage it called is through with the call.            *)
LEMMA StageSettles ==
    ASSUME TrainTypes, AtOK, GoesOn, trainer \in {"calling", "awaiting"}, NEW s \in Stage,
           Holds(at, step_no, s, Passed(at, s) \/ s = at.stage, applied'[s], graphs'[s], grad'[s]),
           ToCome(s)' = {}, Answers(s)' = {}, Once(net'[s], Stepping), Once(replies', From(s)),
           at.op = "collect" /\ s < at.stage => piece'[s] = Gotten(Steps),
           at.op = "collect" /\ s = at.stage => piece'[s] = applied'[s]
    PROVE  StageOK(s)'
  <1>1. /\ Holds(at', step_no', s, Passed(at', s), applied'[s], graphs'[s], grad'[s])
        /\ s = at'.stage => Passed(at', s) = FALSE
    BY OnwardHolds
  <1>2. ShouldHold(s, Passed(at, s))' /\ (s = at'.stage => ShouldHold(s, FALSE)')
    <2>1. ShouldHold(s, Passed(at, s))'
      BY <1>1 DEF ShouldHold
    <2>2. ASSUME s = at'.stage PROVE ShouldHold(s, FALSE)'
      BY <1>1, <2>2 DEF ShouldHold
    <2> QED
      BY <2>1, <2>2
  <1>3. InNet(s)' = {} /\ Strays(s)' = {}
    BY DEF ToCome
  <1>4. ASSUME at'.op = "collect", s < at'.stage \/ trainer' \in {"writing", "done"} PROVE piece'[s] = Gotten(Steps)
    <2>1. /\ s \in 0 .. Final /\ at.stage \in 0 .. Final /\ Final \in Nat
          /\ trainer' = IF at.op = "collect" /\ at.stage = Final THEN "writing" ELSE "calling"
      BY AtFields, Keys DEF GoesOn
    <2>2. at.op = "collect" /\ s <= at.stage
      BY <1>4, <2>1, OnwardCases
    <2>3. CASE s = at.stage
      <3>1. step_no = Steps
        BY <2>2 DEF AtOK
      <3>2. applied'[s] = Gotten(Steps)
        BY <2>2, <3>1 DEF Holds
      <3> QED
        BY <2>2, <2>3, <3>2
    <2> QED
      BY <2>1, <2>2, <2>3
  <1> QED
    BY <1>2, <1>3, <1>4 DEF StageOK

(* The end is told to every stage, and nothing else.                          *)
LEMMA Told ==
    ASSUME TrainTypes, Addressed, net' = TellAll
    PROVE  /\ net' \in [Stage -> Seq(Letter)]
           /\ \A s \in Stage : /\ InNet(s)' = InNet(s)
                               /\ Once(net[s], Stepping) => Once(net'[s], Stepping)
                               /\ \A m \in Range(net'[s]) : m.call.stage = s
  <1> DEFINE f(s) == [call |-> Call("finish", s, 0), step |-> step_no, try |-> 0]
  <1>1. net \in [Stage -> Seq(Letter)] /\ \A s \in Stage : net[s] \in Seq(Letter)
    BY DEF TrainTypes
  <1>2. ASSUME NEW s \in Stage PROVE f(s) \in Letter /\ f(s) \notin Stepping /\ f(s).call.stage = s
    <2>1. Call("finish", s, 0) \in Calls /\ Call("finish", s, 0).op = "finish" /\ Call("finish", s, 0).stage = s
      BY Keys DEF Call, Calls, Ops
    <2> QED
      BY <2>1, Keys DEF Letter, Stepping, TrainTypes
  <1>3. /\ net' = [s \in Stage |-> IF s = 0 THEN net[0] ELSE Append(net[s], f(s))]
        /\ 0 \in Stage
    BY Keys DEF TellAll
  <1> HIDE DEF f
  <1>4. ASSUME NEW s \in Stage
        PROVE  /\ net'[s] \in Seq(Letter)
               /\ InNet(s)' = InNet(s)
               /\ Once(net[s], Stepping) => Once(net'[s], Stepping)
               /\ \A m \in Range(net'[s]) : m.call.stage = s
    <2>1. CASE s = 0
      BY <1>1, <1>3, <2>1 DEF InNet, Addressed
    <2>2. CASE s # 0
      <3>1. net'[s] = Append(net[s], f(s))
        BY <1>3, <2>2
      <3>2. /\ Append(net[s], f(s)) \in Seq(Letter)
            /\ Range(Append(net[s], f(s))) = Range(net[s]) \union {f(s)}
            /\ \A S : Once(net[s], S) /\ (f(s) \in S => Range(net[s]) \intersect S = {}) => Once(Append(net[s], f(s)), S)
        BY <1>1, <1>2, QueueGrows
      <3>3. Once(net[s], Stepping) => Once(Append(net[s], f(s)), Stepping)
        BY <1>2, <3>2
      <3>4. \A m \in Range(net[s]) : m.call.stage = s
        BY DEF Addressed
      <3> QED
        BY <1>2, <3>1, <3>2, <3>3, <3>4 DEF InNet
    <2> QED
      BY <2>1, <2>2
  <1> QED
    BY <1>3, <1>4

LEMMA TrainFacts ==
    ASSUME TrainInv
    PROVE  /\ TrainTypes /\ AtOK /\ Addressed /\ \A s \in Stage \ again : StageOK(s)
           /\ \A s \in Stage : net[s] \in Seq(Letter)
  BY DEF TrainInv, TrainTypes

LEMMA ExamplesKeeps == ASSUME TrainInv, Examples PROVE TrainInv'
  <1>1. /\ TrainTypes /\ AtOK /\ Addressed /\ \A s \in Stage \ again : StageOK(s)
    BY TrainFacts
  <1>2. /\ trainer = "reading" /\ trainer' \in {"calling", "failed"} /\ at' = at /\ step_no' = step_no /\ tries' = tries
        /\ (net' = net \/ net' = TellAll)
        /\ UNCHANGED <<applied, graphs, grad, piece, replies, astray, again>>
    BY DEF Examples, Returns, weights
  <1>3. /\ net' \in [Stage -> Seq(Letter)]
        /\ \A s \in Stage : /\ InNet(s)' = InNet(s)
                            /\ Once(net[s], Stepping) => Once(net'[s], Stepping)
                            /\ \A m \in Range(net'[s]) : m.call.stage = s
    <2>1. CASE net' = net
      BY <1>1, <2>1 DEF TrainTypes, Addressed, InNet
    <2>2. CASE net' = TellAll
      BY <1>1, <2>2, Told
    <2> QED
      BY <1>2, <2>1, <2>2
  <1>4. TrainTypes' /\ AtOK' /\ Addressed'
    BY <1>1, <1>2, <1>3 DEF TrainTypes, AtOK, Addressed
  <1>5. ASSUME NEW s \in Stage \ again' PROVE StageOK(s)'
    <2>1. s \in Stage /\ StageOK(s)
      BY <1>1, <1>2, <1>5
    <2>2. InNet(s)' = InNet(s) /\ Strays(s)' = Strays(s) /\ Answers(s)' = Answers(s)
      BY <1>2, <1>3, <2>1 DEF Strays, Answers
    <2>3. /\ ToCome(s)' \subseteq ToCome(s) /\ Answers(s)' \subseteq Answers(s)
          /\ Once(net'[s], Stepping) /\ Once(replies', From(s))
          /\ Strays(s)' # {} => InNet(s)' = {}
      BY <1>2, <1>3, <2>1, <2>2 DEF StageOK, ToCome
    <2> QED
      BY <1>2, <2>1, <2>3, StageGoesOn
  <1> QED
    BY <1>4, <1>5 DEF TrainInv

(* The head gives up, or is done: all that changes is that the end is told.   *)
LEMMA ReturnsKeeps ==
    ASSUME TrainInv, NEW o \in {"failed", "done"}, Returns(o),
           o = "done" => trainer = "writing",
           trainer \in {"writing", "done"} => o = "done",
           UNCHANGED <<applied, graphs, grad, piece, astray, again>>,
           replies' = replies \/ (replies # <<>> /\ replies' = Tail(replies))
    PROVE  TrainInv'
  <1>1. /\ TrainTypes /\ AtOK /\ Addressed /\ \A s \in Stage \ again : StageOK(s)
    BY TrainFacts
  <1>2. trainer' = o /\ at' = at /\ step_no' = step_no /\ tries' = tries /\ net' = TellAll
    BY DEF Returns
  <1>3. /\ net' \in [Stage -> Seq(Letter)]
        /\ \A s \in Stage : /\ InNet(s)' = InNet(s)
                            /\ Once(net[s], Stepping) => Once(net'[s], Stepping)
                            /\ \A m \in Range(net'[s]) : m.call.stage = s
    BY <1>1, <1>2, Told
  <1>4. /\ replies' \in Seq(Reply) /\ Range(replies') \subseteq Range(replies)
        /\ \A S : Once(replies, S) => Once(replies', S)
    <2>1. replies \in Seq(Reply)
      BY <1>1 DEF TrainTypes
    <2>2. CASE replies' = replies
      BY <2>1, <2>2
    <2>3. CASE replies # <<>> /\ replies' = Tail(replies)
      <3>1. /\ Tail(replies) \in Seq(Reply) /\ Range(replies) = Range(Tail(replies)) \union {Head(replies)}
            /\ \A S : Once(replies, S) => Once(Tail(replies), S)
        BY <2>1, <2>3, QueueShrinks
      <3> QED
        BY <2>3, <3>1
    <2> QED
      BY <2>2, <2>3
  <1>5. TrainTypes' /\ AtOK' /\ Addressed'
    BY <1>1, <1>2, <1>3, <1>4 DEF TrainTypes, AtOK, Addressed
  <1>6. ASSUME NEW s \in Stage \ again' PROVE StageOK(s)'
    <2>1. s \in Stage /\ StageOK(s)
      BY <1>1, <1>6
    <2>2. InNet(s)' = InNet(s) /\ Strays(s)' = Strays(s) /\ Answers(s)' \subseteq Answers(s)
      BY <1>3, <1>4, <2>1 DEF Strays, Answers
    <2>3. /\ ToCome(s)' \subseteq ToCome(s)
          /\ Once(net'[s], Stepping) /\ Once(replies', From(s))
          /\ Strays(s)' # {} => InNet(s)' = {}
      BY <1>3, <1>4, <2>1, <2>2 DEF StageOK, ToCome
    <2> QED
      BY <1>2, <2>1, <2>2, <2>3, StageGoesOn
  <1> QED
    BY <1>5, <1>6 DEF TrainInv

(* The head goes on after an answer, or after a call of its own.              *)
LEMMA GoesOnKeeps ==
    ASSUME TrainInv, GoesOn, trainer \in {"calling", "awaiting"}, UNCHANGED <<net, astray, again>>,
           graphs' \in [Stage -> SUBSET Key], grad' \in [Stage -> Gradient], applied' \in [Stage -> Seq(Gradient)],
           \A s \in Stage : s # at.stage => applied'[s] = applied[s] /\ graphs'[s] = graphs[s] /\ grad'[s] = grad[s],
           \A s \in Stage \ again : s = at.stage =>
              /\ Holds(at, step_no, s, TRUE, applied'[s], graphs'[s], grad'[s])
              /\ ToCome(s) = {} /\ Answers(s)' = {}
              /\ at.op = "collect" => piece'[s] = applied'[s],
           piece' \in [Stage -> Seq(Gradient)],
           \A s \in Stage : s # at.stage => piece'[s] = piece[s],
           replies' = replies \/ (replies # <<>> /\ replies' = Tail(replies))
    PROVE  TrainInv'
  <1>1. /\ TrainTypes /\ AtOK /\ Addressed /\ \A s \in Stage \ again : StageOK(s)
    BY TrainFacts
  <1>2. /\ at' \in Calls /\ step_no' \in 0 .. Steps /\ tries' \in 1 .. MaxPings
        /\ trainer' \in {"calling", "writing"} /\ AtOK'
    BY <1>1, OnwardAt
  <1>3. /\ replies' \in Seq(Reply) /\ Range(replies') \subseteq Range(replies)
        /\ \A S : Once(replies, S) => Once(replies', S)
    <2>1. replies \in Seq(Reply)
      BY <1>1 DEF TrainTypes
    <2>2. CASE replies' = replies
      BY <2>1, <2>2
    <2>3. CASE replies # <<>> /\ replies' = Tail(replies)
      <3>1. /\ Tail(replies) \in Seq(Reply) /\ Range(replies) = Range(Tail(replies)) \union {Head(replies)}
            /\ \A S : Once(replies, S) => Once(Tail(replies), S)
        BY <2>1, <2>3, QueueShrinks
      <3> QED
        BY <2>3, <3>1
    <2> QED
      BY <2>2, <2>3
  <1>4. TrainTypes' /\ Addressed'
    BY <1>1, <1>2, <1>3 DEF TrainTypes, Addressed
  <1>5. ASSUME NEW s \in Stage \ again' PROVE StageOK(s)'
    <2>1. s \in Stage /\ s \in Stage \ again /\ StageOK(s)
      BY <1>1, <1>5
    <2>2. /\ ToCome(s)' = ToCome(s) /\ Answers(s)' \subseteq Answers(s)
          /\ Once(net'[s], Stepping) /\ Once(replies', From(s))
      BY <1>3, <2>1 DEF StageOK, ToCome, InNet, Strays, Answers
    <2>3. at.op = "collect" /\ s < at.stage => piece'[s] = Gotten(Steps)
      <3>1. at.op = "collect" /\ s < at.stage => s # at.stage /\ piece[s] = Gotten(Steps)
        BY <1>1, <2>1, AtFields, Keys DEF StageOK
      <3> QED
        BY <2>1, <3>1
    <2>4. /\ Holds(at, step_no, s, Passed(at, s) \/ s = at.stage, applied'[s], graphs'[s], grad'[s])
          /\ ToCome(s)' = {} /\ Answers(s)' = {}
          /\ at.op = "collect" /\ s = at.stage => piece'[s] = applied'[s]
      <3>1. CASE s = at.stage
        <4>1. /\ Holds(at, step_no, s, TRUE, applied'[s], graphs'[s], grad'[s])
              /\ ToCome(s) = {} /\ Answers(s)' = {}
              /\ at.op = "collect" => piece'[s] = applied'[s]
          BY <2>1, <3>1
        <4>2. Passed(at, s) \/ s = at.stage
          BY <3>1
        <4>3. Holds(at, step_no, s, Passed(at, s) \/ s = at.stage, applied'[s], graphs'[s], grad'[s])
          BY <4>1, <4>2 DEF Holds
        <4> QED
          BY <2>2, <4>1, <4>3
      <3>2. CASE s # at.stage
        <4>1. ToCome(s) = {} /\ Answers(s) = {} /\ ShouldHold(s, Passed(at, s))
          BY <1>1, <2>1, <3>2, Quiet DEF StageOK
        <4>2. Holds(at, step_no, s, Passed(at, s), applied'[s], graphs'[s], grad'[s])
          BY <2>1, <3>2, <4>1 DEF ShouldHold
        <4>3. Holds(at, step_no, s, Passed(at, s) \/ s = at.stage, applied'[s], graphs'[s], grad'[s])
          BY <3>2, <4>2 DEF Holds
        <4> QED
          BY <2>2, <3>2, <4>1, <4>3
      <3> QED
        BY <3>1, <3>2
    <2> QED
      BY <1>1, <2>1, <2>2, <2>3, <2>4, StageSettles
  <1> QED
    BY <1>2, <1>4, <1>5 DEF TrainInv

LEMMA CallOwnKeeps == ASSUME TrainInv, CallOwn PROVE TrainInv'
  <1>1. /\ TrainTypes /\ AtOK /\ Addressed /\ \A s \in Stage \ again : StageOK(s)
        /\ 0 \in Stage
    BY TrainFacts, Keys
  <1>2. /\ trainer = "calling" /\ at.stage = 0 /\ Does(0, Message)
        /\ piece' = IF at.op = "collect" THEN [piece EXCEPT ![0] = applied[0]] ELSE piece
        /\ UNCHANGED <<replies, astray, again>>
    BY DEF CallOwn
  <1>3. Message \in Letter /\ Message.call = at /\ at.op \in {"ping", "forward", "backward", "norm", "step", "collect"}
    BY <1>1, MessageIsLetter, AtFields
  <1>4. PICK a \in Seq(Gradient), g \in SUBSET Key, r \in Gradient :
              /\ applied' = [applied EXCEPT ![0] = a]
              /\ graphs' = [graphs EXCEPT ![0] = g]
              /\ grad' = [grad EXCEPT ![0] = r]
              /\ Refuses(0, Message) \/ Message.call.op \in {"ping", "finish", "norm", "collect"}
                    => a = applied[0] /\ g = graphs[0] /\ r = grad[0]
              /\ Message = Message /\ 0 = at.stage /\ ~Refuses(0, Message) /\ ShouldHold(0, FALSE)
                    => Holds(at, step_no, 0, TRUE, a, g, r)
    <2> HIDE DEF Message
    <2> QED
      BY <1>1, <1>2, <1>3, Effect
  <1>5. /\ graphs \in [Stage -> SUBSET Key] /\ grad \in [Stage -> Gradient] /\ applied \in [Stage -> Seq(Gradient)]
        /\ piece \in [Stage -> Seq(Gradient)]
    BY <1>1 DEF TrainTypes
  <1>6. CASE Refuses(0, Message)
    <2>1. Returns("failed")
      BY <1>6 DEF CallOwn
    <2>2. UNCHANGED <<applied, graphs, grad>>
      BY <1>4, <1>5, <1>6
    <2>3. piece' = piece
      BY <1>2, <1>3, <1>6 DEF Refuses
    <2> QED
      BY <1>2, <2>1, <2>2, <2>3, ReturnsKeeps
  <1>7. CASE ~Refuses(0, Message)
    <2>1. GoesOn /\ net' = net
      BY <1>7 DEF CallOwn
    <2>2. /\ graphs' \in [Stage -> SUBSET Key] /\ grad' \in [Stage -> Gradient] /\ applied' \in [Stage -> Seq(Gradient)]
          /\ applied'[0] = a /\ graphs'[0] = g /\ grad'[0] = r
          /\ \A s \in Stage : s # 0 => applied'[s] = applied[s] /\ graphs'[s] = graphs[s] /\ grad'[s] = grad[s]
      BY <1>1, <1>4, <1>5
    <2>3. /\ piece' \in [Stage -> Seq(Gradient)]
          /\ \A s \in Stage : s # 0 => piece'[s] = piece[s]
          /\ at.op = "collect" => piece'[0] = applied[0]
      BY <1>1, <1>2, <1>5
    <2>4. ASSUME 0 \in Stage \ again
          PROVE  /\ Holds(at, step_no, 0, TRUE, applied'[0], graphs'[0], grad'[0])
                 /\ ToCome(0) = {} /\ Answers(0)' = {}
                 /\ at.op = "collect" => piece'[0] = applied'[0]
      <3>1. StageOK(0)
        BY <1>1, <2>4
      <3>2. ShouldHold(0, FALSE)
        BY <1>2, <3>1 DEF StageOK
      <3>3. ToCome(0) = {} /\ Answers(0) = {}
        BY <1>1, <1>2, <3>1, Quiet
      <3>4. at.op = "collect" => a = applied[0]
        BY <1>3, <1>4
      <3> QED
        BY <1>2, <1>4, <1>7, <2>2, <2>3, <3>2, <3>3, <3>4 DEF Answers
    <2> QED
      BY <1>2, <2>1, <2>2, <2>3, <2>4, GoesOnKeeps
  <1> QED
    BY <1>6, <1>7

LEMMA CallOtherKeeps == ASSUME TrainInv, CallOther PROVE TrainInv'
  <1>1. /\ TrainTypes /\ AtOK /\ Addressed /\ \A s \in Stage \ again : StageOK(s)
        /\ net \in [Stage -> Seq(Letter)] /\ at.stage \in Stage
    BY TrainFacts, AtFields, Keys DEF TrainTypes
  <1> DEFINE t == at.stage
             q == Append(net[t], Message)
  <1>2. /\ trainer = "calling" /\ trainer' = "awaiting" /\ at' = at /\ step_no' = step_no /\ tries' = tries
        /\ net' = [net EXCEPT ![t] = q]
        /\ UNCHANGED <<applied, graphs, grad, piece, replies, astray, again>>
    BY DEF CallOther, weights
  <1>3. Message \in Letter /\ Message.call = at /\ (Message \in Stepping <=> at.op # "ping") /\ Message' = Message
    BY <1>1, <1>2, MessageIsLetter DEF Message
  <1>4. /\ q \in Seq(Letter) /\ Range(q) = Range(net[t]) \union {Message}
        /\ \A S : Once(net[t], S) /\ (Message \in S => Range(net[t]) \intersect S = {}) => Once(q, S)
    BY <1>1, <1>3, QueueGrows
  <1>5. /\ net' \in [Stage -> Seq(Letter)] /\ net'[t] = q
        /\ \A s \in Stage : s # t => net'[s] = net[s]
    BY <1>1, <1>2, <1>4
  <1> HIDE DEF q
  <1>6. TrainTypes' /\ AtOK'
    BY <1>1, <1>2, <1>5 DEF TrainTypes, AtOK
  <1>7. Addressed'
    <2>1. \A m \in Range(net'[t]) : m.call.stage = t
      BY <1>1, <1>3, <1>4, <1>5 DEF Addressed
    <2>2. \A s \in Stage : \A m \in Range(net'[s]) : m.call.stage = s
      BY <1>1, <1>5, <2>1 DEF Addressed
    <2> QED
      BY <1>1, <1>2, <2>2 DEF Addressed
  <1>8. ASSUME NEW s \in Stage \ again' PROVE StageOK(s)'
    <2>1. s \in Stage /\ StageOK(s)
      BY <1>1, <1>2, <1>8
    <2>2. ToCome(s) = {} /\ Answers(s) = {} /\ InNet(s) = {} /\ Strays(s) = {}
      BY <1>1, <1>2, <2>1, Quiet DEF ToCome
    <2>3. Strays(s)' = {} /\ Answers(s)' = {} /\ Once(replies', From(s)) /\ Once(net[s], Stepping)
      BY <1>2, <2>1, <2>2 DEF Strays, Answers, StageOK
    <2>4. CASE s = t
      <3>1. InNet(s)' = InNet(s) \union ({Message} \intersect Stepping) /\ Once(net'[s], Stepping)
        BY <1>4, <1>5, <2>1, <2>2, <2>3, <2>4 DEF InNet
      <3>2. ShouldHold(s, FALSE)'
        <4>1. ShouldHold(s, FALSE)
          BY <1>2, <2>1, <2>4 DEF StageOK
        <4> QED
          BY <1>2, <4>1 DEF ShouldHold
      <3>3. at'.op = "collect" /\ (s < at'.stage \/ trainer' \in {"writing", "done"}) => piece'[s] = Gotten(Steps)
        BY <1>2, <2>1 DEF StageOK
      <3>4. ToCome(s)' \subseteq {Message'}
        BY <1>3, <2>2, <2>3, <3>1 DEF ToCome
      <3> QED
        BY <1>2, <2>3, <2>4, <3>1, <3>2, <3>3, <3>4 DEF StageOK
    <2>5. CASE s # t
      <3>1. InNet(s)' = {} /\ ToCome(s)' = {} /\ Once(net'[s], Stepping)
        BY <1>5, <2>1, <2>2, <2>3, <2>5 DEF InNet, ToCome
      <3> QED
        BY <1>2, <2>1, <2>3, <3>1, StageGoesOn
    <2> QED
      BY <2>4, <2>5
  <1> QED
    BY <1>6, <1>7, <1>8 DEF TrainInv

(* A step that changes nothing of the training but what is under way.         *)
LEMMA OnlyQueuesKeep ==
    ASSUME TrainInv, UNCHANGED <<trainer, at, step_no, tries, applied, graphs, grad, piece>>,
           net' \in [Stage -> Seq(Letter)], replies' \in Seq(Reply), astray' \subseteq Stage \X Letter,
           again' \subseteq Stage, again \subseteq again', Addressed',
           \A s \in Stage \ again' : ToCome(s)' \subseteq ToCome(s) /\ Answers(s)' \subseteq Answers(s),
           \A s \in Stage \ again' : /\ StageOK(s) => Once(net'[s], Stepping) /\ Once(replies', From(s))
                                     /\ StageOK(s) /\ Strays(s)' # {} => InNet(s)' = {}
    PROVE  TrainInv'
  <1>1. TrainTypes /\ AtOK /\ \A s \in Stage \ again : StageOK(s)
    BY TrainFacts
  <1>2. TrainTypes' /\ AtOK'
    BY <1>1 DEF TrainTypes, AtOK
  <1>3. ASSUME NEW s \in Stage \ again' PROVE StageOK(s)'
    <2>1. s \in Stage /\ StageOK(s)
      BY <1>1, <1>3
    <2>2. /\ ToCome(s)' \subseteq ToCome(s) /\ Answers(s)' \subseteq Answers(s)
          /\ Once(net'[s], Stepping) /\ Once(replies', From(s))
          /\ Strays(s)' # {} => InNet(s)' = {}
      BY <1>3, <2>1
    <2> QED
      BY <2>1, <2>2, StageGoesOn
  <1> QED
    BY <1>2, <1>3 DEF TrainInv

LEMMA AnsweredKeeps == ASSUME TrainInv, Answered PROVE TrainInv'
  <1>1. /\ TrainTypes /\ AtOK /\ Addressed /\ \A s \in Stage \ again : StageOK(s)
        /\ replies \in Seq(Reply) /\ piece \in [Stage -> Seq(Gradient)] /\ at.stage \in Stage
    BY TrainFacts, AtFields, Keys DEF TrainTypes
  <1> DEFINE r == Head(replies)
  <1>2. /\ replies # <<>> /\ replies' = Tail(replies)
        /\ UNCHANGED <<applied, graphs, grad, astray, again>>
    BY DEF Answered, weights
  <1>3. /\ r \in Reply /\ r \in Range(replies) /\ replies' \in Seq(Reply)
        /\ Range(replies') \subseteq Range(replies)
        /\ \A S : Once(replies, S) => Once(replies', S) /\ (r \in S => Range(replies') \intersect S = {})
    BY <1>1, <1>2, QueueShrinks
  <1>4. CASE ~Wanted(r)
    <2>1. UNCHANGED <<trainer, at, step_no, tries, net, piece>>
      BY <1>4 DEF Answered
    <2>2. ASSUME NEW s \in Stage \ again'
          PROVE  /\ ToCome(s)' \subseteq ToCome(s) /\ Answers(s)' \subseteq Answers(s)
                 /\ StageOK(s) => Once(net'[s], Stepping) /\ Once(replies', From(s))
                 /\ StageOK(s) /\ Strays(s)' # {} => InNet(s)' = {}
      BY <1>2, <1>3, <2>1 DEF ToCome, InNet, Strays, Answers, StageOK
    <2> HIDE DEF r
    <2>3. /\ net' \in [Stage -> Seq(Letter)] /\ astray' \subseteq Stage \X Letter /\ again' \subseteq Stage
          /\ again \subseteq again' /\ Addressed'
      BY <1>1, <1>2, <2>1 DEF TrainTypes, Addressed
    <2> QED
      BY <1>2, <1>3, <2>1, <2>2, <2>3, OnlyQueuesKeep
  <1>5. CASE Wanted(r) /\ r.error
    <2>1. Returns("failed") /\ piece' = piece /\ trainer = "awaiting"
      BY <1>5 DEF Answered, Wanted
    <2> QED
      BY <1>2, <2>1, ReturnsKeeps
  <1>6. CASE Wanted(r) /\ ~r.error
    <2>1. /\ GoesOn /\ net' = net /\ trainer = "awaiting" /\ r.of = Message
          /\ piece' = IF at.op = "collect" THEN [piece EXCEPT ![at.stage] = r.gives] ELSE piece
      BY <1>6 DEF Answered, Wanted
    <2>2. r.gives \in Seq(Gradient)
      BY <1>3 DEF Reply
    <2>3. /\ piece' \in [Stage -> Seq(Gradient)] /\ (at.op = "collect" => piece'[at.stage] = r.gives)
          /\ \A s \in Stage : s # at.stage => piece'[s] = piece[s]
      BY <1>1, <2>1, <2>2
    <2>4. ASSUME NEW s \in Stage \ again, s = at.stage
          PROVE  /\ Holds(at, step_no, s, TRUE, applied'[s], graphs'[s], grad'[s])
                 /\ ToCome(s) = {} /\ Answers(s)' = {}
                 /\ at.op = "collect" => piece'[s] = applied'[s]
      <3>1. StageOK(s)
        BY <1>1, <2>4
      <3>2. CASE at.op = "ping"
        <4>1. ToCome(s) = {} /\ Answers(s) = {}
          BY <1>1, <3>1, <3>2, Quiet
        <4>2. ShouldHold(s, TRUE) \/ ShouldHold(s, FALSE)
          BY <2>4, <3>1 DEF StageOK
        <4>3. Holds(at, step_no, s, TRUE, applied'[s], graphs'[s], grad'[s])
          BY <1>2, <3>2, <4>2 DEF ShouldHold, Holds
        <4> QED
          BY <1>3, <3>2, <4>1, <4>3 DEF Answers
      <3>3. CASE at.op # "ping"
        <4>1. r.of \in Stepping /\ r.of.call.stage = s
          BY <1>1, <2>1, <2>4, <3>3, MessageIsLetter
        <4>2. r \in From(s) /\ r \in Answers(s)
          BY <1>3, <4>1 DEF From, Answers
        <4> HIDE DEF r
        <4>3. ToCome(s) = {} /\ ShouldHold(s, TRUE) /\ (at.op = "collect" => r.gives = applied[s]) /\ Once(replies, From(s))
          BY <1>6, <3>1, <4>2 DEF StageOK
        <4>4. Answers(s)' = {}
          BY <1>3, <4>2, <4>3 DEF Answers
        <4>5. Holds(at, step_no, s, TRUE, applied'[s], graphs'[s], grad'[s])
          BY <1>2, <4>3 DEF ShouldHold
        <4>6. at.op = "collect" => piece'[s] = applied'[s]
          BY <1>2, <2>3, <2>4, <4>3
        <4> QED
          BY <4>3, <4>4, <4>5, <4>6
      <3> QED
        BY <3>2, <3>3
    <2>5. graphs' \in [Stage -> SUBSET Key] /\ grad' \in [Stage -> Gradient] /\ applied' \in [Stage -> Seq(Gradient)]
      BY <1>1, <1>2 DEF TrainTypes
    <2> HIDE DEF r
    <2> QED
      BY <1>2, <2>1, <2>3, <2>4, <2>5, GoesOnKeeps
  <1> QED
    BY <1>4, <1>5, <1>6

LEMMA TimeOutCallKeeps == ASSUME TrainInv, TimeOutCall PROVE TrainInv'
  <1>1. /\ TrainTypes /\ AtOK /\ Addressed /\ \A s \in Stage \ again : StageOK(s)
    BY TrainFacts
  <1>2. /\ trainer = "awaiting" /\ UNCHANGED <<applied, graphs, grad, piece, replies, astray, again>>
    BY DEF TimeOutCall, weights
  <1>3. CASE at.op = "ping" /\ Patient
    <2>1. /\ trainer' = "calling" /\ UNCHANGED <<at, step_no, net>>
          /\ tries' = IF tries < MaxPings THEN tries + 1 ELSE tries
      BY <1>3 DEF TimeOutCall
    <2>2. tries' \in 1 .. MaxPings
      BY <1>1, <2>1, Keys DEF TrainTypes
    <2>3. TrainTypes' /\ AtOK' /\ Addressed'
      BY <1>1, <1>2, <2>1, <2>2 DEF TrainTypes, AtOK, Addressed
    <2>4. ASSUME NEW s \in Stage \ again' PROVE StageOK(s)'
      <3>1. s \in Stage /\ StageOK(s)
        BY <1>1, <1>2, <2>4
      <3>2. ToCome(s) = {} /\ Answers(s) = {}
        BY <1>1, <1>3, <3>1, Quiet
      <3>3. /\ ToCome(s)' = {} /\ Answers(s)' = {} /\ InNet(s)' = {} /\ Strays(s)' = {}
            /\ Once(net'[s], Stepping) /\ Once(replies', From(s))
        BY <1>2, <2>1, <3>1, <3>2 DEF ToCome, InNet, Strays, Answers, StageOK
      <3>4. ASSUME s = at.stage PROVE ShouldHold(s, FALSE)'
        <4>1. ShouldHold(s, TRUE) \/ ShouldHold(s, FALSE)
          BY <3>1, <3>4 DEF StageOK
        <4> QED
          BY <1>2, <1>3, <2>1, <4>1 DEF ShouldHold, Holds
      <3>5. ASSUME s # at.stage PROVE ShouldHold(s, Passed(at, s))'
        <4>1. ShouldHold(s, Passed(at, s)) /\ Passed(at, s)' = Passed(at, s)
          BY <2>1, <3>1, <3>5 DEF StageOK, Passed
        <4> QED
          BY <1>2, <2>1, <4>1 DEF ShouldHold
      <3> QED
        BY <1>3, <2>1, <3>3, <3>4, <3>5 DEF StageOK
    <2> QED
      BY <2>3, <2>4 DEF TrainInv
  <1>4. CASE ~(at.op = "ping" /\ Patient)
    <2>1. Returns("failed")
      BY <1>4 DEF TimeOutCall
    <2> QED
      BY <1>2, <2>1, ReturnsKeeps
  <1> QED
    BY <1>3, <1>4

LEMMA WriteAdapterKeeps == ASSUME TrainInv, WriteAdapter PROVE TrainInv'
  BY ReturnsKeeps DEF WriteAdapter, weights

LEMMA ProcessKeeps ==
    ASSUME TrainInv, UNCHANGED <<trainer, at, step_no, tries, weights, piece, net, replies, astray, again>>
    PROVE  TrainInv'
  <1>1. TrainTypes /\ Addressed
    BY TrainFacts
  <1>2. /\ UNCHANGED <<trainer, at, step_no, tries, applied, graphs, grad, piece, net, replies, astray, again>>
    BY DEF weights
  <1>3. /\ net' \in [Stage -> Seq(Letter)] /\ replies' \in Seq(Reply) /\ astray' \subseteq Stage \X Letter
        /\ again' \subseteq Stage /\ again \subseteq again' /\ Addressed'
    BY <1>1, <1>2 DEF TrainTypes, Addressed
  <1>4. ASSUME NEW s \in Stage \ again'
        PROVE  /\ ToCome(s)' \subseteq ToCome(s) /\ Answers(s)' \subseteq Answers(s)
               /\ StageOK(s) => Once(net'[s], Stepping) /\ Once(replies', From(s))
               /\ StageOK(s) /\ Strays(s)' # {} => InNet(s)' = {}
    BY <1>2 DEF ToCome, InNet, Strays, Answers, StageOK
  <1> QED
    BY <1>2, <1>3, <1>4, OnlyQueuesKeep

LEMMA LoseReplyKeeps == ASSUME TrainInv, LoseReply PROVE TrainInv'
  <1>1. TrainTypes /\ Addressed /\ replies \in Seq(Reply)
    BY TrainFacts DEF TrainTypes
  <1>2. /\ replies # <<>> /\ replies' = Tail(replies)
        /\ UNCHANGED <<trainer, at, step_no, tries, applied, graphs, grad, piece, net, astray, again>>
    BY DEF LoseReply, weights
  <1>3. /\ replies' \in Seq(Reply) /\ Range(replies') \subseteq Range(replies)
        /\ \A S : Once(replies, S) => Once(replies', S)
    BY <1>1, <1>2, QueueShrinks
  <1>4. /\ net' \in [Stage -> Seq(Letter)] /\ astray' \subseteq Stage \X Letter
        /\ again' \subseteq Stage /\ again \subseteq again' /\ Addressed'
    BY <1>1, <1>2 DEF TrainTypes, Addressed
  <1>5. ASSUME NEW s \in Stage \ again'
        PROVE  /\ ToCome(s)' \subseteq ToCome(s) /\ Answers(s)' \subseteq Answers(s)
               /\ StageOK(s) => Once(net'[s], Stepping) /\ Once(replies', From(s))
               /\ StageOK(s) /\ Strays(s)' # {} => InNet(s)' = {}
    BY <1>2, <1>3 DEF ToCome, InNet, Strays, Answers, StageOK
  <1> QED
    BY <1>2, <1>3, <1>4, <1>5, OnlyQueuesKeep

(* The head of a queue goes.                                                  *)
LEMMA MessageTaken ==
    ASSUME TrainTypes, Addressed, NEW t \in Stage, net[t] # <<>>, net' = [net EXCEPT ![t] = Tail(@)]
    PROVE  /\ net' \in [Stage -> Seq(Letter)]
           /\ Head(net[t]) \in Letter /\ Head(net[t]) \in Range(net[t]) /\ Head(net[t]).call.stage = t
           /\ \A s \in Stage : \A m \in Range(net'[s]) : m.call.stage = s
           /\ \A s \in Stage : /\ InNet(s)' \subseteq InNet(s)
                               /\ Once(net[s], Stepping) => Once(net'[s], Stepping)
                               /\ s # t => net'[s] = net[s]
           /\ Head(net[t]) \in Stepping => /\ Head(net[t]) \in InNet(t)
                                           /\ Once(net[t], Stepping) => InNet(t)' = {}
  <1> DEFINE h == Head(net[t])
             q == Tail(net[t])
  <1>1. net \in [Stage -> Seq(Letter)] /\ net[t] \in Seq(Letter)
    BY DEF TrainTypes
  <1>2. /\ q \in Seq(Letter) /\ h \in Letter /\ h \in Range(net[t])
        /\ Range(net[t]) = Range(q) \union {h}
        /\ \A S : Once(net[t], S) => Once(q, S) /\ (h \in S => Range(q) \intersect S = {})
    BY <1>1, QueueShrinks
  <1>3. net' = [net EXCEPT ![t] = q]
    OBVIOUS
  <1> HIDE DEF h, q
  <1>4. /\ net' \in [Stage -> Seq(Letter)] /\ net'[t] = q /\ \A s \in Stage : s # t => net'[s] = net[s]
    BY <1>1, <1>2, <1>3
  <1>5. ASSUME NEW s \in Stage
        PROVE  /\ Range(net'[s]) \subseteq Range(net[s])
               /\ Once(net[s], Stepping) => Once(net'[s], Stepping)
    BY <1>2, <1>4
  <1>6. h.call.stage = t /\ \A s \in Stage : \A m \in Range(net'[s]) : m.call.stage = s
    BY <1>2, <1>5 DEF Addressed
  <1>7. h \in Stepping => h \in InNet(t) /\ (Once(net[t], Stepping) => InNet(t)' = {})
    BY <1>2, <1>4 DEF InNet
  <1>8. \A s \in Stage : InNet(s)' \subseteq InNet(s)
    BY <1>5 DEF InNet
  <1> QED
    BY <1>2, <1>4, <1>5, <1>6, <1>7, <1>8 DEF h

LEMMA LoseMessageKeeps == ASSUME TrainInv, NEW t \in Stage, LoseMessage(t) PROVE TrainInv'
  <1>1. TrainTypes /\ Addressed
    BY TrainFacts
  <1>2. /\ net[t] # <<>> /\ net' = [net EXCEPT ![t] = Tail(@)]
        /\ UNCHANGED <<trainer, at, step_no, tries, applied, graphs, grad, piece, replies, astray, again>>
    BY DEF LoseMessage, weights
  <1>3. /\ net' \in [Stage -> Seq(Letter)]
        /\ \A s \in Stage : \A m \in Range(net'[s]) : m.call.stage = s
        /\ \A s \in Stage : /\ InNet(s)' \subseteq InNet(s)
                            /\ Once(net[s], Stepping) => Once(net'[s], Stepping)
    BY <1>1, <1>2, MessageTaken
  <1>4. /\ replies' \in Seq(Reply) /\ astray' \subseteq Stage \X Letter
        /\ again' \subseteq Stage /\ again \subseteq again' /\ Addressed'
    BY <1>1, <1>2, <1>3 DEF TrainTypes, Addressed
  <1>5. ASSUME NEW s \in Stage \ again'
        PROVE  /\ ToCome(s)' \subseteq ToCome(s) /\ Answers(s)' \subseteq Answers(s)
               /\ StageOK(s) => Once(net'[s], Stepping) /\ Once(replies', From(s))
               /\ StageOK(s) /\ Strays(s)' # {} => InNet(s)' = {}
    <2>1. Strays(s)' = Strays(s) /\ Answers(s)' = Answers(s)
      BY <1>2 DEF Strays, Answers
    <2> QED
      BY <1>2, <1>3, <2>1 DEF ToCome, StageOK
  <1> QED
    BY <1>2, <1>3, <1>4, <1>5, OnlyQueuesKeep

LEMMA StrayKeeps == ASSUME TrainInv, NEW t \in Stage, Stray(t) PROVE TrainInv'
  <1>1. TrainTypes /\ Addressed /\ net[t] \in Seq(Letter)
    BY TrainFacts
  <1> DEFINE m == Head(net[t])
  <1>2. /\ net[t] # <<>> /\ astray' = astray \union {<<t, m>>}
        /\ UNCHANGED <<trainer, at, step_no, tries, applied, graphs, grad, piece, replies>>
        /\ \/ again' = again \union {t} /\ net' = net
           \/ net' = [net EXCEPT ![t] = Tail(@)] /\ again' = again
    BY DEF Stray, weights
  <1>3. m \in Letter /\ m \in Range(net[t]) /\ m.call.stage = t
    BY <1>1, <1>2, QueueShrinks DEF Addressed
  <1>4. /\ net' \in [Stage -> Seq(Letter)]
        /\ \A s \in Stage : \A x \in Range(net'[s]) : x.call.stage = s
        /\ \A s \in Stage : /\ InNet(s)' \subseteq InNet(s)
                            /\ Once(net[s], Stepping) => Once(net'[s], Stepping)
        /\ net' # net /\ m \in Stepping => m \in InNet(t) /\ (Once(net[t], Stepping) => InNet(t)' = {})
    <2>1. CASE net' = net
      BY <1>1, <2>1 DEF TrainTypes, Addressed, InNet
    <2>2. CASE net' = [net EXCEPT ![t] = Tail(@)]
      BY <1>1, <1>2, <2>2, MessageTaken
    <2> QED
      BY <1>2, <2>1, <2>2
  <1>5. replies' \in Seq(Reply) /\ astray' \subseteq Stage \X Letter /\ again' \subseteq Stage /\ again \subseteq again'
    BY <1>1, <1>2, <1>3 DEF TrainTypes
  <1> HIDE DEF m
  <1>6. Addressed'
    <2>1. \A x \in astray' : x[2].call.stage = x[1]
      BY <1>1, <1>2, <1>3 DEF Addressed
    <2> QED
      BY <1>4, <2>1 DEF Addressed
  <1>7. ASSUME NEW s \in Stage \ again'
        PROVE  /\ ToCome(s)' \subseteq ToCome(s) /\ Answers(s)' \subseteq Answers(s)
               /\ StageOK(s) => Once(net'[s], Stepping) /\ Once(replies', From(s))
               /\ StageOK(s) /\ Strays(s)' # {} => InNet(s)' = {}
    <2>1. Answers(s)' = Answers(s) /\ InNet(s)' \subseteq InNet(s)
      BY <1>2, <1>4 DEF Answers
    <2>2. StageOK(s) => Once(net'[s], Stepping) /\ Once(replies', From(s))
      BY <1>2, <1>4 DEF StageOK
    <2>3. CASE s = t /\ m \in Stepping
      <3>1. net' = [net EXCEPT ![t] = Tail(@)] /\ m \in InNet(t) /\ (Once(net[t], Stepping) => InNet(t)' = {})
        <4>1. /\ net' = [net EXCEPT ![t] = Tail(@)]
          BY <1>2, <1>7, <2>3
        <4> QED
          BY <1>1, <1>2, <2>3, <4>1, MessageTaken DEF m
      <3>2. Strays(s)' \subseteq Strays(s) \union {m}
        BY <1>2, <2>3 DEF Strays
      <3>3. ToCome(s)' \subseteq ToCome(s)
        BY <2>1, <2>3, <3>1, <3>2 DEF ToCome
      <3>4. StageOK(s) => InNet(s)' = {}
        BY <2>3, <3>1 DEF StageOK
      <3> QED
        BY <2>1, <2>2, <3>3, <3>4
    <2>4. CASE ~(s = t /\ m \in Stepping)
      <3>1. Strays(s)' = Strays(s)
        <4>1. \A y \in astray' : y[1] = s /\ y[2] \in Stepping => y \in astray
          BY <1>2, <2>4
        <4>2. {y \in astray' : y[1] = s /\ y[2] \in Stepping} = {y \in astray : y[1] = s /\ y[2] \in Stepping}
          BY <1>2, <4>1
        <4> QED
          BY <4>2 DEF Strays
      <3> QED
        BY <2>1, <2>2, <3>1 DEF ToCome, StageOK
    <2> QED
      BY <2>3, <2>4
  <1> QED
    BY <1>2, <1>4, <1>5, <1>6, <1>7, OnlyQueuesKeep

LEMMA StrayArrivesKeeps == ASSUME TrainInv, NEW t \in Stage, StrayArrives(t) PROVE TrainInv'
  <1>1. TrainTypes /\ Addressed /\ net[t] \in Seq(Letter) /\ net \in [Stage -> Seq(Letter)] /\ astray \subseteq Stage \X Letter
    BY TrainFacts DEF TrainTypes
  <1>2. PICK x \in astray : x[1] = t /\ astray' = astray \ {x} /\ net' = [net EXCEPT ![t] = Append(@, x[2])]
    BY DEF StrayArrives
  <1>3. UNCHANGED <<trainer, at, step_no, tries, applied, graphs, grad, piece, replies, again>>
    BY DEF StrayArrives, weights
  <1> DEFINE m == x[2]
             q == Append(net[t], m)
  <1>4. m \in Letter /\ m.call.stage = t /\ x = <<t, m>>
    BY <1>1, <1>2 DEF Addressed
  <1>5. /\ q \in Seq(Letter) /\ Range(q) = Range(net[t]) \union {m}
        /\ \A S : Once(net[t], S) /\ (m \in S => Range(net[t]) \intersect S = {}) => Once(q, S)
    BY <1>1, <1>4, QueueGrows
  <1> HIDE DEF m
  <1>6. net' = [net EXCEPT ![t] = q]
    BY <1>2 DEF m
  <1> HIDE DEF q
  <1>7. net' \in [Stage -> Seq(Letter)] /\ net'[t] = q /\ \A s \in Stage : s # t => net'[s] = net[s]
    BY <1>1, <1>5, <1>6
  <1>8. Addressed'
    <2>1. \A s \in Stage : \A y \in Range(net'[s]) : y.call.stage = s
      BY <1>1, <1>4, <1>5, <1>7 DEF Addressed
    <2> QED
      BY <1>1, <1>2, <2>1 DEF Addressed
  <1>9. replies' \in Seq(Reply) /\ astray' \subseteq Stage \X Letter /\ again' \subseteq Stage /\ again \subseteq again'
    BY <1>1, <1>2, <1>3 DEF TrainTypes
  <1>10. ASSUME NEW s \in Stage \ again'
        PROVE  /\ ToCome(s)' \subseteq ToCome(s) /\ Answers(s)' \subseteq Answers(s)
               /\ StageOK(s) => Once(net'[s], Stepping) /\ Once(replies', From(s))
               /\ StageOK(s) /\ Strays(s)' # {} => InNet(s)' = {}
    <2>1. Answers(s)' = Answers(s) /\ Strays(s)' \subseteq Strays(s) /\ replies' = replies
      BY <1>2, <1>3 DEF Answers, Strays
    <2>2. CASE s = t /\ m \in Stepping
      <3>1. m \in Strays(s)
        <4>1. x \in {y \in astray : y[1] = s /\ y[2] \in Stepping} /\ x[2] = m
          BY <1>2, <1>4, <2>2
        <4> QED
          BY <4>1 DEF Strays
      <3>2. InNet(s)' \subseteq InNet(s) \union {m}
        BY <1>5, <1>7, <2>2 DEF InNet
      <3>3. ToCome(s)' \subseteq ToCome(s)
        BY <2>1, <3>1, <3>2 DEF ToCome
      <3>4. ASSUME StageOK(s) PROVE Once(net'[s], Stepping) /\ Strays(s)' = {}
        <4>1. InNet(s) = {} /\ Once(net[s], Stepping) /\ ToCome(s) \subseteq {Message}
          BY <3>1, <3>4 DEF StageOK
        <4>2. Strays(s) \subseteq {m}
          BY <3>1, <4>1 DEF ToCome
        <4>3. Once(net'[s], Stepping)
          BY <1>5, <1>7, <2>2, <4>1 DEF InNet
        <4>4. \A y \in astray' : y[1] = s /\ y[2] \in Stepping => FALSE
          <5> SUFFICES ASSUME NEW y \in astray', y[1] = s, y[2] \in Stepping PROVE FALSE
            OBVIOUS
          <5>1. y \in astray /\ y # x /\ y = <<y[1], y[2]>>
            BY <1>1, <1>2
          <5>2. y[2] \in Strays(s)
            BY <5>1 DEF Strays
          <5> QED
            BY <1>4, <2>2, <4>2, <5>1, <5>2
        <4> QED
          BY <4>3, <4>4 DEF Strays
      <3> QED
        BY <2>1, <3>3, <3>4 DEF StageOK
    <2>3. CASE ~(s = t /\ m \in Stepping)
      <3>1. InNet(s)' = InNet(s)
        BY <1>5, <1>7, <2>3 DEF InNet
      <3>2. Once(net[s], Stepping) => Once(net'[s], Stepping)
        BY <1>5, <1>7, <2>3
      <3> QED
        BY <2>1, <3>1, <3>2 DEF ToCome, StageOK
    <2> QED
      BY <2>2, <2>3
  <1> QED
    BY <1>3, <1>7, <1>8, <1>9, <1>10, OnlyQueuesKeep

LEMMA StageReceivesKeeps == ASSUME TrainInv, NEW t \in Stage, StageReceives(t) PROVE TrainInv'
  <1>1. /\ TrainTypes /\ AtOK /\ Addressed /\ \A s \in Stage \ again : StageOK(s)
        /\ replies \in Seq(Reply)
    BY TrainFacts DEF TrainTypes
  <1> DEFINE m == Head(net[t])
             r == [of |-> m, error |-> Refuses(t, m), gives |-> applied[t]]
  <1>2. /\ net[t] # <<>> /\ net' = [net EXCEPT ![t] = Tail(@)]
        /\ UNCHANGED <<trainer, at, step_no, tries, piece, astray, again>>
        /\ \/ UNCHANGED <<applied, graphs, grad, replies>>
           \/ m.call.op # "finish" /\ Does(t, m) /\ replies' = Append(replies, r)
    BY DEF StageReceives, weights
  <1>3. /\ net' \in [Stage -> Seq(Letter)]
        /\ m \in Letter /\ m.call.stage = t
        /\ \A s \in Stage : \A x \in Range(net'[s]) : x.call.stage = s
        /\ \A s \in Stage : /\ InNet(s)' \subseteq InNet(s)
                            /\ Once(net[s], Stepping) => Once(net'[s], Stepping)
        /\ m \in Stepping => m \in InNet(t) /\ (Once(net[t], Stepping) => InNet(t)' = {})
    BY <1>1, <1>2, MessageTaken
  <1>4. /\ astray' \subseteq Stage \X Letter /\ again' \subseteq Stage /\ again \subseteq again' /\ Addressed'
    BY <1>1, <1>2, <1>3 DEF TrainTypes, Addressed
  <1>5. \A s \in Stage : Strays(s)' = Strays(s)
    BY <1>2 DEF Strays
  <1>6. \A s \in Stage \ again : Once(net'[s], Stepping) /\ (Strays(s)' # {} => InNet(s)' = {}) /\ ToCome(s)' \subseteq ToCome(s)
    BY <1>1, <1>3, <1>5 DEF StageOK, ToCome
  <1>7. CASE UNCHANGED <<applied, graphs, grad, replies>>
    <2>1. ASSUME NEW s \in Stage \ again'
          PROVE  /\ ToCome(s)' \subseteq ToCome(s) /\ Answers(s)' \subseteq Answers(s)
                 /\ StageOK(s) => Once(net'[s], Stepping) /\ Once(replies', From(s))
                 /\ StageOK(s) /\ Strays(s)' # {} => InNet(s)' = {}
      BY <1>2, <1>6, <1>7 DEF Answers, StageOK
    <2> HIDE DEF m
    <2> QED
      BY <1>1, <1>2, <1>3, <1>4, <1>7, <2>1, OnlyQueuesKeep
  <1>8. CASE m.call.op # "finish" /\ Does(t, m) /\ replies' = Append(replies, r)
    <2> HIDE DEF m
    <2>1. PICK a \in Seq(Gradient), g \in SUBSET Key, d \in Gradient :
              /\ applied' = [applied EXCEPT ![t] = a]
              /\ graphs' = [graphs EXCEPT ![t] = g]
              /\ grad' = [grad EXCEPT ![t] = d]
              /\ Refuses(t, m) \/ m.call.op \in {"ping", "finish", "norm", "collect"}
                    => a = applied[t] /\ g = graphs[t] /\ d = grad[t]
              /\ m = Message /\ t = at.stage /\ ~Refuses(t, m) /\ ShouldHold(t, FALSE)
                    => Holds(at, step_no, t, TRUE, a, g, d)
      <3>1. TrainTypes /\ AtOK /\ m \in Letter /\ Does(t, m)
        BY <1>1, <1>3, <1>8
      <3> QED
        BY <3>1, Effect
    <2>2. /\ graphs \in [Stage -> SUBSET Key] /\ grad \in [Stage -> Gradient] /\ applied \in [Stage -> Seq(Gradient)]
      BY <1>1 DEF TrainTypes
    <2>3. /\ graphs' \in [Stage -> SUBSET Key] /\ grad' \in [Stage -> Gradient] /\ applied' \in [Stage -> Seq(Gradient)]
          /\ applied'[t] = a /\ graphs'[t] = g /\ grad'[t] = d
          /\ \A s \in Stage : s # t => applied'[s] = applied[s] /\ graphs'[s] = graphs[s] /\ grad'[s] = grad[s]
      BY <2>1, <2>2
    <2>4. r \in Reply /\ r.of = m /\ r.error = Refuses(t, m) /\ r.gives = applied[t]
      <3>1. Refuses(t, m) \in BOOLEAN
        BY DEF Refuses
      <3> QED
        BY <1>3, <2>2, <3>1 DEF Reply
    <2>5. \A s \in Stage : r \in From(s) <=> s = t /\ m \in Stepping
      BY <1>3, <2>4 DEF From
    <2> HIDE DEF r
    <2>6. /\ replies' \in Seq(Reply) /\ Range(replies') = Range(replies) \union {r}
          /\ \A S : Once(replies, S) /\ (r \in S => Range(replies) \intersect S = {}) => Once(replies', S)
      BY <1>1, <1>8, <2>4, QueueGrows
    <2>7. TrainTypes' /\ AtOK'
      BY <1>1, <1>2, <1>3, <1>4, <2>3, <2>6 DEF TrainTypes, AtOK
    <2>8. ASSUME NEW s \in Stage \ again' PROVE StageOK(s)'
      <3>1. s \in Stage /\ s \in Stage \ again /\ StageOK(s)
        BY <1>1, <1>2, <2>8
      <3>2. Once(net'[s], Stepping) /\ (Strays(s)' # {} => InNet(s)' = {}) /\ ToCome(s)' \subseteq ToCome(s)
        BY <1>6, <3>1
      <3>3. CASE ~(s = t /\ m \in Stepping)
        <4>1. r \notin From(s)
          BY <2>5, <3>1, <3>3
        <4>2. Answers(s)' = Answers(s) /\ Once(replies', From(s))
          BY <2>6, <3>1, <4>1 DEF Answers, StageOK
        <4>3. applied'[s] = applied[s] /\ graphs'[s] = graphs[s] /\ grad'[s] = grad[s]
          <5>1. CASE s # t
            BY <2>3, <3>1, <5>1
          <5>2. CASE s = t /\ m \notin Stepping
            <6>1. m.call.op \in {"ping", "finish"}
              BY <1>3, <5>2 DEF Stepping
            <6> QED
              BY <2>1, <2>3, <5>2, <6>1
          <5> QED
            BY <3>3, <5>1, <5>2
        <4> QED
          BY <1>2, <3>1, <3>2, <4>2, <4>3, StageGoesOn
      <3>4. CASE s = t /\ m \in Stepping
        <4>1. m \in ToCome(s) /\ InNet(s)' = {}
          BY <1>3, <3>1, <3>4 DEF StageOK, ToCome
        <4>2. /\ m = Message /\ s = at.stage /\ trainer \in {"awaiting", "failed"} /\ ShouldHold(s, FALSE)
              /\ Answers(s) = {} /\ Strays(s) = {}
          <5>1. m \in InNet(s)
            BY <1>3, <3>4
          <5> QED
            BY <3>1, <4>1, <5>1 DEF StageOK
        <4>3. Message' = Message
          BY <1>2 DEF Message
        <4>4. ToCome(s)' = {} /\ InNet(s)' = {} /\ Strays(s)' = {}
          BY <1>5, <3>1, <4>1, <4>2 DEF ToCome
        <4>5. Answers(s)' = {r} /\ Once(replies', From(s))
          BY <2>5, <2>6, <3>1, <3>4, <4>2 DEF Answers, StageOK
        <4>6. ~r.error => ShouldHold(s, TRUE)'
          <5>1. ~r.error => Holds(at, step_no, t, TRUE, a, g, d)
            BY <2>1, <2>4, <3>4, <4>2
          <5> QED
            BY <1>2, <2>3, <3>4, <5>1 DEF ShouldHold
        <4>7. ShouldHold(s, TRUE)' \/ ShouldHold(s, FALSE)'
          <5>1. CASE r.error
            <6>1. applied'[s] = applied[s] /\ graphs'[s] = graphs[s] /\ grad'[s] = grad[s]
              BY <2>1, <2>3, <2>4, <3>4, <5>1
            <6> QED
              BY <1>2, <4>2, <6>1 DEF ShouldHold
          <5>2. CASE ~r.error
            BY <4>6, <5>2
          <5> QED
            BY <5>1, <5>2
        <4>8. at.op = "collect" => r.gives = applied'[s]
          <5>1. at.op = "collect" => m.call.op = "collect"
            BY <1>1, <4>2, MessageIsLetter
          <5> QED
            BY <2>1, <2>3, <2>4, <3>4, <5>1
        <4>9. at'.op = "collect" /\ (s < at'.stage \/ trainer' \in {"writing", "done"}) => piece'[s] = Gotten(Steps)
          BY <1>2, <3>1 DEF StageOK
        <4> QED
          BY <1>2, <2>4, <3>2, <4>2, <4>3, <4>4, <4>5, <4>6, <4>7, <4>8, <4>9 DEF StageOK
      <3> QED
        BY <3>3, <3>4
    <2> QED
      BY <1>4, <2>7, <2>8 DEF TrainInv
  <1> QED
    BY <1>2, <1>7, <1>8

LEMMA TrainInitOK == TrainInit => TrainInv
  <1> SUFFICES ASSUME TrainInit PROVE TrainInv
    OBVIOUS
  <1>1. /\ trainer = "reading" /\ at = Call("ping", 0, 0) /\ step_no = 0 /\ tries = 1
        /\ graphs = [s \in Stage |-> {}] /\ grad = [s \in Stage |-> No]
        /\ applied = [s \in Stage |-> <<>>] /\ piece = [s \in Stage |-> <<>>]
        /\ net = [s \in Stage |-> <<>>] /\ replies = <<>> /\ astray = {} /\ again = {}
    BY DEF TrainInit
  <1>2. at.op = "ping" /\ at.stage = 0 /\ at.micro = 0 /\ at \in Calls
    BY <1>1, Keys DEF Call, Calls, Ops
  <1>3. No \in Gradient /\ Gotten(0) = <<>>
    BY Gradients, Keys, StepTaken
  <1>4. \A T : <<>> \in Seq(T)
    BY EmptySeq
  <1>5. TrainTypes
    BY <1>1, <1>2, <1>3, <1>4, Keys DEF TrainTypes
  <1>6. AtOK
    BY <1>1, <1>2 DEF AtOK
  <1>7. Addressed
    BY <1>1, QueueBegins DEF Addressed
  <1>8. ASSUME NEW s \in Stage PROVE StageOK(s)
    <2>1. InNet(s) = {} /\ Strays(s) = {} /\ ToCome(s) = {} /\ Answers(s) = {}
      BY <1>1, <1>8, QueueBegins DEF InNet, Strays, ToCome, Answers
    <2>2. \A b : ShouldHold(s, b)
      BY <1>1, <1>2, <1>3, <1>8 DEF ShouldHold, Holds
    <2>3. Once(net[s], Stepping) /\ Once(replies, From(s))
      BY <1>1, <1>8, QueueBegins
    <2> QED
      BY <1>1, <1>2, <2>1, <2>2, <2>3 DEF StageOK
  <1> QED
    BY <1>5, <1>6, <1>7, <1>8 DEF TrainInv

LEMMA TrainInvSays == TrainInv => TrainedAlike
  <1> SUFFICES ASSUME TrainInv, NEW s \in Stage \ again
               PROVE  IsPrefix(applied[s], Schedule) /\ (trainer = "done" => piece[s] = Schedule)
    BY DEF TrainedAlike
  <1>1. TrainTypes /\ AtOK /\ StageOK(s) /\ s \in Stage
    BY TrainFacts
  <1>2. PICK n \in 0 .. Steps : applied[s] = Gotten(n)
    <2>1. \E b \in BOOLEAN : ShouldHold(s, b)
      <3>1. CASE s = at.stage
        BY <1>1, <3>1 DEF StageOK
      <3>2. CASE s # at.stage
        <4>1. ShouldHold(s, Passed(at, s))
          BY <1>1, <3>2 DEF StageOK
        <4>2. CASE Passed(at, s)
          <5>1. ShouldHold(s, TRUE)
            BY <4>1, <4>2 DEF ShouldHold, Holds
          <5> QED
            BY <5>1
        <4>3. CASE ~Passed(at, s)
          <5>1. ShouldHold(s, FALSE)
            BY <4>1, <4>3 DEF ShouldHold, Holds
          <5> QED
            BY <5>1
        <4> QED
          BY <4>2, <4>3
      <3> QED
        BY <3>1, <3>2
    <2>2. PICK b \in BOOLEAN : ShouldHold(s, b)
      BY <2>1
    <2>3. applied[s] = Gotten(IF at.op = "step" /\ b THEN step_no + 1 ELSE step_no)
      BY <2>2 DEF ShouldHold, Holds
    <2>4. step_no \in 0 .. Steps /\ (at.op = "step" => step_no + 1 \in 0 .. Steps)
      BY <1>1, AtFields, Keys DEF AtOK
    <2> QED
      BY <2>3, <2>4
  <1>3. IsPrefix(applied[s], Schedule)
    BY <1>2, StepTaken
  <1>4. trainer = "done" => piece[s] = Gotten(Steps)
    BY <1>1 DEF AtOK, StageOK
  <1>5. Gotten(Steps) = Schedule
    BY Keys, StepTaken
  <1> QED
    BY <1>3, <1>4, <1>5

(* Whatever is lost, late or dies: a stage none of whose messages came twice  *)
(* has stepped on the schedule's batches in their order, each whole and once, *)
(* and an adapter is written from pieces that have made every step.           *)
THEOREM TrainedAlikeHolds == TrainSpec => []TrainedAlike
  <1>1. TrainInv /\ [TrainNext]_trainVars => TrainInv'
    <2> SUFFICES ASSUME TrainInv, [TrainNext]_trainVars PROVE TrainInv'
      OBVIOUS
    <2>1. CASE Examples
      BY <2>1, ExamplesKeeps
    <2>2. CASE CallOwn
      BY <2>2, CallOwnKeeps
    <2>3. CASE CallOther
      BY <2>3, CallOtherKeeps
    <2>4. CASE Answered
      BY <2>4, AnsweredKeeps
    <2>5. CASE TimeOutCall
      BY <2>5, TimeOutCallKeeps
    <2>6. CASE WriteAdapter
      BY <2>6, WriteAdapterKeeps
    <2>7. CASE LoseReply
      BY <2>7, LoseReplyKeeps
    <2>8. ASSUME NEW s \in Stage, LoadWeights(s) PROVE TrainInv'
      BY <2>8, ProcessKeeps DEF LoadWeights
    <2>9. ASSUME NEW s \in Stage, StageDies(s) PROVE TrainInv'
      BY <2>9, ProcessKeeps DEF StageDies
    <2>10. ASSUME NEW s \in Stage, StageReceives(s) PROVE TrainInv'
      BY <2>10, StageReceivesKeeps
    <2>11. ASSUME NEW s \in Stage, LoseMessage(s) PROVE TrainInv'
      BY <2>11, LoseMessageKeeps
    <2>12. ASSUME NEW s \in Stage, Stray(s) PROVE TrainInv'
      BY <2>12, StrayKeeps
    <2>13. ASSUME NEW s \in Stage, StrayArrives(s) PROVE TrainInv'
      BY <2>13, StrayArrivesKeeps
    <2>14. CASE UNCHANGED trainVars
      BY <2>14, ProcessKeeps DEF trainVars, weights
    <2> QED
      BY <2>1, <2>2, <2>3, <2>4, <2>5, <2>6, <2>7, <2>8, <2>9, <2>10, <2>11, <2>12, <2>13, <2>14 DEF TrainNext
  <1> QED
    BY <1>1, TrainInitOK, TrainInvSays, PTL DEF TrainSpec

(* ------------------------------------------------- what a training left --- *)
Looks == [pc : {"idle", "asking", "closing", "fetching", "saving"},
          saw : {"none", "running", "done", "failed", "stopped"},
          over : BOOLEAN, told : {"none", "running", "done", "failed"},
          asks : {"none", "progress", "adapter"}, spoilt : BOOLEAN,
          files : {"none", "whole", "mixed"}]
JobsOK == /\ view \in [Viewer -> Looks]
          /\ row \in {"none", "running", "done", "failed", "stopped"}
          /\ wrote \in {"none", "running", "done", "failed"}
          /\ known \in BOOLEAN

(* What a coroutine carries is true: it was told what the head wrote for      *)
(* good, it fetches by collecting the adapter, and pieces that mixed, or may  *)
(* mix, are of an adapter two collected at once.                              *)
LookIsTrue(l) == /\ l.told \in {"done", "failed"} => wrote = l.told
                 /\ l.pc = "fetching" => l.asks = "adapter"
                 /\ l.asks = "adapter" /\ l.spoilt => shared
                 /\ l.files = "mixed" => shared
JobInv == JobsOK /\ OutcomeIsTrue /\ \A v \in Viewer : LookIsTrue(view[v])

LEMMA IdleLooks ==
    Idle \in Looks /\ Idle.told = "none" /\ Idle.pc = "idle" /\ Idle.asks = "none" /\ Idle.files = "none"
  BY DEF Idle, Looks

(* A coroutine goes on alone.                                                 *)
LEMMA LooksOn ==
    ASSUME JobInv, NEW v \in Viewer, NEW l \in Looks, Goes(v, l), UNCHANGED <<wrote, shared>>,
           LookIsTrue(l)
    PROVE  view' \in [Viewer -> Looks] /\ \A u \in Viewer : LookIsTrue(view[u])'
  <1>1. view' \in [Viewer -> Looks] /\ \A u \in Viewer : view'[u] = IF u = v THEN l ELSE view[u]
    BY DEF JobInv, JobsOK, Goes
  <1> QED
    BY <1>1 DEF JobInv, LookIsTrue

(* A coroutine begins to collect; whoever collects the same is spoilt.        *)
LEMMA AsksOn ==
    ASSUME JobInv, NEW v \in Viewer, NEW l \in Looks, NEW what \in {"progress", "adapter"},
           Asks(v, l, what), UNCHANGED wrote,
           l.told \in {"done", "failed"} => wrote = l.told,
           l.pc = "fetching" => what = "adapter", l.files = "mixed" => shared
    PROVE  /\ view' \in [Viewer -> Looks] /\ \A u \in Viewer : LookIsTrue(view[u])'
           /\ shared => shared'
  <1> DEFINE new == [l EXCEPT !.asks = what, !.spoilt = Asking(what) # {}]
             hit(u) == [view[u] EXCEPT !.spoilt = @ \/ view[u].asks = what]
  <1>1. /\ new \in Looks /\ new.told = l.told /\ new.pc = l.pc /\ new.files = l.files
        /\ new.asks = what /\ new.spoilt = (Asking(what) # {})
    BY DEF Looks
  <1>2. \A u \in Viewer : view[u] \in Looks /\ LookIsTrue(view[u])
    BY DEF JobInv, JobsOK
  <1>3. \A u \in Viewer :
           /\ hit(u) \in Looks /\ hit(u).told = view[u].told /\ hit(u).pc = view[u].pc
           /\ hit(u).files = view[u].files /\ hit(u).asks = view[u].asks
           /\ hit(u).spoilt => view[u].spoilt \/ view[u].asks = what
    BY <1>2 DEF Looks
  <1>4. view' = [u \in Viewer |-> IF u = v THEN new ELSE hit(u)]
    BY DEF Asks
  <1> HIDE DEF new, hit
  <1>5. shared' = (shared \/ (what = "adapter" /\ Asking(what) # {}))
    BY DEF Asks
  <1>6. \A u \in Viewer : view[u].asks = what => Asking(what) # {}
    BY DEF Asking
  <1>7. view' \in [Viewer -> Looks] /\ \A u \in Viewer : view'[u] = IF u = v THEN new ELSE hit(u)
    BY <1>1, <1>3, <1>4
  <1>8. LookIsTrue(view[v])'
    BY <1>1, <1>5, <1>7 DEF LookIsTrue
  <1>9. ASSUME NEW u \in Viewer, u # v PROVE LookIsTrue(view[u])'
    <2>1. view'[u] = hit(u)
      BY <1>7, <1>9
    <2>2. /\ hit(u).told \in {"done", "failed"} => wrote' = hit(u).told
          /\ hit(u).pc = "fetching" => hit(u).asks = "adapter"
          /\ hit(u).files = "mixed" => shared'
      BY <1>2, <1>3, <1>5 DEF LookIsTrue
    <2>3. ASSUME hit(u).asks = "adapter", hit(u).spoilt PROVE shared'
      <3>1. view[u].asks = "adapter" /\ (view[u].spoilt \/ view[u].asks = what)
        BY <1>3, <2>3
      <3>2. CASE view[u].spoilt
        BY <1>2, <1>5, <3>1, <3>2 DEF LookIsTrue
      <3>3. CASE view[u].asks = what
        BY <1>5, <1>6, <3>1, <3>3
      <3> QED
        BY <3>1, <3>2, <3>3
    <2> QED
      BY <2>1, <2>2, <2>3 DEF LookIsTrue
  <1> QED
    BY <1>5, <1>7, <1>8, <1>9

(* The head and the node: what the head wrote for good stays.                 *)
LEMMA HeadStep ==
    ASSUME JobInv, HeadWrites
    PROVE  JobInv'
  <1>1. UNCHANGED <<view, row, known, adapter, shared, doubted>> /\ wrote \in {"none", "running"}
    BY DEF HeadWrites, past
  <1>2. JobsOK'
    BY <1>1 DEF HeadWrites, JobInv, JobsOK
  <1>3. OutcomeIsTrue'
    BY <1>1 DEF JobInv, OutcomeIsTrue, Kept
  <1>4. ASSUME NEW v \in Viewer PROVE LookIsTrue(view[v])'
    BY <1>1 DEF JobInv, LookIsTrue
  <1> QED
    BY <1>2, <1>3, <1>4 DEF JobInv

LEMMA QuietStep ==
    ASSUME JobInv,
           \/ SubmitTraining \/ BillTraining \/ Remember \/ HeadEnds \/ HubHears \/ ResultsExpire
           \/ NodeLeaves \/ NodeReturns \/ AskStop \/ StopGroup \/ StopRow \/ ForgetGroup
    PROVE  JobInv'
  <1>1. /\ UNCHANGED <<view, wrote, adapter, shared, doubted>>
        /\ known' \in {known, TRUE}
        /\ row' \in {row, "running", "stopped"}
    BY DEF SubmitTraining, BillTraining, Remember, HeadEnds, HubHears, ResultsExpire, NodeLeaves,
           NodeReturns, AskStop, StopGroup, StopRow, ForgetGroup, FinishJob, nodeVars, past
  <1>2. \A v \in Viewer : LookIsTrue(view[v])'
    BY <1>1 DEF JobInv, LookIsTrue
  <1> QED
    BY <1>1, <1>2 DEF JobInv, JobsOK, OutcomeIsTrue, Kept

LEMMA CrashLosesNoTruth ==
    ASSUME JobInv, Crash
    PROVE  JobInv'
  <1>1. /\ UNCHANGED <<row, wrote, known, shared, doubted>> /\ view' = [v \in Viewer |-> Idle]
        /\ adapter' \in {adapter, "none", "some"}
    BY DEF Crash, Torn, nodeVars, past
  <1>2. JobsOK'
    BY <1>1, IdleLooks DEF JobInv, JobsOK
  <1>3. OutcomeIsTrue'
    BY <1>1 DEF JobInv, OutcomeIsTrue, Kept
  <1>4. \A v \in Viewer : LookIsTrue(view[v])'
    BY <1>1, IdleLooks DEF LookIsTrue
  <1> QED
    BY <1>2, <1>3, <1>4 DEF JobInv

(* A row and an adapter that stay: only what the coroutine carries matters.   *)
LEMMA RowStays ==
    ASSUME JobInv, UNCHANGED <<row, wrote, known, adapter, doubted>>, shared => shared',
           view' \in [Viewer -> Looks], \A u \in Viewer : LookIsTrue(view[u])'
    PROVE  JobInv'
  BY DEF JobInv, JobsOK, OutcomeIsTrue, Kept

LEMMA LookStep ==
    ASSUME JobInv, NEW v \in Viewer,
           Look(v) \/ IsTold(v) \/ IsNotTold(v) \/ Fetch(v) \/ CollectFails(v)
    PROVE  JobInv'
  <1> USE DEF nodeVars, past
  <1>1. /\ view[v] \in Looks /\ LookIsTrue(view[v]) /\ known \in BOOLEAN
        /\ row \in {"none", "running", "done", "failed", "stopped"}
        /\ wrote \in {"none", "running", "done", "failed"}
    BY DEF JobInv, JobsOK
  <1>2. ASSUME NEW what \in {"none", "running", "done", "failed"}, Hears(v, what),
               what \in {"done", "failed"} => wrote = what, UNCHANGED <<wrote, shared>>
        PROVE  view' \in [Viewer -> Looks] /\ \A u \in Viewer : LookIsTrue(view[u])'
    <2> DEFINE l == [view[v] EXCEPT !.pc = "closing", !.told = what, !.asks = "none", !.spoilt = FALSE]
    <2>1. /\ l \in Looks /\ l.told = what /\ l.pc = "closing" /\ l.asks = "none"
          /\ l.files = view[v].files
      BY <1>1, <1>2 DEF Looks
    <2>2. Goes(v, l)
      BY <1>2 DEF Hears
    <2> HIDE DEF l
    <2>3. LookIsTrue(l)
      <3>1. l.files = "mixed" => shared
        BY <1>1, <2>1 DEF LookIsTrue
      <3> QED
        BY <1>2, <2>1, <3>1 DEF LookIsTrue
    <2> QED
      BY <1>2, <2>1, <2>2, <2>3, LooksOn
  <1>3. CASE IsTold(v)
    BY <1>1, <1>2, <1>3, RowStays DEF IsTold
  <1>4. CASE IsNotTold(v)
    BY <1>2, <1>4, RowStays DEF IsNotTold
  <1>5. CASE CollectFails(v)
    <2>1. LookIsTrue(Idle)
      BY IdleLooks DEF LookIsTrue
    <2> QED
      BY <1>5, <2>1, IdleLooks, LooksOn, RowStays DEF CollectFails
  <1>6. CASE Fetch(v)
    <2> DEFINE l == [Idle EXCEPT !.pc = "saving", !.files = IF view[v].spoilt THEN "mixed" ELSE "whole"]
    <2>1. /\ l \in Looks /\ l.told = "none" /\ l.pc = "saving" /\ l.asks = "none"
          /\ l.files = IF view[v].spoilt THEN "mixed" ELSE "whole"
      BY IdleLooks DEF Looks
    <2>2. Goes(v, l) /\ view[v].pc = "fetching" /\ UNCHANGED <<row, wrote, known, adapter, doubted, shared>>
      BY <1>6 DEF Fetch
    <2> HIDE DEF l
    <2>3. LookIsTrue(l)
      <3>1. l.files = "mixed" => shared
        BY <1>1, <2>1, <2>2 DEF LookIsTrue
      <3> QED
        BY <2>1, <3>1 DEF LookIsTrue
    <2> QED
      BY <2>1, <2>2, <2>3, LooksOn, RowStays
  <1>7. CASE Look(v)
    <2> DEFINE seen == [Idle EXCEPT !.saw = row, !.over = known]
    <2>1. /\ seen \in Looks /\ seen.told = "none" /\ seen.files = "none"
      BY <1>1, IdleLooks DEF Looks
    <2>2. UNCHANGED <<row, wrote, known, adapter, doubted>>
      BY <1>7 DEF Look
    <2>3. CASE Asks(v, [seen EXCEPT !.pc = "asking"], "progress")
      <3> DEFINE l == [seen EXCEPT !.pc = "asking"]
      <3> HIDE DEF seen
      <3>1. l \in Looks /\ l.told = "none" /\ l.files = "none" /\ l.pc = "asking"
        BY <2>1 DEF Looks
      <3>2. Asks(v, l, "progress")
        BY <2>3
      <3> HIDE DEF l
      <3> QED
        BY <2>2, <3>1, <3>2, AsksOn, RowStays
    <2>4. CASE Goes(v, [seen EXCEPT !.pc = "closing"]) /\ UNCHANGED shared
      <3> DEFINE l == [seen EXCEPT !.pc = "closing"]
      <3> HIDE DEF seen
      <3>1. l \in Looks /\ l.told = "none" /\ l.files = "none" /\ l.pc = "closing" /\ l.asks = seen.asks
        BY <2>1 DEF Looks
      <3>2. Goes(v, l) /\ seen.asks = "none"
        BY <1>1, <2>4, IdleLooks DEF seen, Looks
      <3> HIDE DEF l
      <3>3. LookIsTrue(l)
        BY <3>1, <3>2 DEF LookIsTrue
      <3> QED
        BY <2>2, <2>4, <3>1, <3>2, <3>3, LooksOn, RowStays
    <2> QED
      BY <1>7, <2>3, <2>4 DEF Look
  <1> QED
    BY <1>3, <1>4, <1>5, <1>6, <1>7

LEMMA FetchesOn ==
    ASSUME JobInv, NEW v \in Viewer, NEW state, Fetches(v, state), UNCHANGED wrote
    PROVE  /\ view' \in [Viewer -> Looks] /\ \A u \in Viewer : LookIsTrue(view[u])'
           /\ shared => shared'
  <1>1. view[v] \in Looks /\ LookIsTrue(view[v])
    BY DEF JobInv, JobsOK
  <1>2. CASE Asks(v, [view[v] EXCEPT !.pc = "fetching"], "adapter")
    <2> DEFINE l == [view[v] EXCEPT !.pc = "fetching"]
    <2>1. l \in Looks /\ l.told = view[v].told /\ l.files = view[v].files
      BY <1>1 DEF Looks
    <2>2. Asks(v, l, "adapter")
      BY <1>2
    <2> HIDE DEF l
    <2>3. (l.told \in {"done", "failed"} => wrote = l.told) /\ (l.files = "mixed" => shared)
      BY <1>1, <2>1 DEF LookIsTrue
    <2> QED
      BY <2>1, <2>2, <2>3, AsksOn
  <1>3. CASE Goes(v, Idle) /\ UNCHANGED shared
    <2>1. LookIsTrue(Idle)
      BY IdleLooks DEF LookIsTrue
    <2> QED
      BY <1>3, <2>1, IdleLooks, LooksOn
  <1> QED
    BY <1>2, <1>3 DEF Fetches

(* The row is closed by a coroutine that was told, or was told nothing.       *)
LEMMA CloseStep ==
    ASSUME JobInv, NEW v \in Viewer, CloseLease(v)
    PROVE  JobInv'
  <1> USE DEF nodeVars
  <1>1. LookIsTrue(view[v])
    BY DEF JobInv
  <1>2. UNCHANGED <<wrote, known, adapter>>
    BY DEF CloseLease
  <1>3. CASE FinishJob(view[v].told) /\ Fetches(v, row') /\ UNCHANGED doubted /\ view[v].told \in {"done", "failed"}
    <2>1. view' \in [Viewer -> Looks] /\ (\A u \in Viewer : LookIsTrue(view[u])') /\ (shared => shared')
      BY <1>2, <1>3, FetchesOn
    <2>2. row' \in {row, view[v].told} /\ wrote = view[v].told
      BY <1>1, <1>3 DEF FinishJob, LookIsTrue
    <2> QED
      BY <1>2, <1>3, <2>1, <2>2 DEF JobInv, JobsOK, OutcomeIsTrue, Kept
  <1>4. CASE FinishJob("failed") /\ Goes(v, Idle) /\ doubted' = (doubted \/ row = "running") /\ UNCHANGED shared
    <2>1. LookIsTrue(Idle)
      BY IdleLooks DEF LookIsTrue
    <2>2. view' \in [Viewer -> Looks] /\ (\A u \in Viewer : LookIsTrue(view[u])')
      BY <1>2, <1>4, <2>1, IdleLooks, LooksOn
    <2>3. row' = (IF row = "running" THEN "failed" ELSE row)
      BY <1>4 DEF FinishJob
    <2> QED
      BY <1>2, <1>4, <2>2, <2>3 DEF JobInv, JobsOK, OutcomeIsTrue, Kept
  <1>5. CASE Fetches(v, view[v].saw) /\ UNCHANGED <<row, doubted>>
    BY <1>2, <1>5, FetchesOn, RowStays
  <1> QED
    BY <1>3, <1>4, <1>5 DEF CloseLease

LEMMA SaveStep ==
    ASSUME JobInv, NEW v \in Viewer, Save(v)
    PROVE  JobInv'
  <1> USE DEF nodeVars, past
  <1>1. LookIsTrue(view[v]) /\ view[v] \in Looks
    BY DEF JobInv, JobsOK
  <1>2. Goes(v, Idle) /\ adapter' = view[v].files /\ UNCHANGED <<row, wrote, known, shared, doubted>>
    BY DEF Save
  <1>3. adapter' \in {"none", "whole", "mixed"} /\ (adapter' = "mixed" => shared)
    BY <1>1, <1>2 DEF LookIsTrue, Looks
  <1>4. LookIsTrue(Idle)
    BY IdleLooks DEF LookIsTrue
  <1>5. view' \in [Viewer -> Looks] /\ (\A u \in Viewer : LookIsTrue(view[u])')
    BY <1>2, <1>4, IdleLooks, LooksOn
  <1> QED
    BY <1>2, <1>3, <1>5 DEF JobInv, JobsOK, OutcomeIsTrue, Kept

(* What is kept of a training is true (_training_view, _keep_adapter,         *)
(* adapters.py): for any number of sweeps and pages that look at it at once,  *)
(* whatever leaves, expires, is stopped, forgotten or crashes meanwhile.      *)
THEOREM OutcomeIsTrueHolds == JobSpec => []OutcomeIsTrue
  <1>1. JobInit => JobInv
    BY IdleLooks DEF JobInit, JobInv, JobsOK, OutcomeIsTrue, Kept, LookIsTrue
  <1>2. JobInv /\ [JobNext]_jobVars => JobInv'
    <2>1. JobInv /\ UNCHANGED jobVars => JobInv'
      BY DEF JobInv, JobsOK, OutcomeIsTrue, Kept, LookIsTrue, jobVars, nodeVars, past
    <2> QED
      BY <2>1, HeadStep, QuietStep, CrashLosesNoTruth, LookStep, CloseStep, SaveStep
         DEF JobNext, Viewing
  <1>3. JobInv => OutcomeIsTrue
    BY DEF JobInv
  <1> QED
    BY <1>1, <1>2, <1>3, PTL DEF JobSpec
=============================================================================
