------------------------- MODULE OrchestratorProofs -------------------------
(***************************************************************************)
(* Proofs about two parts of the orchestrator.  Its task records, for any  *)
(* set of tasks and any bounds: what a record says of a task's end is true *)
(* of the node.  Its preemption plan, for any finite fleet, any groups on  *)
(* it, overlapping or not, and any demand.                                 *)
(***************************************************************************)
EXTENDS HubTasks, Preemption, SequenceTheorems, FiniteSetTheorems, TLAPS

NodeState == {"none", "accepted", "claimed", "running", "done", "cancelled", "removed"}
Listable == {"provisioning", "running", "done", "cancelled"}
RecordState == {"absent", "pending", "failed", "gone"} \union Listable

\* What the two queues carry.
StateMsgs == [kind : {"state"}, task : Task, state : RecordState \ {"absent"}]
ReportMsgs == [kind : {"telemetry"}, report : Report]
Commands == [kind : {"run", "stop", "release"}, task : Task]

\* The shapes of the variables the proofs look at.
HubTypeOK ==
    /\ rec \in [Task -> RecordState] /\ disk \in [Task -> RecordState]
    /\ node \in [Task -> NodeState]
    /\ down \in Seq(Commands) /\ upq \in Seq(StateMsgs \union ReportMsgs)
    /\ slow \subseteq Commands
    /\ listed = <<>> \/ \E r \in Report : listed = <<r>>
    /\ last = <<>> \/ \E r \in Report : last = <<r>>

Ended == {"done", "failed", "cancelled"}

\* The tasks a node in state n is through with, for good: a run is sent once.
Over(n) == {t \in Task : n[t] \in {"done", "cancelled", "removed"}}

\* What a report, or a record, says of an end is so on node n.
Truthful(r, n) == \A t \in DOMAIN r : r[t] \in Ended => t \in Over(n)
Honest(m, n) ==
    /\ m.kind = "state" /\ m.state \in Ended => m.task \in Over(n)
    /\ m.kind = "telemetry" => Truthful(m.report, n)
AllHonest(q, n) == \A i \in 1 .. Len(q) : Honest(q[i], n)

\* Nothing under way, kept or being made says otherwise.
NothingLies ==
    /\ Truthful(rec, node) /\ Truthful(disk, node)
    /\ AllHonest(upq, node)
    /\ \A r \in Report : listed = <<r>> \/ last = <<r>> => Truthful(r, node)

\* Each run command under way is the only one of its task, and meets a node
\* that has never heard of it.
RunsAreNew(q, n, u) ==
    \A i \in 1 .. Len(q) : q[i].kind = "run" =>
        /\ n[q[i].task] = "none" /\ q[i].task \in u
        /\ \A j \in 1 .. Len(q) : q[j].kind = "run" /\ q[j].task = q[i].task => j = i
RunsOnce ==
    /\ RunsAreNew(down, node, used)
    /\ \A t \in Task \ used : node[t] = "none"

IInv == HubTypeOK /\ NothingLies /\ RunsOnce

-----------------------------------------------------------------------------

\* What makes a report.
LEMMA ReportIntro ==
    ASSUME NEW S, S \subseteq Task, NEW r \in [S -> Listable]
    PROVE  r \in Report
  BY DEF Report, Listable

\* The bare report of a heartbeat that has nothing to repeat.
LEMMA EmptyReport == <<>> \in Report
  <1>1. <<>> \in [{} -> Listable]
    OBVIOUS
  <1> QED
    BY <1>1, ReportIntro

\* What SendReport sends is a report.
LEMMA InventoryIsReport ==
    ASSUME HubTypeOK, listed # <<>>
    PROVE  Inventory \in Report
  <1>1. PICK r \in Report : listed = <<r>>
    BY DEF HubTypeOK
  <1>2. Head(listed) = r
    BY <1>1
  <1>3. DOMAIN r \subseteq Task /\ \A t \in DOMAIN r : r[t] \in Listable
    BY DEF Report, Listable
  <1> DEFINE S == DOMAIN r \union {u \in Task : node[u] = "claimed"}
  <1>4. Inventory = [t \in S |-> IF node[t] = "claimed" THEN "provisioning" ELSE r[t]]
    BY <1>2 DEF Inventory
  <1>5. Inventory \in [S -> Listable]
    BY <1>3, <1>4 DEF Listable
  <1> QED
    BY <1>3, <1>5, ReportIntro

LEMMA Typing == HubTypeOK /\ RunsOnce /\ [HubNext]_taskVars => HubTypeOK'
  <1> SUFFICES ASSUME HubTypeOK, RunsOnce, [HubNext]_taskVars PROVE HubTypeOK'
    OBVIOUS
  <1> USE DEF HubTypeOK, hubVars, linkVars, nodeVars, reportVars, auxVars, Command, StateMsg,
        ReportMsg,
              Commands, StateMsgs, ReportMsgs, RecordState, Listable, NodeState, Sent, StreamLost
  <1>1. ASSUME NEW t \in Task, Submit(t) PROVE HubTypeOK'
    BY <1>1 DEF Submit
  <1>2. ASSUME NEW t \in Task, Stop(t) PROVE HubTypeOK'
    BY <1>2 DEF Stop
  <1>3. ASSUME NEW t \in Task, Release(t) PROVE HubTypeOK'
    BY <1>3 DEF Release
  <1>4. ASSUME NEW t \in Task, ForgetOffline(t) PROVE HubTypeOK'
    BY <1>4 DEF ForgetOffline
  <1>5. ASSUME NEW t \in Task, GraceEnds(t) PROVE HubTypeOK'
    BY <1>5 DEF GraceEnds
  <1>6. ASSUME NEW t \in Task, WindowLapses(t) PROVE HubTypeOK'
    BY <1>6 DEF WindowLapses
  <1>7. ASSUME NEW t \in Task, NodeClaim(t) PROVE HubTypeOK'
    BY <1>7 DEF NodeClaim
  <1>8. ASSUME NEW t \in Task, NodeStart(t) PROVE HubTypeOK'
    BY <1>8 DEF NodeStart
  <1>9. ASSUME NEW t \in Task, NodeRefuse(t) PROVE HubTypeOK'
    BY <1>9 DEF NodeRefuse
  <1>10. ASSUME NEW t \in Task, NodeFinish(t) PROVE HubTypeOK'
    BY <1>10 DEF NodeFinish
  <1>11. ASSUME NEW t \in Task, NodeReap(t) PROVE HubTypeOK'
    BY <1>11 DEF NodeReap
  <1>12. ASSUME NEW t \in Task, NodeStop(t) PROVE HubTypeOK'
    <2>1. CASE node[t] = "running"
      <3>1. StateMsg(t, "cancelled") \in StateMsgs
        OBVIOUS
      <3>2. Sent(StateMsg(t, "cancelled"))
        BY <1>12, <2>1 DEF NodeStop
      <3>3. upq' \in Seq(StateMsgs \union ReportMsgs)
        BY <3>1, <3>2
      <3> QED
        BY <1>12, <2>1, <3>3 DEF NodeStop
    <2>2. CASE node[t] # "running"
      BY <1>12, <2>2 DEF NodeStop
    <2> QED
      BY <2>1, <2>2
  <1>13. ASSUME NEW t \in Task, NodeRelease(t) PROVE HubTypeOK'
    BY <1>13 DEF NodeRelease
  <1>14. CASE HubReceive
    <2> DEFINE m == Head(upq)
    <2>1. m \in StateMsgs \union ReportMsgs /\ Tail(upq) \in Seq(StateMsgs \union ReportMsgs)
      BY <1>14 DEF HubReceive
    <2>2. rec' \in [Task -> RecordState]
      <3>1. CASE m.kind = "state" /\ OnTaskState(m)
        BY <2>1, <3>1 DEF OnTaskState
      <3>2. CASE m.kind = "telemetry" /\ OnTelemetry(m.report)
        <4>1. m.report \in Report
          BY <2>1, <3>2
        <4>2. \A t \in DOMAIN m.report : m.report[t] \in RecordState
          BY <4>1 DEF Report
        <4> QED
          BY <3>2, <4>2 DEF OnTelemetry
      <3> QED
        BY <1>14, <3>1, <3>2 DEF HubReceive
    <2> QED
      BY <1>14, <2>1, <2>2 DEF HubReceive
  <1>15. CASE Flush
    BY <1>15 DEF Flush
  <1>16. CASE Connect
    BY <1>16 DEF Connect
  <1>17. CASE Break
    BY <1>17 DEF Break
  <1>18. CASE HubCrash
    BY <1>18 DEF HubCrash
  <1>19. CASE HubRestore
    BY <1>19 DEF HubRestore
  <1>20. CASE NodeRestart
    BY <1>20 DEF NodeRestart
  <1>21. CASE NodeReceive
    <2> DEFINE m == Head(down)
    <2>1. m \in Commands /\ Tail(down) \in Seq(Commands)
      <3> HIDE DEF Commands
      <3>1. down \in Seq(Commands) /\ down # <<>>
        BY <1>21 DEF NodeReceive
      <3> QED
        BY <3>1, HeadTailProperties
    <2>2. CASE m.kind = "run"
      <3>1. StateMsg(m.task, "provisioning") \in StateMsgs
        BY <2>1
      <3>2. /\ node' = [node EXCEPT ![m.task] = "accepted"]
            /\ Sent(StateMsg(m.task, "provisioning"))
        BY <1>21, <2>2 DEF NodeReceive
      <3>3. upq' \in Seq(StateMsgs \union ReportMsgs)
        BY <3>1, <3>2
      <3>4. node' \in [Task -> NodeState]
        BY <3>2
      <3> QED
        BY <1>21, <2>1, <2>2, <3>3, <3>4 DEF NodeReceive
    <2>3. CASE m.kind # "run"
      BY <1>21, <2>1, <2>3 DEF NodeReceive
    <2> QED
      BY <2>2, <2>3
  <1>22. CASE ListTasks
    <2> DEFINE S == {u \in Task : Registered(u)}
    <2>1. [t \in S |-> node[t]] \in [S -> Listable]
      BY DEF Registered
    <2>2. [t \in S |-> node[t]] \in Report
      BY <2>1, ReportIntro
    <2> QED
      BY <1>22, <2>2 DEF ListTasks
  <1>23. CASE SendReport
    <2>1. Inventory \in Report
      BY <1>23, InventoryIsReport DEF SendReport
    <2>2. ReportMsg(Inventory) \in ReportMsgs
      BY <2>1
    <2>3. upq' \in Seq(StateMsgs \union ReportMsgs)
      BY <1>23, <2>2 DEF SendReport
    <2> QED
      BY <1>23, <2>1, <2>3 DEF SendReport
  <1>24. CASE ResendReport
    <2>1. (IF last = <<>> THEN <<>> ELSE Head(last)) \in Report
      <3>1. <<>> \in Report
        BY EmptyReport
      <3>2. CASE last # <<>>
        <4>1. PICK r \in Report : last = <<r>>
          BY <3>2
        <4> QED
          BY <4>1, <3>2
      <3> QED
        BY <3>1, <3>2
    <2>2. ReportMsg(IF last = <<>> THEN <<>> ELSE Head(last)) \in ReportMsgs
      BY <2>1
    <2> QED
      BY <1>24, <2>2 DEF ResendReport
  <1>25. CASE UNCHANGED taskVars
    BY <1>25 DEF taskVars
  <1> QED
    BY <1>1, <1>2, <1>3, <1>4, <1>5, <1>6, <1>7, <1>8, <1>9, <1>10, <1>11, <1>12, <1>13, <1>14,
          <1>15, <1>16, <1>17, <1>18, <1>19, <1>20, <1>21, <1>22, <1>23, <1>24,
          <1>25 DEF HubNext, TaskThread

-----------------------------------------------------------------------------
(* What a queue of honest messages stays *)

Messages == StateMsgs \union ReportMsgs

LEMMA HonestEmpty == \A n : AllHonest(<<>>, n)
  BY DEF AllHonest

LEMMA HonestAppend ==
    ASSUME NEW q \in Seq(Messages), NEW m \in Messages, NEW n,
           AllHonest(q, n), Honest(m, n)
    PROVE  AllHonest(Append(q, m), n)
  BY AppendProperties DEF AllHonest

LEMMA HonestTail ==
    ASSUME NEW q \in Seq(Messages), q # <<>>, NEW n, AllHonest(q, n)
    PROVE  Honest(Head(q), n) /\ AllHonest(Tail(q), n)
  BY HeadTailProperties DEF AllHonest

\* What was so stays so while ends are final.
LEMMA StaysTrue ==
    ASSUME NEW n, NEW k, Over(n) \subseteq Over(k)
    PROVE  /\ \A r : Truthful(r, n) => Truthful(r, k)
           /\ \A m : Honest(m, n) => Honest(m, k)
           /\ \A q : AllHonest(q, n) => AllHonest(q, k)
  BY DEF Truthful, Honest, AllHonest

\* A claim found after the list was read adds no end to the report.
LEMMA InventoryIsTrue ==
    ASSUME HubTypeOK, NothingLies, listed # <<>>
    PROVE  Truthful(Inventory, node)
  <1>1. PICK r \in Report : listed = <<r>>
    BY DEF HubTypeOK
  <1>2. Head(listed) = r /\ Truthful(r, node)
    BY <1>1 DEF NothingLies
  <1> QED
    BY <1>2 DEF Inventory, Truthful, Ended

LEMMA RunsTail ==
    ASSUME NEW q \in Seq(Commands), q # <<>>, NEW n, NEW u, RunsAreNew(q, n, u)
    PROVE  RunsAreNew(Tail(q), n, u)
  <1>1. Len(Tail(q)) = Len(q) - 1 /\ \A i \in 1 .. Len(Tail(q)) : Tail(q)[i] = q[i + 1]
    BY HeadTailProperties
  <1>2. Len(q) \in Nat
    BY LenProperties
  <1> SUFFICES ASSUME NEW i \in 1 .. Len(Tail(q)), Tail(q)[i].kind = "run"
               PROVE  /\ n[Tail(q)[i].task] = "none" /\ Tail(q)[i].task \in u
                      /\ \A j \in 1 .. Len(Tail(q)) :
                            Tail(q)[j].kind = "run" /\ Tail(q)[j].task = Tail(q)[i].task => j = i
    BY DEF RunsAreNew
  <1>3. i + 1 \in 1 .. Len(q)
    BY <1>1, <1>2
  <1>4. n[q[i + 1].task] = "none" /\ q[i + 1].task \in u
    BY <1>1, <1>3 DEF RunsAreNew
  <1>5. ASSUME NEW j \in 1 .. Len(Tail(q)),
               Tail(q)[j].kind = "run", Tail(q)[j].task = Tail(q)[i].task
        PROVE  j = i
    <2>1. j + 1 \in 1 .. Len(q)
      BY <1>1, <1>2
    <2>2. j + 1 = i + 1
      BY <2>1, <1>1, <1>3, <1>5 DEF RunsAreNew
    <2> QED
      BY <2>2, <1>2
  <1> QED
    BY <1>1, <1>4, <1>5

LEMMA RunsAppend ==
    ASSUME NEW q \in Seq(Commands), NEW c \in Commands, NEW n, NEW u, RunsAreNew(q, n, u),
           c.kind = "run" => n[c.task] = "none" /\ c.task \notin u
    PROVE  RunsAreNew(Append(q, c), n, u \union {c.task})
  <1> DEFINE a == Append(q, c)
  <1>1. Len(a) = Len(q) + 1 /\ Len(q) \in Nat /\ a[Len(q) + 1] = c
    BY AppendProperties, LenProperties
  <1>2. \A i \in 1 .. Len(q) : a[i] = q[i]
    BY AppendProperties
  <1> HIDE DEF a
  <1>3. ASSUME NEW i \in 1 .. Len(a), a[i].kind = "run"
        PROVE  /\ n[a[i].task] = "none" /\ a[i].task \in u \union {c.task}
               /\ \A j \in 1 .. Len(a) : a[j].kind = "run" /\ a[j].task = a[i].task => j = i
    <2>1. CASE i = Len(q) + 1
      BY <1>1, <1>2, <1>3, <2>1 DEF RunsAreNew
    <2>2. CASE i \in 1 .. Len(q)
      <3>1. n[q[i].task] = "none" /\ q[i].task \in u
        BY <1>2, <1>3, <2>2 DEF RunsAreNew
      <3>2. ASSUME NEW j \in 1 .. Len(a), a[j].kind = "run", a[j].task = a[i].task
            PROVE  j = i
        <4>1. j # Len(q) + 1
          BY <1>1, <1>2, <2>2, <3>1, <3>2
        <4>2. j \in 1 .. Len(q)
          BY <1>1, <4>1
        <4> QED
          BY <1>2, <1>3, <2>2, <3>2, <4>2 DEF RunsAreNew
      <3> QED
        BY <1>2, <2>2, <3>1, <3>2
    <2> QED
      BY <1>1, <2>1, <2>2
  <1> QED
    BY <1>3 DEF RunsAreNew, a

-----------------------------------------------------------------------------
(* What the steps do *)

\* Ends are final, and only a run command takes a node out of its ignorance.
LEMMA EndsAreFinal ==
    ASSUME HubTypeOK, RunsOnce, [HubNext]_taskVars
    PROVE  /\ Over(node) \subseteq Over(node')
           /\ ~NodeReceive => \A u \in Task : node[u] = "none" => node'[u] = "none"
  <1> DEFINE Goal == /\ Over(node) \subseteq Over(node')
                     /\ ~NodeReceive => \A u \in Task : node[u] = "none" => node'[u] = "none"
  <1> USE DEF HubTypeOK, Over
  <1>1. ASSUME NEW t \in Task, Submit(t) \/ Stop(t) \/ Release(t) \/ ForgetOffline(t)
        \/ GraceEnds(t) \/ WindowLapses(t)
        PROVE  node' = node
    BY <1>1 DEF Submit, Stop, Release, ForgetOffline, GraceEnds, WindowLapses, nodeVars
  <1>2. CASE HubReceive \/ Flush \/ Connect \/ Break \/ HubCrash \/ HubRestore \/ ListTasks
        \/ SendReport \/ ResendReport \/ UNCHANGED taskVars
    <2>1. node' = node
      BY <1>2 DEF HubReceive, Flush, Connect, Break, HubCrash, HubRestore, ListTasks, SendReport,
            ResendReport, nodeVars, taskVars
    <2> QED
      BY <2>1
  <1>3. ASSUME NEW t \in Task, NodeClaim(t) PROVE Goal
    BY <1>3 DEF NodeClaim
  <1>4. ASSUME NEW t \in Task, NodeStart(t) PROVE Goal
    BY <1>4 DEF NodeStart
  <1>5. ASSUME NEW t \in Task, NodeRefuse(t) PROVE Goal
    BY <1>5 DEF NodeRefuse
  <1>6. ASSUME NEW t \in Task, NodeFinish(t) PROVE Goal
    BY <1>6 DEF NodeFinish
  <1>7. ASSUME NEW t \in Task, NodeReap(t) PROVE Goal
    BY <1>7 DEF NodeReap
  <1>8. ASSUME NEW t \in Task, NodeStop(t) PROVE Goal
    BY <1>8 DEF NodeStop
  <1>9. ASSUME NEW t \in Task, NodeRelease(t) PROVE Goal
    BY <1>9 DEF NodeRelease, Registered
  <1>10. CASE NodeRestart
    BY <1>10 DEF NodeRestart
  <1>11. CASE NodeReceive
    <2> DEFINE m == Head(down)
    <2>1. down \in Seq(Commands) /\ down # <<>>
      BY <1>11 DEF NodeReceive
    <2>2. m = down[1] /\ m \in Commands /\ 1 \in 1 .. Len(down)
      BY <2>1, HeadTailProperties, LenProperties
    <2>3. CASE m.kind = "run"
      <3>1. node[m.task] = "none"
        BY <2>2, <2>3 DEF RunsOnce, RunsAreNew
      <3>2. node' = [node EXCEPT ![m.task] = "accepted"]
        BY <1>11, <2>3 DEF NodeReceive
      <3> QED
        BY <1>11, <3>1, <3>2
    <2>4. CASE m.kind # "run"
      <3>1. node' = node
        BY <1>11, <2>4 DEF NodeReceive
      <3> QED
        BY <1>11, <3>1
    <2> QED
      BY <2>3, <2>4
  <1> QED
    BY <1>1, <1>2, <1>3, <1>4, <1>5, <1>6, <1>7, <1>8, <1>9, <1>10, <1>11 DEF HubNext, TaskThread

\* Commands: one of a task's run commands at most is ever under way.
LEMMA RunsOnceStays ==
    ASSUME HubTypeOK, RunsOnce, [HubNext]_taskVars
    PROVE  RunsOnce'
  <1>0. ~NodeReceive => \A u \in Task : node[u] = "none" => node'[u] = "none"
    BY EndsAreFinal
  <1>1. ASSUME ~NodeReceive, down' = down, used' = used PROVE RunsOnce'
    <2>1. \A i \in 1 .. Len(down) : down[i] \in Commands
      BY DEF HubTypeOK
    <2>2. \A i \in 1 .. Len(down) : down[i].task \in Task
      BY <2>1 DEF Commands
    <2> QED
      BY <1>0, <1>1, <2>2 DEF RunsOnce, RunsAreNew
  <1>2. ASSUME ~NodeReceive, down' = <<>>, used' = used PROVE RunsOnce'
    BY <1>0, <1>2 DEF RunsOnce, RunsAreNew
  <1>3. ASSUME NEW c \in Commands, down' = Append(down, c), node' = node,
               IF c.kind = "run" THEN c.task \notin used /\ used' = used \union {c.task}
                                 ELSE used' = used
        PROVE  RunsOnce'
    <2>1. down \in Seq(Commands)
      BY DEF HubTypeOK
    <2>2. c.task \in Task
      BY DEF Commands
    <2>3. c.kind = "run" => node[c.task] = "none"
      BY <1>3, <2>2 DEF RunsOnce
    <2>4. RunsAreNew(Append(down, c), node, used \union {c.task})
      BY <2>1, <2>3, <1>3, RunsAppend DEF RunsOnce
    <2>5. RunsAreNew(Append(down, c), node, used')
      <3>1. CASE c.kind = "run"
        BY <1>3, <2>4, <3>1
      <3>2. CASE c.kind # "run"
        <4>1. Len(Append(down, c)) = Len(down) + 1 /\ Len(down) \in Nat
              /\ Append(down, c)[Len(down) + 1] = c
              /\ \A i \in 1 .. Len(down) : Append(down, c)[i] = down[i]
          BY <2>1, AppendProperties, LenProperties
        <4> DEFINE a == Append(down, c)
        <4> HIDE DEF a
        <4>2. \A i \in 1 .. Len(a) : a[i].kind = "run" => i \in 1 .. Len(down)
          BY <4>1, <3>2 DEF a
        <4>3. \A i \in 1 .. Len(down) : a[i] = down[i]
          BY <4>1 DEF a
        <4>4. RunsAreNew(a, node, used')
          BY <4>2, <4>3, <1>3, <3>2 DEF RunsOnce, RunsAreNew
        <4> QED
          BY <4>4 DEF a
      <3> QED
        BY <3>1, <3>2
    <2> QED
      BY <1>3, <2>5 DEF RunsOnce
  <1>4. ASSUME NEW t \in Task, ForgetOffline(t) \/ GraceEnds(t) \/ WindowLapses(t)
        \/ NodeClaim(t) \/ NodeStart(t) \/ NodeRefuse(t) \/ NodeFinish(t) \/ NodeReap(t)
        \/ NodeStop(t) \/ NodeRelease(t)
        PROVE  down' = down /\ used' = used
    BY <1>4 DEF ForgetOffline, GraceEnds, WindowLapses, NodeClaim, NodeStart, NodeRefuse,
          NodeFinish, NodeReap, NodeStop, NodeRelease, linkVars, auxVars
  <1>5. ASSUME HubReceive \/ Flush \/ Connect \/ HubRestore \/ ListTasks \/ SendReport
        \/ ResendReport \/ UNCHANGED taskVars
        PROVE  down' = down /\ used' = used
    BY <1>5 DEF HubReceive, Flush, Connect, HubRestore, ListTasks, SendReport, ResendReport,
          linkVars, auxVars, taskVars
  <1>6. ASSUME Break \/ HubCrash \/ NodeRestart PROVE down' = <<>> /\ used' = used
    BY <1>6 DEF Break, HubCrash, NodeRestart, StreamLost, auxVars
  <1>7. ASSUME NEW t \in Task, Submit(t) PROVE RunsOnce'
    <2>1. Command("run", t) \in Commands /\ Command("run", t).kind = "run" /\ Command("run",
          t).task = t
      BY DEF Command, Commands
    <2> QED
      BY <1>7, <2>1, <1>3 DEF Submit, nodeVars
  <1>8. ASSUME NEW t \in Task, Stop(t) PROVE RunsOnce'
    <2>1. Command("stop", t) \in Commands /\ Command("stop", t).kind = "stop"
      BY DEF Command, Commands
    <2> QED
      BY <1>8, <2>1, <1>3 DEF Stop, nodeVars
  <1>9. ASSUME NEW t \in Task, Release(t) PROVE RunsOnce'
    <2>1. Command("release", t) \in Commands /\ Command("release", t).kind = "release"
      BY DEF Command, Commands
    <2> QED
      BY <1>9, <2>1, <1>3 DEF Release, nodeVars
  <1>10. CASE NodeReceive
    <2> DEFINE m == Head(down)
    <2>1. down \in Seq(Commands) /\ down # <<>> /\ down' = Tail(down) /\ used' = used
      BY <1>10 DEF NodeReceive, HubTypeOK, auxVars
    <2>2. RunsAreNew(Tail(down), node, used)
      BY <2>1, RunsTail DEF RunsOnce
    <2>3. m = down[1] /\ m \in Commands /\ 1 \in 1 .. Len(down)
      BY <2>1, HeadTailProperties, LenProperties
    <2>4. CASE m.kind = "run"
      <3>1. node' = [node EXCEPT ![m.task] = "accepted"] /\ m.task \in Task
        BY <1>10, <2>3, <2>4 DEF NodeReceive, Commands
      <3>2. m.task \in used
        BY <2>3, <2>4 DEF RunsOnce, RunsAreNew
      <3>3. \A i \in 1 .. Len(Tail(down)) : /\ Tail(down)[i] = down[i + 1]
                                            /\ i + 1 \in 1 .. Len(down) /\ i + 1 # 1
        BY <2>1, HeadTailProperties, LenProperties
      <3>4. \A i \in 1 .. Len(Tail(down)) :
                Tail(down)[i].kind = "run" => Tail(down)[i].task # m.task
        BY <2>3, <2>4, <3>3 DEF RunsOnce, RunsAreNew
      <3>5. \A i \in 1 .. Len(Tail(down)) : Tail(down)[i].task \in Task
        <4>1. Tail(down) \in Seq(Commands)
          BY <2>1, HeadTailProperties
        <4>2. \A i \in 1 .. Len(Tail(down)) : Tail(down)[i] \in Commands
          BY <4>1
        <4> QED
          BY <4>2 DEF Commands
      <3>6. RunsAreNew(Tail(down), node', used)
        BY <2>2, <3>1, <3>4, <3>5 DEF RunsAreNew, HubTypeOK
      <3>7. \A t \in Task \ used : node'[t] = "none"
        BY <3>1, <3>2 DEF RunsOnce, HubTypeOK
      <3> QED
        BY <2>1, <3>6, <3>7 DEF RunsOnce
    <2>5. CASE m.kind # "run"
      <3>1. node' = node
        BY <1>10, <2>5 DEF NodeReceive
      <3> QED
        BY <2>1, <2>2, <3>1 DEF RunsOnce
    <2> QED
      BY <2>4, <2>5
  <1> QED
    BY <1>1, <1>2, <1>4, <1>5, <1>6, <1>7, <1>8, <1>9, <1>10 DEF HubNext, TaskThread

\* Records: what the hub takes from a message or a snapshot is so.
LEMMA RecordsStayTrue ==
    ASSUME HubTypeOK, HubTypeOK', RunsOnce, NothingLies, [HubNext]_taskVars
    PROVE  Truthful(rec', node')
  <1>1. /\ Over(node) \subseteq Over(node')
        /\ \A r : Truthful(r, node) => Truthful(r, node')
    BY EndsAreFinal, StaysTrue
  <1>2. Truthful(rec, node') /\ Truthful(disk, node')
    BY <1>1 DEF NothingLies
  <1>3. ASSUME NEW t \in Task, Stop(t) \/ GraceEnds(t) \/ WindowLapses(t) \/ NodeClaim(t)
        \/ NodeStart(t) \/ NodeRefuse(t) \/ NodeFinish(t) \/ NodeReap(t) \/ NodeStop(t)
        \/ NodeRelease(t)
        PROVE  rec' = rec
    BY <1>3 DEF Stop, GraceEnds, WindowLapses, NodeClaim, NodeStart, NodeRefuse, NodeFinish,
          NodeReap, NodeStop, NodeRelease, hubVars
  <1>4. ASSUME Flush \/ Connect \/ Break \/ HubCrash \/ NodeRestart \/ NodeReceive
        \/ ListTasks \/ SendReport \/ ResendReport \/ UNCHANGED taskVars
        PROVE  rec' = rec
    BY <1>4 DEF Flush, Connect, Break, HubCrash, NodeRestart, NodeReceive, ListTasks, SendReport,
          ResendReport, hubVars, taskVars
  <1>5. ASSUME NEW t \in Task, Submit(t) \/ Release(t) \/ ForgetOffline(t)
        PROVE  Truthful(rec', node')
    <2>1. PICK s \in {"pending", "absent"} : rec' = [rec EXCEPT ![t] = s]
      BY <1>5 DEF Submit, Release, ForgetOffline
    <2> QED
      BY <1>2, <2>1 DEF HubTypeOK, Truthful, Ended
  <1>6. CASE HubReceive
    <2> DEFINE m == Head(upq)
    <2>1. upq \in Seq(Messages) /\ upq # <<>> /\ node' = node
      BY <1>6 DEF HubReceive, HubTypeOK, Messages, nodeVars
    <2>2. m \in Messages /\ Honest(m, node)
      BY <2>1, HonestTail, HeadTailProperties DEF NothingLies
    <2>3. CASE m.kind = "state" /\ OnTaskState(m)
      <3>1. m.state \in Ended => m.task \in Over(node)
        BY <2>2, <2>3 DEF Honest
      <3>2. rec' = rec \/ rec' = [rec EXCEPT ![m.task] = m.state]
        BY <2>3 DEF OnTaskState
      <3> QED
        BY <1>2, <2>1, <3>1, <3>2 DEF HubTypeOK, Truthful
    <2>4. CASE m.kind = "telemetry" /\ OnTelemetry(m.report)
      <3>1. Truthful(m.report, node)
        BY <2>2, <2>4 DEF Honest
      <3>2. \A t \in Task : \/ t \in DOMAIN m.report /\ rec'[t] = m.report[t]
                            \/ rec'[t] = "gone" \/ rec'[t] = rec[t]
        BY <2>4 DEF OnTelemetry
      <3> QED
        BY <1>2, <2>1, <3>1, <3>2 DEF HubTypeOK, Truthful, Ended
    <2> QED
      BY <1>6, <2>3, <2>4 DEF HubReceive
  <1>7. CASE HubRestore
    BY <1>2, <1>7 DEF HubRestore
  <1> QED
    BY <1>2, <1>3, <1>4, <1>5, <1>6, <1>7 DEF HubNext, TaskThread

\* Snapshots: they are taken of true records.
LEMMA SnapshotStaysTrue ==
    ASSUME HubTypeOK, HubTypeOK', RunsOnce, NothingLies, [HubNext]_taskVars
    PROVE  Truthful(disk', node')
  <1>1. /\ Over(node) \subseteq Over(node')
        /\ \A r : Truthful(r, node) => Truthful(r, node')
    BY EndsAreFinal, StaysTrue
  <1>2. Truthful(rec, node') /\ Truthful(disk, node')
    BY <1>1 DEF NothingLies
  <1>3. ASSUME NEW t \in Task, Submit(t) \/ Stop(t) \/ Release(t) \/ ForgetOffline(t)
        \/ GraceEnds(t) \/ WindowLapses(t) \/ NodeClaim(t) \/ NodeStart(t) \/ NodeRefuse(t)
        \/ NodeFinish(t) \/ NodeReap(t) \/ NodeStop(t) \/ NodeRelease(t)
        PROVE  disk' = disk
    BY <1>3 DEF Submit, Stop, Release, ForgetOffline, GraceEnds, WindowLapses, NodeClaim,
          NodeStart, NodeRefuse, NodeFinish, NodeReap, NodeStop, NodeRelease, hubVars
  <1>4. ASSUME HubReceive \/ Connect \/ Break \/ HubCrash \/ HubRestore \/ NodeRestart
        \/ NodeReceive \/ ListTasks \/ SendReport \/ ResendReport \/ UNCHANGED taskVars
        PROVE  disk' = disk
    BY <1>4 DEF HubReceive, Connect, Break, HubCrash, HubRestore, NodeRestart, NodeReceive,
          ListTasks, SendReport, ResendReport, hubVars, taskVars
  <1>5. CASE Flush
    BY <1>2, <1>5 DEF Flush
  <1> QED
    BY <1>2, <1>3, <1>4, <1>5 DEF HubNext, TaskThread

\* Reports: the list is read off the registry, and a claim read later only
\* adds tasks that have not ended.
LEMMA ReportsStayTrue ==
    ASSUME HubTypeOK, HubTypeOK', RunsOnce, NothingLies, [HubNext]_taskVars
    PROVE  \A r \in Report : listed' = <<r>> \/ last' = <<r>> => Truthful(r, node')
  <1>1. /\ Over(node) \subseteq Over(node')
        /\ \A r : Truthful(r, node) => Truthful(r, node')
    BY EndsAreFinal, StaysTrue
  <1>2. \A r \in Report : listed = <<r>> \/ last = <<r>> => Truthful(r, node')
    BY <1>1 DEF NothingLies
  <1>3. ASSUME NEW t \in Task, Submit(t) \/ Stop(t) \/ Release(t) \/ ForgetOffline(t)
        \/ GraceEnds(t) \/ WindowLapses(t) \/ NodeClaim(t) \/ NodeStart(t) \/ NodeRefuse(t)
        \/ NodeFinish(t) \/ NodeReap(t) \/ NodeStop(t) \/ NodeRelease(t)
        PROVE  listed' = listed /\ last' = last
    BY <1>3 DEF Submit, Stop, Release, ForgetOffline, GraceEnds, WindowLapses, NodeClaim,
          NodeStart, NodeRefuse, NodeFinish, NodeReap, NodeStop, NodeRelease, reportVars
  <1>4. ASSUME HubReceive \/ Flush \/ Connect \/ Break \/ HubCrash \/ HubRestore
        \/ NodeReceive \/ ResendReport \/ UNCHANGED taskVars
        PROVE  listed' = listed /\ last' = last
    BY <1>4 DEF HubReceive, Flush, Connect, Break, HubCrash, HubRestore, NodeReceive,
          ResendReport, reportVars, taskVars
  <1>5. CASE NodeRestart
    BY <1>5 DEF NodeRestart
  <1>6. CASE ListTasks
    <2> DEFINE S == {u \in Task : Registered(u)}
    <2>1. listed' = << [t \in S |-> node[t]] >> /\ last' = last /\ node' = node
      BY <1>6 DEF ListTasks, nodeVars
    <2>2. Truthful([t \in S |-> node[t]], node)
      BY DEF Truthful, Registered, Over, Ended
    <2>3. \A r : listed' = <<r>> => r = [t \in S |-> node[t]]
      BY <2>1
    <2> QED
      BY <1>2, <2>1, <2>2, <2>3
  <1>7. CASE SendReport
    <2>1. Truthful(Inventory, node)
      BY <1>7, InventoryIsTrue DEF SendReport
    <2>2. listed' = <<>> /\ (last' = <<>> \/ last' = <<Inventory>>) /\ node' = node
      BY <1>7 DEF SendReport, nodeVars
    <2>3. \A r : ~(listed' = <<r>>) /\ (last' = <<r>> => r = Inventory)
      BY <2>2
    <2> QED
      BY <2>1, <2>2, <2>3
  <1> QED
    BY <1>2, <1>3, <1>4, <1>5, <1>6, <1>7 DEF HubNext, TaskThread

\* Messages: a state is told after the step it tells of, a report after its
\* list was read, and both stay true however long they travel.
LEMMA MessagesStayTrue ==
    ASSUME HubTypeOK, HubTypeOK', RunsOnce, NothingLies, [HubNext]_taskVars
    PROVE  AllHonest(upq', node')
  <1>1. Over(node) \subseteq Over(node')
    BY EndsAreFinal
  <1>2. AllHonest(upq, node') /\ upq \in Seq(Messages)
    BY <1>1, StaysTrue DEF NothingLies, HubTypeOK, Messages
  <1>3. ASSUME NEW m \in Messages, Honest(m, node'), Sent(m) PROVE AllHonest(upq', node')
    BY <1>2, <1>3, HonestAppend DEF Sent
  <1>4. \A t \in Task, s \in {"provisioning", "running", "gone"} :
            StateMsg(t, s) \in Messages /\ Honest(StateMsg(t, s), node')
    BY DEF StateMsg, StateMsgs, Messages, RecordState, Listable, Honest, Ended
  <1>5. \A t \in Task, s \in Ended : node'[t] \in {"removed", "done", "cancelled"} =>
            StateMsg(t, s) \in Messages /\ Honest(StateMsg(t, s), node')
    BY DEF StateMsg, StateMsgs, Messages, RecordState, Listable, Honest, Ended, Over
  <1>6. \A r \in Report : Truthful(r, node') =>
            ReportMsg(r) \in Messages /\ Honest(ReportMsg(r), node')
    BY DEF ReportMsg, ReportMsgs, Messages, Honest
  <1>7. ASSUME NEW t \in Task, Submit(t) \/ Stop(t) \/ Release(t) \/ ForgetOffline(t)
        \/ GraceEnds(t) \/ WindowLapses(t) \/ NodeClaim(t) \/ NodeReap(t)
        PROVE  upq' = upq
    BY <1>7 DEF Submit, Stop, Release, ForgetOffline, GraceEnds, WindowLapses, NodeClaim,
          NodeReap, linkVars
  <1>8. ASSUME Flush \/ Connect \/ HubRestore \/ ListTasks \/ UNCHANGED taskVars
        PROVE  upq' = upq
    BY <1>8 DEF Flush, Connect, HubRestore, ListTasks, linkVars, taskVars
  <1>9. CASE Break \/ HubCrash \/ NodeRestart
    BY <1>9, HonestEmpty DEF Break, HubCrash, NodeRestart, StreamLost
  <1>10. ASSUME NEW t \in Task, NodeStart(t) PROVE AllHonest(upq', node')
    BY <1>3, <1>4, <1>10 DEF NodeStart
  <1>11. ASSUME NEW t \in Task, NodeRefuse(t) PROVE AllHonest(upq', node')
    <2>1. node'[t] = "removed" /\ Sent(StateMsg(t, "failed"))
      BY <1>11 DEF NodeRefuse, HubTypeOK
    <2> QED
      BY <1>3, <1>5, <2>1 DEF Ended
  <1>12. ASSUME NEW t \in Task, NodeFinish(t) PROVE AllHonest(upq', node')
    <2>1. PICK s \in {"done", "cancelled"} : node'[t] = s /\ Sent(StateMsg(t, s))
      BY <1>12 DEF NodeFinish, HubTypeOK
    <2> QED
      BY <1>3, <1>5, <2>1 DEF Ended
  <1>13. ASSUME NEW t \in Task, NodeStop(t) PROVE AllHonest(upq', node')
    <2>1. \/ node'[t] = "cancelled" /\ Sent(StateMsg(t, "cancelled"))
          \/ upq' = upq
      BY <1>13 DEF NodeStop, HubTypeOK
    <2> QED
      BY <1>2, <1>3, <1>5, <2>1 DEF Ended
  <1>14. ASSUME NEW t \in Task, NodeRelease(t) PROVE AllHonest(upq', node')
    BY <1>3, <1>4, <1>14 DEF NodeRelease
  <1>15. CASE HubReceive
    BY <1>2, <1>15, HonestTail DEF HubReceive
  <1>16. CASE NodeReceive
    <2>1. Head(down).task \in Task
      <3>1. down \in Seq(Commands) /\ down # <<>>
        BY <1>16 DEF NodeReceive, HubTypeOK
      <3>2. Head(down) \in Commands
        BY <3>1, HeadTailProperties
      <3> QED
        BY <3>2 DEF Commands
    <2>2. upq' = upq \/ Sent(StateMsg(Head(down).task, "provisioning"))
      BY <1>16 DEF NodeReceive
    <2> QED
      BY <1>2, <1>3, <1>4, <2>1, <2>2
  <1>17. CASE SendReport
    <2>1. Inventory \in Report /\ Truthful(Inventory, node) /\ node' = node
      BY <1>17, InventoryIsReport, InventoryIsTrue DEF SendReport, nodeVars
    <2>2. Sent(ReportMsg(Inventory))
      BY <1>17 DEF SendReport
    <2> QED
      BY <1>3, <1>6, <2>1, <2>2
  <1>18. CASE ResendReport
    <2> DEFINE r == IF last = <<>> THEN <<>> ELSE Head(last)
    <2>1. r \in Report /\ Truthful(r, node)
      <3>1. CASE last = <<>>
        BY <3>1, EmptyReport DEF Truthful
      <3>2. CASE last # <<>>
        <4>1. PICK k \in Report : last = <<k>>
          BY <3>2 DEF HubTypeOK
        <4> QED
          BY <4>1, <3>2 DEF NothingLies
      <3> QED
        BY <3>1, <3>2
    <2>2. node' = node /\ Sent(ReportMsg(r))
      BY <1>18 DEF ResendReport, nodeVars
    <2> QED
      BY <1>3, <1>6, <2>1, <2>2
  <1> QED
    BY <1>2, <1>7, <1>8, <1>9, <1>10, <1>11, <1>12, <1>13, <1>14, <1>15, <1>16, <1>17,
          <1>18 DEF HubNext, TaskThread

-----------------------------------------------------------------------------

LEMMA Inductive == HubSpec => []IInv
  <1>1. HubInit => IInv
    <2> SUFFICES ASSUME HubInit PROVE IInv
      OBVIOUS
    <2>1. HubTypeOK
      BY DEF HubInit, HubTypeOK, RecordState, NodeState
    <2>2. NothingLies
      BY HonestEmpty DEF HubInit, NothingLies, Truthful, Ended
    <2>3. RunsOnce
      BY DEF HubInit, RunsOnce, RunsAreNew
    <2> QED
      BY <2>1, <2>2, <2>3 DEF IInv
  <1>2. IInv /\ [HubNext]_taskVars => IInv'
    <2> SUFFICES ASSUME IInv, [HubNext]_taskVars PROVE IInv'
      OBVIOUS
    <2>1. HubTypeOK /\ NothingLies /\ RunsOnce
      BY DEF IInv
    <2>2. HubTypeOK'
      BY <2>1, Typing
    <2>3. RunsOnce'
      BY <2>1, RunsOnceStays
    <2>4. NothingLies'
      BY <2>1, <2>2, RecordsStayTrue, SnapshotStaysTrue, ReportsStayTrue, MessagesStayTrue
      DEF NothingLies
    <2> QED
      BY <2>2, <2>3, <2>4 DEF IInv
  <1> QED
    BY <1>1, <1>2, PTL DEF HubSpec

\* A record that says its task ended in its own way is right: the node no
\* longer holds it, whatever was lost, repeated, restored or reordered between
\* the two (agents.py, on_task_state and on_telemetry).
THEOREM NoFalseEndHolds == HubSpec => []NoFalseEnd
  <1>1. IInv => NoFalseEnd
    BY DEF IInv, HubTypeOK, NothingLies, NoFalseEnd, Truthful, Over, Ended, Holds
  <1> QED
    BY <1>1, Inductive, PTL

(* ------------------------------------------------- the preemption plan --- *)
\* Groups the loop has passed.
Passed == Movable \ todo

\* The loop has not begun.
Asked == verdict = "asked" => evict = {}

\* The loop's invariant: it passes groups in order, collects the nodes of all
\* it passed, evicts those that brought a new one, and goes on only while
\* there are too few; `sure' is what it had before the last eviction.
Looking ==
    verdict = "looking" =>
        /\ need > 0 /\ Cardinality(free) < need
        /\ todo \subseteq Movable
        /\ \A g \in Passed, h \in todo : Before(g, h)
        /\ seen = free \union NodesOf(Passed)
        /\ seen = free \union NodesOf(evict)
        /\ evict \subseteq Passed
        /\ \A g \in Passed :
              /\ Cardinality(Covered(g)) < need
              /\ g \in evict <=> ~(on[g] \subseteq Covered(g))
        /\ sure \subseteq seen /\ Cardinality(sure) < need
        /\ evict # {} => \E g \in evict : free \union NodesOf(evict \ {g}) \subseteq sure

\* The inductive invariant.
PlanInv ==
    /\ PlanTypeOK
    /\ Asked
    /\ Looking
    /\ PlanSuffices
    /\ RefusalIsJust
    /\ PlanIsDetermined
    /\ LastOneCounts

-----------------------------------------------------------------------------
(* Lemmas about the operators *)

\* Counting sets of nodes: a natural number, monotonic in the set.
LEMMA NodeCount ==
    ASSUME NEW S \in SUBSET Node, NEW T \in SUBSET S
    PROVE  /\ Cardinality(S) \in Nat /\ Cardinality(T) \in Nat
           /\ Cardinality(T) <= Cardinality(S)
  <1>1. IsFiniteSet(S)
    BY FiniteAssumption, FS_Subset
  <1>2. IsFiniteSet(T) /\ Cardinality(T) <= Cardinality(S)
    BY <1>1, FS_Subset
  <1>3. QED
    BY <1>1, <1>2, FS_CardinalityType

\* The nodes of groups, and the coverage of a group, are nodes.
LEMMA NodesOfNodes ==
    ASSUME PlanTypeOK
    PROVE  /\ \A S \in SUBSET Group : NodesOf(S) \subseteq Node
           /\ Movable \subseteq Group
           /\ \A g : Covered(g) \subseteq Node /\ free \subseteq Covered(g)
  <1>1. \A S \in SUBSET Group : NodesOf(S) \subseteq Node
    BY DEF PlanTypeOK, NodesOf
  <1>2. Movable \subseteq Group
    BY DEF Movable
  <1>3. ASSUME NEW g PROVE Covered(g) \subseteq Node /\ free \subseteq Covered(g)
    <2>1. {h \in Movable : Before(h, g)} \in SUBSET Group
      BY <1>2
    <2>2. NodesOf({h \in Movable : Before(h, g)}) \subseteq Node
      BY <1>1, <2>1
    <2>3. QED
      BY <2>2 DEF Covered, PlanTypeOK
  <1>4. QED
    BY <1>1, <1>2, <1>3

\* The sort order is strict.
LEMMA BeforeStrict ==
    ASSUME PlanTypeOK, NEW g \in Group, NEW h \in Group, Before(g, h)
    PROVE  ~Before(h, g)
  <1>1. on[g] \ free \in SUBSET Node /\ on[h] \ free \in SUBSET Node
    BY DEF PlanTypeOK
  <1>2. Cardinality(on[g] \ free) \in Nat /\ Cardinality(on[h] \ free) \in Nat
    BY <1>1, NodeCount
  <1>3. since[g] \in Int /\ since[h] \in Int /\ g \in Int /\ h \in Int
    BY NumbersAssumption, NamesAssumption DEF PlanTypeOK
  <1>4. QED
    BY <1>2, <1>3 DEF Before

\* What is computed from the arguments stays while the arguments stay.
LEMMA Stable ==
    ASSUME UNCHANGED asked
    PROVE  /\ Movable' = Movable
           /\ \A S : NodesOf(S)' = NodesOf(S)
           /\ \A g, h : Before(g, h)' <=> Before(g, h)
           /\ \A g : Covered(g)' = Covered(g)
           /\ Evicted' = Evicted
  <1>1. Movable' = Movable
    BY DEF asked, Movable
  <1>2. \A S : NodesOf(S)' = NodesOf(S)
    BY DEF asked, NodesOf
  <1>3. \A g, h : Before(g, h)' <=> Before(g, h)
    BY DEF asked, Before
  <1>4. \A g : Covered(g)' = Covered(g)
    BY <1>1, <1>3 DEF asked, Covered, NodesOf
  <1>5. Evicted' = Evicted
    BY <1>1, <1>4 DEF asked, Evicted
  <1>6. QED
    BY <1>1, <1>2, <1>3, <1>4, <1>5

\* When the loop comes to g, it has collected exactly what comes before g.
LEMMA CoveredIsSeen ==
    ASSUME PlanInv, NEW g \in Group, Turn(g)
    PROVE  Covered(g) = seen
  <1>1. verdict = "looking" /\ g \in todo /\ \A h \in todo \ {g} : Before(g, h)
    BY DEF Turn
  <1>2. /\ todo \subseteq Movable /\ Movable \subseteq Group
        /\ \A x \in Passed, y \in todo : Before(x, y)
        /\ seen = free \union NodesOf(Passed)
    BY <1>1 DEF PlanInv, Looking, Movable
  <1>3. ASSUME NEW h \in Movable PROVE Before(h, g) <=> h \in Passed
    <2>1. CASE h \in Passed
      BY <1>1, <1>2, <2>1
    <2>2. CASE h = g
      BY <1>1, <1>2, <2>2, BeforeStrict DEF PlanInv, Passed
    <2>3. CASE h \in todo \ {g}
      BY <1>1, <1>2, <2>3, BeforeStrict DEF PlanInv, Passed
    <2>4. QED
      BY <2>1, <2>2, <2>3 DEF Passed
  <1>4. {h \in Movable : Before(h, g)} = Passed
    BY <1>3 DEF Passed
  <1>5. QED
    BY <1>2, <1>4 DEF Covered

-----------------------------------------------------------------------------
(* Preservation *)

\* The initial states satisfy the invariant.
LEMMA InitPlanInv == PlanInit => PlanInv
  <1> SUFFICES ASSUME PlanInit PROVE PlanInv
    OBVIOUS
  <1>1. PlanTypeOK
    BY DEF PlanInit, PlanTypeOK
  <1>2. Asked /\ Looking /\ PlanSuffices /\ RefusalIsJust
        /\ PlanIsDetermined /\ LastOneCounts
    BY DEF PlanInit, Asked, Looking, PlanSuffices, RefusalIsJust, PlanIsDetermined,
           LastOneCounts
  <1>3. QED
    BY <1>1, <1>2 DEF PlanInv

\* Requests settled before the loop.
LEMMA EarlyStep == PlanInv /\ (RefuseZero \/ TakeFree) => PlanInv'
  <1> SUFFICES ASSUME PlanInv, RefuseZero \/ TakeFree PROVE PlanInv'
    OBVIOUS
  <1> USE DEF PlanInv
  <1>1. CASE RefuseZero
    <2>1. PlanTypeOK'
      BY <1>1 DEF RefuseZero, asked, PlanTypeOK
    <2>2. need' \in Int /\ need' <= 0 /\ verdict' = "refusal"
      BY <1>1, NumbersAssumption DEF RefuseZero, asked, PlanTypeOK
    <2>3. (Asked /\ Looking /\ PlanSuffices /\ RefusalIsJust
            /\ PlanIsDetermined /\ LastOneCounts)'
      BY <2>2 DEF Asked, Looking, PlanSuffices, RefusalIsJust, PlanIsDetermined,
                  LastOneCounts
    <2>4. QED
      BY <2>1, <2>3
  <1>2. CASE TakeFree
    <2>1. PICK S \in SUBSET free : Cardinality(S) = need /\ nodes' = S
      BY <1>2 DEF TakeFree
    <2>2. /\ verdict' = "plan" /\ need > 0 /\ UNCHANGED asked
          /\ Cardinality(free) >= need
          /\ evict' = {} /\ UNCHANGED <<todo, seen, sure, evict>>
      BY <1>2 DEF TakeFree, Asked
    <2>3. S # {}
      BY <2>1, <2>2, FS_EmptySet
    <2>4. PlanTypeOK'
      BY <2>1, <2>2, <2>3 DEF asked, PlanTypeOK
    <2>5. PlanSuffices'
      BY <2>1, <2>2 DEF asked, PlanSuffices
    <2>6. Evicted = {}
      <3>1. SUFFICES ASSUME NEW g \in Movable PROVE ~(Cardinality(Covered(g)) < need)
        BY DEF Evicted
      <3>2. Covered(g) \in SUBSET Node /\ free \in SUBSET Covered(g)
        BY NodesOfNodes
      <3>3. /\ Cardinality(free) <= Cardinality(Covered(g))
            /\ Cardinality(free) \in Nat /\ Cardinality(Covered(g)) \in Nat
        BY <3>2, NodeCount
      <3>4. need \in Int
        BY NumbersAssumption DEF PlanTypeOK
      <3>5. QED
        BY <2>2, <3>3, <3>4
    <2>7. PlanIsDetermined'
      BY <2>2, <2>6, Stable DEF PlanIsDetermined
    <2>8. (Asked /\ Looking /\ RefusalIsJust /\ LastOneCounts)'
      BY <2>2 DEF Asked, Looking, RefusalIsJust, LastOneCounts
    <2>9. QED
      BY <2>4, <2>5, <2>7, <2>8
  <1>3. QED
    BY <1>1, <1>2

\* The loop begins with nothing passed.
LEMMA BeginStep == PlanInv /\ Begin => PlanInv'
  <1> SUFFICES ASSUME PlanInv, Begin PROVE PlanInv'
    OBVIOUS
  <1> USE DEF PlanInv
  <1>1. /\ verdict' = "looking" /\ need > 0 /\ Cardinality(free) < need
        /\ UNCHANGED asked /\ todo' = Movable /\ seen' = free /\ sure' = free
        /\ evict' = {} /\ UNCHANGED nodes /\ verdict = "asked"
    BY DEF Begin, Asked
  <1>2. PlanTypeOK'
    BY <1>1 DEF asked, PlanTypeOK, Movable
  <1>3. Movable' = Movable /\ Passed' = {}
    BY <1>1, Stable DEF Passed
  <1>4. NodesOf({}) = {} /\ NodesOf({})' = {}
    BY DEF NodesOf
  <1>5. Looking'
    BY <1>1, <1>3, <1>4 DEF asked, Looking, NodesOf
  <1>6. (Asked /\ PlanSuffices /\ RefusalIsJust /\ PlanIsDetermined /\ LastOneCounts)'
    BY <1>1 DEF Asked, PlanSuffices, RefusalIsJust, PlanIsDetermined, LastOneCounts
  <1>7. QED
    BY <1>2, <1>5, <1>6

\* A pass of the loop: g joins the groups passed, evicted or not.
LEMMA PassStep == PlanInv /\ (\E g \in Group : Skip(g) \/ Evict(g)) => PlanInv'
  <1> SUFFICES ASSUME PlanInv, NEW g \in Group, Skip(g) \/ Evict(g) PROVE PlanInv'
    OBVIOUS
  <1>1. /\ verdict = "looking" /\ verdict' = "looking" /\ UNCHANGED <<asked, nodes>>
        /\ g \in todo /\ todo' = todo \ {g} /\ Turn(g)
        /\ \A h \in todo \ {g} : Before(g, h)
    BY DEF Skip, Evict, Turn
  <1>2. Covered(g) = seen
    BY <1>1, CoveredIsSeen
  <1>3. Looking /\ PlanTypeOK /\ Movable \subseteq Group
    BY DEF PlanInv, Movable
  <1>4. Cardinality(seen) \in Nat /\ need \in Int /\ Cardinality(seen) < need
    <2>1. Cardinality(seen) \in Nat
      BY <1>3, NodeCount DEF PlanTypeOK
    <2>2. need \in Int /\ ~Enough
      BY <1>1, <1>3, NumbersAssumption DEF PlanTypeOK, Turn
    <2>3. QED
      BY <2>1, <2>2 DEF Enough
  <1>5. Passed' = Passed \union {g} /\ g \notin Passed /\ g \in Movable
    BY <1>1, <1>3, Stable DEF Passed, Looking
  <1>6. \A S : NodesOf(S \union {g}) = NodesOf(S) \union on[g]
    BY DEF NodesOf
  <1>7. PlanTypeOK'
    BY <1>1, <1>3 DEF PlanTypeOK, asked, Skip, Evict
  <1>8. /\ need' = need /\ free' = free /\ on' = on /\ need > 0 /\ Cardinality(free) < need
        /\ todo' \subseteq Movable'
        /\ \A x \in Passed', y \in todo' : Before(x, y)'
    <2>1. need > 0 /\ Cardinality(free) < need /\ todo \subseteq Movable
          /\ \A x \in Passed, y \in todo : Before(x, y)
      BY <1>1, <1>3 DEF Looking
    <2>2. \A x \in Passed', y \in todo' : Before(x, y)
      BY <1>1, <1>5, <2>1
    <2>3. \A x \in Passed', y \in todo' : Before(x, y)'
      BY <1>1, <2>2, Stable
    <2>4. QED
      BY <1>1, <2>1, <2>3, Stable DEF asked
  <1>9. Looking'
    <2>1. /\ seen = free \union NodesOf(Passed) /\ seen = free \union NodesOf(evict)
          /\ evict \subseteq Passed
          /\ sure \subseteq seen /\ Cardinality(sure) < need
          /\ \A x \in Passed : /\ Cardinality(Covered(x)) < need
                               /\ x \in evict <=> ~(on[x] \subseteq Covered(x))
          /\ evict # {} =>
                \E x \in evict : free \union NodesOf(evict \ {x}) \subseteq sure
      BY <1>1, <1>3 DEF Looking
    <2>2. CASE Skip(g)
      <3>1. seen' = seen /\ sure' = sure /\ evict' = evict /\ on[g] \subseteq seen
        BY <2>2 DEF Skip
      <3>2. seen' = free' \union NodesOf(Passed')
        BY <1>5, <1>6, <1>8, <2>1, <3>1
      <3>3. \A x \in Passed' : /\ Cardinality(Covered(x)) < need
                               /\ x \in evict' <=> ~(on[x] \subseteq Covered(x))
        BY <1>2, <1>4, <1>5, <2>1, <3>1
      <3>4. /\ \A S : NodesOf(S)' = NodesOf(S)
            /\ \A x : Covered(x)' = Covered(x)
        BY <1>1, Stable
      <3>5. QED
        BY <1>5, <1>8, <2>1, <3>1, <3>2, <3>3, <3>4 DEF Looking, NodesOf
    <2>3. CASE Evict(g)
      <3>1. /\ seen' = seen \union on[g] /\ sure' = seen /\ evict' = evict \union {g}
            /\ ~(on[g] \subseteq seen)
        BY <2>3 DEF Evict
      <3>2. seen' = free \union NodesOf(Passed') /\ seen' = free \union NodesOf(evict')
        BY <1>5, <1>6, <2>1, <3>1
      <3>3. \A x \in Passed' : /\ Cardinality(Covered(x)) < need
                               /\ x \in evict' <=> ~(on[x] \subseteq Covered(x))
        BY <1>2, <1>4, <1>5, <2>1, <3>1
      <3>4. /\ \A S : NodesOf(S)' = NodesOf(S)
            /\ \A x : Covered(x)' = Covered(x)
        BY <1>1, Stable
      <3>5. evict' \ {g} = evict
        BY <1>5, <2>1, <3>1
      <3>6. \E x \in evict' : free \union NodesOf(evict' \ {x}) \subseteq sure'
        BY <2>1, <3>1, <3>5
      <3>7. evict' \subseteq Passed' /\ sure' \subseteq seen' /\ Cardinality(sure') < need
        BY <1>4, <1>5, <2>1, <3>1
      <3>8. QED
        BY <1>8, <3>2, <3>3, <3>4, <3>6, <3>7 DEF Looking, NodesOf
    <2>4. QED
      BY <2>2, <2>3
  <1>10. (Asked /\ PlanSuffices /\ RefusalIsJust /\ PlanIsDetermined /\ LastOneCounts)'
    BY <1>1 DEF Asked, PlanSuffices, RefusalIsJust, PlanIsDetermined, LastOneCounts
  <1>11. QED
    BY <1>7, <1>9, <1>10 DEF PlanInv

\* The loop stops with enough: what it evicted is the closed form, because a
\* group it never came to has enough before it.
LEMMA GrantStep == PlanInv /\ Grant => PlanInv'
  <1> SUFFICES ASSUME PlanInv, Grant PROVE PlanInv'
    OBVIOUS
  <1>1. PICK S \in SUBSET seen : Cardinality(S) = need /\ nodes' = S
    BY DEF Grant
  <1>2. /\ verdict = "looking" /\ verdict' = "plan" /\ Cardinality(seen) >= need
        /\ UNCHANGED <<asked, todo, seen, sure, evict>>
    BY DEF Grant, Enough
  <1>3. Looking /\ PlanTypeOK /\ Movable \subseteq Group
    BY DEF PlanInv, Movable
  <1>4. /\ need > 0 /\ todo \subseteq Movable
        /\ \A x \in Passed, y \in todo : Before(x, y)
        /\ seen = free \union NodesOf(Passed) /\ seen = free \union NodesOf(evict)
        /\ evict \subseteq Passed
        /\ sure \subseteq seen /\ Cardinality(sure) < need
        /\ \A x \in Passed : /\ Cardinality(Covered(x)) < need
                             /\ x \in evict <=> ~(on[x] \subseteq Covered(x))
        /\ evict # {} => \E x \in evict : free \union NodesOf(evict \ {x}) \subseteq sure
    BY <1>2, <1>3 DEF Looking
  <1>5. need \in Int /\ seen \in SUBSET Node /\ sure \in SUBSET Node
    BY <1>3, NumbersAssumption DEF PlanTypeOK
  <1>6. S # {}
    BY <1>1, <1>4, FS_EmptySet
  <1>7. PlanTypeOK'
    BY <1>1, <1>2, <1>3, <1>6 DEF PlanTypeOK, asked
  <1>8. PlanSuffices'
    <2>1. nodes' \subseteq free \union NodesOf(evict)
      BY <1>1, <1>4
    <2>2. \A g \in evict : role[g] = "model"
      BY <1>4 DEF Passed, Movable
    <2>3. QED
      BY <1>1, <1>2, <2>1, <2>2 DEF PlanSuffices, asked, NodesOf
  <1>9. evict = Evicted
    <2>1. ASSUME NEW g \in todo PROVE ~(Cardinality(Covered(g)) < need)
      <3>1. Passed \subseteq {h \in Movable : Before(h, g)}
        BY <1>4 DEF Passed
      <3>2. seen \subseteq Covered(g)
        BY <1>4, <3>1 DEF Covered, NodesOf
      <3>3. Covered(g) \in SUBSET Node
        BY <1>3, NodesOfNodes
      <3>4. /\ Cardinality(seen) <= Cardinality(Covered(g))
            /\ Cardinality(seen) \in Nat /\ Cardinality(Covered(g)) \in Nat
        BY <3>2, <3>3, NodeCount
      <3>5. QED
        BY <1>2, <1>5, <3>4
    <2>2. QED
      BY <1>4, <2>1 DEF Evicted, Passed
  <1>10. PlanIsDetermined'
    BY <1>2, <1>9, Stable DEF PlanIsDetermined
  <1>11. LastOneCounts'
    <2>1. SUFFICES ASSUME evict # {}
                   PROVE  \E g \in evict :
                             Cardinality(free \union NodesOf(evict \ {g})) < need
      BY <1>2, Stable DEF LastOneCounts, asked, NodesOf
    <2>2. PICK g \in evict : free \union NodesOf(evict \ {g}) \subseteq sure
      BY <1>4, <2>1
    <2>3. /\ Cardinality(free \union NodesOf(evict \ {g})) <= Cardinality(sure)
          /\ Cardinality(free \union NodesOf(evict \ {g})) \in Nat
          /\ Cardinality(sure) \in Nat
      BY <1>5, <2>2, NodeCount
    <2>4. Cardinality(sure) < need
      BY <1>4
    <2>5. Cardinality(free \union NodesOf(evict \ {g})) < need
      BY ONLY <1>5, <2>3, <2>4
    <2>6. QED
      BY <2>5
  <1>12. (Asked /\ Looking /\ RefusalIsJust)'
    BY <1>2 DEF Asked, Looking, RefusalIsJust
  <1>13. QED
    BY <1>7, <1>8, <1>10, <1>11, <1>12 DEF PlanInv

\* The loop runs out of groups: all that may move has been counted.
LEMMA RefuseStep == PlanInv /\ RefusePlan => PlanInv'
  <1> SUFFICES ASSUME PlanInv, RefusePlan PROVE PlanInv'
    OBVIOUS
  <1>1. /\ verdict = "looking" /\ verdict' = "refusal" /\ ~Enough /\ todo = {}
        /\ evict' = {} /\ UNCHANGED <<asked, todo, seen, sure, nodes>>
    BY DEF RefusePlan
  <1>2. Looking /\ PlanTypeOK
    BY DEF PlanInv
  <1>3. PlanTypeOK'
    BY <1>1, <1>2 DEF PlanTypeOK, asked
  <1>4. seen = free \union NodesOf(Movable)
    BY <1>1, <1>2 DEF Looking, Passed
  <1>5. Cardinality(seen) < need
    <2>1. Cardinality(seen) \in Nat /\ need \in Int
      BY <1>2, NodeCount, NumbersAssumption DEF PlanTypeOK
    <2>2. QED
      BY <1>1, <2>1 DEF Enough
  <1>6. RefusalIsJust'
    BY <1>1, <1>4, <1>5, Stable DEF RefusalIsJust, asked, NodesOf
  <1>7. (Asked /\ Looking /\ PlanSuffices /\ PlanIsDetermined /\ LastOneCounts)'
    BY <1>1 DEF Asked, Looking, PlanSuffices, PlanIsDetermined, LastOneCounts
  <1>8. QED
    BY <1>3, <1>6, <1>7 DEF PlanInv

\* Every step keeps the invariant.
LEMMA PlanInvStep == PlanInv /\ [PlanNext]_planVars => PlanInv'
  <1> SUFFICES ASSUME PlanInv, [PlanNext]_planVars PROVE PlanInv'
    OBVIOUS
  <1>1. CASE UNCHANGED planVars
    <2>1. UNCHANGED asked /\ UNCHANGED <<verdict, todo, seen, sure, evict, nodes>>
      BY <1>1 DEF planVars
    <2>2. PlanTypeOK' /\ Asked'
      BY <2>1 DEF PlanInv, PlanTypeOK, Asked, asked
    <2>3. Passed' = Passed
      BY <2>1, Stable DEF Passed
    <2>4. Looking'
      BY <2>1, <2>3, Stable DEF PlanInv, Looking, asked, NodesOf
    <2>5. (PlanSuffices /\ RefusalIsJust /\ PlanIsDetermined /\ LastOneCounts)'
      BY <2>1, Stable DEF PlanInv, PlanSuffices, RefusalIsJust, PlanIsDetermined,
                          LastOneCounts, asked, NodesOf
    <2>6. QED
      BY <2>2, <2>4, <2>5 DEF PlanInv
  <1>2. CASE PlanNext
    BY <1>2, EarlyStep, BeginStep, PassStep, GrantStep, RefuseStep DEF PlanNext
  <1>3. QED
    BY <1>1, <1>2

\* The invariant holds throughout.
LEMMA PlanInvHolds == PlanSpec => []PlanInv
  BY InitPlanInv, PlanInvStep, PTL DEF PlanSpec

-----------------------------------------------------------------------------
(* Theorems *)

\* A plan gives exactly as many nodes as were asked for, every one free or
\* under an unprotected model it evicts (plan, standing_from).
THEOREM PlanDelivers == PlanSpec => []PlanSuffices
  <1>1. PlanInv => PlanSuffices
    BY DEF PlanInv
  <1>2. QED
    BY <1>1, PlanInvHolds, PTL

\* A refusal means that no set of permitted evictions would have been enough:
\* plan never refuses what it could have given.
THEOREM RefusalIsComplete == PlanSpec => []RefusalIsJust
  <1>1. PlanInv => RefusalIsJust
    BY DEF PlanInv
  <1>2. QED
    BY <1>1, PlanInvHolds, PTL

\* Whom plan evicts is a function of its arguments, given in closed form: the
\* order the groups are listed in does not matter.
THEOREM PlanIsAFunction == PlanSpec => []PlanIsDetermined
  <1>1. PlanInv => PlanIsDetermined
    BY DEF PlanInv
  <1>2. QED
    BY <1>1, PlanInvHolds, PTL

\* plan evicts no group after it has enough.
THEOREM NoneTooMany == PlanSpec => []LastOneCounts
  <1>1. PlanInv => LastOneCounts
    BY DEF PlanInv
  <1>2. QED
    BY <1>1, PlanInvHolds, PTL
=============================================================================
