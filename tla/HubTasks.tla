------------------------------ MODULE HubTasks ------------------------------
(***************************************************************************)
(* What the orchestrator knows of a node's tasks, against what the node    *)
(* really holds: AgentHub (src/looma/orchestrator/agents.py), the stream   *)
(* (agent/looma_agent/control/client.py, handlers.py), TaskCommands        *)
(* (control/tasks.py) and the heartbeat's report (main.py).                *)
(*                                                                         *)
(* One node; its registry is reduced to what a report says of a task (the  *)
(* cards are in TaskRegistry).  Records are kept by AgentHub.tasks and     *)
(* snapshotted to disk; commands and reports travel in two queues that die *)
(* with the stream.  Stop and release run on threads of their own (SLOW).  *)
(* The ninety-second grace is not a clock: a record may leave it at any    *)
(* moment at which its command is no longer on the road.                   *)
(*                                                                         *)
(* Left out: results, logs, tunnels, acks (nobody waits for these three    *)
(* commands' acks), several nodes, and messages of a replaced stream read  *)
(* after the new one registered.                                           *)
(***************************************************************************)
EXTENDS Naturals, Sequences

CONSTANTS
    Task,           \* task ids
    MaxQueue,       \* bound: messages of one direction on the stream
    MaxBreaks,      \* bound: broken streams and restarts, together
    MaxStale        \* bound: reports sent again because a new one is stuck

ASSUME QueuesAssumption ==
    MaxQueue \in Nat \ {0} /\ MaxBreaks \in Nat /\ MaxStale \in Nat

VARIABLES
    \* the orchestrator
    hubUp,
    rec,        \* state of TaskRecord in AgentHub.tasks; "absent": no record
    young,      \* records submitted or adopted within ADOPTION_GRACE_S
    released,   \* _released: "no", "recent", "lapsed" (older than the grace)
    disk,       \* the last snapshot, as StateStore would load it
    \* the stream
    link, down, upq,
    \* the node
    node,       \* what the node holds of each task; "accepted": the thread of
                \* _carry_out exists but has not claimed the id yet
    slow,       \* stop and release commands running on threads
    listed,     \* the report under construction: <<>> or <<states listed>>
    last,       \* _last_report, kept while the bound lets it be sent again
    \* bounds and observation
    used, breaks, stales

hubVars == <<hubUp, rec, young, released, disk>>
linkVars == <<link, down, upq>>
nodeVars == <<node, slow>>
reportVars == <<listed, last>>
auxVars == <<used, breaks, stales>>
taskVars == <<hubVars, linkVars, nodeVars, reportVars, auxVars>>

Final == {"done", "failed", "cancelled", "gone"}

\* In the registry's _tasks, hence listed by list().
Registered(t) == node[t] \in {"running", "done", "cancelled"}
Holds(t) == node[t] \in {"claimed", "running"}

\* A report: the states of the tasks it lists.
Report == UNION {[S -> {"provisioning", "running", "done", "cancelled"}] : S \in SUBSET Task}

StateMsg(t, s) == [kind |-> "state", task |-> t, state |-> s]
ReportMsg(r) == [kind |-> "telemetry", report |-> r]
Command(k, t) == [kind |-> k, task |-> t]

\* ControlClient.send: dropped when offline.
Sent(m) == upq' = IF link THEN Append(upq, m) ELSE upq

HubInit ==
    /\ hubUp = TRUE
    /\ rec = [t \in Task |-> "absent"]
    /\ young = {}
    /\ released = [t \in Task |-> "no"]
    /\ disk = rec
    /\ link = FALSE /\ down = <<>> /\ upq = <<>>
    /\ node = [t \in Task |-> "none"]
    /\ slow = {}
    /\ listed = <<>> /\ last = <<>>
    /\ used = {} /\ breaks = 0 /\ stales = 0

-----------------------------------------------------------------------------
(* The orchestrator's operations *)

HasRoom == Len(down) < MaxQueue

Submit(t) ==
    /\ hubUp /\ link /\ t \notin used /\ HasRoom
    /\ rec' = [rec EXCEPT ![t] = "pending"]
    /\ young' = young \union {t}
    /\ down' = Append(down, Command("run", t))
    /\ used' = used \union {t}
    /\ UNCHANGED <<hubUp, released, disk, link, upq, nodeVars, reportVars,
                   breaks, stales>>

\* Only sent: the record changes when the node says so.
Stop(t) ==
    /\ hubUp /\ link /\ rec[t] # "absent" /\ HasRoom
    /\ down' = Append(down, Command("stop", t))
    /\ UNCHANGED <<hubVars, link, upq, nodeVars, reportVars, used, breaks, stales>>

Release(t) ==
    /\ hubUp /\ link /\ rec[t] # "absent" /\ HasRoom
    /\ down' = Append(down, Command("release", t))
    /\ rec' = [rec EXCEPT ![t] = "absent"]
    /\ released' = [released EXCEPT ![t] = "recent"]
    /\ UNCHANGED <<hubUp, young, disk, link, upq, nodeVars, reportVars, used, breaks, stales>>

\* forget_group while the node is away: the record goes, nothing is sent.
ForgetOffline(t) ==
    /\ hubUp /\ ~link /\ rec[t] # "absent"
    /\ rec' = [rec EXCEPT ![t] = "absent"]
    /\ UNCHANGED <<hubUp, young, released, disk, linkVars, nodeVars, reportVars, auxVars>>

\* on_task_state for a report of one task: unknown ids are ignored.
OnTaskState(m) ==
    /\ rec' = IF rec[m.task] = "absent" THEN rec ELSE [rec EXCEPT ![m.task] = m.state]
    /\ UNCHANGED <<young, released>>

\* A listed task the hub has no record of is taken back, unless just released.
Adopts(r) == {t \in DOMAIN r : rec[t] = "absent" /\ released[t] = "no"}

\* (Fault: the grace is compared the wrong way round.)
Missing_Inverted(r) == {t \in Task \ DOMAIN r : rec[t] \notin Final \union {"absent"} /\ t \in young}

\* _reconcile: the report is taken for the node's full inventory.
Missing(r) == {t \in Task \ DOMAIN r : rec[t] \notin Final \union {"absent"} /\ t \notin young}

OnTelemetry(r) ==
    /\ rec' = [t \in Task |->
                  IF t \in DOMAIN r /\ (rec[t] # "absent" \/ t \in Adopts(r)) THEN r[t]
                  ELSE IF t \in Missing(r) THEN "gone"
                  ELSE rec[t]]
    /\ young' = young \union Adopts(r)
    /\ released' = [t \in Task |-> IF released[t] = "lapsed" THEN "no" ELSE released[t]]

HubReceive ==
    /\ hubUp /\ link /\ upq # <<>>
    /\ upq' = Tail(upq)
    /\ LET m == Head(upq) IN
          \/ m.kind = "state" /\ OnTaskState(m)
          \/ m.kind = "telemetry" /\ OnTelemetry(m.report)
    /\ UNCHANGED <<hubUp, disk, link, down, nodeVars, reportVars, auxVars>>

\* Every change of a record marks the snapshot dirty; flush_loop writes it.
\* (Within the bound: a snapshot no crash is left to make use of is not kept.)
Flush ==
    /\ hubUp /\ disk # rec /\ breaks < MaxBreaks
    /\ disk' = rec
    /\ UNCHANGED <<hubUp, rec, young, released, linkVars, nodeVars, reportVars, auxVars>>

\* The grace covers the road: the command has arrived and been claimed (or was
\* lost with its stream), and no report older than that is under construction
\* or still travelling.
Arrived(t) ==
    /\ listed = <<>>
    /\ \A i \in DOMAIN down : down[i] # Command("run", t)
    /\ node[t] # "accepted"
    /\ \A i \in DOMAIN upq :
          upq[i].kind = "telemetry" /\ Holds(t) => t \in DOMAIN upq[i].report

GraceEnds(t) ==
    /\ t \in young /\ Arrived(t)
    /\ young' = young \ {t}
    /\ UNCHANGED <<hubUp, rec, released, disk, linkVars, nodeVars, reportVars, auxVars>>

WindowLapses(t) ==
    /\ released[t] = "recent"
    /\ \A i \in DOMAIN down : down[i] # Command("release", t)
    /\ released' = [released EXCEPT ![t] = "lapsed"]
    /\ UNCHANGED <<hubUp, rec, young, disk, linkVars, nodeVars, reportVars, auxVars>>

-----------------------------------------------------------------------------
(* The stream and the two processes *)

Connect ==
    /\ hubUp /\ ~link
    /\ link' = TRUE
    /\ UNCHANGED <<hubVars, down, upq, nodeVars, reportVars, auxVars>>

\* Whatever either side had queued for this stream is never sent.
StreamLost == link' = FALSE /\ down' = <<>> /\ upq' = <<>>

Break ==
    /\ link /\ breaks < MaxBreaks
    /\ StreamLost
    /\ breaks' = breaks + 1
    /\ UNCHANGED <<hubVars, nodeVars, reportVars, used, stales>>

HubCrash ==
    /\ hubUp /\ breaks < MaxBreaks
    /\ hubUp' = FALSE
    /\ StreamLost
    /\ released' = [t \in Task |-> "no"]
    /\ breaks' = breaks + 1
    /\ UNCHANGED <<rec, young, disk, nodeVars, reportVars, used, stales>>

\* restore: the snapshot's records, in the state the last process left them.
HubRestore ==
    /\ ~hubUp
    /\ hubUp' = TRUE
    /\ rec' = disk
    /\ UNCHANGED <<young, released, disk, linkVars, nodeVars, reportVars, auxVars>>

\* The agent restarts: its tasks do not survive it.
NodeRestart ==
    /\ breaks < MaxBreaks
    /\ StreamLost
    /\ node' = [t \in Task |-> IF node[t] = "none" THEN "none" ELSE "removed"]
    /\ slow' = {} /\ listed' = <<>> /\ last' = <<>>
    /\ breaks' = breaks + 1
    /\ UNCHANGED <<hubVars, used, stales>>

-----------------------------------------------------------------------------
(* The node *)

\* run answers "provisioning" and leaves the rest to a thread; stop and release
\* are threads from the start.
NodeReceive ==
    /\ link /\ down # <<>>
    /\ down' = Tail(down)
    /\ LET m == Head(down) IN
          \/ /\ m.kind = "run"
             /\ node' = [node EXCEPT ![m.task] = "accepted"]
             /\ Sent(StateMsg(m.task, "provisioning"))
             /\ UNCHANGED slow
          \/ /\ m.kind \in {"stop", "release"}
             /\ slow' = slow \union {m}
             /\ UNCHANGED <<node, upq>>
    /\ UNCHANGED <<hubVars, link, reportVars, auxVars>>

NodeClaim(t) ==
    /\ node[t] = "accepted"
    /\ node' = [node EXCEPT ![t] = "claimed"]
    /\ UNCHANGED <<hubVars, linkVars, slow, reportVars, auxVars>>

\* No cards, no environment, bad input: submit refuses.
NodeRefuse(t) ==
    /\ node[t] \in {"accepted", "claimed"}
    /\ node' = [node EXCEPT ![t] = "removed"]
    /\ Sent(StateMsg(t, "failed"))
    /\ UNCHANGED <<hubVars, link, down, slow, reportVars, auxVars>>

NodeStart(t) ==
    /\ node[t] = "claimed"
    /\ node' = [node EXCEPT ![t] = "running"]
    /\ Sent(StateMsg(t, "running"))
    /\ UNCHANGED <<hubVars, link, down, slow, reportVars, auxVars>>

\* Ends by itself or at a limit; _carry_out reports it once.
NodeFinish(t) ==
    /\ node[t] = "running"
    /\ \E s \in {"done", "cancelled"} :
          /\ node' = [node EXCEPT ![t] = s]
          /\ Sent(StateMsg(t, s))
    /\ UNCHANGED <<hubVars, link, down, slow, reportVars, auxVars>>

\* _reap: a cancelled task at once, another when its retention ends.
NodeReap(t) ==
    /\ node[t] \in {"done", "cancelled"}
    /\ node' = [node EXCEPT ![t] = "removed"]
    /\ UNCHANGED <<hubVars, linkVars, slow, reportVars, auxVars>>

\* (Fault: stop answers for an id the registry does not know.)
NodeStop_Unchecked(t) ==
    /\ Command("stop", t) \in slow
    /\ slow' = slow \ {Command("stop", t)}
    /\ node' = IF node[t] = "running" THEN [node EXCEPT ![t] = "cancelled"] ELSE node
    /\ Sent(StateMsg(t, "cancelled"))
    /\ UNCHANGED <<hubVars, link, down, reportVars, auxVars>>

\* registry.stop refuses an id that is not in _tasks.
NodeStop(t) ==
    /\ Command("stop", t) \in slow
    /\ slow' = slow \ {Command("stop", t)}
    /\ IF node[t] = "running"
       THEN /\ node' = [node EXCEPT ![t] = "cancelled"]
            /\ Sent(StateMsg(t, "cancelled"))
       ELSE UNCHANGED <<node, upq>>
    /\ UNCHANGED <<hubVars, link, down, reportVars, auxVars>>

\* registry.release does nothing for an id that is not in _tasks; "gone" is
\* reported either way.
NodeRelease(t) ==
    /\ Command("release", t) \in slow
    /\ slow' = slow \ {Command("release", t)}
    /\ node' = IF Registered(t) THEN [node EXCEPT ![t] = "removed"] ELSE node
    /\ Sent(StateMsg(t, "gone"))
    /\ UNCHANGED <<hubVars, link, down, reportVars, auxVars>>

\* _telemetry: first the registry's list ...
ListTasks ==
    /\ link /\ listed = <<>>
    /\ listed' = << [t \in {u \in Task : Registered(u)} |-> node[t]] >>
    /\ UNCHANGED <<hubVars, linkVars, nodeVars, last, auxVars>>

\* ... then the ids still claimed, under the lock taken a second time.
Inventory ==
    [t \in DOMAIN Head(listed) \union {u \in Task : node[u] = "claimed"} |->
        IF node[t] = "claimed" THEN "provisioning" ELSE Head(listed)[t]]

SendReport ==
    /\ listed # <<>> /\ Len(upq) < MaxQueue
    /\ last' = IF stales < MaxStale THEN <<Inventory>> ELSE <<>>
    /\ listed' = <<>>
    /\ Sent(ReportMsg(Inventory))
    /\ UNCHANGED <<hubVars, link, down, nodeVars, auxVars>>

\* _stale_report: the collector is stuck, so the previous report goes again,
\* or a bare one that lists nothing.
ResendReport ==
    /\ link /\ listed # <<>> /\ stales < MaxStale /\ Len(upq) < MaxQueue
    /\ Sent(ReportMsg(IF last = <<>> THEN <<>> ELSE Head(last)))
    /\ stales' = stales + 1
    /\ UNCHANGED <<hubVars, link, down, nodeVars, reportVars, used, breaks>>

-----------------------------------------------------------------------------

TaskThread(t) == NodeClaim(t) \/ NodeStart(t) \/ NodeRefuse(t)

HubNext ==
    \/ \E t \in Task :
          \/ Submit(t) \/ Stop(t) \/ Release(t) \/ ForgetOffline(t)
          \/ GraceEnds(t) \/ WindowLapses(t)
          \/ TaskThread(t) \/ NodeFinish(t) \/ NodeReap(t)
          \/ NodeStop(t) \/ NodeRelease(t)
    \/ HubReceive \/ Flush
    \/ Connect \/ Break \/ HubCrash \/ HubRestore \/ NodeRestart
    \/ NodeReceive \/ ListTasks \/ SendReport \/ ResendReport

HubSpec == HubInit /\ [][HubNext]_taskVars

\* Loops and threads keep running, the node redials, a crashed orchestrator is
\* restarted, time passes.  Callers, breaks, and a task's own end owe nothing.
HubFairness ==
    /\ \A t \in Task :
          /\ SF_taskVars(GraceEnds(t)) /\ WF_taskVars(WindowLapses(t))
          /\ WF_taskVars(TaskThread(t))
          /\ WF_taskVars(NodeStop(t) \/ NodeRelease(t))
    /\ WF_taskVars(HubReceive) /\ WF_taskVars(NodeReceive)
    /\ WF_taskVars(Connect \/ HubRestore)
    /\ WF_taskVars(ListTasks \/ SendReport)

HubFairSpec == HubSpec /\ HubFairness

-----------------------------------------------------------------------------
(* What must hold *)

\* A record never says a task ended in its own way while the node still holds
\* it, whatever was lost, repeated, restored or reordered on the way.
NoFalseEnd ==
    \A t \in Task : rec[t] \in {"done", "failed", "cancelled"} => ~Holds(t)

\* The record and the node come to agree, after whatever was lost, restored or
\* restarted: a record kept unfinished for a task the node does not hold is
\* corrected, so that nobody goes on paying cards for a phantom (agents.py,
\* _reconcile), and a task that runs has a live record, so that it can be seen
\* and stopped (agents.py, _adopt).
RecordsSettle ==
    \A t \in Task :
        []<>LET alive == rec[t] \in {"pending", "provisioning", "running"} IN
            (alive => Holds(t)) /\ (node[t] = "running" => alive)
=============================================================================
