---------------------------- MODULE TaskRegistry ----------------------------
(***************************************************************************)
(* What one node runs and what it still has to give:                       *)
(* agent/looma_agent/tasks/registry.py and the life of the process a Task  *)
(* stands for, agent/looma_agent/tasks/runner.py.                          *)
(*                                                                         *)
(* Threads, each with its own program counter per task id:                 *)
(*   sub[t]   the thread inside TaskRegistry.submit                        *)
(*   reap[t]  the thread inside TaskRegistry._reap                         *)
(*   rel[t]   the thread that popped t in TaskRegistry.release (at most    *)
(*            one: popping is atomic, and a second caller finds nothing)   *)
(*   drain    the updater's thread inside TaskRegistry.drain               *)
(* A task's operating-system processes outlive the agent: proc and cards   *)
(* survive a crash, everything else is memory and does not.                *)
(*                                                                         *)
(* Left out: free ports, inputs and results (their failure is Fail), the   *)
(* isolation and unusable-root refusals, which are settled before the      *)
(* first task.  Task ids are minted from uuid4 by the orchestrator and are *)
(* never submitted twice.                                                  *)
(***************************************************************************)
EXTENDS Integers, FiniteSets

CONSTANTS
    Task,           \* task ids, each submitted at most once
    Gpus,           \* cards hardware detection finds on the node
    Wants,          \* Wants[t]: cards task t asks for
    KillIsPrompt,   \* a killed process tree is gone within release()'s wait
    MaxRestarts,    \* bound: how often the agent goes down
    MaxRescans      \* bound: how often the operator has hardware recounted

ASSUME GpusAssumption == Gpus \in Nat
ASSUME WantsAssumption == Wants \in [Task -> Nat]
ASSUME TaskAssumption == IsFiniteSet(Task)
ASSUME BoundsAssumption == MaxRestarts \in Nat /\ MaxRescans \in Nat
ASSUME PromptAssumption == KillIsPrompt \in BOOLEAN

VARIABLES
    up,         \* the agent process runs
    total,      \* total_gpus
    tasks,      \* keys of _tasks
    claimed,    \* _claimed
    held,       \* _held: cards accounted to a task; {} stands for no entry
    drain,      \* "no", "draining", "drained", "expired"
    sub, reap, rel,
    state,      \* Task.state
    ended,      \* Task._done is set
    leases,     \* leases on the environment the tasks share
    dir,        \* the task's directory exists
    proc,       \* the process tree: "none", "alive", "exited", "dead"
    cards,      \* CUDA_VISIBLE_DEVICES the process was started with
    restarts, rescans

agentVars == <<up, total, tasks, claimed, drain>>
threadVars == <<sub, reap, rel>>
taskVars == <<state, ended>>
osVars == <<proc, cards>>
boundVars == <<restarts, rescans>>
vars == <<agentVars, held, threadVars, taskVars, leases, dir, osVars, boundVars>>

Device == 0 .. Gpus - 1

\* "lost": the submission's thread died with the agent.
SubPhase == {"none", "checked", "claimed", "leased", "stocked", "started",
             "undo", "undoLeased", "refused", "in", "lost"}
ReapPhase == {"none", "waiting", "freed", "retaining", "over"}
RelPhase == {"none", "stopping", "freeing", "removing", "done"}
TaskState == {"none", "running", "done", "failed", "cancelled"}

\* A main process that exited may leave descendants behind: they still use
\* the cards until _reap_group has taken them down.
Live(t) == proc[t] \in {"alive", "exited"}

\* finished: a final state and the watcher's _done event, both.
Finished(t) == state[t] \in {"done", "failed", "cancelled"} /\ ended[t]

Taken == UNION {held[t] : t \in Task}

free_devices == (0 .. total - 1) \ Taken

Init ==
    /\ up = TRUE
    /\ total = Gpus
    /\ tasks = {}
    /\ claimed = {}
    /\ held = [t \in Task |-> {}]
    /\ drain = "no"
    /\ sub = [t \in Task |-> "none"]
    /\ reap = [t \in Task |-> "none"]
    /\ rel = [t \in Task |-> "none"]
    /\ state = [t \in Task |-> "none"]
    /\ ended = [t \in Task |-> FALSE]
    /\ leases = 0
    /\ dir = [t \in Task |-> FALSE]
    /\ proc = [t \in Task |-> "none"]
    /\ cards = [t \in Task |-> {}]
    /\ restarts = 0
    /\ rescans = 0

-----------------------------------------------------------------------------
(* submit *)

\* The draining check is made before the lock is taken.
Submit(t) ==
    /\ up /\ sub[t] = "none"
    /\ sub' = [sub EXCEPT ![t] = IF drain = "no" THEN "checked" ELSE "refused"]
    /\ UNCHANGED <<agentVars, held, reap, rel, taskVars, leases, dir, osVars, boundVars>>

\* The first Wants[t] free cards, in order: free[:wanted].
TakeDevices(t, S) ==
    /\ S \subseteq free_devices
    /\ Cardinality(S) = Wants[t]
    /\ \A d \in S, e \in free_devices \ S : d < e

\* (Fault: the id is not marked as claimed while its environment is built.)
Claim_NotMarked(t) ==
    /\ up /\ sub[t] = "checked"
    /\ \E S \in SUBSET free_devices :
          /\ TakeDevices(t, S)
          /\ held' = [held EXCEPT ![t] = S]
    /\ sub' = [sub EXCEPT ![t] = "claimed"]
    /\ UNCHANGED <<agentVars, reap, rel, taskVars, leases, dir, osVars, boundVars>>

Claim(t) ==
    /\ up /\ sub[t] = "checked"
    /\ t \notin tasks \union claimed
    /\ \E S \in SUBSET free_devices :
          /\ TakeDevices(t, S)
          /\ held' = [held EXCEPT ![t] = S]
    /\ claimed' = claimed \union {t}
    /\ sub' = [sub EXCEPT ![t] = "claimed"]
    /\ UNCHANGED <<up, total, tasks, drain, reap, rel, taskVars, leases, dir, osVars, boundVars>>

\* Too few cards free: refused before anything is taken.
Refuse(t) ==
    /\ up /\ sub[t] = "checked"
    /\ Cardinality(free_devices) < Wants[t]
    /\ sub' = [sub EXCEPT ![t] = "refused"]
    /\ UNCHANGED <<agentVars, held, reap, rel, taskVars, leases, dir, osVars, boundVars>>

AcquireEnvironment(t) ==
    /\ up /\ sub[t] = "claimed"
    /\ leases' = leases + 1
    /\ sub' = [sub EXCEPT ![t] = "leased"]
    /\ UNCHANGED <<agentVars, held, reap, rel, taskVars, dir, osVars, boundVars>>

\* TaskDirectory.create; the task's input is delivered into it.
CreateDirectory(t) ==
    /\ up /\ sub[t] = "leased"
    /\ dir' = [dir EXCEPT ![t] = TRUE]
    /\ sub' = [sub EXCEPT ![t] = "stocked"]
    /\ UNCHANGED <<agentVars, held, reap, rel, taskVars, leases, osVars, boundVars>>

\* Task.start: the process sees exactly the cards submit took for it.
Start(t) ==
    /\ up /\ sub[t] = "stocked"
    /\ state' = [state EXCEPT ![t] = "running"]
    /\ proc' = [proc EXCEPT ![t] = "alive"]
    /\ cards' = [cards EXCEPT ![t] = held[t]]
    /\ sub' = [sub EXCEPT ![t] = "started"]
    /\ UNCHANGED <<agentVars, held, reap, rel, ended, leases, dir, boundVars>>

\* (Fault: a failed submission keeps its cards.)
Fail_KeepsCards(t) ==
    /\ up /\ sub[t] \in {"claimed", "leased", "stocked"}
    /\ sub' = [sub EXCEPT ![t] = IF @ = "claimed" THEN "undo" ELSE "undoLeased"]
    /\ UNCHANGED <<agentVars, held, reap, rel, taskVars, leases, dir, osVars, boundVars>>

\* Anything between the claim and the start may raise; _undo gives the cards
\* back first ...
Fail(t) ==
    /\ up /\ sub[t] \in {"claimed", "leased", "stocked"}
    /\ held' = [held EXCEPT ![t] = {}]
    /\ sub' = [sub EXCEPT ![t] = IF @ = "claimed" THEN "undo" ELSE "undoLeased"]
    /\ UNCHANGED <<agentVars, reap, rel, taskVars, leases, dir, osVars, boundVars>>

\* (Fault: the environment's lease is not returned.)
Undo_KeepsLease(t) ==
    /\ up /\ sub[t] \in {"undo", "undoLeased"}
    /\ claimed' = claimed \ {t}
    /\ dir' = [dir EXCEPT ![t] = FALSE]
    /\ sub' = [sub EXCEPT ![t] = "refused"]
    /\ UNCHANGED <<up, total, tasks, drain, held, reap, rel, taskVars, leases, osVars, boundVars>>

\* ... then the id, the environment if there was one, and the directory.
Undo(t) ==
    /\ up /\ sub[t] \in {"undo", "undoLeased"}
    /\ claimed' = claimed \ {t}
    /\ leases' = IF sub[t] = "undoLeased" THEN leases - 1 ELSE leases
    /\ dir' = [dir EXCEPT ![t] = FALSE]
    /\ sub' = [sub EXCEPT ![t] = "refused"]
    /\ UNCHANGED <<up, total, tasks, drain, held, reap, rel, taskVars, osVars, boundVars>>

\* The task becomes visible to stop, release and the census; _reap starts.
Register(t) ==
    /\ up /\ sub[t] = "started"
    /\ tasks' = tasks \union {t}
    /\ claimed' = claimed \ {t}
    /\ sub' = [sub EXCEPT ![t] = "in"]
    /\ reap' = [reap EXCEPT ![t] = "waiting"]
    /\ UNCHANGED <<up, total, drain, held, rel, taskVars, leases, dir, osVars, boundVars>>

-----------------------------------------------------------------------------
(* The process *)

\* The main process ends by itself or by a signal.
Die(t) ==
    /\ proc[t] = "alive"
    /\ proc' = [proc EXCEPT ![t] = "exited"]
    /\ UNCHANGED <<agentVars, held, threadVars, taskVars, leases, dir, cards, boundVars>>

\* Task.stop: the state is final before the signal is sent.  A process whose
\* task is "cancelled" while the agent runs is being signalled.
CancelIn(st, t) == IF st[t] = "running" THEN [st EXCEPT ![t] = "cancelled"] ELSE st

\* _watch or the memory watchdog: the time, disk or memory limit was exceeded.
LimitExceeded(t) ==
    /\ up /\ state[t] = "running" /\ proc[t] = "alive"
    /\ state' = CancelIn(state, t)
    /\ UNCHANGED <<agentVars, held, threadVars, ended, leases, dir, osVars, boundVars>>

\* (Fault: the end is announced while descendants of the process live on.)
Finish_NoReapGroup(t) ==
    /\ up /\ proc[t] = "exited" /\ ~ended[t]
    /\ ended' = [ended EXCEPT ![t] = TRUE]
    /\ \E result \in {"done", "failed"} :
          state' = [state EXCEPT ![t] = IF @ = "cancelled" THEN @ ELSE result]
    /\ UNCHANGED <<agentVars, held, threadVars, leases, dir, osVars, boundVars>>

\* _watch after the process ended: take the whole tree down, then _finish.
Finish(t) ==
    /\ up /\ proc[t] = "exited" /\ ~ended[t]
    /\ proc' = [proc EXCEPT ![t] = "dead"]
    /\ ended' = [ended EXCEPT ![t] = TRUE]
    /\ \E result \in {"done", "failed"} :
          state' = [state EXCEPT ![t] = IF @ = "cancelled" THEN @ ELSE result]
    /\ UNCHANGED <<agentVars, held, threadVars, leases, dir, cards, boundVars>>

-----------------------------------------------------------------------------
(* stop, release, _reap *)

Stop(t) ==
    /\ up /\ t \in tasks
    /\ state[t] = "running"
    /\ state' = CancelIn(state, t)
    /\ UNCHANGED <<agentVars, held, threadVars, ended, leases, dir, osVars, boundVars>>

\* The first half of release: the id is forgotten before the process is gone,
\* and a task still alive is stopped.
PopForRelease(t) ==
    /\ t \in tasks
    /\ tasks' = tasks \ {t}
    /\ rel' = [rel EXCEPT ![t] = IF Finished(t) THEN "freeing" ELSE "stopping"]
    /\ state' = IF Finished(t) THEN state ELSE CancelIn(state, t)

Release(t) ==
    /\ up
    /\ PopForRelease(t)
    /\ UNCHANGED <<up, total, claimed, drain, held, sub, reap, ended, leases, dir, osVars, boundVars>>

\* (Fault: release signals the process and does not wait for its end.)
ReleaseWaited_NoWait(t) ==
    /\ up /\ rel[t] = "stopping"
    /\ rel' = [rel EXCEPT ![t] = "freeing"]
    /\ UNCHANGED <<agentVars, held, sub, reap, taskVars, leases, dir, osVars, boundVars>>

\* release waits for the end, but no longer than thirty seconds.
ReleaseWaited(t) ==
    /\ up /\ rel[t] = "stopping"
    /\ ended[t] \/ ~KillIsPrompt
    /\ rel' = [rel EXCEPT ![t] = "freeing"]
    /\ UNCHANGED <<agentVars, held, sub, reap, taskVars, leases, dir, osVars, boundVars>>

ReleaseDevices(t) ==
    /\ up /\ rel[t] = "freeing"
    /\ held' = [held EXCEPT ![t] = {}]
    /\ rel' = [rel EXCEPT ![t] = "removing"]
    /\ UNCHANGED <<agentVars, sub, reap, taskVars, leases, dir, osVars, boundVars>>

\* directory.remove, then the released event.
ReleaseDirectory(t) ==
    /\ up /\ rel[t] = "removing"
    /\ dir' = [dir EXCEPT ![t] = FALSE]
    /\ rel' = [rel EXCEPT ![t] = "done"]
    /\ UNCHANGED <<agentVars, held, sub, reap, taskVars, leases, osVars, boundVars>>

ReapDevices(t) ==
    /\ up /\ reap[t] = "waiting" /\ ended[t]
    /\ held' = [held EXCEPT ![t] = {}]
    /\ reap' = [reap EXCEPT ![t] = "freed"]
    /\ UNCHANGED <<agentVars, sub, rel, taskVars, leases, dir, osVars, boundVars>>

ReapEnvironment(t) ==
    /\ up /\ reap[t] = "freed"
    /\ leases' = leases - 1
    /\ reap' = [reap EXCEPT ![t] = "retaining"]
    /\ UNCHANGED <<agentVars, held, sub, rel, taskVars, dir, osVars, boundVars>>

\* A cancelled task at once, any other when its retention runs out: released
\* by the reaper, unless somebody else already has.
ReapRelease(t) ==
    /\ up /\ reap[t] = "retaining"
    /\ \/ /\ t \in tasks
          /\ PopForRelease(t)
       \/ /\ t \notin tasks
          /\ UNCHANGED <<tasks, rel, state>>
    /\ reap' = [reap EXCEPT ![t] = "over"]
    /\ UNCHANGED <<up, total, claimed, drain, held, sub, ended, leases, dir, osVars, boundVars>>

-----------------------------------------------------------------------------
(* recount_devices, drain, stop_all, and the agent's own life *)

Busy == {t \in tasks : ~Finished(t)} \union claimed

\* The rescan command found n cards; busy nodes refuse.
RecountDevices ==
    /\ up /\ rescans < MaxRescans
    /\ Busy = {}
    /\ \E n \in 0 .. Gpus : total' = n
    /\ rescans' = rescans + 1
    /\ UNCHANGED <<up, tasks, claimed, drain, held, threadVars, taskVars, leases, dir, osVars, restarts>>

StartDrain ==
    /\ up /\ drain = "no"
    /\ drain' = "draining"
    /\ UNCHANGED <<up, total, tasks, claimed, held, threadVars, taskVars, leases, dir, osVars, boundVars>>

\* Nothing unfinished in _tasks: drained.  What is still claimed does not count.
Drained ==
    /\ up /\ drain = "draining"
    /\ \A t \in tasks : Finished(t)
    /\ drain' = "drained"
    /\ UNCHANGED <<up, total, tasks, claimed, held, threadVars, taskVars, leases, dir, osVars, boundVars>>

DrainExpired ==
    /\ up /\ drain = "draining"
    /\ \E t \in tasks : ~Finished(t)
    /\ drain' = "expired"
    /\ UNCHANGED <<up, total, tasks, claimed, held, threadVars, taskVars, leases, dir, osVars, boundVars>>

\* Agent.stop, after step_aside's drain or on a signal without one: stop_all
\* kills what is in _tasks.
StopAll ==
    /\ up
    /\ \E t \in tasks : state[t] = "running"
    /\ state' = [t \in Task |-> IF t \in tasks THEN CancelIn(state, t)[t] ELSE state[t]]
    /\ UNCHANGED <<agentVars, held, threadVars, ended, leases, dir, osVars, boundVars>>

\* The agent process ends: after step_aside, or killed at any moment.  Its
\* memory is gone; processes, their cards and the directories stay.
GoDown ==
    /\ up /\ restarts < MaxRestarts
    /\ up' = FALSE
    /\ restarts' = restarts + 1
    /\ tasks' = {} /\ claimed' = {} /\ drain' = "no"
    /\ held' = [t \in Task |-> {}]
    /\ sub' = [t \in Task |-> IF sub[t] \in {"none", "refused"} THEN sub[t] ELSE "lost"]
    /\ reap' = [t \in Task |-> "none"]
    /\ rel' = [t \in Task |-> "none"]
    /\ state' = [t \in Task |-> "none"]
    /\ ended' = [t \in Task |-> FALSE]
    /\ leases' = 0
    /\ UNCHANGED <<total, dir, osVars, rescans>>

\* A new agent process detects the hardware and sweeps what the last one left
\* before it connects.
SweepLeftovers ==
    /\ ~up
    /\ up' = TRUE
    /\ total' = Gpus
    /\ proc' = [t \in Task |-> IF Live(t) THEN "dead" ELSE proc[t]]
    /\ dir' = [t \in Task |-> FALSE]
    /\ UNCHANGED <<tasks, claimed, drain, held, threadVars, taskVars, leases, cards, boundVars>>

-----------------------------------------------------------------------------

SubmitThread(t) ==
    \/ Claim(t) \/ Refuse(t) \/ AcquireEnvironment(t) \/ CreateDirectory(t)
    \/ Start(t) \/ Fail(t) \/ Undo(t) \/ Register(t)

ReleaseThread(t) == ReleaseWaited(t) \/ ReleaseDevices(t) \/ ReleaseDirectory(t)

ReapThread(t) == ReapDevices(t) \/ ReapEnvironment(t) \/ ReapRelease(t)

Next ==
    \/ \E t \in Task :
          \/ Submit(t) \/ SubmitThread(t)
          \/ Die(t) \/ LimitExceeded(t) \/ Finish(t)
          \/ Stop(t) \/ Release(t) \/ ReleaseThread(t) \/ ReapThread(t)
    \/ RecountDevices
    \/ StartDrain \/ Drained \/ DrainExpired \/ StopAll
    \/ GoDown \/ SweepLeftovers

Spec == Init /\ [][Next]_vars

\* Every thread keeps running; a signalled process dies (SIGKILL follows the
\* grace period); time limits and retention are finite; the launcher restarts
\* an agent that went down.  Commands, and processes ending by themselves,
\* are owed nothing.
Fairness ==
    /\ \A t \in Task :
          /\ WF_vars(SubmitThread(t))
          /\ WF_vars(ReleaseThread(t))
          /\ WF_vars(ReapThread(t))
          /\ WF_vars(Finish(t))
          /\ WF_vars(LimitExceeded(t))
          /\ WF_vars(Die(t) /\ state[t] = "cancelled")
    /\ WF_vars(SweepLeftovers)

FairSpec == Spec /\ Fairness

-----------------------------------------------------------------------------
(* What must hold *)

\* The shapes of the variables.
TypeOK ==
    /\ up \in BOOLEAN
    /\ total \in 0 .. Gpus
    /\ tasks \subseteq Task
    /\ claimed \subseteq Task
    /\ held \in [Task -> SUBSET Device]
    /\ drain \in {"no", "draining", "drained", "expired"}
    /\ sub \in [Task -> SubPhase]
    /\ reap \in [Task -> ReapPhase]
    /\ rel \in [Task -> RelPhase]
    /\ state \in [Task -> TaskState]
    /\ ended \in [Task -> BOOLEAN]
    /\ leases \in Int
    /\ dir \in [Task -> BOOLEAN]
    /\ proc \in [Task -> {"none", "alive", "exited", "dead"}]
    /\ cards \in [Task -> SUBSET Device]
    /\ restarts \in 0 .. MaxRestarts
    /\ rescans \in 0 .. MaxRescans

\* registry.py:7-11: two tasks of one machine never sit on the same card, in
\* whatever order submissions, stops, releases, the reaper, recounts and
\* agent restarts interleave; descendants of an exited process included.
NoSharedCard ==
    \A s, t \in Task :
        s # t /\ Live(s) /\ Live(t) => cards[s] \intersect cards[t] = {}

\* A thread still owes the environment cache a release of t's lease.
OwesLease(t) ==
    \/ sub[t] \in {"leased", "stocked", "started", "undoLeased"}
    \/ sub[t] = "in" /\ reap[t] \in {"waiting", "freed"}

\* Every lease is given back exactly once: the count the cache keeps is the
\* number of threads that still owe a release, so an environment is neither
\* evicted under a task nor pinned for ever by one that failed or was stopped.
LeasesMatch == leases = Cardinality({t \in Task : OwesLease(t)})

\* A process that runs while the agent runs has its directory: release and
\* the reaper never remove the disk under a task (runner.py, results).
DirectoryOutlivesProcess == \A t \in Task : up /\ Live(t) => dir[t]

\* A live process is in the census the node reports (_tasks or _claimed), or
\* the thread that took it out of the census is still waiting for its end.
NothingRunsUncounted ==
    \A t \in Task :
        up /\ Live(t) => t \in tasks \union claimed \/ rel[t] = "stopping"

\* What was taken for a task comes back, again and again, whether its submission
\* failed, it ended, was stopped, was released, or the agent went down: its cards,
\* and its disk by release, by retention, or by the sweep.
TakenComesBack == \A t \in Task : []<>(held[t] = {} /\ ~dir[t])
=============================================================================
