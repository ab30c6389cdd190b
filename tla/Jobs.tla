--------------------------------- MODULE Jobs ---------------------------------
(* A training as the orchestrator keeps it: a group of tasks, a row of        *)
(* training_jobs that is closed by what the head wrote to progress.json, and  *)
(* the adapter that is taken from the head's results, which the node keeps    *)
(* for an hour, into a directory of the orchestrator's own (api/app.py        *)
(* _start_training, _training_view, _keep_adapter, sweep_training; usage/     *)
(* training.py; orchestrator/adapters.py).  The sweep and the pages are       *)
(* coroutines that interleave wherever they await.                            *)
(*                                                                            *)
(* Collections go over the node's stream (Replies): one that overlaps another *)
(* of the same file may end with an error or with somebody else's pieces.     *)
(* The outcome is one piece; the adapter is several.                          *)
EXTENDS Naturals, FiniteSets

CONSTANTS Viewer,     \* coroutines that look at the training: sweeps and pages
          MaxBreaks   \* bound on the node's absences and the orchestrator's crashes

ASSUME JobsAssumption == MaxBreaks \in Nat

VARIABLES start,      \* "none", "submitted", "billed", "remembered", or "lost" with a crash
          row,        \* the row: "none", "running", "done", "failed", "stopped"
          group,      \* agents.groups has the group
          head,       \* the head's process: "none", "running", "ended"
          known,      \* group_finished: the hub has heard that all tasks ended
          wrote,      \* progress.json of the head: "none", "running", "done", "failed"
          kept,       \* the task's results are still on the node
          online,     \* the node has a stream
          view,       \* the coroutines that look: see Idle
          stopping,   \* the one that stops: "idle", "unbilled", "stopping", "left"
          adapter,    \* the directory: "none", "some", "whole", "mixed"
          doubted,    \* history: a row was closed without an outcome
          shared,     \* history: an adapter was collected by two at once
          breaks

nodeVars == <<head, known, wrote, kept, online>>
past == <<doubted, shared>>
jobVars == <<start, row, group, nodeVars, view, stopping, adapter, past, breaks>>

(* Where a coroutine is, the state of the row it has read, what               *)
(* group_finished said, the outcome it was told, what it is collecting, that  *)
(* somebody else began to collect the same, and the adapter it has.           *)
Idle == [pc |-> "idle", saw |-> "none", over |-> FALSE, told |-> "none",
         asks |-> "none", spoilt |-> FALSE, files |-> "none"]

Kept == adapter \in {"whole", "mixed"}          \* AdapterStore.has: both files are there
Breaks == breaks < MaxBreaks /\ breaks' = breaks + 1

JobInit ==
    /\ start = "none" /\ row = "none" /\ group = FALSE
    /\ head = "none" /\ known = FALSE /\ wrote = "none" /\ kept = FALSE /\ online = TRUE
    /\ view = [v \in Viewer |-> Idle] /\ stopping = "idle"
    /\ adapter = "none" /\ doubted = FALSE /\ shared = FALSE /\ breaks = 0

(* ------------------------------------------------------------- starting --- *)
(* submit_group, the lease, the row: each after an await of its own           *)
SubmitTraining ==
    /\ start = "none" /\ online /\ start' = "submitted" /\ group' = TRUE
    /\ head' = "running" /\ kept' = TRUE
    /\ UNCHANGED <<row, known, wrote, online, view, stopping, adapter, past, breaks>>
BillTraining ==
    /\ start = "submitted" /\ start' = "billed"
    /\ UNCHANGED <<row, group, nodeVars, view, stopping, adapter, past, breaks>>
Remember ==
    /\ start = "billed" /\ start' = "remembered" /\ row' = "running"
    /\ UNCHANGED <<group, nodeVars, view, stopping, adapter, past, breaks>>

(* ------------------------------------------------------------- the node --- *)
(* progress.json is replaced atomically; the process ends behind its outcome, *)
(* or in the middle; the hub hears of it; in an hour the results go           *)
HeadWrites ==
    /\ head = "running"
    /\ \/ wrote = "none" /\ wrote' = "running"
       \/ wrote = "none" /\ wrote' = "failed"
       \/ wrote = "running" /\ wrote' \in {"done", "failed"}
    /\ UNCHANGED <<start, row, group, head, known, kept, online, view, stopping, adapter, past, breaks>>
HeadEnds ==
    /\ head = "running" /\ head' = "ended"
    /\ UNCHANGED <<start, row, group, known, wrote, kept, online, view, stopping, adapter, past, breaks>>
HubHears ==
    /\ head = "ended" /\ ~known /\ online /\ known' = TRUE
    /\ UNCHANGED <<start, row, group, head, wrote, kept, online, view, stopping, adapter, past, breaks>>
ResultsExpire ==
    /\ head = "ended" /\ kept /\ kept' = FALSE
    /\ UNCHANGED <<start, row, group, head, known, wrote, online, view, stopping, adapter, past, breaks>>
NodeLeaves ==
    /\ online /\ Breaks /\ online' = FALSE
    /\ UNCHANGED <<start, row, group, head, known, wrote, kept, view, stopping, adapter, past>>
NodeReturns ==
    /\ ~online /\ online' = TRUE
    /\ UNCHANGED <<start, row, group, head, known, wrote, kept, view, stopping, adapter, past, breaks>>

(* -------------------------------------------------------- looking at it --- *)
(* agents.collect is called: whoever waits for the same file has lost its     *)
(* place                                                                      *)
Asking(what) == {u \in Viewer : view[u].asks = what}
Asks(v, rec, what) ==
    /\ view' = [u \in Viewer |->
                   IF u = v THEN [rec EXCEPT !.asks = what, !.spoilt = Asking(what) # {}]
                   ELSE [view[u] EXCEPT !.spoilt = @ \/ view[u].asks = what]]
    /\ shared' = (shared \/ (what = "adapter" /\ Asking(what) # {}))
Goes(v, rec) == view' = [view EXCEPT ![v] = rec]
Reachable == online /\ kept

(* _training_view: the row was read, group_finished says so much, then the    *)
(* outcome is asked for                                                       *)
Look(v) ==
    /\ view[v].pc = "idle" /\ row # "none"
    /\ LET seen == [Idle EXCEPT !.saw = row, !.over = known] IN
       IF group THEN Asks(v, [seen EXCEPT !.pc = "asking"], "progress")
       ELSE Goes(v, [seen EXCEPT !.pc = "closing"]) /\ UNCHANGED shared
    /\ UNCHANGED <<start, row, group, nodeVars, stopping, adapter, doubted, breaks>>
SweepLooks(v) == (row = "running" \/ (row = "done" /\ ~Kept)) /\ Look(v)

Hears(v, what) == Goes(v, [view[v] EXCEPT !.pc = "closing", !.told = what,
                                          !.asks = "none", !.spoilt = FALSE])
IsTold(v) ==
    /\ view[v].pc = "asking" /\ Reachable /\ Hears(v, wrote)
    /\ UNCHANGED <<start, row, group, nodeVars, stopping, adapter, past, breaks>>
(* AgentError: nobody there, no such file, or no answer in time               *)
IsNotTold(v) ==
    /\ view[v].pc = "asking" /\ (~Reachable \/ view[v].spoilt) /\ Hears(v, "none")
    /\ UNCHANGED <<start, row, group, nodeVars, stopping, adapter, past, breaks>>

(* training.finish: only a running row is closed                              *)
FinishJob_Always(state) == row' = state
FinishJob(state) == row' = IF row = "running" THEN state ELSE row

(* The row is closed by the outcome, or for want of one; what a DONE training *)
(* left is then fetched, if nobody has.                                       *)
Vain_Never(v) == FALSE
Vain(v) == view[v].over /\ view[v].told = "none" /\ group
Fetches(v, state) ==
    IF state = "done" /\ ~Kept /\ group
    THEN Asks(v, [view[v] EXCEPT !.pc = "fetching"], "adapter")
    ELSE Goes(v, Idle) /\ UNCHANGED shared
CloseLease(v) ==
    /\ view[v].pc = "closing"
    /\ IF view[v].saw = "running" /\ view[v].told \in {"done", "failed"}
       THEN FinishJob(view[v].told) /\ Fetches(v, row') /\ UNCHANGED doubted
       ELSE IF view[v].saw = "running" /\ Vain(v)
       THEN FinishJob("failed") /\ Goes(v, Idle) /\ doubted' = (doubted \/ row = "running") /\ UNCHANGED shared
       ELSE Fetches(v, view[v].saw) /\ UNCHANGED <<row, doubted>>
    /\ UNCHANGED <<start, group, nodeVars, stopping, adapter, breaks>>

(* _keep_adapter: both files, or nothing                                      *)
Fetch(v) ==
    /\ view[v].pc = "fetching" /\ Reachable /\ wrote = "done"
    /\ Goes(v, [Idle EXCEPT !.pc = "saving", !.files = IF view[v].spoilt THEN "mixed" ELSE "whole"])
    /\ UNCHANGED <<start, row, group, nodeVars, stopping, adapter, past, breaks>>
CollectFails(v) ==
    /\ view[v].pc = "fetching" /\ (~Reachable \/ view[v].spoilt) /\ Goes(v, Idle)
    /\ UNCHANGED <<start, row, group, nodeVars, stopping, adapter, past, breaks>>

(* AdapterStore.save: a staging directory takes the place of what was there.  *)
(* It runs to its end, nothing else does meanwhile.                           *)
Save(v) ==
    /\ view[v].pc = "saving" /\ Goes(v, Idle) /\ adapter' = view[v].files
    /\ UNCHANGED <<start, row, group, nodeVars, stopping, past, breaks>>

(* -------------------------------------------------------------- stopping --- *)
(* _stop_billing awaits, then the group is stopped; then the row              *)
AskStop == /\ stopping = "idle" /\ row # "none" /\ stopping' = "unbilled"
           /\ UNCHANGED <<start, row, group, nodeVars, view, adapter, past, breaks>>
StopGroup ==
    /\ stopping = "unbilled" /\ stopping' = IF group THEN "stopping" ELSE "left"
    /\ head' = IF group /\ online THEN "ended" ELSE head
    /\ UNCHANGED <<start, row, group, known, wrote, kept, online, view, adapter, past, breaks>>
StopRow ==
    /\ stopping = "stopping" /\ stopping' = "left" /\ FinishJob("stopped")
    /\ UNCHANGED <<start, group, nodeVars, view, adapter, past, breaks>>

(* the group is forgotten: by an administrator, or once it is long over       *)
ForgetGroup ==
    /\ group /\ start = "remembered" /\ group' = FALSE /\ head' = IF online THEN "ended" ELSE head
    /\ kept' = (kept /\ ~online)
    /\ UNCHANGED <<start, row, known, wrote, online, view, stopping, adapter, past, breaks>>

(* The orchestrator dies, in the middle of a save if it was at one, and comes *)
(* back with its groups (state.py), its rows and its disk.                    *)
Torn(f) == IF adapter = "none" THEN {"none"} ELSE {adapter, "some", "none"}
Crash ==
    /\ Breaks
    /\ \/ \E v \in Viewer : view[v].pc = "saving" /\ adapter' \in Torn(view[v].files)
       \/ UNCHANGED adapter
    /\ start' = IF start \in {"submitted", "billed"} THEN "lost" ELSE start
    /\ view' = [v \in Viewer |-> Idle] /\ stopping' = "left"
    /\ UNCHANGED <<row, group, nodeVars, past>>

Viewing(v) == IsTold(v) \/ IsNotTold(v) \/ CloseLease(v) \/ Fetch(v) \/ CollectFails(v) \/ Save(v)
JobNext ==
    \/ SubmitTraining \/ BillTraining \/ Remember \/ HeadWrites \/ HeadEnds \/ HubHears
    \/ ResultsExpire \/ NodeLeaves \/ NodeReturns \/ AskStop \/ StopGroup \/ StopRow
    \/ ForgetGroup \/ Crash
    \/ \E v \in Viewer : Look(v) \/ Viewing(v)

JobSpec == JobInit /\ [][JobNext]_jobVars
----------------------------------------------------------------------------
(* What is kept of a training is true.  The row tells what the head wrote,    *)
(* once and for good: it is closed by the outcome or by a stop, and by        *)
(* nothing else - save that a view which finds the group over and is told     *)
(* nothing calls it failed, whatever lies on a node it could not reach.  An   *)
(* adapter that is there is whole, whatever crashed while it was saved, if no *)
(* two looked for it at once: the pieces of two collections mix.              *)
OutcomeIsTrue ==
    /\ row = "done" => wrote = "done"
    /\ row = "failed" => wrote = "failed" \/ doubted
    /\ Kept => adapter = "whole" \/ shared

(* A training that is over does not stay "running", and what a done one left  *)
(* is fetched while it can be: by the sweep, with nobody looking.             *)
SweepCloses == []<>(known /\ group => row \in {"none", "done", "failed", "stopped"})
=============================================================================
