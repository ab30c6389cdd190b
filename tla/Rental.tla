------------------------------- MODULE Rental -------------------------------
(***************************************************************************)
(* A rental and what it displaces: src/looma/api/app.py (_start_cluster,   *)
(* _evict, _restore, _stop_billing, drop_cluster), the tables behind       *)
(* usage/deployments.py and usage/ledger.py, and the minute sweep of       *)
(* orchestrator/server.py.                                                 *)
(*                                                                         *)
(* Requests are coroutines of one process: an action runs from one await   *)
(* to the next.  The two tables survive a crash, coroutines do not; the    *)
(* groups come back from the orchestrator's snapshot.                      *)
(*                                                                         *)
(* Left out: named nodes and the policies that displace nobody (partial,   *)
(* wait, strict: they differ in what happens when too little is free);     *)
(* leases of models, opened and closed as a cluster's; the forgetting of   *)
(* old group records.  The trimming of the last evicted group's nodes      *)
(* (Preemption) is any choice of the right size.                           *)
(***************************************************************************)
EXTENDS Integers, FiniteSets

CONSTANTS
    Node,
    Model,          \* groups of the models deployed at first
    Stands,         \* Stands[m]: the nodes model m stands on
    Guarded,        \* deployments an administrator protects
    Owned,          \* groups whose owner may take them down
    Rent,           \* rental requests; a cluster's group has its request's name
    Size,           \* Size[r]: nodes asked for
    Spare,          \* names for the groups of models put back
    Drop,           \* requests to end a rental
    MayRefuse,      \* a deployment, a placement or the ledger may fail
    MaxCrashes      \* bound: how often the orchestrator goes down

Group == Model \union Rent \union Spare

ASSUME NamesAssumption == Node \subseteq Int /\ Group \subseteq Int
\* Groups are named by uuids; a name is used once.
ASSUME ApartAssumption == Model \cap Rent = {} /\ Spare \cap Rent = {}
ASSUME ModelsAssumption == Stands \in [Model -> SUBSET Node] /\ Guarded \subseteq Model
ASSUME OwnedAssumption == Owned \subseteq Model \union Spare
ASSUME RentAssumption == Size \in [Rent -> Nat \ {0}]
ASSUME CrashesAssumption == MayRefuse \in BOOLEAN /\ MaxCrashes \in Nat

VARIABLES
    life,       \* a group's tasks: "none", "live", "stopping", "ended"
    on,         \* GroupRecord.nodes
    busy,       \* nodes whose last telemetry showed a running task
    dep, by,    \* deployments: state and evicted_by; 0 stands for NULL
    lease,      \* leases, by group: "none", "open", "released", "vanished"
    pc, free, known, queue, out,    \* of each rental's coroutine
    drop,       \* of each drop's coroutine: [at, of, left]
    sweep,      \* <<>> or <<clusters the sweep found live>>
    crashes

groupVars == <<life, on>>
tableVars == <<dep, by, lease>>
rentVars == <<pc, free, known, queue, out>>
rentalVars == <<groupVars, busy, tableVars, rentVars, drop, sweep, crashes>>

Idle == [at |-> "idle", of |-> 0, left |-> {}, m |-> 0, c |-> 0]

\* A coroutine's locals go when it has no more use for them.
Blank == [r \in Rent |-> {}]
Cleared(f, r) == [f EXCEPT ![r] = {}]

RentInit ==
    /\ life = [g \in Group |-> IF g \in Model THEN "live" ELSE "none"]
    /\ on = [g \in Group |-> IF g \in Model THEN Stands[g] ELSE {}]
    /\ busy = UNION {Stands[m] : m \in Model}
    /\ dep = [g \in Group |-> IF g \in Model THEN "running" ELSE "none"]
    /\ by = [g \in Group |-> 0]
    /\ lease = [g \in Group |-> "none"]
    /\ pc = [r \in Rent |-> "idle"]
    /\ free = Blank /\ known = Blank /\ queue = Blank /\ out = Blank
    /\ drop = [d \in Drop |-> Idle]
    /\ sweep = <<>>
    /\ crashes = 0

\* agents.stop_group: every live task of the group is told to stop.
Stopped(lf, g) == IF lf[g] = "live" THEN [lf EXCEPT ![g] = "stopping"] ELSE lf

-----------------------------------------------------------------------------
(* _start_cluster *)

Free == Node \ busy

\* (Fault: whatever stands on record may be moved, rented clusters included.)
Standing_All(r) == {g \in Group : life[g] # "none"}

\* standing_from: groups on record that are deployments, in whatever state.
Standing(r) == {g \in known[r] : life[g] # "none"}

Plan(r) ==
    INSTANCE Preemption WITH
        Needs <- Nat, Times <- Int, Roles <- {"model", "protected", "rented"},
        need <- Size[r], free <- free[r], on <- on,
        role <- [g \in Group |-> IF g \notin Standing(r) THEN "rented"
                                 ELSE IF g \in Guarded THEN "protected" ELSE "model"],
        since <- [g \in Group |-> IF g \in Spare THEN 1 ELSE 0],
        verdict <- "asked", todo <- {}, seen <- {}, sure <- {}, evict <- {}, nodes <- {}

Possible(r) ==
    Cardinality(free[r] \union Plan(r)!NodesOf(Plan(r)!Movable)) >= Size[r]

\* submit_group: the cluster is on record and its tasks are sent out.
Place(r, S) ==
    /\ life' = [life EXCEPT ![r] = "live"]
    /\ on' = [on EXCEPT ![r] = S]

\* Enough nodes look free: placed at once.
RentFree(r) ==
    /\ pc[r] = "idle" /\ Cardinality(Free) >= Size[r]
    /\ \E S \in SUBSET Free : Cardinality(S) = Size[r] /\ Place(r, S)
    /\ pc' = [pc EXCEPT ![r] = "billing"]
    /\ UNCHANGED <<busy, tableVars, free, known, queue, out, drop, sweep, crashes>>

\* Too few: whom to displace is asked of the tables, with these free nodes in
\* hand.
RentTight(r) ==
    /\ pc[r] = "idle" /\ Cardinality(Free) < Size[r] /\ Size[r] <= Cardinality(Node)
    /\ free' = [free EXCEPT ![r] = Free]
    /\ pc' = [pc EXCEPT ![r] = "reading"]
    /\ UNCHANGED <<groupVars, busy, tableVars, known, queue, out, drop, sweep, crashes>>

ReadDeployments(r) ==
    /\ pc[r] = "reading"
    /\ known' = [known EXCEPT ![r] = {g \in Group : dep[g] \in {"running", "evicted"}}]
    /\ pc' = [pc EXCEPT ![r] = "planning"]
    /\ UNCHANGED <<groupVars, busy, tableVars, free, queue, out, drop, sweep, crashes>>

RefusePlan(r) ==
    /\ pc[r] = "planning" /\ ~Possible(r)
    /\ pc' = [pc EXCEPT ![r] = "refused"]
    /\ free' = Cleared(free, r) /\ known' = Cleared(known, r)
    /\ UNCHANGED <<groupVars, busy, tableVars, queue, out, drop, sweep, crashes>>

\* (Fault: the group is taken for evicted and never told to stop.)
EvictFirst_NoStop(r, S) ==
    \E g \in S :
        /\ \A h \in S \ {g} : Plan(r)!Before(g, h)
        /\ queue' = [queue EXCEPT ![r] = S \ {g}]
        /\ out' = [out EXCEPT ![r] = @ \union {g}]
        /\ UNCHANGED life

\* _evict: the next group of the plan is stopped, then its lease closed.
EvictFirst(r, S) ==
    \E g \in S :
        /\ \A h \in S \ {g} : Plan(r)!Before(g, h)
        /\ life' = Stopped(life, g)
        /\ queue' = [queue EXCEPT ![r] = S \ {g}]
        /\ out' = [out EXCEPT ![r] = @ \union {g}]

Displace(r) ==
    /\ \/ pc[r] = "planning" /\ Possible(r) /\ EvictFirst(r, Plan(r)!Evicted)
       \/ pc[r] = "evicting" /\ EvictFirst(r, queue[r])
    /\ pc' = [pc EXCEPT ![r] = "evicting"]
    /\ known' = Cleared(known, r)
    /\ UNCHANGED <<on, busy, tableVars, free, drop, sweep, crashes>>

PlaceOnFreed(r) ==
    /\ pc[r] = "evicting" /\ queue[r] = {}
    /\ \E S \in SUBSET (free[r] \union UNION {on[g] : g \in out[r]}) :
          /\ Cardinality(S) = Size[r] /\ free[r] \subseteq S
          /\ Place(r, S)
    /\ pc' = [pc EXCEPT ![r] = "billing"]
    /\ free' = Cleared(free, r)
    /\ UNCHANGED <<busy, tableVars, known, queue, out, drop, sweep, crashes>>

\* A node left meanwhile, no path between the nodes, a missing payload, a bad
\* script: refused, with the models already stopped.
RefuseLate(r) ==
    /\ MayRefuse /\ pc[r] = "evicting" /\ queue[r] = {}
    /\ pc' = [pc EXCEPT ![r] = "refused"]
    /\ free' = Cleared(free, r) /\ out' = Cleared(out, r)
    /\ UNCHANGED <<groupVars, busy, tableVars, known, queue, drop, sweep, crashes>>

OpenLease(r) ==
    /\ pc[r] = "billing"
    /\ lease' = [lease EXCEPT ![r] = "open"]
    /\ pc' = [pc EXCEPT ![r] = IF out[r] = {} THEN "done" ELSE "marking"]
    /\ UNCHANGED <<groupVars, busy, dep, by, free, known, queue, out, drop, sweep, crashes>>

\* _start_billing swallows the ledger's error: the cluster runs unbilled.
LedgerFails(r) ==
    /\ MayRefuse /\ pc[r] = "billing"
    /\ pc' = [pc EXCEPT ![r] = "done"]
    /\ out' = Cleared(out, r)
    /\ UNCHANGED <<groupVars, busy, tableVars, free, known, queue, drop, sweep, crashes>>

\* mark_evicted, whatever state the rows are in by now.
MarkEvicted(r) ==
    /\ pc[r] = "marking"
    /\ dep' = [g \in Group |-> IF g \in out[r] THEN "evicted" ELSE dep[g]]
    /\ by' = [g \in Group |-> IF g \in out[r] THEN r ELSE by[g]]
    /\ pc' = [pc EXCEPT ![r] = "done"]
    /\ out' = Cleared(out, r)
    /\ UNCHANGED <<groupVars, busy, lease, free, known, queue, drop, sweep, crashes>>

-----------------------------------------------------------------------------
(* drop_cluster: _stop_billing with _restore in it, then stop_group *)

DropBegin(d, r) ==
    /\ drop[d].at = "idle" /\ lease[r] = "open"
    /\ drop' = [drop EXCEPT ![d] = [Idle EXCEPT !.at = "closing", !.of = r]]
    /\ UNCHANGED <<groupVars, busy, tableVars, rentVars, sweep, crashes>>

CloseLease(d) ==
    /\ drop[d].at = "closing"
    /\ lease' = [lease EXCEPT ![drop[d].of] = IF @ = "open" THEN "released" ELSE @]
    /\ drop' = [drop EXCEPT ![d].at = "listing"]
    /\ UNCHANGED <<groupVars, busy, dep, by, rentVars, sweep, crashes>>

ListEvicted(d) ==
    /\ drop[d].at = "listing"
    /\ drop' = [drop EXCEPT ![d].at = "restoring",
                            ![d].left = {g \in Group : dep[g] = "evicted" /\ by[g] = drop[d].of}]
    /\ UNCHANGED <<groupVars, busy, tableVars, rentVars, sweep, crashes>>

\* _deploy_model: any nodes that take tasks, busy or not (the one with the most
\* free memory first), as many as before.
Redeploy(d) ==
    /\ drop[d].at = "restoring"
    /\ \E m \in drop[d].left, c \in Spare, S \in SUBSET Node :
          /\ life[c] = "none"
          /\ Cardinality(S) = Cardinality(on[m])
          /\ life' = [life EXCEPT ![c] = "live"]
          /\ on' = [on EXCEPT ![c] = S]
          /\ drop' = [drop EXCEPT ![d].at = "recording", ![d].m = m, ![d].c = c]
    /\ UNCHANGED <<busy, tableVars, rentVars, sweep, crashes>>

\* No node takes it: left as it is, and the next is tried.
RedeployRefused(d) ==
    /\ MayRefuse /\ drop[d].at = "restoring"
    /\ \E m \in drop[d].left : drop' = [drop EXCEPT ![d].left = @ \ {m}]
    /\ UNCHANGED <<groupVars, busy, tableVars, rentVars, sweep, crashes>>

\* The new group is written down ...
Remember(d) ==
    /\ drop[d].at = "recording"
    /\ dep' = [dep EXCEPT ![drop[d].c] = "running"]
    /\ drop' = [drop EXCEPT ![d].at = "restored"]
    /\ UNCHANGED <<groupVars, busy, lease, by, rentVars, sweep, crashes>>

NextToRestore(d) ==
    drop' = [drop EXCEPT ![d] = [Idle EXCEPT !.at = "restoring", !.of = drop[d].of,
                                             !.left = drop[d].left \ {drop[d].m}]]

\* ... and then the old one no longer waits to come back.
Restored(d) ==
    /\ drop[d].at = "restored"
    /\ dep' = [dep EXCEPT ![drop[d].m] = "gone"]
    /\ by' = [by EXCEPT ![drop[d].m] = 0]
    /\ NextToRestore(d)
    /\ UNCHANGED <<groupVars, busy, lease, rentVars, sweep, crashes>>

StopDropped(d) ==
    /\ drop[d].at = "restoring" /\ drop[d].left = {}
    /\ life' = Stopped(life, drop[d].of)
    /\ drop' = [drop EXCEPT ![d].at = "done"]
    /\ UNCHANGED <<on, busy, tableVars, rentVars, sweep, crashes>>

\* The owner takes a model down: its row is forgotten, then the group stopped.
\* (One step: nothing reads the row between the two, and what runs meanwhile
\* may as well run before.)
RemoveModel(g) ==
    /\ g \in Owned /\ dep[g] \in {"running", "evicted"}
    /\ dep' = [dep EXCEPT ![g] = "gone"]
    /\ by' = [by EXCEPT ![g] = 0]
    /\ life' = Stopped(life, g)
    /\ UNCHANGED <<on, busy, lease, rentVars, drop, sweep, crashes>>

-----------------------------------------------------------------------------
(* The sweep, the nodes, and the orchestrator's own life *)

\* (Fault: a group counts as live for as long as its record exists.)
SweepRead_Records ==
    /\ sweep = <<>>
    /\ sweep' = << {r \in Rent : life[r] # "none"} >>
    /\ UNCHANGED <<groupVars, busy, tableVars, rentVars, drop, crashes>>

\* _reconcile_forever: which groups still have unfinished tasks ...
SweepRead ==
    /\ sweep = <<>>
    /\ sweep' = << {r \in Rent : life[r] \in {"live", "stopping"}} >>
    /\ UNCHANGED <<groupVars, busy, tableVars, rentVars, drop, crashes>>

\* ... and, once the database answers, every other open lease is closed.
SweepClose ==
    /\ sweep # <<>>
    /\ lease' = [g \in Group |-> IF lease[g] = "open" /\ g \notin sweep[1]
                                 THEN "vanished" ELSE lease[g]]
    /\ sweep' = <<>>
    /\ UNCHANGED <<groupVars, busy, dep, by, rentVars, drop, crashes>>

\* Tasks end: told to, or by themselves (a script is through, a node is gone).
TasksEnd(g) ==
    /\ life[g] \in {"live", "stopping"}
    /\ life' = [life EXCEPT ![g] = "ended"]
    /\ UNCHANGED <<on, busy, tableVars, rentVars, drop, sweep, crashes>>

Telemetry(n) ==
    /\ busy' = IF \E g \in Group : n \in on[g] /\ life[g] \in {"live", "stopping"}
               THEN busy \union {n} ELSE busy \ {n}
    /\ busy' # busy
    /\ UNCHANGED <<groupVars, tableVars, rentVars, drop, sweep, crashes>>

\* Coroutines end with the process.
Crash ==
    /\ crashes < MaxCrashes
    /\ crashes' = crashes + 1
    /\ pc' = [r \in Rent |-> IF pc[r] \in {"idle", "done", "refused"} THEN pc[r] ELSE "lost"]
    /\ drop' = [d \in Drop |-> IF drop[d].at \in {"idle", "done"} THEN drop[d]
                               ELSE [Idle EXCEPT !.at = "lost"]]
    /\ free' = Blank /\ known' = Blank /\ queue' = Blank /\ out' = Blank
    /\ sweep' = <<>>
    /\ UNCHANGED <<groupVars, busy, tableVars>>

-----------------------------------------------------------------------------

RentThread(r) ==
    \/ ReadDeployments(r) \/ RefusePlan(r) \/ Displace(r)
    \/ PlaceOnFreed(r) \/ RefuseLate(r)
    \/ OpenLease(r) \/ LedgerFails(r) \/ MarkEvicted(r)

DropThread(d) ==
    \/ CloseLease(d) \/ ListEvicted(d) \/ Redeploy(d) \/ RedeployRefused(d)
    \/ Remember(d) \/ Restored(d) \/ StopDropped(d)

RentNext ==
    \/ \E r \in Rent : RentFree(r) \/ RentTight(r) \/ RentThread(r)
    \/ \E d \in Drop : DropThread(d) \/ \E r \in Rent : DropBegin(d, r)
    \/ \E g \in Group : RemoveModel(g) \/ TasksEnd(g)
    \/ SweepRead \/ SweepClose
    \/ \E n \in Node : Telemetry(n)
    \/ Crash

RentSpec == RentInit /\ [][RentNext]_rentalVars

\* Coroutines run on, the sweep comes round every minute, nodes report, tasks
\* told to stop end.  Users owe nothing.
RentFairness ==
    /\ \A r \in Rent : WF_rentalVars(RentThread(r))
    /\ \A d \in Drop : WF_rentalVars(DropThread(d))
    /\ WF_rentalVars(SweepRead) /\ WF_rentalVars(SweepClose)
    /\ \A n \in Node : WF_rentalVars(Telemetry(n))
    /\ \A g \in Group : WF_rentalVars(life[g] = "stopping" /\ TasksEnd(g))

RentFairSpec == RentSpec /\ RentFairness

-----------------------------------------------------------------------------
(* What must hold *)

\* preemption.py:118: a rented cluster is never taken down for another rental;
\* nothing but its own drop tells it to stop.
RentedNeverYields ==
    \A r \in Rent :
        life[r] = "stopping" => \E d \in Drop : drop[d].at = "done" /\ drop[d].of = r

\* The table and the nodes agree: a model recorded as evicted has been told to
\* stop, so that putting it back never makes two of it.
EvictedIsDown ==
    \A g \in Group : dep[g] = "evicted" => life[g] \in {"stopping", "ended"}

\* ledger.py, reconcile: a lease does not tick for ever; once its group has
\* ended it is closed, across crashes.
LeasesEnd == \A r \in Rent : []<>(life[r] = "ended" => lease[r] # "open")

\* ledger.py:163, reconcile: the sweep closes the leases "that are no more among
\* the live groups"; a cluster that runs on is billed on.
RunningIsBilled == \A r \in Rent : lease[r] = "vanished" => life[r] # "live"

\* app.py:319, _stop_billing: the rental is over, so what it displaced comes
\* back by itself.  Here, of a rental that ended without being dropped.
EvictedComesBack ==
    \A g \in Group :
        dep[g] = "evicted" /\ lease[by[g]] = "vanished" ~> dep[g] # "evicted"

=============================================================================
