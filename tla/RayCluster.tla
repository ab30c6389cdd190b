----------------------------- MODULE RayCluster -----------------------------
(* The Ray payload: every rank of a group asks its agent for the ports of the *)
(* others, starts a Ray node, waits until all nodes are in one cluster, and   *)
(* then rank 0 runs the client's script or everybody holds until stopped      *)
(* (looma_ray/server.py main, cluster.py).                                    *)
(*                                                                            *)
(* Where a rank's node went is "own", the cluster of this group, or "old": a  *)
(* cluster of an earlier group whose window of ports is the same and whose    *)
(* processes were left behind.  Time limits are choices a wait always has.    *)
EXTENDS Naturals, FiniteSets

CONSTANTS Size,        \* ranks 0 .. Size - 1
          Host,        \* the machine of each rank; two may share one
          Leftovers,   \* the leftovers looked at: sets of <<machine, rank>>
          MaxDeaths    \* bound on nodes of Ray that die by themselves

Rank == 0 .. Size - 1
ASSUME RayAssumption ==
    /\ Size \in Nat \ {0} /\ DOMAIN Host = Rank /\ MaxDeaths \in Nat
    /\ \A L \in Leftovers : L \subseteq {Host[r] : r \in Rank} \X Rank

VARIABLES rank,    \* "ask", "start", "call", "head", "join", "group", "up", "script", "clean", "ended"
          told,    \* STOP and _STOP: the agent asked the rank to stop
          node,    \* "none", "own", "old": the Ray node this rank's session runs
          link,    \* _CONNECTED and _BROKEN: "none", "ok", "broken"
          ok,      \* STATE["ready"], what /health says
          left,    \* leftovers of an earlier cluster
          met,     \* history: ranks whose node has been in the cluster
          fell,    \* history: ranks whose node died by itself
          deaths

rayVars == <<rank, told, node, link, ok, left, met, fell, deaths>>

RayInit ==
    /\ rank = [r \in Rank |-> "ask"] /\ told = [r \in Rank |-> FALSE]
    /\ node = [r \in Rank |-> "none"] /\ link = [r \in Rank |-> "none"]
    /\ ok = [r \in Rank |-> FALSE] /\ left \in Leftovers /\ met = {} /\ fell = {} /\ deaths = 0

Goto(r, p) == rank' = [rank EXCEPT ![r] = p]
Refuse(r) == Goto(r, "clean")
Still == UNCHANGED <<told, left, deaths>>

(* ------------------------------------------------------- before ray start --- *)
(* The agent listens for the ranks of other machines on theirs addresses and  *)
(* skips a port that is taken; without the essential ones there is no cluster *)
EssentialFree(r) == \E k \in Rank : Host[k] # Host[r] /\ <<Host[r], k>> \in left
Ask(r) ==
    /\ rank[r] = "ask"
    /\ \/ IF EssentialFree(r) THEN Refuse(r) ELSE Goto(r, "start")
       \/ Refuse(r)     \* the agent refused, or cannot be reached
    /\ Still /\ UNCHANGED <<node, link, ok, met, fell>>

(* its own ports, asked before anything is started: ray start would not say   *)
Occupied(r) == <<Host[r], r>> \in left
Check(r) ==
    /\ rank[r] = "start"
    /\ IF Occupied(r) THEN Refuse(r) ELSE Goto(r, IF r = 0 THEN "join" ELSE "head")
    /\ Still /\ UNCHANGED <<node, link, ok, met, fell>>

(* wait_for_head: a connection is enough, and another machine's head is       *)
(* answered for by the agent, whether it is there or not                      *)
Accepts(r) == Host[r] # Host[0] \/ node[0] # "none" \/ <<Host[r], 0>> \in left
WaitForHead(r) ==
    /\ rank[r] = "head"
    /\ \/ told[r] /\ Refuse(r)
       \/ ~told[r] /\ Accepts(r) /\ Goto(r, "join")
       \/ ~Accepts(r) /\ Refuse(r)
    /\ Still /\ UNCHANGED <<node, link, ok, met, fell>>

(* ------------------------------------------------------------- _run_start --- *)
(* The node joins whoever answers at the head's address.                      *)
HeadSeen(r) == IF <<Host[r], 0>> \in left THEN "old" ELSE "own"
Answers(r) == r = 0 \/ HeadSeen(r) = "old" \/ node[0] # "none"
(* one attempt: done; or given up although its node is up; or nothing came of *)
(* it.  A node that is up already refuses a second one its ports              *)
Attempt(r) ==
    /\ rank[r] = "join" /\ ~told[r]
    /\ \/ /\ Answers(r) /\ node[r] = "none"
          /\ node' = [node EXCEPT ![r] = HeadSeen(r)]
          /\ met' = IF HeadSeen(r) = "own" THEN met \union {r} ELSE met
          /\ \/ Goto(r, "group")
             \/ IF r = 0 THEN Refuse(r) ELSE UNCHANGED rank
       \/ /\ r = 0 /\ Refuse(r) /\ UNCHANGED <<node, met>>
    /\ Still /\ UNCHANGED <<link, ok, fell>>
GiveUp(r) == /\ rank[r] = "join" /\ (r # 0 \/ told[r])
             /\ Refuse(r) /\ Still /\ UNCHANGED <<node, link, ok, met, fell>>

(* --------------------------------------------------------- wait_for_group --- *)
(* the connection to one's own node is tried once, and never again            *)
Connect(r) ==
    /\ rank[r] = "group" /\ link[r] = "none"
    /\ \E l \in {"ok", "broken"} : /\ l = "ok" => node[r] # "none" /\ node[0] # "none"
                                   /\ link' = [link EXCEPT ![r] = l]
    /\ Still /\ UNCHANGED <<rank, node, ok, met, fell>>
AliveNodes == IF node[0] = "none" THEN 0 ELSE Cardinality({k \in Rank : node[k] = "own"})
Whole_Head(r) == link[r] = "ok" /\ (node[r] = "old" \/ AliveNodes >= 1)
Whole(r) == link[r] = "ok" /\ (node[r] = "old" \/ AliveNodes >= Size)
Gathered(r) ==
    /\ rank[r] = "group" /\ ~told[r] /\ Whole(r)
    /\ ok' = [ok EXCEPT ![r] = TRUE] /\ Goto(r, "up")
    /\ Still /\ UNCHANGED <<node, link, met, fell>>
(* JOIN_WAIT_S is over, or STOP was set                                       *)
NotGathered(r) ==
    /\ rank[r] = "group" /\ link[r] # "none"
    /\ Refuse(r) /\ Still /\ UNCHANGED <<node, link, ok, met, fell>>

(* -------------------------------------------------------- the cluster is up --- *)
RunScript == /\ rank[0] = "up" /\ Goto(0, "script")
             /\ Still /\ UNCHANGED <<node, link, ok, met, fell>>
ScriptEnds == /\ rank[0] = "script" /\ Refuse(0)
              /\ Still /\ UNCHANGED <<node, link, ok, met, fell>>
Hold_Deaf(r) == FALSE /\ Still /\ UNCHANGED <<rank, node, link, ok, met, fell>>
Hold(r) == /\ rank[r] = "up" /\ told[r] /\ Refuse(r)
           /\ Still /\ UNCHANGED <<node, link, ok, met, fell>>

(* finally: stop_node takes down what carries this session's directory, and   *)
(* nothing else of Ray on the machine; then the agent reaps what is left      *)
Cleanup_Machine(r) ==
    /\ rank[r] = "clean" /\ Goto(r, "ended") /\ ok' = [ok EXCEPT ![r] = FALSE]
    /\ node' = [k \in Rank |-> IF Host[k] = Host[r] THEN "none" ELSE node[k]]
    /\ Still /\ UNCHANGED <<link, met, fell>>
Cleanup(r) ==
    /\ rank[r] = "clean" /\ Goto(r, "ended") /\ ok' = [ok EXCEPT ![r] = FALSE]
    /\ node' = [node EXCEPT ![r] = "none"]
    /\ Still /\ UNCHANGED <<link, met, fell>>

(* --------------------------------------------------------------- outside --- *)
Tell(r) == /\ rank[r] # "ended" /\ ~told[r] /\ told' = [told EXCEPT ![r] = TRUE]
           /\ UNCHANGED <<rank, node, link, ok, left, met, fell, deaths>>
Falls(r) == /\ node' = [node EXCEPT ![r] = "none"] /\ fell' = fell \union {r}
            /\ UNCHANGED <<rank, told, link, ok, left, met>>
NodeDies(r) == /\ node[r] # "none" /\ deaths < MaxDeaths /\ deaths' = deaths + 1 /\ Falls(r)
HeadLost(r) == /\ r # 0 /\ node[r] = "own" /\ node[0] = "none" /\ Falls(r) /\ UNCHANGED deaths
LeftoversEnd == /\ left # {} /\ left' = {}
                /\ UNCHANGED <<rank, told, node, link, ok, met, fell, deaths>>

RankStep(r) == \/ Ask(r) \/ Check(r) \/ WaitForHead(r) \/ Attempt(r) \/ GiveUp(r) \/ Connect(r)
               \/ Gathered(r) \/ NotGathered(r) \/ Hold(r) \/ Cleanup(r)
RayNext ==
    \/ \E r \in Rank : \/ Ask(r) \/ Check(r) \/ WaitForHead(r) \/ Attempt(r) \/ GiveUp(r)
                       \/ Connect(r) \/ Gathered(r) \/ NotGathered(r) \/ Hold(r) \/ Cleanup(r)
                       \/ Tell(r) \/ NodeDies(r) \/ HeadLost(r)
    \/ RunScript \/ ScriptEnds \/ LeftoversEnd

RaySpec == RayInit /\ [][RayNext]_rayVars
----------------------------------------------------------------------------
(* The client's code runs on a whole cluster or not at all: rank 0 is not  *)
(* past its wait before the nodes of all ranks have been in the cluster, and the   *)
(* head is never that of somebody else's.  (Another rank can still land in a  *)
(* cluster left on the head's machine; then the head refuses to start.)       *)
WholeOrNothing ==
    /\ rank[0] \in {"up", "script"} => met = Rank
    /\ node[0] # "old"
    /\ \A r \in Rank : rank[r] = "up" => met = Rank \/ node[r] = "old" \/ r \in fell

(* The ranks of one machine do not take each other down: whoever waits or     *)
(* works in the cluster has its node, unless the node fell by itself or with  *)
(* the head's.                                                                *)
NeighbourSpared ==
    \A r \in Rank \ fell : rank[r] \in {"group", "up", "script"} => node[r] # "none"

(* A group that is told to stop ends, wherever its ranks stand in the         *)
(* assembly, and leaves no node of Ray behind.                                *)
StopIsHeeded ==
    []<>((\A r \in Rank : told[r]) => \A r \in Rank : rank[r] = "ended" /\ node[r] = "none")
=============================================================================
