------------------------------ MODULE Placement ------------------------------
(* Which node gets a task: the orchestrator's view of a node's cards, the     *)
(* promises it subtracts (AgentHub._placement_nodes, resources.choose_node),  *)
(* and the node that takes the task or refuses it.                            *)
(*                                                                            *)
(* The view is a report that travels and is old when it arrives; commands and *)
(* reports each keep their order.  Cards stand for every resource: they are   *)
(* what a node refuses for.                                                   *)
EXTENDS Naturals, Sequences, FiniteSets, SequencesExt

CONSTANTS Task, Host,
          Wanted,      \* cards each task asks for
          Cards,       \* cards of each node
          Job,         \* what is submitted together: disjoint sets of tasks
          Named,       \* tasks whose node is named and not chosen: rentals, models, administrators
          MaxInFlight  \* bound on what travels from a node

ASSUME PlacementAssumption ==
    /\ IsFiniteSet(Task) /\ Wanted \in [Task -> Nat] /\ Cards \in [Host -> Nat]
    /\ Named \subseteq Task /\ UNION Job = Task /\ MaxInFlight \in Nat

VARIABLES record,   \* the hub's: "none", "open", "closed"
          at,       \* TaskRecord.node_id
          shown,     \* AgentNode.gpus_free
          orders,     \* commands to each node
          reports,       \* reports and states from each node
          has,      \* the node's: "none", "runs", "ended" (cards not yet given back), "over"
          refused   \* history: tasks refused because of tasks that run
placeVars == <<record, at, shown, orders, reports, has, refused>>

PlaceInit ==
    /\ record = [t \in Task |-> "none"] /\ at \in [Task -> {CHOOSE n \in Host : TRUE}]
    /\ shown = Cards /\ orders = [n \in Host |-> <<>>] /\ reports = [n \in Host |-> <<>>]
    /\ has = [t \in Task |-> "none"] /\ refused = {}

CardSet(S) == UNION {{t} \X (1 .. Wanted[t]) : t \in S}
CardsOf(S) == Cardinality(CardSet(S))
Minus(a, b) == IF a > b THEN a - b ELSE 0

(* _promised_gpus and _reserved: both are everything unfinished on the node,  *)
(* whether its report counts it already or not, and both are subtracted       *)
Promised_None(n) == 0
Promised(n) == CardsOf({t \in Task : record[t] = "open" /\ at[t] = n})
Free(n, more) == Minus(Minus(shown[n], Promised(n) + more), Promised(n) + more)

(* choose_node takes the emptiest node that fits, _choose_for_group the ranks *)
(* one after the other, carrying what it has chosen forward                   *)
Emptiest(F, n) == \A k \in Host : F[k] <= F[n]
CanChoose(f, S) ==     \* f: the nodes _choose_for_group may return for S
    LET order == SetToSeq(S)
        taken(i, n) == CardsOf({order[k] : k \in {k \in 1 .. i - 1 : f[order[k]] = n}})
    IN \A i \in 1 .. Len(order) :
          LET F == [n \in Host |-> Free(n, taken(i, n))]
          IN F[f[order[i]]] >= Wanted[order[i]] /\ Emptiest(F, f[order[i]])
Placements(S) == {f \in [S -> Host] : CanChoose(f, S)}

(* submit_group: everybody has a place before anybody is sent                 *)
Command(f) ==
    /\ record' = [t \in Task |-> IF t \in DOMAIN f THEN "open" ELSE record[t]]
    /\ at' = [t \in Task |-> IF t \in DOMAIN f THEN f[t] ELSE at[t]]
    /\ orders' = [n \in Host |-> orders[n] \o SetToSeq({t \in DOMAIN f : f[t] = n})]
    /\ UNCHANGED <<shown, reports, has, refused>>
Submit(S) ==
    /\ S \in Job /\ S \intersect Named = {} /\ \A t \in S : record[t] = "none"
    /\ \E f \in Placements(S) : Command(f)
SubmitNamed(S) ==      \* nothing is asked of the nodes but that they are there
    /\ S \in Job /\ S \subseteq Named /\ \A t \in S : record[t] = "none"
    /\ \E f \in [S -> Host] : Command(f)

(* ------------------------------------------------------------- the node --- *)
Runs(n) == CardsOf({t \in Task : at[t] = n /\ has[t] = "runs"})
Held(n) == CardsOf({t \in Task : at[t] = n /\ has[t] \in {"runs", "ended"}})
Say(n, m) == reports' = [reports EXCEPT ![n] = Append(@, m)]
Room(n) == Len(reports[n]) < MaxInFlight
Take(n) ==
    /\ orders[n] # <<>> /\ Room(n) /\ orders' = [orders EXCEPT ![n] = Tail(@)]
    /\ LET t == Head(orders[n]) IN
       IF Held(n) + Wanted[t] <= Cards[n]
       THEN has' = [has EXCEPT ![t] = "runs"] /\ UNCHANGED <<reports, refused>>
       ELSE /\ has' = [has EXCEPT ![t] = "over"]
            /\ refused' = IF Runs(n) + Wanted[t] > Cards[n] THEN refused \union {t} ELSE refused
            /\ Say(n, [kind |-> "ended", task |-> t])
    /\ UNCHANGED <<record, at, shown>>
End(t) ==      \* said before the cards are given back
    /\ has[t] = "runs" /\ Room(at[t]) /\ has' = [has EXCEPT ![t] = "ended"]
    /\ Say(at[t], [kind |-> "ended", task |-> t])
    /\ UNCHANGED <<record, at, shown, orders, refused>>
GiveBack(t) == /\ has[t] = "ended" /\ has' = [has EXCEPT ![t] = "over"]
               /\ UNCHANGED <<record, at, shown, orders, reports, refused>>
Report(n) == /\ Room(n) /\ Say(n, [kind |-> "free", cards |-> Cards[n] - Held(n)])
             /\ UNCHANGED <<record, at, shown, orders, has, refused>>

Hear(n) ==
    /\ reports[n] # <<>> /\ reports' = [reports EXCEPT ![n] = Tail(@)]
    /\ LET m == Head(reports[n]) IN
       IF m.kind = "free" THEN shown' = [shown EXCEPT ![n] = m.cards] /\ UNCHANGED record
       ELSE record' = [record EXCEPT ![m.task] = "closed"] /\ UNCHANGED shown
    /\ UNCHANGED <<at, orders, has, refused>>

PlaceNext == \/ \E S \in Job : Submit(S) \/ SubmitNamed(S)
             \/ \E n \in Host : Take(n) \/ Report(n) \/ Hear(n)
             \/ \E t \in Task : End(t) \/ GiveBack(t)
PlaceSpec == PlaceInit /\ [][PlaceNext]_placeVars
----------------------------------------------------------------------------
(* "a task that was accepted here is never refused by the node that gets it"  *)
(* (resources.py): the node of a task that was chosen, not named, has room    *)
(* for it beside all that runs there, however old the reports and whatever    *)
(* named tasks were forced onto it.  The node can still refuse it while the   *)
(* cards of one that has ended are not given back: that is said too early.    *)
ChosenIsTaken == refused \subseteq Named

(* The promises are those "not yet reported by telemetry" (_promised_gpus):   *)
(* when everything has been reported, a task that the free cards of a node    *)
(* can hold is placed.                                                        *)
Quiet == \A n \in Host : /\ orders[n] = <<>> /\ reports[n] = <<>>
                         /\ shown[n] = Cards[n] - Held(n)
FreeCardsAreOffered ==
    Quiet => \A t \in Task \ Named : (\E n \in Host : shown[n] >= Wanted[t]) => Placements({t}) # {}
=============================================================================
