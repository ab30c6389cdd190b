----------------------------- MODULE Preemption -----------------------------
(***************************************************************************)
(* Whom to move aside so that a rental gets its nodes:                     *)
(* src/looma/orchestrator/preemption.py, plan and standing_from.           *)
(*                                                                         *)
(* The call's arguments are variables that never change; the loop over the *)
(* sorted groups is one action per pass.  The list `taken' has no          *)
(* duplicates and the elements of `seen', so one set stands for both; the  *)
(* part of it that precedes the last group evicted is `sure'.  Nodes and   *)
(* groups are numbers in the order of their names.  Left out: labels and   *)
(* the wording of a refusal, and the order within the free nodes.          *)
(***************************************************************************)
EXTENDS Integers, FiniteSets

CONSTANTS
    Node,       \* node ids, as ordered by name
    Group,      \* ids of the groups on record
    Needs,      \* how many nodes a rental may ask for
    Times,      \* when a group may have been submitted
    Roles       \* what a group may be: "model", "protected", "rented"

ASSUME NamesAssumption == Node \subseteq Int /\ Group \subseteq Int
ASSUME FiniteAssumption == IsFiniteSet(Node) /\ IsFiniteSet(Group)
ASSUME NumbersAssumption == Needs \subseteq Int /\ Times \subseteq Int
ASSUME RolesAssumption == Roles \subseteq {"model", "protected", "rented"}

VARIABLES
    need, free,     \* the arguments of plan
    role, on, since,  \* of each group: what it is, its nodes, submitted_at
    verdict,        \* "asked", "looking", "plan", "refusal"
    todo,           \* groups the loop has not come to
    seen, sure,     \* nodes collected; those collected before the last group
    evict, nodes    \* the plan

asked == <<need, free, role, on, since>>
planVars == <<asked, verdict, todo, seen, sure, evict, nodes>>

\* (Fault: protection is not looked at.)
Movable_Protected == {g \in Group : role[g] # "rented" /\ on[g] # {}}

\* standing_from leaves rented clusters out; plan drops the protected and those
\* that hold no node.
Movable == {g \in Group : role[g] = "model" /\ on[g] # {}}

\* The sort key, computed once: most nodes freed first, then the latest, then
\* by name.
Before(g, h) ==
    LET fresh(x) == Cardinality(on[x] \ free) IN
    \/ fresh(g) > fresh(h)
    \/ fresh(g) = fresh(h) /\ since[g] > since[h]
    \/ fresh(g) = fresh(h) /\ since[g] = since[h] /\ g < h

PlanInit ==
    /\ need \in Needs
    /\ free \in SUBSET Node
    /\ role \in [Group -> Roles]
    /\ on \in [Group -> SUBSET Node]
    /\ since \in [Group -> Times]
    /\ verdict = "asked"
    /\ todo = {} /\ seen = {} /\ sure = {} /\ evict = {} /\ nodes = {}

RefuseZero ==
    /\ verdict = "asked" /\ need <= 0
    /\ verdict' = "refusal"
    /\ UNCHANGED <<asked, todo, seen, sure, evict, nodes>>

\* Enough is free: nobody moves.
TakeFree ==
    /\ verdict = "asked" /\ need > 0 /\ Cardinality(free) >= need
    /\ \E S \in SUBSET free : Cardinality(S) = need /\ nodes' = S
    /\ verdict' = "plan"
    /\ UNCHANGED <<asked, todo, seen, sure, evict>>

Begin ==
    /\ verdict = "asked" /\ need > 0 /\ Cardinality(free) < need
    /\ verdict' = "looking"
    /\ todo' = Movable
    /\ seen' = free /\ sure' = free
    /\ UNCHANGED <<asked, evict, nodes>>

\* (Fault: the loop stops one node too late.)
Enough_Late == Cardinality(seen) > need

Enough == Cardinality(seen) >= need

\* The loop comes to g.
Turn(g) ==
    /\ verdict = "looking" /\ ~Enough
    /\ g \in todo
    /\ \A h \in todo \ {g} : Before(g, h)

\* All of g's nodes are counted already: no reason to move it.
Skip(g) ==
    /\ Turn(g) /\ on[g] \subseteq seen
    /\ todo' = todo \ {g}
    /\ UNCHANGED <<asked, verdict, seen, sure, evict, nodes>>

Evict(g) ==
    /\ Turn(g) /\ ~(on[g] \subseteq seen)
    /\ todo' = todo \ {g}
    /\ sure' = seen
    /\ seen' = seen \union on[g]
    /\ evict' = evict \union {g}
    /\ UNCHANGED <<asked, verdict, nodes>>

\* taken[:need]: of the last group's nodes, the first by name.
Grant ==
    /\ verdict = "looking" /\ Enough
    /\ \E S \in SUBSET seen :
          /\ Cardinality(S) = need
          /\ sure \subseteq S
          /\ \A n \in S \ sure, m \in seen \ S : n < m
          /\ nodes' = S
    /\ verdict' = "plan"
    /\ UNCHANGED <<asked, todo, seen, sure, evict>>

\* A refusal names nobody to evict.
RefusePlan ==
    /\ verdict = "looking" /\ ~Enough /\ todo = {}
    /\ verdict' = "refusal"
    /\ evict' = {}
    /\ UNCHANGED <<asked, todo, seen, sure, nodes>>

PlanNext ==
    \/ RefuseZero \/ TakeFree \/ Begin
    \/ \E g \in Group : Skip(g) \/ Evict(g)
    \/ Grant \/ RefusePlan

PlanSpec == PlanInit /\ [][PlanNext]_planVars

-----------------------------------------------------------------------------
(* What a plan promises *)

NodesOf(S) == UNION {on[g] : g \in S}

\* The plan in closed form: g goes if it comes before enough is collected and
\* brings a node nobody before it has.
Covered(g) == free \union NodesOf({h \in Movable : Before(h, g)})
Evicted ==
    {g \in Movable : Cardinality(Covered(g)) < need /\ ~(on[g] \subseteq Covered(g))}

-----------------------------------------------------------------------------
(* What must hold *)

\* The shapes of the variables; nodes is empty exactly when there is no plan
\* (preemption.py:46).
PlanTypeOK ==
    /\ need \in Needs /\ free \subseteq Node
    /\ role \in [Group -> Roles]
    /\ on \in [Group -> SUBSET Node]
    /\ since \in [Group -> Times]
    /\ verdict \in {"asked", "looking", "plan", "refusal"}
    /\ todo \subseteq Group /\ evict \subseteq Group
    /\ seen \subseteq Node /\ sure \subseteq Node /\ nodes \subseteq Node
    /\ nodes # {} <=> verdict = "plan"

\* A plan gives as many nodes as were asked for, each free or under a group it
\* evicts; only unprotected models are evicted.
PlanSuffices ==
    verdict = "plan" =>
        /\ Cardinality(nodes) = need
        /\ nodes \subseteq free \union NodesOf(evict)
        /\ \A g \in evict : role[g] = "model"

\* "Refuse rather than evict in part" (preemption.py:14): a refusal evicts
\* nobody, and not even evicting every group that may move would be enough.
RefusalIsJust ==
    verdict = "refusal" /\ need > 0 =>
        /\ evict = {}
        /\ Cardinality(free \union NodesOf(Movable)) < need

\* The same arguments give the same plan (preemption.py:87): whom the loop
\* evicts is a function of the arguments, and no group is evicted whose nodes
\* were all at hand.
PlanIsDetermined == verdict = "plan" => evict = Evicted

\* No eviction beyond what is needed: one of the groups evicted, the last,
\* could not have been spared.
LastOneCounts ==
    verdict = "plan" /\ evict # {} =>
        \E g \in evict : Cardinality(free \union NodesOf(evict \ {g})) < need

=============================================================================
