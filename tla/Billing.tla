------------------------------ MODULE Billing ------------------------------
(***************************************************************************)
(* Who used how much, and what it costs: the journal of usage/ledger.py    *)
(* and the callers in api/app.py and orchestrator/server.py that open,     *)
(* close and read it.                                                      *)
(*                                                                         *)
(* The clock is counted in ticks, TicksPerHour of them to the hour a rate  *)
(* is for.  Every query is one step on the database; between two queries   *)
(* of one request others may come, so that opening a lease and sweeping    *)
(* take two steps each.  One account.                                      *)
(*                                                                         *)
(* Left out: currencies, labels, lists and files made of a report, the     *)
(* filters by account and by resource (each selects rows of its own), and  *)
(* credits, which are only ever added up.                                  *)
(***************************************************************************)
EXTENDS Integers, FiniteSets, FiniteSetsExt

CONSTANTS
    Bill,           \* groups somebody pays for
    Trains,         \* those that are trainings; the others are clusters
    Devices,        \* Devices[g]: cards a group takes
    Prices,         \* rates per hour an operator sets, and costs of an answer
    TicksPerHour,   \* SECONDS_PER_HOUR
    MaxClock,       \* bound: ticks
    MaxChanges,     \* bound: how often a rate is set
    MaxAnswers      \* bound: rows of token_usage

ASSUME BillAssumption == Trains \subseteq Bill /\ Devices \in [Bill -> Nat]
ASSUME MoneyAssumption ==
    Prices \subseteq Nat /\ TicksPerHour \in Nat \ {0}
ASSUME LimitsAssumption == MaxClock \in Nat /\ MaxChanges \in Nat /\ MaxAnswers \in Nat

VARIABLES
    clock,
    tariff,     \* rates: -1 while a resource has no row
    group,      \* "none", "live", "over"
    entry,      \* leases: [state, opened, closed, per_hour]
    asked,      \* open_lease between its two queries: the rate read, or -1
    known_live, \* <<>> or <<groups the sweep found live>>
    answers,    \* token_usage: [at, cost]
    changes     \* bound: rates set so far

billVars == <<clock, tariff, group, entry, asked, known_live, answers, changes>>

Resource == {"looma-compute", "looma-training"}
Product(g) == IF g \in Trains THEN "looma-training" ELSE "looma-compute"
NoEntry == [state |-> "none", opened |-> 0, closed |-> 0, per_hour |-> 0]

BillInit ==
    /\ clock = 0
    /\ tariff = [r \in Resource |-> -1]
    /\ group = [g \in Bill |-> "none"]
    /\ entry = [g \in Bill |-> NoEntry]
    /\ asked = [g \in Bill |-> -1]
    /\ known_live = <<>>
    /\ answers = {} /\ changes = 0

-----------------------------------------------------------------------------
(* What things cost *)

\* cost: rounded up.
CostOf(per_hour, gpus, ticks) ==
    IF per_hour <= 0 \/ gpus <= 0 \/ ticks <= 0 THEN 0
    ELSE (per_hour * gpus * ticks + TicksPerHour - 1) \div TicksPerHour

EndOf(e) == IF e.state = "open" THEN clock ELSE e.closed

\* A row's cost, at the rate written in it.
Owed(g) == CostOf(entry[g].per_hour, Devices[g], EndOf(entry[g]) - entry[g].opened)

\* The bounds of a report, of a lease by its opening.
InPeriod(t, since, until) == since <= t /\ t < until

SumOver(f) == MapThenSumSet(LAMBDA x : f[x], DOMAIN f)

\* report: its total.
Total(since, until) ==
    LET leases == {g \in Bill : entry[g].state # "none" /\ InPeriod(entry[g].opened, since, until)}
        said == {a \in answers : InPeriod(a.at, since, until)} IN
    SumOver([g \in leases |-> Owed(g)]) + SumOver([a \in said |-> a.cost])

\* rate: a training without a rate of its own goes by the cluster's.
RateNow(r) ==
    LET own == IF tariff[r] < 0 /\ r = "looma-training" THEN tariff["looma-compute"]
                                                        ELSE tariff[r] IN
    IF own < 0 THEN 0 ELSE own

-----------------------------------------------------------------------------
(* Steps *)

Tick ==
    /\ clock < MaxClock
    /\ clock' = clock + 1
    /\ UNCHANGED <<tariff, group, entry, asked, known_live, answers, changes>>

SetRate(r, p) ==
    /\ changes < MaxChanges /\ changes' = changes + 1
    /\ tariff[r] # p
    /\ tariff' = [tariff EXCEPT ![r] = p]
    /\ UNCHANGED <<clock, group, entry, asked, known_live, answers>>

\* The group is on record before its rate is asked for.
BeginUse(g) ==
    /\ group[g] = "none"
    /\ group' = [group EXCEPT ![g] = "live"]
    /\ asked' = [asked EXCEPT ![g] = RateNow(Product(g))]
    /\ UNCHANGED <<clock, tariff, entry, known_live, answers, changes>>

\* The database may refuse: the group runs unbilled.
InsertLease(g) ==
    /\ asked[g] >= 0
    /\ asked' = [asked EXCEPT ![g] = -1]
    /\ \/ entry' = [entry EXCEPT ![g] = [state |-> "open", opened |-> clock, closed |-> 0,
                                         per_hour |-> asked[g]]]
       \/ UNCHANGED entry
    /\ UNCHANGED <<clock, tariff, group, known_live, answers, changes>>

\* (Fault: a lease that is closed already is closed once more.)
Closes_Again(S, why) ==
    entry' = [g \in Bill |-> IF g \in S /\ entry[g].state # "none"
                             THEN [entry[g] EXCEPT !.state = why, !.closed = clock] ELSE entry[g]]

\* UPDATE leases ... WHERE closed_at IS NULL.
Closes(S, why) ==
    entry' = [g \in Bill |-> IF g \in S /\ entry[g].state = "open"
                             THEN [entry[g] EXCEPT !.state = why, !.closed = clock] ELSE entry[g]]

\* A drop, an eviction, a training that is through, an administrator: a lease
\* may be closed by any of them, more than once, before or after its group.
ReleaseLease(g) ==
    /\ group[g] # "none"
    /\ Closes({g}, "released")
    /\ UNCHANGED <<clock, tariff, group, asked, known_live, answers, changes>>

GroupEnds(g) ==
    /\ group[g] = "live"
    /\ group' = [group EXCEPT ![g] = "over"]
    /\ UNCHANGED <<clock, tariff, entry, asked, known_live, answers, changes>>

\* _reconcile_forever: which groups are live ...
LookLive ==
    /\ known_live = <<>>
    /\ known_live' = << {g \in Bill : group[g] = "live"} >>
    /\ UNCHANGED <<clock, tariff, group, entry, asked, answers, changes>>

\* ... and the leases of all others are closed.
CloseUnseen ==
    /\ known_live # <<>>
    /\ Closes(Bill \ known_live[1], "vanished")
    /\ known_live' = <<>>
    /\ UNCHANGED <<clock, tariff, group, asked, answers, changes>>

\* record_tokens, at the price of the moment.
CountAnswer(p) ==
    /\ Cardinality(answers) < MaxAnswers
    /\ answers' = answers \union {[at |-> clock, cost |-> p]}
    /\ UNCHANGED <<clock, tariff, group, entry, asked, known_live, changes>>

BillNext ==
    \/ Tick \/ LookLive \/ CloseUnseen
    \/ \E g \in Bill : BeginUse(g) \/ InsertLease(g) \/ ReleaseLease(g) \/ GroupEnds(g)
    \/ \E p \in Prices : CountAnswer(p) \/ \E r \in Resource : SetRate(r, p)

BillSpec == BillInit /\ [][BillNext]_billVars

-----------------------------------------------------------------------------
(* What must hold *)

\* ledger.py:9-12: a bill is not rewritten.  Whatever happens to rates, groups
\* and leases afterwards, what a lease has cost never falls, once it is closed,
\* by whom ever, it does not change, and a report on a time that is past says
\* the same for ever once the leases of that time are closed.
BillsAreFinal ==
    [][/\ \A g \in Bill : entry[g].state # "none" =>
             /\ Owed(g)' >= Owed(g)
             /\ entry[g].state # "open" => Owed(g)' = Owed(g)
       /\ \A t \in 0 .. clock :
             (\A g \in Bill : entry[g].state = "open" => ~InPeriod(entry[g].opened, 0, t))
             => Total(0, t)' = Total(0, t)]_billVars
=============================================================================
