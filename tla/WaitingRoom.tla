----------------------------- MODULE WaitingRoom -----------------------------
(* Rentals that wait for free nodes: the tickets (orchestrator/waiting.py),   *)
(* the sweep that serves them (serve_waiting, _serve_waiting_forever) and the *)
(* rentals that take nodes meanwhile (_start_cluster in api/app.py).  A node  *)
(* is free when its last telemetry says that nothing runs there.              *)
(*                                                                            *)
(* Everything between two awaits is one step; a start awaits once, for the    *)
(* lease.  Starting with displacement is Rental's.                            *)
EXTENDS Naturals, Sequences, FiniteSets

CONSTANTS Ticket,
          Place,
          Size,     \* nodes each ticket asks for
          Spoilt    \* requests refused for another reason than missing nodes

ASSUME WaitingAssumption == Size \in [Ticket -> Nat \ {0}] /\ Spoilt \subseteq Ticket

VARIABLES ticket,   \* "none", "direct", "waiting", "started", "failed", "expired", "cancelled", "forgotten"
          line,     \* tickets in the order they were created
          old,      \* tickets whose time is over
          usher,    \* {} or the ticket the sweep is opening a lease for
          quiet,     \* nodes whose telemetry says they are free
          held,       \* rentals on each node
          starts    \* history: clusters started for each ticket
waitVars == <<ticket, line, old, usher, quiet, held, starts>>

WaitInit ==
    /\ ticket = [t \in Ticket |-> "none"] /\ line = <<>> /\ old = {} /\ usher = {}
    /\ quiet = Place /\ held = [n \in Place |-> {}] /\ starts = [t \in Ticket |-> 0]

EnoughFree(t) == Cardinality(quiet) >= Size[t]
Start(t) ==       \* free[:size], in an order of the network's
    /\ \E S \in SUBSET quiet :
          /\ Cardinality(S) = Size[t]
          /\ held' = [n \in Place |-> IF n \in S THEN held[n] \union {t} ELSE held[n]]
    /\ starts' = [starts EXCEPT ![t] = @ + 1]

(* policy "wait": at once if it can be, else a ticket                         *)
Rent(t) ==
    /\ ticket[t] = "none"
    /\ IF EnoughFree(t) /\ t \notin Spoilt
       THEN ticket' = [ticket EXCEPT ![t] = "direct"] /\ Start(t) /\ UNCHANGED line
       ELSE /\ ~EnoughFree(t) /\ ticket' = [ticket EXCEPT ![t] = "waiting"] /\ line' = Append(line, t)
            /\ UNCHANGED <<held, starts>>
    /\ UNCHANGED <<old, usher, quiet>>

(* due: the waiting, the oldest first; those out of time are closed           *)
Expired_Never(tk) == tk
Expired(tk) == [t \in Ticket |-> IF tk[t] = "waiting" /\ t \in old THEN "expired" ELSE tk[t]]
Due(tk) == {i \in DOMAIN line : tk[line[i]] = "waiting"}

(* serve_waiting: the first that can be started is, and the pass is over;     *)
(* a spoilt one before it fails                                               *)
Sweep ==
    /\ usher = {}
    /\ LET tk == Expired(ticket)
           fit == {i \in Due(tk) : EnoughFree(line[i])}
           good == {i \in fit : line[i] \notin Spoilt}
           failed == {line[i] : i \in {i \in fit \ good : \A j \in good : i < j}}
       IN /\ ticket' = [t \in Ticket |-> IF t \in failed THEN "failed" ELSE tk[t]]
          /\ \/ good = {} /\ UNCHANGED <<usher, held, starts>>
             \/ \E i \in good : /\ \A j \in good : i <= j
                                /\ usher' = {line[i]} /\ Start(line[i])
    /\ UNCHANGED <<line, old, quiet>>
Settled_Not == usher # {} /\ usher' = {} /\ UNCHANGED <<ticket, line, old, quiet, held, starts>>
(* the lease is open, or failed to: done closes what the ticket has become    *)
Settled == /\ usher # {}
           /\ ticket' = [t \in Ticket |-> IF t \in usher /\ ticket[t] # "forgotten" THEN "started" ELSE ticket[t]]
           /\ usher' = {} /\ UNCHANGED <<line, old, quiet, held, starts>>

(* of: a client reads its tickets, which closes those out of time             *)
Read == /\ ticket' = Expired(ticket) /\ ticket' # ticket
        /\ UNCHANGED <<line, old, usher, quiet, held, starts>>
Closed == {"started", "failed", "expired", "cancelled"}
Cancel(t) == /\ ticket[t] \in Closed \union {"waiting"}
             /\ ticket' = [ticket EXCEPT ![t] = IF @ = "waiting" THEN "cancelled" ELSE "forgotten"]
             /\ UNCHANGED <<line, old, usher, quiet, held, starts>>

TimeIsOver(t) == /\ ticket[t] = "waiting" /\ t \notin old /\ old' = old \union {t}
                 /\ UNCHANGED <<ticket, line, usher, quiet, held, starts>>
Telemetry(n) == /\ quiet' = (IF held[n] = {} THEN quiet \union {n} ELSE quiet \ {n})
                /\ UNCHANGED <<ticket, line, old, usher, held, starts>>
Ends(t) == /\ \E n \in Place : t \in held[n]
           /\ held' = [n \in Place |-> held[n] \ {t}]
           /\ UNCHANGED <<ticket, line, old, usher, quiet, starts>>

WaitNext == \/ \E t \in Ticket : Rent(t) \/ Cancel(t) \/ TimeIsOver(t) \/ Ends(t)
            \/ Sweep \/ Settled \/ Read \/ \E n \in Place : Telemetry(n)
WaitSpec == WaitInit /\ [][WaitNext]_waitVars
----------------------------------------------------------------------------
(* A ticket is worth one cluster, and one that ended in another way none: not *)
(* even when it is cancelled, runs out of time or is read while its lease is  *)
(* being opened.                                                              *)
OneClusterATicket ==
    \A t \in Ticket : /\ starts[t] <= 1
                      /\ (usher = {} /\ ticket[t] \in {"waiting", "failed", "expired", "cancelled"})
                            => starts[t] = 0

(* Nobody waits for ever: a ticket is served, refused or written off.         *)
TicketsEnd == []<>(\A t \in Ticket : ticket[t] # "waiting")
=============================================================================
