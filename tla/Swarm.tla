-------------------------------- MODULE Swarm --------------------------------
(* How an agent enters the peer network and what it says of it: the node is   *)
(* brought up when the orchestrator names a rendezvous (PeerLayer), on the    *)
(* first of a few ports that is free (PeerNode._build), is sampled by a       *)
(* thread of its own, and is closed before the agent goes.  The rendezvous    *)
(* lives in the orchestrator and falls with it (RendezvousNode).              *)
(*                                                                            *)
(* All agents are on one host.  Tasks make an agent busy: while one runs the  *)
(* sampler does not enter the library, whose runtime their tunnels hold.      *)
EXTENDS Naturals, FiniteSets

CONSTANTS Peer,
          Attempts,     \* PORT_ATTEMPTS
          MaxFalls,     \* bound on falls of the rendezvous
          MaxRestarts   \* bound on restarts of agents, polite or not

ASSUME SwarmAssumption == Attempts \in Nat /\ MaxFalls \in Nat /\ MaxRestarts \in Nat

VARIABLES meeting,    \* the rendezvous is up
          peer,       \* "off", "joining" (in _await_join), "up"
          port,       \* the port of a node, as an offset to the configured one
          orphaned,   \* ports of killed agents the system still holds
          joined,     \* connected to the rendezvous: what in_network would say
          sampler,    \* "waits", "looked" (not busy, about to sample)
          shown,      \* _in_network: what telemetry says
          busy,       \* a task runs
          falls, restarts, killed

swarmVars == <<meeting, peer, port, orphaned, joined, sampler, shown, busy, falls, restarts, killed>>
outside == <<busy, falls, restarts, killed>>

All(v) == [a \in Peer |-> v]
SwarmInit ==
    /\ meeting \in BOOLEAN /\ peer = All("off") /\ port = All(0) /\ orphaned = {}
    /\ joined = All(FALSE) /\ sampler = All("waits") /\ shown = All(FALSE) /\ busy = All(FALSE)
    /\ falls = 0 /\ restarts = 0 /\ killed = 0

Held == {port[a] : a \in {a \in Peer : peer[a] # "off"}} \union orphaned
FreePorts == {p \in 0 .. Attempts - 1 : p \notin Held}
FirstFree == CHOOSE p \in FreePorts : \A q \in FreePorts : p <= q

(* _on_registered: the first registration that names a rendezvous brings the  *)
(* node up, no later one touches it; without a free port it stays down        *)
BringUp(a) == IF FreePorts = {} THEN UNCHANGED <<peer, port>>
              ELSE peer' = [peer EXCEPT ![a] = "joining"] /\ port' = [port EXCEPT ![a] = FirstFree]
\* (Fault: a node that has lost the rendezvous is built anew.)
Registered_Again(a) ==
    /\ meeting /\ ~joined[a] /\ joined' = joined
    /\ \/ peer[a] = "off" /\ BringUp(a)
       \/ peer[a] = "up" /\ peer' = [peer EXCEPT ![a] = "off"] /\ UNCHANGED port
    /\ UNCHANGED <<meeting, orphaned, sampler, shown, outside>>
Registered(a) ==
    /\ meeting /\ peer[a] = "off" /\ BringUp(a)
    /\ UNCHANGED <<meeting, orphaned, joined, sampler, shown, outside>>
(* _await_join: joined or not after JOIN_TIMEOUT_S, the node is up            *)
AwaitJoin(a) == /\ peer[a] = "joining" /\ peer' = [peer EXCEPT ![a] = "up"]
                /\ UNCHANGED <<meeting, port, orphaned, joined, sampler, shown, outside>>

(* the library finds the rendezvous, and again after it was lost              *)
Join(a) == /\ peer[a] # "off" /\ meeting /\ ~joined[a] /\ joined' = [joined EXCEPT ![a] = TRUE]
           /\ UNCHANGED <<meeting, peer, port, orphaned, sampler, shown, outside>>
MeetingFalls == /\ meeting /\ falls < MaxFalls /\ falls' = falls + 1
                /\ meeting' = FALSE /\ joined' = All(FALSE)
                /\ UNCHANGED <<peer, port, orphaned, sampler, shown, busy, restarts, killed>>
MeetingRises == /\ ~meeting /\ meeting' = TRUE
                /\ UNCHANGED <<peer, port, orphaned, joined, sampler, shown, outside>>

(* the sampler's loop: whether anything runs is asked first                   *)
Peek(a) == /\ peer[a] = "up" /\ sampler[a] = "waits" /\ ~busy[a]
           /\ sampler' = [sampler EXCEPT ![a] = "looked"]
           /\ UNCHANGED <<meeting, peer, port, orphaned, joined, shown, outside>>
Sample(a) ==
    /\ sampler[a] = "looked" /\ sampler' = [sampler EXCEPT ![a] = "waits"]
    /\ shown' = [shown EXCEPT ![a] = joined[a]]
    /\ UNCHANGED <<meeting, peer, port, orphaned, joined, outside>>

(* Agent.stop closes the node and so gives its port back; a killed agent      *)
(* leaves that to the system                                                  *)
GoDown(a) == /\ peer' = [peer EXCEPT ![a] = "off"] /\ joined' = [joined EXCEPT ![a] = FALSE]
             /\ sampler' = [sampler EXCEPT ![a] = "waits"] /\ shown' = [shown EXCEPT ![a] = FALSE]
             /\ busy' = [busy EXCEPT ![a] = FALSE] /\ restarts' = restarts + 1
             /\ UNCHANGED <<meeting, port, falls>>
Close(a) == /\ peer[a] # "off" /\ restarts < MaxRestarts /\ GoDown(a) /\ UNCHANGED <<orphaned, killed>>
Killed(a) == /\ peer[a] # "off" /\ restarts < MaxRestarts /\ GoDown(a)
             /\ orphaned' = orphaned \union {port[a]} /\ killed' = killed + 1
SystemFrees(p) == /\ p \in orphaned /\ orphaned' = orphaned \ {p}
                  /\ UNCHANGED <<meeting, peer, port, joined, sampler, shown, outside>>
Work(a) == /\ peer[a] = "up" /\ busy' = [busy EXCEPT ![a] = ~@]
           /\ UNCHANGED <<meeting, peer, port, orphaned, joined, sampler, shown, falls, restarts, killed>>

SwarmNext ==
    \/ \E a \in Peer : \/ Registered(a) \/ AwaitJoin(a) \/ Join(a) \/ Peek(a) \/ Sample(a)
                       \/ Close(a) \/ Killed(a) \/ Work(a)
    \/ MeetingFalls \/ MeetingRises \/ \E p \in 0 .. Attempts - 1 : SystemFrees(p)
SwarmSpec == SwarmInit /\ [][SwarmNext]_swarmVars
----------------------------------------------------------------------------
(* A node that works is left to work: registering again, while a fallen       *)
(* rendezvous is still coming up, takes neither it nor its port away          *)
(* (PeerLayer.on_rendezvous).  Only the end of the agent does.                *)
WorkingNodeSurvives ==
    [][\A a \in Peer : peer[a] = "up" => peer'[a] = "up" \/ restarts' = restarts + 1]_swarmVars

=============================================================================
