-------------------------------- MODULE Links --------------------------------
(* Messages from one member of a group to another: the sender's agent hands   *)
(* each to a direct peer-to-peer link or to the orchestrator's relay          *)
(* (LinkTable.send), a watcher thread follows what went direct to its         *)
(* acknowledgement and relays it when there is none (_watch_loop, _settle),   *)
(* the receiver's agent queues what comes direct and one thread delivers it   *)
(* (stage_forward, pump), and a member that is not here or not listening      *)
(* hears nothing (on_task_message, _deliver_local).                           *)
(*                                                                            *)
(* Measurements are kept as far as the choice of a path tells them apart; the *)
(* peer-to-peer library is external and taken to keep the order of a link.    *)
EXTENDS Naturals, Sequences, SequencesExt

CONSTANTS Msgs,       \* how many messages the task sends
          Depth,      \* INBOX_DEPTH
          Slack,      \* PENDING_ACKS
          MaxTurns    \* bound on breaks, lost answers, new measurements and new groups

ASSUME LinksAssumption == /\ Msgs \in Nat \ {0} /\ Depth \in Nat \ {0}
                          /\ Slack \in Nat /\ MaxTurns \in Nat

Msg == 1 .. Msgs
(* the direct trip against the relayed one, with the margin: clearly shorter, *)
(* about the same, clearly longer, or not measured                            *)
Trips == {"none", "shorter", "even", "longer"}

VARIABLES sent,      \* how many messages the task has sent
          routed,    \* the neighbour is in the table
          blocked,   \* _blocked_until is in the future
          noticed,   \* _seen_direct of the neighbour
          open,      \* one of the two accepts incoming connections
          trip,      \* _worth of the neighbour
          chosen,    \* _chosen: the path the last comparison kept
          wire,      \* direct messages in flight
          future,    \* acknowledgements: "none", "flying", "ok", "refused", "failed"
          pending,   \* the watcher's queue
          watching,  \* the message the watcher waits for, or 0
          inline,    \* the message the sending thread itself waits for, or 0
          streaming, \* both ends have their stream to the orchestrator
          relay,     \* relayed messages on their way
          inbox,     \* direct messages accepted by the receiving agent
          peer,      \* the receiving task: "away", "serving", "left"
          heard,     \* what it was given, in order
          path,      \* history: the ways each message was sent
          missed,    \* history: "broken", "unheard", "refused" for each message
          turns

linkVars == <<sent, routed, blocked, noticed, open, trip, chosen, wire, future, pending,
              watching, inline, streaming, relay, inbox, peer, heard, path, missed, turns>>
choice == <<routed, blocked, noticed, open, trip, chosen>>
acks == <<pending, watching, inline>>
far == <<inbox, peer, heard>>

LinkInit ==
    /\ sent = 0 /\ routed = FALSE /\ blocked = FALSE
    /\ noticed = "unknown" /\ open \in BOOLEAN /\ trip = "none" /\ chosen = TRUE
    /\ wire = <<>> /\ future = [m \in Msg |-> "none"]
    /\ pending = <<>> /\ watching = 0 /\ inline = 0
    /\ streaming = TRUE /\ relay = <<>> /\ inbox = <<>>
    /\ peer = "away" /\ heard = <<>>
    /\ path = [m \in Msg |-> {}] /\ missed = [m \in Msg |-> {}] /\ turns = 0

Upset == turns < MaxTurns /\ turns' = turns + 1
Misses(S, why) == missed' = [m \in Msg |-> IF m \in S THEN missed[m] \union {why} ELSE missed[m]]

(* ------------------------------------------------- the choice of a path --- *)
(* _worth_using: a comparison keeps the current path unless the other wins by *)
(* the margin                                                                 *)
Kept == IF chosen THEN trip # "longer" ELSE trip = "shorter"
Real == noticed # "circuit" /\ (noticed = "direct" \/ open)
Worth == Real /\ (trip = "none" \/ Kept)
(* direct_available: what it compared it remembers                            *)
Direct == routed /\ ~blocked /\ Worth
Compared == routed /\ ~blocked /\ Real /\ trip # "none"
Remember == chosen' = IF Compared THEN Kept ELSE chosen

(* set_neighbours: a group of this node is routed, this one or another; every *)
(* quarantine of the table is lifted                                          *)
Route == /\ IF routed THEN Upset ELSE UNCHANGED turns
         /\ routed' = TRUE /\ blocked' = FALSE
         /\ UNCHANGED <<sent, noticed, open, trip, chosen, wire, future, acks, streaming, relay, far,
                        path, missed>>
(* the warm-up says what kind of connection it got, the sampler how long the  *)
(* trips are, the orchestrator who accepts connections                        *)
Measure ==
    /\ Upset
    /\ \/ \E s \in {"direct", "circuit"} : noticed' = s /\ UNCHANGED <<open, trip>>
       \/ \E t \in Trips \ {"none"} : trip' = t /\ UNCHANGED <<noticed, open>>
       \/ open' = ~open /\ UNCHANGED <<noticed, trip>>
    /\ UNCHANGED <<sent, routed, blocked, chosen, wire, future, acks, streaming, relay, far,
                   path, missed>>
CooldownEnds == /\ blocked /\ blocked' = FALSE
                /\ UNCHANGED <<sent, routed, noticed, open, trip, chosen, wire, future, acks, streaming,
                               relay, far, path, missed, turns>>

(* ------------------------------------------------------------ the sender --- *)
(* an agent without a stream drops what it is told to send                    *)
Relay(m) == /\ relay' = IF streaming THEN Append(relay, m) ELSE relay
            /\ Misses(IF streaming THEN {} ELSE {m}, "broken")
            /\ path' = [path EXCEPT ![m] = @ \union {"relay"}]

(* send, handed to the link: its acknowledgement is the watcher's business,   *)
(* or the sending thread's own when the watcher is behind                     *)
SendDirect ==
    LET m == sent + 1 IN
    /\ m \in Msg /\ inline = 0 /\ Direct /\ Remember /\ sent' = m
    /\ wire' = Append(wire, m) /\ future' = [future EXCEPT ![m] = "flying"]
    /\ path' = [path EXCEPT ![m] = {"direct"}]
    /\ IF Len(pending) < Slack THEN pending' = Append(pending, m) /\ UNCHANGED inline
       ELSE inline' = m /\ UNCHANGED pending
    /\ UNCHANGED <<routed, blocked, noticed, open, trip, watching, streaming, relay, far, missed, turns>>

(* the link is not chosen, or handing over raises: relayed at once            *)
SendRelayed ==
    LET m == sent + 1 IN
    /\ m \in Msg /\ inline = 0 /\ sent' = m /\ Relay(m) /\ Remember
    /\ blocked' = (blocked \/ Direct)
    /\ UNCHANGED <<routed, noticed, open, trip, wire, future, acks, streaming, far, turns>>

Watch == /\ watching = 0 /\ pending # <<>>
         /\ watching' = Head(pending) /\ pending' = Tail(pending)
         /\ UNCHANGED <<sent, choice, wire, future, inline, streaming, relay, far, path, missed, turns>>

(* _settle: an answer, whatever it says, is an acknowledgement; a failure, or *)
(* none in time, blocks the link and relays the message                       *)
Settle_Forgets(m) ==
    UNCHANGED <<blocked, relay, path, missed>>
Settle(m) ==
    IF future[m] \in {"ok", "refused"} THEN UNCHANGED <<blocked, relay, path, missed>>
    ELSE blocked' = TRUE /\ Relay(m)

Follow == /\ watching # 0 /\ Settle(watching) /\ watching' = 0
          /\ UNCHANGED <<sent, routed, noticed, open, trip, chosen, wire, future, pending, inline,
                         streaming, far, turns>>
FollowInline == /\ inline # 0 /\ Settle(inline) /\ inline' = 0
                /\ UNCHANGED <<sent, routed, noticed, open, trip, chosen, wire, future, pending,
                               watching, streaming, far, turns>>

(* ---------------------------------------------------------- the receiver --- *)
(* stage_forward: into the inbox, or an answer that says it is full; what is  *)
(* said in answer may be lost on the way                                      *)
Arrive ==
    /\ wire # <<>> /\ wire' = Tail(wire)
    /\ LET m == Head(wire)
           room == Len(inbox) < Depth IN
       /\ inbox' = IF room THEN Append(inbox, m) ELSE inbox
       /\ Misses(IF room THEN {} ELSE {m}, "refused")
       /\ \E answered \in BOOLEAN :
             /\ answered \/ turns < MaxTurns
             /\ future' = [future EXCEPT ![m] = IF ~answered THEN "failed"
                                                ELSE IF room THEN "ok" ELSE "refused"]
             /\ turns' = IF answered THEN turns ELSE turns + 1
    /\ UNCHANGED <<sent, choice, acks, streaming, relay, peer, heard, path>>

LinkBreaks ==
    /\ wire # <<>> /\ Upset /\ wire' = <<>>
    /\ future' = [m \in Msg |-> IF m \in Range(wire) THEN "failed" ELSE future[m]]
    /\ UNCHANGED <<sent, choice, acks, streaming, relay, far, path, missed>>

(* _deliver_local: nobody is waiting for what a task cannot be given          *)
Give(m) == IF peer = "serving" THEN heard' = Append(heard, m) /\ UNCHANGED missed
           ELSE Misses({m}, "unheard") /\ UNCHANGED heard

(* pump: one thread, so that a pool cannot race the messages                  *)
Pump == /\ inbox # <<>>
        /\ Give(Head(inbox)) /\ inbox' = Tail(inbox)
        /\ UNCHANGED <<sent, choice, wire, future, acks, streaming, relay, peer, path, turns>>

(* AgentHub.route, then on_task_message on the receiver's stream thread       *)
Relayed_Pool == DOMAIN relay
Relayed == IF relay = <<>> THEN {} ELSE {1}
RelayDelivers ==
    \E i \in Relayed :
        /\ Give(relay[i]) /\ relay' = RemoveAt(relay, i)
        /\ UNCHANGED <<sent, choice, wire, future, acks, streaming, inbox, peer, path, turns>>

StreamBreaks == /\ streaming /\ Upset /\ streaming' = FALSE /\ relay' = <<>>
                /\ Misses(Range(relay), "broken")
                /\ UNCHANGED <<sent, choice, wire, future, acks, far, path>>
StreamBack == /\ ~streaming /\ streaming' = TRUE
              /\ UNCHANGED <<sent, choice, wire, future, acks, relay, far, path, missed, turns>>

(* the task has joined its group and said which port it serves; it ends       *)
Stages == [away |-> "serving", serving |-> "left"]
PeerMoves == /\ peer \in DOMAIN Stages /\ peer' = Stages[peer]
             /\ UNCHANGED <<sent, choice, wire, future, acks, streaming, relay, inbox, heard, path,
                            missed, turns>>

LinkNext == \/ Route \/ Measure \/ CooldownEnds \/ SendDirect \/ SendRelayed
            \/ Watch \/ Follow \/ FollowInline \/ Arrive \/ Pump \/ RelayDelivers
            \/ LinkBreaks \/ StreamBreaks \/ StreamBack \/ PeerMoves

LinkSpec == LinkInit /\ [][LinkNext]_linkVars
----------------------------------------------------------------------------
Underway(m) == \/ m \in Range(wire) \union Range(relay) \union Range(inbox)
               \/ m \in Range(pending) \union {watching, inline}
Channel == INSTANCE Delivery WITH
               away <- {m \in 1 .. sent : Underway(m)},
               excused <- {m \in 1 .. sent : missed[m] # {}}

(* "Never let a direct-path failure lose a token" (links.py), as far as it    *)
(* goes: whatever path fails, is given up or comes back, a message leaves the *)
(* sender, the link, the relay and the inbox only when it has been heard, or  *)
(* came when the receiver was not listening, or was on the relay when a       *)
(* stream broke, or was refused by a full inbox; and it is heard twice at     *)
(* most, over one path after the other.                                       *)
NothingVanishes == Channel!DeliverySpec

(* Messages that went over the link alone are heard in the order they were    *)
(* sent, and each once; so are those that went over the relay alone.          *)
OrderOnOnePath ==
    \A i, j \in 1 .. Len(heard) :
        (i < j /\ path[heard[i]] = path[heard[j]] /\ path[heard[i]] # {"direct", "relay"})
            => heard[i] < heard[j]
=============================================================================
