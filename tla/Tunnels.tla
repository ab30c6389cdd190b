------------------------------- MODULE Tunnels -------------------------------
(* Byte connections to the ports of tasks on one node (Endpoint), opened by   *)
(* neighbours that carry what their own tasks say to a port that is really    *)
(* this node's (Forwarder._carry, RemoteSide, pump) and by the orchestrator   *)
(* for a client outside (open_tunnel, _pipe, tunnel_open, _tunnel_pump); the  *)
(* ports a task opens (/forward) and what is taken back when it ends          *)
(* (release, _carry_out, forget_task).                                        *)
(*                                                                            *)
(* What a local process says is numbered; the other direction is the same     *)
(* protocol without an owner and is left out, but for the stop it puts to a   *)
(* connection.  A neighbour's calls and streams fail with their link; what    *)
(* the agent says on a broken stream to the orchestrator is dropped.          *)
EXTENDS Naturals, Sequences, FiniteSets, FiniteSetsExt, SequencesExt

CONSTANTS Opener, Conn,
          PortsOf,      \* the ports each task opens
          PortOf,       \* the port each connection is to
          Outside,      \* the connections that come through the orchestrator
          CarriedFor,   \* the task a neighbour's connection is entered under: the opener's own
          MaxConns,     \* MAX_CONNECTIONS
          Phrases,       \* how many pieces a local process says at most
          MaxFailures     \* bound on broken links and streams

ASSUME TunnelsAssumption ==
    /\ DOMAIN PortsOf = Opener /\ DOMAIN PortOf = Conn /\ Outside \subseteq Conn
    /\ \A c \in Conn : \E t \in Opener : PortOf[c] \in PortsOf[t]
    \* a rank's task has a name of its own, and ranks of one node need no tunnel
    /\ \A c \in Conn \ Outside : CarriedFor[c] \notin Opener
    /\ MaxConns \in Nat \ {0} /\ Phrases \in Nat /\ MaxFailures \in Nat

VARIABLES task,       \* "new", "running", "releasing", "forgotten", "ended", "done"
          opened,     \* _task_ports: what is to be taken back for it
          allowed,    \* allowed_ports, one set for the node
          near,       \* the opening side: "idle", "opening", "open", "closed"
          call,       \* its calls on their way here: "connect", "close"
          dialing,    \* connects between the check and the entry
          accepted,   \* those of them that the process has taken
          conns,      \* _conns
          read,       \* the connections somebody reads: stream or pump thread
          said,       \* how much the local process has said
          line,       \* pieces and ends on the way to the opening side
          passed,      \* what the opening side passed on
          cut,        \* its link or stream is broken
          torn,       \* history: it has been
          late,       \* history: a task with its port was forgotten while it was dialed
          failures

tunnelVars == <<task, opened, allowed, near, call, dialing, accepted, conns, read, said, line, passed,
                cut, torn, late, failures>>
tables == <<task, opened, allowed, late>>
data == <<said, line, passed>>
breakage == <<cut, torn, failures>>

(* the task that is reached, and that is named when it is from outside        *)
Reached(c) == CHOOSE t \in Opener : PortOf[c] \in PortsOf[t]
To(t) == {c \in Conn \ Outside : Reached(c) = t}
(* _owner: nobody's for the orchestrator's connections                        *)
OwnedBy(t) == {c \in Conn \ Outside : CarriedFor[c] = t}
(* the orchestrator's connections and the neighbours' are counted apart       *)
Beside(c) == IF c \in Outside THEN conns \intersect Outside ELSE conns \ Outside
Eof == 0

TunnelInit ==
    /\ task = [t \in Opener |-> "new"] /\ opened = [t \in Opener |-> {}] /\ allowed = {}
    /\ near = [c \in Conn |-> "idle"] /\ call = [c \in Conn |-> <<>>]
    /\ dialing = {} /\ accepted = {} /\ conns = {} /\ read = {}
    /\ said = [c \in Conn |-> 0] /\ line = [c \in Conn |-> <<>>] /\ passed = [c \in Conn |-> <<>>]
    /\ cut = {} /\ torn = {} /\ late = {} /\ failures = 0

(* ------------------------------------------------------------- the ports --- *)
(* _task_forward: while the task is in its group, also while it is released   *)
Forward(t) ==
    /\ task[t] \in {"new", "running", "releasing", "forgotten"} /\ opened[t] = {}
    /\ task' = [task EXCEPT ![t] = IF @ = "new" THEN "running" ELSE @]
    /\ opened' = [opened EXCEPT ![t] = PortsOf[t]]
    /\ allowed' = allowed \union PortsOf[t]
    /\ UNCHANGED <<late, near, call, dialing, accepted, conns, read, data, breakage>>

(* forget_task: the permissions it asked for, whoever else asked for them     *)
(* too; close_task, of the connections entered under its name                 *)
ClosePorts_None(t) == UNCHANGED <<allowed, opened>>
ClosePorts(t) == /\ allowed' = allowed \ opened[t] /\ opened' = [opened EXCEPT ![t] = {}]
Forget(t) == /\ ClosePorts(t) /\ conns' = conns \ OwnedBy(t)
             /\ late' = late \union (dialing \intersect To(t))

(* ReleaseTask forgets the task and then ends its process, or the process     *)
(* ends by itself; _carry_out forgets it then, again or for the first time    *)
Becomes(t, from, to) == task[t] \in from /\ task' = [task EXCEPT ![t] = to]
Release(t) == /\ Becomes(t, {"running"}, "releasing")
              /\ UNCHANGED <<opened, allowed, late, near, call, dialing, accepted, conns, read, data, breakage>>
ReleaseForgets(t) == /\ Becomes(t, {"releasing"}, "forgotten") /\ Forget(t)
                     /\ UNCHANGED <<near, call, dialing, accepted, read, data, breakage>>
ProcessEnds(t) == /\ Becomes(t, {"running", "forgotten"}, "ended")
                  /\ UNCHANGED <<opened, allowed, late, near, call, dialing, accepted, conns, read, data, breakage>>
CarryOutForgets(t) == /\ Becomes(t, {"ended"}, "done") /\ Forget(t)
                      /\ UNCHANGED <<near, call, dialing, accepted, read, data, breakage>>

Alive(t) == task[t] \in {"running", "releasing", "forgotten"}

(* ---------------------------------------------------------- a connection --- *)
Called(c) == IF call[c] = <<>> THEN "nothing" ELSE Head(call[c])
Handled(c) == call' = [call EXCEPT ![c] = Tail(@)]

(* somebody connects to the port: _carry has the neighbour's stub, the        *)
(* orchestrator has registered an inbox                                       *)
Open(c) ==
    /\ near[c] = "idle" /\ task[Reached(c)] # "new"
    /\ near' = [near EXCEPT ![c] = "opening"] /\ call' = [call EXCEPT ![c] = <<"connect">>]
    /\ UNCHANGED <<tables, dialing, accepted, conns, read, data, breakage>>

(* connect: permission and the ceiling first, then the local addresses are    *)
(* tried without the lock; tunnel_open looks at the task before that          *)
Allow(c) == /\ PortOf[c] \in allowed /\ Cardinality(Beside(c)) < MaxConns
            /\ c \in Outside => Alive(Reached(c))
Dial(c) ==
    /\ Called(c) = "connect" /\ c \notin dialing /\ Allow(c)
    /\ dialing' = dialing \union {c}
    /\ UNCHANGED <<tables, near, call, accepted, conns, read, data, breakage>>

(* a refusal: a unary call is answered, the orchestrator sent an end with the *)
(* reason                                                                     *)
Replied(c) == IF c \in cut THEN UNCHANGED <<near, line>>
               ELSE IF c \in Outside THEN line' = [line EXCEPT ![c] = <<Eof>>] /\ UNCHANGED near
               ELSE near' = [near EXCEPT ![c] = "closed"] /\ UNCHANGED line
RefuseConn(c) ==
    /\ Called(c) = "connect" /\ c \notin dialing /\ ~Allow(c)
    /\ Replied(c) /\ Handled(c)
    /\ UNCHANGED <<tables, dialing, accepted, conns, read, said, passed, breakage>>
(* the process takes the connection, and may be gone before the entry is made *)
Accept(c) ==
    /\ c \in dialing \ accepted /\ Alive(Reached(c)) /\ accepted' = accepted \union {c}
    /\ UNCHANGED <<tables, near, call, dialing, conns, read, data, breakage>>
DialFails(c) ==
    /\ c \in dialing \ accepted /\ dialing' = dialing \ {c} /\ Replied(c) /\ Handled(c)
    /\ UNCHANGED <<tables, accepted, conns, read, said, passed, breakage>>

(* entered, whatever has become of the task meanwhile; an outside connection  *)
(* is read at once, a neighbour's when it has its answer and asks for the     *)
(* stream                                                                     *)
Enter(c) ==
    /\ c \in accepted /\ accepted' = accepted \ {c} /\ dialing' = dialing \ {c} /\ Handled(c)
    /\ conns' = conns \union {c}
    /\ read' = IF c \in Outside THEN read \union {c} ELSE read
    /\ UNCHANGED <<tables, near, data, breakage>>
Stream(c) ==
    /\ c \notin Outside \union cut \union dialing /\ near[c] = "opening" /\ Called(c) = "nothing"
    /\ near' = [near EXCEPT ![c] = "open"]
    /\ IF c \in conns THEN read' = read \union {c} /\ UNCHANGED line
       ELSE line' = [line EXCEPT ![c] = <<Eof>>] /\ UNCHANGED read
    /\ UNCHANGED <<tables, call, dialing, accepted, conns, said, passed, breakage>>

(* read: a piece goes out; or the process closes, is gone, or the socket was  *)
(* closed under the reader, and the entry goes                                *)
Sent(c, piece) == line' = [line EXCEPT ![c] = IF c \in cut THEN @ ELSE Append(@, piece)]
Talk(c) ==
    /\ c \in read \intersect conns /\ Alive(Reached(c)) /\ said[c] < Phrases
    /\ said' = [said EXCEPT ![c] = @ + 1] /\ Sent(c, said[c] + 1)
    /\ UNCHANGED <<tables, near, call, dialing, accepted, conns, read, passed, breakage>>
Finish(c) ==
    /\ c \in read /\ Sent(c, Eof)
    /\ read' = read \ {c} /\ conns' = conns \ {c}
    /\ UNCHANGED <<tables, near, call, dialing, accepted, said, passed, breakage>>

(* the opening side: a piece is passed on, an end closes; it sends a closing  *)
(* of its own whoever ended first, into the session it was opened on          *)
CloseNear(c) ==
    /\ near' = [near EXCEPT ![c] = "closed"]
    /\ call' = IF c \in torn THEN call ELSE [call EXCEPT ![c] = Append(@, "close")]
Carry(c) ==
    /\ line[c] # <<>> /\ line' = [line EXCEPT ![c] = Tail(@)]
    /\ IF near[c] = "closed" THEN UNCHANGED <<near, passed, call>>
       ELSE IF Head(line[c]) = Eof THEN CloseNear(c) /\ UNCHANGED passed
       ELSE passed' = [passed EXCEPT ![c] = Append(@, Head(line[c]))] /\ UNCHANGED <<near, call>>
    /\ UNCHANGED <<tables, dialing, accepted, conns, read, said, breakage>>
(* the client goes away, or Forwarder.close shuts what a task still carries   *)
HangUp(c) ==
    /\ near[c] = "open" \/ (c \in Outside /\ near[c] = "opening")
    /\ CloseNear(c)
    /\ UNCHANGED <<tables, dialing, accepted, conns, read, data, breakage>>

Close(c) == /\ Called(c) = "close" /\ Handled(c) /\ conns' = conns \ {c}
            /\ UNCHANGED <<tables, near, dialing, accepted, read, data, breakage>>

(* a link or a stream breaks: what is under way is lost; a neighbour's side     *)
(* sees it, and one that was still opening sends no closing after it; the     *)
(* orchestrator's side goes on waiting on its inbox                           *)
Break(c) ==
    /\ near[c] \in {"opening", "open"} /\ c \notin cut
    /\ failures < MaxFailures /\ failures' = failures + 1
    /\ cut' = cut \union {c} /\ torn' = torn \union {c}
    /\ line' = [line EXCEPT ![c] = <<>>]
    /\ call' = [call EXCEPT ![c] = IF c \in dialing THEN @ ELSE <<>>]
    /\ near' = IF c \in Outside THEN near ELSE [near EXCEPT ![c] = "closed"]
    /\ UNCHANGED <<tables, dialing, accepted, conns, read, said, passed>>
(* the node is back, and what its old reader goes on saying is for the same   *)
(* inbox                                                                      *)
Mend(c) ==
    /\ c \in cut \intersect Outside /\ cut' = cut \ {c}
    /\ UNCHANGED <<tables, near, call, dialing, accepted, conns, read, data, torn, failures>>

TunnelNext ==
    \/ \E t \in Opener : \/ Forward(t) \/ Release(t) \/ ReleaseForgets(t)
                         \/ ProcessEnds(t) \/ CarryOutForgets(t)
    \/ \E c \in Conn : \/ Open(c) \/ Dial(c) \/ RefuseConn(c) \/ Accept(c) \/ DialFails(c) \/ Enter(c)
                       \/ Stream(c)
                       \/ Talk(c) \/ Finish(c) \/ Carry(c) \/ HangUp(c) \/ Close(c) \/ Break(c) \/ Mend(c)

TunnelSpec == TunnelInit /\ [][TunnelNext]_tunnelVars
----------------------------------------------------------------------------
(* Nothing of this node stays open to the others for a task that is gone: a   *)
(* port is allowed only while a task that asked for it is not done, whatever  *)
(* it asked for between the two cleanings of a release (forget_task).  And a  *)
(* connection in the table has somebody who reads it, and will take it out    *)
(* when its task has ended, but while it is being opened or when its link     *)
(* broke.                                                                     *)
NothingIsLeftOpen ==
    /\ \A p \in allowed : \E t \in Opener : task[t] # "done" /\ p \in opened[t]
    /\ \A c \in conns \ read : near[c] = "opening" \/ c \in torn

(* tunnel.py:201-207, 330-333: a connection is entered with its task "so that *)
(* the other end can close it when the task is taken down", for nobody else   *)
(* will, and the entry would hang to the end of the agent's life.  So when a  *)
(* task is done, a connection to it that nobody reads, or is about to read,   *)
(* is one that was being dialed while the task was forgotten.                 *)
Opening == {c \in Conn : near[c] = "opening"}
DeadEntriesAreClosed ==
    \A t \in Opener : task[t] = "done" => To(t) \intersect conns \subseteq late \union read \union Opening
=============================================================================
