------------------------------- MODULE Replies -------------------------------
(* Asking a node something and waiting for what it says, over the one stream  *)
(* it keeps open: AgentHub.collect (a file, in pieces), request_stream (an    *)
(* HTTP answer, in pieces), logs and node_command (one message).  Pieces are  *)
(* sent by a thread per command on the node; when the stream breaks, what is  *)
(* under way in either direction is lost, what the node says before it is     *)
(* back is dropped, and its threads go on.                                    *)
(*                                                                            *)
(* Streams and single questions carry an identifier of their own, which here  *)
(* is the call itself: asking again is another call.  A file is known by task *)
(* and name alone: every collection here is of the same file.                 *)
EXTENDS Naturals, Sequences, SequencesExt

CONSTANTS User,       \* calls, each made once
          Pieces,     \* how many pieces a file or an answer has
          MaxBreaks   \* bound on broken streams

ASSUME RepliesAssumption == "none" \notin User /\ Pieces \in Nat \ {0} /\ MaxBreaks \in Nat

Kinds == {"collect", "stream", "ask"}
Data == 1 .. Pieces

VARIABLES kind,      \* what each call asks for
          stage,     \* "idle", "waiting", "settled", "returned", "failed"
          out,       \* the pieces a call has been given
          entry,     \* _collecting[key]: whose future it is and the buffer
          online,    \* a session is attached
          down,      \* commands on the way to the node
          up,        \* pieces on the way back
          sender,    \* the node's threads: the next piece of each command
          alone,     \* history: no break and no other collection since it began
          breaks

replyVars == <<kind, stage, out, entry, online, down, up, sender, alone, breaks>>

None == [user |-> "none", data |-> <<>>]
Active(u) == stage[u] \in {"waiting", "settled"}
Collects(u) == kind[u] = "collect"
Length(u) == IF kind[u] = "ask" THEN 1 ELSE Pieces
(* a file is ended by a message of its own, an answer by a mark on its last   *)
Steps(u) == IF Collects(u) THEN Pieces + 1 ELSE Length(u)

ReplyInit ==
    /\ kind \in [User -> Kinds]
    /\ stage = [u \in User |-> "idle"]
    /\ out = [u \in User |-> <<>>] /\ entry = None
    /\ online = TRUE /\ down = <<>> /\ up = <<>> /\ sender = {}
    /\ alone = [u \in User |-> FALSE] /\ breaks = 0

(* Traces of an earlier collection of the file, on either side                *)
Traces == \/ \E u \in User : Collects(u) /\ Active(u)
          \/ \E s \in sender : Collects(s.user)
          \/ \E i \in 1 .. Len(down) : Collects(down[i])
          \/ \E i \in 1 .. Len(up) : Collects(up[i].user)

Overlaps(u, v) == Collects(u) /\ Collects(v)

(* _locate, the future or queue registered, the command sent                  *)
Call(u) ==
    /\ stage[u] = "idle" /\ online
    /\ stage' = [stage EXCEPT ![u] = "waiting"]
    /\ entry' = IF Collects(u) THEN [user |-> u, data |-> <<>>] ELSE entry
    /\ alone' = [v \in User |-> IF v = u THEN ~(Collects(u) /\ Traces)
                                ELSE alone[v] /\ ~Overlaps(u, v)]
    /\ down' = Append(down, u)
    /\ UNCHANGED <<kind, out, online, up, sender, breaks>>

(* The node starts a thread for the command                                   *)
Receive ==
    /\ down # <<>> /\ down' = Tail(down)
    /\ sender' = sender \union {[user |-> Head(down), next |-> 1]}
    /\ UNCHANGED <<kind, stage, out, entry, online, up, alone, breaks>>

Piece(s, broken) ==
    LET u == s.user IN
    [user |-> u, error |-> broken,
     data |-> IF broken \/ s.next > Length(u) THEN 0 ELSE s.next,
     last |-> broken \/ s.next = Steps(u)]

(* The thread says its next piece, or that it cannot: dropped when offline    *)
Send(s) ==
    \E broken \in BOOLEAN :
        /\ up' = IF online THEN Append(up, Piece(s, broken)) ELSE up
        /\ sender' = (sender \ {s}) \union
                     (IF broken \/ s.next = Steps(s.user) THEN {} ELSE {[s EXCEPT !.next = @ + 1]})
        /\ UNCHANGED <<kind, stage, out, entry, online, down, alone, breaks>>

(* on_result_chunk: the file's entry, whoever's it is                         *)
ResultChunk(m) ==
    /\ Collects(m.user)
    /\ IF entry = None THEN UNCHANGED <<entry, stage, out>>
       ELSE LET u == entry.user
                buffer == IF m.data = 0 THEN entry.data ELSE Append(entry.data, m.data) IN
            /\ entry' = [entry EXCEPT !.data = buffer]
            /\ IF m.last /\ stage[u] = "waiting"
               THEN /\ stage' = [stage EXCEPT ![u] = "settled"]
                    /\ out' = [out EXCEPT ![u] = IF m.error THEN <<0>> ELSE buffer]
               ELSE UNCHANGED <<stage, out>>

(* on_task_response, on_logs, on_ack: the call the answer names, if it still  *)
(* waits                                                                      *)
Addressed_Any(m) == {u \in User : kind[u] = kind[m.user] /\ stage[u] = "waiting"}
Addressed(m) == {u \in {m.user} : stage[u] = "waiting"}
Answer(m) ==
    /\ ~Collects(m.user) /\ UNCHANGED entry
    /\ out' = [u \in User |-> IF u \notin Addressed(m) THEN out[u]
                              ELSE IF m.error THEN <<0>> ELSE Append(out[u], m.data)]
    /\ stage' = [u \in User |-> IF u \in Addressed(m) /\ m.last THEN "settled" ELSE stage[u]]

HubReceive ==
    /\ up # <<>> /\ up' = Tail(up)
    /\ ResultChunk(Head(up)) \/ Answer(Head(up))
    /\ UNCHANGED <<kind, online, down, sender, alone, breaks>>

(* the finally of a collection takes out the entry, its own or not            *)
PopEntry(u) == entry' = IF Collects(u) THEN None ELSE entry

Resume(u) ==
    /\ stage[u] = "settled" /\ PopEntry(u)
    /\ stage' = [stage EXCEPT ![u] = IF out[u] # <<>> /\ Last(out[u]) = 0
                                     THEN "failed" ELSE "returned"]
    /\ UNCHANGED <<kind, out, online, down, up, sender, alone, breaks>>

TimeOut(u) ==
    /\ stage[u] = "waiting" /\ PopEntry(u)
    /\ stage' = [stage EXCEPT ![u] = "failed"]
    /\ UNCHANGED <<kind, out, online, down, up, sender, alone, breaks>>

(* The stream breaks; later the node is back on a new one                     *)
BreakStream ==
    /\ online /\ breaks < MaxBreaks /\ breaks' = breaks + 1
    /\ online' = FALSE /\ down' = <<>> /\ up' = <<>>
    /\ alone' = [u \in User |-> FALSE]
    /\ UNCHANGED <<kind, stage, out, entry, sender>>
Reattach ==
    /\ ~online /\ online' = TRUE
    /\ UNCHANGED <<kind, stage, out, entry, down, up, sender, alone, breaks>>

ReplyNext ==
    \/ \E u \in User : Call(u) \/ Resume(u) \/ TimeOut(u)
    \/ Receive \/ HubReceive \/ BreakStream \/ Reattach
    \/ \E s \in sender : Send(s)

ReplySpec == ReplyInit /\ [][ReplyNext]_replyVars
----------------------------------------------------------------------------
All == [i \in Data |-> i]

(* Answers never cross.  A collection that no other collection of the file    *)
(* overlaps, not even by the traces of one that timed out, and during which   *)
(* the stream holds, gives the file's pieces, each once and in order; what a  *)
(* stream or a question is given is in the node's order and nothing twice,    *)
(* whatever timed out, broke or was asked again before, and while the stream  *)
(* holds nothing is missing from its end.                                     *)
AnswersDoNotCross ==
    \A u \in User :
        LET done == stage[u] = "returned" /\ alone[u] IN
        IF Collects(u) THEN done => out[u] = All
        ELSE stage[u] # "failed" =>
                /\ \A i, j \in 1 .. Len(out[u]) : i < j => (out[u][i] < out[u][j] \/ out[u][j] = 0)
                /\ done => Len(out[u]) = Length(u)
=============================================================================
