------------------------------- MODULE Training -------------------------------
(* Training an adapter over a pipeline: the head's thread (run.py _run,       *)
(* head.py Trainer) takes microbatches through the stages by calls that each  *)
(* wait for their answer (transport.py ChannelTransport), the other ranks     *)
(* compute what comes (stage.py TrainStage).  Messages go through the agents, *)
(* which may lose, delay or repeat one (Links); a big one goes in parts, and  *)
(* is lost when one of them is.                                               *)
(*                                                                            *)
(* A gradient is the bag of microbatches it was summed from; the weights of a *)
(* stage are the gradients its optimizer was given, in their order (with no   *)
(* gradient it changes nothing).  Losses, norms and rates are left out, and   *)
(* so are the checkpoints, which nothing reads back.                          *)
EXTENDS Naturals, Sequences, SequencesExt

CONSTANTS Stages,     \* how many ranks the group has
          Steps,      \* batches of the schedule
          Micros,     \* microbatches of a batch
          MaxPings,   \* probes of one stage that wait_ready has the patience for
          MaxUpsets   \* bound on messages lost, late or repeated and on stages that die

ASSUME TrainingAssumption == /\ Stages \in Nat \ {0} /\ Steps \in Nat \ {0} /\ Micros \in Nat \ {0}
                             /\ MaxPings \in Nat \ {0} /\ MaxUpsets \in Nat

Stage == 0 .. Stages - 1
Final == Stages - 1
Key == (0 .. Steps - 1) \X (1 .. Micros)     \* batch_id, micro

VARIABLES trainer,     \* "reading", "calling", "awaiting", "writing", "done", "failed"
          at,        \* the call it is at: what, to which stage, about which microbatch
          step_no,      \* TrainingRun: the step it is at
          tries,     \* probes of this stage so far
          life,      \* the ranks' processes: "loading", "up", "left"
          graphs,      \* _held: the graphs a stage keeps for a backward
          grad,      \* what is summed up in the .grad of a stage's adapters
          applied,   \* what its optimizer has been given
          piece,     \* what each stage has answered to the collection
          net,       \* messages on their way to each stage
          replies,   \* answers on their way to the head
          astray,    \* messages that will come later than they should, or again
          again,     \* history: stages one of whose messages comes again
          upsets

trainVars == <<trainer, at, step_no, tries, life, graphs, grad, applied, piece, net, replies, astray, again, upsets>>
weights == <<graphs, grad, applied>>

No == [k \in Key |-> 0]
Of(n) == [k \in Key |-> IF k[1] = n THEN 1 ELSE 0]
Call(op, s, m) == [op |-> op, stage |-> s, micro |-> m]

TrainInit ==
    /\ trainer = "reading" /\ at = Call("ping", 0, 0) /\ step_no = 0 /\ tries = 1
    /\ life = [s \in Stage |-> IF s = 0 THEN "up" ELSE "loading"]
    /\ graphs = [s \in Stage |-> {}] /\ grad = [s \in Stage |-> No]
    /\ applied = [s \in Stage |-> <<>>] /\ piece = [s \in Stage |-> <<>>]
    /\ net = [s \in Stage |-> <<>>] /\ replies = <<>> /\ astray = {} /\ again = {} /\ upsets = 0

Spoil == upsets < MaxUpsets /\ upsets' = upsets + 1

(* ---------------------------------------------------- what a stage does --- *)
(* TrainStage.forward: a graph is kept under its key; the last stage, which   *)
(* has the labels, goes backward at once and keeps nothing.  backward needs   *)
(* the graph; a step with graphs still waiting is refused.                    *)
Summed(g, k) == [g EXCEPT ![k] = @ + 1]
Zeroed_Not(g) == g
Zeroed(g) == No
KeyOf(m) == <<m.step, m.call.micro>>
Refuses(s, m) ==
    LET op == m.call.op IN
    \/ op = "forward" /\ KeyOf(m) \in graphs[s]
    \/ op = "backward" /\ KeyOf(m) \notin graphs[s]
    \/ op = "step" /\ graphs[s] # {}

Forward(s, m) ==
    /\ IF s = Final THEN grad' = [grad EXCEPT ![s] = Summed(@, KeyOf(m))] /\ UNCHANGED graphs
       ELSE graphs' = [graphs EXCEPT ![s] = @ \union {KeyOf(m)}] /\ UNCHANGED grad
    /\ UNCHANGED applied
Backward(s, m) ==
    /\ graphs' = [graphs EXCEPT ![s] = @ \ {KeyOf(m)}]
    /\ grad' = [grad EXCEPT ![s] = Summed(@, KeyOf(m))] /\ UNCHANGED applied
OptimizerStep(s) ==
    /\ applied' = IF grad[s] = No THEN applied ELSE [applied EXCEPT ![s] = Append(@, grad[s])]
    /\ grad' = [grad EXCEPT ![s] = Zeroed(@)] /\ UNCHANGED graphs

(* handle: one message on the stage, which refuses it or does it              *)
Does(s, m) ==
    IF Refuses(s, m) THEN UNCHANGED weights
    ELSE CASE m.call.op = "forward" -> Forward(s, m)
           [] m.call.op = "backward" -> Backward(s, m)
           [] m.call.op = "step" -> OptimizerStep(s)
           [] OTHER -> UNCHANGED weights       \* ping, norm, collect

(* ------------------------------------------------------ the head's thread --- *)
(* fit: the probes, then for each batch every microbatch forward through the  *)
(* stages and backward through those that hold it, the norms and the steps of *)
(* all; in the end the pieces of the adapter                                  *)
NextMicro(m) == IF m < Micros THEN Call("forward", 0, m + 1) ELSE Call("norm", 0, 0)
Following ==
    LET s == at.stage
        m == at.micro IN
    CASE at.op = "ping" -> IF s < Final THEN Call("ping", s + 1, 0) ELSE Call("forward", 0, 1)
      [] at.op = "forward" -> IF s < Final THEN Call("forward", s + 1, m)
                              ELSE IF Final = 0 THEN NextMicro(m) ELSE Call("backward", Final - 1, m)
      [] at.op = "backward" -> IF s > 0 THEN Call("backward", s - 1, m) ELSE NextMicro(m)
      [] at.op = "norm" -> IF s < Final THEN Call("norm", s + 1, 0) ELSE Call("step", 0, 0)
      [] at.op = "step" -> IF s < Final THEN Call("step", s + 1, 0)
                           ELSE IF step_no + 1 < Steps THEN Call("forward", 0, 1) ELSE Call("collect", 0, 0)
      [] at.op = "collect" -> Call("collect", IF s < Final THEN s + 1 ELSE s, 0)

GoesOn ==
    /\ at' = Following /\ tries' = 1
    /\ step_no' = IF at.op = "step" /\ at.stage = Final THEN step_no + 1 ELSE step_no
    /\ trainer' = IF at.op = "collect" /\ at.stage = Final THEN "writing" ELSE "calling"

(* finish: every stage is told once, whatever the outcome; then the process   *)
(* ends                                                                       *)
TellAll == [s \in Stage |-> IF s = 0 THEN net[0]
                            ELSE Append(net[s], [call |-> Call("finish", s, 0), step |-> step_no, try |-> 0])]
Returns(outcome) ==
    /\ trainer' = outcome /\ net' = TellAll /\ life' = [life EXCEPT ![0] = "left"]
    /\ UNCHANGED <<at, step_no, tries>>

(* the dataset is read before anything else, and may be refused               *)
Examples ==
    /\ trainer = "reading"
    /\ \/ trainer' = "calling" /\ UNCHANGED <<at, step_no, tries, net, life>>
       \/ Returns("failed")
    /\ UNCHANGED <<weights, piece, replies, astray, again, upsets>>

Message == [call |-> at, step |-> step_no, try |-> tries]

(* _call of the head's own stage, answered at once; of another one: sent      *)
CallOwn ==
    /\ trainer = "calling" /\ at.stage = 0 /\ Does(0, Message)
    /\ piece' = IF at.op = "collect" THEN [piece EXCEPT ![0] = applied[0]] ELSE piece
    /\ IF Refuses(0, Message) THEN Returns("failed") ELSE GoesOn /\ UNCHANGED <<net, life>>
    /\ UNCHANGED <<replies, astray, again, upsets>>
CallOther ==
    /\ trainer = "calling" /\ at.stage # 0 /\ trainer' = "awaiting"
    /\ net' = [net EXCEPT ![at.stage] = Append(@, Message)]
    /\ UNCHANGED <<at, step_no, tries, life, weights, piece, replies, astray, again, upsets>>

(* deliver: an answer to another call is one nobody waits for                 *)
Wanted(r) == trainer = "awaiting" /\ r.of = Message
Answered ==
    /\ replies # <<>> /\ replies' = Tail(replies)
    /\ LET r == Head(replies) IN
       IF ~Wanted(r) THEN UNCHANGED <<trainer, at, step_no, tries, net, life, piece>>
       ELSE IF r.error THEN Returns("failed") /\ UNCHANGED piece
       ELSE /\ GoesOn /\ UNCHANGED <<net, life>>
            /\ piece' = IF at.op = "collect" THEN [piece EXCEPT ![at.stage] = r.gives] ELSE piece
    /\ UNCHANGED <<weights, astray, again, upsets>>

(* no answer in time: a probe is repeated while there is patience, anything   *)
(* else ends the training                                                     *)
Patient_Always == TRUE
Patient == tries < MaxPings
TimeOutCall ==
    /\ trainer = "awaiting"
    /\ IF at.op = "ping" /\ Patient
       THEN /\ trainer' = "calling" /\ tries' = IF tries < MaxPings THEN tries + 1 ELSE tries
            /\ UNCHANGED <<at, step_no, net, life>>
       ELSE Returns("failed")
    /\ UNCHANGED <<weights, piece, replies, astray, again, upsets>>

(* collect_adapter has every piece: the adapter and the result are written    *)
WriteAdapter ==
    /\ trainer = "writing" /\ Returns("done")
    /\ UNCHANGED <<weights, piece, replies, astray, again, upsets>>

(* -------------------------------------------------------- the other ranks --- *)
LoadWeights(s) ==
    /\ life[s] = "loading" /\ life' = [life EXCEPT ![s] = "up"]
    /\ UNCHANGED <<trainer, at, step_no, tries, weights, piece, net, replies, astray, again, upsets>>

(* on_message: what comes before the weights are loaded is dropped; "finish"  *)
(* ends the process; the rest is done or refused, and answered either way     *)
StageReceives(s) ==
    /\ net[s] # <<>> /\ net' = [net EXCEPT ![s] = Tail(@)]
    /\ LET m == Head(net[s]) IN
       IF life[s] # "up" THEN UNCHANGED <<life, weights, replies>>
       ELSE IF m.call.op = "finish"
       THEN life' = [life EXCEPT ![s] = "left"] /\ UNCHANGED <<weights, replies>>
       ELSE /\ Does(s, m) /\ UNCHANGED life
            /\ replies' = Append(replies, [of |-> m, error |-> Refuses(s, m), gives |-> applied[s]])
    /\ UNCHANGED <<trainer, at, step_no, tries, piece, astray, again, upsets>>

(* ------------------------------------------------------------- the agents --- *)
LoseMessage(s) ==
    /\ net[s] # <<>> /\ Spoil /\ net' = [net EXCEPT ![s] = Tail(@)]
    /\ UNCHANGED <<trainer, at, step_no, tries, life, weights, piece, replies, astray, again>>
LoseReply ==
    /\ replies # <<>> /\ Spoil /\ replies' = Tail(replies)
    /\ UNCHANGED <<trainer, at, step_no, tries, life, weights, piece, net, astray, again>>
(* a message is overtaken, or is given to the stage and comes again later     *)
Stray(s) ==
    /\ net[s] # <<>> /\ Spoil /\ astray' = astray \union {<<s, Head(net[s])>>}
    /\ \/ again' = again \union {s} /\ UNCHANGED net
       \/ net' = [net EXCEPT ![s] = Tail(@)] /\ UNCHANGED again
    /\ UNCHANGED <<trainer, at, step_no, tries, life, weights, piece, replies>>
StrayArrives(s) ==
    \E x \in astray :
        /\ x[1] = s /\ astray' = astray \ {x} /\ net' = [net EXCEPT ![s] = Append(@, x[2])]
        /\ UNCHANGED <<trainer, at, step_no, tries, life, weights, piece, replies, again, upsets>>
StageDies(s) ==
    /\ s # 0 /\ life[s] # "left" /\ Spoil /\ life' = [life EXCEPT ![s] = "left"]
    /\ UNCHANGED <<trainer, at, step_no, tries, weights, piece, net, replies, astray, again>>

HeadSteps == Examples \/ CallOwn \/ CallOther \/ Answered \/ TimeOutCall \/ WriteAdapter
TrainNext ==
    \/ Examples \/ CallOwn \/ CallOther \/ Answered \/ TimeOutCall \/ WriteAdapter
    \/ \E s \in Stage : \/ LoadWeights(s) \/ StageReceives(s)
                        \/ LoseMessage(s) \/ Stray(s) \/ StrayArrives(s) \/ StageDies(s)
    \/ LoseReply

TrainSpec == TrainInit /\ [][TrainNext]_trainVars
----------------------------------------------------------------------------
(* Stages are trained alike: each steps on the gradient of exactly the        *)
(* microbatches of the schedule's next batch, and an adapter is written only  *)
(* from pieces that have made every step.  Lost or late messages end the      *)
(* training instead; a message that the agents repeat is beyond it, as the    *)
(* last stage would go backward twice.                                        *)
Schedule == [n \in 1 .. Steps |-> Of(n - 1)]
TrainedAlike ==
    \A s \in Stage \ again :
        /\ IsPrefix(applied[s], Schedule)
        /\ trainer = "done" => piece[s] = Schedule

(* A training that came to its end, done or failed; if it is done and nothing *)
(* was lost, no rank keeps its card.                                          *)
TrainingOver ==
    /\ trainer \in {"done", "failed"}
    /\ trainer = "done" /\ upsets = 0 => \A s \in Stage : life[s] = "left"
=============================================================================
