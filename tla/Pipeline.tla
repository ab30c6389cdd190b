------------------------------- MODULE Pipeline -------------------------------
(* The inference payload: on rank 0 clients put requests into a scheduler and *)
(* one thread takes batches of them through the stages (Head, Scheduler), on  *)
(* the other rank one thread computes what comes (Stage, the executor's       *)
(* states).  Messages between the two go through the agents, which may lose,  *)
(* delay or repeat one (Links).                                               *)
(*                                                                            *)
(* A token is the number of steps the last stage has in its cache for the     *)
(* request: what a corrupted cache yields is told from what it should be.     *)
(* One stage besides the head; tensors, sampling and timings are left out,    *)
(* the rows of a batch are its members in their order.                        *)
EXTENDS Naturals, Sequences, FiniteSets, SequencesExt

CONSTANTS Request,
          Length,        \* tokens of each prompt
          Seats,         \* the values of max_sequences looked at
          MaxBatchTokens,
          Want,          \* max_tokens of every request
          MaxFaults      \* bound on lost, late and repeated messages and failed steps

ASSUME PipelineAssumption ==
    /\ Length \in [Request -> Nat \ {0}] /\ Seats \subseteq Nat \ {0}
    /\ MaxBatchTokens \in Nat \ {0} /\ Want \in Nat \ {0} /\ MaxFaults \in Nat

VARIABLES seats,      \* Scheduler.max_sequences
          client,     \* "idle", "refused", "reading", "leaving", "left"
          ticket,     \* Head.tickets
          waiting,    \* Scheduler._waiting
          running,    \* Scheduler._running
          outputs,    \* output_ids of each sequence: how many
          given,      \* the tokens put into each ticket
          mark,       \* its last event: "none", "stop", "length", "error"
          release,    \* Head._to_release
          pc,         \* the head's thread: "drain", "choose", "compute", "await", "deliver"
          batch,      \* what it has chosen
          tokens,     \* what the step gave, row by row
          bid,        \* its batch_id
          engine,     \* requests the head's engine holds a state for
          net,        \* messages to the other stage
          ready,      \* its weights are loaded
          cache,      \* its states: how many steps, 0 for none
          back,       \* answers to the head (Head._returned)
          twice,      \* history: requests a repeated message was about
          faults

pipeVars == <<seats, client, ticket, waiting, running, outputs, given, mark, release, pc, batch, tokens,
              bid, engine, net, ready, cache, back, twice, faults>>
books == <<ticket, waiting, running, outputs, given, mark, release>>
loop == <<pc, batch, tokens, bid, engine>>
remote == <<seats, ready, cache>>
wires == <<net, back, twice, faults>>

PipeInit ==
    /\ seats \in Seats
    /\ client = [r \in Request |-> "idle"] /\ ticket = {} /\ waiting = <<>> /\ running = {}
    /\ outputs = [r \in Request |-> 0] /\ given = [r \in Request |-> <<>>]
    /\ mark = [r \in Request |-> "none"] /\ release = <<>>
    /\ pc = "drain" /\ batch = <<>> /\ tokens = <<>> /\ bid = 0 /\ engine = {}
    /\ net = <<>> /\ ready = FALSE /\ cache = [r \in Request |-> 0] /\ back = <<>>
    /\ twice = {} /\ faults = 0

Fault == faults < MaxFaults /\ faults' = faults + 1

(* ----------------------------------------------------------- the clients --- *)
(* Scheduler.add, then the ticket, under one lock                             *)
Fits(r) == Length[r] <= MaxBatchTokens /\ Len(waiting) + Cardinality(running) < seats
Submit(r) ==
    /\ client[r] = "idle"
    /\ IF Fits(r) THEN /\ waiting' = Append(waiting, r) /\ ticket' = ticket \union {r}
                       /\ client' = [client EXCEPT ![r] = "reading"]
                  ELSE /\ client' = [client EXCEPT ![r] = "refused"] /\ UNCHANGED <<waiting, ticket>>
    /\ UNCHANGED <<running, outputs, given, mark, release, loop, remote, wires>>

(* finish: each request waits once                                            *)
Without(s, r) == IF r \in Range(s) THEN RemoveAt(s, CHOOSE i \in DOMAIN s : s[i] = r) ELSE s
Unseat(r) == /\ waiting' = Without(waiting, r) /\ running' = running \ {r} /\ ticket' = ticket \ {r}
(* generate's finally, after the last event, a timeout or a client that went  *)
(* away: cancel gives up the ticket and the seat, and then, as the engine is  *)
(* the other thread's, asks for the state to be released                      *)
Known(r) == r \in ticket \/ r \in running
Cancel(r) ==
    /\ client[r] = "reading" /\ Unseat(r)
    /\ client' = [client EXCEPT ![r] = IF Known(r) THEN "leaving" ELSE "left"]
    /\ UNCHANGED <<outputs, given, mark, release, loop, remote, wires>>
CancelReleases(r) ==
    /\ client[r] = "leaving" /\ client' = [client EXCEPT ![r] = "left"]
    /\ release' = Append(release, r)
    /\ UNCHANGED <<ticket, waiting, running, outputs, given, mark, loop, remote, wires>>

(* ------------------------------------------------------ the head's thread --- *)
(* _drain_releases: the engine's state goes, and everybody is told            *)
Drain ==
    /\ pc = "drain"
    /\ IF release = <<>> THEN pc' = "choose" /\ UNCHANGED <<release, engine, net>>
       ELSE /\ engine' = engine \ {Head(release)} /\ release' = Tail(release)
            /\ net' = Append(net, [kind |-> "free", who |-> Head(release)])
            /\ UNCHANGED pc
    /\ UNCHANGED <<client, ticket, waiting, running, outputs, given, mark, batch, tokens, bid,
                   remote, back, twice, faults>>

(* _take_fresh: the first prompts that fit into a step, the first in any case *)
PromptTokens(n) == FoldSeq(LAMBDA r, s : s + Length[r], 0, SubSeq(waiting, 1, n))
Fresh(n) == /\ n = 1 \/ PromptTokens(n) <= MaxBatchTokens
            /\ n + Cardinality(running) <= seats
FreshCount == Cardinality({n \in 1 .. Len(waiting) : \A k \in 1 .. n : Fresh(k)})
(* next_batch: the new before those under way; one step is in flight          *)
Choose ==
    /\ pc = "choose"
    /\ LET fresh == SubSeq(waiting, 1, FreshCount)
           alive == {r \in running : outputs[r] < Want} IN
       IF fresh # <<>>
       THEN /\ batch' = fresh /\ running' = running \union Range(fresh)
            /\ waiting' = SubSeq(waiting, FreshCount + 1, Len(waiting)) /\ pc' = "compute"
       ELSE /\ batch' = SetToSeq(alive) /\ UNCHANGED <<running, waiting>>
            /\ pc' = IF alive = {} THEN "drain" ELSE "compute"
    /\ UNCHANGED <<client, ticket, outputs, given, mark, release, tokens, bid, engine, remote, wires>>

(* step_batch on the head, then the tensors go on                             *)
Compute ==
    /\ pc = "compute" /\ pc' = "await" /\ bid' = bid + 1
    /\ engine' = engine \union Range(batch)
    /\ net' = Append(net, [kind |-> "activations", who |-> batch, id |-> bid'])
    /\ UNCHANGED <<client, books, batch, tokens, remote, back, twice, faults>>

(* a batch fails as it was computed, together: _fail of each; none of them    *)
(* waits                                                                      *)
FailBatch_Unsaid ==
    /\ ticket' = ticket \ Range(batch) /\ running' = running \ Range(batch)
    /\ release' = release \o batch /\ pc' = "drain" /\ UNCHANGED <<waiting, mark, outputs, given>>
FailBatch ==
    /\ mark' = [r \in Request |-> IF r \in Range(batch) /\ r \in ticket THEN "error" ELSE mark[r]]
    /\ ticket' = ticket \ Range(batch) /\ running' = running \ Range(batch)
    /\ release' = release \o batch
    /\ pc' = "drain" /\ UNCHANGED <<waiting, outputs, given>>
ComputeFails ==
    /\ pc = "compute" /\ Fault /\ FailBatch
    /\ UNCHANGED <<client, batch, tokens, bid, engine, remote, net, back, twice>>

(* _round_trip: an answer to another batch is not an answer to this one       *)
Mine(m) == m.id = bid
Answered ==
    /\ pc = "await" /\ back # <<>> /\ back' = Tail(back)
    /\ LET m == Head(back) IN
       IF ~Mine(m) THEN UNCHANGED <<pc, tokens, books>>
       ELSE IF m.kind = "error" \/ Len(m.rows) # Len(batch) THEN FailBatch /\ UNCHANGED tokens
       ELSE tokens' = m.rows /\ pc' = "deliver" /\ UNCHANGED books
    /\ UNCHANGED <<client, batch, bid, engine, remote, net, twice, faults>>
TailSilent ==
    /\ pc = "await" /\ FailBatch
    /\ UNCHANGED <<client, batch, tokens, bid, engine, remote, wires>>

(* _deliver, one sequence after the other: accepted, given to whoever still   *)
(* has a ticket, and ended when it is done                                    *)
Gone(r) == ticket' = ticket \ {r} /\ running' = running \ {r} /\ release' = Append(release, r)
Deliver ==
    /\ pc = "deliver"
    /\ LET r == Head(batch)
           n == IF r \in running THEN outputs[r] + 1 ELSE outputs[r] IN
       /\ outputs' = [outputs EXCEPT ![r] = n]
       /\ IF r \notin ticket THEN Gone(r) /\ UNCHANGED <<given, mark>>
          ELSE /\ given' = [given EXCEPT ![r] = Append(@, Head(tokens))]
               /\ \E eos \in BOOLEAN :
                     IF eos \/ n >= Want
                     THEN /\ mark' = [mark EXCEPT ![r] = IF eos THEN "stop" ELSE "length"] /\ Gone(r)
                     ELSE UNCHANGED <<mark, ticket, running, release>>
    /\ batch' = Tail(batch) /\ tokens' = Tail(tokens)
    /\ pc' = IF Len(batch) = 1 THEN "drain" ELSE "deliver"
    /\ UNCHANGED <<client, waiting, bid, engine, remote, wires>>

(* ------------------------------------------------------- the other stage --- *)
Load == /\ ~ready /\ ready' = TRUE
        /\ UNCHANGED <<seats, client, books, loop, cache, wires>>

(* one thread, in the order of arrival; before the weights are there a        *)
(* message is dropped                                                         *)
Advance_Twice(c, S) == [r \in Request |-> IF r \in S THEN c[r] + 2 ELSE c[r]]
Advance(c, S) == [r \in Request |-> IF r \in S THEN c[r] + 1 ELSE c[r]]
StageHandles ==
    /\ net # <<>> /\ net' = Tail(net)
    /\ LET m == Head(net) IN
       IF ~ready THEN UNCHANGED <<cache, back>>
       ELSE IF m.kind = "free" THEN cache' = [cache EXCEPT ![m.who] = 0] /\ UNCHANGED back
       ELSE LET c == Advance(cache, Range(m.who)) IN
            /\ cache' = c
            /\ back' = Append(back, [kind |-> "tokens", id |-> m.id,
                                     rows |-> [i \in 1 .. Len(m.who) |-> c[m.who[i]]]])
    /\ UNCHANGED <<seats, client, books, loop, ready, twice, faults>>
StageFails ==
    /\ net # <<>> /\ ready /\ Head(net).kind = "activations" /\ Fault
    /\ net' = Tail(net)
    /\ back' = Append(back, [kind |-> "error", id |-> Head(net).id, rows |-> <<>>])
    /\ UNCHANGED <<client, books, loop, remote, twice>>

(* ------------------------------------------------------------ the agents --- *)
About(m) == IF m.kind = "free" THEN {m.who} ELSE Range(m.who)
Lose == /\ net # <<>> /\ Fault /\ net' = Tail(net)
        /\ UNCHANGED <<client, books, loop, remote, back, twice>>
LoseAnswer == /\ back # <<>> /\ Fault /\ back' = Tail(back)
              /\ UNCHANGED <<client, books, loop, remote, net, twice>>
Late == /\ Len(net) > 1 /\ Fault /\ net' = Append(Tail(net), Head(net))
        /\ twice' = twice \union About(Head(net))
        /\ UNCHANGED <<client, books, loop, remote, back>>
Repeat == /\ net # <<>> /\ Fault /\ net' = Append(net, Head(net))
          /\ twice' = twice \union About(Head(net))
          /\ UNCHANGED <<client, books, loop, remote, back>>

PipeNext ==
    \/ \E r \in Request : Submit(r) \/ Cancel(r) \/ CancelReleases(r)
    \/ Drain \/ Choose \/ Compute \/ ComputeFails \/ Answered \/ TailSilent \/ Deliver
    \/ Load \/ StageHandles \/ StageFails \/ Lose \/ LoseAnswer \/ Late \/ Repeat

PipeSpec == PipeInit /\ [][PipeNext]_pipeVars
----------------------------------------------------------------------------
Promise == INSTANCE TokenStream WITH garbled <- twice

(* The tokens of a request are those of its own steps, in order and without a *)
(* gap, then one end and nothing after it: no late answer, failed batch, lost *)
(* message or other request's leaving shifts or repeats any of it.  A message *)
(* the agents repeat or overtake is beyond it.                                *)
TokensInStep == Promise!StreamSpec

(* Every ticket is told how its request ended, unless its client leaves: time *)
(* and again no reader waits for an event.  (Each request comes once, so that *)
(* is the same as an end for every reader, and one formula for TLC.)          *)
EveryTicketEnds == []<>(\A r \in Request : client[r] = "reading" => mark[r] # "none")

=============================================================================
