-------------------------------- MODULE Blocks --------------------------------
(* The head of Pipeline on the vLLM engine: how many requests it promises to  *)
(* hold, how the cache is laid out over the cards of its node, and the blocks *)
(* of that cache that a step takes and a release gives back (vllm_engine.py,  *)
(* vllm_batch.py, vllm_runner.py, vllm_worker.py).  Everything Pipeline has   *)
(* its thread do to the engine is done to the blocks here.                    *)
(*                                                                            *)
(* Memory is counted in tokens of cache that fit on one card: vLLM cuts every *)
(* layer over all the cards.  vLLM's own block manager is external.           *)
EXTENDS Pipeline, FiniteSetsExt, Counting

CONSTANTS Card,        \* the cards the task sees
          Asked,       \* max_requests
          MaxLen,      \* max_model_len
          BlockSize,
          Budgets,     \* what the plan may find for the cache on the smallest card
          Rooms        \* what may be measured on a card once the weights are there

ASSUME BlocksAssumption ==
    /\ IsFiniteSet(Request) /\ Card # {} /\ IsFiniteSet(Card)
    /\ Asked \in Nat \ {0} /\ BlockSize \in Nat \ {0}
    /\ MaxLen \in Nat \ {0} /\ MaxLen % BlockSize = 0 /\ Budgets \subseteq Nat /\ Rooms \subseteq Nat
    /\ \A r \in Request : Length[r] + Want <= MaxLen     \* nothing outgrows the context

VARIABLES life,     \* the stage: "planning", "laying", "serving", "refused"
          planned,  \* the memory the plan counted on
          pool,     \* num_blocks of the laid out cache
          held,     \* the blocks of each request
          granted,  \* StageDriver.requests: those release can give back
          short     \* history: "no", or a step found too few blocks: "late", "starved"

blockVars == <<pipeVars, life, planned, pool, held, granted, short>>
blocks == <<held, granted, short>>

BlockInit ==
    /\ PipeInit /\ life = "planning" /\ planned = 0 /\ pool = 0
    /\ held = [r \in Request |-> 0] /\ granted = {} /\ short = "no"

(* --------------------------------------------------------------- raising --- *)
(* plan_memory promises what fits whole; not one sequence is a refusal.       *)
Places_Rounded(budget) == Min({Asked, (budget + MaxLen - 1) \div MaxLen})
Places(budget) == Min({Asked, budget \div MaxLen})
PlanMemory ==
    /\ life = "planning"
    /\ \E budget \in Budgets :
           /\ planned' = budget
           /\ IF budget < MaxLen THEN life' = "refused" /\ UNCHANGED seats
              ELSE life' = "laying" /\ seats' = Places(budget)
    /\ UNCHANGED <<client, books, loop, ready, cache, wires, pool, blocks>>

(* What each worker measures on its card, the weights there and warmed up.    *)
Measured == [Card -> Rooms]

(* lay_out_cache: the same for every card, by the one that has least; the     *)
(* promise stays as it was.                                                   *)
LayOutCache ==
    /\ life = "laying"
    /\ \E room \in Measured :
           LET least == Min({room[c] : c \in Card}) IN
           IF least < MaxLen THEN life' = "refused" /\ UNCHANGED pool
           ELSE life' = "serving" /\ pool' = least \div BlockSize
    /\ UNCHANGED <<pipeVars, planned, blocks>>

(* A stage that is not up yet takes no requests.                              *)
Serving == life = "serving" /\ UNCHANGED <<life, planned, pool>>

(* ---------------------------------------------------------------- a step --- *)
(* A prompt, or one token more: blocks for all that is computed then.         *)
Ceil(n) == (n + BlockSize - 1) \div BlockSize
Wanting(r) == Ceil(Length[r] + outputs[r]) - held[r]
Free == pool - SumOf(held)
TakenBy(n) == SumOf([r \in Range(SubSeq(batch, 1, n)) |-> Wanting(r)])
Suffices == TakenBy(Len(batch)) <= Free
FirstStep == outputs[Head(batch)] = 0

Allot(S) == held' = [r \in Request |-> IF r \in S THEN held[r] + Wanting(r) ELSE held[r]]
FormBatch == /\ Suffices /\ Allot(Range(batch)) /\ UNCHANGED short
             /\ granted' = IF FirstStep THEN granted \union Range(batch) ELSE granted

(* A step of the batch; a worker may fail in it after the blocks were taken.  *)
StepDone == Serving /\ Compute /\ FormBatch
StepFails == Serving /\ ComputeFails /\ FormBatch

(* Too few blocks: what a prefill took so far is freed, what a decode took so *)
(* far stays with its requests until they are released.                       *)
Granted == Cardinality({n \in 1 .. Len(batch) : \A k \in 1 .. n : TakenBy(k) <= Free})
Undo_None == Allot(Range(SubSeq(batch, 1, Granted)))
Undo == IF FirstStep THEN UNCHANGED held ELSE Allot(Range(SubSeq(batch, 1, Granted)))
Seatless == \E r \in Request : held[r] > 0 /\ r \notin running
BatchRefused ==
    /\ pc = "compute" /\ ~Suffices /\ FailBatch /\ Undo
    /\ short' = IF short = "starved" \/ ~Seatless THEN "starved" ELSE "late"
    /\ UNCHANGED <<client, batch, tokens, bid, engine, remote, wires, granted>>

(* release: of a request the driver does not know nothing is freed            *)
ReleaseBlocks ==
    /\ IF pc = "drain" /\ release # <<>> /\ Head(release) \in granted
       THEN /\ held' = [held EXCEPT ![Head(release)] = 0] /\ granted' = granted \ {Head(release)}
       ELSE UNCHANGED <<held, granted>>
    /\ UNCHANGED short

BlockNext ==
    \/ PlanMemory \/ LayOutCache
    \/ Serving /\ Drain /\ ReleaseBlocks
    \/ StepDone \/ StepFails
    \/ Serving /\ BatchRefused
    \/ \E r \in Request : \/ Serving /\ Submit(r) /\ UNCHANGED blocks
                          \/ Serving /\ Cancel(r) /\ UNCHANGED blocks
                          \/ Serving /\ CancelReleases(r) /\ UNCHANGED blocks
    \/ Serving /\ Choose /\ UNCHANGED blocks
    \/ Serving /\ Answered /\ UNCHANGED blocks
    \/ Serving /\ TailSilent /\ UNCHANGED blocks
    \/ Serving /\ Deliver /\ UNCHANGED blocks
    \/ Serving /\ Load /\ UNCHANGED blocks
    \/ Serving /\ StageHandles /\ UNCHANGED blocks
    \/ Serving /\ StageFails /\ UNCHANGED blocks
    \/ Serving /\ Lose /\ UNCHANGED blocks
    \/ Serving /\ LoseAnswer /\ UNCHANGED blocks
    \/ Serving /\ Late /\ UNCHANGED blocks
    \/ Serving /\ Repeat /\ UNCHANGED blocks

HeadOnBlocks ==
    \/ Serving /\ Drain /\ ReleaseBlocks
    \/ StepDone
    \/ Serving /\ BatchRefused
    \/ Serving /\ (Choose \/ Answered \/ TailSilent \/ Deliver) /\ UNCHANGED blocks

BlockSpec == BlockInit /\ [][BlockNext]_blockVars
----------------------------------------------------------------------------
(* No block is lost: whoever holds one is known to the driver and has a seat, *)
(* a step or a release to come, however steps fail half way ("half of the     *)
(* blocks is worse than none", vllm_batch.py:134).                            *)
NoBlockIsLost ==
    \A r \in Request : held[r] > 0 =>
        /\ r \in granted
        /\ r \in running \union Range(release) \union Range(batch) \/ client[r] = "leaving"

(* The promise covers what those with a seat may come to need: blocks run out *)
(* only while somebody without a seat still holds some, or where less was     *)
(* measured on a card than had been planned for it.                           *)
PromiseIsCovered == short = "starved" => pool < planned \div BlockSize

=============================================================================
