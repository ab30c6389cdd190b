----------------------------- MODULE MCPayload -----------------------------
(* The way of a payload that serves: a model is cut, its weights are found, it *)
(* runs over two stages with a vLLM head; and a Ray cluster.  In one run:      *)
(* `part` says which of them a behaviour is about, the others stay as they     *)
(* began.                                                                      *)
EXTENDS Blocks, RayCluster, Cut, Weights, TLC

CONSTANT Parts  \* those a run is about
ASSUME PartsAssumption == Parts \subseteq {"pipeline", "ray", "cut", "weights"}
VARIABLE part
payloadVars == <<part, blockVars, rayVars, cutVars, weightVars>>

Prompts == [r1 |-> 4, r2 |-> 3]
(* Two ranks share the head's machine, which may be what somebody left busy.  *)
Machines == (0 :> "a") @@ (1 :> "a") @@ (2 :> "b")
TwoMachines == (0 :> "a") @@ (1 :> "b")
Remains == {{}, {<<"a", 0>>}, {<<"b", 0>>}}

Others(p) ==
    /\ UNCHANGED part
    /\ (p # "pipeline" => UNCHANGED blockVars) /\ (p # "ray" => UNCHANGED rayVars)
    /\ (p # "cut" => UNCHANGED cutVars) /\ (p # "weights" => UNCHANGED weightVars)

(* What a part may begin with is looked at when the behaviour is about it.    *)
WeightIdle ==
    /\ at = "asked" /\ engine_kind = "torch" /\ first = 0 /\ last = Layers
    /\ print \in {c \in Checkpoints : c.cut = 0 /\ c.tower = 0 /\ c.names = "bare" /\ ~c.tied
                                       /\ c.index /\ c.lost[1] = "none"}
    /\ fetched = {} /\ opened = {} /\ prefix = "none" /\ filled = {}
CutIdle ==
    /\ phase = "asked" /\ depth = 0 /\ engine_of = "torch" /\ by_vram = TRUE /\ told_of = <<>>
    /\ chosen = <<>> /\ ranges = <<>> /\ slice = 0 /\ measured = <<>> /\ share = <<>>
    /\ layer_card = <<>>

Init ==
    /\ part \in Parts /\ BlockInit /\ RayInit
    /\ (part # "ray" => left = {})
    /\ IF part = "cut" THEN CutInit ELSE CutIdle
    /\ IF part = "weights" THEN WeightInit ELSE WeightIdle

PipelineStep == part = "pipeline" /\ BlockNext /\ Others("pipeline")
RayStep == part = "ray" /\ RayNext /\ Others("ray")
CutStep == part = "cut" /\ CutNext /\ Others("cut")
WeightsStep == part = "weights" /\ WeightNext /\ Others("weights")

Next == PipelineStep \/ RayStep \/ CutStep \/ WeightsStep

(* Each payload's own fairness, for the behaviours that are about it.         *)
Fairness ==
    /\ WF_blockVars(part = "pipeline" /\ HeadOnBlocks)
    /\ WF_blockVars(part = "pipeline" /\ Serving /\ StageHandles /\ UNCHANGED blocks)
    /\ \A r \in Request : WF_blockVars(part = "pipeline" /\ Serving /\ CancelReleases(r) /\ UNCHANGED blocks)
    /\ \A r \in Rank : /\ WF_rayVars(part = "ray" /\ RankStep(r))
                       /\ WF_rayVars(part = "ray" /\ GiveUp(r))
    /\ WF_rayVars(part = "ray" /\ told[0] /\ ScriptEnds)

Spec == Init /\ [][Next]_payloadVars /\ Fairness
=============================================================================
