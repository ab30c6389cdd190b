----------------------------- MODULE MCPartsLive -----------------------------
(* Parts that do not touch each other's state and that promise an end, each   *)
(* under the fairness its threads have, in one run: `part` says which of them *)
(* a behaviour is about, the others stay as they began.                       *)
EXTENDS Inputs, Update, Swarm, WaitingRoom, Ports, Training, Jobs

InputFiles == <<"a", "b">>
TicketSizes == [r1 |-> 1, r2 |-> 2, r3 |-> 2]

VARIABLE part
Parts == {"inputs", "update", "swarm", "waiting", "ports", "training", "jobs"}
vars == <<part, inputVars, updateVars, swarmVars, waitVars, portVars, trainVars, jobVars>>

Others(p) ==
    /\ UNCHANGED part
    /\ (p # "inputs" => UNCHANGED inputVars)
    /\ (p # "update" => UNCHANGED updateVars) /\ (p # "swarm" => UNCHANGED swarmVars)
    /\ (p # "waiting" => UNCHANGED waitVars) /\ (p # "ports" => UNCHANGED portVars)
    /\ (p # "training" => UNCHANGED trainVars) /\ (p # "jobs" => UNCHANGED jobVars)

(* What a part may begin with is looked at when the behaviour is about it.    *)
Init ==
    /\ part \in Parts
    /\ (part # "inputs" => wire \in {Sent(FALSE)})
    /\ (part # "swarm" => meeting \in {TRUE})
    /\ (part # "update" => quality \in [NewVersion -> {"good"}])
    /\ (part # "ports" => size \in {1} /\ hash \in {0})
    /\ InputInit /\ UpdateInit /\ SwarmInit /\ WaitInit /\ PortsInit /\ TrainInit /\ JobInit

InputStep == part = "inputs" /\ InputNext /\ Others("inputs")
UpdateStep == part = "update" /\ UpdateNext /\ Others("update")
SwarmStep == part = "swarm" /\ SwarmNext /\ Others("swarm")
WaitStep == part = "waiting" /\ WaitNext /\ Others("waiting")
PortsStep == part = "ports" /\ PortsNext /\ Others("ports")
TrainingStep == part = "training" /\ TrainNext /\ Others("training")
JobsStep == part = "jobs" /\ JobNext /\ Others("jobs")

Next == \/ InputStep \/ UpdateStep \/ SwarmStep \/ WaitStep \/ PortsStep
        \/ TrainingStep \/ JobsStep

(* Each part's own fairness, for the behaviours that are about it.            *)
Fairness ==
    /\ WF_updateVars(part = "update" /\ Launcher) /\ WF_updateVars(part = "update" /\ Register)
    /\ WF_updateVars(part = "update" /\ Unpause)
    /\ WF_updateVars(part = "update" /\ (Fetched \/ FetchFails))
    /\ WF_waitVars(part = "waiting" /\ Sweep) /\ WF_waitVars(part = "waiting" /\ Settled)
    /\ \A t \in Ticket : WF_waitVars(part = "waiting" /\ TimeIsOver(t))
    /\ WF_trainVars(part = "training" /\ HeadSteps)
    /\ \A s \in Stage : WF_trainVars(part = "training" /\ StageReceives(s))
    /\ WF_jobVars(part = "jobs" /\ SweepLooks("sweep")) /\ WF_jobVars(part = "jobs" /\ Viewing("sweep"))
    /\ WF_jobVars(part = "jobs" /\ ResultsExpire)

Spec == Init /\ [][Next]_vars /\ Fairness
-----------------------------------------------------------------------------
(* Whatever was published, a node that is switched on comes back.             *)
NodeComesBack == []<>(part = "update" => agent = "registered")

(* A training ends, whatever is lost and whichever stage dies.                *)
TrainingEnds == []<>(part = "training" => TrainingOver)
=============================================================================
