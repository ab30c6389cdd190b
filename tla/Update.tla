------------------------------- MODULE Update -------------------------------
(* How a node changes the version of its agent.  The orchestrator publishes   *)
(* releases and offers the current one to the nodes of its wave               *)
(* (orchestrator/releases.py, AgentHub.announce_release).  The agent          *)
(* downloads and steps aside (looma_agent/update.py); the launcher, which an  *)
(* update never replaces, verifies, installs, switches two links, starts the  *)
(* agent again and goes back to an older version when a new one keeps dying   *)
(* before it has ever registered (looma_launcher/supervise.py, payload.py).   *)
(*                                                                            *)
(* One node.  Versions are numbers in their order, 0 the agent of the image.  *)
(* What a version does when it is run is its quality: "good" ones register,   *)
(* ones that "crash" exit within thirty seconds and never register, ones that *)
(* "sit" live and never register.                                             *)
EXTENDS Naturals

CONSTANTS Top,         \* the newest version that may be published
          Qualities,   \* what a release may turn out to be
          MaxPublish,  \* bound on publications
          MaxKills     \* bound on power failures and pauses

ASSUME UpdateAssumption ==
    /\ Top \in Nat /\ MaxPublish \in Nat /\ MaxKills \in Nat
    /\ Qualities \subseteq {"good", "crash", "sit"}

NewVersion == 1 .. Top
FailuresBeforeRollback == 3   \* FAILURES_BEFORE_ROLLBACK

VARIABLES quality,    \* what each version is
          offered,    \* ReleaseStore.current, 0 before the first
          wave,       \* the node is in its wave
          current, previous,   \* the two links; 0: no link
          healthy,    \* versions with a health marker
          refused,    \* versions with a file in refused/
          incoming,   \* the download waiting: its version and what it is worth
          phase,      \* where the launcher is
          run,        \* its payload
          failures,   \* consecutive_failures
          agent,      \* the process: "none", "up", "registered", "leaving"
          fetching,   \* the version being downloaded, 0 for none
          paused,     \* the owner's file
          published, kills

updateVars == <<quality, offered, wave, current, previous, healthy, refused, incoming, phase,
                run, failures, agent, fetching, paused, published, kills>>
central == <<quality, offered, wave, published>>
disk == <<current, previous, healthy, refused, incoming>>

Nothing == [version |-> 0, worth |-> "none"]

UpdateInit ==
    /\ quality \in [NewVersion -> Qualities]
    /\ offered = 0 /\ wave = FALSE
    /\ current = 0 /\ previous = 0 /\ healthy = {} /\ refused = {} /\ incoming = Nothing
    /\ phase = "gate" /\ run = 0 /\ failures = 0
    /\ agent = "none" /\ fetching = 0
    /\ paused = FALSE /\ published = 0 /\ kills = 0

IsGood(v) == IF v = 0 THEN TRUE ELSE quality[v] = "good"

----------------------------------------------------------------------------
(* The orchestrator.  A node that is connected hears of a wave at once, any   *)
(* other when it registers.  Updater.on_release drops what it runs already,   *)
(* what this node refused before, and anything while it is downloading.       *)
Takes(v) == v # run /\ v \notin refused /\ fetching = 0

OnRelease(v) == fetching' = IF Takes(v) THEN v ELSE fetching

Publish(v) ==
    /\ published < MaxPublish /\ published' = published + 1
    /\ offered' = v /\ wave' = FALSE
    /\ UNCHANGED <<quality, disk, phase, run, failures, agent, fetching, paused, kills>>

(* set_wave, to a share that includes the node, and announce_release          *)
SetWave ==
    /\ offered # 0 /\ wave' = TRUE
    /\ IF agent = "registered" THEN OnRelease(offered) ELSE UNCHANGED fetching
    /\ UNCHANGED <<quality, offered, published, disk, phase, run, failures, agent, paused, kills>>

Withdraw ==
    /\ wave /\ wave' = FALSE
    /\ UNCHANGED <<quality, offered, published, disk, phase, run, failures, agent, fetching,
                   paused, kills>>

----------------------------------------------------------------------------
(* The agent                                                                  *)
Register ==
    /\ agent = "up" /\ IsGood(run) /\ agent' = "registered"
    /\ healthy' = healthy \union {run}   \* mark_healthy, before the offer is read
    /\ IF wave THEN OnRelease(offered) ELSE UNCHANGED fetching
    /\ UNCHANGED <<central, current, previous, refused, incoming, phase, run, failures,
                   paused, kills>>

(* _download: the archive gets its name when it is complete, the manifest     *)
(* after it.  It may be something else than what was signed, or not unpack.   *)
Fetched ==
    /\ fetching # 0 /\ agent = "registered"
    /\ \E worth \in {"intact", "corrupt", "unreadable"} :
           incoming' = [version |-> fetching, worth |-> worth]
    /\ agent' = "leaving"
    /\ UNCHANGED <<central, current, previous, healthy, refused, phase, run, failures,
                   fetching, paused, kills>>
FetchFails ==
    /\ fetching # 0 /\ agent = "registered" /\ fetching' = 0
    /\ UNCHANGED <<central, disk, phase, run, failures, agent, paused, kills>>

(* step_aside for the operator or because the agent saw the pause file        *)
StepAside ==
    /\ agent = "registered" /\ (paused \/ kills < MaxKills)
    /\ kills' = IF paused THEN kills ELSE kills + 1
    /\ agent' = "leaving"
    /\ UNCHANGED <<central, disk, phase, run, failures, fetching, paused>>

----------------------------------------------------------------------------
(* The launcher.  Exit: what the loop makes of an agent that is gone.         *)
Gone == agent' = "none" /\ fetching' = 0   \* a download dies with its process

CrashedOften_Healthy(n) == n >= FailuresBeforeRollback /\ run # 0 /\ run \in healthy
CrashedOften(n) == n >= FailuresBeforeRollback /\ run # 0 /\ run \notin healthy

ExitPlanned ==
    /\ agent = "leaving" /\ Gone /\ failures' = 0 /\ phase' = "gate"
    /\ UNCHANGED <<central, disk, run, paused, kills>>

(* _consider_rollback: first the refusal is written, so that the version is   *)
(* not downloaded again by the one that follows                               *)
ConsiderRollback ==
    IF CrashedOften(failures')
    THEN phase' = "failing" /\ refused' = refused \union {run}
    ELSE phase' = "gate" /\ UNCHANGED refused

ExitSoon ==
    /\ failures' = IF failures < FailuresBeforeRollback THEN failures + 1 ELSE failures
    /\ Gone /\ ConsiderRollback
    /\ UNCHANGED <<central, current, previous, healthy, incoming, run>>

Crashes ==
    /\ agent = "up" /\ run # 0 /\ quality[run] = "crash"
    /\ ExitSoon /\ UNCHANGED <<paused, kills>>

ExitLate ==
    /\ Gone /\ failures' = 0 /\ phase' = "gate"
    /\ UNCHANGED <<central, disk, run, paused, kills>>

(* _stop_when_paused, or the process dies: soon after its start or late       *)
Terminated ==
    /\ paused /\ agent # "none"
    /\ \/ ExitSoon /\ UNCHANGED <<paused, kills>>
       \/ ExitLate
Dies ==
    /\ agent # "none" /\ kills < MaxKills /\ kills' = kills + 1
    /\ ExitSoon /\ UNCHANGED paused

(* roll_back: to the previous link, else the agent of the image               *)
RollBack ==
    /\ phase = "failing" /\ phase' = "gate"
    /\ current' = previous /\ run' = previous /\ failures' = 0
    /\ UNCHANGED <<central, previous, healthy, refused, incoming, agent, fetching, paused, kills>>

PassGate ==
    /\ phase = "gate" /\ ~paused /\ phase' = "apply"
    /\ UNCHANGED <<central, disk, run, failures, agent, fetching, paused, kills>>

(* install: a download that is not newer than what runs, or not what was      *)
(* signed, is refused for good; one that cannot be read or unpacked is only   *)
(* thrown away                                                                *)
Trusted_AnyVersion(d) == d.worth # "corrupt"
Trusted(d) == d.worth # "corrupt" /\ d.version > run

InstallRefuses ==
    /\ phase = "apply" /\ incoming # Nothing
    /\ incoming.worth # "unreadable" => ~Trusted(incoming)
    /\ refused' = IF incoming.worth = "unreadable" THEN refused
                  ELSE refused \union {incoming.version}
    /\ incoming' = Nothing
    /\ UNCHANGED <<central, current, previous, healthy, phase, run, failures, agent, fetching,
                   paused, kills>>
Install ==
    /\ phase = "apply" /\ incoming.worth = "intact" /\ Trusted(incoming)
    /\ phase' = "switching" /\ run' = incoming.version /\ failures' = 0
    /\ incoming' = Nothing
    /\ UNCHANGED <<central, current, previous, healthy, refused, agent, fetching, paused, kills>>

(* switch_to: previous first, then current; a power failure may fall between  *)
SwitchPrevious ==
    /\ phase = "switching" /\ phase' = "switched"
    /\ previous' = IF current # 0 THEN current ELSE previous
    /\ UNCHANGED <<central, current, healthy, refused, incoming, run, failures, agent, fetching,
                   paused, kills>>
SwitchCurrent ==
    /\ phase = "switched" /\ phase' = "apply" /\ current' = run
    /\ UNCHANGED <<central, previous, healthy, refused, incoming, run, failures, agent, fetching,
                   paused, kills>>

(* _run_once                                                                  *)
RunOnce ==
    /\ phase = "apply" /\ incoming = Nothing /\ phase' = "running" /\ agent' = "up"
    /\ UNCHANGED <<central, disk, run, failures, fetching, paused, kills>>

(* The machine loses power.  The launcher that starts next resolves the link. *)
PowerFailure ==
    /\ kills < MaxKills /\ kills' = kills + 1
    /\ Gone /\ phase' = "gate" /\ run' = current /\ failures' = 0
    /\ UNCHANGED <<central, disk, paused>>

Pause ==
    /\ ~paused /\ kills < MaxKills /\ kills' = kills + 1 /\ paused' = TRUE
    /\ UNCHANGED <<central, disk, phase, run, failures, agent, fetching>>
Unpause ==
    /\ paused /\ paused' = FALSE
    /\ UNCHANGED <<central, disk, phase, run, failures, agent, fetching, kills>>

----------------------------------------------------------------------------
Launcher == \/ ExitPlanned \/ Crashes \/ RollBack \/ PassGate \/ InstallRefuses \/ Install
            \/ SwitchPrevious \/ SwitchCurrent \/ RunOnce

UpdateNext ==
    \/ \E v \in NewVersion : Publish(v)
    \/ SetWave \/ Withdraw \/ Register \/ Fetched \/ FetchFails \/ StepAside
    \/ Terminated \/ Dies \/ PowerFailure \/ Pause \/ Unpause
    \/ Launcher

(* The launcher's loop goes on, a good version registers, a drain has a       *)
(* timeout, a download too, and the owner ends a pause.                       *)
UpdateFairness ==
    /\ WF_updateVars(Launcher) /\ WF_updateVars(Register) /\ WF_updateVars(Unpause)
    /\ WF_updateVars(Fetched \/ FetchFails)

UpdateSpec == UpdateInit /\ [][UpdateNext]_updateVars /\ UpdateFairness
----------------------------------------------------------------------------
(* A node moves backwards only by its own rollback, and only from a version   *)
(* that never registered; a release that is published late is not a way back. *)
BackwardsOnlyByRollback ==
    [][current' < current => phase = "failing" /\ current \notin healthy]_updateVars

=============================================================================
