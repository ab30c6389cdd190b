------------------------- MODULE TaskRegistryProofs -------------------------
(***************************************************************************)
(* Proofs about the node's card accounting, for any number of tasks and    *)
(* cards, any demands and any number of restarts and recounts.             *)
(***************************************************************************)
EXTENDS TaskRegistry, FiniteSetTheorems, TLAPS

\* While a submission is at one of these phases its process has not started.
Unstarted(t) == sub[t] \notin {"started", "in", "lost"}

\* Between the claim and its end a submission's id is in _claimed.
HoldsClaim(t) ==
    sub[t] \in {"claimed", "leased", "stocked", "started", "undo", "undoLeased"}

\* _held never gives one card to two ids.
HeldDisjoint ==
    \A s, t \in Task : s # t => held[s] \intersect held[t] = {}

\* What a live process uses is still accounted to its task.
LiveIsHeld == \A t \in Task : up /\ Live(t) => cards[t] \subseteq held[t]

\* What each program counter implies about the process, the event and the
\* registry's sets: the facts the four properties rest on.
Phases ==
    \A t \in Task :
        /\ Unstarted(t) => ~Live(t)
        /\ ended[t] => sub[t] \in {"started", "in"} /\ ~Live(t)
        /\ rel[t] # "none" => sub[t] = "in" /\ t \notin tasks
        /\ rel[t] \in {"freeing", "removing", "done"} => ended[t]
        /\ t \in tasks => sub[t] = "in"
        /\ up /\ HoldsClaim(t) => t \in claimed
        /\ up /\ sub[t] = "stocked" => dir[t]
        /\ up /\ sub[t] = "lost" => ~Live(t)
        /\ ~up => sub[t] \in {"none", "refused", "lost"} /\ ~ended[t]

\* The inductive invariant.
IInv ==
    /\ TypeOK
    /\ HeldDisjoint
    /\ LiveIsHeld
    /\ Phases
    /\ NoSharedCard
    /\ DirectoryOutlivesProcess
    /\ NothingRunsUncounted

-----------------------------------------------------------------------------

\* The cards TakeDevices may pick are the node's and nobody else's.
LEMMA FreeDevices ==
    ASSUME TypeOK, NEW S, S \subseteq free_devices
    PROVE  S \subseteq Device /\ \A t \in Task : S \intersect held[t] = {}
  <1>1. free_devices \subseteq Device
    <2>1. total \in Int /\ total <= Gpus
      BY GpusAssumption DEF TypeOK
    <2>2. 0 .. total - 1 \subseteq Device
      BY <2>1, GpusAssumption DEF Device
    <2>3. QED
      BY <2>2 DEF free_devices
  <1>2. \A t \in Task : free_devices \intersect held[t] = {}
    BY DEF free_devices, Taken
  <1>3. QED
    BY <1>1, <1>2

\* The variables' shapes are kept by every step.
LEMMA TypeStep == TypeOK /\ [Next]_vars => TypeOK'
  <1> SUFFICES ASSUME TypeOK, [Next]_vars
               PROVE  TypeOK'
    OBVIOUS
  <1> USE DEF TypeOK, agentVars, threadVars, taskVars, osVars, boundVars,
              SubPhase, ReapPhase, RelPhase, TaskState
  <1>1. ASSUME NEW t \in Task, Submit(t)
        PROVE  TypeOK'
    BY <1>1 DEF Submit
  <1>2. ASSUME NEW t \in Task, Claim(t)
        PROVE  TypeOK'
    BY <1>2, FreeDevices DEF Claim, TakeDevices
  <1>3. ASSUME NEW t \in Task, Refuse(t)
        PROVE  TypeOK'
    BY <1>3 DEF Refuse
  <1>4. ASSUME NEW t \in Task, AcquireEnvironment(t)
        PROVE  TypeOK'
    BY <1>4 DEF AcquireEnvironment
  <1>5. ASSUME NEW t \in Task, CreateDirectory(t)
        PROVE  TypeOK'
    BY <1>5 DEF CreateDirectory
  <1>6. ASSUME NEW t \in Task, Start(t)
        PROVE  TypeOK'
    BY <1>6 DEF Start
  <1>7. ASSUME NEW t \in Task, Fail(t)
        PROVE  TypeOK'
    BY <1>7 DEF Fail
  <1>8. ASSUME NEW t \in Task, Undo(t)
        PROVE  TypeOK'
    BY <1>8 DEF Undo
  <1>9. ASSUME NEW t \in Task, Register(t)
        PROVE  TypeOK'
    BY <1>9 DEF Register
  <1>10. ASSUME NEW t \in Task, Die(t)
         PROVE  TypeOK'
    BY <1>10 DEF Die
  <1>11. ASSUME NEW t \in Task, LimitExceeded(t)
         PROVE  TypeOK'
    BY <1>11 DEF LimitExceeded, CancelIn
  <1>12. ASSUME NEW t \in Task, Finish(t)
         PROVE  TypeOK'
    BY <1>12 DEF Finish
  <1>13. ASSUME NEW t \in Task, Stop(t)
         PROVE  TypeOK'
    BY <1>13 DEF Stop, CancelIn
  <1>14. ASSUME NEW t \in Task, Release(t)
         PROVE  TypeOK'
    BY <1>14 DEF Release, PopForRelease, CancelIn
  <1>15. ASSUME NEW t \in Task, ReleaseThread(t)
         PROVE  TypeOK'
    BY <1>15 DEF ReleaseThread, ReleaseWaited, ReleaseDevices, ReleaseDirectory
  <1>16. ASSUME NEW t \in Task, ReapThread(t)
         PROVE  TypeOK'
    BY <1>16 DEF ReapThread, ReapDevices, ReapEnvironment, ReapRelease,
                 PopForRelease, CancelIn
  <1>17. CASE RecountDevices
    BY <1>17, BoundsAssumption DEF RecountDevices
  <1>18. CASE StartDrain \/ Drained \/ DrainExpired
    BY <1>18 DEF StartDrain, Drained, DrainExpired
  <1>19. CASE StopAll
    BY <1>19 DEF StopAll, CancelIn
  <1>20. CASE GoDown
    <2>1. sub' \in [Task -> SubPhase]
      <3>1. \A t \in Task : sub[t] \in SubPhase
        OBVIOUS
      <3>2. \A t \in Task :
              (IF sub[t] \in {"none", "refused"} THEN sub[t] ELSE "lost") \in SubPhase
        BY <3>1
      <3>3. QED
        BY <1>20, <3>2, Zenon DEF GoDown
    <2>2. restarts' \in 0 .. MaxRestarts
      BY <1>20, BoundsAssumption DEF GoDown
    <2>3. /\ held' \in [Task -> SUBSET Device]
          /\ reap' \in [Task -> ReapPhase]
          /\ rel' \in [Task -> RelPhase]
      BY <1>20 DEF GoDown
    <2>4. /\ state' \in [Task -> TaskState]
          /\ ended' \in [Task -> BOOLEAN]
      BY <1>20 DEF GoDown
    <2>5. /\ tasks' \subseteq Task
          /\ claimed' \subseteq Task
          /\ drain' \in {"no", "draining", "drained", "expired"}
          /\ leases' \in Int
      BY <1>20 DEF GoDown
    <2>7. up' \in BOOLEAN
      BY <1>20, Zenon DEF GoDown
    <2>6. UNCHANGED <<total, dir, proc, cards, rescans>>
      BY <1>20 DEF GoDown
    <2> HIDE DEF SubPhase, ReapPhase, RelPhase, TaskState
    <2>8. QED
      BY <2>1, <2>2, <2>3, <2>4, <2>5, <2>6, <2>7
  <1>21. CASE SweepLeftovers
    BY <1>21, GpusAssumption DEF SweepLeftovers
  <1>22. CASE UNCHANGED vars
    BY <1>22 DEF vars
  <1>23. QED
    BY <1>1, <1>2, <1>3, <1>4, <1>5, <1>6, <1>7, <1>8, <1>9, <1>10, <1>11,
       <1>12, <1>13, <1>14, <1>15, <1>16, <1>17, <1>18, <1>19, <1>20, <1>21,
       <1>22
       DEF Next, SubmitThread

\* Every variable has its shape in every reachable state.
THEOREM TypeCorrect == Spec => []TypeOK
  <1>1. Init => TypeOK
    BY GpusAssumption, BoundsAssumption
       DEF Init, TypeOK, SubPhase, ReapPhase, RelPhase, TaskState
  <1>2. TypeOK /\ [Next]_vars => TypeOK'
    BY TypeStep
  <1>3. QED
    BY <1>1, <1>2, PTL DEF Spec

-----------------------------------------------------------------------------
(* Card exclusion.  One step per action; under it the conjuncts of IInv the  *)
(* action can disturb.                                                       *)

\* The initial state: nothing runs, nothing is held.
LEMMA InitIInv == Init => IInv
  BY GpusAssumption, BoundsAssumption
     DEF Init, IInv, TypeOK, HeldDisjoint, LiveIsHeld, Phases, NoSharedCard,
         DirectoryOutlivesProcess, NothingRunsUncounted, Live, Unstarted,
         HoldsClaim, SubPhase, ReapPhase, RelPhase, TaskState

\* Submission: the cards taken are free, and nothing runs on them yet.
LEMMA SubmitStep ==
    ASSUME IInv, TypeOK', NEW t \in Task, Submit(t) \/ SubmitThread(t)
    PROVE  IInv'
  <1> USE DEF IInv, TypeOK, HeldDisjoint, LiveIsHeld, Phases, NoSharedCard,
              DirectoryOutlivesProcess, NothingRunsUncounted, Live, Unstarted,
              HoldsClaim, agentVars, threadVars, taskVars, osVars, boundVars
  <1>1. CASE Submit(t)
    BY <1>1 DEF Submit
  <1>2. CASE Claim(t)
    <2>1. PICK S : S \subseteq free_devices /\ held' = [held EXCEPT ![t] = S]
      BY <1>2 DEF Claim, TakeDevices
    <2>2. \A u \in Task : S \intersect held[u] = {}
      BY <2>1, FreeDevices
    <2>3. HeldDisjoint'
      BY <2>1, <2>2
    <2>4. ~Live(t)
      BY <1>2 DEF Claim
    <2>5. LiveIsHeld'
      BY <1>2, <2>1, <2>4 DEF Claim
    <2>6. Phases'
      BY <1>2 DEF Claim
    <2>7. QED
      BY <1>2, <2>3, <2>5, <2>6 DEF Claim
  <1>3. CASE Refuse(t)
    BY <1>3 DEF Refuse
  <1>4. CASE AcquireEnvironment(t)
    BY <1>4 DEF AcquireEnvironment
  <1>5. CASE CreateDirectory(t)
    BY <1>5 DEF CreateDirectory
  <1>6. CASE Start(t)
    <2>1. LiveIsHeld'
      BY <1>6 DEF Start
    <2>2. NoSharedCard'
      BY <1>6, <2>1 DEF Start
    <2>3. Phases'
      BY <1>6 DEF Start
    <2>4. QED
      BY <1>6, <2>1, <2>2, <2>3 DEF Start
  <1>7. CASE Fail(t)
    BY <1>7 DEF Fail
  <1>8. CASE Undo(t)
    BY <1>8 DEF Undo
  <1>9. CASE Register(t)
    BY <1>9 DEF Register
  <1>10. QED
    BY <1>1, <1>2, <1>3, <1>4, <1>5, <1>6, <1>7, <1>8, <1>9 DEF SubmitThread

\* The process and stop: a final state never frees cards by itself.
LEMMA ProcessStep ==
    ASSUME IInv, TypeOK', NEW t \in Task,
           Die(t) \/ LimitExceeded(t) \/ Finish(t) \/ Stop(t)
    PROVE  IInv'
  <1> USE DEF IInv, TypeOK, HeldDisjoint, LiveIsHeld, Phases, NoSharedCard,
              DirectoryOutlivesProcess, NothingRunsUncounted, Live, Unstarted,
              HoldsClaim, agentVars, threadVars, taskVars, osVars, boundVars
  <1>1. CASE Die(t)
    BY <1>1 DEF Die
  <1>2. CASE LimitExceeded(t)
    BY <1>2 DEF LimitExceeded
  <1>3. CASE Finish(t)
    BY <1>3 DEF Finish
  <1>4. CASE Stop(t)
    BY <1>4 DEF Stop
  <1>5. QED
    BY <1>1, <1>2, <1>3, <1>4

\* Popping an id: a task not finished is left to the thread that stops it.
LEMMA PopStep ==
    ASSUME IInv, TypeOK', NEW t \in Task, up, PopForRelease(t),
           UNCHANGED <<up, total, claimed, held, sub, ended, dir, proc, cards>>
    PROVE  IInv'
  BY DEF IInv, TypeOK, HeldDisjoint, LiveIsHeld, Phases, NoSharedCard,
         DirectoryOutlivesProcess, NothingRunsUncounted, Live, Unstarted,
         HoldsClaim, PopForRelease, Finished

\* Release and the reaper give cards back only after the watcher's event, and
\* that comes after the whole process tree is gone.
LEMMA ReleaseStep ==
    ASSUME IInv, TypeOK', KillIsPrompt, NEW t \in Task,
           Release(t) \/ ReleaseThread(t) \/ ReapThread(t)
    PROVE  IInv'
  <1> USE DEF agentVars, threadVars, taskVars, osVars, boundVars
  <1>1. CASE Release(t)
    BY <1>1, PopStep DEF Release
  <1>2. CASE ReapRelease(t) /\ t \in tasks
    BY <1>2, PopStep DEF ReapRelease
  <1> USE DEF IInv, TypeOK, HeldDisjoint, LiveIsHeld, Phases, NoSharedCard,
              DirectoryOutlivesProcess, NothingRunsUncounted, Live, Unstarted,
              HoldsClaim
  <1>3. CASE ReapRelease(t) /\ t \notin tasks
    BY <1>3 DEF ReapRelease, PopForRelease
  <1>4. CASE ReleaseWaited(t)
    BY <1>4 DEF ReleaseWaited
  <1>5. CASE ReleaseDevices(t)
    BY <1>5 DEF ReleaseDevices
  <1>6. CASE ReleaseDirectory(t)
    BY <1>6 DEF ReleaseDirectory
  <1>7. CASE ReapDevices(t)
    BY <1>7 DEF ReapDevices
  <1>8. CASE ReapEnvironment(t)
    BY <1>8 DEF ReapEnvironment
  <1>9. QED
    BY <1>1, <1>2, <1>3, <1>4, <1>5, <1>6, <1>7, <1>8 DEF ReleaseThread, ReapThread

\* The node as a whole: recounts, drains, going down and coming back.
LEMMA NodeStep ==
    ASSUME IInv, TypeOK',
           \/ RecountDevices \/ StartDrain \/ Drained \/ DrainExpired
           \/ StopAll \/ GoDown \/ SweepLeftovers
    PROVE  IInv'
  <1> USE DEF IInv, TypeOK, HeldDisjoint, LiveIsHeld, Phases, NoSharedCard,
              DirectoryOutlivesProcess, NothingRunsUncounted, Live, Unstarted,
              HoldsClaim, agentVars, threadVars, taskVars, osVars, boundVars
  <1>1. CASE RecountDevices
    BY <1>1 DEF RecountDevices
  <1>2. CASE StartDrain \/ Drained \/ DrainExpired
    BY <1>2 DEF StartDrain, Drained, DrainExpired
  <1>3. CASE StopAll
    BY <1>3 DEF StopAll
  <1>4. CASE GoDown
    BY <1>4 DEF GoDown
  <1>5. CASE SweepLeftovers
    <2>1. \A t \in Task : ~Live(t)'
      BY <1>5 DEF SweepLeftovers
    <2>2. Phases'
      BY <1>5, <2>1 DEF SweepLeftovers
    <2>3. QED
      BY <1>5, <2>1, <2>2 DEF SweepLeftovers
  <1>6. QED
    BY <1>1, <1>2, <1>3, <1>4, <1>5

\* Every step keeps the inductive invariant, actions grouped by thread.
LEMMA IInvStep ==
    ASSUME KillIsPrompt, IInv, [Next]_vars
    PROVE  IInv'
  <1>1. TypeOK'
    BY TypeStep DEF IInv
  <1>2. CASE UNCHANGED vars
    BY <1>2
       DEF vars, IInv, TypeOK, HeldDisjoint, LiveIsHeld, Phases, NoSharedCard,
           DirectoryOutlivesProcess, NothingRunsUncounted, Live, Unstarted,
           HoldsClaim, agentVars, threadVars, taskVars, osVars, boundVars
  <1>3. CASE Next
    BY <1>1, <1>3, SubmitStep, ProcessStep, ReleaseStep, NodeStep DEF Next
  <1>4. QED
    BY <1>2, <1>3

\* The inductive invariant holds throughout, provided killed processes die
\* within release's wait.
LEMMA IInvHolds == ASSUME KillIsPrompt PROVE Spec => []IInv
  <1>1. IInv /\ [Next]_vars => IInv'
    BY IInvStep
  <1>2. QED
    BY <1>1, InitIInv, PTL DEF Spec

\* Two live tasks of a node never sit on one card, for every number of cards
\* and tasks, provided a killed process tree dies within release's wait.
THEOREM CardExclusion == ASSUME KillIsPrompt PROVE Spec => []NoSharedCard
  <1>1. IInv => NoSharedCard
    BY DEF IInv
  <1>2. QED
    BY <1>1, IInvHolds, PTL

\* No live process of the agent's loses its directory.
THEOREM DirectorySafety ==
    ASSUME KillIsPrompt PROVE Spec => []DirectoryOutlivesProcess
  <1>1. IInv => DirectoryOutlivesProcess
    BY DEF IInv
  <1>2. QED
    BY <1>1, IInvHolds, PTL

\* No live process is missing from the census, but for one being released.
THEOREM CensusSafety ==
    ASSUME KillIsPrompt PROVE Spec => []NothingRunsUncounted
  <1>1. IInv => NothingRunsUncounted
    BY DEF IInv
  <1>2. QED
    BY <1>1, IInvHolds, PTL

-----------------------------------------------------------------------------
(* Lease accounting.  The count moves exactly when the set of the threads    *)
(* that owe a release gains or loses one element.                            *)

Owing == {t \in Task : OwesLease(t)}

\* The reaper runs only for registered tasks; a node that is down owes none.
LeaseInv ==
    /\ TypeOK
    /\ LeasesMatch
    /\ \A t \in Task :
          /\ reap[t] # "none" => sub[t] = "in"
          /\ ~up => sub[t] \in {"none", "refused", "lost"}

\* The threads that owe a lease are finitely many, so counting them one by one
\* is sound.
LEMMA OwingFinite ==
    /\ IsFiniteSet(Owing)
    /\ \A t \in Owing : Cardinality(Owing \ {t}) = Cardinality(Owing) - 1
    /\ \A t \in Task \ Owing : Cardinality(Owing \union {t}) = Cardinality(Owing) + 1
  <1>1. IsFiniteSet(Owing)
    BY TaskAssumption, FS_Subset DEF Owing
  <1>2. QED
    BY <1>1, FS_AddElement, FS_RemoveElement DEF Owing

\* One thread joins those that owe, one leaves them, or neither.
LEMMA LeaseCount ==
    ASSUME LeasesMatch, NEW t \in Task,
           \/ t \notin Owing /\ Owing' = Owing \union {t} /\ leases' = leases + 1
           \/ t \in Owing /\ Owing' = Owing \ {t} /\ leases' = leases - 1
           \/ Owing' = Owing /\ leases' = leases
    PROVE  LeasesMatch'
  BY OwingFinite DEF LeasesMatch, Owing

\* Every step changes the count of leases exactly as it changes the set of
\* threads that owe one.
LEMMA LeaseStep ==
    ASSUME LeaseInv, [Next]_vars
    PROVE  LeaseInv'
  <1> USE DEF LeaseInv, TypeOK, agentVars, threadVars, taskVars, osVars, boundVars
  <1>1. TypeOK'
    BY TypeStep
  <1> DEFINE Rest == \A t \in Task :
                        /\ reap'[t] # "none" => sub'[t] = "in"
                        /\ ~up' => sub'[t] \in {"none", "refused", "lost"}
  <1>2. ASSUME NEW t \in Task, AcquireEnvironment(t)
        PROVE  LeaseInv'
    <2>1. t \notin Owing /\ Owing' = Owing \union {t} /\ leases' = leases + 1
      BY <1>2 DEF AcquireEnvironment, Owing, OwesLease
    <2>2. LeasesMatch'
      BY <2>1, LeaseCount
    <2>3. QED
      BY <1>1, <1>2, <2>2 DEF AcquireEnvironment
  <1>3. ASSUME NEW t \in Task, Undo(t)
        PROVE  LeaseInv'
    <2>1. \/ t \in Owing /\ Owing' = Owing \ {t} /\ leases' = leases - 1
          \/ Owing' = Owing /\ leases' = leases
      BY <1>3 DEF Undo, Owing, OwesLease
    <2>2. LeasesMatch'
      BY <2>1, LeaseCount
    <2>3. QED
      BY <1>1, <1>3, <2>2 DEF Undo
  <1>4. ASSUME NEW t \in Task, ReapEnvironment(t)
        PROVE  LeaseInv'
    <2>1. t \in Owing /\ Owing' = Owing \ {t} /\ leases' = leases - 1
      BY <1>4 DEF ReapEnvironment, Owing, OwesLease
    <2>2. LeasesMatch'
      BY <2>1, LeaseCount
    <2>3. QED
      BY <1>1, <1>4, <2>2 DEF ReapEnvironment
  <1>5. ASSUME NEW t \in Task,
               \/ Submit(t) \/ Claim(t) \/ Refuse(t) \/ CreateDirectory(t)
               \/ Start(t) \/ Fail(t) \/ Register(t) \/ ReapDevices(t)
               \/ ReapRelease(t)
        PROVE  LeaseInv'
    <2>1. Owing' = Owing /\ leases' = leases /\ Rest
      BY <1>5 DEF Submit, Claim, Refuse, CreateDirectory, Start, Fail,
                  Register, ReapDevices, ReapRelease, Owing, OwesLease
    <2>2. LeasesMatch'
      BY <1>5, <2>1, LeaseCount
    <2>3. QED
      BY <1>1, <2>1, <2>2
  <1>6. ASSUME UNCHANGED <<up, sub, reap, leases>>
        PROVE  LeaseInv'
    <2>1. Owing' = Owing
      BY <1>6 DEF Owing, OwesLease
    <2>2. LeasesMatch'
      BY <1>6, <2>1 DEF LeasesMatch, Owing
    <2>3. QED
      BY <1>1, <1>6, <2>2
  <1>7. ASSUME NEW t \in Task,
               \/ Die(t) \/ LimitExceeded(t) \/ Finish(t) \/ Stop(t)
               \/ Release(t) \/ ReleaseThread(t)
        PROVE  LeaseInv'
    BY <1>6, <1>7 DEF Die, LimitExceeded, Finish, Stop, Release, ReleaseThread,
                      ReleaseWaited, ReleaseDevices, ReleaseDirectory
  <1>8. CASE \/ RecountDevices \/ StartDrain \/ Drained \/ DrainExpired
             \/ StopAll \/ UNCHANGED vars
    BY <1>6, <1>8 DEF RecountDevices, StartDrain, Drained, DrainExpired,
                      StopAll, vars
  <1>9. CASE GoDown
    <2>1. Owing' = {} /\ leases' = 0 /\ Rest
      BY <1>9 DEF GoDown, Owing, OwesLease
    <2>2. LeasesMatch'
      BY <2>1, FS_EmptySet DEF LeasesMatch, Owing
    <2>3. QED
      BY <1>1, <2>1, <2>2
  <1>10. CASE SweepLeftovers
    <2>1. Owing' = Owing /\ leases' = leases /\ Rest
      BY <1>10 DEF SweepLeftovers, Owing, OwesLease
    <2>2. LeasesMatch'
      BY <2>1 DEF LeasesMatch, Owing
    <2>3. QED
      BY <1>1, <2>1, <2>2
  <1>11. QED
    BY <1>2, <1>3, <1>4, <1>5, <1>7, <1>8, <1>9, <1>10
       DEF Next, SubmitThread, ReapThread

\* Whatever fails, is stopped or goes down, every environment lease is given
\* back exactly once.
THEOREM LeasesBalance == Spec => []LeasesMatch
  <1>1. Init => LeaseInv
    <2>1. Init => Owing = {} /\ leases = 0
      BY DEF Init, Owing, OwesLease
    <2>2. Init => LeasesMatch
      BY <2>1, FS_EmptySet DEF LeasesMatch, Owing
    <2>3. Init => TypeOK
      BY InitIInv DEF IInv
    <2>4. QED
      BY <2>2, <2>3 DEF Init, LeaseInv
  <1>2. LeaseInv /\ [Next]_vars => LeaseInv'
    BY LeaseStep
  <1>3. LeaseInv => LeasesMatch
    BY DEF LeaseInv
  <1>4. QED
    BY <1>1, <1>2, <1>3, PTL DEF Spec

=============================================================================
