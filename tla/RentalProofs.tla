---------------------------- MODULE RentalProofs ----------------------------
(***************************************************************************)
(* Proofs about rentals, for any nodes, models, requests and names: no     *)
(* rental takes down another, and what is recorded as evicted is down; and *)
(* about their bills, for any rates, clusters and answers: what is final.  *)
(***************************************************************************)
EXTENDS Rental, Billing, TLAPS

Life == {"none", "live", "stopping", "ended"}
Status == {"none", "running", "evicted", "gone"}
DropStep ==
    {"idle", "closing", "listing", "restoring", "recording", "restored", "done", "lost"}
DropRecord == [at : DropStep, of : Int, left : SUBSET Group, m : Int, c : Int]

\* The shapes of the variables the proofs look at.
RentTypeOK ==
    /\ life \in [Group -> Life]
    /\ dep \in [Group -> Status] /\ by \in [Group -> Int]
    /\ known \in [Rent -> SUBSET Group]
    /\ queue \in [Rent -> SUBSET Group] /\ out \in [Rent -> SUBSET Group]
    /\ drop \in [Drop -> DropRecord]

Down == {"stopping", "ended"}
Displaceable == Group \ Rent

\* A rental's own group is never in the table of deployments ...
RentedAreNoModels == \A r \in Rent : dep[r] = "none"

\* ... so no coroutine ever holds it: not in the plan's input, not among the
\* groups to evict, not among those to put back.
HeldAreModels ==
    /\ \A r \in Rent :
          /\ known[r] \subseteq Displaceable
          /\ \A g \in queue[r] : g \in Displaceable /\ life[g] # "none"
          /\ \A g \in out[r] : g \in Displaceable /\ life[g] \in Down
    /\ \A d \in Drop :
          /\ drop[d].left \subseteq Displaceable
          /\ drop[d].at \in {"recording", "restored"} =>
                drop[d].m \in Displaceable /\ drop[d].c \in Spare

IInv == RentTypeOK /\ RentedAreNoModels /\ HeldAreModels /\ EvictedIsDown /\ RentedNeverYields

-----------------------------------------------------------------------------
(* What the steps do *)

LEMMA NamesApart ==
    /\ Model \subseteq Displaceable /\ Spare \subseteq Displaceable
    /\ Rent \subseteq Group /\ Group \subseteq Int /\ Displaceable \subseteq Group
  BY NamesAssumption, ApartAssumption DEF Group, Displaceable

\* What a plan evicts stands on record.
LEMMA PlanTakesStanding ==
    ASSUME NEW r \in Rent
    PROVE  Plan(r)!Evicted \subseteq Standing(r)
  <1> SUFFICES ASSUME NEW g \in Plan(r)!Evicted PROVE g \in Standing(r)
    OBVIOUS
  <1> QED
    BY DEF Plan!Evicted, Plan!Movable

\* A step of an eviction stops one group of its plan.
LEMMA DisplaceStops ==
    ASSUME IInv, NEW r \in Rent, Displace(r)
    PROVE  \E g \in Displaceable, S \in SUBSET Displaceable :
              /\ life[g] # "none" /\ \A h \in S : life[h] # "none"
              /\ life' = Stopped(life, g)
              /\ queue' = [queue EXCEPT ![r] = S]
              /\ out' = [out EXCEPT ![r] = @ \union {g}]
  <1>1. ASSUME NEW S \in SUBSET Displaceable, \A h \in S : life[h] # "none", EvictFirst(r, S)
        PROVE  \E g \in Displaceable, T \in SUBSET Displaceable :
                  /\ life[g] # "none" /\ \A h \in T : life[h] # "none"
                  /\ life' = Stopped(life, g)
                  /\ queue' = [queue EXCEPT ![r] = T]
                  /\ out' = [out EXCEPT ![r] = @ \union {g}]
    <2>1. PICK g \in S : /\ life' = Stopped(life, g)
                         /\ queue' = [queue EXCEPT ![r] = S \ {g}]
                         /\ out' = [out EXCEPT ![r] = @ \union {g}]
      BY <1>1 DEF EvictFirst
    <2> QED
      BY <1>1, <2>1
  <1>2. CASE EvictFirst(r, Plan(r)!Evicted)
    <2>1. \A h \in Plan(r)!Evicted : h \in Displaceable /\ life[h] # "none"
      BY PlanTakesStanding DEF Standing, IInv, HeldAreModels
    <2> QED
      BY <1>1, <1>2, <2>1
  <1>3. CASE EvictFirst(r, queue[r])
    <2>1. \A h \in queue[r] : h \in Displaceable /\ life[h] # "none"
      BY DEF IInv, HeldAreModels
    <2> QED
      BY <1>1, <1>3, <2>1
  <1> QED
    BY <1>2, <1>3 DEF Displace

\* How a group's life may go on.
LEMMA LifeSteps ==
    ASSUME IInv, [RentNext]_rentalVars
    PROVE  /\ life' \in [Group -> Life]
           /\ \A g \in Group : life[g] # "none" => life'[g] # "none"
           /\ \A g \in Displaceable : life[g] \in Down => life'[g] \in Down
           /\ \A r \in Rent : life'[r] = "stopping" =>
                 \/ life[r] = "stopping"
                 \/ \E d \in Drop : drop'[d].at = "done" /\ drop'[d].of = r
  <1> DEFINE Goal ==
        /\ life' \in [Group -> Life]
        /\ \A g \in Group : life[g] # "none" => life'[g] # "none"
        /\ \A g \in Displaceable : life[g] \in Down => life'[g] \in Down
        /\ \A r \in Rent : life'[r] = "stopping" =>
              \/ life[r] = "stopping"
              \/ \E d \in Drop : drop'[d].at = "done" /\ drop'[d].of = r
  <1>1. ASSUME NEW g \in Displaceable, life' = Stopped(life, g) PROVE Goal
    BY <1>1 DEF IInv, RentTypeOK, Life, Stopped, Displaceable, Down
  <1>2. ASSUME NEW r \in Rent, life' = [life EXCEPT ![r] = "live"] PROVE Goal
    BY <1>2, NamesApart DEF IInv, RentTypeOK, Life, Displaceable, Down
  <1>3. ASSUME life' = life PROVE Goal
    BY <1>3 DEF IInv, RentTypeOK
  <1>4. ASSUME NEW r \in Rent, RentTight(r) \/ ReadDeployments(r) \/ RefusePlan(r)
        \/ RefuseLate(r) \/ OpenLease(r) \/ LedgerFails(r) \/ MarkEvicted(r)
        PROVE  life' = life
    BY <1>4 DEF RentTight, ReadDeployments, RefusePlan, RefuseLate, OpenLease, LedgerFails,
          MarkEvicted, groupVars
  <1>5. ASSUME NEW d \in Drop, CloseLease(d) \/ ListEvicted(d) \/ RedeployRefused(d)
        \/ Remember(d) \/ Restored(d) \/ \E r \in Rent : DropBegin(d, r)
        PROVE  life' = life
    BY <1>5 DEF CloseLease, ListEvicted, RedeployRefused, Remember, Restored, DropBegin,
          groupVars
  <1>6. ASSUME SweepRead \/ SweepClose \/ Crash \/ (\E n \in Node : Telemetry(n))
               \/ UNCHANGED rentalVars
        PROVE  life' = life
    BY <1>6 DEF SweepRead, SweepClose, Crash, Telemetry, groupVars, rentalVars
  <1>7. ASSUME NEW r \in Rent, RentFree(r) \/ PlaceOnFreed(r) PROVE Goal
    BY <1>2, <1>7 DEF RentFree, PlaceOnFreed, Place
  <1>8. ASSUME NEW r \in Rent, Displace(r) PROVE Goal
    BY <1>1, <1>8, DisplaceStops
  <1>9. ASSUME NEW d \in Drop, Redeploy(d) PROVE Goal
    <2>1. PICK c \in Spare : life[c] = "none" /\ life' = [life EXCEPT ![c] = "live"]
      BY <1>9 DEF Redeploy
    <2> QED
      BY <2>1, NamesApart DEF IInv, RentTypeOK, Life, Down, Displaceable
  <1>10. ASSUME NEW d \in Drop, StopDropped(d) PROVE Goal
    <2>1. /\ life' = Stopped(life, drop[d].of)
          /\ drop' = [drop EXCEPT ![d].at = "done"]
      BY <1>10 DEF StopDropped
    <2>2. drop'[d].at = "done" /\ drop'[d].of = drop[d].of
      BY <2>1 DEF IInv, RentTypeOK, DropRecord
    <2>3. PICK g \in Int : g = drop[d].of
      BY DEF IInv, RentTypeOK, DropRecord
    <2>4. (life' = [life EXCEPT ![g] = "stopping"] /\ life[g] = "live") \/ life' = life
      BY <2>1, <2>3 DEF Stopped
    <2>5. life \in [Group -> Life]
      BY DEF IInv, RentTypeOK
    <2>6. \A r \in Rent : life'[r] = "stopping" => life[r] = "stopping" \/ r = g
      BY <2>4, <2>5, NamesApart
    <2> QED
      BY <2>2, <2>3, <2>4, <2>5, <2>6, NamesApart DEF Life, Down
  <1>11. ASSUME NEW g \in Group, RemoveModel(g) PROVE Goal
    <2>1. g \in Displaceable
      BY <1>11 DEF RemoveModel, IInv, RentedAreNoModels, Displaceable
    <2> QED
      BY <1>1, <1>11, <2>1 DEF RemoveModel
  <1>12. ASSUME NEW g \in Group, TasksEnd(g) PROVE Goal
    BY <1>12 DEF TasksEnd, IInv, RentTypeOK, Life, Down
  <1> QED
    BY <1>3, <1>4, <1>5, <1>6, <1>7, <1>8, <1>9, <1>10, <1>11, <1>12 DEF RentNext, RentThread,
          DropThread

\* A drop that is done stays done, for the same cluster.
LEMMA DoneStays ==
    ASSUME IInv, [RentNext]_rentalVars, NEW e \in Drop, drop[e].at = "done"
    PROVE  drop'[e] = drop[e]
  <1>1. ASSUME NEW d \in Drop, DropThread(d) \/ \E r \in Rent : DropBegin(d, r) PROVE drop'[e] = drop[e]
    <2>1. d # e
      BY <1>1 DEF DropThread, CloseLease, ListEvicted, Redeploy, RedeployRefused, Remember, Restored,
                  StopDropped, DropBegin
    <2>2. drop \in [Drop -> DropRecord]
      BY DEF IInv, RentTypeOK
    <2>3. \E v : drop' = [drop EXCEPT ![d] = v]
      BY <1>1 DEF DropThread, CloseLease, ListEvicted, Redeploy, RedeployRefused, Remember, Restored,
                  StopDropped, DropBegin, NextToRestore
    <2> QED
      BY <2>1, <2>2, <2>3
  <1>2. CASE Crash
    BY <1>2 DEF Crash
  <1>3. ASSUME NEW r \in Rent, RentFree(r) \/ RentTight(r) \/ RentThread(r) PROVE drop' = drop
    BY <1>3 DEF RentThread, RentFree, RentTight, ReadDeployments, RefusePlan, Displace,
          PlaceOnFreed, RefuseLate, OpenLease, LedgerFails, MarkEvicted
  <1>4. ASSUME \/ \E g \in Group : RemoveModel(g) \/ TasksEnd(g)
               \/ SweepRead \/ SweepClose \/ (\E n \in Node : Telemetry(n)) \/ UNCHANGED rentalVars
        PROVE  drop' = drop
    BY <1>4 DEF RemoveModel, TasksEnd, SweepRead, SweepClose, Telemetry, rentalVars
  <1> QED
    BY <1>1, <1>2, <1>3, <1>4 DEF RentNext

\* The tables: what is written down, and by whom.
LEMMA TableSteps ==
    ASSUME IInv, [RentNext]_rentalVars
    PROVE  /\ dep' \in [Group -> Status] /\ by' \in [Group -> Int]
           /\ RentedAreNoModels'
           /\ \A g \in Group : dep'[g] = "evicted" =>
                 \/ dep[g] = "evicted"
                 \/ \E r \in Rent : g \in out[r]
  <1> DEFINE Goal ==
        /\ dep' \in [Group -> Status] /\ by' \in [Group -> Int]
        /\ RentedAreNoModels'
        /\ \A g \in Group : dep'[g] = "evicted" => dep[g] = "evicted" \/ \E r \in Rent : g \in out[r]
  <1> USE DEF RentedAreNoModels, Status
  <1>0. /\ dep \in [Group -> Status] /\ by \in [Group -> Int]
        /\ \A r \in Rent : dep[r] = "none"
        /\ Rent \subseteq Group /\ Group \subseteq Int
    BY NamesApart DEF IInv, RentTypeOK
  <1>1. ASSUME dep' = dep, by' = by PROVE Goal
    BY <1>0, <1>1
  <1>2. ASSUME NEW g \in Displaceable, NEW s \in {"running", "gone"}, dep' = [dep EXCEPT ![g] = s],
               by' = by \/ by' = [by EXCEPT ![g] = 0]
        PROVE  Goal
    BY <1>0, <1>2 DEF Displaceable
  <1>3. ASSUME NEW r \in Rent, RentFree(r) \/ RentTight(r) \/ ReadDeployments(r)
        \/ RefusePlan(r) \/ Displace(r) \/ PlaceOnFreed(r) \/ RefuseLate(r) \/ OpenLease(r)
        \/ LedgerFails(r)
        PROVE  dep' = dep /\ by' = by
    BY <1>3 DEF RentFree, RentTight, ReadDeployments, RefusePlan, Displace, PlaceOnFreed,
          RefuseLate, OpenLease, LedgerFails, tableVars
  <1>4. ASSUME NEW d \in Drop, CloseLease(d) \/ ListEvicted(d) \/ Redeploy(d)
        \/ RedeployRefused(d) \/ StopDropped(d) \/ \E r \in Rent : DropBegin(d, r)
        PROVE  dep' = dep /\ by' = by
    BY <1>4 DEF CloseLease, ListEvicted, Redeploy, RedeployRefused, StopDropped, DropBegin,
          tableVars
  <1>5. ASSUME \/ \E g \in Group : TasksEnd(g)
               \/ SweepRead \/ SweepClose \/ Crash \/ (\E n \in Node : Telemetry(n))
               \/ UNCHANGED rentalVars
        PROVE  dep' = dep /\ by' = by
    BY <1>5 DEF TasksEnd, SweepRead, SweepClose, Crash, Telemetry, tableVars, rentalVars
  <1>6. ASSUME NEW d \in Drop, Remember(d) PROVE Goal
    <2>1. drop[d].c \in Displaceable
      BY <1>6, NamesApart DEF Remember, IInv, HeldAreModels
    <2> QED
      BY <1>2, <1>6, <2>1 DEF Remember
  <1>7. ASSUME NEW d \in Drop, Restored(d) PROVE Goal
    <2>1. drop[d].m \in Displaceable
      BY <1>7 DEF Restored, IInv, HeldAreModels
    <2> QED
      BY <1>2, <1>7, <2>1 DEF Restored
  <1>8. ASSUME NEW g \in Group, RemoveModel(g) PROVE Goal
    <2>1. g \in Displaceable
      BY <1>0, <1>8 DEF RemoveModel, Displaceable
    <2> QED
      BY <1>2, <1>8, <2>1 DEF RemoveModel
  <1>9. ASSUME NEW r \in Rent, MarkEvicted(r) PROVE Goal
    <2>1. /\ dep' = [g \in Group |-> IF g \in out[r] THEN "evicted" ELSE dep[g]]
          /\ by' = [g \in Group |-> IF g \in out[r] THEN r ELSE by[g]]
      BY <1>9 DEF MarkEvicted
    <2>2. out[r] \cap Rent = {}
      BY DEF IInv, HeldAreModels, Displaceable
    <2> QED
      BY <1>0, <2>1, <2>2
  <1> QED
    BY <1>1, <1>3, <1>4, <1>5, <1>6, <1>7, <1>8, <1>9 DEF RentNext, RentThread, DropThread

\* The coroutines of the rentals hold models, and stopped ones in `out'.
LEMMA RentLocals ==
    ASSUME IInv, [RentNext]_rentalVars
    PROVE  /\ known' \in [Rent -> SUBSET Group]
           /\ queue' \in [Rent -> SUBSET Group] /\ out' \in [Rent -> SUBSET Group]
           /\ \A r \in Rent :
                 /\ known'[r] \subseteq Displaceable
                 /\ \A g \in queue'[r] : g \in Displaceable /\ life'[g] # "none"
                 /\ \A g \in out'[r] : g \in Displaceable /\ life'[g] \in Down
  <1> DEFINE Locals(r) ==
        /\ known'[r] \subseteq Displaceable
        /\ \A g \in queue'[r] : g \in Displaceable /\ life'[g] # "none"
        /\ \A g \in out'[r] : g \in Displaceable /\ life'[g] \in Down
  <1> DEFINE Goal ==
        /\ known' \in [Rent -> SUBSET Group]
        /\ queue' \in [Rent -> SUBSET Group] /\ out' \in [Rent -> SUBSET Group]
        /\ \A r \in Rent : Locals(r)
  <1>0. /\ known \in [Rent -> SUBSET Group]
        /\ queue \in [Rent -> SUBSET Group] /\ out \in [Rent -> SUBSET Group]
    BY DEF IInv, RentTypeOK
  <1>1. \A r \in Rent :
            /\ known[r] \subseteq Displaceable
            /\ \A g \in queue[r] : g \in Displaceable /\ life'[g] # "none"
            /\ \A g \in out[r] : g \in Displaceable /\ life'[g] \in Down
    BY LifeSteps, NamesApart DEF IInv, HeldAreModels
  <1>2. ASSUME NEW r \in Rent, NEW K \in SUBSET Displaceable, known' = [known EXCEPT ![r] = K],
               queue' = queue, out' = out \/ out' = Cleared(out, r)
        PROVE  Goal
    BY <1>0, <1>1, <1>2, NamesApart DEF Cleared
  <1>3. ASSUME UNCHANGED <<known, queue, out>> PROVE Goal
    BY <1>0, <1>1, <1>3
  <1>4. ASSUME NEW r \in Rent, ReadDeployments(r) PROVE Goal
    <2>1. {g \in Group : dep[g] \in {"running", "evicted"}} \subseteq Displaceable
      BY DEF IInv, RentedAreNoModels, Displaceable
    <2> QED
      BY <1>2, <1>4, <2>1 DEF ReadDeployments
  <1>5. ASSUME NEW r \in Rent, RentFree(r) \/ RentTight(r) \/ RefuseLate(r)
        \/ LedgerFails(r) \/ MarkEvicted(r) \/ OpenLease(r) \/ PlaceOnFreed(r)
        PROVE  Goal
    <2>1. known' = known /\ queue' = queue /\ (out' = out \/ out' = Cleared(out, r))
      BY <1>5 DEF RentFree, RentTight, RefuseLate, LedgerFails, MarkEvicted, OpenLease,
            PlaceOnFreed, rentVars
    <2> QED
      BY <1>0, <1>1, <2>1, NamesApart DEF Cleared
  <1>6. ASSUME NEW r \in Rent, RefusePlan(r) PROVE Goal
    BY <1>2, <1>6 DEF RefusePlan, Cleared
  <1>7. ASSUME NEW r \in Rent, Displace(r) PROVE Goal
    <2>1. PICK g \in Displaceable, S \in SUBSET Displaceable :
              /\ life[g] # "none" /\ \A h \in S : life[h] # "none"
              /\ life' = Stopped(life, g)
              /\ queue' = [queue EXCEPT ![r] = S]
              /\ out' = [out EXCEPT ![r] = @ \union {g}]
      BY <1>7, DisplaceStops
    <2>2. known' = [known EXCEPT ![r] = {}]
      BY <1>7 DEF Displace, Cleared
    <2>3. life'[g] \in Down /\ \A h \in S : life'[h] # "none"
      BY <2>1, NamesApart DEF IInv, RentTypeOK, Stopped, Life, Down
    <2>4. g \in Group /\ S \subseteq Group
      BY NamesApart
    <2> QED
      BY <1>0, <1>1, <2>1, <2>2, <2>3, <2>4
  <1>8. CASE Crash
    <2>1. /\ known' = [r \in Rent |-> {}] /\ queue' = [r \in Rent |-> {}]
          /\ out' = [r \in Rent |-> {}]
      BY <1>8 DEF Crash, Blank
    <2> QED
      BY <1>0, <2>1
  <1>9. ASSUME NEW d \in Drop, DropThread(d) \/ \E r \in Rent : DropBegin(d, r)
        PROVE  UNCHANGED <<known, queue, out>>
    BY <1>9 DEF DropThread, DropBegin, CloseLease, ListEvicted, Redeploy, RedeployRefused,
          Remember, Restored, StopDropped, rentVars
  <1>10. ASSUME \/ \E g \in Group : RemoveModel(g) \/ TasksEnd(g)
                \/ SweepRead \/ SweepClose \/ (\E n \in Node : Telemetry(n))
                \/ UNCHANGED rentalVars
         PROVE  UNCHANGED <<known, queue, out>>
    BY <1>10 DEF RemoveModel, TasksEnd, SweepRead, SweepClose, Telemetry, rentVars, rentalVars
  <1> QED
    BY <1>3, <1>4, <1>5, <1>6, <1>7, <1>8, <1>9, <1>10 DEF RentNext, RentThread

\* The coroutines that end a rental hold models and the names they gave them.
LEMMA DropLocals ==
    ASSUME IInv, [RentNext]_rentalVars
    PROVE  /\ drop' \in [Drop -> DropRecord]
           /\ \A d \in Drop :
                 /\ drop'[d].left \subseteq Displaceable
                 /\ drop'[d].at \in {"recording", "restored"} =>
                       drop'[d].m \in Displaceable /\ drop'[d].c \in Spare
  <1> DEFINE Held(v) ==
        /\ v \in DropRecord
        /\ v.left \subseteq Displaceable
        /\ v.at \in {"recording", "restored"} => v.m \in Displaceable /\ v.c \in Spare
  <1> DEFINE Goal ==
        /\ drop' \in [Drop -> DropRecord]
        /\ \A d \in Drop :
              /\ drop'[d].left \subseteq Displaceable
              /\ drop'[d].at \in {"recording", "restored"} =>
                    drop'[d].m \in Displaceable /\ drop'[d].c \in Spare
  <1>0. drop \in [Drop -> DropRecord] /\ \A d \in Drop : Held(drop[d])
    BY DEF IInv, RentTypeOK, HeldAreModels
  <1>1. ASSUME NEW d \in Drop, NEW v, Held(v), drop' = [drop EXCEPT ![d] = v] PROVE Goal
    BY <1>0, <1>1
  <1>2. ASSUME drop' = drop PROVE Goal
    BY <1>0, <1>2
  <1>3. Spare \subseteq Int /\ Displaceable \subseteq Group /\ Rent \subseteq Int
        /\ Displaceable \subseteq Int
    BY NamesApart DEF Displaceable, Group
  <1>4. ASSUME NEW d \in Drop, NEW r \in Rent, DropBegin(d, r) PROVE Goal
    <2> DEFINE v == [Idle EXCEPT !.at = "closing", !.of = r]
    <2>1. Idle \in DropRecord /\ Idle.left = {}
      BY DEF Idle, DropRecord, DropStep
    <2>2. Held(v)
      BY <1>3, <2>1 DEF DropRecord, DropStep
    <2>3. drop' = [drop EXCEPT ![d] = v]
      BY <1>4 DEF DropBegin
    <2> QED
      BY <1>1, <2>2, <2>3
  <1>5. ASSUME NEW d \in Drop, CloseLease(d) PROVE Goal
    <2> DEFINE v == [drop[d] EXCEPT !.at = "listing"]
    <2>1. Held(v)
      BY <1>0 DEF DropRecord, DropStep
    <2>2. drop' = [drop EXCEPT ![d] = v]
      BY <1>5 DEF CloseLease
    <2> QED
      BY <1>1, <2>1, <2>2
  <1>6. ASSUME NEW d \in Drop, ListEvicted(d) PROVE Goal
    <2> DEFINE L == {g \in Group : dep[g] = "evicted" /\ by[g] = drop[d].of}
    <2> DEFINE v == [drop[d] EXCEPT !.at = "restoring", !.left = L]
    <2>1. L \subseteq Displaceable /\ L \subseteq Group
      BY DEF IInv, RentedAreNoModels, Displaceable
    <2> HIDE DEF L
    <2>2. Held(v)
      BY <1>0, <2>1 DEF DropRecord, DropStep
    <2>3. drop' = [drop EXCEPT ![d] = v]
      BY <1>0, <1>6 DEF ListEvicted, L
    <2> QED
      BY <1>1, <2>2, <2>3
  <1>7. ASSUME NEW d \in Drop, Redeploy(d) PROVE Goal
    <2>1. PICK m \in drop[d].left, c \in Spare :
              drop' = [drop EXCEPT ![d].at = "recording", ![d].m = m, ![d].c = c]
      BY <1>7 DEF Redeploy
    <2> DEFINE v == [drop[d] EXCEPT !.at = "recording", !.m = m, !.c = c]
    <2>2. m \in Displaceable
      BY <1>0, <2>1
    <2>3. Held(v)
      BY <1>0, <1>3, <2>2 DEF DropRecord, DropStep
    <2>4. drop' = [drop EXCEPT ![d] = v]
      BY <1>0, <2>1
    <2> QED
      BY <1>1, <2>3, <2>4
  <1>8. ASSUME NEW d \in Drop, RedeployRefused(d) PROVE Goal
    <2>1. drop[d].at = "restoring" /\ \E m \in drop[d].left : drop' = [drop EXCEPT ![d].left = @ \ {m}]
      BY <1>8 DEF RedeployRefused
    <2>2. PICK m \in drop[d].left : drop' = [drop EXCEPT ![d].left = @ \ {m}]
      BY <2>1
    <2> DEFINE v == [drop[d] EXCEPT !.left = @ \ {m}]
    <2>3. Held(v)
      BY <1>0, <2>1 DEF DropRecord, DropStep
    <2>4. drop' = [drop EXCEPT ![d] = v]
      BY <2>2
    <2> QED
      BY <1>1, <2>3, <2>4
  <1>9. ASSUME NEW d \in Drop, Remember(d) PROVE Goal
    <2> DEFINE v == [drop[d] EXCEPT !.at = "restored"]
    <2>1. Held(v)
      BY <1>0, <1>9 DEF DropRecord, DropStep, Remember
    <2>2. drop' = [drop EXCEPT ![d] = v]
      BY <1>9 DEF Remember
    <2> QED
      BY <1>1, <2>1, <2>2
  <1>10. ASSUME NEW d \in Drop, Restored(d) PROVE Goal
    <2> DEFINE L == drop[d].left \ {drop[d].m}
    <2> DEFINE v == [Idle EXCEPT !.at = "restoring", !.of = drop[d].of, !.left = L]
    <2>1. drop[d].of \in Int /\ L \subseteq Displaceable /\ L \subseteq Group
      BY <1>0, <1>3 DEF DropRecord
    <2>2. drop' = [drop EXCEPT ![d] = v]
      BY <1>10 DEF Restored, NextToRestore
    <2>3. Idle \in DropRecord
      BY DEF Idle, DropRecord, DropStep
    <2> HIDE DEF L
    <2>4. v \in DropRecord /\ v.left = L /\ v.at = "restoring"
      BY <2>1, <2>3 DEF DropRecord, DropStep
    <2> QED
      BY <1>1, <2>1, <2>2, <2>4
  <1>11. ASSUME NEW d \in Drop, StopDropped(d) PROVE Goal
    <2> DEFINE v == [drop[d] EXCEPT !.at = "done"]
    <2>1. Held(v)
      BY <1>0 DEF DropRecord, DropStep
    <2>2. drop' = [drop EXCEPT ![d] = v]
      BY <1>11 DEF StopDropped
    <2> QED
      BY <1>1, <2>1, <2>2
  <1>12. CASE Crash
    <2> DEFINE v == [Idle EXCEPT !.at = "lost"]
    <2>1. Held(v)
      BY <1>3 DEF Idle, DropRecord, DropStep
    <2> HIDE DEF v
    <2>2. drop' = [d \in Drop |-> IF drop[d].at \in {"idle", "done"} THEN drop[d] ELSE v]
      BY <1>12 DEF Crash, v
    <2>3. \A d \in Drop : Held(drop'[d])
      BY <1>0, <2>1, <2>2
    <2> QED
      BY <2>2, <2>3
  <1>13. ASSUME NEW r \in Rent, RentFree(r) \/ RentTight(r) \/ RentThread(r) PROVE drop' = drop
    BY <1>13 DEF RentThread, RentFree, RentTight, ReadDeployments, RefusePlan, Displace,
          PlaceOnFreed, RefuseLate, OpenLease, LedgerFails, MarkEvicted
  <1>14. ASSUME \/ \E g \in Group : RemoveModel(g) \/ TasksEnd(g)
                \/ SweepRead \/ SweepClose \/ (\E n \in Node : Telemetry(n)) \/ UNCHANGED rentalVars
         PROVE  drop' = drop
    BY <1>14 DEF RemoveModel, TasksEnd, SweepRead, SweepClose, Telemetry, rentalVars
  <1> QED
    BY <1>2, <1>4, <1>5, <1>6, <1>7, <1>8, <1>9, <1>10, <1>11, <1>12, <1>13,
          <1>14 DEF RentNext, DropThread

-----------------------------------------------------------------------------

LEMMA InitIInv == RentInit => IInv
  <1> SUFFICES ASSUME RentInit PROVE IInv
    OBVIOUS
  <1> USE DEF RentInit
  <1>1. RentTypeOK
    <2>1. Idle \in DropRecord
      BY DEF Idle, DropRecord, DropStep
    <2> QED
      BY <2>1 DEF RentTypeOK, Life, Status, Blank
  <1>2. RentedAreNoModels
    BY NamesApart DEF RentedAreNoModels, Displaceable
  <1>3. HeldAreModels
    BY DEF HeldAreModels, Blank, Idle
  <1>4. EvictedIsDown
    BY DEF EvictedIsDown
  <1>5. RentedNeverYields
    BY NamesApart DEF RentedNeverYields, Displaceable
  <1> QED
    BY <1>1, <1>2, <1>3, <1>4, <1>5 DEF IInv

LEMMA StepIInv == IInv /\ [RentNext]_rentalVars => IInv'
  <1> SUFFICES ASSUME IInv, [RentNext]_rentalVars PROVE IInv'
    OBVIOUS
  <1>1. RentTypeOK'
    BY LifeSteps, TableSteps, RentLocals, DropLocals DEF RentTypeOK
  <1>2. RentedAreNoModels'
    BY TableSteps
  <1>3. HeldAreModels'
    BY RentLocals, DropLocals DEF HeldAreModels
  <1>4. EvictedIsDown'
    <2> SUFFICES ASSUME NEW g \in Group, dep'[g] = "evicted" PROVE life'[g] \in Down
      BY DEF EvictedIsDown, Down
    <2>1. dep[g] = "evicted" \/ \E r \in Rent : g \in out[r]
      BY TableSteps
    <2>2. g \in Displaceable /\ life[g] \in Down
      BY <2>1 DEF IInv, EvictedIsDown, HeldAreModels, RentedAreNoModels, Displaceable, Down
    <2> QED
      BY <2>2, LifeSteps
  <1>5. RentedNeverYields'
    <2> SUFFICES ASSUME NEW r \in Rent, life'[r] = "stopping"
                 PROVE  \E d \in Drop : drop'[d].at = "done" /\ drop'[d].of = r
      BY DEF RentedNeverYields
    <2>1. CASE life[r] = "stopping"
      <3>1. PICK d \in Drop : drop[d].at = "done" /\ drop[d].of = r
        BY <2>1 DEF IInv, RentedNeverYields
      <3>2. drop'[d] = drop[d]
        BY <3>1, DoneStays
      <3> QED
        BY <3>1, <3>2
    <2>2. CASE life[r] # "stopping"
      BY <2>2, LifeSteps
    <2> QED
      BY <2>1, <2>2
  <1> QED
    BY <1>1, <1>2, <1>3, <1>4, <1>5 DEF IInv

LEMMA Inductive == RentSpec => []IInv
  BY InitIInv, StepIInv, PTL DEF RentSpec

\* A rented cluster never yields to another rental, however many rentals, drops
\* and crashes interleave: only a drop of its own stops it (preemption.py:118,
\* standing_from; app.py, _evict and drop_cluster).
THEOREM RentedNeverYieldsHolds == RentSpec => []RentedNeverYields
  <1>1. IInv => RentedNeverYields
    BY DEF IInv
  <1> QED
    BY <1>1, Inductive, PTL

\* What the table of deployments calls evicted has been told to stop, so that
\* putting it back never makes two of it (app.py, _evict and _restore).
THEOREM EvictedIsDownHolds == RentSpec => []EvictedIsDown
  <1>1. IInv => EvictedIsDown
    BY DEF IInv
  <1> QED
    BY <1>1, Inductive, PTL


(* ------------------------------------------------------------------ bills -- *)
(* A row is written at its opening and closed after it, and no later than now. *)
EntryOK(g) ==
    /\ entry[g] \in [state : {"none", "open", "released", "vanished"}, opened : Nat, closed : Nat, per_hour : Nat]
    /\ entry[g].opened <= clock
    /\ entry[g].state \in {"released", "vanished"} => entry[g].opened <= entry[g].closed /\ entry[g].closed <= clock
    /\ entry[g].state # "none" => asked[g] = -1 /\ group[g] # "none"
BillInv ==
    /\ clock \in Nat
    /\ tariff \in [Resource -> Nat \union {-1}]
    /\ group \in [Bill -> {"none", "live", "over"}]
    /\ asked \in [Bill -> Nat \union {-1}]
    /\ \A g \in Bill : asked[g] # -1 => group[g] # "none"
    /\ entry = [g \in Bill |-> entry[g]]
    /\ \A g \in Bill : EntryOK(g)
    /\ \A a \in answers : a.at \in Nat /\ a.at <= clock

LEMMA ShareGrows ==
    ASSUME NEW a \in Nat, NEW b \in Nat, a <= b
    PROVE  a \div TicksPerHour \in Nat /\ a \div TicksPerHour <= b \div TicksPerHour
  <1>1. TicksPerHour \in Nat /\ TicksPerHour > 0
    BY MoneyAssumption
  <1> DEFINE p == a \div TicksPerHour
             q == b \div TicksPerHour
  <1>2. p \in Nat /\ q \in Nat /\ p * TicksPerHour <= a /\ b < (q + 1) * TicksPerHour
    BY <1>1, SMTT(20)
  <1> HIDE DEF p, q
  <1>3. p * TicksPerHour < (q + 1) * TicksPerHour
    <2>1. p * TicksPerHour \in Nat /\ (q + 1) * TicksPerHour \in Nat
      BY <1>1, <1>2
    <2> QED
      BY <1>2, <2>1
  <1>4. p < q + 1
    BY <1>1, <1>2, <1>3, SMTT(20)
  <1> QED
    BY <1>2, <1>4 DEF p, q

LEMMA CostGrows ==
    ASSUME NEW h \in Nat, NEW d \in Nat, NEW m \in Int, NEW n \in Int, m <= n
    PROVE  CostOf(h, d, m) <= CostOf(h, d, n)
  <1>0. TicksPerHour \in Nat /\ TicksPerHour > 0
    BY MoneyAssumption
  <1>1. CASE h = 0 \/ d = 0 \/ n <= 0
    BY <1>1 DEF CostOf
  <1>2. CASE h > 0 /\ d > 0 /\ n > 0
    <2> PICK w \in Nat : w = h * d
      OBVIOUS
    <2>1. w * n \in Nat /\ (h * d) * n = w * n /\ (h * d) * m = w * m
      BY <1>2
    <2> DEFINE top == w * n + TicksPerHour - 1
    <2>2. top \in Nat /\ CostOf(h, d, n) = top \div TicksPerHour
      BY <1>0, <1>2, <2>1 DEF CostOf
    <2>3. CASE m <= 0
      <3>1. CostOf(h, d, m) = 0
        BY <2>3 DEF CostOf
      <3>2. top \div TicksPerHour \in Nat
        BY <2>2, ShareGrows
      <3> QED
        BY <2>2, <3>1, <3>2
    <2>4. CASE m > 0
      <3> DEFINE low == w * m + TicksPerHour - 1
      <3>1. w * m \in Nat /\ w * m <= w * n
        BY <2>4, SMTT(20)
      <3>2. low \in Nat /\ low <= top /\ CostOf(h, d, m) = low \div TicksPerHour
        BY <1>0, <1>2, <2>1, <2>4, <3>1 DEF CostOf
      <3> HIDE DEF low, top
      <3> QED
        BY <2>2, <3>2, ShareGrows
    <2> QED
      BY <2>3, <2>4
  <1> QED
    BY <1>1, <1>2

LEMMA BillStart == BillInit => BillInv
  BY DEF BillInit, BillInv, EntryOK, NoEntry, Resource

(* What closing does to a row.                                                *)
LEMMA ClosedRow ==
    ASSUME BillInv, NEW S, NEW why \in {"released", "vanished"}, Closes(S, why), clock' = clock,
           NEW g \in Bill
    PROVE  /\ entry'[g] = (IF g \in S /\ entry[g].state = "open"
                           THEN [state |-> why, opened |-> entry[g].opened, closed |-> clock,
                                 per_hour |-> entry[g].per_hour]
                           ELSE entry[g])
           /\ entry' = [x \in Bill |-> entry'[x]]
  <1>1. entry[g] \in [state : {"none", "open", "released", "vanished"}, opened : Nat, closed : Nat, per_hour : Nat]
    BY DEF BillInv, EntryOK
  <1>2. /\ entry' = [x \in Bill |-> entry'[x]]
        /\ entry'[g] = (IF g \in S /\ entry[g].state = "open"
                        THEN [entry[g] EXCEPT !.state = why, !.closed = clock] ELSE entry[g])
    BY DEF Closes
  <1>3. ASSUME NEW e, e \in [state : {"none", "open", "released", "vanished"}, opened : Nat, closed : Nat, per_hour : Nat]
        PROVE  [e EXCEPT !.state = why, !.closed = clock]
               = [state |-> why, opened |-> e.opened, closed |-> clock, per_hour |-> e.per_hour]
    <2>1. e = [state |-> e.state, opened |-> e.opened, closed |-> e.closed, per_hour |-> e.per_hour]
      BY <1>3
    <2> PICK a, b, c, d : a = e.state /\ b = e.opened /\ c = e.closed /\ d = e.per_hour
      OBVIOUS
    <2>2. e = [state |-> a, opened |-> b, closed |-> c, per_hour |-> d]
      BY <2>1
    <2> PICK f : f = [e EXCEPT !.state = why]
      OBVIOUS
    <2>3. f = [state |-> why, opened |-> b, closed |-> c, per_hour |-> d]
      BY <2>2
    <2>4. [[state |-> why, opened |-> b, closed |-> c, per_hour |-> d] EXCEPT !.closed = clock]
          = [state |-> why, opened |-> b, closed |-> clock, per_hour |-> d]
      OBVIOUS
    <2>7. [f EXCEPT !.closed = clock]
          = [[state |-> why, opened |-> b, closed |-> c, per_hour |-> d] EXCEPT !.closed = clock]
      BY <2>3, Zenon
    <2>5. [e EXCEPT !.state = why, !.closed = clock] = [[e EXCEPT !.state = why] EXCEPT !.closed = clock]
      BY Zenon
    <2>6. [e EXCEPT !.state = why, !.closed = clock] = [f EXCEPT !.closed = clock]
      BY <2>5, Zenon
    <2> QED
      BY <2>4, <2>6, <2>7
  <1> QED
    BY <1>1, <1>2, <1>3

(* The rows after a step: as they were, closed now, or a first one opened now. *)
RowSteps(g) ==
    \/ entry'[g] = entry[g]
    \/ /\ entry[g].state = "open" /\ clock' = clock
       /\ \E why \in {"released", "vanished"} :
             entry'[g] = [state |-> why, opened |-> entry[g].opened, closed |-> clock, per_hour |-> entry[g].per_hour]
    \/ /\ entry[g].state = "none" /\ asked[g] >= 0 /\ clock' = clock
       /\ entry'[g] = [state |-> "open", opened |-> clock, closed |-> 0, per_hour |-> asked[g]]

LEMMA RowsStep ==
    ASSUME BillInv, [BillNext]_billVars
    PROVE  /\ \A g \in Bill : RowSteps(g)
           /\ entry' = [g \in Bill |-> entry'[g]]
           /\ clock' \in Nat /\ clock <= clock'
           /\ answers' = answers \/ \E p : answers' = answers \union {[at |-> clock, cost |-> p]}
  <1>1. CASE Tick
    BY <1>1 DEF Tick, BillInv, RowSteps
  <1>2. CASE LookLive
    BY <1>2 DEF LookLive, BillInv, RowSteps
  <1>3. CASE CloseUnseen
    <2>1. Closes(Bill \ known_live[1], "vanished") /\ clock' = clock /\ answers' = answers
      BY <1>3 DEF CloseUnseen
    <2>2. \A g \in Bill : RowSteps(g) /\ entry' = [x \in Bill |-> entry'[x]]
      BY <2>1, ClosedRow DEF RowSteps
    <2>3. entry' = [x \in Bill |-> entry'[x]]
      BY <2>1 DEF Closes
    <2> QED
      BY <2>1, <2>2, <2>3 DEF BillInv
  <1>4. ASSUME NEW g \in Bill, BeginUse(g) \/ GroupEnds(g)
        PROVE  clock' = clock /\ answers' = answers /\ entry' = entry
    BY <1>4 DEF BeginUse, GroupEnds
  <1>5. ASSUME NEW g \in Bill, InsertLease(g)
        PROVE  (\A x \in Bill : RowSteps(x)) /\ entry' = [x \in Bill |-> entry'[x]] /\ clock' = clock /\ answers' = answers
    <2>1. /\ asked[g] >= 0 /\ clock' = clock /\ answers' = answers
          /\ \/ entry' = [entry EXCEPT ![g] = [state |-> "open", opened |-> clock, closed |-> 0, per_hour |-> asked[g]]]
             \/ entry' = entry
      BY <1>5 DEF InsertLease
    <2>2. entry = [x \in Bill |-> entry[x]] /\ EntryOK(g)
      BY DEF BillInv
    <2>3. entry[g].state = "none"
      BY <2>1, <2>2 DEF EntryOK
    <2> QED
      BY <2>1, <2>2, <2>3 DEF RowSteps
  <1>6. ASSUME NEW g \in Bill, ReleaseLease(g)
        PROVE  (\A x \in Bill : RowSteps(x)) /\ entry' = [x \in Bill |-> entry'[x]] /\ clock' = clock /\ answers' = answers
    <2>1. Closes({g}, "released") /\ clock' = clock /\ answers' = answers
      BY <1>6 DEF ReleaseLease
    <2>2. \A x \in Bill : RowSteps(x)
      BY <2>1, ClosedRow DEF RowSteps
    <2>3. entry' = [x \in Bill |-> entry'[x]]
      BY <2>1 DEF Closes
    <2> QED
      BY <2>1, <2>2, <2>3
  <1>7. ASSUME NEW p \in Prices, CountAnswer(p)
        PROVE  entry' = entry /\ clock' = clock /\ answers' = answers \union {[at |-> clock, cost |-> p]}
    BY <1>7 DEF CountAnswer
  <1>8. ASSUME NEW p \in Prices, NEW r \in Resource, SetRate(r, p)
        PROVE  entry' = entry /\ clock' = clock /\ answers' = answers
    BY <1>8 DEF SetRate
  <1>9. CASE UNCHANGED billVars
    BY <1>9 DEF billVars, BillInv, RowSteps
  <1>10. entry' = entry => \A g \in Bill : RowSteps(g)
    BY DEF RowSteps
  <1>11. clock \in Nat /\ entry = [g \in Bill |-> entry[g]]
    BY DEF BillInv
  <1> QED
    <2>1. CASE \E g \in Bill : BeginUse(g) \/ InsertLease(g) \/ ReleaseLease(g) \/ GroupEnds(g)
      BY <1>4, <1>5, <1>6, <1>10, <1>11, <2>1
    <2>2. CASE \E p \in Prices : CountAnswer(p) \/ \E r \in Resource : SetRate(r, p)
      BY <1>7, <1>8, <1>10, <1>11, <2>2
    <2> QED
      BY <1>1, <1>2, <1>3, <1>9, <2>1, <2>2 DEF BillNext

(* A rate is asked for once, and what was asked for is used once.             *)
AskStep ==
    /\ tariff' \in [Resource -> Nat \union {-1}] /\ group' \in [Bill -> {"none", "live", "over"}]
    /\ asked' \in [Bill -> Nat \union {-1}]
    /\ \A g \in Bill :
          /\ group[g] # "none" => group'[g] # "none"
          /\ asked'[g] # asked[g] => group'[g] # "none" /\ (group[g] = "none" \/ asked'[g] = -1)
          /\ entry'[g].state # "none" /\ entry[g].state = "none" => asked'[g] = -1 /\ asked[g] # -1

LEMMA BillInvStep == BillInv /\ [BillNext]_billVars => BillInv'
  <1> SUFFICES ASSUME BillInv, [BillNext]_billVars PROVE BillInv'
    OBVIOUS
  <1>1. /\ \A g \in Bill : RowSteps(g)
        /\ entry' = [g \in Bill |-> entry'[g]]
        /\ clock' \in Nat /\ clock <= clock'
        /\ answers' = answers \/ \E p : answers' = answers \union {[at |-> clock, cost |-> p]}
    BY RowsStep
  <1>2. /\ clock \in Nat /\ tariff \in [Resource -> Nat \union {-1}] /\ group \in [Bill -> {"none", "live", "over"}]
        /\ asked \in [Bill -> Nat \union {-1}] /\ (\A g \in Bill : asked[g] # -1 => group[g] # "none")
        /\ (\A g \in Bill : EntryOK(g)) /\ \A a \in answers : a.at \in Nat /\ a.at <= clock
    BY DEF BillInv
  <1>3. \A a \in answers' : a.at \in Nat /\ a.at <= clock'
    BY <1>1, <1>2
  (* a question for a rate comes once, and its answer closes it *)
  <1>4. AskStep
    <2>1. CASE Tick \/ LookLive
      BY <1>2, <2>1 DEF AskStep, Tick, LookLive
    <2>2. CASE UNCHANGED billVars
      BY <1>2, <2>2 DEF AskStep, billVars
    <2>3. CASE CloseUnseen
      <3>1. \A g \in Bill : entry'[g].state # "none" => entry[g].state # "none"
        BY <2>3, ClosedRow DEF CloseUnseen
      <3> QED
        BY <1>2, <2>3, <3>1 DEF AskStep, CloseUnseen
    <2>4. ASSUME NEW g \in Bill, ReleaseLease(g) PROVE AskStep
      <3>1. \A x \in Bill : entry'[x].state # "none" => entry[x].state # "none"
        BY <2>4, ClosedRow DEF ReleaseLease
      <3> QED
        BY <1>2, <2>4, <3>1 DEF AskStep, ReleaseLease
    <2>5. ASSUME NEW g \in Bill, GroupEnds(g) PROVE AskStep
      BY <1>2, <2>5 DEF AskStep, GroupEnds
    <2>6. ASSUME NEW g \in Bill, BeginUse(g) PROVE AskStep
      <3>1. RateNow(Product(g)) \in Nat
        BY <1>2 DEF RateNow, Product, Resource
      <3> QED
        BY <1>2, <2>6, <3>1 DEF AskStep, BeginUse
    <2>7. ASSUME NEW g \in Bill, InsertLease(g) PROVE AskStep
      <3>1. asked[g] >= 0 /\ asked' = [asked EXCEPT ![g] = -1] /\ UNCHANGED <<tariff, group>>
        BY <2>7 DEF InsertLease
      <3>2. \A x \in Bill : x # g => entry'[x] = entry[x]
        BY <2>7 DEF InsertLease, BillInv
      <3>3. asked[g] # -1 /\ group[g] # "none"
        BY <1>2, <3>1 DEF AskStep
      <3> QED
        BY <1>2, <3>1, <3>2, <3>3 DEF AskStep
    <2>8. ASSUME NEW p \in Prices, CountAnswer(p) PROVE AskStep
      BY <1>2, <2>8 DEF AskStep, CountAnswer
    <2>9. ASSUME NEW p \in Prices, NEW r \in Resource, SetRate(r, p) PROVE AskStep
      BY <1>2, <2>9, MoneyAssumption DEF AskStep, SetRate
    <2> QED
      BY <2>1, <2>2, <2>3, <2>4, <2>5, <2>6, <2>7, <2>8, <2>9 DEF BillNext
  <1>5. ASSUME NEW g \in Bill PROVE EntryOK(g)'
    <2>1. EntryOK(g) /\ RowSteps(g)
      BY <1>1, <1>2
    <2>2. /\ entry'[g] \in [state : {"none", "open", "released", "vanished"}, opened : Nat, closed : Nat, per_hour : Nat]
          /\ entry'[g].opened <= clock'
          /\ entry'[g].state \in {"released", "vanished"} => entry'[g].opened <= entry'[g].closed /\ entry'[g].closed <= clock'
      BY <1>1, <1>2, <2>1 DEF EntryOK, RowSteps
    <2>3. entry'[g].state # "none" => asked'[g] = -1 /\ group'[g] # "none"
      <3>1. CASE entry[g].state = "none"
        BY <1>2, <1>4, <3>1 DEF AskStep
      <3>2. CASE entry[g].state # "none"
        BY <1>2, <1>4, <2>1, <3>2 DEF EntryOK, AskStep
      <3> QED
        BY <3>1, <3>2
    <2> QED
      BY <2>2, <2>3 DEF EntryOK
  <1>6. \A g \in Bill : asked'[g] # -1 => group'[g] # "none"
    BY <1>2, <1>4 DEF AskStep
  <1> QED
    BY <1>1, <1>3, <1>4, <1>5, <1>6 DEF BillInv, AskStep

(* Whatever rates, devices and groups there are, and in whatever order leases *)
(* are opened, closed, swept and closed again: what a lease has cost never    *)
(* falls, a closed one's does not change, and a report on a past whose leases *)
(* are closed stays as it is.                                                 *)
THEOREM BillsAreFinalHolds == BillSpec => BillsAreFinal
  <1>1. BillSpec => []BillInv
    BY BillStart, BillInvStep, PTL DEF BillSpec
  <1>2. ASSUME BillInv, [BillNext]_billVars
        PROVE  /\ \A g \in Bill : entry[g].state # "none" =>
                     /\ Owed(g)' >= Owed(g)
                     /\ entry[g].state # "open" => Owed(g)' = Owed(g)
               /\ \A t \in 0 .. clock :
                     (\A g \in Bill : entry[g].state = "open" => ~InPeriod(entry[g].opened, 0, t))
                     => Total(0, t)' = Total(0, t)
    <2>1. /\ \A g \in Bill : RowSteps(g) /\ EntryOK(g) /\ Devices[g] \in Nat
          /\ clock \in Nat /\ clock' \in Nat /\ clock <= clock'
          /\ answers' = answers \/ \E p : answers' = answers \union {[at |-> clock, cost |-> p]}
      BY <1>2, RowsStep, BillAssumption DEF BillInv
    <2>2. ASSUME NEW g \in Bill, entry[g].state # "none"
          PROVE  /\ entry'[g].opened = entry[g].opened /\ entry'[g].per_hour = entry[g].per_hour
                 /\ EndOf(entry[g]) \in Int /\ EndOf(entry[g])' \in Int /\ EndOf(entry[g])' >= EndOf(entry[g])
                 /\ entry[g].state # "open" => entry'[g] = entry[g] /\ EndOf(entry[g])' = EndOf(entry[g])
                 /\ entry'[g].state # "none"
      <3>1. /\ entry[g] \in [state : {"none", "open", "released", "vanished"}, opened : Nat, closed : Nat, per_hour : Nat]
            /\ entry[g].opened <= clock
            /\ entry[g].state # "open" => entry[g].closed <= clock
        BY <2>1, <2>2 DEF EntryOK
      <3>2. CASE entry'[g] = entry[g]
        BY <2>1, <2>2, <3>1, <3>2 DEF EndOf
      <3>3. CASE entry'[g] # entry[g]
        <4>1. PICK why \in {"released", "vanished"} :
                 /\ entry[g].state = "open" /\ clock' = clock
                 /\ entry'[g] = [state |-> why, opened |-> entry[g].opened, closed |-> clock, per_hour |-> entry[g].per_hour]
          BY <2>1, <2>2, <3>3 DEF RowSteps
        <4>2. /\ entry'[g].state = why /\ entry'[g].opened = entry[g].opened /\ entry'[g].closed = clock
              /\ entry'[g].per_hour = entry[g].per_hour
          BY <4>1
        <4>3. EndOf(entry[g]) = clock /\ EndOf(entry[g])' = clock
          BY <4>1, <4>2 DEF EndOf
        <4> QED
          BY <2>1, <4>1, <4>2, <4>3
      <3> QED
        BY <3>2, <3>3
    <2>3. ASSUME NEW g \in Bill, entry[g].state # "none"
          PROVE  /\ Owed(g)' >= Owed(g)
                 /\ entry[g].state # "open" => Owed(g)' = Owed(g)
      <3> PICK o, h, m, n : /\ o = entry[g].opened /\ h = entry[g].per_hour
                            /\ m = EndOf(entry[g]) - o /\ n = EndOf(entry[g])' - o
        OBVIOUS
      <3>1. h \in Nat /\ m \in Int /\ n \in Int /\ m <= n /\ (entry[g].state # "open" => m = n)
        BY <2>1, <2>2, <2>3 DEF EntryOK
      <3>2. Owed(g) = CostOf(h, Devices[g], m) /\ Owed(g)' = CostOf(h, Devices[g], n)
        BY <2>2, <2>3 DEF Owed
      <3>3. CostOf(h, Devices[g], m) <= CostOf(h, Devices[g], n)
        BY <2>1, <3>1, CostGrows
      <3> QED
        BY <3>1, <3>2, <3>3
    <2>4. ASSUME NEW t \in 0 .. clock,
                 \A g \in Bill : entry[g].state = "open" => ~InPeriod(entry[g].opened, 0, t)
          PROVE  Total(0, t)' = Total(0, t)
      <3> DEFINE leases == {g \in Bill : entry[g].state # "none" /\ InPeriod(entry[g].opened, 0, t)}
                 said == {a \in answers : InPeriod(a.at, 0, t)}
      <3>1. ASSUME NEW g \in Bill PROVE g \in leases' <=> g \in leases
        <4>1. CASE entry[g].state # "none"
          BY <2>2, <4>1
        <4>2. CASE entry[g].state = "none"
          <5>1. entry'[g].state = "none" \/ entry'[g].opened = clock
            <6>1. RowSteps(g)
              BY <2>1
            <6>2. CASE entry'[g] = entry[g]
              BY <4>2, <6>2
            <6>3. CASE entry'[g] = [state |-> "open", opened |-> clock, closed |-> 0, per_hour |-> asked[g]]
              BY <6>3
            <6> QED
              BY <4>2, <6>1, <6>2, <6>3 DEF RowSteps
          <5>2. ~InPeriod(clock, 0, t)
            BY <2>1, <2>4 DEF InPeriod
          <5> QED
            BY <4>2, <5>1, <5>2
        <4> QED
          BY <4>1, <4>2
      <3>2. leases' = leases
        BY <3>1
      <3>3. said' = said
        BY <2>1 DEF InPeriod
      <3>4. \A g \in leases : Owed(g)' = Owed(g)
        BY <2>3, <2>4
      <3>5. Total(0, t) = SumOver([g \in leases |-> Owed(g)]) + SumOver([a \in said |-> a.cost])
        BY DEF Total
      <3>6. Total(0, t)' = SumOver([g \in leases' |-> Owed(g)']) + SumOver([a \in said' |-> a.cost])
        BY DEF Total
      <3> HIDE DEF leases, said
      <3>7. [g \in leases' |-> Owed(g)'] = [g \in leases |-> Owed(g)]
        BY <3>2, <3>4
      <3> QED
        BY <3>3, <3>5, <3>6, <3>7
    <2> QED
      BY <2>3, <2>4
  <1> QED
    BY <1>1, <1>2, PTL DEF BillSpec, BillsAreFinal
=============================================================================
