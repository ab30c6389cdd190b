------------------------------ MODULE MCControl ------------------------------
(* The orchestrator's bookkeeping in one run: of a node's tasks, of rentals   *)
(* and what they displace, of money.  The three do not touch each other's     *)
(* state: `part` says which of them a behaviour is about.                     *)
EXTENDS HubTasks, Rental, Billing

OneNode == {1}
TwoNodes == {1, 2}
OneModel == {1}
TwoModels == {1, 2}
OneRent == {11}
TwoRents == {11, 12}
OneSpare == {21}
FirstModel == {1}
OnOwnNode == [m \in Model |-> {m}]
Sizes == [r \in Rent |-> IF r = 11 THEN 1 ELSE 2]
OfOne == [r \in Rent |-> 1]
OfTwo == [r \in Rent |-> 2]
TwoCards == [g \in Bill |-> 2]

CONSTANT Parts  \* those of "hub", "rental", "billing" a run is about
ASSUME PartsAssumption == Parts \subseteq {"hub", "rental", "billing"}
VARIABLE part
vars == <<part, taskVars, rentalVars, billVars>>

Others(p) ==
    /\ UNCHANGED part
    /\ (p # "hub" => UNCHANGED taskVars) /\ (p # "rental" => UNCHANGED rentalVars)
    /\ (p # "billing" => UNCHANGED billVars)

Init == part \in Parts /\ HubInit /\ RentInit /\ BillInit

HubStep == part = "hub" /\ HubNext /\ Others("hub")
RentalStep == part = "rental" /\ RentNext /\ Others("rental")
BillingStep == part = "billing" /\ BillNext /\ Others("billing")

Next == HubStep \/ RentalStep \/ BillingStep
Spec == Init /\ [][Next]_vars

-----------------------------------------------------------------------------
(* HubTasks' fairness and Rental's, of a behaviour about that part. *)

InHub(A) == part = "hub" /\ A /\ Others("hub")
InRental(A) == part = "rental" /\ A /\ Others("rental")

Fairness ==
    /\ \A t \in Task :
          /\ SF_taskVars(InHub(GraceEnds(t))) /\ WF_taskVars(InHub(WindowLapses(t)))
          /\ WF_taskVars(InHub(TaskThread(t)))
          /\ WF_taskVars(InHub(NodeStop(t) \/ NodeRelease(t)))
    /\ WF_taskVars(InHub(HubReceive)) /\ WF_taskVars(InHub(NodeReceive))
    /\ WF_taskVars(InHub(Connect \/ HubRestore))
    /\ WF_taskVars(InHub(ListTasks \/ SendReport))
    /\ \A r \in Rent : WF_rentalVars(InRental(RentThread(r)))
    /\ \A d \in Drop : WF_rentalVars(InRental(DropThread(d)))
    /\ WF_rentalVars(InRental(SweepRead)) /\ WF_rentalVars(InRental(SweepClose))
    /\ \A n \in Node : WF_rentalVars(InRental(Telemetry(n)))
    /\ \A g \in Group : WF_rentalVars(InRental(life[g] = "stopping" /\ TasksEnd(g)))

FairSpec == Spec /\ Fairness
=============================================================================
