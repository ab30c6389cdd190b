-------------------------------- MODULE Ports --------------------------------
(* Who listens on which port in a cluster (looma_ray/ports.py): nobody asks   *)
(* for a port, every rank computes them all.  A group takes the window its    *)
(* name hashes to, a rank its stride of the window, and Ray, its workers and  *)
(* the client their parts of the stride.                                      *)
EXTENDS Integers, FiniteSets

CONSTANTS Base, Stride, WindowEnd,  \* of the windows; LOOMA_RAY_PORT_*
          FirstWorker,              \* offset of the first worker port
          ClientPorts,              \* ports at the end of a stride that are the client's
          RayFirst, RayLast,        \* taken by Ray itself for the servers of its clients
          MaxSize, MaxHash          \* bounds on the groups looked at

ASSUME PortsAssumption ==
    /\ Base \in Nat /\ Stride \in Nat \ {0} /\ WindowEnd \in Nat /\ FirstWorker \in Nat \ {0}
    /\ ClientPorts \in Nat /\ RayFirst \in Nat /\ RayLast \in Nat
    /\ Stride > FirstWorker + ClientPorts     \* PortsRefused
    /\ FirstWorker >= 8                       \* the eight service ports
    /\ MaxSize \in Nat /\ MaxHash \in Nat

VARIABLES size, hash     \* of a group: its ranks, what its name hashes to
portVars == <<size, hash>>

Larger(a, b) == IF a > b THEN a ELSE b
Width(s) == Larger(1, s) * Stride
Slots(s) == IF WindowEnd > Base THEN Larger(1, (WindowEnd - Base) \div Width(s)) ELSE 1

(* _touches_ray, and a form that looks at the start alone                     *)
TouchesRay_Start(start, width) == start >= RayFirst /\ start < RayLast
TouchesRay(start, width) == start < RayLast /\ start + width > RayFirst

(* group_base: the slots that keep away from Ray's range, in their order; the *)
(* hash picks one.  Without any, the first window is all there is             *)
Good(s) == {n \in 0 .. Slots(s) - 1 : ~TouchesRay(Base + n * Width(s), Width(s))}
Nth(S, i) == CHOOSE n \in S : Cardinality({k \in S : k < n}) = i
GroupBase(s, h) ==
    IF Slots(s) <= 1 \/ Good(s) = {} THEN Base
    ELSE Base + Nth(Good(s), h % Cardinality(Good(s))) * Width(s)

(* ports_for: what a rank's components listen on, by offset in its stride     *)
Begins(base, rank) == base + rank * Stride
Service(base, rank) == Begins(base, rank) .. Begins(base, rank) + 7
Essential(base, rank) == Begins(base, rank) .. Begins(base, rank) + 2
Workers(base, rank) ==
    Begins(base, rank) + FirstWorker .. Begins(base, rank) + Stride - 1 - ClientPorts
Client(base, rank) ==
    Begins(base, rank) + Stride - ClientPorts .. Begins(base, rank) + Stride - 1
Crossing(base, rank) == Essential(base, rank) \union Workers(base, rank) \union Client(base, rank)
OwnPorts(base, rank) == Service(base, rank) \union Workers(base, rank) \union Client(base, rank)

PortsInit == size \in 1 .. MaxSize /\ hash \in 0 .. MaxHash
PortsNext == size' \in 1 .. MaxSize /\ hash' \in 0 .. MaxHash
PortsSpec == PortsInit /\ [][PortsNext]_portVars
----------------------------------------------------------------------------
(* Ports that are computed and never asked for still collide with nobody: the *)
(* ranks of a group share none, a rank's workers, services and client share   *)
(* none, the whole window lies between the bounds, and where any window can   *)
(* keep out of the range Ray takes by itself, the group's does.               *)
RanksApart(base) ==
    \A r, k \in 0 .. size - 1 : r # k => OwnPorts(base, r) \intersect OwnPorts(base, k) = {}
PartsApart(base) ==
    \A r \in 0 .. size - 1 : /\ Workers(base, r) \intersect Client(base, r) = {}
                             /\ Service(base, r) \intersect Crossing(base, r) = Essential(base, r)
OutOfRay(base) ==
    Slots(size) > 1 /\ Good(size) # {} =>
        \A r \in 0 .. size - 1 : /\ OwnPorts(base, r) \intersect (RayFirst .. RayLast - 1) = {}
                                 /\ OwnPorts(base, r) \subseteq Base .. WindowEnd - 1
NobodyCollides ==
    LET base == GroupBase(size, hash) IN RanksApart(base) /\ PartsApart(base) /\ OutOfRay(base)
=============================================================================
