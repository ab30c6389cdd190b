------------------------------ MODULE EnvCache ------------------------------
(* The environment cache of looma_agent/tasks/env/cache.py: directories on a  *)
(* volume, each built once under a temporary name and renamed into place,     *)
(* leased while a task uses it, evicted down to a quota.  The volume may be   *)
(* shared by several agents of one machine: the lock file is seen by all of   *)
(* them, the leases and the thread locks only by the agent that keeps them.   *)
(*                                                                            *)
(* A directory is "whole" (its marker is written last, before the rename),    *)
(* "torn" (rmtree has begun, the marker is still there), "bare" (the marker   *)
(* is gone, files remain) or "none".  Every environment counts one unit of    *)
(* the quota.                                                                 *)
EXTENDS Naturals, FiniteSets, Sequences

CONSTANTS Agent, Caller, Key,
          Home,        \* Home[c]: the agent whose thread c is
          Wants,       \* Wants[c]: the environment c asks for (_key of its spec)
          NoOne,       \* the holder of a lock nobody holds
          Quota,       \* how many environments fit; 0 switches eviction off
          MaxCrashes   \* bound on crashes of agents

ASSUME CacheAssumption == /\ Home \in [Caller -> Agent]
                          /\ Wants \in [Caller -> Key]
                          /\ NoOne \notin Caller
                          /\ Quota \in Nat
                          /\ MaxCrashes \in Nat

VARIABLES dir,      \* the directory of each environment
          order,    \* the environments present, least recently used first (mtime)
          lease,    \* _leases, per agent
          pc,       \* where each caller of acquire() is
          mutex,    \* _building: the thread lock of each agent and environment
          flock,    \* who holds .lock-<fingerprint>
          locking,  \* the agents for which flock works on this volume
          cand,     \* what is left of an evictor's list
          total,    \* an evictor's running total
          left,     \* callers whose staging directory a crash abandoned
          crashes

cacheVars == <<dir, order, lease, pc, mutex, flock, locking, cand, total, left, crashes>>

Marked == {k \in Key : dir[k] \in {"whole", "torn"}}   \* read_marker succeeds
Ready(c) == Wants[c] \in Marked
At(c, next) == pc' = [pc EXCEPT ![c] = next]
Leased(a) == {k \in Key : lease[a][k] > 0}
Without(k) == SelectSeq(order, LAMBDA x : x # k)
Locked == {"checking", "building", "theirs", "built"}

CacheInit ==
    /\ dir = [k \in Key |-> "none"] /\ order = <<>>
    /\ lease = [a \in Agent |-> [k \in Key |-> 0]]
    /\ pc = [c \in Caller |-> "idle"]
    /\ mutex = [a \in Agent |-> [k \in Key |-> NoOne]]
    /\ flock = [k \in Key |-> NoOne]
    /\ locking \in SUBSET Agent
    /\ cand = [c \in Caller |-> <<>>] /\ total = [c \in Caller |-> 0]
    /\ left = {} /\ crashes = 0

(* acquire: the environment is here already, or it has to be built            *)
Look(c) ==
    /\ pc[c] = "idle"
    /\ At(c, IF Ready(c) THEN "found" ELSE "waiting")
    /\ UNCHANGED <<dir, order, lease, mutex, flock, locking, cand, total, left, crashes>>

TakeLease(c) == lease' = [lease EXCEPT ![Home[c]][Wants[c]] = @ + 1]

(* _lease and _touch of what was found: nothing looks again whether it is     *)
(* still there, and a touch that fails is ignored                             *)
LeaseFound(c) ==
    /\ pc[c] = "found" /\ TakeLease(c) /\ At(c, "holding")
    /\ order' = IF Ready(c) THEN Append(Without(Wants[c]), Wants[c]) ELSE order
    /\ UNCHANGED <<dir, mutex, flock, locking, cand, total, left, crashes>>

TakeBuildLock(c) ==
    /\ pc[c] = "waiting" /\ mutex[Home[c]][Wants[c]] = NoOne
    /\ mutex' = [mutex EXCEPT ![Home[c]][Wants[c]] = c]
    /\ At(c, "locked")
    /\ UNCHANGED <<dir, order, lease, flock, locking, cand, total, left, crashes>>

TakeFileLock_Never(c) ==
    /\ pc[c] = "locked" /\ At(c, "checking")
    /\ UNCHANGED <<dir, order, lease, mutex, flock, locking, cand, total, left, crashes>>

(* _across_processes: wait for the lock file; go on without where it fails    *)
TakeFileLock(c) ==
    /\ pc[c] = "locked"
    /\ IF Home[c] \in locking
       THEN flock[Wants[c]] = NoOne /\ flock' = [flock EXCEPT ![Wants[c]] = c]
       ELSE UNCHANGED flock
    /\ At(c, "checking")
    /\ UNCHANGED <<dir, order, lease, mutex, locking, cand, total, left, crashes>>

Recheck(c) ==
    /\ pc[c] = "checking" /\ At(c, IF Ready(c) THEN "built" ELSE "building")
    /\ UNCHANGED <<dir, order, lease, mutex, flock, locking, cand, total, left, crashes>>

Unlock(c) ==
    /\ mutex' = [mutex EXCEPT ![Home[c]][Wants[c]] = NoOne]
    /\ flock' = [k \in Key |-> IF flock[k] = c THEN NoOne ELSE flock[k]]

(* the builder raised: staging is removed, both locks are left, the caller    *)
(* is refused                                                                 *)
BuildFails(c) ==
    /\ pc[c] = "building" /\ At(c, "refused") /\ Unlock(c)
    /\ UNCHANGED <<dir, order, lease, locking, cand, total, left, crashes>>

(* The builder returned, the marker is in the staging directory, and          *)
(* os.rename(staging, final) moves it: a directory with anything in it stops  *)
(* that                                                                       *)
Rename(c) ==
    /\ pc[c] = "building"
    /\ IF dir[Wants[c]] = "none"
       THEN /\ dir' = [dir EXCEPT ![Wants[c]] = "whole"]
            /\ order' = Append(Without(Wants[c]), Wants[c])
            /\ At(c, "built")
       ELSE UNCHANGED <<dir, order>> /\ At(c, "theirs")
    /\ UNCHANGED <<lease, mutex, flock, locking, cand, total, left, crashes>>

(* the rename failed: take what is there if it has a marker, else give up;    *)
(* either way the staging directory goes                                      *)
TakeTheirs(c) ==
    /\ pc[c] = "theirs" /\ Ready(c) /\ At(c, "built")
    /\ UNCHANGED <<dir, order, lease, mutex, flock, locking, cand, total, left, crashes>>
GiveUp(c) ==
    /\ pc[c] = "theirs" /\ ~Ready(c) /\ At(c, "refused") /\ Unlock(c)
    /\ UNCHANGED <<dir, order, lease, locking, cand, total, left, crashes>>

LeaseBuilt(c) ==
    /\ pc[c] = "built" /\ TakeLease(c) /\ Unlock(c)
    /\ At(c, IF Quota = 0 THEN "holding" ELSE "totalling")
    /\ UNCHANGED <<dir, order, locking, cand, total, left, crashes>>

Candidates(a) == SelectSeq(order, LAMBDA k : k \in Marked /\ k \notin Leased(a))

(* _evict_to_quota: total_bytes and _candidates, read once; then one rmtree   *)
(* after another with nothing looked at again                                 *)
List(c) ==
    /\ pc[c] = "totalling"
    /\ IF Cardinality(Marked) <= Quota
       THEN At(c, "holding") /\ UNCHANGED <<cand, total>>
       ELSE /\ At(c, "removing")
            /\ cand' = [cand EXCEPT ![c] = Candidates(Home[c])]
            /\ total' = [total EXCEPT ![c] = Cardinality(Marked)]
    /\ UNCHANGED <<dir, order, lease, mutex, flock, locking, left, crashes>>

Satisfied(c) == cand[c] = <<>> \/ total[c] <= Quota

(* rmtree takes entry after entry, and the marker goes early or late; in the  *)
(* end the directory itself, unless somebody has put a new one in its place   *)
RemoveSome(c) ==
    /\ pc[c] = "removing" /\ ~Satisfied(c) /\ At(c, "emptying")
    /\ LET k == Head(cand[c]) IN
       \/ dir[k] \in {"whole", "torn"} /\ dir' = [dir EXCEPT ![k] = "torn"]
       \/ dir[k] # "none" /\ dir' = [dir EXCEPT ![k] = "bare"]
       \/ dir[k] = "none" /\ UNCHANGED dir
    /\ UNCHANGED <<order, lease, mutex, flock, locking, cand, total, left, crashes>>

RemoveAll(c) ==
    /\ pc[c] = "emptying" /\ At(c, "removing")
    /\ LET k == Head(cand[c]) IN
       IF dir[k] \in {"torn", "bare"}
       THEN dir' = [dir EXCEPT ![k] = "none"] /\ order' = Without(k)
       ELSE UNCHANGED <<dir, order>>
    /\ cand' = [cand EXCEPT ![c] = Tail(@)]
    /\ total' = [total EXCEPT ![c] = @ - 1]
    /\ UNCHANGED <<lease, mutex, flock, locking, left, crashes>>

EvictionEnds(c) ==
    /\ pc[c] = "removing" /\ Satisfied(c)
    /\ cand' = [cand EXCEPT ![c] = <<>>] /\ total' = [total EXCEPT ![c] = 0]
    /\ At(c, "holding")
    /\ UNCHANGED <<dir, order, lease, mutex, flock, locking, left, crashes>>

(* release: the task is over and gives its lease back; a refusal is final     *)
DropLease(c) == lease' = [lease EXCEPT ![Home[c]][Wants[c]] = IF @ > 0 THEN @ - 1 ELSE 0]
HandBack(c) ==
    /\ pc[c] = "holding" /\ DropLease(c) /\ At(c, "idle")
    /\ UNCHANGED <<dir, order, mutex, flock, locking, cand, total, left, crashes>>
Dismiss(c) ==
    /\ pc[c] = "refused" /\ At(c, "idle")
    /\ UNCHANGED <<dir, order, lease, mutex, flock, locking, cand, total, left, crashes>>

(* An agent dies: its threads, its leases and its locks are gone (the system  *)
(* drops its flock), what it wrote stays.  The next one sweeps the staging    *)
(* directories left behind that are old enough.                               *)
Crash(a) ==
    LET dead == {c \in Caller : Home[c] = a} IN
    /\ crashes < MaxCrashes /\ crashes' = crashes + 1
    /\ lease' = [lease EXCEPT ![a] = [k \in Key |-> 0]]
    /\ mutex' = [mutex EXCEPT ![a] = [k \in Key |-> NoOne]]
    /\ flock' = [k \in Key |-> IF flock[k] \in dead THEN NoOne ELSE flock[k]]
    /\ pc' = [c \in Caller |-> IF c \in dead THEN "idle" ELSE pc[c]]
    /\ cand' = [c \in Caller |-> IF c \in dead THEN <<>> ELSE cand[c]]
    /\ total' = [c \in Caller |-> IF c \in dead THEN 0 ELSE total[c]]
    /\ left' = left \union {c \in dead : pc[c] \in {"building", "theirs"}}
    /\ UNCHANGED <<dir, order, locking>>

(* EnvironmentCache.__init__ of an agent started anew, which none of its      *)
(* threads precedes                                                           *)
SweepUnfinished(a) ==
    /\ left # {} /\ \A c \in Caller : Home[c] = a => pc[c] = "idle"
    /\ \E old \in SUBSET left \ {{}} : left' = left \ old
    /\ UNCHANGED <<dir, order, lease, pc, mutex, flock, locking, cand, total, crashes>>

Acquiring(c) ==
    \/ LeaseFound(c) \/ TakeBuildLock(c) \/ TakeFileLock(c) \/ Recheck(c)
    \/ BuildFails(c) \/ Rename(c) \/ TakeTheirs(c) \/ GiveUp(c)
    \/ LeaseBuilt(c) \/ List(c) \/ RemoveSome(c) \/ RemoveAll(c)
    \/ EvictionEnds(c)

CacheNext ==
    \/ \E c \in Caller : Look(c) \/ Acquiring(c) \/ HandBack(c) \/ Dismiss(c)
    \/ \E a \in Agent : Crash(a) \/ SweepUnfinished(a)

CacheSpec == CacheInit /\ [][CacheNext]_cacheVars
----------------------------------------------------------------------------
(* "Two tasks wanting the same environment build it once" (cache.py:11): two  *)
(* threads are inside the build of one environment only if they belong to two *)
(* agents, one of which could not take the lock file.                         *)
BuiltOnce ==
    \A c, d \in Caller :
        (c # d /\ Wants[c] = Wants[d] /\ pc[c] \in Locked /\ pc[d] \in Locked)
        => Home[c] # Home[d] /\ ~({Home[c], Home[d]} \subseteq locking)

(* "Eviction never removes an environment something is using" (cache.py:13):  *)
(* a task that holds an environment finds it whole.                           *)
HeldIsWhole == \A c \in Caller : pc[c] = "holding" => dir[Wants[c]] = "whole"
=============================================================================
