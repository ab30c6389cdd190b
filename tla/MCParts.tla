------------------------------- MODULE MCParts -------------------------------
(* Parts that do not touch each other's state, and what must never happen in  *)
(* them, in one run: `part` says which of them a behaviour is about, the      *)
(* others stay as they began.                                                 *)
EXTENDS MCEnvCache, MCPlacement, Replies, Links, MCTunnels, Preemption

ThreeNodes == 1 .. 3
ThreeGroups == 1 .. 3
(* Protection and times of submission are varied when two nodes are wanted.   *)
PlanStart == /\ need \in Needs
             /\ (need # 2 => since \in {[g \in Group |-> 1]} /\ role \in {[g \in Group |-> "model"]})
             /\ PlanInit
PlanIdle == /\ need = 0 /\ free = {} /\ role = [g \in Group |-> "model"]
            /\ on = [g \in Group |-> {}] /\ since = [g \in Group |-> 1] /\ verdict = "asked"
            /\ todo = {} /\ seen = {} /\ sure = {} /\ evict = {} /\ nodes = {}

VARIABLE part
Parts == {"cache", "placement", "replies", "links", "tunnels", "preemption"}
vars == <<part, cacheVars, placeVars, replyVars, linkVars, tunnelVars, planVars>>

Others(p) ==
    /\ UNCHANGED part
    /\ (p # "cache" => UNCHANGED cacheVars) /\ (p # "placement" => UNCHANGED placeVars)
    /\ (p # "replies" => UNCHANGED replyVars) /\ (p # "links" => UNCHANGED linkVars)
    /\ (p # "tunnels" => UNCHANGED tunnelVars) /\ (p # "preemption" => UNCHANGED planVars)

(* What a part may begin with is looked at when the behaviour is about it.    *)
Init ==
    /\ part \in Parts
    /\ (part # "cache" => locking \in {{}}) /\ (part # "links" => open \in {TRUE})
    /\ (part # "replies" => kind \in [User -> {"collect"}])
    /\ CacheInit /\ PlaceInit /\ ReplyInit /\ LinkInit /\ TunnelInit
    /\ IF part = "preemption" THEN PlanStart ELSE PlanIdle

CacheStep == part = "cache" /\ CacheNext /\ Others("cache")
PlacementStep == part = "placement" /\ PlaceNext /\ Others("placement")
RepliesStep == part = "replies" /\ ReplyNext /\ Others("replies")
LinksStep == part = "links" /\ LinkNext /\ Others("links")
TunnelsStep == part = "tunnels" /\ TunnelNext /\ Others("tunnels")
PreemptionStep == part = "preemption" /\ PlanNext /\ Others("preemption")

Next == \/ CacheStep \/ PlacementStep \/ RepliesStep \/ LinksStep \/ TunnelsStep
        \/ PreemptionStep
Spec == Init /\ [][Next]_vars
=============================================================================
