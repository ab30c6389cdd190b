-------------------------------- MODULE Cut --------------------------------
(***************************************************************************)
(* A model is cut between nodes and, on a node, between its cards:         *)
(* _deploy_model (api/app.py) chooses the nodes, expand_ranks and          *)
(* split_layers (orchestrator/models.py) the layers of each; on the node   *)
(* plan_layer_devices (looma_stage/loader.py) spreads them over the cards, *)
(* and a forward (executor.py) walks over them.                            *)
(*                                                                         *)
(* Memory is a small number.  What telemetry said of the cards and what    *)
(* the stage measures may differ.  Of the stages one is followed further.  *)
(* Floating point does not change a share: a quotient that comes out just  *)
(* below its integer has the longest tail and gets the layer back; equal   *)
(* tails may be told apart either way.  No card is without a free byte.     *)
(***************************************************************************)
EXTENDS Integers, Sequences, FiniteSets, SequencesExt, Counting

CONSTANTS
    Box,        \* nodes
    Depths,     \* how many layers a model may have
    Amounts,    \* free memory a card may have
    MaxCards    \* cards of one node, at most

ASSUME CutAssumption ==
    /\ IsFiniteSet(Box) /\ MaxCards \in Nat \ {0}
    /\ Depths \subseteq Nat \ {0} /\ Amounts \subseteq Nat \ {0}

VARIABLES
    phase,      \* "asked", "refused", "cut", "sent", "sharing", "raised", "answered", "mismatch"
    depth,      \* num_layers
    engine_of,  \* "torch" or "vllm"
    by_vram,
    told_of,    \* vram_free_per_gpu in each node's telemetry
    chosen,     \* the nodes, by rank
    ranges,     \* the layers of each rank: <<first, one past the last>>
    slice,      \* how many layers the stage has that is followed
    measured,   \* what it finds free on each card
    share,      \* how many layers each card is to get
    layer_card  \* layer_devices

cutVars == <<phase, depth, engine_of, by_vram, told_of, chosen, ranges, slice,
             measured, share, layer_card>>

Cards(most) == UNION {[1 .. n -> Amounts] : n \in 1 .. most}
Least(s) == CHOOSE x \in Range(s) : \A y \in Range(s) : x <= y
Upto(s, i) == SumOf([k \in 1 .. i |-> s[k]])

CutInit ==
    /\ phase = "asked"
    /\ depth \in Depths /\ engine_of = "torch" /\ by_vram = TRUE
    /\ told_of \in [Box -> Cards(2)]
    /\ chosen = <<>> /\ ranges = <<>> /\ slice = 0
    /\ measured = <<>> /\ share = <<>> /\ layer_card = <<>>

-----------------------------------------------------------------------------
(* Between nodes *)

\* expand_ranks: vLLM cuts every layer over all cards, so the smallest counts.
Vram(engine, b) == IF engine = "vllm" THEN Len(told_of[b]) * Least(told_of[b])
                                 ELSE SumOf(told_of[b])

\* The most free first; equal ones in the order the hub lists them.
Orders(n) == {s \in [1 .. n -> Box] :
                 /\ IsInjective(s)
                 /\ \A i \in 1 .. n : \A b \in Box \ Range(SubSeq(s, 1, i)) :
                        SumOf(told_of[s[i]]) >= SumOf(told_of[b])}
Named(n) == {s \in [1 .. n -> Box] : IsInjective(s)}

Weights(engine, by, s) == [i \in DOMAIN s |-> IF by THEN Vram(engine, s[i]) ELSE 1]

WholeShares(w, rest) == [i \in DOMAIN w |-> (rest * w[i]) \div SumOf(w)]
Tail_of(w, rest, i) == (rest * w[i]) % SumOf(w)
Leftover(w, rest) == rest - SumOf(WholeShares(w, rest))

\* (Fault: the shortest tails get the layers that are left.)
Favoured_Shortest(w, rest) ==
    {S \in SUBSET DOMAIN w : /\ Cardinality(S) = Leftover(w, rest)
                             /\ \A i \in S, j \in DOMAIN w \ S :
                                    Tail_of(w, rest, i) <= Tail_of(w, rest, j)}

\* Who gets one of the layers the whole parts leave: the longest tails.
Favoured(w, rest) ==
    {S \in SUBSET DOMAIN w : /\ Cardinality(S) = Leftover(w, rest)
                             /\ \A i \in S, j \in DOMAIN w \ S :
                                    Tail_of(w, rest, i) >= Tail_of(w, rest, j)}

\* split_layers: one layer each, the rest by weight.
Shares(w, rest, S) == [i \in DOMAIN w |-> 1 + WholeShares(w, rest)[i] + (IF i \in S THEN 1 ELSE 0)]
RangesOf(s) == [i \in DOMAIN s |-> <<Upto(s, i - 1), Upto(s, i)>>]

CutModel ==
    /\ phase = "asked"
    /\ \E engine \in {"torch", "vllm"}, by, named \in BOOLEAN, n \in 1 .. Cardinality(Box) :
       \E s \in IF named THEN Named(n) ELSE Orders(n) :
          LET w == Weights(engine, by, s) IN
          /\ n <= depth
          /\ engine_of' = engine /\ by_vram' = by /\ chosen' = s
          /\ \E S \in Favoured(w, depth - n) : ranges' = RangesOf(Shares(w, depth - n, S))
    /\ phase' = "cut"
    /\ UNCHANGED <<depth, told_of, slice, measured, share, layer_card>>

\* More stages than layers, or more than nodes; vLLM where it cannot run.
RefuseCut ==
    /\ phase = "asked"
    /\ \/ engine_of' = "vllm"
       \/ engine_of' = "torch" /\ depth < Cardinality(Box)
    /\ phase' = "refused"
    /\ UNCHANGED <<depth, by_vram, told_of, chosen, ranges, slice, measured, share, layer_card>>

-----------------------------------------------------------------------------
(* Between the cards of a node *)

\* round: to the nearest, a half to the even one.
Rounded(a, b) ==
    LET q == a \div b r == a % b IN
    IF 2 * r < b \/ (2 * r = b /\ q % 2 = 0) THEN q ELSE q + 1

AtLeast(a, b) == IF a > b THEN a ELSE b

\* (Fault: a small card is rounded to nothing.)
FirstShares_Zero(n, w) == [i \in DOMAIN w |-> Rounded(n * w[i], SumOf(w))]
FirstShares(n, w) == [i \in DOMAIN w |-> AtLeast(1, Rounded(n * w[i], SumOf(w)))]

\* The first of the biggest takes what rounding gave too much or too little.
Biggest(s) == CHOOSE i \in DOMAIN s : \A j \in DOMAIN s : s[j] < s[i] \/ (s[j] = s[i] /\ i <= j)
CardShares(n, w) == LET first == FirstShares(n, w) IN
                    [first EXCEPT ![Biggest(w)] = @ + n - SumOf(first)]

\* Runs of layers, card after card; a card may be left without any.
PlanCards(n, s) ==
    [layer \in 1 .. n |-> CHOOSE c \in DOMAIN s : Upto(s, c - 1) < layer /\ layer <= Upto(s, c)]

\* The stage's command says how many layers it has, and nothing else of the cut.
\* (vLLM's stage cuts its layers over all cards: no plan of this kind.)
Send(k) ==
    /\ phase = "cut" /\ engine_of = "torch"
    /\ slice' = ranges[k][2] - ranges[k][1]
    /\ phase' = "sent"
    /\ ranges' = <<>> /\ chosen' = <<>> /\ told_of' = [b \in Box |-> <<>>] /\ by_vram' = TRUE
    /\ UNCHANGED <<depth, engine_of, measured, share, layer_card>>

\* plan_layer_devices: it measures its cards and rounds their shares; while the
\* biggest is left without a layer, another gives it one; then the layers go.
Raise ==
    /\ phase = "sent"
    /\ \E m \in Cards(MaxCards) : measured' = m /\ share' = CardShares(slice, m)
    /\ phase' = "sharing"
    /\ UNCHANGED <<depth, engine_of, by_vram, told_of, chosen, ranges, slice, layer_card>>

Share ==
    /\ phase = "sharing"
    /\ LET big == Biggest(measured)
           donor == Biggest(share) IN
       IF share[big] < 1 /\ donor # big
       THEN /\ share' = [share EXCEPT ![donor] = @ - 1, ![big] = @ + 1]
            /\ UNCHANGED <<phase, layer_card>>
       ELSE phase' = "raised" /\ layer_card' = PlanCards(slice, share) /\ UNCHANGED share
    /\ UNCHANGED <<depth, engine_of, by_vram, told_of, chosen, ranges, slice, measured>>

\* forward: the state enters on the stage's first card and is taken to be on
\* the first layer's.
Forward ==
    /\ phase = "raised"
    /\ phase' = IF layer_card[1] = 1 THEN "answered" ELSE "mismatch"
    /\ UNCHANGED <<depth, engine_of, by_vram, told_of, chosen, ranges, slice, measured, share, layer_card>>

CutNext == CutModel \/ RefuseCut \/ (\E k \in DOMAIN ranges : Send(k)) \/ Raise \/ Share \/ Forward
CutSpec == CutInit /\ [][CutNext]_cutVars

-----------------------------------------------------------------------------
(* What must hold *)

\* models.py:246, split_layers: by memory.  A node with more of it never gets
\* fewer layers than one with less, and all layers have exactly one node.
RoomIsHeeded ==
    ranges # <<>> =>
        LET size == [i \in DOMAIN ranges |-> ranges[i][2] - ranges[i][1]] IN
        /\ SumOf(size) = depth
        /\ \A i, j \in DOMAIN ranges :
              by_vram /\ Vram(engine_of, chosen[i]) > Vram(engine_of, chosen[j]) => size[i] >= size[j]

\* loader.py:357-359: the hidden state enters the stage where its first layer
\* is, as long as no card of it has to go without a layer.
EntersAtHome ==
    phase = "mismatch" => Len(layer_card) < Len(measured)
=============================================================================
