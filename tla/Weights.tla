------------------------------- MODULE Weights -------------------------------
(***************************************************************************)
(* A stage finds its layers in a checkpoint it did not write:              *)
(* looma_stage/loader.py, from the choice of the files to download to the  *)
(* refusal to serve with a parameter unfilled, and the view of the         *)
(* checkpoint that is shown to vLLM.                                       *)
(*                                                                         *)
(* A tensor is its place: a layer of the text model or of the vision       *)
(* tower beside it, the embeddings, the norm, the head.  The files hold    *)
(* the text model in its order, cut in two; the tower lies in one of them. *)
(* A tower's tensors fit no parameter of a text layer.                     *)
(*                                                                         *)
(* Left out: experts kept as one tensor (a parameter that is filled in     *)
(* several writes), data types, buffers, and two stages that share a view. *)
(***************************************************************************)
EXTENDS Integers, FiniteSets

CONSTANTS
    Layers,     \* num_hidden_layers
    Towers      \* layers a vision tower may have; 0: there is none

ASSUME WeightsAssumption == Layers \in Nat \ {0} /\ Towers \subseteq Nat

VARIABLES
    at,         \* "asked", "fetched", "viewed", "matched", "loaded", "up", "refused"
    print,      \* the checkpoint
    first, last,\* start_layer, end_layer
    engine_kind,\* "torch" or "vllm"
    fetched,    \* files on the disk
    opened,     \* files the loader reads, or the view shows
    prefix,     \* _key_prefix: which tower it takes for the model
    filled      \* parameters written, and from which tensor

weightVars == <<at, print, first, last, engine_kind, fetched, opened, prefix, filled>>

Text(i) == <<"text", i>>
Tower(i) == <<"tower", i>>
Embed == <<"embed", 0>>
Norm == <<"norm", 0>>
LmHead == <<"head", 0>>

\* A checkpoint: cut after so many tensors of the text model, the file of the
\* tower, the text model's prefix ("", "model." or a longer one), whether the
\* head is the embeddings' matrix and whether it is there all the same, one
\* tensor somebody lost, an index or a single file.
Checkpoints ==
    {c \in [cut : 0 .. Layers + 2, tower : Towers, tower_file : {1, 2},
            names : {"bare", "model", "nested"}, tied : BOOLEAN, head : BOOLEAN, index : BOOLEAN,
            lost : {<<"none", 0>>, Embed, Norm} \union {Text(i) : i \in 0 .. Layers - 1}] :
        /\ ~c.tied => c.head
        /\ ~c.index => c.cut = Layers + 2 /\ c.tower_file = 1
        /\ c.tower = 0 => c.tower_file = 1}

Keys == ({Text(i) : i \in 0 .. Layers - 1} \union {Embed, Norm}
            \union (IF print.head THEN {LmHead} ELSE {})
            \union {Tower(i) : i \in 0 .. print.tower - 1}) \ {print.lost}

\* The place of a tensor of the text model in its order.
Place(k) == CASE k = Embed -> 1 [] k[1] = "text" -> k[2] + 2 [] k = Norm -> Layers + 2
              [] OTHER -> Layers + 3
FileOf(k) == IF k[1] = "tower" THEN print.tower_file
             ELSE IF Place(k) <= print.cut THEN 1 ELSE 2
Files == {FileOf(k) : k \in Keys}
KeysIn(F) == {k \in Keys : FileOf(k) \in F}

IsFirst == first = 0
IsLast == last = Layers

WeightInit ==
    /\ at = "asked" /\ print \in Checkpoints
    /\ first \in 0 .. Layers - 1 /\ last \in 1 .. Layers /\ first < last
    /\ engine_kind \in {"torch", "vllm"}
    /\ fetched = {} /\ opened = {} /\ prefix = "none" /\ filled = {}

-----------------------------------------------------------------------------
(* Names *)

Indices(K, p) == {k[2] : k \in {t \in K : t[1] = p}}
Layered(K) == {p \in {"text", "tower"} : Indices(K, p) # {}}

\* detect_key_prefix: of those that reach layer n, or else of all, one with
\* the most layers; between equals, the one met first.
Detected(K, n) ==
    LET complete == {p \in Layered(K) : \E i \in Indices(K, p) : i >= n - 1}
        candidates == IF complete # {} THEN complete ELSE Layered(K) IN
    {p \in candidates : \A q \in candidates :
        Cardinality(Indices(K, p)) >= Cardinality(Indices(K, q))}

\* shard_target_key under prefix p: is the tensor this stage's?
Wanted_by(k, p) ==
    \/ k[1] = p /\ first <= k[2] /\ k[2] < last
    \/ k = Embed /\ IsFirst /\ (p = "text" \/ print.names = "bare")
    \/ k = Norm /\ IsLast /\ (p = "text" \/ print.names = "bare")
    \/ k = LmHead /\ IsLast

\* (Fault: a tied head is forgotten.)
Needed_NoTie(p) == {FileOf(k) : k \in {t \in Keys : Wanted_by(t, p)}}

\* needed_weight_files: a tied head is the embeddings, under the names known.
Needed(p) ==
    {FileOf(k) : k \in {t \in Keys : Wanted_by(t, p)}}
        \union (IF IsLast /\ print.tied /\ LmHead \notin Keys /\ print.names # "nested" /\ Embed \in Keys
                THEN {FileOf(Embed)} ELSE {})

\* By the whole index, taken to end where the stage does.
NeededFiles == IF ~print.index \/ Layered(Keys) = {} THEN {{}}
               ELSE {Needed(p) : p \in Detected(Keys, last)}

-----------------------------------------------------------------------------
(* Steps of a stage that is raised *)

\* resolve_model_path; the files of another stage may be there already.
Fetch ==
    /\ at = "asked"
    /\ \E need \in NeededFiles, others \in SUBSET Files :
          fetched' = others \union (IF need = {} THEN Files ELSE need)
    /\ at' = "fetched"
    /\ UNCHANGED <<print, first, last, engine_kind, opened, prefix, filled>>

\* _weight_files: those needed, without an index whatever is there.
OpenFiles ==
    /\ at = "fetched" /\ engine_kind = "torch"
    /\ \E need \in NeededFiles :
          LET names == IF need # {} THEN need ELSE IF print.index THEN Files ELSE fetched IN
          IF names \subseteq fetched /\ names # {}
          THEN at' = "viewed" /\ opened' = names
          ELSE at' = "refused" /\ UNCHANGED opened
    /\ UNCHANGED <<print, first, last, engine_kind, fetched, prefix, filled>>

\* _resolve_key_prefix: by the keys of the files the stage reads.
MatchNames ==
    /\ at = "viewed" /\ engine_kind = "torch"
    /\ IF Layered(KeysIn(opened)) = {} THEN prefix' = (IF print.names = "model" THEN "text" ELSE "none")
       ELSE prefix' \in Detected(KeysIn(opened), Layers)
    /\ at' = "matched"
    /\ UNCHANGED <<print, first, last, engine_kind, fetched, opened, filled>>

\* _load_weights: a tensor without a parameter is skipped.
Parameters ==
    {Text(i) : i \in first .. last - 1} \union (IF IsFirst THEN {Embed} ELSE {})
        \union (IF IsLast THEN {Norm, LmHead} ELSE {})
Written == {<<k, k>> : k \in {t \in KeysIn(opened) : Wanted_by(t, prefix) /\ t \in Parameters}}

\* _load_tied_lm_head: it looks for the embeddings by two names.
TiedSource == IF print.names # "nested" /\ Embed \in KeysIn(opened) THEN {<<LmHead, Embed>>} ELSE {}

LoadWeights ==
    /\ at = "matched"
    /\ LET headless == IsLast /\ <<LmHead, LmHead>> \notin Written IN
       IF headless /\ (~print.tied \/ TiedSource = {})
       THEN at' = "refused" /\ UNCHANGED filled
       ELSE at' = "loaded" /\ filled' = Written \union (IF headless THEN TiedSource ELSE {})
    /\ UNCHANGED <<print, first, last, engine_kind, fetched, opened, prefix>>

\* _assert_every_parameter_filled.
Serve ==
    /\ at = "loaded"
    /\ at' = IF Parameters \subseteq {w[1] : w \in filled} THEN "up" ELSE "refused"
    /\ UNCHANGED <<print, first, last, engine_kind, fetched, opened, prefix, filled>>

\* build_stage_checkpoint_view, and vLLM, which opens whatever the index names
\* and fills its parameters by itself.
ShowView ==
    /\ at = "fetched" /\ engine_kind = "vllm"
    /\ \E need \in NeededFiles :
          opened' = IF need = {} THEN (IF print.index THEN Files ELSE fetched) ELSE need
    /\ at' = IF opened' \subseteq fetched THEN "up" ELSE "refused"
    /\ UNCHANGED <<print, first, last, engine_kind, fetched, prefix, filled>>

WeightNext == Fetch \/ OpenFiles \/ MatchNames \/ LoadWeights \/ Serve \/ ShowView
WeightSpec == WeightInit /\ [][WeightNext]_weightVars

-----------------------------------------------------------------------------
(* What must hold *)

Complete == print.lost[1] = "none"
OwnTensors == KeysIn(Files) \intersect Parameters

\* A stage gets its own slice or none.  loader.py:540-546: one that serves has
\* every parameter of its slice, each from its own tensor.  And loader.py:96-110,
\* 656-671: the part of a checkpoint it downloads is all it needs: a complete
\* checkpoint of a text model, under the names known, is not refused, and vLLM
\* is shown every tensor of the stage.
PartIsEnough ==
    /\ at = "up" /\ engine_kind = "torch" =>
          /\ \A p \in Parameters : \E w \in filled : w[1] = p
          /\ \A w \in filled : w[1] = w[2] \/ (w = <<LmHead, Embed>> /\ print.tied)
    /\ Complete /\ print.tower = 0 /\ (print.names = "nested" => ~print.tied) =>
          /\ at # "refused"
          /\ at = "up" /\ engine_kind = "vllm" => OwnTensors \subseteq KeysIn(opened)
=============================================================================
