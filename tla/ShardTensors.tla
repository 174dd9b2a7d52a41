---------------------------- MODULE ShardTensors ----------------------------
(***************************************************************************)
(* What a plan becomes on the workers: which tensors of the checkpoint the *)
(* orchestrator sends for a layer range (orchestrator/model_store.py,      *)
(* inference/shard.py), the module a worker builds from them (loader.py),  *)
(* and the forward pass through the chain of shards, tensors serialised at *)
(* every hop (tensor_utils.py).  The module has no state.                  *)
(*                                                                         *)
(* A parameter name is a record; a weight is known by the file and name it *)
(* was read from, an activation by the operations that produced it.        *)
(***************************************************************************)
EXTENDS Integers, Sequences

CONSTANTS Parts,    \* the parameters of one MambaBlock
          Tokens, Hidden, Vocab   \* sizes of the tensors that travel

ASSUME SizesAssumption == {Tokens, Hidden, Vocab} \subseteq Nat \ {0}
ASSUME PartsAssumption == Parts # {}

Name(kind, idx, part) == [kind |-> kind, idx |-> idx, part |-> part]
EmbeddingsName == Name("embeddings", 0, "weight")
NormName == Name("norm_f", 0, "weight")
LmHeadName == Name("lm_head", 0, "weight")
LayerName(i, part) == Name("layers", i, part)

LayerNames(S) == {LayerName(i, part) : i \in S, part \in Parts}

-----------------------------------------------------------------------------
(***************************************************************************)
(* The orchestrator.  wm is the checkpoint's weight map: the file of every *)
(* tensor.                                                                 *)
(***************************************************************************)
\* lm_head, or the embedding it is tied to when it has no storage.
LmHeadSource(wm) == IF LmHeadName \in DOMAIN wm THEN LmHeadName ELSE EmbeddingsName

TensorLocation(wm, dest, source) ==
  [dest_name |-> dest, source_name |-> source, source_file |-> wm[source]]

\* Mutant of TensorLocationsForRange: the global layer index is kept.
TensorLocationsForRange_Global(wm, start, end, first, last) ==
  (IF first THEN {TensorLocation(wm, EmbeddingsName, EmbeddingsName)} ELSE {})
  \cup {TensorLocation(wm, n, n) :
          n \in {m \in DOMAIN wm : m.kind = "layers" /\ start <= m.idx /\ m.idx < end}}
  \cup (IF last THEN {TensorLocation(wm, NormName, NormName),
                      TensorLocation(wm, LmHeadName, LmHeadSource(wm))} ELSE {})

\* The layer tensors of the range, renumbered from 0; the embedding for the
\* first shard, norm and head for the last.
TensorLocationsForRange(wm, start, end, first, last) ==
  (IF first THEN {TensorLocation(wm, EmbeddingsName, EmbeddingsName)} ELSE {})
  \cup {TensorLocation(wm, LayerName(n.idx - start, n.part), n) :
          n \in {m \in DOMAIN wm : m.kind = "layers" /\ start <= m.idx /\ m.idx < end}}
  \cup (IF last THEN {TensorLocation(wm, NormName, NormName),
                      TensorLocation(wm, LmHeadName, LmHeadSource(wm))} ELSE {})

\* weight_map[name] raises no KeyError.
NamesFound(wm, first, last) ==
  /\ first => EmbeddingsName \in DOMAIN wm
  /\ last => {NormName, LmHeadSource(wm)} \subseteq DOMAIN wm

\* extract_shard for one assignment of the plan; an error is no location.
ExtractShard(wm, a) ==
  IF NamesFound(wm, a.is_first, a.is_last)
  THEN TensorLocationsForRange(wm, a.layer_start, a.layer_end, a.is_first, a.is_last)
  ELSE {}

-----------------------------------------------------------------------------
(***************************************************************************)
(* The worker.                                                             *)
(***************************************************************************)
\* The names of the parameters of a MambaShardModule.
OwnParameters(start, end, first, last) ==
  (IF first THEN {EmbeddingsName} ELSE {})
  \cup LayerNames(0..(end - start - 1))
  \cup (IF last THEN {NormName, LmHeadName} ELSE {})

\* The tensors read from the files, one file after the other, by dest_name.
StateDict(locations) ==
  [d \in {l.dest_name : l \in locations} |->
     LET l == CHOOSE k \in locations : k.dest_name = d
     IN  <<l.source_file, l.source_name>>]

\* load_state_dict is strict: a missing or an unexpected name raises.
LoadsStrictly(locations, start, end, first, last) ==
  {l.dest_name : l \in locations} = OwnParameters(start, end, first, last)

\* _load_shard_background on a request with these locations: the worker
\* works out its role from the range and builds, loads and keeps the shard.
BuildShard(L, a, locations) ==
  LET first == a.layer_start = 0
      last == a.layer_end = L
  IN  [ok |-> LoadsStrictly(locations, a.layer_start, a.layer_end, first, last),
       is_first |-> first, is_last |-> last,
       layer_start |-> a.layer_start, layer_end |-> a.layer_end,
       next |-> a.next,
       weights |-> StateDict(locations)]

\* Every shard of a plan for L layers.
Shards(wm, L, plan) ==
  [i \in DOMAIN plan |-> BuildShard(L, plan[i], ExtractShard(wm, plan[i]))]

-----------------------------------------------------------------------------
(***************************************************************************)
(* One forward pass.                                                       *)
(***************************************************************************)
ItemSize == [float32 |-> 4, float16 |-> 2, int64 |-> 8, int32 |-> 4]

Volume(shape) ==
  LET volume[i \in 0..Len(shape)] == IF i = 0 THEN 1 ELSE volume[i - 1] * shape[i]
  IN  volume[Len(shape)]

Tensor(ops, shape, dtype) == [ops |-> ops, shape |-> shape, dtype |-> dtype]

Serialize(x) ==
  [data |-> [ops |-> x.ops, size |-> Volume(x.shape) * ItemSize[x.dtype]],
   shape |-> x.shape, dtype |-> x.dtype]

\* deserialize_tensor raises no ValueError.
WellFormed(m) ==
  m.dtype \in DOMAIN ItemSize /\ m.data.size = Volume(m.shape) * ItemSize[m.dtype]

Deserialize(m) == Tensor(m.data.ops, m.shape, m.dtype)

EmbedOp(w) == [op |-> "embed", weights |-> {w}, slot |-> -1]
NormOp(w) == [op |-> "norm", weights |-> {w}, slot |-> -1]
HeadOp(w) == [op |-> "head", weights |-> {w}, slot |-> -1]
\* A block keeps its global layer_idx and uses that slot of the cache.
BlockOp(ws, layer_idx) == [op |-> "layer", weights |-> ws, slot |-> layer_idx]

Blocks(s) ==
  [k \in 1..(s.layer_end - s.layer_start) |->
     BlockOp({<<p, s.weights[LayerName(k - 1, p)]>> : p \in Parts},
           s.layer_start + k - 1)]

\* MambaShardModule.forward.
Forward(s, x) ==
  LET embedded == IF s.is_first THEN <<EmbedOp(s.weights[EmbeddingsName])>> ELSE <<>>
      closing == IF s.is_last
                 THEN <<NormOp(s.weights[NormName]), HeadOp(s.weights[LmHeadName])>>
                 ELSE <<>>
  IN  Tensor(x.ops \o embedded \o Blocks(s) \o closing,
             <<1, Tokens, IF s.is_last THEN Vocab ELSE Hidden>>, "float32")

\* RunShard on shard s can run on message m: the input deserialises and is
\* what the module's first operation takes.
Accepts(s, m) ==
  /\ s.ok /\ WellFormed(m)
  /\ IF s.is_first THEN m.dtype \in {"int64", "int32"} /\ Len(m.shape) = 2
                   ELSE m.dtype = "float32" /\ m.shape = <<1, Tokens, Hidden>>

\* The prompt's token ids, as the orchestrator sends them.
Prompt == Serialize(Tensor(<<>>, <<1, Tokens>>, "int64"))

\* The messages of one pass: hop i is what shard i is sent, the last one is
\* what the orchestrator gets.
Hops(shards) ==
  LET hop[i \in 1..(Len(shards) + 1)] ==
        IF i = 1 THEN Prompt
        ELSE Serialize(Forward(shards[i - 1], Deserialize(hop[i - 1])))
  IN  hop

\* The pass goes through: every hop is accepted and the result is logits.
RunsThrough(shards) ==
  /\ \A i \in DOMAIN shards : Accepts(shards[i], Hops(shards)[i])
  /\ LET result == Hops(shards)[Len(shards) + 1]
     IN  WellFormed(result) /\ result.shape = <<1, Tokens, Vocab>>

\* The operations of the whole model of n layers, in one process.
WholeModel(wm, n) ==
  LET stored(name) == <<wm[name], name>>
  IN  <<EmbedOp(stored(EmbeddingsName))>>
      \o [i \in 1..n |->
            BlockOp({<<p, stored(LayerName(i - 1, p))>> : p \in Parts}, i - 1)]
      \o <<NormOp(stored(NormName)), HeadOp(stored(LmHeadSource(wm)))>>
=============================================================================
