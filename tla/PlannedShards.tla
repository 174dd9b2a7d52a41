--------------------------- MODULE PlannedShards ----------------------------
(***************************************************************************)
(* The plans of NodeRegistry, compared with the loop of split_layers and   *)
(* followed onto the workers (ShardTensors) for every small checkpoint.    *)
(***************************************************************************)
EXTENDS NodeRegistry, ShardTensors

CONSTANT MaxLayers   \* bound of the comparison of the two forms

ASSUME MaxLayersAssumption == MaxLayers \in Nat

\* split_layers, in the closed form the plans and the proofs use, computes
\* what the loop of the code accumulates, for every layer count up to
\* MaxLayers and every number of nodes the cluster has or may still grow to.
SplitMatchesLoop ==
  \A L \in 1..MaxLayers : \A n \in Len(order)..L :
    n > 0 => SplitLayers(L, n) = SplitLayersLoop(L, n)

\* Checkpoints a manifest of L layers may point to: one layer more or less
\* than it says, a tied or a stored head, two files, one tensor missing.
WeightMaps(n) ==
  LET names == {EmbeddingsName, NormName, LmHeadName} \cup LayerNames(0..(n - 1))
      lost == {{}} \cup {{m} : m \in names} \cup {{LmHeadName, NormName}}
  IN  {[m \in names \ S |-> IF m.kind = "layers" /\ m.idx > 0 THEN "file2" ELSE "file1"] :
         S \in lost}

\* The tensors a model of L layers cannot do without.
Needed(L) == {EmbeddingsName, NormName} \cup LayerNames(0..(L - 1))

\* For every plan made and every checkpoint: the shards build on all workers
\* exactly if the checkpoint has every tensor of the manifest's L layers, and
\* the pass through their chain then runs each operation of the whole model
\* once, in order, with its own weights and its own slot of the cache.
\* Nothing compares L with the checkpoint: with fewer layers than it has, the
\* cluster serves the truncated model.
ShardsComputeModel ==
  \A p \in Planners : Planned(p) =>
    LET L == planner[p].layers
        plan == planner[p].plan
    IN  \A n \in {L - 1, L, L + 1} \ {0} : \A wm \in WeightMaps(n) :
          LET shards == Shards(wm, L, plan)
              built == \A i \in DOMAIN plan : shards[i].ok
          IN  /\ built <=> Needed(L) \subseteq DOMAIN wm
              /\ built =>
                   LET ops == Hops(shards)[Len(plan) + 1].data.ops
                   IN  /\ RunsThrough(shards)
                       /\ ops = WholeModel(wm, L)
                       /\ \A k \in DOMAIN ops : ops[k].slot < n
=============================================================================
