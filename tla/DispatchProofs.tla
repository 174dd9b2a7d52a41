--------------------------- MODULE DispatchProofs ---------------------------
(***************************************************************************)
(* split_layers and plan_dispatch, for every layer count and every list of *)
(* nodes.                                                                  *)
(***************************************************************************)
EXTENDS Dispatch, WellFoundedInduction, TLAPS

\* The quotient total_layers // num_nodes is at least one layer per node.
LEMMA BaseSize ==
  ASSUME NEW L \in Nat, NEW n \in Nat, n >= 1, n <= L
  PROVE  /\ L \div n \in Nat
         /\ L \div n >= 1
         /\ n * (L \div n) <= L
BY SMTT(30)

\* Ranges are adjacent, non-empty, start at layer 0 and end at layer L.
LEMMA RangesAdjacent ==
  ASSUME NEW L \in Nat, NEW n \in Nat, n >= 1, n <= L, NEW i \in 1..n
  PROVE  /\ RangeStart(L, n, i) \in Nat
         /\ RangeEnd(L, n, i) \in Nat
         /\ RangeStart(L, n, i) < RangeEnd(L, n, i)
         /\ RangeEnd(L, n, i) <= L
         /\ i = 1 <=> RangeStart(L, n, i) = 0
         /\ i = n <=> RangeEnd(L, n, i) = L
         /\ i < n => RangeStart(L, n, i + 1) = RangeEnd(L, n, i)
<1> DEFINE b == L \div n
<1>1. b \in Nat /\ b >= 1 /\ n * b <= L
  BY BaseSize
<1> HIDE DEF b
<1>2. (i - 1) * b \in Nat /\ i * b \in Nat /\ i * b = (i - 1) * b + b
  BY <1>1
<1>3. i < n => (i + 1) * b <= n * b
  BY <1>1
<1>4. i * b <= n * b
  BY <1>1
<1>5. (i - 1) * b = 0 <=> i = 1
  BY <1>1
<1>6. i < n => i * b < L
  <2>1. i < n => (i + 1) * b = i * b + b
    BY <1>1
  <2> QED  BY <1>1, <1>2, <1>3, <2>1
<1>7. (i - 1) * b < L
  BY <1>1, <1>2, <1>4
<1>8. RangeStart(L, n, i) = (i - 1) * b /\ RangeStart(L, n, i + 1) = i * b
  BY DEF RangeStart, b
<1>9. RangeEnd(L, n, i) = IF i = n THEN L ELSE i * b
  BY DEF RangeEnd, b
<1> QED  BY <1>1, <1>2, <1>4, <1>5, <1>6, <1>7, <1>8, <1>9

\* An earlier range ends no later than a later one starts.
LEMMA RangesOrdered ==
  ASSUME NEW L \in Nat, NEW n \in Nat, n >= 1, n <= L,
         NEW i \in 1..n, NEW j \in 1..n, j < i
  PROVE  RangeEnd(L, n, j) <= RangeStart(L, n, i)
<1> DEFINE b == L \div n
<1>1. b \in Nat
  BY BaseSize
<1> HIDE DEF b
<1>2. j * b <= (i - 1) * b
  BY <1>1
<1> QED  BY <1>2 DEF RangeStart, RangeEnd, b

\* Every layer lies in some range.
LEMMA RangesCover ==
  ASSUME NEW L \in Nat, NEW n \in Nat, n >= 1, n <= L, NEW k \in 0..(L - 1)
  PROVE  \E i \in 1..n : RangeStart(L, n, i) <= k /\ k < RangeEnd(L, n, i)
<1> DEFINE b == L \div n
           q == k \div b
<1>1. b \in Nat /\ b >= 1 /\ n * b <= L
  BY BaseSize
<1>2. CASE k >= (n - 1) * b
  <2>1. RangeStart(L, n, n) <= k /\ k < RangeEnd(L, n, n)
    BY <1>2 DEF RangeStart, RangeEnd
  <2> QED  BY <2>1
<1>3. CASE k < (n - 1) * b
  <2> HIDE DEF b
  <2>1. q \in Nat /\ q * b <= k /\ k < q * b + b
    BY <1>1
  <2> HIDE DEF q
  <2>2. (q + 1) * b = q * b + b
    BY <1>1, <2>1
  <2>3. q < n - 1
    <3>1. SUFFICES ASSUME q >= n - 1 PROVE FALSE
      BY <2>1
    <3>2. q * b >= (n - 1) * b
      BY <3>1, <1>1, <2>1
    <3>3. q * b \in Int /\ (n - 1) * b \in Int
      BY <1>1, <2>1
    <3> QED  BY <3>2, <3>3, <2>1, <1>3
  <2>4. RangeStart(L, n, q + 1) = q * b
    BY <2>1 DEF RangeStart, b
  <2>5. RangeEnd(L, n, q + 1) = (q + 1) * b
    BY <2>1, <2>3 DEF RangeEnd, b
  <2> QED  BY <2>1, <2>2, <2>3, <2>4, <2>5
<1> QED  BY <1>1, <1>2, <1>3

\* A plan that plan_dispatch returns: one assignment per node, in order.
LEMMA PlanShape ==
  ASSUME NEW L \in Nat, NEW S, NEW nodes \in Seq(S), ~DispatchError(L, nodes)
  PROVE  LET plan == PlanDispatch(L, nodes)
             n == Len(nodes)
         IN  /\ n \in Nat /\ n >= 1 /\ n <= L
             /\ DOMAIN plan = 1..n
             /\ Len(plan) = n
             /\ \A i \in 1..n :
                  /\ plan[i].node = nodes[i]
                  /\ plan[i].layer_start = RangeStart(L, n, i)
                  /\ plan[i].layer_end = RangeEnd(L, n, i)
                  /\ plan[i].is_first <=> i = 1
                  /\ plan[i].is_last <=> i = n
                  /\ plan[i].next = IF i = n THEN NoNext ELSE nodes[i + 1]
<1> DEFINE plan == PlanDispatch(L, nodes)
           n == Len(nodes)
<1>1. n \in Nat /\ n >= 1 /\ n <= L
  BY DEF DispatchError
<1>2. plan = [i \in 1..n |-> ShardAssignment(L, nodes, i)]
  BY DEF PlanDispatch
<1>3. DOMAIN plan = 1..n /\ Len(plan) = n
  BY <1>1, <1>2
<1>4. ASSUME NEW i \in 1..n
      PROVE  /\ plan[i].node = nodes[i]
             /\ plan[i].layer_start = RangeStart(L, n, i)
             /\ plan[i].layer_end = RangeEnd(L, n, i)
             /\ plan[i].is_first <=> i = 1
             /\ plan[i].is_last <=> i = n
             /\ plan[i].next = IF i = n THEN NoNext ELSE nodes[i + 1]
  <2>1. plan[i] = ShardAssignment(L, nodes, i)
    BY <1>2
  <2> HIDE DEF plan
  <2>2. /\ plan[i].node = nodes[i]
        /\ plan[i].layer_start = RangeStart(L, n, i)
        /\ plan[i].layer_end = RangeEnd(L, n, i)
        /\ plan[i].next = IF i = n THEN NoNext ELSE nodes[i + 1]
    BY <2>1 DEF ShardAssignment, SplitLayers
  <2>3. ASSUME NEW r, r = ShardAssignment(L, nodes, i)
        PROVE  (r.is_first <=> i = 1) /\ (r.is_last <=> i = n)
    BY <2>3, Zenon DEF ShardAssignment
  <2> QED  BY <2>1, <2>2, <2>3
<1> QED  BY <1>1, <1>3, <1>4

\* plan_dispatch, for every layer count and every list of nodes: the plan
\* covers each layer once, follows the layers along next_worker_address and
\* assigns the roles that the workers recompute.
THEOREM DispatchCorrect ==
  ASSUME NEW L \in Nat, NEW S, NEW nodes \in Seq(S), ~DispatchError(L, nodes)
  PROVE  IsPipeline(L, PlanDispatch(L, nodes))
<1> DEFINE plan == PlanDispatch(L, nodes)
           n == Len(nodes)
<1>1. /\ n \in Nat /\ n >= 1 /\ n <= L
      /\ DOMAIN plan = 1..n
      /\ Len(plan) = n
      /\ \A i \in 1..n :
           /\ plan[i].node = nodes[i]
           /\ plan[i].layer_start = RangeStart(L, n, i)
           /\ plan[i].layer_end = RangeEnd(L, n, i)
           /\ plan[i].is_first <=> i = 1
           /\ plan[i].is_last <=> i = n
           /\ plan[i].next = IF i = n THEN NoNext ELSE nodes[i + 1]
  BY PlanShape
<1> HIDE DEF plan, n
<1>2. CoversOnce(L, plan)
  <2>1. \A i \in DOMAIN plan : plan[i].layer_start < plan[i].layer_end
    BY <1>1, RangesAdjacent
  <2>2. ASSUME NEW k \in 0..(L - 1)
        PROVE  \E i \in DOMAIN plan :
                 /\ plan[i].layer_start <= k /\ k < plan[i].layer_end
                 /\ \A j \in DOMAIN plan :
                      plan[j].layer_start <= k /\ k < plan[j].layer_end => j = i
    <3>1. PICK i \in 1..n : RangeStart(L, n, i) <= k /\ k < RangeEnd(L, n, i)
      BY <1>1, RangesCover
    <3>2. ASSUME NEW j \in 1..n, j # i,
                 RangeStart(L, n, j) <= k, k < RangeEnd(L, n, j)
          PROVE  FALSE
      <4>1. /\ RangeStart(L, n, i) \in Nat /\ RangeEnd(L, n, i) \in Nat
            /\ RangeStart(L, n, j) \in Nat /\ RangeEnd(L, n, j) \in Nat
        BY <1>1, RangesAdjacent
      <4>2. CASE j < i
        <5>1. RangeEnd(L, n, j) <= RangeStart(L, n, i)
          BY <1>1, <4>2, RangesOrdered
        <5> QED  BY <3>1, <3>2, <4>1, <5>1
      <4>3. CASE i < j
        <5>1. RangeEnd(L, n, i) <= RangeStart(L, n, j)
          BY <1>1, <4>3, RangesOrdered
        <5> QED  BY <3>1, <3>2, <4>1, <5>1
      <4> QED  BY <1>1, <3>2, <4>2, <4>3
    <3>3. \A j \in DOMAIN plan :
            plan[j].layer_start <= k /\ k < plan[j].layer_end => j = i
      BY <1>1, <3>2
    <3>4. i \in DOMAIN plan /\ plan[i].layer_start <= k /\ k < plan[i].layer_end
      BY <1>1, <3>1
    <3> QED  BY <3>3, <3>4
  <2> QED  BY <2>1, <2>2 DEF CoversOnce
<1>3. ChainFollowsLayers(plan)
  <2> SUFFICES ASSUME NEW i \in DOMAIN plan
               PROVE  IF i = Len(plan) THEN plan[i].next = NoNext
                      ELSE /\ plan[i].next = plan[i + 1].node
                           /\ plan[i].layer_end = plan[i + 1].layer_start
    BY DEF ChainFollowsLayers
  <2>1. i \in 1..n /\ (i # n => i + 1 \in 1..n /\ i < n)
    BY <1>1
  <2>2. i < n => RangeStart(L, n, i + 1) = RangeEnd(L, n, i)
    BY <1>1, <2>1, RangesAdjacent
  <2> QED  BY <1>1, <2>1, <2>2
<1>4. RolesAgree(L, plan)
  <2> SUFFICES ASSUME NEW i \in 1..n
               PROVE  /\ plan[i].is_first <=> plan[i].layer_start = 0
                      /\ plan[i].is_last <=> plan[i].layer_end = L
    BY <1>1, Zenon DEF RolesAgree
  <2>1. /\ i = 1 <=> RangeStart(L, n, i) = 0
        /\ i = n <=> RangeEnd(L, n, i) = L
    <3>1. n \in Nat /\ n >= 1 /\ n <= L
      BY <1>1
    <3> QED  BY <3>1, RangesAdjacent
  <2>2. /\ plan[i].layer_start = RangeStart(L, n, i)
        /\ plan[i].layer_end = RangeEnd(L, n, i)
        /\ plan[i].is_first <=> i = 1
        /\ plan[i].is_last <=> i = n
    BY <1>1
  <2> QED  BY <2>1, <2>2, Zenon
<1> QED  BY <1>2, <1>3, <1>4 DEF IsPipeline, plan

\* Every result of plan_dispatch is a list of assignments to those nodes.
LEMMA PlanType ==
  ASSUME NEW L \in Nat, NEW S, NEW nodes \in Seq(S)
  PROVE  PlanDispatch(L, nodes) \in Seq(Assignments(S))
<1> DEFINE n == Len(nodes)
<1>1. CASE DispatchError(L, nodes)
  BY <1>1 DEF PlanDispatch
<1>2. CASE ~DispatchError(L, nodes)
  <2>1. n \in Nat /\ n >= 1 /\ n <= L
    BY <1>2 DEF DispatchError
  <2>2. ASSUME NEW i \in 1..n
        PROVE  ShardAssignment(L, nodes, i) \in Assignments(S)
    <3>1. RangeStart(L, n, i) \in Nat /\ RangeEnd(L, n, i) \in Nat
      BY <2>1, RangesAdjacent
    <3>2. nodes[i] \in S /\ (i # n => nodes[i + 1] \in S)
      BY <2>1
    <3> DEFINE first == i = 1
               last == i = n
    <3>3. first \in BOOLEAN /\ last \in BOOLEAN
      BY Zenon
    <3>4. SplitLayers(L, n)[i] = <<RangeStart(L, n, i), RangeEnd(L, n, i)>>
      BY DEF SplitLayers
    <3> DEFINE a == SplitLayers(L, n)[i][1]
               b == SplitLayers(L, n)[i][2]
               x == IF i = n THEN NoNext ELSE nodes[i + 1]
    <3>5. a \in Nat /\ b \in Nat /\ x \in S \cup {NoNext}
      BY <3>1, <3>2, <3>4
    <3>6. ShardAssignment(L, nodes, i) =
            [node |-> nodes[i], layer_start |-> a, layer_end |-> b,
             is_first |-> first, is_last |-> last, next |-> x]
      BY Zenon DEF ShardAssignment
    <3> HIDE DEF a, b, x, first, last
    <3> QED  BY <3>2, <3>3, <3>5, <3>6 DEF Assignments
  <2>3. PlanDispatch(L, nodes) = [i \in 1..n |-> ShardAssignment(L, nodes, i)]
    BY <1>2 DEF PlanDispatch
  <2> QED  BY <2>1, <2>2, <2>3
<1> QED  BY <1>1, <1>2

-----------------------------------------------------------------------------
(***************************************************************************)
(* Induction over data, in the set form of the least-number principle: the *)
(* library's well-foundedness theorems have it without an operator         *)
(* parameter.                                                              *)
(***************************************************************************)
\* A non-empty set of naturals has a least element.
LEMMA LeastElement ==
  ASSUME NEW T, T \subseteq Nat, T # {}
  PROVE  \E m \in T : \A k \in T : m <= k
<1> DEFINE R == OpToRel(<, Nat)
<1>1. IsWellFoundedOn(R, Nat)
  BY NatLessThanWellFounded, Zenon
<1>2. \A i, j \in Nat : i < j => <<i, j>> \in R
  BY DEF OpToRel
<1> HIDE DEF R
<1>3. PICK m \in T : \A k \in T : ~(<<k, m>> \in R)
  BY <1>1, WFMin, Zenon
<1>4. \A k \in T : ~(k < m)
  BY <1>2, <1>3, Zenon
<1> QED  BY <1>3, <1>4

\* Induction over an interval: S is the set of the i where a fact holds.
LEMMA Climb ==
  ASSUME NEW lo \in Nat, NEW hi \in Nat, NEW S, lo \in S,
         \A i \in (lo + 1)..hi : i - 1 \in S => i \in S
  PROVE  lo..hi \subseteq S
<1> SUFFICES ASSUME (lo..hi) \ S # {} PROVE FALSE
  OBVIOUS
<1>1. PICK m \in (lo..hi) \ S : \A k \in (lo..hi) \ S : m <= k
  <2>1. (lo..hi) \ S \subseteq Nat
    OBVIOUS
  <2> QED  BY <2>1, LeastElement
<1>2. m # lo /\ m \in (lo + 1)..hi /\ m - 1 \in lo..hi
  BY <1>1
<1>3. m - 1 \in S
  BY <1>1, <1>2
<1> QED  BY <1>1, <1>2, <1>3

(***************************************************************************)
(* The loop of split_layers.                                               *)
(***************************************************************************)
\* One unfolding of the recursive function of SplitLayersLoop.
LoopBody(L, n, g) ==
  [i \in 0..n |->
     IF i = 0 THEN <<0, 0>>
     ELSE <<g[i - 1][2], IF i = n THEN L ELSE g[i - 1][2] + (L \div n)>>]

\* What the loop has appended, in closed form.
LoopRanges(L, n) ==
  [i \in 0..n |->
     IF i = 0 THEN <<0, 0>> ELSE <<RangeStart(L, n, i), RangeEnd(L, n, i)>>]

\* The closed form takes the step of the loop.
LEMMA ClosedFormStep ==
  ASSUME NEW L \in Nat, NEW n \in Nat, n >= 1, n <= L, NEW i \in 1..n
  PROVE  LoopRanges(L, n)[i] = LoopBody(L, n, LoopRanges(L, n))[i]
<1> DEFINE b == L \div n
           c == LoopRanges(L, n)
<1> SUFFICES c[i] = <<c[i - 1][2], IF i = n THEN L ELSE c[i - 1][2] + b>>
  BY DEF LoopBody
<1>1. b \in Nat
  BY BaseSize
<1>2. c[i] = <<RangeStart(L, n, i), RangeEnd(L, n, i)>>
  BY DEF LoopRanges
<1>3. CASE i = 1
  <2>1. c[0] = <<0, 0>>
    BY DEF LoopRanges
  <2>2. RangeStart(L, n, 1) = 0 /\ RangeEnd(L, n, 1) = IF 1 = n THEN L ELSE b
    BY <1>1 DEF RangeStart, RangeEnd
  <2> QED  BY <1>1, <1>2, <1>3, <2>1, <2>2
<1>4. CASE i > 1
  <2>1. i - 1 \in 1..n /\ i - 1 < n
    BY <1>4
  <2>2. c[i - 1] = <<RangeStart(L, n, i - 1), RangeEnd(L, n, i - 1)>>
    BY <2>1 DEF LoopRanges
  <2>3. RangeEnd(L, n, i - 1) = RangeStart(L, n, i)
    BY <2>1, RangesAdjacent
  <2>4. RangeEnd(L, n, i) = IF i = n THEN L ELSE RangeStart(L, n, i) + b
    <3> HIDE DEF b
    <3>1. i * b = (i - 1) * b + b
      BY <1>1
    <3> QED  BY <3>1 DEF RangeStart, RangeEnd, b
  <2> HIDE DEF c, b
  <2> QED  BY <1>2, <2>2, <2>3, <2>4
<1> QED  BY <1>3, <1>4

\* The closed form of split_layers that plans and proofs use is what the
\* loop of the code accumulates, for every layer count and number of nodes:
\* it solves the loop's equation, and the equation has no other solution.
THEOREM SplitIsTheLoop ==
  ASSUME NEW L \in Nat, NEW n \in Nat, n >= 1, n <= L
  PROVE  SplitLayers(L, n) = SplitLayersLoop(L, n)
<1> DEFINE c == LoopRanges(L, n)
           f == CHOOSE g : g = LoopBody(L, n, g)
<1>1. c = LoopBody(L, n, c)
  <2>1. ASSUME NEW i \in 0..n  PROVE c[i] = LoopBody(L, n, c)[i]
    <3>1. CASE i = 0
      BY <3>1 DEF LoopRanges, LoopBody
    <3>2. CASE i \in 1..n
      BY <3>2, ClosedFormStep
    <3> QED  BY <3>1, <3>2
  <2>2. c = [i \in 0..n |-> c[i]]
    BY DEF LoopRanges
  <2>3. LoopBody(L, n, c) = [i \in 0..n |-> LoopBody(L, n, c)[i]]
    BY DEF LoopBody
  <2> HIDE DEF c
  <2> QED  BY <2>1, <2>2, <2>3
<1>2. f = LoopBody(L, n, f)
  BY <1>1, Zenon
<1> HIDE DEF f, c
<1>3. 0..n \subseteq {i \in 0..n : f[i] = c[i]}
  <2> DEFINE S == {i \in 0..n : f[i] = c[i]}
  <2>1. 0 \in S
    BY <1>1, <1>2 DEF LoopBody
  <2>2. ASSUME NEW i \in 1..n, i - 1 \in S  PROVE i \in S
    <3>1. f[i - 1] = c[i - 1] /\ i \in 0..n /\ i # 0
      BY <2>2
    <3>2. f[i] = <<f[i - 1][2], IF i = n THEN L ELSE f[i - 1][2] + (L \div n)>>
      BY <1>2, <3>1, Zenon DEF LoopBody
    <3>3. c[i] = <<c[i - 1][2], IF i = n THEN L ELSE c[i - 1][2] + (L \div n)>>
      BY <1>1, <3>1, Zenon DEF LoopBody
    <3> QED  BY <3>1, <3>2, <3>3
  <2> HIDE DEF S
  <2>3. 0..n \subseteq S
    BY <2>1, <2>2, Climb
  <2> QED  BY <2>3 DEF S
<1>4. SplitLayersLoop(L, n) = [i \in 1..n |-> f[i]]
  BY DEF SplitLayersLoop, f, LoopBody
<1>5. \A i \in 1..n : f[i] = <<RangeStart(L, n, i), RangeEnd(L, n, i)>>
  <2> SUFFICES ASSUME NEW i \in 1..n
               PROVE  f[i] = <<RangeStart(L, n, i), RangeEnd(L, n, i)>>
    OBVIOUS
  <2>1. i \in 0..n /\ i # 0
    OBVIOUS
  <2>2. f[i] = c[i]
    BY <1>3, <2>1
  <2>3. c[i] = <<RangeStart(L, n, i), RangeEnd(L, n, i)>>
    BY <2>1 DEF c, LoopRanges
  <2> QED  BY <2>2, <2>3
<1> QED  BY <1>4, <1>5 DEF SplitLayers
=============================================================================
