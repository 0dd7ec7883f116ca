--------------------- MODULE HierarchyClusteringProofs ---------------------
(***************************************************************************)
(* Proofs about HierarchyClustering for every topic, every number of       *)
(* keywords and every trigger size.                                        *)
(***************************************************************************)
EXTENDS HierarchyClustering, FiniteSetTheorems, WellFoundedInduction, TLAPS

\* While items are added, the ids are 0..n-1 and every set is a singleton, so
\* that item_sets_.size() is an id no set has.
Loading ==
    pc = "load" =>
        \E n \in 0..Len(input) :
            contents = [id \in 0..(n - 1) |-> {id + 1}]

\* Only an empty topic crashes Prepare, and nothing was added by then.
CrashedEmpty == pc = "crashed" => Len(input) = 0 /\ ItemSets = {}

\* The inductive invariant.
IInv ==
    /\ TypeOK
    /\ Loading
    /\ CrashedEmpty
    /\ ItemSetsPartition
    /\ SimilarityExact
    /\ SnapshotIsPartition
-----------------------------------------------------------------------------
(* Facts about the operators *)

LEMMA LenInput ==
    ASSUME input \in Inputs
    PROVE  Len(input) \in Nat
BY InputsAssumption

\* How an element of Pairs is taken apart and put together.
LEMMA PairsElements ==
    ASSUME NEW S
    PROVE  /\ \A p \in Pairs(S) : /\ p = <<p[1], p[2]>>
                                  /\ p[1] \in S /\ p[2] \in S
                                  /\ p[1] < p[2]
           /\ \A a, b \in S : a < b => <<a, b>> \in Pairs(S)
BY DEF Pairs

\* Merging two of the sets of a partition gives a partition.
LEMMA MergedPartition ==
    ASSUME NEW l \in ItemSets, NEW r \in ItemSets, l # r, IsPartition(contents)
    PROVE  /\ DOMAIN Merged(l, r) = ItemSets \ {r}
           /\ IsPartition(Merged(l, r))
<1> DEFINE m == Merged(l, r)
<1>1. DOMAIN m = ItemSets \ {r}
  BY DEF Merged
<1>2. m[l] = contents[l] \cup contents[r]
  BY <1>1 DEF Merged
<1>3. \A id \in ItemSets \ {l, r} : m[id] = contents[id]
  BY DEF Merged
<1>4. UNION Parts(m) = Items
  <2>1. ASSUME NEW x \in UNION Parts(m) PROVE x \in Items
    <3>1. PICK id \in ItemSets \ {r} : x \in m[id]
      BY <1>1, <2>1 DEF Parts
    <3>2. \E a \in ItemSets : x \in contents[a]
      BY <1>2, <1>3, <3>1
    <3> QED BY <3>2 DEF IsPartition, Parts, ItemSets
  <2>2. ASSUME NEW x \in Items PROVE x \in UNION Parts(m)
    <3>1. PICK a \in ItemSets : x \in contents[a]
      BY DEF IsPartition, Parts, ItemSets
    <3>2. \E id \in DOMAIN m : x \in m[id]
      BY <1>1, <1>2, <1>3, <3>1
    <3> QED BY <3>2 DEF Parts
  <2> QED BY <2>1, <2>2
<1>5. \A a \in DOMAIN m : m[a] # {}
  BY <1>1, <1>2, <1>3 DEF IsPartition, ItemSets
<1>6. \A a, b \in DOMAIN m : a # b => m[a] \cap m[b] = {}
  <2> SUFFICES ASSUME NEW a \in DOMAIN m, NEW b \in DOMAIN m, a # b
               PROVE  m[a] \cap m[b] = {}
    OBVIOUS
  <2>1. CASE a = l
    BY <1>1, <1>2, <1>3, <2>1 DEF IsPartition, ItemSets
  <2>2. CASE b = l
    BY <1>1, <1>2, <1>3, <2>2 DEF IsPartition, ItemSets
  <2>3. CASE a # l /\ b # l
    BY <1>1, <1>3, <2>3 DEF IsPartition, ItemSets
  <2> QED BY <2>1, <2>2, <2>3
<1> QED BY <1>1, <1>4, <1>5, <1>6 DEF IsPartition

\* The erase loop and the update loop of SingleMove turn an exact map into the
\* exact map of the merged sets.
LEMMA UpdatedSimilarityExact ==
    ASSUME ItemSets \subseteq Int,
           DOMAIN similarity = Pairs(ItemSets),
           \A p \in Pairs(ItemSets) :
              similarity[p] = Cosine(input, contents[p[1]], contents[p[2]]),
           NEW l \in ItemSets, NEW r \in ItemSets, l < r
    PROVE  LET m == Merged(l, r)
               s == UpdatedSimilarity(l, r, m)
           IN  /\ DOMAIN s = Pairs(DOMAIN m)
               /\ \A p \in Pairs(DOMAIN m) :
                     s[p] = Cosine(input, m[p[1]], m[p[2]])
<1> DEFINE m == Merged(l, r)
           s == UpdatedSimilarity(l, r, m)
           live == ItemSets \ {r}
           kept == DOMAIN similarity \ {MakePair(id, r) : id \in live}
           fresh == {MakePair(id, l) : id \in live \ {l}}
<1>1. DOMAIN m = live
  BY DEF Merged
<1>2. s = [p \in kept \cup fresh |->
              IF p \in fresh THEN Cosine(input, m[p[1]], m[p[2]])
                             ELSE similarity[p]]
  BY <1>1 DEF UpdatedSimilarity
<1>3. \A p \in fresh : p \in Pairs(live) /\ l \in {p[1], p[2]}
  BY DEF MakePair, Pairs
<1>4. \A p \in Pairs(live) : l \in {p[1], p[2]} => p \in fresh
  <2> SUFFICES ASSUME NEW a \in live, NEW b \in live, a < b, l \in {a, b}
               PROVE  <<a, b>> \in fresh
    <3>1. ASSUME NEW p \in Pairs(live), l \in {p[1], p[2]}
          PROVE  p \in fresh
      <4>1. p = <<p[1], p[2]>> /\ p[1] \in live /\ p[2] \in live /\ p[1] < p[2]
        BY PairsElements
      <4>2. <<p[1], p[2]>> \in fresh
        BY <3>1, <4>1
      <4> QED BY <4>1, <4>2
    <3> QED BY <3>1
  <2>1. CASE l = a
    <3>1. b \in live \ {l} /\ MakePair(b, l) = <<a, b>>
      BY <2>1 DEF MakePair
    <3> QED BY <3>1
  <2>2. CASE l = b
    <3>1. a \in live \ {l} /\ MakePair(a, l) = <<a, b>>
      BY <2>2 DEF MakePair
    <3> QED BY <3>1
  <2> QED BY <2>1, <2>2
<1>5. kept = Pairs(live)
  <2>1. ASSUME NEW p \in Pairs(live) PROVE p \in kept
    <3>1. p[1] # r /\ p[2] # r /\ p \in Pairs(ItemSets)
      BY DEF Pairs
    <3>2. \A id \in live : r \in {MakePair(id, r)[1], MakePair(id, r)[2]}
      BY DEF MakePair
    <3> QED BY <3>1, <3>2
  <2>2. ASSUME NEW a \in ItemSets, NEW b \in ItemSets, a < b, <<a, b>> \in kept
        PROVE  <<a, b>> \in Pairs(live)
    <3>1. CASE a = r
      <4>1. b \in live /\ MakePair(b, r) = <<a, b>>
        BY <2>2, <3>1 DEF MakePair
      <4> QED BY <2>2, <4>1
    <3>2. CASE b = r
      <4>1. a \in live /\ MakePair(a, r) = <<a, b>>
        BY <2>2, <3>2 DEF MakePair
      <4> QED BY <2>2, <4>1
    <3>3. CASE a # r /\ b # r
      BY <2>2, <3>3 DEF Pairs
    <3> QED BY <3>1, <3>2, <3>3
  <2>3. ASSUME NEW p \in kept PROVE p \in Pairs(live)
    <3>1. /\ p = <<p[1], p[2]>> /\ p[1] < p[2]
          /\ p[1] \in ItemSets /\ p[2] \in ItemSets
      BY <2>3, PairsElements
    <3>2. <<p[1], p[2]>> \in Pairs(live)
      BY <2>2, <2>3, <3>1
    <3> QED BY <3>1, <3>2
  <2> QED BY <2>1, <2>3
<1>6. DOMAIN s = Pairs(live)
  BY <1>2, <1>3, <1>5
<1>7. ASSUME NEW p \in Pairs(live)
      PROVE  s[p] = Cosine(input, m[p[1]], m[p[2]])
  <2>1. CASE p \in fresh
    BY <1>2, <2>1
  <2>2. CASE p \notin fresh
    <3>1. s[p] = similarity[p]
      BY <1>2, <1>5, <2>2
    <3>2. p[1] # l /\ p[2] # l
      BY <1>4, <2>2
    <3>3. p \in Pairs(ItemSets) /\ p[1] \in live /\ p[2] \in live
      BY DEF Pairs
    <3>4. m[p[1]] = contents[p[1]] /\ m[p[2]] = contents[p[2]]
      BY <3>2, <3>3 DEF Merged
    <3> QED BY <3>1, <3>3, <3>4
  <2> QED BY <2>1, <2>2
<1> QED BY <1>1, <1>6, <1>7
-----------------------------------------------------------------------------
(* The inductive invariant *)

\* Any two live sets that SingleMove picks are a pair of live sets.
LEMMA PickedPair ==
    ASSUME IInv, pc = "moving", NEW p \in MaxSimilarity
    PROVE  /\ p[1] \in ItemSets /\ p[2] \in ItemSets
           /\ p[1] \in Nat /\ p[2] \in Nat
           /\ p[1] < p[2]
           /\ p \in Pairs(ItemSets)
<1>1. p \in Pairs(ItemSets)
  BY DEF MaxSimilarity, IInv, SimilarityExact
<1>2. ItemSets \subseteq Nat
  BY LenInput DEF IInv, TypeOK
<1> QED BY <1>1, <1>2, PairsElements

LEMMA InitIInv == Init => IInv
<1> SUFFICES ASSUME Init PROVE IInv
  OBVIOUS
<1> USE DEF Init, NoFunction, ItemSets
<1>1. Len(input) \in Nat
  BY LenInput
<1>2. TypeOK
  BY <1>1 DEF TypeOK, Pairs
<1>3. Loading
  <2>1. 0..(0 - 1) = {}
    OBVIOUS
  <2>2. contents = [id \in 0..(0 - 1) |-> {id + 1}]
    BY <2>1
  <2> QED BY <1>1, <2>2 DEF Loading
<1>4. CrashedEmpty /\ ItemSetsPartition /\ SimilarityExact /\ SnapshotIsPartition
  BY DEF CrashedEmpty, ItemSetsPartition, SimilarityExact, SnapshotIsPartition
<1> QED BY <1>2, <1>3, <1>4 DEF IInv

LEMMA AddItemIInv == IInv /\ AddItem => IInv'
<1> SUFFICES ASSUME IInv, AddItem PROVE IInv'
  OBVIOUS
<1> USE DEF ItemSets
<1>1. Len(input) \in Nat
  BY LenInput DEF IInv, TypeOK
<1>2. PICK n \in 0..Len(input) : contents = [id \in 0..(n - 1) |-> {id + 1}]
  BY DEF IInv, Loading, AddItem
<1>3. Cardinality(ItemSets) = n
  <2>1. ItemSets = 0..(n - 1)
    BY <1>2
  <2> QED BY <1>1, <2>1, FS_Interval
<1>4. n < Len(input)
  BY <1>3 DEF AddItem
<1>5. contents' = [id \in 0..((n + 1) - 1) |-> {id + 1}]
  <2>1. 0..(n - 1) \cup {n} = 0..((n + 1) - 1)
    BY <1>1, <1>4
  <2> QED BY <1>2, <1>3, <2>1 DEF AddItem
<1>6. n + 1 \in 0..Len(input)
  BY <1>1, <1>4
<1>7. UNCHANGED <<pc, input, similarity, maxCU, cached, results>> /\ pc = "load"
  BY DEF AddItem
<1>8. TypeOK'
  <2>1. DOMAIN contents' = 0..((n + 1) - 1)
    BY <1>5
  <2>2. \A id \in 0..((n + 1) - 1) : contents'[id] = {id + 1} /\ id + 1 \in 1..Len(input)
    BY <1>1, <1>4, <1>5
  <2>3. DOMAIN contents' \subseteq 0..(Len(input) - 1)
    BY <1>1, <1>4, <2>1
  <2>4. contents' \in [DOMAIN contents' -> SUBSET (1..Len(input))]
    BY <1>5, <2>1, <2>2
  <2> QED BY <1>7, <2>3, <2>4 DEF IInv, TypeOK, Items
<1>9. Loading'
  BY <1>5, <1>6, <1>7 DEF Loading
<1>10. (CrashedEmpty /\ ItemSetsPartition /\ SimilarityExact)'
  BY <1>7 DEF CrashedEmpty, ItemSetsPartition, SimilarityExact
<1>11. SnapshotIsPartition'
  BY <1>7 DEF IInv, SnapshotIsPartition, IsPartition, Parts, Items, NoFunction
<1> QED BY <1>8, <1>9, <1>10, <1>11 DEF IInv

LEMMA PrepareIInv == IInv /\ Prepare => IInv'
<1> SUFFICES ASSUME IInv, Prepare PROVE IInv'
  OBVIOUS
<1> USE DEF ItemSets
<1>1. Len(input) \in Nat
  BY LenInput DEF IInv, TypeOK
<1>2. UNCHANGED <<input, contents, maxCU, cached, results>> /\ pc' = "moving"
  BY DEF Prepare
<1>3. contents = [id \in 0..(Len(input) - 1) |-> {id + 1}]
  <2>1. PICK n \in 0..Len(input) : contents = [id \in 0..(n - 1) |-> {id + 1}]
    BY DEF IInv, Loading, Prepare
  <2>2. Cardinality(ItemSets) = n
    <3>1. ItemSets = 0..(n - 1)
      BY <2>1
    <3> QED BY <1>1, <3>1, FS_Interval
  <2> QED BY <2>1, <2>2 DEF Prepare
<1>4. IsPartition(contents)
  <2>1. ASSUME NEW x \in UNION Parts(contents) PROVE x \in Items
    BY <1>1, <1>3, <2>1 DEF Parts, Items
  <2>2. ASSUME NEW x \in Items PROVE x \in UNION Parts(contents)
    <3>1. x - 1 \in 0..(Len(input) - 1) /\ x \in {(x - 1) + 1}
      BY <1>1 DEF Items
    <3>2. x - 1 \in DOMAIN contents /\ x \in contents[x - 1]
      BY <1>3, <3>1
    <3> QED BY <3>2 DEF Parts
  <2>3. \A a \in DOMAIN contents : contents[a] # {}
    BY <1>3
  <2>4. \A a, b \in DOMAIN contents : a # b => contents[a] \cap contents[b] = {}
    BY <1>1, <1>3
  <2> QED BY <2>1, <2>2, <2>3, <2>4 DEF IsPartition
<1>5. TypeOK'
  <2>1. DOMAIN similarity' = Pairs(ItemSets)
    BY DEF Prepare
  <2>2. Pairs(ItemSets) \subseteq Pairs(0..(Len(input) - 1))
    BY DEF IInv, TypeOK, Pairs
  <2> QED BY <1>2, <2>1, <2>2 DEF IInv, TypeOK, Items
<1>6. Loading' /\ CrashedEmpty'
  BY <1>2 DEF Loading, CrashedEmpty
<1>7. ItemSetsPartition'
  BY <1>2, <1>4 DEF ItemSetsPartition, IsPartition, Parts, Items
<1>8. SimilarityExact'
  BY <1>2 DEF Prepare, SimilarityExact
<1>9. SnapshotIsPartition'
  BY <1>2 DEF IInv, SnapshotIsPartition, IsPartition, Parts, Items, NoFunction
<1> QED BY <1>5, <1>6, <1>7, <1>8, <1>9 DEF IInv

LEMMA PrepareNothingIInv == IInv /\ PrepareNothing => IInv'
<1> SUFFICES ASSUME IInv, PrepareNothing PROVE IInv'
  OBVIOUS
<1> USE DEF ItemSets
<1>1. UNCHANGED <<input, contents, similarity, maxCU, cached, results>>
      /\ pc' = "crashed" /\ Len(input) = 0
  BY DEF PrepareNothing
<1>2. ItemSets = {}
  <2>1. ItemSets \subseteq 0..(0 - 1)
    BY <1>1 DEF IInv, TypeOK
  <2> QED BY <2>1
<1>3. TypeOK' /\ Loading' /\ CrashedEmpty' /\ SimilarityExact'
  BY <1>1, <1>2 DEF IInv, TypeOK, Loading, CrashedEmpty, SimilarityExact, Items
<1>4. ItemSetsPartition'
  <2>1. Items = {}
    BY <1>1 DEF Items
  <2>2. IsPartition(contents)
    BY <1>2, <2>1 DEF IsPartition, Parts
  <2> QED BY <1>1, <2>2 DEF ItemSetsPartition, IsPartition, Parts, Items
<1>5. SnapshotIsPartition'
  BY <1>1 DEF IInv, SnapshotIsPartition, IsPartition, Parts, Items, NoFunction
<1> QED BY <1>3, <1>4, <1>5 DEF IInv

LEMMA SingleMoveIInv == IInv /\ SingleMove => IInv'
<1> SUFFICES ASSUME IInv, SingleMove PROVE IInv'
  OBVIOUS
<1>1. PICK p \in MaxSimilarity :
         /\ contents' = Merged(p[1], p[2])
         /\ similarity' = UpdatedSimilarity(p[1], p[2], Merged(p[1], p[2]))
         /\ UpdateStateKeeper(Merged(p[1], p[2]))
  BY DEF SingleMove
<1>2. pc = "moving" /\ UNCHANGED <<pc, input, results>>
  BY DEF SingleMove
<1> DEFINE l == p[1]
           r == p[2]
           m == Merged(l, r)
<1>3. /\ l \in ItemSets /\ r \in ItemSets
      /\ l \in Nat /\ r \in Nat /\ l < r
  BY <1>2, PickedPair
<1>4. IsPartition(contents)
  BY <1>2 DEF IInv, ItemSetsPartition
<1>5. DOMAIN m = ItemSets \ {r} /\ IsPartition(m)
  BY <1>3, <1>4, MergedPartition
<1>6. ItemSets \subseteq 0..(Len(input) - 1)
  BY DEF IInv, TypeOK
<1>7. /\ DOMAIN similarity' = Pairs(DOMAIN m)
      /\ \A q \in Pairs(DOMAIN m) :
            similarity'[q] = Cosine(input, m[q[1]], m[q[2]])
  <2>1. /\ DOMAIN similarity = Pairs(ItemSets)
        /\ \A q \in Pairs(ItemSets) :
              similarity[q] = Cosine(input, contents[q[1]], contents[q[2]])
    BY <1>2 DEF IInv, SimilarityExact
  <2> QED BY <1>1, <1>3, <1>6, <2>1, UpdatedSimilarityExact
<1>8. m \in [DOMAIN m -> SUBSET Items]
  BY <1>3, <1>5 DEF IInv, TypeOK, Merged
<1>9. (cached' = m /\ Cardinality(DOMAIN m) <= TriggerSize) \/ cached' = cached
  BY <1>1 DEF UpdateStateKeeper
<1>10. TypeOK'
  <2>1. Pairs(DOMAIN m) \subseteq Pairs(0..(Len(input) - 1))
    BY <1>5, <1>6 DEF Pairs
  <2>2. cached' \in [DOMAIN cached' -> SUBSET Items]
    BY <1>8, <1>9 DEF IInv, TypeOK
  <2>3. DOMAIN m \subseteq 0..(Len(input) - 1)
    BY <1>5, <1>6
  <2> QED BY <1>1, <1>2, <1>7, <1>8, <2>1, <2>2, <2>3
          DEF IInv, TypeOK, Items, ItemSets
<1>11. Loading' /\ CrashedEmpty'
  BY <1>2 DEF Loading, CrashedEmpty
<1>12. ItemSetsPartition'
  BY <1>1, <1>2, <1>5 DEF ItemSetsPartition, IsPartition, Parts, Items
<1>13. SimilarityExact'
  BY <1>1, <1>2, <1>7 DEF SimilarityExact, ItemSets
<1>14. SnapshotIsPartition'
  <2>1. CASE cached' = m /\ Cardinality(DOMAIN m) <= TriggerSize
    BY <1>2, <1>5, <2>1 DEF SnapshotIsPartition, IsPartition, Parts, Items
  <2>2. CASE cached' = cached
    BY <1>2, <2>2
       DEF IInv, SnapshotIsPartition, IsPartition, Parts, Items, NoFunction
  <2> QED BY <1>9, <2>1, <2>2
<1> QED BY <1>10, <1>11, <1>12, <1>13, <1>14 DEF IInv

LEMMA GetClusterResultsIInv == IInv /\ GetClusterResults => IInv'
<1> SUFFICES ASSUME IInv, GetClusterResults PROVE IInv'
  OBVIOUS
<1>1. UNCHANGED <<input, contents, similarity, maxCU, cached>>
      /\ pc = "moving" /\ pc' = "done" /\ results' = Kept(cached)
  BY DEF GetClusterResults
<1>2. Kept(cached) \in [DOMAIN Kept(cached) -> SUBSET Items]
  BY DEF Kept, IInv, TypeOK
<1>3. TypeOK'
  BY <1>1, <1>2 DEF IInv, TypeOK, Items, ItemSets
<1>4. Loading' /\ CrashedEmpty'
  BY <1>1 DEF Loading, CrashedEmpty
<1>5. ItemSetsPartition' /\ SimilarityExact' /\ SnapshotIsPartition'
  BY <1>1 DEF IInv, ItemSetsPartition, SimilarityExact, SnapshotIsPartition,
              IsPartition, Parts, Items, ItemSets, NoFunction
<1> QED BY <1>3, <1>4, <1>5 DEF IInv

LEMMA StutterIInv == IInv /\ UNCHANGED vars => IInv'
BY SMTT(30) DEF IInv, vars, TypeOK, Loading, CrashedEmpty, ItemSetsPartition,
       SimilarityExact, SnapshotIsPartition, IsPartition, Parts, Items,
       ItemSets, NoFunction

\* The inductive invariant of the clustering: whatever is added and merged, the state
\* is that of a loading or of a partition with an exact map and a whole snapshot.
THEOREM Invariance == Spec => []IInv
<1>1. IInv /\ [Next]_vars => IInv'
  BY AddItemIInv, PrepareIInv, PrepareNothingIInv, SingleMoveIInv,
     GetClusterResultsIInv, StutterIInv DEF Next
<1> QED BY InitIInv, <1>1, PTL DEF Spec

-----------------------------------------------------------------------------
(* What follows from it *)

\* The variables keep the shape of the program's types: AddItem's ids, the keys
\* of the map and the snapshots never leave the positions of the input.
THEOREM TypeCorrect == Spec => []TypeOK
<1>1. IInv => TypeOK
  BY DEF IInv
<1> QED BY Invariance, <1>1, PTL

\* Whatever is merged, in whatever order, the item sets partition the messages.
THEOREM PartitionCorrect == Spec => []ItemSetsPartition
<1>1. IInv => ItemSetsPartition
  BY DEF IInv
<1> QED BY Invariance, <1>1, PTL

\* The incrementally maintained map is the map a recomputation would give.
THEOREM SimilarityCorrect == Spec => []SimilarityExact
<1>1. IInv => SimilarityExact
  BY DEF IInv
<1> QED BY Invariance, <1>1, PTL

\* The kept snapshot is one whole partition of at most TriggerSize sets.
THEOREM SnapshotCorrect == Spec => []SnapshotIsPartition
<1>1. IInv => SnapshotIsPartition
  BY DEF IInv
<1> QED BY Invariance, <1>1, PTL

\* Every merge is a greedy one: the map is exact, so its maximum is the pair of
\* most similar sets.
THEOREM GreedyCorrect == Spec => JoinsMostSimilar
<1> DEFINE Greedy ==
        pc = "moving" =>
            \E p \in Pairs(ItemSets) :
                /\ contents' = Merged(p[1], p[2])
                /\ \A q \in Pairs(ItemSets) :
                      ~FracLess(Cosine(input, contents[p[1]], contents[p[2]]),
                                Cosine(input, contents[q[1]], contents[q[2]]))
<1>1. IInv /\ [Next]_vars => [Greedy]_contents
  <2> SUFFICES ASSUME IInv, [Next]_vars, contents' # contents, pc = "moving"
               PROVE  Greedy
    OBVIOUS
  <2>1. SingleMove
    BY DEF Next, vars, AddItem, Prepare, PrepareNothing, GetClusterResults
  <2>2. PICK p \in MaxSimilarity : contents' = Merged(p[1], p[2])
    BY <2>1 DEF SingleMove
  <2>3. p \in Pairs(ItemSets)
    BY PickedPair
  <2>4. /\ DOMAIN similarity = Pairs(ItemSets)
        /\ \A q \in Pairs(ItemSets) :
              similarity[q] = Cosine(input, contents[q[1]], contents[q[2]])
    BY DEF IInv, SimilarityExact
  <2>5. \A q \in Pairs(ItemSets) : ~FracLess(similarity[p], similarity[q])
    BY <2>4 DEF MaxSimilarity
  <2> QED BY <2>2, <2>3, <2>4, <2>5
<1> QED BY Invariance, <1>1, PTL DEF Spec, JoinsMostSimilar

-----------------------------------------------------------------------------
(* HierarchyClustering implements Agglomeration *)

\* The value kept with a snapshot is the utility of that snapshot.
UtilityOfSnapshot ==
    cached # NoFunction => maxCU = CategoryUtility(input, Parts(cached))

LEMMA UtilityOfSnapshotStep ==
    UtilityOfSnapshot /\ [Next]_vars => UtilityOfSnapshot'
<1> SUFFICES ASSUME UtilityOfSnapshot, [Next]_vars PROVE UtilityOfSnapshot'
  OBVIOUS
<1> USE DEF UtilityOfSnapshot, NoFunction
<1>1. CASE UNCHANGED <<input, maxCU, cached>>
  BY <1>1 DEF Parts
<1>2. CASE SingleMove
  <2>1. PICK p \in MaxSimilarity : UpdateStateKeeper(Merged(p[1], p[2]))
    BY <1>2 DEF SingleMove
  <2>2. input' = input
    BY <1>2 DEF SingleMove
  <2>3. CASE /\ maxCU' = CategoryUtility(input, Parts(Merged(p[1], p[2])))
             /\ cached' = Merged(p[1], p[2])
    BY <2>2, <2>3 DEF Parts
  <2>4. CASE UNCHANGED <<maxCU, cached>>
    BY <1>1, <2>2, <2>4
  <2> QED BY <2>1, <2>3, <2>4 DEF UpdateStateKeeper
<1> QED BY <1>1, <1>2
        DEF Next, vars, AddItem, Prepare, PrepareNothing, GetClusterResults

\* The parts of a partition are as many as its ids.
LEMMA PartsCardinality ==
    ASSUME NEW m, IsPartition(m), IsFiniteSet(DOMAIN m)
    PROVE  Cardinality(Parts(m)) = Cardinality(DOMAIN m)
<1> DEFINE f == [id \in DOMAIN m |-> m[id]]
<1>1. f \in Injection(DOMAIN m, Parts(m))
  BY DEF Injection, IsInjective, Parts, IsPartition
<1>2. f \in Surjection(DOMAIN m, Parts(m))
  BY DEF Surjection, Parts
<1>3. ExistsBijection(DOMAIN m, Parts(m))
  BY <1>1, <1>2 DEF ExistsBijection, Bijection
<1> QED BY <1>3, FS_Bijection

\* On the parts, a merge replaces two parts by their union.
LEMMA MergedParts ==
    ASSUME NEW l \in ItemSets, NEW r \in ItemSets, l # r, IsPartition(contents)
    PROVE  /\ contents[l] # contents[r]
           /\ Parts(Merged(l, r)) =
                (Parts(contents) \ {contents[l], contents[r]})
                    \cup {contents[l] \cup contents[r]}
<1> DEFINE m == Merged(l, r)
<1>1. \A a, b \in ItemSets : a # b => contents[a] # contents[b]
  BY DEF IsPartition, ItemSets
<1>2. /\ DOMAIN m = ItemSets \ {r}
      /\ m[l] = contents[l] \cup contents[r]
      /\ \A id \in ItemSets \ {l, r} : m[id] = contents[id]
  BY DEF Merged
<1>3. ASSUME NEW x \in Parts(m)
      PROVE  x \in (Parts(contents) \ {contents[l], contents[r]})
                       \cup {contents[l] \cup contents[r]}
  BY <1>1, <1>2 DEF Parts, ItemSets
<1>4. ASSUME NEW x \in Parts(contents) \ {contents[l], contents[r]}
      PROVE  x \in Parts(m)
  BY <1>2 DEF Parts, ItemSets
<1>5. contents[l] \cup contents[r] \in Parts(m)
  BY <1>2 DEF Parts
<1> QED BY <1>1, <1>3, <1>4, <1>5

absParts == IF pc = "load" THEN {{i} : i \in Items} ELSE Parts(contents)

LEMMA AbstractInit == Init => Abstract!Init
BY DEF Init, Abstract!Init, Items, Parts, NoFunction

LEMMA AbstractSingleMove ==
    IInv /\ UtilityOfSnapshot /\ SingleMove => Abstract!Next
<1> SUFFICES ASSUME IInv, UtilityOfSnapshot, SingleMove PROVE Abstract!Next
  OBVIOUS
<1>1. PICK p \in MaxSimilarity :
         /\ contents' = Merged(p[1], p[2])
         /\ UpdateStateKeeper(Merged(p[1], p[2]))
  BY DEF SingleMove
<1>2. pc = "moving" /\ UNCHANGED <<pc, input>>
  BY DEF SingleMove
<1> DEFINE l == p[1]
           r == p[2]
           m == Merged(l, r)
           A == contents[l]
           B == contents[r]
<1>3. l \in ItemSets /\ r \in ItemSets /\ l # r /\ p \in Pairs(ItemSets)
  BY <1>2, PickedPair
<1>4. IsPartition(contents)
  BY <1>2 DEF IInv, ItemSetsPartition
<1>5. A # B /\ Parts(m) = (Parts(contents) \ {A, B}) \cup {A \cup B}
  BY <1>3, <1>4, MergedParts
<1>6. A \in Parts(contents) /\ B \in Parts(contents)
  BY <1>3 DEF Parts, ItemSets
<1>7. Abstract!MostSimilar(A, B)
  <2> SUFFICES ASSUME NEW a \in ItemSets, NEW b \in ItemSets,
                      contents[a] # contents[b]
               PROVE  \/ ~FracLess(Cosine(input, A, B),
                                   Cosine(input, contents[a], contents[b]))
                      \/ ~FracLess(Cosine(input, A, B),
                                   Cosine(input, contents[b], contents[a]))
    BY <1>2 DEF Abstract!MostSimilar, Parts, ItemSets
  <2>1. ItemSets \subseteq Nat
    BY LenInput DEF IInv, TypeOK
  <2>2. <<a, b>> \in Pairs(ItemSets) \/ <<b, a>> \in Pairs(ItemSets)
    <3>1. a < b \/ b < a
      BY <2>1
    <3> QED BY <3>1, PairsElements
  <2>3. \A q \in Pairs(ItemSets) :
          ~FracLess(Cosine(input, A, B),
                    Cosine(input, contents[q[1]], contents[q[2]]))
    <3>1. /\ DOMAIN similarity = Pairs(ItemSets)
          /\ \A q \in Pairs(ItemSets) :
                similarity[q] = Cosine(input, contents[q[1]], contents[q[2]])
      BY <1>2 DEF IInv, SimilarityExact
    <3> QED BY <1>3, <3>1 DEF MaxSimilarity
  <2> QED BY <2>2, <2>3
<1>8. Cardinality(Parts(m)) = Cardinality(DOMAIN m) /\ Cardinality(DOMAIN m) \in Nat
  <2>1. IsPartition(m) /\ DOMAIN m = ItemSets \ {r}
    BY <1>3, <1>4, MergedPartition
  <2>2. IsFiniteSet(0..(Len(input) - 1))
    <3>1. Len(input) \in Nat
      BY LenInput DEF IInv, TypeOK
    <3> QED BY <3>1, FS_Interval
  <2>3. IsFiniteSet(DOMAIN m)
    BY <2>1, <2>2, FS_Subset DEF IInv, TypeOK
  <2> QED BY <2>1, <2>3, PartsCardinality, FS_CardinalityType
<1>9. cached = NoFunction <=> Parts(cached) = {}
  <2>1. cached = [id \in DOMAIN cached |-> cached[id]]
    BY DEF IInv, TypeOK
  <2>2. DOMAIN cached = {} => cached = NoFunction
    BY <2>1 DEF NoFunction
  <2>3. Parts(cached) = {} <=> DOMAIN cached = {}
    BY DEF Parts
  <2> QED BY <2>2, <2>3 DEF NoFunction
<1>10. Abstract!KeepBest((Parts(contents) \ {A, B}) \cup {A \cup B})
  <2>1. CASE /\ Cardinality(DOMAIN m) <= TriggerSize
             /\ ~FracLess(CategoryUtility(input, Parts(m)), maxCU)
             /\ cached' = m
    <3>1. Parts(cached)' = Parts(m)
      BY <2>1 DEF Parts
    <3> QED BY <1>5, <1>8, <1>9, <2>1, <3>1
            DEF Abstract!KeepBest, UtilityOfSnapshot, FewParts
  <2>2. CASE /\ \/ Cardinality(DOMAIN m) > TriggerSize
                \/ ~FracLess(maxCU, CategoryUtility(input, Parts(m)))
             /\ cached' = cached
    <3>1. Parts(cached)' = Parts(cached)
      BY <2>2 DEF Parts
    <3> QED BY <1>5, <1>8, <1>9, <2>2, <3>1, TriggerAssumption
            DEF Abstract!KeepBest, UtilityOfSnapshot, FewParts
  <2> QED BY <1>1, <2>1, <2>2 DEF UpdateStateKeeper
<1>11. Parts(contents)' = (Parts(contents) \ {A, B}) \cup {A \cup B}
  BY <1>1, <1>5 DEF Parts
<1> QED
  BY <1>2, <1>5, <1>6, <1>7, <1>10, <1>11
     DEF Abstract!Next, Abstract!Join, Abstract!KeepBest

\* Every other step leaves the abstract variables alone.
LEMMA AbstractStutter ==
    IInv /\ [Next]_vars /\ ~SingleMove =>
        UNCHANGED <<input, absParts, Parts(cached)>>
<1> SUFFICES ASSUME IInv, [Next]_vars, ~SingleMove
             PROVE  UNCHANGED <<input, absParts, Parts(cached)>>
  OBVIOUS
<1> USE DEF absParts, Items
<1>1. UNCHANGED <<input, cached>>
  BY DEF Next, vars, AddItem, Prepare, PrepareNothing, GetClusterResults
<1>2. Parts(cached)' = Parts(cached)
  BY <1>1 DEF Parts
<1>3. absParts' = absParts
  <2>1. CASE AddItem \/ GetClusterResults \/ UNCHANGED vars
    BY <1>1, <2>1 DEF AddItem, GetClusterResults, vars, Parts
  <2>2. CASE Prepare
    <3>1. Len(input) \in Nat
      BY LenInput DEF IInv, TypeOK
    <3>2. PICK n \in 0..Len(input) : contents = [id \in 0..(n - 1) |-> {id + 1}]
      BY <2>2 DEF IInv, Loading, Prepare
    <3>3. Cardinality(DOMAIN contents) = n
      BY <3>1, <3>2, FS_Interval
    <3>4. n = Len(input)
      BY <2>2, <3>3 DEF Prepare, ItemSets
    <3>5. Parts(contents) = {{i} : i \in 1..Len(input)}
      <4>1. \A i \in 1..Len(input) : i - 1 \in DOMAIN contents /\ contents[i - 1] = {i}
        BY <3>1, <3>2, <3>4
      <4>2. \A id \in DOMAIN contents : id + 1 \in 1..Len(input) /\ contents[id] = {id + 1}
        BY <3>1, <3>2, <3>4
      <4>3. \A x \in Parts(contents) : x \in {{i} : i \in 1..Len(input)}
        BY <4>2 DEF Parts
      <4>4. \A x \in {{i} : i \in 1..Len(input)} : x \in Parts(contents)
        BY <4>1 DEF Parts
      <4> QED BY <4>3, <4>4
    <3> QED BY <2>2, <3>5 DEF Prepare, Parts
  <2>3. CASE PrepareNothing
    <3>1. Len(input) = 0 /\ DOMAIN contents \subseteq 0..(0 - 1)
      BY <2>3 DEF PrepareNothing, IInv, TypeOK, ItemSets
    <3>2. Parts(contents) = {} /\ {{i} : i \in 1..0} = {}
      BY <3>1 DEF Parts
    <3>3. pc = "load" /\ pc' = "crashed" /\ contents' = contents
      BY <2>3 DEF PrepareNothing
    <3> QED BY <1>1, <3>1, <3>2, <3>3 DEF Parts
  <2> QED BY <2>1, <2>2, <2>3 DEF Next
<1> QED BY <1>1, <1>2, <1>3

\* The program implements greedy agglomeration: incremental map, ids, erased
\* sets and snapshots are invisible to who only sees the partition and the best.
THEOREM Refinement == Spec => ImplementsAgglomeration
<1>1. Init => UtilityOfSnapshot
  BY DEF Init, UtilityOfSnapshot
<1>2. IInv /\ UtilityOfSnapshot /\ [Next]_vars =>
        [Abstract!Next]_<<input, absParts, Parts(cached)>>
  BY AbstractSingleMove, AbstractStutter
<1>3. Spec => []UtilityOfSnapshot
  BY <1>1, UtilityOfSnapshotStep, PTL DEF Spec
<1> QED BY Invariance, AbstractInit, <1>2, <1>3, PTL
        DEF Spec, ImplementsAgglomeration, Abstract!Spec, absParts

-----------------------------------------------------------------------------
(* Sums of integers, as the community modules compute them *)

OneOf(s) == CHOOSE x \in s : TRUE

\* The sum of f over each set of its arguments: take one out, sum the rest.
SumIter(f) ==
    CHOOSE g : g = [s \in SUBSET DOMAIN f |->
                       IF s = {} THEN 0
                       ELSE f[CHOOSE x \in s : TRUE] + g[s \ {CHOOSE x \in s : TRUE}]]

\* g is that function as far as sets of n elements.
SumsUpTo(g, f, n) ==
    /\ g = [s \in {t \in SUBSET DOMAIN f : Cardinality(t) <= n} |-> g[s]]
    /\ \A s \in SUBSET DOMAIN f : Cardinality(s) <= n =>
           g[s] = IF s = {} THEN 0 ELSE f[OneOf(s)] + g[s \ {OneOf(s)}]

\* Every non-empty set of natural numbers has a least element.
LEMMA LeastNatural ==
    ASSUME NEW S \in SUBSET Nat, S # {}
    PROVE  \E m \in S : \A k \in S : m <= k
<1>1. PICK m \in S : \A k \in S : ~(<<k, m>> \in OpToRel(<, Nat))
  BY NatLessThanWellFounded, WFMin, Zenon
<1>2. \A k \in S : ~(k < m)
  BY <1>1 DEF OpToRel
<1> QED
  BY <1>2

LEMMA OneLess ==
    ASSUME NEW s, IsFiniteSet(s), s # {}
    PROVE  /\ OneOf(s) \in s
           /\ IsFiniteSet(s \ {OneOf(s)})
           /\ Cardinality(s \ {OneOf(s)}) = Cardinality(s) - 1
           /\ Cardinality(s) \in Nat \ {0}
<1>1. OneOf(s) \in s
  BY DEF OneOf
<1> QED
  BY <1>1, FS_RemoveElement, FS_EmptySet, FS_CardinalityType

\* The recursion over the sets of arguments does define a function.
LEMMA SumsExist ==
    ASSUME NEW f, IsFiniteSet(DOMAIN f), NEW m \in Nat
    PROVE  \E g : SumsUpTo(g, f, m)
<1> DEFINE Bad == {k \in Nat : ~ \E g : SumsUpTo(g, f, k)}
           Small(k) == {t \in SUBSET DOMAIN f : Cardinality(t) <= k}
<1>0. \A t \in SUBSET DOMAIN f : /\ IsFiniteSet(t) /\ Cardinality(t) \in Nat
                                 /\ Cardinality(t) = 0 <=> t = {}
  BY FS_Subset, FS_CardinalityType, FS_EmptySet
<1>1. SUFFICES ASSUME Bad # {} PROVE FALSE
  OBVIOUS
<1>2. PICK k \in Bad : \A l \in Bad : k <= l
  <2>1. Bad \in SUBSET Nat
    OBVIOUS
  <2> HIDE DEF Bad
  <2> QED
    BY <1>1, <2>1, LeastNatural
<1>3. k # 0
  <2>1. PICK g : g = [s \in Small(0) |-> 0]
    OBVIOUS
  <2>2. \A s \in SUBSET DOMAIN f : Cardinality(s) <= 0 => s = {} /\ g[s] = 0
    BY <1>0, <2>1
  <2>3. SumsUpTo(g, f, 0)
    BY <2>1, <2>2 DEF SumsUpTo
  <2> QED
    BY <1>2, <2>3
<1>4. k - 1 \in Nat /\ k - 1 \notin Bad /\ k \in Nat
  BY <1>2, <1>3
<1>5. PICK g : SumsUpTo(g, f, k - 1)
  BY <1>4
<1>6. PICK h : h = [s \in Small(k) |->
                       IF s = {} THEN 0 ELSE f[OneOf(s)] + g[s \ {OneOf(s)}]]
  OBVIOUS
<1>7. ASSUME NEW s \in SUBSET DOMAIN f, Cardinality(s) <= k - 1
      PROVE  h[s] = g[s]
  <2>1. s \in Small(k)
    BY <1>0, <1>4, <1>7
  <2>2. g[s] = IF s = {} THEN 0 ELSE f[OneOf(s)] + g[s \ {OneOf(s)}]
    BY <1>5, <1>7 DEF SumsUpTo
  <2> QED
    BY <1>6, <2>1, <2>2
<1>8. ASSUME NEW s \in SUBSET DOMAIN f, Cardinality(s) <= k
      PROVE  h[s] = IF s = {} THEN 0 ELSE f[OneOf(s)] + h[s \ {OneOf(s)}]
  <2>1. h[s] = IF s = {} THEN 0 ELSE f[OneOf(s)] + g[s \ {OneOf(s)}]
    BY <1>6, <1>8
  <2>2. CASE s # {}
    <3>1. s \ {OneOf(s)} \in SUBSET DOMAIN f /\ Cardinality(s \ {OneOf(s)}) <= k - 1
      BY <1>0, <1>4, <1>8, <2>2, OneLess
    <3>2. h[s \ {OneOf(s)}] = g[s \ {OneOf(s)}]
      BY <1>7, <3>1
    <3> QED
      BY <2>1, <3>2
  <2> QED
    BY <2>1, <2>2
<1>9. SumsUpTo(h, f, k)
  <2>1. h = [s \in Small(k) |-> h[s]]
    BY <1>6
  <2> QED
    BY <1>8, <2>1 DEF SumsUpTo
<1> QED
  BY <1>2, <1>9

\* So the sum over a set is one value more than the sum over the rest.
LEMMA SumSteps ==
    ASSUME NEW f, IsFiniteSet(DOMAIN f)
    PROVE  /\ SumFunction(f) = SumIter(f)[DOMAIN f]
           /\ \A s \in SUBSET DOMAIN f :
                  SumIter(f)[s] = IF s = {} THEN 0
                                  ELSE f[OneOf(s)] + SumIter(f)[s \ {OneOf(s)}]
<1>1. SumFunction(f) = SumIter(f)[DOMAIN f]
  BY DEF SumFunction, SumFunctionOnSet, FoldFunctionOnSet, MapThenFoldSet, SumIter
<1>2. PICK g : SumsUpTo(g, f, Cardinality(DOMAIN f))
  BY SumsExist, FS_CardinalityType
<1>3. \A s \in SUBSET DOMAIN f : Cardinality(s) <= Cardinality(DOMAIN f)
  BY FS_Subset
<1>4. g = [s \in SUBSET DOMAIN f |->
              IF s = {} THEN 0
              ELSE f[CHOOSE x \in s : TRUE] + g[s \ {CHOOSE x \in s : TRUE}]]
  <2>1. {t \in SUBSET DOMAIN f : Cardinality(t) <= Cardinality(DOMAIN f)} = SUBSET DOMAIN f
    BY <1>3
  <2>2. g = [s \in SUBSET DOMAIN f |-> g[s]]
    BY <1>2, <2>1 DEF SumsUpTo
  <2>3. \A s \in SUBSET DOMAIN f :
            g[s] = IF s = {} THEN 0
                   ELSE f[CHOOSE x \in s : TRUE] + g[s \ {CHOOSE x \in s : TRUE}]
    BY <1>2, <1>3 DEF SumsUpTo, OneOf
  <2> QED
    BY <2>2, <2>3
<1> DEFINE it == SumIter(f)
<1>5. it = [s \in SUBSET DOMAIN f |->
               IF s = {} THEN 0
               ELSE f[CHOOSE x \in s : TRUE] + it[s \ {CHOOSE x \in s : TRUE}]]
  BY <1>4 DEF SumIter
<1> HIDE DEF it
<1>6. \A s \in SUBSET DOMAIN f :
          it[s] = IF s = {} THEN 0
                  ELSE f[CHOOSE x \in s : TRUE] + it[s \ {CHOOSE x \in s : TRUE}]
  BY <1>5
<1> QED
  BY <1>1, <1>6 DEF it, OneOf

\* A finite sum of integers is an integer.
LEMMA SumIsInt ==
    ASSUME NEW f, IsFiniteSet(DOMAIN f), \A x \in DOMAIN f : f[x] \in Int
    PROVE  SumFunction(f) \in Int
<1> DEFINE it == SumIter(f)
           Bad == {k \in Nat : \E s \in SUBSET DOMAIN f : Cardinality(s) = k /\ it[s] \notin Int}
<1>1. \A s \in SUBSET DOMAIN f :
          it[s] = IF s = {} THEN 0 ELSE f[OneOf(s)] + it[s \ {OneOf(s)}]
  BY SumSteps
<1> HIDE DEF it
<1>2. ASSUME Bad # {} PROVE FALSE
  <2>1. Bad \in SUBSET Nat
    OBVIOUS
  <2>2. PICK k \in Bad : \A l \in Bad : k <= l
    <3> HIDE DEF Bad
    <3> QED
      BY <1>2, <2>1, LeastNatural
  <2>3. PICK s \in SUBSET DOMAIN f : Cardinality(s) = k /\ it[s] \notin Int
    BY <2>2
  <2>4. s # {} /\ IsFiniteSet(s)
    <3>1. ASSUME s = {} PROVE FALSE
      <4>1. it[s] = 0
        BY <1>1, <3>1, Zenon
      <4> QED
        BY <2>3, <4>1
    <3> QED
      BY <3>1, FS_Subset
  <2>5. /\ OneOf(s) \in DOMAIN f /\ s \ {OneOf(s)} \in SUBSET DOMAIN f
        /\ Cardinality(s \ {OneOf(s)}) = k - 1 /\ k \in Nat \ {0}
    BY <2>3, <2>4, OneLess
  <2>6. k - 1 \notin Bad /\ k - 1 \in Nat
    BY <2>2, <2>5
  <2>7. it[s \ {OneOf(s)}] \in Int
    BY <2>5, <2>6
  <2> QED
    BY <1>1, <2>3, <2>4, <2>5, <2>7
<1>3. it[DOMAIN f] \in Int
  <2>1. Cardinality(DOMAIN f) \in Nat
    BY FS_CardinalityType
  <2> QED
    BY <1>2, <2>1
<1> QED
  BY <1>3, SumSteps DEF it

\* The sum of a single value is that value.
LEMMA SumOfOne ==
    ASSUME NEW f, NEW a, DOMAIN f = {a}, f[a] \in Int
    PROVE  SumFunction(f) = f[a]
<1>1. IsFiniteSet({a})
  BY FS_Singleton
<1>2. OneOf({a}) = a
  BY DEF OneOf
<1>3. SumIter(f)[{a}] = f[a] + SumIter(f)[{}] /\ SumIter(f)[{}] = 0
  <2>1. {a} \ {a} = {} /\ {a} # {}
    OBVIOUS
  <2> QED
    BY <1>1, <1>2, <2>1, SumSteps
<1>4. SumFunction(f) = f[a] + 0
  BY <1>1, <1>3, SumSteps
<1> QED
  BY <1>4

-----------------------------------------------------------------------------
(* StateKeeper keeps the best partition *)

\* Nothing is kept and the bound still has its initial value, or the value is
\* that of the kept snapshot; once all messages are in one set, that partition
\* has been compared and something is kept; and the present partition, if it has
\* been compared, is not better than what is kept.
FirstValue == cached = NoFunction => maxCU = MinusOne(Len(input))

OneSetCompared ==
    pc \in {"moving", "done"} /\ Cardinality(ItemSets) <= 1 /\ Len(input) >= 2
        => cached # NoFunction

ComparedIsNoBetter ==
    /\ pc # "load"
    /\ Cardinality(ItemSets) < Len(input)
    /\ Cardinality(ItemSets) <= TriggerSize
    => ~FracLess(maxCU, CategoryUtility(input, Parts(contents)))

DoneIsOneSet == pc = "done" => Cardinality(ItemSets) <= 1

BestInv ==
    /\ IInv
    /\ UtilityOfSnapshot
    /\ FirstValue
    /\ OneSetCompared
    /\ ComparedIsNoBetter
    /\ DoneIsOneSet

LEMMA DotIsInt ==
    ASSUME NEW vec, NEW A, NEW B, IsFiniteSet(A), IsFiniteSet(B)
    PROVE  Dot(vec, A, B) \in Int
<1> DEFINE f == [d \in Dims |-> FeatureSum(vec, A, d) * FeatureSum(vec, B, d)]
<1>1. \A d : FeatureSum(vec, A, d) \in Nat /\ FeatureSum(vec, B, d) \in Nat
  <2>1. \A d : IsFiniteSet({i \in A : d \in vec[i]}) /\ IsFiniteSet({i \in B : d \in vec[i]})
    BY FS_Subset
  <2> QED
    BY <2>1, FS_CardinalityType DEF FeatureSum
<1>2. \A d \in DOMAIN f : f[d] \in Int
  BY <1>1
<1>3. IsFiniteSet(DOMAIN f)
  BY DimsAssumption
<1> HIDE DEF f
<1>4. SumFunction(f) \in Int
  BY <1>2, <1>3, SumIsInt
<1> QED
  BY <1>4 DEF Dot, f

\* The category utility of a partition is a fraction of two integers.
LEMMA UtilityIsFraction ==
    ASSUME NEW vec, NEW P, IsFiniteSet(P), IsFiniteSet(UNION P),
           \A A \in P : A # {}
    PROVE  /\ CategoryUtility(vec, P)[1] \in Int
           /\ CategoryUtility(vec, P)[2] \in Nat
<1> DEFINE all == UNION P
           n == Cardinality(all)
           within == [A \in P |-> n * (CUScale \div Cardinality(A)) * Dot(vec, A, A)]
<1>1. n \in Nat /\ CUScale \in Nat /\ Dot(vec, all, all) \in Int /\ Cardinality(P) \in Nat
  BY FS_CardinalityType, CUScaleAssumption, DotIsInt
<1>2. ASSUME NEW A \in P PROVE within[A] \in Int
  <2>1. IsFiniteSet(A)
    BY FS_Subset
  <2>2. Cardinality(A) \in Nat /\ Cardinality(A) # 0
    BY <2>1, FS_CardinalityType, FS_EmptySet
  <2>3. CUScale \div Cardinality(A) \in Int
    BY <1>1, <2>2
  <2>4. Dot(vec, A, A) \in Int
    BY <2>1, DotIsInt
  <2> QED
    BY <1>1, <2>3, <2>4
<1>3. SumFunction(within) \in Int
  <2>1. DOMAIN within = P
    OBVIOUS
  <2> HIDE DEF within
  <2> QED
    BY <1>2, <2>1, SumIsInt
<1>4. CategoryUtility(vec, P) =
          <<SumFunction(within) - CUScale * Dot(vec, all, all), Cardinality(P)>>
  BY DEF CategoryUtility
<1> HIDE DEF within, all
<1> QED
  BY <1>1, <1>3, <1>4

\* A partition of one set has no utility: nothing is told apart.
LEMMA UtilityOfOneSet ==
    ASSUME NEW vec, NEW A, IsFiniteSet(A), A # {}, CUScale % Cardinality(A) = 0
    PROVE  CategoryUtility(vec, {A}) = <<0, 1>>
<1> DEFINE n == Cardinality(A)
           q == CUScale \div n
           d == Dot(vec, A, A)
           within == [B \in {A} |-> n * (CUScale \div Cardinality(B)) * Dot(vec, B, B)]
<1>1. n \in Nat \ {0} /\ CUScale \in Nat /\ d \in Int
  BY FS_CardinalityType, FS_EmptySet, CUScaleAssumption, DotIsInt
<1>2. CUScale = n * q /\ q \in Int
  BY <1>1
<1>3. within[A] = CUScale * d
  <2>1. within[A] = n * q * d
    OBVIOUS
  <2> QED
    BY <1>2, <2>1
<1>4. CUScale * d \in Int
  BY <1>1
<1>5. SumFunction(within) = CUScale * d
  <2>1. DOMAIN within = {A}
    OBVIOUS
  <2> HIDE DEF within
  <2> QED
    BY <1>3, <1>4, <2>1, SumOfOne
<1>6. UNION {A} = A /\ Cardinality({A}) = 1
  BY FS_Singleton
<1>7. CategoryUtility(vec, {A}) = <<SumFunction(within) - CUScale * d, 1>>
  BY <1>6 DEF CategoryUtility
<1> HIDE DEF within, d
<1> QED
  BY <1>4, <1>5, <1>7

\* What a move leaves: a partition of one set less, whose utility is a fraction.
LEMMA MoveFacts ==
    ASSUME IInv, pc = "moving", NEW p \in MaxSimilarity
    PROVE  /\ IsPartition(Merged(p[1], p[2]))
           /\ DOMAIN Merged(p[1], p[2]) # {}
           /\ Cardinality(ItemSets) \in Nat
           /\ Cardinality(DOMAIN Merged(p[1], p[2])) = Cardinality(ItemSets) - 1
           /\ CategoryUtility(input, Parts(Merged(p[1], p[2])))[1] \in Int
           /\ CategoryUtility(input, Parts(Merged(p[1], p[2])))[2] \in Nat
<1> DEFINE m == Merged(p[1], p[2])
<1>1. p[1] \in ItemSets /\ p[2] \in ItemSets /\ p[1] # p[2]
  BY PickedPair
<1>2. IsPartition(contents)
  BY DEF IInv, ItemSetsPartition
<1>3. DOMAIN m = ItemSets \ {p[2]} /\ IsPartition(m)
  BY <1>1, <1>2, MergedPartition
<1>4. IsFiniteSet(ItemSets) /\ IsFiniteSet(Items)
  <2>1. Len(input) \in Nat
    BY LenInput DEF IInv, TypeOK
  <2>2. IsFiniteSet(0..(Len(input) - 1)) /\ IsFiniteSet(1..Len(input))
    BY <2>1, FS_Interval
  <2> QED
    BY <2>2, FS_Subset DEF IInv, TypeOK, Items
<1>5. IsFiniteSet(DOMAIN m) /\ Cardinality(DOMAIN m) = Cardinality(ItemSets) - 1
  BY <1>1, <1>3, <1>4, FS_RemoveElement
<1> HIDE DEF m
<1>6. UNION Parts(m) = Items /\ \A A \in Parts(m) : A # {}
  BY <1>3 DEF IsPartition, Parts
<1>7. IsFiniteSet(Parts(m))
  <2>1. Parts(m) \subseteq SUBSET Items
    BY <1>6
  <2> QED
    BY <1>4, <2>1, FS_SUBSET, FS_Subset
<1>8. /\ CategoryUtility(input, Parts(m))[1] \in Int
      /\ CategoryUtility(input, Parts(m))[2] \in Nat
  BY <1>4, <1>6, <1>7, UtilityIsFraction
<1>9. Cardinality(ItemSets) \in Nat
  BY <1>4, FS_CardinalityType
<1>10. DOMAIN m # {}
  BY <1>1, <1>3
<1> QED
  BY <1>3, <1>5, <1>8, <1>9, <1>10 DEF m

\* Nothing is better than itself, and the initial -1.0 is below the partition of
\* one set.
LEMMA NotBetterThanItself ==
    ASSUME NEW x, x[1] \in Int, x[2] \in Nat
    PROVE  ~FracLess(x, x)
<1>1. x[1] * x[2] \in Int
  OBVIOUS
<1> QED
  BY <1>1 DEF FracLess

LEMMA MinusOneIsBelow ==
    ASSUME NEW n \in Nat, n # 0
    PROVE  FracLess(MinusOne(n), <<0, 1>>)
<1> DEFINE k == n * n * CUScale
<1>1. k \in Nat /\ k # 0
  <2>1. CUScale \in Nat /\ CUScale # 0
    BY CUScaleAssumption
  <2>2. n * n \in Nat /\ n * n # 0
    OBVIOUS
  <2> QED
    BY <2>1, <2>2
<1>2. MinusOne(n) = <<-k, 1>>
  BY DEF MinusOne
<1> HIDE DEF k
<1>3. FracLess(<<-k, 1>>, <<0, 1>>)
  BY <1>1 DEF FracLess
<1> QED
  BY <1>2, <1>3

LEMMA BestInit == Init => BestInv
<1> SUFFICES ASSUME Init PROVE BestInv
  OBVIOUS
<1>1. IInv
  BY InitIInv
<1> QED
  BY <1>1 DEF Init, BestInv, UtilityOfSnapshot, FirstValue, OneSetCompared,
     ComparedIsNoBetter, DoneIsOneSet

\* A merge compares the partition it makes, if it is small enough.
LEMMA SingleMoveBest == BestInv /\ SingleMove => BestInv'
<1> SUFFICES ASSUME BestInv, SingleMove PROVE BestInv'
  OBVIOUS
<1>1. /\ pc = "moving" /\ pc' = pc /\ input' = input
      /\ IInv
  BY DEF SingleMove, BestInv
<1>2. PICK p \in MaxSimilarity :
          contents' = Merged(p[1], p[2]) /\ UpdateStateKeeper(Merged(p[1], p[2]))
  BY DEF SingleMove
<1> DEFINE m == Merged(p[1], p[2])
           cu == CategoryUtility(input, Parts(m))
<1>3. /\ IsPartition(m) /\ DOMAIN m # {}
      /\ Cardinality(ItemSets) \in Nat
      /\ Cardinality(DOMAIN m) = Cardinality(ItemSets) - 1
      /\ cu[1] \in Int /\ cu[2] \in Nat
  BY <1>1, MoveFacts
<1>4. \/ Cardinality(DOMAIN m) <= TriggerSize /\ maxCU' = cu /\ cached' = m
      \/ /\ Cardinality(DOMAIN m) > TriggerSize \/ ~FracLess(maxCU, cu)
         /\ maxCU' = maxCU /\ cached' = cached
  BY <1>2 DEF UpdateStateKeeper
<1>5. contents' = m /\ ItemSets' = DOMAIN m
  BY <1>2 DEF ItemSets
<1>6. CategoryUtility(input, Parts(contents))' = cu
  BY <1>1, <1>5 DEF Parts
<1>7. m # NoFunction
  BY <1>3 DEF NoFunction
<1>8. TriggerSize \in Nat \ {0} /\ Len(input) \in Nat
  BY <1>1, TriggerAssumption, LenInput DEF IInv, TypeOK
<1> HIDE DEF m
<1>9. IInv'
  BY <1>1, SingleMoveIInv
<1>10. UtilityOfSnapshot'
  BY UtilityOfSnapshotStep DEF BestInv, Next
<1>11. FirstValue'
  BY <1>1, <1>4, <1>7 DEF BestInv, FirstValue, NoFunction
<1>12. ComparedIsNoBetter'
  <2>1. Cardinality(ItemSets)' = Cardinality(DOMAIN m)
    BY <1>5
  <2>2. CASE maxCU' = cu
    BY <1>3, <1>6, <2>2, NotBetterThanItself DEF ComparedIsNoBetter
  <2>3. CASE /\ Cardinality(DOMAIN m) > TriggerSize \/ ~FracLess(maxCU, cu)
             /\ maxCU' = maxCU
    <3>1. CASE Cardinality(DOMAIN m) > TriggerSize
      BY <1>3, <1>8, <2>1, <3>1 DEF ComparedIsNoBetter
    <3>2. CASE ~FracLess(maxCU, cu)
      <4> HIDE DEF cu
      <4>1. ~FracLess(maxCU', cu)
        BY <2>3, <3>2
      <4>2. ~FracLess(maxCU', CategoryUtility(input, Parts(contents))')
        BY <1>6, <4>1
      <4> QED
        BY <4>2 DEF ComparedIsNoBetter, FracLess
    <3> QED
      BY <2>3, <3>1, <3>2
  <2> QED
    BY <1>4, <2>2, <2>3
<1>13. OneSetCompared'
  <2> SUFFICES ASSUME Cardinality(DOMAIN m) <= 1, Len(input) >= 2
               PROVE  cached' # NoFunction
    BY <1>1, <1>5 DEF OneSetCompared, NoFunction
  <2>1. Cardinality(DOMAIN m) <= TriggerSize
    BY <1>3, <1>8
  <2>2. CASE cached = NoFunction
    <3>1. maxCU = MinusOne(Len(input))
      BY <2>2 DEF BestInv, FirstValue
    <3>2. cu = <<0, 1>>
      <4>1. IsFiniteSet(DOMAIN m) /\ Cardinality(DOMAIN m) = 1
        <5>1. IsFiniteSet(0..(Len(input) - 1))
          BY <1>8, FS_Interval
        <5>2. DOMAIN m \subseteq 0..(Len(input) - 1)
          BY <1>1, <1>5, <1>9 DEF IInv, TypeOK
        <5>3. IsFiniteSet(DOMAIN m)
          BY <5>1, <5>2, FS_Subset
        <5>4. Cardinality(DOMAIN m) \in Nat /\ Cardinality(DOMAIN m) # 0
          BY <1>3, <5>3, FS_CardinalityType, FS_EmptySet
        <5> QED
          BY <5>3, <5>4
      <4>2. PICK a : DOMAIN m = {a}
        BY <4>1, FS_Singleton
      <4>3. Parts(m) = {m[a]}
        BY <4>2 DEF Parts
      <4>4. m[a] = Items /\ Items # {}
        BY <1>3, <4>2, <4>3, SMTT(30) DEF IsPartition
      <4>5. IsFiniteSet(Items) /\ Cardinality(Items) = Len(input)
        BY <1>8, FS_Interval DEF Items
      <4>6. CUScale % Len(input) = 0
        BY <1>1, <1>8, ScaleAssumption DEF IInv, TypeOK
      <4> QED
        BY <4>3, <4>4, <4>5, <4>6, UtilityOfOneSet
    <3>3. FracLess(maxCU, cu)
      BY <1>8, <3>1, <3>2, MinusOneIsBelow
    <3> QED
      BY <1>3, <1>4, <1>7, <1>8, <2>1, <3>3
  <2>3. CASE cached # NoFunction
    BY <1>4, <1>7, <2>3
  <2> QED
    BY <2>2, <2>3
<1>14. DoneIsOneSet'
  BY <1>1 DEF DoneIsOneSet
<1> QED
  BY <1>9, <1>10, <1>11, <1>12, <1>13, <1>14 DEF BestInv

LEMMA BestStep == BestInv /\ [Next]_vars => BestInv'
<1> SUFFICES ASSUME BestInv, [Next]_vars PROVE BestInv'
  OBVIOUS
<1>0. /\ IInv /\ UtilityOfSnapshot /\ FirstValue /\ OneSetCompared /\ ComparedIsNoBetter
      /\ DoneIsOneSet
      /\ TypeOK
  BY DEF BestInv, IInv
<1>1. IInv' /\ UtilityOfSnapshot'
  BY <1>0, UtilityOfSnapshotStep, AddItemIInv, PrepareIInv, PrepareNothingIInv,
     SingleMoveIInv, GetClusterResultsIInv, StutterIInv DEF Next
<1>2. CASE AddItem
  <2>1. pc = "load" /\ pc' = pc /\ input' = input /\ maxCU' = maxCU /\ cached' = cached
    BY <1>2 DEF AddItem
  <2> QED
    BY <1>0, <1>1, <2>1 DEF BestInv, FirstValue, OneSetCompared, ComparedIsNoBetter,
       DoneIsOneSet, NoFunction
<1>3. CASE Prepare
  <2>1. /\ pc' = "moving" /\ input' = input /\ contents' = contents
        /\ maxCU' = maxCU /\ cached' = cached
        /\ Cardinality(ItemSets) = Len(input)
    BY <1>3 DEF Prepare
  <2>2. Len(input) \in Nat
    BY <1>0, LenInput DEF TypeOK
  <2>3. ItemSets' = ItemSets
    BY <2>1 DEF ItemSets
  <2>4. FirstValue' /\ DoneIsOneSet'
    BY <1>0, <2>1 DEF FirstValue, DoneIsOneSet, NoFunction
  <2>5. OneSetCompared'
    BY <2>1, <2>2, <2>3 DEF OneSetCompared
  <2>6. ComparedIsNoBetter'
    BY <2>1, <2>2, <2>3 DEF ComparedIsNoBetter
  <2> QED
    BY <1>1, <2>4, <2>5, <2>6 DEF BestInv
<1>4. CASE PrepareNothing
  <2>1. /\ pc' = "crashed" /\ input' = input /\ maxCU' = maxCU /\ cached' = cached
        /\ Len(input) = 0 /\ contents' = contents
    BY <1>4 DEF PrepareNothing
  <2>2. ItemSets' = {}
    BY <1>1, <2>1 DEF IInv, CrashedEmpty
  <2>3. Cardinality(ItemSets)' = 0
    BY <2>2, FS_EmptySet
  <2> QED
    BY <1>0, <1>1, <2>1, <2>3 DEF BestInv, FirstValue, OneSetCompared,
       ComparedIsNoBetter, DoneIsOneSet, NoFunction
<1>5. CASE SingleMove
  BY <1>5, SingleMoveBest
<1>6. CASE GetClusterResults
  <2>1. /\ pc = "moving" /\ pc' = "done" /\ input' = input /\ contents' = contents
        /\ maxCU' = maxCU /\ cached' = cached
        /\ ~(Cardinality(ItemSets) > 1)
    BY <1>6 DEF GetClusterResults, NotStop
  <2>2. Cardinality(ItemSets) \in Nat
    <3>1. Len(input) \in Nat
      BY <1>0, LenInput DEF TypeOK
    <3>2. IsFiniteSet(0..(Len(input) - 1))
      BY <3>1, FS_Interval
    <3>3. IsFiniteSet(ItemSets)
      BY <1>0, <3>2, FS_Subset DEF TypeOK
    <3> QED
      BY <3>3, FS_CardinalityType
  <2>3. ItemSets' = ItemSets /\ Parts(contents)' = Parts(contents)
    BY <2>1 DEF ItemSets, Parts
  <2>4. DoneIsOneSet'
    BY <2>1, <2>2, <2>3 DEF DoneIsOneSet
  <2>5. FirstValue' /\ OneSetCompared'
    BY <1>0, <2>1, <2>3 DEF FirstValue, OneSetCompared, NoFunction
  <2>6. ComparedIsNoBetter'
    BY <1>0, <2>1, <2>3 DEF ComparedIsNoBetter
  <2> QED
    BY <1>1, <2>4, <2>5, <2>6 DEF BestInv
<1>7. CASE UNCHANGED vars
  <2>1. /\ pc' = pc /\ input' = input /\ contents' = contents
        /\ maxCU' = maxCU /\ cached' = cached
    BY <1>7 DEF vars
  <2>2. ItemSets' = ItemSets /\ Parts(contents)' = Parts(contents)
    BY <2>1 DEF ItemSets, Parts
  <2> QED
    BY <1>0, <1>1, <2>1, <2>2 DEF BestInv, FirstValue, OneSetCompared,
       ComparedIsNoBetter, DoneIsOneSet, NoFunction
<1> QED
  BY <1>2, <1>3, <1>4, <1>5, <1>6, <1>7 DEF Next

\* For any topic, trigger and scale: a topic of at least two messages always
\* yields a result, the value kept is that of the kept snapshot, and no partition
\* that was compared is left better than it.
THEOREM BestIsKept == Spec => []BestPartitionKept
<1>1. Init => BestInv
  BY BestInit
<1>2. BestInv /\ [Next]_vars => BestInv'
  BY BestStep
<1>3. BestInv => BestPartitionKept
  <2> SUFFICES ASSUME BestInv PROVE BestPartitionKept
    OBVIOUS
  <2>1. pc = "done" /\ Len(input) >= 2 => cached # NoFunction
    BY DEF BestInv, OneSetCompared, DoneIsOneSet
  <2> QED
    BY <2>1 DEF BestInv, BestPartitionKept, UtilityOfSnapshot, ComparedIsNoBetter
<1> QED
  BY <1>1, <1>2, <1>3, PTL DEF Spec
=============================================================================
