------------------------ MODULE HierarchyClustering ------------------------
(***************************************************************************)
(* Agglomerative clustering of the messages of one topic                   *)
(* (weibo_models/src/data_mining/cluster_related.cc), as the program       *)
(* weibo_models/build/interface drives it: AddItem for every selected      *)
(* message, Prepare, SingleMove while NotStop, GetClusterResults.          *)
(***************************************************************************)
EXTENDS ClusterMath, Sequences

CONSTANTS
    Inputs,         \* the sequences of message bitsets one run may be given
    TriggerSize,    \* kTriggerSize: partitions this small are evaluated
    FilterPercent   \* kFilterOutThreshole, in percent

ASSUME InputsAssumption == Inputs \subseteq Seq((SUBSET Dims) \ {{}})
ASSUME ScaleAssumption ==
    \A s \in Inputs : \A n \in 1..Len(s) : CUScale % n = 0
ASSUME TriggerAssumption == TriggerSize \in Nat \ {0}
ASSUME FilterAssumption == FilterPercent \in 0..100

VARIABLES
    pc,          \* where interface.cc's main is
    input,       \* input[i]: bitset of the i-th message of the table
    contents,    \* item_sets_: id |-> positions of the items of that set
    similarity,  \* similarity_of_item_sets_: <<left id, right id>> |-> value
    maxCU,       \* StateKeeper::max_cu_value_
    cached,      \* StateKeeper::cached_item_sets_, in the form of contents
    results      \* what GetClusterResults returned, in the same form

vars == <<pc, input, contents, similarity, maxCU, cached, results>>

Items == 1..Len(input)
ItemSets == DOMAIN contents
Parts(c) == {c[id] : id \in DOMAIN c}

MakePair_AsGiven(a, b) == <<a, b>>

\* MakeItemSetPair: the lower id comes first.
MakePair(a, b) == IF a > b THEN <<b, a>> ELSE <<a, b>>

\* Every key the similarity map should have for the sets ids.
Pairs(ids) == {p \in ids \X ids : p[1] < p[2]}

NoFunction == [x \in {} |-> {}]

-----------------------------------------------------------------------------
Init ==
    /\ pc = "load"
    /\ input \in Inputs
    /\ contents = NoFunction
    /\ similarity = NoFunction
    /\ maxCU = MinusOne(Len(input))
    /\ cached = NoFunction
    /\ results = NoFunction

\* AddItem: a singleton set whose id is the number of sets there are.
AddItem ==
    LET id == Cardinality(ItemSets)
    IN  /\ pc = "load"
        /\ id < Len(input)
        /\ contents' = [x \in ItemSets \cup {id} |->
                           IF x = id THEN {id + 1} ELSE contents[x]]
        /\ UNCHANGED <<pc, input, similarity, maxCU, cached, results>>

\* Prepare: the similarity of every pair, and the evaluator's constants.
Prepare ==
    /\ pc = "load"
    /\ Cardinality(ItemSets) = Len(input)
    /\ ItemSets # {}
    /\ pc' = "moving"
    /\ similarity' = [p \in Pairs(ItemSets) |->
                         Cosine(input, contents[p[1]], contents[p[2]])]
    /\ UNCHANGED <<input, contents, maxCU, cached, results>>

\* Prepare without any item: StateKeeper::Init dereferences item_sets.front()
\* of an empty list, which ends the process.
PrepareNothing ==
    /\ pc = "load"
    /\ Len(input) = 0
    /\ pc' = "crashed"
    /\ UNCHANGED <<input, contents, similarity, maxCU, cached, results>>

\* FindMaxSimilarity: the pairs max_element may return.  Which of several it is
\* depends on the addresses of the item sets.
MaxSimilarity ==
    {p \in DOMAIN similarity :
        \A q \in DOMAIN similarity : ~FracLess(similarity[p], similarity[q])}

Merged_LosesRight(left, right) == [id \in ItemSets \ {right} |-> contents[id]]

\* left->Merge(right) and the removal of right from item_sets_.
Merged(left, right) ==
    [id \in ItemSets \ {right} |->
        IF id = left THEN contents[left] \cup contents[right] ELSE contents[id]]

UpdatedSimilarity_OnlyErases(left, right, sets) ==
    [p \in DOMAIN similarity \ {MakePair(id, right) : id \in DOMAIN sets} |-> similarity[p]]

\* The map after right's pairs are erased and left's are computed again.
UpdatedSimilarity(left, right, sets) ==
    LET kept  == DOMAIN similarity \ {MakePair(id, right) : id \in DOMAIN sets}
        fresh == {MakePair(id, left) : id \in DOMAIN sets \ {left}}
    IN  [p \in kept \cup fresh |->
            IF p \in fresh THEN Cosine(input, sets[p[1]], sets[p[2]])
                           ELSE similarity[p]]

UpdateStateKeeper_NotCleared(sets) ==
    LET cu == CategoryUtility(input, Parts(sets))
        all == DOMAIN sets \cup DOMAIN cached
    IN  IF Cardinality(DOMAIN sets) > TriggerSize
        THEN UNCHANGED <<maxCU, cached>>
        ELSE /\ maxCU' = cu
             /\ cached' = [id \in all |-> IF id \in DOMAIN sets THEN sets[id] ELSE cached[id]]

UpdateStateKeeper_KeepsFirst(sets) ==
    IF Cardinality(DOMAIN sets) > TriggerSize \/ cached # NoFunction
    THEN UNCHANGED <<maxCU, cached>>
    ELSE maxCU' = CategoryUtility(input, Parts(sets)) /\ cached' = sets

\* StateKeeper::Update, for a partition of at most TriggerSize sets: keep the
\* snapshot of the partition unless its utility is lower than the best one.
UpdateStateKeeper(sets) ==
    LET cu == CategoryUtility(input, Parts(sets))
    IN  \/ /\ Cardinality(DOMAIN sets) <= TriggerSize
           /\ ~FracLess(cu, maxCU)
           /\ maxCU' = cu
           /\ cached' = sets
        \/ /\ \/ Cardinality(DOMAIN sets) > TriggerSize
              \/ ~FracLess(maxCU, cu)
           /\ UNCHANGED <<maxCU, cached>>

NotStop_OneIsEnough == Cardinality(ItemSets) >= 1
NotStop == Cardinality(ItemSets) > 1

SingleMove ==
    /\ pc = "moving"
    /\ NotStop
    /\ \E p \in MaxSimilarity :
          /\ contents' = Merged(p[1], p[2])
          /\ similarity' = UpdatedSimilarity(p[1], p[2], Merged(p[1], p[2]))
          /\ UpdateStateKeeper(Merged(p[1], p[2]))
    /\ UNCHANGED <<pc, input, results>>

\* The clusters that pass the size filter.
Kept(c) ==
    LET size == SumFunction([id \in DOMAIN c |-> Cardinality(c[id])])
        ids  == {id \in DOMAIN c : Cardinality(c[id]) * 100 >= FilterPercent * size}
    IN  [id \in ids |-> c[id]]

GetClusterResults ==
    /\ pc = "moving"
    /\ ~NotStop
    /\ pc' = "done"
    /\ results' = Kept(cached)
    /\ UNCHANGED <<input, contents, similarity, maxCU, cached>>

Next == AddItem \/ Prepare \/ PrepareNothing \/ SingleMove \/ GetClusterResults

Spec == Init /\ [][Next]_vars

\* main is one thread that calls the next step as soon as the last returned.
FairSpec == Spec /\ WF_vars(Next)
-----------------------------------------------------------------------------
(* Properties *)

IsPartition(c) ==
    /\ UNION Parts(c) = Items
    /\ \A a \in DOMAIN c : c[a] # {}
    /\ \A a, b \in DOMAIN c : a # b => c[a] \cap c[b] = {}

\* Ids come from 0..Len(input)-1, sets hold positions of the input, and the map
\* and the snapshots have the shape of their C++ types.
TypeOK ==
    /\ pc \in {"load", "moving", "done", "crashed"}
    /\ input \in Inputs
    /\ ItemSets \subseteq 0..(Len(input) - 1)
    /\ contents \in [ItemSets -> SUBSET Items]
    /\ DOMAIN similarity \subseteq Pairs(0..(Len(input) - 1))
    /\ cached \in [DOMAIN cached -> SUBSET Items]
    /\ results \in [DOMAIN results -> SUBSET Items]

\* No merge loses a message or puts it in two sets: once loaded, the item sets
\* partition the messages (Merge, RemoveItemSet).
ItemSetsPartition == pc # "load" => IsPartition(contents)

\* SingleMove's erase and update loops leave exactly one entry per pair of live
\* item sets, computed from what the two sets hold now: nothing stale, nothing
\* that names a removed set, nothing missing.
SimilarityExact ==
    pc \in {"moving", "done"} =>
        /\ DOMAIN similarity = Pairs(ItemSets)
        /\ \A p \in Pairs(ItemSets) :
              similarity[p] = Cosine(input, contents[p[1]], contents[p[2]])

\* Greedy agglomeration: whatever the map held, each SingleMove joins two sets
\* such that no other two of the sets are more similar, and changes no other.
JoinsMostSimilar ==
    [][pc = "moving" =>
        \E p \in Pairs(ItemSets) :
            /\ contents' = Merged(p[1], p[2])
            /\ \A q \in Pairs(ItemSets) :
                  ~FracLess(Cosine(input, contents[p[1]], contents[p[2]]),
                            Cosine(input, contents[q[1]], contents[q[2]]))
      ]_contents

\* The cached result is a snapshot of one whole partition, untouched by the
\* merges that follow (ClusterCached copies), and of at most TriggerSize sets.
SnapshotIsPartition ==
    cached # NoFunction =>
        IsPartition(cached) /\ Cardinality(DOMAIN cached) <= TriggerSize

\* StateKeeper keeps the best: the value is the utility of the snapshot, and the
\* current partition, if it was evaluated, has no higher one.  The initial value
\* -1.0 never keeps the first partition out, so that two messages are enough
\* for a result.
BestPartitionKept ==
    /\ pc = "done" /\ Len(input) >= 2 => cached # NoFunction
    /\ cached # NoFunction => maxCU = CategoryUtility(input, Parts(cached))
    /\ /\ pc # "load"
       /\ Cardinality(ItemSets) < Len(input)
       /\ Cardinality(ItemSets) <= TriggerSize
       => ~FracLess(maxCU, CategoryUtility(input, Parts(contents)))

\* The partitions StateKeeper looks at.
FewParts(P) == Cardinality(P) <= TriggerSize

\* The abstract specification this program implements: before Prepare its
\* partition is that of single messages.
Abstract == INSTANCE Agglomeration WITH
    parts      <- IF pc = "load" THEN {{i} : i \in Items} ELSE Parts(contents),
    best       <- Parts(cached),
    Candidate  <- FewParts,
    Similarity <- Cosine,
    Utility    <- CategoryUtility,
    Less       <- FracLess

\* The ids, the incremental map and the snapshots implement greedy agglomeration.
ImplementsAgglomeration == Abstract!Spec

\* A topic with at least one message is clustered to the end.
Completes == pc = "load" /\ Len(input) > 0 ~> pc = "done"
=============================================================================
