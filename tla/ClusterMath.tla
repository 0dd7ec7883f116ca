---------------------------- MODULE ClusterMath ----------------------------
(***************************************************************************)
(* The arithmetic of weibo_models/src/data_mining: cosine similarity of    *)
(* mean feature vectors and the category utility of a partition.           *)
(*                                                                         *)
(* A message is a bitset over Dims (AdapterForBitset), so it is the set of *)
(* the dimensions it holds; vec[i] is the bitset of message i.  The        *)
(* features of an item set are always the mean of the features of its      *)
(* items, so they are represented by the set of the items themselves.      *)
(* Doubles are replaced by exact fractions <<numerator, denominator>>;     *)
(* where the code compares two equal doubles the model allows both         *)
(* outcomes, which covers their rounding.                                  *)
(***************************************************************************)
EXTENDS Integers, FiniteSets, Functions

CONSTANTS Dims,     \* kDimension bits of a message
          CUScale   \* a common multiple of the sizes an item set can have

ASSUME DimsAssumption == IsFiniteSet(Dims)
ASSUME CUScaleAssumption == CUScale \in Nat \ {0}

FracLess(x, y) == x[1] * y[2] < y[1] * x[2]

\* How many items of A hold dimension d: the d-th sum of MeanFeatures.
FeatureSum(vec, A, d) == Cardinality({i \in A : d \in vec[i]})

\* Scalar product of the feature sums.  The division by the number of items
\* cancels in a cosine and is put back in CategoryUtility.
Dot(vec, A, B) ==
    SumFunction([d \in Dims |-> FeatureSum(vec, A, d) * FeatureSum(vec, B, d)])

\* Square of Cosine::Evaluate, which orders pairs as the cosine does because
\* features are never negative; zero vectors are forced to zero.
Cosine(vec, A, B) ==
    IF Dot(vec, A, A) = 0 \/ Dot(vec, B, B) = 0
    THEN <<0, 1>>
    ELSE <<Dot(vec, A, B) * Dot(vec, A, B), Dot(vec, A, A) * Dot(vec, B, B)>>

\* CatergoryUtilityEvaluator::Evaluate of a partition P of all the items, times
\* the square of their number and CUScale (the same factor for each partition).
CategoryUtility(vec, P) ==
    LET all  == UNION P
        n    == Cardinality(all)
        within == [A \in P |-> n * (CUScale \div Cardinality(A)) * Dot(vec, A, A)]
    IN  <<SumFunction(within) - CUScale * Dot(vec, all, all), Cardinality(P)>>

\* max_cu_value_ = -1.0 in the same units, for n items.
MinusOne(n) == <<-(n * n * CUScale), 1>>
=============================================================================
