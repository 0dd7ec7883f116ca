----------------------- MODULE MCHierarchyClustering -----------------------
(***************************************************************************)
(* Instances of HierarchyClustering for TLC.                               *)
(***************************************************************************)
EXTENDS HierarchyClustering

MCDims == 1..3

\* Every topic of up to four messages over three keywords, and every topic of
\* five messages over two keywords.
AllSmallInputs ==
    UNION {[1..n -> (SUBSET MCDims) \ {{}}] : n \in 0..4}
    \cup [1..5 -> (SUBSET (1..2)) \ {{}}]
=============================================================================
