--------------------------- MODULE Agglomeration ---------------------------
(***************************************************************************)
(* What HierarchyClustering promises, without ids, similarity map or       *)
(* snapshots: start from single messages, join two most similar parts of   *)
(* the partition at a time, and remember a candidate partition that is     *)
(* never replaced by a worse one.  The measures are parameters.            *)
(***************************************************************************)
EXTENDS Naturals, Sequences

CONSTANTS
    Inputs,             \* the sequences of message features
    Candidate(_),       \* the partitions that may be remembered
    Similarity(_, _, _),\* of two parts, given the input
    Utility(_, _),      \* of a partition, given the input
    Less(_, _)          \* order of both measures

VARIABLES input, parts, best

Init ==
    /\ input \in Inputs
    /\ parts = {{i} : i \in 1..Len(input)}
    /\ best = {}

\* best' after the partition became P; {} is no partition of a non-empty input.
KeepBest(P) ==
    \/ /\ Candidate(P)
       /\ best # {} => ~Less(Utility(input, P), Utility(input, best))
       /\ best' = P
    \/ /\ \/ ~Candidate(P)
          \/ best = {}
          \/ ~Less(Utility(input, best), Utility(input, P))
       /\ best' = best

\* No other two parts are more similar than A and B.  Similarity need not be
\* known to be symmetric: it is enough that a pair does not win in one order.
MostSimilar(A, B) ==
    \A C, D \in parts :
        C # D => \/ ~Less(Similarity(input, A, B), Similarity(input, C, D))
                 \/ ~Less(Similarity(input, A, B), Similarity(input, D, C))

Join(A, B) ==
    /\ A # B
    /\ MostSimilar(A, B)
    /\ parts' = (parts \ {A, B}) \cup {A \cup B}
    /\ KeepBest((parts \ {A, B}) \cup {A \cup B})
    /\ UNCHANGED input

Next == \E A, B \in parts : Join(A, B)

Spec == Init /\ [][Next]_<<input, parts, best>>
=============================================================================
