---------------------------- MODULE MCRunFilter ----------------------------
(***************************************************************************)
(* Instances of RunFilter for TLC.                                         *)
(***************************************************************************)
EXTENDS RunFilter

MCMids == 1..4

\* Texts of a chain, at distances 0, 2, 3 and 4 of the first: pairs of them are
\* at every distance from 0 to 4.
Chain(i) == 1..i
MCFingerprints == {Chain(i) : i \in {0, 2, 3, 4}}

Text(x) == [parsed |-> TRUE, zombie |-> FALSE, fp |-> x]
Unparsed == [parsed |-> FALSE, zombie |-> FALSE, fp |-> {}]
Zombie == [parsed |-> TRUE, zombie |-> TRUE, fp |-> Chain(2)]
Texts == {Text(x) : x \in MCFingerprints}

\* All texts for four messages, and for three of them beside one message that
\* the other filters drop.
MCAttributes ==
    {a \in [MCMids -> Texts \cup {Unparsed, Zombie}] :
        Cardinality({m \in MCMids : a[m] \notin Texts}) <= 1}

\* The tables are complete, or a relation is missing and the message that stands
\* before the first page is still to come.
MCTables ==
    {[messages |-> 1..4, related |-> 1..4], [messages |-> 2..4, related |-> {3, 4}]}
=============================================================================
