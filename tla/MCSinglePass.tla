---------------------------- MODULE MCSinglePass ----------------------------
(***************************************************************************)
(* An instance of SinglePass for TLC: one to four rows of a few texts      *)
(* over five words, the last row read once or twice.                       *)
(***************************************************************************)
EXTENDS SinglePass

Plain(words) == [i \in DOMAIN words |-> [word |-> words[i], kind |-> "noun"]]
Tagged(words) == [i \in DOMAIN words |-> [word |-> words[i], kind |-> "tag"]]

Texts ==
    {Plain(<<1, 2, 2, 1>>), Plain(<<3, 4, 3, 4, 3>>), Plain(<<1, 2, 4>>),
     Plain(<<5, 1, 5, 5>>), Tagged(<<4>>),
     <<[word |-> 1, kind |-> "other"], [word |-> 3, kind |-> "tag"]>>}

RowsOf(texts) == [i \in DOMAIN texts |-> [mid |-> i, words |-> texts[i]]]

FewRows ==
    LET once == {RowsOf(texts) : texts \in UNION {[1..n -> Texts] : n \in 1..4}}
    IN  once \cup {Append(rows, Last(rows)) : rows \in once}
TwoRows == {rows \in FewRows : Len(rows) = 2}
FewValues == {-9, 0, 9}
=============================================================================
