-------------------------- MODULE TableStateProofs --------------------------
(***************************************************************************)
(* Proofs about TableState, for any number of hours, sizes of tables,      *)
(* tables of the programs and detections.                                  *)
(***************************************************************************)
EXTENDS TableState, FiniteSetTheorems, NaturalsInduction, WellFoundedInduction, TLAPS

KindSet == {"FilteredMicroblog", "Microblog", "OneDayTopic_FilteredMicroblog",
            "UserToBlog", "WeiboUser"}
TableSet == [hour : Hours, kind : KindSet]

ShapeInv ==
    /\ size \in [Tables -> 0..MaxSize]
    /\ Tables \subseteq TableSet /\ IsFiniteSet(Tables)
    /\ oldest \in 1..(MaxHour + 1)
    /\ pc \in {"idle", "measure", "compare"}
    /\ queue \in Seq(TableSet) /\ \A i \in 1..Len(queue) : queue[i] \in Tables
    /\ new \in [DOMAIN new -> Nat] /\ DOMAIN new \subseteq Tables
    /\ \A t \in DOMAIN new : new[t] <= size[t]
    /\ cached \in Seq(TableSet) /\ \A i \in 1..Len(cached) : cached[i] \in Tables
    /\ detections \in 0..MaxDetection
    /\ disturbed \subseteq Hours
    /\ pc = "compare" => \A i \in 1..Len(queue) : queue[i] \in DOMAIN new
    /\ given \subseteq Tables

\* The list s has none of the tables of the hour, or has them as a group.
NoneOf(s, h) == \A i \in 1..Len(s) : s[i] \notin TablesOf(h)
WholeIn(s, h) == NoneOf(s, h) \/ \E i, j, k \in 1..Len(s) : GroupAt(s, h, i, j, k)

\* While the tables are counted for the first time.
MeasureInv(h) ==
    /\ TablesOf(h) \cap Tables = {} \/ TablesOf(h) \subseteq Tables
    /\ \A t \in TablesOf(h) \cap Tables :
          /\ t \in DOMAIN new => IsNew(t) /\ new[t] = size[t]
          /\ IsNew(t) => t \in DOMAIN new \/ \E i \in 1..Len(queue) : queue[i] = t

\* While they are counted for the second time: what is listed already and what is
\* still to be looked at are one list, from which only other tables drop out.
CompareInv(h) ==
    /\ \A t \in TablesOf(h) \cap DOMAIN new : new[t] = size[t]
    /\ WholeIn(cached \o queue, h)

HourInv(h) ==
    h \notin disturbed =>
        /\ pc # "compare" => WholeIn(cached, h)
        /\ pc = "measure" => MeasureInv(h)
        /\ pc = "compare" => CompareInv(h)

TableInv == ShapeInv /\ \A h \in Hours : HourInv(h)

-----------------------------------------------------------------------------
(* The order of the tables *)

LEMMA BoundsFacts ==
    /\ MaxHour \in Nat /\ MaxSize \in Nat /\ MaxDetection \in Nat
    /\ \A h \in Hours : h \in Nat
BY BoundsAssumption DEF Hours

LEMMA TableFacts ==
    ASSUME NEW h \in Hours
    PROVE  /\ TablesOf(h) = {Message(h), UserToBlog(h), User(h)}
           /\ OwnOf(h) = {Filtered(h), OneDayTopic(h)}
           /\ TablesOf(h) \subseteq TableSet /\ OwnOf(h) \subseteq TableSet
           /\ Message(h).hour = h /\ UserToBlog(h).hour = h /\ User(h).hour = h
           /\ Filtered(h).hour = h /\ OneDayTopic(h).hour = h
           /\ Message(h).kind = "Microblog" /\ UserToBlog(h).kind = "UserToBlog"
           /\ User(h).kind = "WeiboUser" /\ Filtered(h).kind = "FilteredMicroblog"
           /\ OneDayTopic(h).kind = "OneDayTopic_FilteredMicroblog"
BY DEF TablesOf, OwnOf, Message, UserToBlog, User, Filtered, OneDayTopic, Table, TableSet,
       KindSet

LEMMA OfTheirHour ==
    /\ \A t \in TableSet : t.hour \in Hours /\ t \in TablesOf(t.hour) \cup OwnOf(t.hour)
    /\ \A h \in Hours : \A t \in TablesOf(h) \cup OwnOf(h) : t.hour = h /\ t \in TableSet
    /\ \A h \in Hours : TablesOf(h) \cap OwnOf(h) = {}
<1>1. ASSUME NEW t \in TableSet
      PROVE  t.hour \in Hours /\ t \in TablesOf(t.hour) \cup OwnOf(t.hour)
  <2>1. t.hour \in Hours /\ t.kind \in KindSet /\ t = Table(t.hour, t.kind)
    BY DEF TableSet, Table
  <2> QED
    BY <2>1 DEF KindSet, TablesOf, OwnOf, Message, UserToBlog, User, Filtered, OneDayTopic
<1>2. \A h \in Hours : \A t \in TablesOf(h) \cup OwnOf(h) : t.hour = h /\ t \in TableSet
  BY TableFacts
<1>3. \A h \in Hours : TablesOf(h) \cap OwnOf(h) = {}
  BY DEF TablesOf, OwnOf, Message, UserToBlog, User, Filtered, OneDayTopic, Table
<1> QED
  BY <1>1, <1>2, <1>3

RankOf(kind) ==
    IF kind = "FilteredMicroblog" THEN 1
    ELSE IF kind = "Microblog" THEN 2
    ELSE IF kind = "OneDayTopic_FilteredMicroblog" THEN 3
    ELSE IF kind = "UserToBlog" THEN 4 ELSE 5

LEMMA RankFacts ==
    \A t \in TableSet : Rank(t) \in 1..5 /\ Rank(t) = RankOf(t.kind)
<1> SUFFICES ASSUME NEW t \in TableSet
             PROVE  Rank(t) \in 1..5 /\ Rank(t) = RankOf(t.kind)
  OBVIOUS
<1>1. /\ Len(Kinds) = 5
      /\ Kinds[1] = "FilteredMicroblog" /\ Kinds[2] = "Microblog"
      /\ Kinds[3] = "OneDayTopic_FilteredMicroblog"
      /\ Kinds[4] = "UserToBlog" /\ Kinds[5] = "WeiboUser"
  BY DEF Kinds
<1>2. t.kind \in KindSet
  BY DEF TableSet
<1>3. PICK i : i = RankOf(t.kind)
  OBVIOUS
<1>4. i \in 1..5 /\ Kinds[i] = t.kind
  BY <1>1, <1>2, <1>3 DEF KindSet, RankOf
<1>5. \A j \in 1..5 : Kinds[j] = t.kind => j = i
  <2>1. \A j \in 1..5 : j = 1 \/ j = 2 \/ j = 3 \/ j = 4 \/ j = 5
    OBVIOUS
  <2> QED
    BY <1>1, <1>2, <1>3, <2>1 DEF KindSet, RankOf
<1>6. Rank(t) = i
  BY <1>1, <1>4, <1>5 DEF Rank
<1> QED
  BY <1>3, <1>4, <1>6

\* Before is a strict total order.
LEMMA BeforeFacts ==
    \A s, t, u \in TableSet :
        /\ ~Before(t, t)
        /\ Before(s, t) /\ Before(t, u) => Before(s, u)
        /\ s # t => Before(s, t) \/ Before(t, s)
<1> SUFFICES ASSUME NEW s \in TableSet, NEW t \in TableSet, NEW u \in TableSet
             PROVE  /\ ~Before(t, t)
                    /\ Before(s, t) /\ Before(t, u) => Before(s, u)
                    /\ s # t => Before(s, t) \/ Before(t, s)
  OBVIOUS
<1>1. s.hour \in Nat /\ t.hour \in Nat /\ u.hour \in Nat
  BY BoundsFacts DEF TableSet
<1>2. Rank(s) \in Nat /\ Rank(t) \in Nat /\ Rank(u) \in Nat
  BY RankFacts
<1>3. ~Before(t, t) /\ (Before(s, t) /\ Before(t, u) => Before(s, u))
  BY <1>1, <1>2 DEF Before
<1>4. ASSUME ~Before(s, t), ~Before(t, s)
      PROVE  s = t
  <2>1. s.hour = t.hour /\ Rank(s) = Rank(t)
    BY <1>1, <1>2, <1>4 DEF Before
  <2>2. s.kind = t.kind
    BY <2>1, RankFacts DEF TableSet, KindSet, RankOf
  <2> QED
    BY <2>1, <2>2 DEF TableSet
<1> QED
  BY <1>3, <1>4

Below(S, t) == {s \in S : Before(s, t)}

\* Sorted is the bijection with the numbers 1, 2, ... that keeps the order: as the
\* numbers of the tables before a table are different, there is one for each place.
LEMMA SortedFacts ==
    ASSUME NEW S \in SUBSET TableSet, IsFiniteSet(S)
    PROVE  /\ Cardinality(S) \in Nat
           /\ Sorted(S) \in Seq(S) /\ Len(Sorted(S)) = Cardinality(S)
           /\ \A i \in 1..Cardinality(S) :
                 Sorted(S)[i] \in S /\ Cardinality(Below(S, Sorted(S)[i])) = i - 1
           /\ \A t \in S : \E i \in 1..Cardinality(S) : Sorted(S)[i] = t
<1> DEFINE n == Cardinality(S)
           place == [t \in S |-> Cardinality(Below(S, t)) + 1]
<1>1. n \in Nat
  BY FS_CardinalityType
<1>2. ASSUME NEW t \in S
      PROVE  Cardinality(Below(S, t)) \in 0..(n - 1)
  <2>1. Below(S, t) \in SUBSET S /\ t \notin Below(S, t)
    BY BeforeFacts DEF Below
  <2>2. /\ IsFiniteSet(Below(S, t)) /\ Cardinality(Below(S, t)) <= n
        /\ n = Cardinality(Below(S, t)) => S = Below(S, t)
    BY <2>1, FS_Subset
  <2>3. Cardinality(Below(S, t)) \in Nat
    BY <2>2, FS_CardinalityType
  <2> QED
    BY <1>1, <2>1, <2>2, <2>3
<1>3. ASSUME NEW s \in S, NEW t \in S, Before(s, t)
      PROVE  Cardinality(Below(S, s)) # Cardinality(Below(S, t))
  <2>1. /\ Below(S, s) \in SUBSET Below(S, t)
        /\ s \in Below(S, t) /\ s \notin Below(S, s)
    BY <1>3, BeforeFacts DEF Below
  <2>2. IsFiniteSet(Below(S, t))
    <3>1. Below(S, t) \in SUBSET S
      BY DEF Below
    <3> QED
      BY <3>1, FS_Subset
  <2>3. Cardinality(Below(S, t)) = Cardinality(Below(S, s)) => Below(S, t) = Below(S, s)
    BY <2>1, <2>2, FS_Subset
  <2> QED
    BY <2>1, <2>3
<1>4. \A s, t \in S : place[s] = place[t] => s = t
  <2> SUFFICES ASSUME NEW s \in S, NEW t \in S, place[s] = place[t], s # t
               PROVE  FALSE
    OBVIOUS
  <2>1. Cardinality(Below(S, s)) = Cardinality(Below(S, t))
    <3>1. Cardinality(Below(S, s)) \in Int /\ Cardinality(Below(S, t)) \in Int
      BY <1>1, <1>2
    <3> QED
      BY <3>1
  <2>2. Before(s, t) \/ Before(t, s)
    BY BeforeFacts
  <2> QED
    BY <1>3, <2>1, <2>2
<1>5. place \in Injection(S, 1..n)
  <2>1. \A t \in S : place[t] \in 1..n
    BY <1>1, <1>2
  <2> QED
    BY <1>4, <2>1 DEF Injection, IsInjective
<1>6. IsFiniteSet(1..n) /\ Cardinality(1..n) = n
  BY <1>1, FS_Interval
<1>7. place \in Surjection(S, 1..n)
  <2> HIDE DEF place
  <2> QED
    BY <1>5, <1>6, FS_Injection
<1>8. ASSUME NEW i \in 1..n
      PROVE  Sorted(S)[i] \in S /\ Cardinality(Below(S, Sorted(S)[i])) = i - 1
  <2>1. PICK t \in S : place[t] = i
    BY <1>7 DEF Surjection
  <2>2. Cardinality(Below(S, t)) = i - 1
    BY <1>1, <1>2, <2>1
  <2>3. Sorted(S)[i] = CHOOSE u \in S : Cardinality(Below(S, u)) = i - 1
    BY <1>8 DEF Sorted, Below
  <2> QED
    BY <2>2, <2>3
<1>9. ASSUME NEW t \in S
      PROVE  \E i \in 1..n : Sorted(S)[i] = t
  <2>1. place[t] \in 1..n /\ place[t] = Cardinality(Below(S, t)) + 1
    BY <1>1, <1>2
  <2>2. PICK i \in 1..n : i = place[t]
    BY <2>1
  <2>3. Sorted(S)[i] \in S /\ Cardinality(Below(S, Sorted(S)[i])) = i - 1
    BY <1>8
  <2>4. place[Sorted(S)[i]] = place[t]
    BY <1>1, <1>2, <2>1, <2>2, <2>3
  <2>5. Sorted(S)[i] = t
    BY <1>4, <2>3, <2>4
  <2> QED
    BY <2>5
<1>10. Sorted(S) \in Seq(S) /\ Len(Sorted(S)) = n
  <2>1. PICK f : f = [i \in 1..n |->
                        CHOOSE t \in S : Cardinality({s \in S : Before(s, t)}) = i - 1]
    OBVIOUS
  <2>2. Sorted(S) = f
    BY <2>1 DEF Sorted
  <2>3. \A i \in 1..n : f[i] \in S
    BY <1>8, <2>2
  <2>4. f \in [1..n -> S]
    BY <2>1, <2>3
  <2>5. f \in Seq(S) /\ Len(f) = n
    BY <1>1, <2>4
  <2> QED
    BY <2>2, <2>5
<1> QED
  BY <1>1, <1>8, <1>9, <1>10

\* The sorted list keeps the order.
LEMMA SortedOrder ==
    ASSUME NEW S \in SUBSET TableSet, IsFiniteSet(S),
           NEW p \in 1..Len(Sorted(S)), NEW q \in 1..Len(Sorted(S))
    PROVE  /\ Sorted(S)[p] \in S
           /\ Before(Sorted(S)[p], Sorted(S)[q]) <=> p < q
           /\ Sorted(S)[p] = Sorted(S)[q] => p = q
<1>1. PICK a, b, n : a = Sorted(S)[p] /\ b = Sorted(S)[q] /\ n = Cardinality(S)
  OBVIOUS
<1>2. /\ n \in Nat /\ p \in 1..n /\ q \in 1..n /\ a \in S /\ b \in S
      /\ Cardinality(Below(S, a)) = p - 1 /\ Cardinality(Below(S, b)) = q - 1
  BY <1>1, SortedFacts
<1>3. \A s, t \in S : Before(s, t) => Cardinality(Below(S, s)) < Cardinality(Below(S, t))
  <2> SUFFICES ASSUME NEW s \in S, NEW t \in S, Before(s, t)
               PROVE  Cardinality(Below(S, s)) < Cardinality(Below(S, t))
    OBVIOUS
  <2>1. /\ Below(S, s) \in SUBSET Below(S, t)
        /\ s \in Below(S, t) /\ s \notin Below(S, s)
    BY BeforeFacts DEF Below
  <2>2. IsFiniteSet(Below(S, t))
    <3>1. Below(S, t) \in SUBSET S
      BY DEF Below
    <3> QED
      BY <3>1, FS_Subset
  <2>3. /\ IsFiniteSet(Below(S, s))
        /\ Cardinality(Below(S, s)) <= Cardinality(Below(S, t))
        /\ Cardinality(Below(S, t)) = Cardinality(Below(S, s)) => Below(S, t) = Below(S, s)
    BY <2>1, <2>2, FS_Subset
  <2>4. Cardinality(Below(S, s)) \in Nat /\ Cardinality(Below(S, t)) \in Nat
    BY <2>2, <2>3, FS_CardinalityType
  <2> QED
    BY <2>1, <2>3, <2>4
<1>4. (Before(a, b) => p - 1 < q - 1) /\ (Before(b, a) => q - 1 < p - 1)
  BY <1>2, <1>3
<1>5. a # b => Before(a, b) \/ Before(b, a)
  BY <1>2, BeforeFacts
<1>6. a = b => p = q /\ ~Before(a, b)
  BY <1>2, BeforeFacts
<1> QED
  BY <1>1, <1>2, <1>4, <1>5, <1>6

\* The tables of an hour that has all three are a group in the sorted list.
LEMMA SortedGroup ==
    ASSUME NEW S \in SUBSET TableSet, IsFiniteSet(S), NEW h \in Hours, TablesOf(h) \subseteq S
    PROVE  WholeIn(Sorted(S), h)
<1>1. PICK s, n : s = Sorted(S) /\ n = Len(s)
  OBVIOUS
<1>2. /\ n \in Nat
      /\ \A t \in S : \E i \in 1..n : s[i] = t
  <2>1. /\ Cardinality(S) \in Nat /\ n = Cardinality(S)
        /\ \A t \in S : \E i \in 1..Cardinality(S) : s[i] = t
    BY <1>1, SortedFacts
  <2> QED
    BY <2>1
<1>3. /\ Message(h) \in S /\ UserToBlog(h) \in S /\ User(h) \in S
      /\ Message(h).hour = h /\ UserToBlog(h).hour = h /\ User(h).hour = h
      /\ Rank(Message(h)) = 2 /\ Rank(UserToBlog(h)) = 4 /\ Rank(User(h)) = 5 /\ h \in Nat
  <2>1. Message(h) \in S /\ UserToBlog(h) \in S /\ User(h) \in S
    BY TableFacts
  <2> QED
    BY <2>1, TableFacts, RankFacts, BoundsFacts DEF RankOf
<1>4. PICK i \in 1..n : s[i] = Message(h)
  BY <1>2, <1>3
<1>5. PICK j \in 1..n : s[j] = UserToBlog(h)
  BY <1>2, <1>3
<1>6. PICK k \in 1..n : s[k] = User(h)
  BY <1>2, <1>3
<1>7. \A p, q \in 1..n : /\ s[p] \in S
                         /\ Before(s[p], s[q]) <=> p < q
                         /\ s[p] = s[q] => p = q
  BY <1>1, SortedOrder
<1>8. i < j /\ j < k
  <2>1. Before(Message(h), UserToBlog(h)) /\ Before(UserToBlog(h), User(h))
    BY <1>3 DEF Before
  <2> QED
    BY <1>4, <1>5, <1>6, <1>7, <2>1
<1>9. ASSUME NEW p \in (1..n) \ {i, j, k}
      PROVE  /\ s[p] \notin TablesOf(h)
             /\ i < p /\ p < k => s[p] \in OwnOf(h)
  <2>1. s[p] \notin TablesOf(h)
    <3>1. s[p] # s[i] /\ s[p] # s[j] /\ s[p] # s[k]
      BY <1>7
    <3> QED
      BY <1>4, <1>5, <1>6, <3>1, TableFacts
  <2>2. ASSUME i < p, p < k PROVE s[p] \in OwnOf(h)
    <3>1. Before(Message(h), s[p]) /\ Before(s[p], User(h)) /\ s[p] \in TableSet
      BY <1>4, <1>6, <1>7, <2>2
    <3>2. s[p].hour \in Nat
      BY <3>1, OfTheirHour, BoundsFacts
    <3>3. s[p].hour = h
      BY <1>3, <3>1, <3>2 DEF Before
    <3> QED
      BY <2>1, <3>1, <3>3, OfTheirHour
  <2> QED
    BY <2>1, <2>2
<1>10. GroupAt(s, h, i, j, k)
  BY <1>1, <1>4, <1>5, <1>6, <1>8, <1>9 DEF GroupAt
<1> QED
  BY <1>1, <1>10 DEF WholeIn

-----------------------------------------------------------------------------
(* Sequences *)

LEMMA TailFacts ==
    ASSUME NEW S, NEW s \in Seq(S), s # <<>>
    PROVE  /\ Tail(s) \in Seq(S) /\ Len(s) \in Nat /\ Len(s) >= 1
           /\ Len(Tail(s)) = Len(s) - 1
           /\ \A i \in 1..Len(Tail(s)) : Tail(s)[i] = s[i + 1]
           /\ Head(s) = s[1] /\ s[1] \in S
OBVIOUS

LEMMA AppendFacts ==
    ASSUME NEW S, NEW s \in Seq(S), NEW t \in S
    PROVE  /\ Append(s, t) \in Seq(S) /\ Len(s) \in Nat
           /\ Len(Append(s, t)) = Len(s) + 1
           /\ \A i \in 1..Len(s) : Append(s, t)[i] = s[i]
           /\ Append(s, t)[Len(s) + 1] = t
OBVIOUS

LEMMA ConcatFacts ==
    ASSUME NEW S, NEW s \in Seq(S), NEW t \in Seq(S)
    PROVE  /\ s \o t \in Seq(S) /\ Len(s) \in Nat /\ Len(t) \in Nat
           /\ Len(s \o t) = Len(s) + Len(t)
           /\ \A i \in 1..Len(s) : (s \o t)[i] = s[i]
           /\ \A i \in 1..Len(t) : (s \o t)[Len(s) + i] = t[i]
           /\ \A i \in 1..(Len(s) + Len(t)) :
                 (s \o t)[i] = IF i <= Len(s) THEN s[i] ELSE t[i - Len(s)]
OBVIOUS

LEMMA MovedOver ==
    ASSUME NEW S, NEW c \in Seq(S), NEW q \in Seq(S), q # <<>>
    PROVE  Append(c, Head(q)) \o Tail(q) = c \o q
OBVIOUS

LEMMA EmptyConcat ==
    ASSUME NEW S, NEW s \in Seq(S)
    PROVE  s \o <<>> = s
OBVIOUS

\* A group stays one in a longer list that has no other table of its hour.
LEMMA JoinedWhole ==
    ASSUME NEW s \in Seq(TableSet), NEW t \in Seq(TableSet), NEW h,
           \/ WholeIn(s, h) /\ NoneOf(t, h)
           \/ NoneOf(s, h) /\ WholeIn(t, h)
    PROVE  WholeIn(s \o t, h)
<1>1. PICK u, l, m : u = s \o t /\ l = Len(s) /\ m = Len(t)
  OBVIOUS
<1>2. /\ l \in Nat /\ m \in Nat /\ Len(u) = l + m
      /\ \A p \in 1..l : u[p] = s[p]
      /\ \A p \in 1..m : u[l + p] = t[p]
      /\ \A p \in 1..(l + m) : u[p] = IF p <= l THEN s[p] ELSE t[p - l]
  BY <1>1, ConcatFacts
<1>3. ASSUME NoneOf(s, h), NoneOf(t, h) PROVE NoneOf(u, h)
  <2> SUFFICES ASSUME NEW p \in 1..(l + m) PROVE u[p] \notin TablesOf(h)
    BY <1>2 DEF NoneOf
  <2>1. CASE p <= l
    BY <1>1, <1>2, <1>3, <2>1 DEF NoneOf
  <2>2. CASE p > l
    <3>1. p - l \in 1..m /\ u[p] = t[p - l]
      BY <1>2, <2>2
    <3> QED
      BY <1>1, <1>3, <3>1 DEF NoneOf
  <2> QED
    BY <1>2, <2>1, <2>2
<1>4. ASSUME NEW i \in 1..l, NEW j \in 1..l, NEW k \in 1..l, GroupAt(s, h, i, j, k),
             NoneOf(t, h)
      PROVE  WholeIn(u, h)
  <2>1. /\ i < j /\ j < k /\ u[i] = Message(h) /\ u[j] = UserToBlog(h) /\ u[k] = User(h)
        /\ i \in 1..Len(u) /\ j \in 1..Len(u) /\ k \in 1..Len(u)
    BY <1>1, <1>2, <1>4 DEF GroupAt
  <2>2. ASSUME NEW p \in (1..Len(u)) \ {i, j, k}
        PROVE  u[p] \notin TablesOf(h) /\ (i < p /\ p < k => u[p] \in OwnOf(h))
    <3>1. CASE p <= l
      <4>1. u[p] = s[p] /\ p \in (1..l) \ {i, j, k}
        BY <1>2, <3>1
      <4> QED
        BY <1>1, <1>4, <4>1 DEF GroupAt
    <3>2. CASE p > l
      <4>1. p - l \in 1..m /\ u[p] = t[p - l] /\ ~(p < k)
        BY <1>2, <3>2
      <4> QED
        BY <1>1, <1>4, <4>1 DEF NoneOf
    <3> QED
      BY <1>2, <3>1, <3>2
  <2>3. GroupAt(u, h, i, j, k)
    BY <2>1, <2>2 DEF GroupAt
  <2> QED
    BY <2>1, <2>3 DEF WholeIn
<1>5. ASSUME NEW i \in 1..m, NEW j \in 1..m, NEW k \in 1..m, GroupAt(t, h, i, j, k),
             NoneOf(s, h)
      PROVE  WholeIn(u, h)
  <2>1. PICK a, b, c \in 1..Len(u) : a = l + i /\ b = l + j /\ c = l + k
    BY <1>2
  <2>2. a < b /\ b < c /\ u[a] = Message(h) /\ u[b] = UserToBlog(h) /\ u[c] = User(h)
    BY <1>1, <1>2, <1>5, <2>1 DEF GroupAt
  <2>3. ASSUME NEW p \in (1..Len(u)) \ {a, b, c}
        PROVE  u[p] \notin TablesOf(h) /\ (a < p /\ p < c => u[p] \in OwnOf(h))
    <3>1. CASE p <= l
      <4>1. u[p] = s[p] /\ p \in 1..l /\ ~(a < p)
        BY <1>2, <2>1, <3>1
      <4> QED
        BY <1>1, <1>5, <4>1 DEF NoneOf
    <3>2. CASE p > l
      <4>1. PICK r \in (1..m) \ {i, j, k} : /\ r = p - l /\ u[p] = t[r]
                                            /\ a < p => i < r
                                            /\ p < c => r < k
        BY <1>2, <2>1, <3>2
      <4> QED
        BY <1>1, <1>5, <4>1 DEF GroupAt
    <3> QED
      BY <1>2, <3>1, <3>2
  <2>4. GroupAt(u, h, a, b, c)
    BY <2>2, <2>3 DEF GroupAt
  <2> QED
    BY <2>4 DEF WholeIn
<1> QED
  BY <1>1, <1>3, <1>4, <1>5 DEF WholeIn

\* What stands first in a list is whole if the tables of the hour are not in both parts.
LEMMA FirstPartWhole ==
    ASSUME NEW s \in Seq(TableSet), NEW t \in Seq(TableSet), NEW h, WholeIn(s \o t, h),
           NoneOf(s, h) \/ NoneOf(t, h)
    PROVE  WholeIn(s, h)
<1> SUFFICES ASSUME ~NoneOf(s, h) PROVE WholeIn(s, h)
  BY DEF WholeIn
<1>1. PICK u, l, m : u = s \o t /\ l = Len(s) /\ m = Len(t)
  OBVIOUS
<1>2. /\ l \in Nat /\ m \in Nat /\ Len(u) = l + m
      /\ \A p \in 1..l : u[p] = s[p]
      /\ \A p \in 1..(l + m) : u[p] = IF p <= l THEN s[p] ELSE t[p - l]
  BY <1>1, ConcatFacts
<1>3. PICK r \in 1..l : s[r] \in TablesOf(h)
  BY <1>1 DEF NoneOf
<1>4. ~NoneOf(u, h)
  <2>1. r \in 1..Len(u) /\ u[r] = s[r]
    BY <1>2
  <2> QED
    BY <1>3, <2>1 DEF NoneOf
<1>5. PICK i, j, k \in 1..Len(u) : GroupAt(u, h, i, j, k)
  BY <1>1, <1>4 DEF WholeIn
<1>6. ASSUME NEW p \in 1..Len(u), u[p] \in TablesOf(h) PROVE p \in 1..l
  <2> SUFFICES ASSUME p > l PROVE FALSE
    BY <1>2
  <2>1. p - l \in 1..m /\ u[p] = t[p - l]
    BY <1>2
  <2> QED
    BY <1>1, <1>6, <2>1 DEF NoneOf
<1>7. /\ i < j /\ j < k
      /\ u[i] = Message(h) /\ u[j] = UserToBlog(h) /\ u[k] = User(h)
  BY <1>5 DEF GroupAt
<1>8. i \in 1..l /\ j \in 1..l /\ k \in 1..l
  <2>1. u[i] \in TablesOf(h) /\ u[j] \in TablesOf(h) /\ u[k] \in TablesOf(h)
    BY <1>7 DEF TablesOf
  <2> QED
    BY <1>6, <2>1
<1>9. ASSUME NEW p \in (1..l) \ {i, j, k}
      PROVE  s[p] \notin TablesOf(h) /\ (i < p /\ p < k => s[p] \in OwnOf(h))
  <2>1. p \in (1..Len(u)) \ {i, j, k} /\ u[p] = s[p]
    BY <1>2
  <2> QED
    BY <1>5, <2>1 DEF GroupAt
<1>10. GroupAt(s, h, i, j, k)
  BY <1>1, <1>2, <1>7, <1>8, <1>9 DEF GroupAt
<1> QED
  BY <1>1, <1>8, <1>10 DEF WholeIn

\* A group stays one when another table drops out of the list.
LEMMA DroppedWhole ==
    ASSUME NEW s \in Seq(TableSet), NEW t \in Seq(TableSet), t # <<>>, NEW h,
           WholeIn(s \o t, h), Head(t) \notin TablesOf(h)
    PROVE  WholeIn(s \o Tail(t), h)
<1>1. PICK u, v, n : u = s \o t /\ v = s \o Tail(t) /\ n = Len(s) + 1
  OBVIOUS
<1>2. /\ n \in Nat /\ n >= 1 /\ Len(u) \in Nat /\ Len(u) >= n /\ Len(v) = Len(u) - 1
      /\ u[n] = Head(t)
      /\ \A p \in 1..Len(v) : v[p] = IF p < n THEN u[p] ELSE u[p + 1]
  <2>1. PICK w, l : w = Tail(t) /\ l = Len(s)
    OBVIOUS
  <2>2. /\ w \in Seq(TableSet) /\ Len(t) \in Nat /\ Len(t) >= 1 /\ Len(w) = Len(t) - 1
        /\ \A i \in 1..Len(w) : w[i] = t[i + 1]
        /\ Head(t) = t[1]
    BY <2>1, TailFacts
  <2>3. /\ l \in Nat /\ Len(u) = l + Len(t)
        /\ \A i \in 1..(l + Len(t)) : u[i] = IF i <= l THEN s[i] ELSE t[i - l]
    BY <1>1, <2>1, ConcatFacts
  <2>4. /\ Len(v) = l + Len(w)
        /\ \A i \in 1..(l + Len(w)) : v[i] = IF i <= l THEN s[i] ELSE w[i - l]
    BY <1>1, <2>1, <2>2, ConcatFacts
  <2>5. n = l + 1 /\ n \in 1..(l + Len(t)) /\ ~(n <= l) /\ n - l = 1
    BY <1>1, <2>1, <2>2, <2>3
  <2>6. u[n] = Head(t)
    BY <2>2, <2>3, <2>5
  <2>7. ASSUME NEW p \in 1..Len(v) PROVE v[p] = IF p < n THEN u[p] ELSE u[p + 1]
    <3>1. CASE p < n
      <4>1. p <= l /\ p \in 1..(l + Len(t)) /\ p \in 1..(l + Len(w))
        BY <2>2, <2>3, <2>4, <2>5, <3>1
      <4> QED
        BY <2>3, <2>4, <3>1, <4>1
    <3>2. CASE ~(p < n)
      <4>1. /\ p \in 1..(l + Len(w)) /\ ~(p <= l) /\ p - l \in 1..Len(w)
            /\ p + 1 \in 1..(l + Len(t)) /\ ~(p + 1 <= l) /\ (p + 1) - l = (p - l) + 1
        BY <2>2, <2>3, <2>4, <2>5, <3>2
      <4>2. v[p] = w[p - l] /\ u[p + 1] = t[(p - l) + 1]
        BY <2>3, <2>4, <4>1
      <4> QED
        BY <2>2, <3>2, <4>1, <4>2
    <3> QED
      BY <3>1, <3>2
  <2> QED
    BY <2>2, <2>3, <2>4, <2>5, <2>6, <2>7
<1>3. CASE NoneOf(u, h)
  <2>1. ASSUME NEW p \in 1..Len(v) PROVE v[p] \notin TablesOf(h)
    <3>1. p \in 1..Len(u) /\ p + 1 \in 1..Len(u)
      BY <1>2
    <3> QED
      BY <1>2, <1>3, <3>1 DEF NoneOf
  <2> QED
    BY <1>1, <2>1 DEF NoneOf, WholeIn
<1>4. ASSUME NEW i \in 1..Len(u), NEW j \in 1..Len(u), NEW k \in 1..Len(u),
             GroupAt(u, h, i, j, k)
      PROVE  WholeIn(v, h)
  <2>1. /\ i < j /\ j < k
        /\ u[i] = Message(h) /\ u[j] = UserToBlog(h) /\ u[k] = User(h)
    BY <1>4 DEF GroupAt
  <2>2. i # n /\ j # n /\ k # n
    <3>1. u[i] \in TablesOf(h) /\ u[j] \in TablesOf(h) /\ u[k] \in TablesOf(h)
      BY <2>1 DEF TablesOf
    <3> QED
      BY <1>2, <3>1
  <2>3. PICK a, b, c \in 1..Len(v) : /\ a = (IF i < n THEN i ELSE i - 1)
                                     /\ b = (IF j < n THEN j ELSE j - 1)
                                     /\ c = (IF k < n THEN k ELSE k - 1)
    BY <1>2, <2>2
  <2>4. a < b /\ b < c
    BY <1>2, <2>1, <2>2, <2>3
  <2>5. v[a] = u[i] /\ v[b] = u[j] /\ v[c] = u[k]
    <3>1. \A x \in 1..Len(u), y \in 1..Len(v) :
             x # n /\ y = (IF x < n THEN x ELSE x - 1) => v[y] = u[x]
      <4> SUFFICES ASSUME NEW x \in 1..Len(u), NEW y \in 1..Len(v), x # n,
                          y = (IF x < n THEN x ELSE x - 1)
                   PROVE  v[y] = u[x]
        OBVIOUS
      <4>1. x = IF y < n THEN y ELSE y + 1
        BY <1>2
      <4> QED
        BY <1>2, <4>1
    <3> QED
      BY <2>2, <2>3, <3>1
  <2>6. ASSUME NEW p \in (1..Len(v)) \ {a, b, c}
        PROVE  v[p] \notin TablesOf(h) /\ (a < p /\ p < c => v[p] \in OwnOf(h))
    <3>1. PICK r : r = (IF p < n THEN p ELSE p + 1)
      OBVIOUS
    <3>2. r \in (1..Len(u)) \ {i, j, k} /\ (a < p => i < r) /\ (p < c => r < k)
      BY <1>2, <2>2, <2>3, <3>1
    <3>3. v[p] = u[r]
      BY <1>2, <3>1
    <3> QED
      BY <1>4, <3>2, <3>3 DEF GroupAt
  <2>7. GroupAt(v, h, a, b, c)
    BY <2>1, <2>4, <2>5, <2>6 DEF GroupAt
  <2> QED
    BY <2>7 DEF WholeIn
<1> QED
  BY <1>1, <1>3, <1>4 DEF WholeIn

-----------------------------------------------------------------------------
(* The steps of the crawler, of the clock and of the programs *)

\* Only what belongs to hour g changes, which a detection under way takes note of.
LEMMA OthersKept ==
    ASSUME TableInv, UNCHANGED <<pc, queue, new, cached>>, NEW g \in Hours,
           disturbed' = IF pc = "idle" THEN disturbed ELSE disturbed \cup {g},
           \A h \in Hours \ {g} : \A t \in TablesOf(h) :
              /\ t \in Tables' <=> t \in Tables
              /\ t \in Tables => size'[t] = size[t]
              /\ Fresh(t)' <=> Fresh(t)
    PROVE  \A h \in Hours : HourInv(h)'
<1> SUFFICES ASSUME NEW h \in Hours, h \notin disturbed' PROVE HourInv(h)'
  BY DEF HourInv
<1>1. HourInv(h) /\ h \notin disturbed
  BY DEF TableInv
<1>2. WholeIn(cached, h)' <=> WholeIn(cached, h)
  OBVIOUS
<1>3. CASE pc = "idle"
  BY <1>1, <1>2, <1>3 DEF HourInv
<1>4. CASE pc = "measure"
  <2>1. h # g
    BY <1>4
  <2>2. MeasureInv(h)
    BY <1>1, <1>4 DEF HourInv
  <2>3. \A t \in TablesOf(h) : IsNew(t)' <=> IsNew(t)
    BY <2>1 DEF IsNew
  <2>4. MeasureInv(h)'
    BY <2>1, <2>2, <2>3 DEF MeasureInv
  <2> QED
    BY <1>1, <1>2, <1>4, <2>4 DEF HourInv
<1>5. CASE pc = "compare"
  <2>1. h # g
    BY <1>5
  <2>2. CompareInv(h) /\ DOMAIN new \subseteq Tables
    BY <1>1, <1>5 DEF HourInv, TableInv, ShapeInv
  <2>3. CompareInv(h)'
    BY <2>1, <2>2 DEF CompareInv
  <2> QED
    BY <1>5, <2>3 DEF HourInv
<1> QED
  BY <1>3, <1>4, <1>5 DEF TableInv, ShapeInv

\* A step that makes or fills a table of the programs touches no hour's three tables.
LEMMA OwnKept ==
    ASSUME TableInv, UNCHANGED <<oldest, pc, queue, new, cached, disturbed>>,
           \A h \in Hours : \A t \in TablesOf(h) :
              /\ t \in Tables' <=> t \in Tables
              /\ t \in Tables => size'[t] = size[t]
    PROVE  \A h \in Hours : HourInv(h)'
<1> SUFFICES ASSUME NEW h \in Hours, h \notin disturbed PROVE HourInv(h)'
  BY DEF HourInv
<1>1. HourInv(h) /\ DOMAIN new \subseteq Tables
  BY DEF TableInv, ShapeInv
<1>2. WholeIn(cached, h)' <=> WholeIn(cached, h)
  OBVIOUS
<1>3. \A t \in TablesOf(h) : IsNew(t)' <=> IsNew(t)
  BY DEF IsNew, Fresh
<1>4. MeasureInv(h) => MeasureInv(h)'
  BY <1>3 DEF MeasureInv
<1>5. CompareInv(h) => CompareInv(h)'
  BY <1>1 DEF CompareInv
<1> QED
  BY <1>1, <1>2, <1>4, <1>5 DEF HourInv

LEMMA CreateTableStep ==
    ASSUME TableInv, CreateTable
    PROVE  TableInv'
<1>0. ShapeInv
  BY DEF TableInv
<1>1. PICK h \in Hours, i \in 1..3 :
         LET t == Table(h, CreationOrder[i])
         IN  /\ t \notin Tables
             /\ size' = [s \in Tables \cup {t} |-> IF s = t THEN 0 ELSE size[s]]
             /\ Disturbs({h})
  BY DEF CreateTable
<1>2. PICK t : t = Table(h, CreationOrder[i])
  OBVIOUS
<1>3. /\ t \notin Tables
      /\ size' = [s \in Tables \cup {t} |-> IF s = t THEN 0 ELSE size[s]]
      /\ disturbed' = IF pc = "idle" THEN disturbed ELSE disturbed \cup {h}
      /\ UNCHANGED <<oldest, pc, queue, new, cached, detections, given>>
  BY <1>1, <1>2 DEF CreateTable, Disturbs
<1>4. t \in TableSet /\ t.hour = h
  <2>1. /\ CreationOrder[1] = "WeiboUser" /\ CreationOrder[2] = "Microblog"
        /\ CreationOrder[3] = "UserToBlog"
    BY DEF CreationOrder
  <2>2. i = 1 \/ i = 2 \/ i = 3
    OBVIOUS
  <2> QED
    BY <1>2, <2>1, <2>2 DEF Table, TableSet, KindSet
<1>5. /\ Tables' = Tables \cup {t} /\ size'[t] = 0
      /\ \A s \in Tables : size'[s] = size[s]
  BY <1>3 DEF Tables
<1>6. ShapeInv'
  <2>1. IsFiniteSet(Tables')
    BY <1>0, <1>5, FS_AddElement DEF ShapeInv
  <2>2. size' \in [Tables' -> 0..MaxSize]
    BY <1>0, <1>3, <1>5, BoundsFacts DEF ShapeInv
  <2>3. disturbed' \subseteq Hours
    BY <1>0, <1>3 DEF ShapeInv
  <2> QED
    BY <1>0, <1>3, <1>4, <1>5, <2>1, <2>2, <2>3 DEF ShapeInv
<1>7. \A g \in Hours \ {h} : \A s \in TablesOf(g) :
         /\ s \in Tables' <=> s \in Tables
         /\ s \in Tables => size'[s] = size[s]
         /\ Fresh(s)' <=> Fresh(s)
  <2>1. \A g \in Hours \ {h} : \A s \in TablesOf(g) : s # t
    BY <1>4, OfTheirHour
  <2> QED
    BY <1>3, <1>5, <2>1 DEF Fresh
<1>8. \A g \in Hours : HourInv(g)'
  BY <1>3, <1>7, OthersKept
<1> QED
  BY <1>6, <1>8 DEF TableInv

LEMMA CommitStep ==
    ASSUME TableInv, Commit
    PROVE  TableInv'
<1>0. ShapeInv
  BY DEF TableInv
<1>a. PICK h \in Hours : \E T \in Additions(h) :
         /\ Complete(h) /\ \A t \in T : size[t] < MaxSize
         /\ size' = [t \in Tables |-> IF t \in T THEN size[t] + 1 ELSE size[t]]
         /\ Disturbs({h})
  BY DEF Commit
<1>1. PICK T \in Additions(h) :
         /\ Complete(h) /\ \A t \in T : size[t] < MaxSize
         /\ size' = [t \in Tables |-> IF t \in T THEN size[t] + 1 ELSE size[t]]
         /\ Disturbs({h})
  BY <1>a
<1>2. T \subseteq TablesOf(h)
  <2>1. PICK s \in SUBSET (1..3) : T = {Table(h, CreationOrder[i]) : i \in s}
    BY <1>1 DEF Additions
  <2>2. /\ CreationOrder[1] = "WeiboUser" /\ CreationOrder[2] = "Microblog"
        /\ CreationOrder[3] = "UserToBlog"
    BY DEF CreationOrder
  <2>3. \A i \in 1..3 : i = 1 \/ i = 2 \/ i = 3
    OBVIOUS
  <2>4. \A i \in 1..3 : Table(h, CreationOrder[i]) \in TablesOf(h)
    BY <2>2, <2>3 DEF TablesOf, Message, UserToBlog, User
  <2> QED
    BY <2>1, <2>4
<1>3. /\ disturbed' = IF pc = "idle" THEN disturbed ELSE disturbed \cup {h}
      /\ UNCHANGED <<oldest, pc, queue, new, cached, detections, given>>
  BY <1>1 DEF Commit, Disturbs
<1>4. /\ Tables' = Tables
      /\ \A t \in Tables : size'[t] = IF t \in T THEN size[t] + 1 ELSE size[t]
  BY <1>1 DEF Tables
<1>5. \A t \in Tables : size[t] \in 0..MaxSize /\ size[t] \in Nat
  BY <1>0, BoundsFacts DEF ShapeInv
<1>6. ShapeInv'
  <2>1. \A t \in Tables : size'[t] \in 0..MaxSize /\ size[t] <= size'[t]
    BY <1>1, <1>4, <1>5, BoundsFacts
  <2>2. size' \in [Tables' -> 0..MaxSize]
    BY <1>1, <1>4, <2>1
  <2>3. \A t \in DOMAIN new : new[t] <= size'[t]
    <3>1. \A t \in DOMAIN new : new[t] \in Nat /\ new[t] <= size[t] /\ t \in Tables
      BY <1>0 DEF ShapeInv
    <3>2. \A t \in Tables : size'[t] \in Nat /\ size[t] \in Nat
      BY <1>5, <2>1, BoundsFacts
    <3> QED
      BY <2>1, <3>1, <3>2
  <2>4. disturbed' \subseteq Hours
    BY <1>0, <1>3 DEF ShapeInv
  <2> QED
    BY <1>0, <1>3, <1>4, <2>2, <2>3, <2>4 DEF ShapeInv
<1>7. \A g \in Hours \ {h} : \A s \in TablesOf(g) :
         /\ s \in Tables' <=> s \in Tables
         /\ s \in Tables => size'[s] = size[s]
         /\ Fresh(s)' <=> Fresh(s)
  <2>1. \A g \in Hours \ {h} : \A s \in TablesOf(g) : s \notin T
    BY <1>2, OfTheirHour
  <2> QED
    BY <1>3, <1>4, <2>1 DEF Fresh
<1>8. \A g \in Hours : HourInv(g)'
  BY <1>3, <1>7, OthersKept
<1> QED
  BY <1>6, <1>8 DEF TableInv

LEMMA ExpireStep ==
    ASSUME TableInv, Expire
    PROVE  TableInv'
<1>0. ShapeInv
  BY DEF TableInv
<1>1. /\ oldest \in Hours /\ oldest' = oldest + 1
      /\ disturbed' = IF pc = "idle" THEN disturbed ELSE disturbed \cup {oldest}
      /\ UNCHANGED <<size, pc, queue, new, cached, detections, given>>
  BY DEF Expire, Disturbs
<1>2. ShapeInv'
  <2>1. oldest' \in 1..(MaxHour + 1)
    BY <1>1, BoundsFacts DEF Hours
  <2>2. disturbed' \subseteq Hours
    BY <1>0, <1>1 DEF ShapeInv
  <2>3. Tables' = Tables
    BY <1>1 DEF Tables
  <2> QED
    BY <1>0, <1>1, <2>1, <2>2, <2>3 DEF ShapeInv
<1>3. PICK g \in Hours : g = oldest
  BY <1>1
<1>4. \A h \in Hours \ {g} : \A s \in TablesOf(h) :
         /\ s \in Tables' <=> s \in Tables
         /\ s \in Tables => size'[s] = size[s]
         /\ Fresh(s)' <=> Fresh(s)
  <2> SUFFICES ASSUME NEW h \in Hours \ {g}, NEW s \in TablesOf(h)
               PROVE  Fresh(s)' <=> Fresh(s)
    BY <1>1 DEF Tables
  <2>1. s.hour = h /\ h \in Nat /\ g \in Nat
    BY OfTheirHour, BoundsFacts
  <2> QED
    BY <1>1, <1>3, <2>1 DEF Fresh
<1>5. \A h \in Hours : HourInv(h)'
  BY <1>1, <1>3, <1>4, OthersKept
<1> QED
  BY <1>2, <1>5 DEF TableInv

LEMMA CreateOwnStep ==
    ASSUME TableInv, CreateOwn
    PROVE  TableInv'
<1>0. ShapeInv
  BY DEF TableInv
<1>a. PICK h \in Hours : \E t \in OwnOf(h) \ Tables :
         /\ size' = [s \in Tables \cup {t} |-> IF s = t THEN 0 ELSE size[s]]
         /\ given' = given \cup {t}
  BY DEF CreateOwn
<1>1. PICK t \in OwnOf(h) \ Tables :
         /\ size' = [s \in Tables \cup {t} |-> IF s = t THEN 0 ELSE size[s]]
         /\ given' = given \cup {t}
  BY <1>a
<1>2. UNCHANGED <<oldest, pc, queue, new, cached, detections, disturbed>>
  BY DEF CreateOwn
<1>3. t \in TableSet
  BY TableFacts
<1>4. /\ Tables' = Tables \cup {t} /\ size'[t] = 0
      /\ \A s \in Tables : size'[s] = size[s]
  BY <1>1 DEF Tables
<1>5. ShapeInv'
  <2>1. IsFiniteSet(Tables')
    BY <1>0, <1>4, FS_AddElement DEF ShapeInv
  <2>2. size' \in [Tables' -> 0..MaxSize]
    BY <1>0, <1>1, <1>4, BoundsFacts DEF ShapeInv
  <2>3. \A s \in DOMAIN new : new[s] <= size'[s]
    BY <1>0, <1>4 DEF ShapeInv
  <2>4. given' \subseteq Tables'
    BY <1>0, <1>1, <1>4 DEF ShapeInv
  <2> QED
    BY <1>0, <1>2, <1>3, <1>4, <2>1, <2>2, <2>3, <2>4 DEF ShapeInv
<1>6. \A g \in Hours : \A s \in TablesOf(g) : s # t
  <2>1. ASSUME NEW g \in Hours, t \in TablesOf(g) PROVE FALSE
    <3>1. g = h
      BY <1>1, <2>1, OfTheirHour
    <3> QED
      BY <1>1, <2>1, <3>1, OfTheirHour
  <2> QED
    BY <2>1
<1>7. \A g \in Hours : HourInv(g)'
  BY <1>2, <1>4, <1>6, OwnKept
<1> QED
  BY <1>5, <1>7 DEF TableInv

LEMMA FillOwnStep ==
    ASSUME TableInv, FillOwn
    PROVE  TableInv'
<1>0. ShapeInv
  BY DEF TableInv
<1>a. PICK h \in Hours : \E t \in OwnOf(h) \cap given :
         size[t] < MaxSize /\ size' = [size EXCEPT ![t] = @ + 1]
  BY DEF FillOwn
<1>1. PICK t \in OwnOf(h) \cap given :
         size[t] < MaxSize /\ size' = [size EXCEPT ![t] = @ + 1]
  BY <1>a
<1>2. UNCHANGED <<oldest, pc, queue, new, cached, detections, disturbed, given>>
  BY DEF FillOwn
<1>3. /\ t \in Tables /\ \A s \in Tables : size[s] \in 0..MaxSize /\ size[s] \in Nat
  BY <1>0, BoundsFacts DEF ShapeInv
<1>4. /\ Tables' = Tables /\ size'[t] = size[t] + 1
      /\ \A s \in Tables : s # t => size'[s] = size[s]
  BY <1>1, <1>3 DEF Tables
<1>5. ShapeInv'
  <2>1. size[t] + 1 \in 0..MaxSize
    BY <1>1, <1>3, BoundsFacts
  <2>2. size' \in [Tables' -> 0..MaxSize]
    BY <1>0, <1>1, <1>3, <1>4, <2>1 DEF ShapeInv
  <2>3. \A s \in DOMAIN new : new[s] <= size'[s]
    <3>1. \A s \in DOMAIN new : new[s] \in Nat /\ new[s] <= size[s] /\ s \in Tables
      BY <1>0 DEF ShapeInv
    <3>2. \A s \in Tables : size[s] <= size'[s] /\ size[s] \in Nat /\ size'[s] \in Nat
      BY <1>3, <1>4
    <3> QED
      BY <3>1, <3>2
  <2> QED
    BY <1>0, <1>2, <1>4, <2>2, <2>3 DEF ShapeInv
<1>6. \A g \in Hours : \A s \in TablesOf(g) : s # t
  <2>1. ASSUME NEW g \in Hours, t \in TablesOf(g) PROVE FALSE
    <3>1. g = h
      BY <1>1, <2>1, OfTheirHour
    <3> QED
      BY <1>1, <2>1, <3>1, OfTheirHour
  <2> QED
    BY <2>1
<1>7. \A g \in Hours : HourInv(g)'
  BY <1>2, <1>4, <1>6, OwnKept
<1> QED
  BY <1>5, <1>7 DEF TableInv

-----------------------------------------------------------------------------
(* The steps of a detection *)

LEMMA ReflectStep ==
    ASSUME TableInv, Reflect
    PROVE  TableInv'
<1>0. ShapeInv /\ \A h \in Hours : HourInv(h)
  BY DEF TableInv
<1>1. PICK q : q = Sorted(Tables)
  OBVIOUS
<1>2. /\ pc = "idle" /\ pc' = "measure" /\ queue' = q
      /\ new' = NoSizes /\ DOMAIN new' = {}
      /\ disturbed' = disturbed \cup {h \in Hours : ~Complete(h) /\ TablesOf(h) \cap Tables # {}}
      /\ UNCHANGED <<size, oldest, cached, detections, given>> /\ Tables' = Tables
  BY <1>1 DEF Reflect, Reflected, Tables, NoSizes
<1>3. /\ q \in Seq(Tables) /\ Len(q) \in Nat
      /\ \A i \in 1..Len(q) : q[i] \in Tables
      /\ \A t \in Tables : \E i \in 1..Len(q) : q[i] = t
  <2>1. Tables \in SUBSET TableSet /\ IsFiniteSet(Tables)
    BY <1>0 DEF ShapeInv
  <2>2. PICK n : n = Cardinality(Tables)
    OBVIOUS
  <2>3. /\ q \in Seq(Tables) /\ Len(q) = n /\ n \in Nat
        /\ \A i \in 1..n : q[i] \in Tables
        /\ \A t \in Tables : \E i \in 1..n : q[i] = t
    BY <1>1, <2>1, <2>2, SortedFacts
  <2> QED
    BY <2>3
<1>4. ShapeInv'
  <2>1. q \in Seq(TableSet)
    BY <1>0, <1>3 DEF ShapeInv
  <2>2. new' \in [DOMAIN new' -> Nat]
    BY <1>2 DEF NoSizes
  <2>3. disturbed' \subseteq Hours
    BY <1>0, <1>2 DEF ShapeInv
  <2> QED
    BY <1>0, <1>2, <1>3, <2>1, <2>2, <2>3 DEF ShapeInv
<1>5. ASSUME NEW h \in Hours PROVE HourInv(h)'
  <2> SUFFICES ASSUME h \notin disturbed' PROVE HourInv(h)'
    BY DEF HourInv
  <2>1. WholeIn(cached, h)
    BY <1>0, <1>2 DEF HourInv
  <2>2. WholeIn(cached, h)' <=> WholeIn(cached, h)
    BY <1>2
  <2>3. MeasureInv(h)'
    <3>1. TablesOf(h) \cap Tables = {} \/ TablesOf(h) \subseteq Tables
      BY <1>2 DEF Complete
    <3> QED
      BY <1>2, <1>3, <3>1 DEF MeasureInv
  <2> QED
    BY <1>2, <2>1, <2>2, <2>3 DEF HourInv
<1> QED
  BY <1>4, <1>5 DEF TableInv

LEMMA MeasureStep ==
    ASSUME TableInv, Measure
    PROVE  TableInv'
<1>0. ShapeInv /\ \A h \in Hours : HourInv(h)
  BY DEF TableInv
<1>1. PICK t, q : t = Head(queue) /\ q = Tail(queue)
  OBVIOUS
<1>2. /\ pc = "measure" /\ queue # <<>> /\ queue' = q
      /\ new' = IF IsNew(t) THEN [s \in DOMAIN new \cup {t} |-> IF s = t THEN size[t] ELSE new[s]]
                ELSE new
      /\ UNCHANGED <<size, oldest, pc, cached, detections, disturbed, given>> /\ Tables' = Tables
  BY <1>1 DEF Measure, Tables
<1>3. /\ q \in Seq(TableSet) /\ Len(queue) \in Nat /\ Len(queue) >= 1
      /\ Len(q) = Len(queue) - 1
      /\ \A i \in 1..Len(q) : q[i] = queue[i + 1]
      /\ t = queue[1] /\ t \in Tables
  <2>1. queue \in Seq(TableSet) /\ \A i \in 1..Len(queue) : queue[i] \in Tables
    BY <1>0 DEF ShapeInv
  <2> QED
    BY <1>1, <1>2, <2>1, TailFacts
<1>4. /\ DOMAIN new' = IF IsNew(t) THEN DOMAIN new \cup {t} ELSE DOMAIN new
      /\ IsNew(t) => new'[t] = size[t]
      /\ \A s \in DOMAIN new : s # t => new'[s] = new[s]
      /\ ~IsNew(t) => new' = new
  BY <1>2
<1>5. ShapeInv'
  <2>1. \A i \in 1..Len(q) : q[i] \in Tables
    <3>1. \A i \in 1..Len(q) : i + 1 \in 1..Len(queue)
      BY <1>3
    <3> QED
      BY <1>0, <1>3, <3>1 DEF ShapeInv
  <2>2. size[t] \in Nat
    BY <1>0, <1>3, BoundsFacts DEF ShapeInv
  <2>3. new' \in [DOMAIN new' -> Nat]
    BY <1>0, <1>2, <2>2 DEF ShapeInv
  <2>4. \A s \in DOMAIN new' : new'[s] <= size[s]
    BY <1>0, <1>4, <2>2 DEF ShapeInv
  <2>5. DOMAIN new' \subseteq Tables
    BY <1>0, <1>3, <1>4 DEF ShapeInv
  <2> QED
    BY <1>0, <1>2, <1>3, <2>1, <2>3, <2>4, <2>5 DEF ShapeInv
<1>6. ASSUME NEW h \in Hours PROVE HourInv(h)'
  <2> SUFFICES ASSUME h \notin disturbed' PROVE HourInv(h)'
    BY DEF HourInv
  <2>1. WholeIn(cached, h) /\ MeasureInv(h)
    BY <1>0, <1>2 DEF HourInv
  <2>2. WholeIn(cached, h)' <=> WholeIn(cached, h)
    BY <1>2
  <2>3. \A s \in TableSet : IsNew(s)' <=> IsNew(s)
    BY <1>2 DEF IsNew, Fresh
  <2>4. ASSUME NEW s \in TablesOf(h) \cap Tables
        PROVE  /\ s \in DOMAIN new' => IsNew(s) /\ new'[s] = size[s]
               /\ IsNew(s) => s \in DOMAIN new' \/ \E i \in 1..Len(q) : q[i] = s
    <3>1. /\ s \in DOMAIN new => IsNew(s) /\ new[s] = size[s]
          /\ IsNew(s) => s \in DOMAIN new \/ \E i \in 1..Len(queue) : queue[i] = s
      BY <2>1 DEF MeasureInv
    <3>2. s \in DOMAIN new' => IsNew(s) /\ new'[s] = size[s]
      BY <1>4, <3>1
    <3>3. ASSUME IsNew(s), s \notin DOMAIN new'
          PROVE  \E i \in 1..Len(q) : q[i] = s
      <4>1. s # t /\ s \notin DOMAIN new
        BY <1>4, <3>3
      <4>2. PICK i \in 1..Len(queue) : queue[i] = s
        BY <3>1, <3>3, <4>1
      <4>3. i # 1
        BY <1>3, <4>1, <4>2
      <4>4. i - 1 \in 1..Len(q) /\ (i - 1) + 1 = i
        BY <1>3, <4>3
      <4> QED
        BY <1>3, <4>2, <4>4
    <3> QED
      BY <3>2, <3>3
  <2>5. MeasureInv(h)'
    <3>1. \A s \in TablesOf(h) \cap Tables : s \in TableSet
      BY OfTheirHour
    <3> QED
      BY <1>2, <2>1, <2>3, <2>4, <3>1 DEF MeasureInv
  <2> QED
    BY <1>2, <2>1, <2>2, <2>5 DEF HourInv
<1> QED
  BY <1>5, <1>6 DEF TableInv

LEMMA SleepStep ==
    ASSUME TableInv, Sleep
    PROVE  TableInv'
<1>0. ShapeInv /\ \A h \in Hours : HourInv(h)
  BY DEF TableInv
<1>1. PICK S, q : S = DOMAIN new /\ q = Sorted(S)
  OBVIOUS
<1>2. /\ pc = "measure" /\ queue = <<>> /\ pc' = "compare" /\ queue' = q
      /\ UNCHANGED <<size, oldest, new, cached, detections, disturbed, given>> /\ Tables' = Tables
  BY <1>1 DEF Sleep, ItemsOf, Tables
<1>3. S \in SUBSET TableSet /\ S \subseteq Tables /\ IsFiniteSet(S)
  <2>1. S \subseteq Tables /\ Tables \subseteq TableSet /\ IsFiniteSet(Tables)
    BY <1>0, <1>1 DEF ShapeInv
  <2> QED
    BY <2>1, FS_Subset
<1>4. /\ q \in Seq(S) /\ Len(q) \in Nat
      /\ \A i \in 1..Len(q) : q[i] \in S
  <2>1. PICK n : n = Cardinality(S)
    OBVIOUS
  <2>2. /\ q \in Seq(S) /\ Len(q) = n /\ n \in Nat
        /\ \A i \in 1..n : q[i] \in S
    BY <1>1, <1>3, <2>1, SortedFacts
  <2> QED
    BY <2>2
<1>5. q \in Seq(TableSet)
  BY <1>3, <1>4
<1>6. ShapeInv'
  BY <1>0, <1>1, <1>2, <1>3, <1>4, <1>5 DEF ShapeInv
<1>7. ASSUME NEW h \in Hours, h \notin disturbed
      PROVE  /\ WholeIn(cached, h) /\ MeasureInv(h)
             /\ TablesOf(h) \cap S = {} \/ (TablesOf(h) \subseteq S /\ NoneOf(cached, h))
  <2>1. WholeIn(cached, h) /\ MeasureInv(h)
    BY <1>0, <1>2, <1>7 DEF HourInv
  <2>2. \A t \in TablesOf(h) \cap Tables : t \in S <=> IsNew(t)
    <3>1. Len(queue) = 0
      BY <1>2
    <3>2. ~ \E i \in 1..Len(queue) : TRUE
      BY <3>1
    <3> QED
      BY <1>1, <2>1, <3>2 DEF MeasureInv
  <2>3. ASSUME NEW t \in TablesOf(h) \cap S
        PROVE  TablesOf(h) \subseteq S /\ NoneOf(cached, h)
    <3>1. TablesOf(h) \subseteq Tables /\ IsNew(t)
      BY <1>3, <2>1, <2>2, <2>3 DEF MeasureInv
    <3>2. Len(cached) \in Nat /\ DOMAIN cached = 1..Len(cached)
      BY <1>0 DEF ShapeInv
    <3>3. \A i \in 1..Len(cached) : cached[i] # t
      BY <3>1, <3>2 DEF IsNew, ToSet
    <3>4. ASSUME NEW i \in 1..Len(cached), NEW j \in 1..Len(cached), NEW k \in 1..Len(cached),
                 GroupAt(cached, h, i, j, k)
          PROVE  FALSE
      <4>1. cached[i] = Message(h) /\ cached[j] = UserToBlog(h) /\ cached[k] = User(h)
        BY <3>4 DEF GroupAt
      <4>2. t = Message(h) \/ t = UserToBlog(h) \/ t = User(h)
        BY TableFacts
      <4> QED
        BY <3>3, <4>1, <4>2
    <3>5. NoneOf(cached, h)
      BY <2>1, <3>4 DEF WholeIn
    <3>6. \A u \in TablesOf(h) : Fresh(u) <=> Fresh(t)
      <4>1. \A u \in TablesOf(h) : u.hour = t.hour
        BY OfTheirHour
      <4> QED
        BY <4>1 DEF Fresh
    <3>7. \A u \in TablesOf(h) : IsNew(u)
      BY <3>1, <3>2, <3>5, <3>6 DEF IsNew, NoneOf, ToSet
    <3> QED
      BY <2>2, <3>1, <3>5, <3>7
  <2> QED
    BY <2>1, <2>3
<1>8. ASSUME NEW h \in Hours PROVE HourInv(h)'
  <2> SUFFICES ASSUME h \notin disturbed' PROVE HourInv(h)'
    BY DEF HourInv
  <2>1. /\ WholeIn(cached, h) /\ MeasureInv(h)
        /\ TablesOf(h) \cap S = {} \/ (TablesOf(h) \subseteq S /\ NoneOf(cached, h))
    BY <1>2, <1>7
  <2>2. \A t \in TablesOf(h) \cap DOMAIN new : new[t] = size[t]
    BY <1>1, <1>3, <2>1 DEF MeasureInv
  <2>3. TablesOf(h) \cap S = {} => NoneOf(q, h)
    BY <1>4 DEF NoneOf
  <2>4. TablesOf(h) \subseteq S => WholeIn(q, h)
    BY <1>1, <1>3, SortedGroup
  <2>5. WholeIn(cached \o q, h)
    <3>1. cached \in Seq(TableSet)
      BY <1>0 DEF ShapeInv
    <3> QED
      BY <1>5, <2>1, <2>3, <2>4, <3>1, JoinedWhole
  <2>6. CompareInv(h)'
    BY <1>2, <2>2, <2>5 DEF CompareInv
  <2> QED
    BY <1>2, <2>6 DEF HourInv
<1> QED
  BY <1>6, <1>8 DEF TableInv

LEMMA CompareStep ==
    ASSUME TableInv, Compare
    PROVE  TableInv'
<1>0. ShapeInv /\ \A h \in Hours : HourInv(h)
  BY DEF TableInv
<1>1. PICK t, q, c, len : /\ t = Head(queue) /\ q = Tail(queue)
                          /\ c = (IF IsStable(t) THEN Append(cached, t) ELSE cached)
                          /\ len = Len(cached)
  OBVIOUS
<1>2. /\ pc = "compare" /\ queue # <<>> /\ queue' = q /\ cached' = c
      /\ UNCHANGED <<size, oldest, pc, new, detections, disturbed, given>> /\ Tables' = Tables
  BY <1>1 DEF Compare, Tables
<1>3. /\ queue \in Seq(TableSet) /\ q \in Seq(TableSet)
      /\ Len(queue) \in Nat /\ Len(queue) >= 1 /\ Len(q) = Len(queue) - 1
      /\ \A i \in 1..Len(q) : q[i] = queue[i + 1]
      /\ t = queue[1] /\ t \in TableSet
  <2>1. queue \in Seq(TableSet)
    BY <1>0 DEF ShapeInv
  <2> QED
    BY <1>1, <1>2, <2>1, TailFacts
<1>4. t \in Tables /\ t \in DOMAIN new
  <2>1. 1 \in 1..Len(queue)
    BY <1>3
  <2> QED
    BY <1>0, <1>2, <1>3, <2>1 DEF ShapeInv
<1>5. /\ c \in Seq(TableSet) /\ cached \in Seq(TableSet) /\ len \in Nat
      /\ Len(c) = IF IsStable(t) THEN len + 1 ELSE len
      /\ \A i \in 1..len : c[i] = cached[i]
      /\ IsStable(t) => c[len + 1] = t
  <2>1. cached \in Seq(TableSet)
    BY <1>0 DEF ShapeInv
  <2> QED
    BY <1>1, <1>3, <2>1, AppendFacts
<1>6. ShapeInv'
  <2>1. \A i \in 1..Len(q) : q[i] \in Tables /\ q[i] \in DOMAIN new
    <3>1. \A i \in 1..Len(q) : i + 1 \in 1..Len(queue)
      BY <1>3
    <3> QED
      BY <1>0, <1>2, <1>3, <3>1 DEF ShapeInv
  <2>2. \A i \in 1..Len(c) : c[i] \in Tables
    <3>1. \A i \in 1..len : cached[i] \in Tables
      BY <1>0, <1>1 DEF ShapeInv
    <3>2. \A i \in 1..Len(c) : i \in 1..len \/ (i = len + 1 /\ IsStable(t))
      BY <1>5
    <3> QED
      BY <1>4, <1>5, <3>1, <3>2
  <2> QED
    BY <1>0, <1>2, <1>3, <1>5, <2>1, <2>2 DEF ShapeInv
<1>7. ASSUME NEW h \in Hours PROVE HourInv(h)'
  <2> SUFFICES ASSUME h \notin disturbed' PROVE HourInv(h)'
    BY DEF HourInv
  <2>1. CompareInv(h)
    BY <1>0, <1>2 DEF HourInv
  <2>2. WholeIn(c \o q, h)
    <3>1. CASE IsStable(t)
      <4>1. c \o q = cached \o queue
        BY <1>1, <1>2, <1>3, <1>5, <3>1, MovedOver
      <4> QED
        BY <2>1, <4>1 DEF CompareInv
    <3>2. CASE ~IsStable(t)
      <4>1. t \notin TablesOf(h)
        BY <1>4, <2>1, <3>2 DEF CompareInv, IsStable
      <4> QED
        BY <1>1, <1>2, <1>3, <1>5, <2>1, <3>2, <4>1, DroppedWhole DEF CompareInv
    <3> QED
      BY <3>1, <3>2
  <2>3. CompareInv(h)'
    BY <1>2, <2>1, <2>2 DEF CompareInv
  <2> QED
    BY <1>2, <2>3 DEF HourInv
<1> QED
  BY <1>6, <1>7 DEF TableInv

LEMMA ReturnStep ==
    ASSUME TableInv, Return
    PROVE  TableInv'
<1>0. ShapeInv /\ \A h \in Hours : HourInv(h)
  BY DEF TableInv
<1>1. /\ pc = "compare" /\ queue = <<>> /\ pc' = "idle" /\ new' = NoSizes
      /\ detections' = IF Working THEN detections + 1 ELSE detections
      /\ given' = given \cup ToSet(cached)
      /\ UNCHANGED <<size, oldest, queue, cached, disturbed>> /\ Tables' = Tables
  BY DEF Return, Tables
<1>2. ShapeInv'
  <2>1. new' \in [DOMAIN new' -> Nat] /\ DOMAIN new' = {}
    BY <1>1 DEF NoSizes
  <2>2. detections' \in 0..MaxDetection
    BY <1>0, <1>1, BoundsFacts DEF ShapeInv, Working
  <2>3. given' \subseteq Tables
    <3>1. DOMAIN cached = 1..Len(cached)
      BY <1>0 DEF ShapeInv
    <3> QED
      BY <1>0, <1>1, <3>1 DEF ShapeInv, ToSet
  <2> QED
    BY <1>0, <1>1, <2>1, <2>2, <2>3 DEF ShapeInv
<1>3. ASSUME NEW h \in Hours PROVE HourInv(h)'
  <2> SUFFICES ASSUME h \notin disturbed' PROVE HourInv(h)'
    BY DEF HourInv
  <2>1. CompareInv(h)
    BY <1>0, <1>1 DEF HourInv
  <2>2. cached \o queue = cached
    <3>1. cached \in Seq(TableSet)
      BY <1>0 DEF ShapeInv
    <3> QED
      BY <1>1, <3>1, EmptyConcat
  <2>3. WholeIn(cached, h)
    BY <2>1, <2>2 DEF CompareInv
  <2> QED
    BY <1>1, <2>3 DEF HourInv
<1> QED
  BY <1>2, <1>3 DEF TableInv

LEMMA CountFailsStep ==
    ASSUME TableInv, CountFails
    PROVE  TableInv'
<1>0. ShapeInv /\ \A h \in Hours : HourInv(h)
  BY DEF TableInv
<1>1. /\ Working /\ pc' = "idle" /\ queue' = <<>> /\ new' = NoSizes
      /\ detections' = detections + 1
      /\ UNCHANGED <<size, oldest, cached, given>> /\ Tables' = Tables
      /\ \/ pc = "measure" /\ disturbed' = disturbed
         \/ /\ pc = "compare"
            /\ disturbed' = disturbed \cup
                  {h \in Hours : \A s \in {cached, queue} : TablesOf(h) \cap ToSet(s) # {}}
  BY DEF CountFails, Tables
<1>2. ShapeInv'
  <2>1. new' \in [DOMAIN new' -> Nat] /\ DOMAIN new' = {}
    BY <1>1 DEF NoSizes
  <2>2. detections' \in 0..MaxDetection
    BY <1>0, <1>1, BoundsFacts DEF ShapeInv, Working
  <2>3. disturbed' \subseteq Hours
    BY <1>0, <1>1 DEF ShapeInv
  <2>4. queue' \in Seq(TableSet) /\ Len(queue') = 0
    BY <1>1
  <2> QED
    BY <1>0, <1>1, <2>1, <2>2, <2>3, <2>4 DEF ShapeInv
<1>3. ASSUME NEW h \in Hours PROVE HourInv(h)'
  <2> SUFFICES ASSUME h \notin disturbed' PROVE HourInv(h)'
    BY DEF HourInv
  <2>1. HourInv(h) /\ h \notin disturbed
    BY <1>0, <1>1
  <2>2. WholeIn(cached, h)
    <3>1. CASE pc = "measure"
      BY <2>1, <3>1 DEF HourInv
    <3>2. CASE pc = "compare"
      <4>1. WholeIn(cached \o queue, h)
        BY <2>1, <3>2 DEF HourInv, CompareInv
      <4>2. TablesOf(h) \cap ToSet(cached) = {} \/ TablesOf(h) \cap ToSet(queue) = {}
        BY <1>1, <3>2
      <4>3. /\ cached \in Seq(TableSet) /\ DOMAIN cached = 1..Len(cached)
            /\ queue \in Seq(TableSet) /\ DOMAIN queue = 1..Len(queue)
        BY <1>0 DEF ShapeInv
      <4>4. NoneOf(cached, h) \/ NoneOf(queue, h)
        BY <4>2, <4>3 DEF NoneOf, ToSet
      <4> QED
        BY <4>1, <4>3, <4>4, FirstPartWhole
    <3> QED
      BY <1>1, <3>1, <3>2
  <2> QED
    BY <1>1, <2>2 DEF HourInv
<1> QED
  BY <1>2, <1>3 DEF TableInv

LEMMA RestartStep ==
    ASSUME TableInv, Restart
    PROVE  TableInv'
<1>0. ShapeInv
  BY DEF TableInv
<1>1. /\ Working /\ pc' = "idle" /\ queue' = <<>> /\ new' = NoSizes /\ cached' = <<>>
      /\ detections' = detections + 1 /\ disturbed' = {} /\ given' = {}
      /\ UNCHANGED <<size, oldest>> /\ Tables' = Tables
  BY DEF Restart, Tables
<1>2. queue' \in Seq(TableSet) /\ Len(queue') = 0 /\ cached' \in Seq(TableSet) /\ Len(cached') = 0
  BY <1>1
<1>3. ShapeInv'
  <2>1. new' \in [DOMAIN new' -> Nat] /\ DOMAIN new' = {}
    BY <1>1 DEF NoSizes
  <2>2. detections' \in 0..MaxDetection
    BY <1>0, <1>1, BoundsFacts DEF ShapeInv, Working
  <2> QED
    BY <1>0, <1>1, <1>2, <2>1, <2>2 DEF ShapeInv
<1>4. \A h \in Hours : HourInv(h)'
  BY <1>1, <1>2 DEF HourInv, WholeIn, NoneOf
<1> QED
  BY <1>3, <1>4 DEF TableInv

LEMMA InitInv ==
    ASSUME Init
    PROVE  TableInv
<1>1. /\ Tables = {} /\ size = NoSizes /\ new = NoSizes /\ DOMAIN new = {}
      /\ oldest = 1 /\ pc = "idle"
      /\ queue = <<>> /\ cached = <<>> /\ detections = 0 /\ disturbed = {} /\ given = {}
  BY DEF Init, NoSizes, Tables
<1>2. /\ Len(queue) = 0 /\ Len(cached) = 0 /\ queue \in Seq(TableSet) /\ cached \in Seq(TableSet)
  BY <1>1
<1>3. ShapeInv
  <2>1. size \in [Tables -> 0..MaxSize] /\ new \in [DOMAIN new -> Nat]
    BY <1>1 DEF NoSizes, Tables
  <2>2. IsFiniteSet(Tables)
    BY <1>1, FS_EmptySet
  <2> QED
    BY <1>1, <1>2, <2>1, <2>2, BoundsFacts DEF ShapeInv
<1>4. \A h \in Hours : HourInv(h)
  BY <1>1, <1>2 DEF HourInv, WholeIn, NoneOf
<1> QED
  BY <1>3, <1>4 DEF TableInv

LEMMA StutterStep ==
    ASSUME TableInv, UNCHANGED vars
    PROVE  TableInv'
<1>1. UNCHANGED <<size, oldest, pc, queue, new, cached, detections, disturbed, given>>
  BY DEF vars
<1>2. ShapeInv' <=> ShapeInv
  BY <1>1 DEF ShapeInv, Tables
<1>3. ASSUME NEW h \in Hours PROVE HourInv(h)' <=> HourInv(h)
  BY <1>1 DEF HourInv, MeasureInv, CompareInv, IsNew, Fresh, Tables
<1> QED
  BY <1>2, <1>3 DEF TableInv

\* The invariant of the detection.
THEOREM InvAlways == Spec => []TableInv
<1>1. Init => TableInv
  BY InitInv
<1>2. TableInv /\ [Next]_vars => TableInv'
  BY CreateTableStep, CommitStep, ExpireStep, CreateOwnStep, FillOwnStep, ReflectStep,
     MeasureStep, SleepStep, CompareStep, ReturnStep, CountFailsStep, RestartStep, StutterStep
     DEF Next, Detect
<1> QED
  BY <1>1, <1>2, PTL DEF Spec

-----------------------------------------------------------------------------
(* What follows from the invariant *)

\* The state keeps its types: the lists hold tables there are, and a first count
\* is never above the number of rows there are now.
THEOREM TypeCorrect == Spec => []TypeOK
<1>1. ASSUME TableInv PROVE TypeOK
  <2>0. ShapeInv
    BY <1>1 DEF TableInv
  <2>1. Tables \subseteq AllTables
    <3>1. \A t \in TableSet : t \in AllTables
      BY OfTheirHour DEF AllTables
    <3> QED
      BY <2>0, <3>1 DEF ShapeInv
  <2>2. DOMAIN queue = 1..Len(queue) /\ DOMAIN cached = 1..Len(cached)
    BY <2>0 DEF ShapeInv
  <2>3. ToSet(queue) \subseteq Tables /\ ToSet(cached) \subseteq Tables
    BY <2>0, <2>2 DEF ShapeInv, ToSet
  <2>4. ASSUME NEW t \in DOMAIN new PROVE new[t] \in 0..size[t]
    <3>1. new[t] \in Nat /\ t \in Tables /\ new[t] <= size[t]
      BY <2>0 DEF ShapeInv
    <3>2. size[t] \in Nat
      BY <2>0, <3>1, BoundsFacts DEF ShapeInv
    <3> QED
      BY <3>1, <3>2
  <2> QED
    BY <2>0, <2>1, <2>3, <2>4 DEF ShapeInv, TypeOK
<1> QED
  BY <1>1, InvAlways, PTL

\* A detection lists an hour with all its three tables, in the order of a triple and with
\* at most tables between them that the programs made for the same hour, or with none,
\* also when it begins with a full database after a restart, or ends with an exception,
\* unless the crawler or the clock touched the hour while a detection ran, one began when
\* the hour had only some of its tables, or a count between its tables was refused.
THEOREM HoursListedWhole == Spec => []WholeHours
<1>1. ASSUME TableInv PROVE WholeHours
  <2> SUFFICES ASSUME pc = "idle", NEW h \in Hours, h \notin disturbed
               PROVE  \/ TablesOf(h) \cap ToSet(cached) = {}
                      \/ \E i, j, k \in 1..Len(cached) : GroupAt(cached, h, i, j, k)
    BY DEF WholeHours
  <2>1. WholeIn(cached, h) /\ cached \in Seq(TableSet)
    BY <1>1 DEF TableInv, HourInv, ShapeInv
  <2>2. NoneOf(cached, h) => TablesOf(h) \cap ToSet(cached) = {}
    <3>1. DOMAIN cached = 1..Len(cached)
      BY <2>1
    <3> QED
      BY <3>1 DEF NoneOf, ToSet
  <2> QED
    BY <2>1, <2>2 DEF WholeIn
<1> QED
  BY <1>1, InvAlways, PTL

LEMMA LeastNatural ==
    ASSUME NEW S \in SUBSET Nat, S # {}
    PROVE  \E m \in S : \A k \in S : m <= k
<1>1. PICK m \in S : \A k \in S : ~(<<k, m>> \in OpToRel(<, Nat))
  BY NatLessThanWellFounded, WFMin, Zenon
<1>2. \A k \in S : ~(k < m)
  BY <1>1 DEF OpToRel
<1> QED
  BY <1>2

TripleAt(s, h, i) ==
    s[i] = Message(h) /\ s[i + 1] = UserToBlog(h) /\ s[i + 2] = User(h)
TripleFrom(s, i) == i + 2 <= Len(s) /\ \E h \in Hours : TripleAt(s, h, i)

\* A list of groups without tables of the programs: each place is one of a triple's.
LEMMA InTriple ==
    ASSUME NEW s \in Seq(TableSet), NEW p \in 1..Len(s),
           \A h \in Hours : WholeIn(s, h),
           \A q \in 1..Len(s) : \A h \in Hours : s[q] \notin OwnOf(h)
    PROVE  \E i \in {p, p - 1, p - 2} : i >= 1 /\ TripleFrom(s, i)
<1>1. PICK h \in Hours : s[p] \in TablesOf(h)
  <2>1. s[p] \in TableSet
    OBVIOUS
  <2> QED
    BY <2>1, OfTheirHour
<1>2. PICK i, j, k \in 1..Len(s) : GroupAt(s, h, i, j, k)
  BY <1>1 DEF WholeIn, NoneOf
<1>3. /\ i < j /\ j < k
      /\ s[i] = Message(h) /\ s[j] = UserToBlog(h) /\ s[k] = User(h)
      /\ \A q \in (1..Len(s)) \ {i, j, k} :
            s[q] \notin TablesOf(h) /\ (i < q /\ q < k => s[q] \in OwnOf(h))
  BY <1>2 DEF GroupAt
<1>4. \A q \in 1..Len(s) : i < q /\ q < k => q = j
  BY <1>3
<1>5. j = i + 1 /\ k = i + 2
  <2>1. i + 1 \in 1..Len(s) /\ j + 1 \in 1..Len(s)
    BY <1>3
  <2>2. i < i + 1 /\ i + 1 < k /\ i < j + 1
    BY <1>3
  <2>3. i + 1 = j
    BY <1>4, <2>1, <2>2
  <2>4. ~(j + 1 < k)
    BY <1>4, <2>1, <2>2
  <2> QED
    BY <1>3, <2>3, <2>4
<1>6. i >= 1 /\ TripleFrom(s, i)
  BY <1>3, <1>5 DEF TripleFrom, TripleAt
<1>7. p \in {i, i + 1, i + 2}
  BY <1>1, <1>3, <1>5
<1>8. i \in {p, p - 1, p - 2}
  BY <1>7
<1> QED
  BY <1>6, <1>8

\* So that a triple begins at every third place.
LEMMA EveryThird ==
    ASSUME NEW s \in Seq(TableSet),
           \A h \in Hours : WholeIn(s, h),
           \A q \in 1..Len(s) : \A h \in Hours : s[q] \notin OwnOf(h)
    PROVE  \A n \in Nat : 3 * n + 1 <= Len(s) => TripleFrom(s, 3 * n + 1)
<1> DEFINE Bad == {n \in Nat : 3 * n + 1 <= Len(s) /\ ~TripleFrom(s, 3 * n + 1)}
<1>1. SUFFICES ASSUME Bad # {} PROVE FALSE
  OBVIOUS
<1>2. PICK n \in Bad : \A m \in Bad : n <= m
  <2>1. Bad \in SUBSET Nat
    OBVIOUS
  <2> HIDE DEF Bad
  <2> QED
    BY <1>1, <2>1, LeastNatural
<1>3. n \in Nat /\ Len(s) \in Nat /\ 3 * n + 1 <= Len(s) /\ ~TripleFrom(s, 3 * n + 1)
  OBVIOUS
<1>4. PICK p \in 1..Len(s) : p = 3 * n + 1
  BY <1>3
<1>5. PICK i \in {p, p - 1, p - 2} : i >= 1 /\ TripleFrom(s, i)
  BY InTriple
<1>6. i # p
  BY <1>3, <1>4, <1>5
<1>7. n >= 1
  BY <1>3, <1>4, <1>5, <1>6
<1>8. PICK m \in Nat : m = n - 1
  BY <1>3, <1>7
<1>9. m \notin Bad
  <2>1. ~(n <= m)
    BY <1>3, <1>8
  <2> QED
    BY <1>2, <2>1
<1>10. TripleFrom(s, 3 * m + 1)
  <2>1. 3 * m + 1 <= Len(s)
    BY <1>3, <1>8
  <2> QED
    BY <1>9, <2>1
<1>11. PICK a \in Nat : a = 3 * m + 1 /\ (i = a + 1 \/ i = a + 2)
  <2>1. i = 3 * m + 1 + 1 \/ i = 3 * m + 1 + 2
    BY <1>3, <1>4, <1>5, <1>6, <1>8
  <2> QED
    BY <2>1
<1>12. PICK g \in Hours : s[a + 1] = UserToBlog(g) /\ s[a + 2] = User(g)
  BY <1>10, <1>11 DEF TripleFrom, TripleAt
<1>13. PICK h \in Hours : s[i] = Message(h)
  BY <1>5 DEF TripleFrom, TripleAt
<1>14. s[i].kind = "Microblog"
  BY <1>13, TableFacts
<1>15. s[i].kind = "UserToBlog" \/ s[i].kind = "WeiboUser"
  BY <1>11, <1>12, TableFacts
<1> QED
  BY <1>14, <1>15

\* As long as nothing disturbed a detection and no table of the programs is listed, the
\* list is a sequence of the triples of single hours, in which order ever the hours
\* become static: cutting it in groups of three, as the integration script does, is right.
THEOREM GroupsAreTriples == Spec => []TriplesAligned
<1>1. ASSUME TableInv PROVE TriplesAligned
  <2> SUFFICES ASSUME pc = "idle", disturbed = {},
                      \A h \in Hours : OwnOf(h) \cap ToSet(cached) = {}
               PROVE  /\ Len(cached) % 3 = 0
                      /\ \A n \in 0..(Len(cached) \div 3 - 1) : \E h \in Hours :
                            /\ cached[3 * n + 1] = Message(h)
                            /\ cached[3 * n + 2] = UserToBlog(h)
                            /\ cached[3 * n + 3] = User(h)
    BY DEF TriplesAligned
  <2>1. PICK s : s = cached
    OBVIOUS
  <2>2. s \in Seq(TableSet) /\ DOMAIN s = 1..Len(s) /\ Len(s) \in Nat
    BY <1>1, <2>1 DEF TableInv, ShapeInv
  <2>3. \A h \in Hours : WholeIn(s, h)
    BY <1>1, <2>1 DEF TableInv, HourInv
  <2>4. \A q \in 1..Len(s) : \A h \in Hours : s[q] \notin OwnOf(h)
    BY <2>1, <2>2 DEF ToSet
  <2>5. \A n \in Nat : 3 * n + 1 <= Len(s) => TripleFrom(s, 3 * n + 1)
    BY <2>2, <2>3, <2>4, EveryThird
  <2>6. PICK l \in Nat, r \in 0..2 : /\ Len(s) = 3 * l + r /\ l = Len(s) \div 3
                                     /\ r = Len(s) % 3
    <3>1. \A n \in Nat : n \div 3 \in Nat /\ n % 3 \in 0..2 /\ n = 3 * (n \div 3) + (n % 3)
      OBVIOUS
    <3> QED
      BY <2>2, <3>1
  <2>7. r = 0
    <3> SUFFICES ASSUME r # 0 PROVE FALSE
      OBVIOUS
    <3>1. 3 * l + 1 <= Len(s)
      BY <2>2, <2>6
    <3>2. 3 * l + 1 + 2 <= Len(s)
      BY <2>5, <3>1 DEF TripleFrom
    <3> QED
      BY <2>6, <3>2
  <2>8. ASSUME NEW n \in 0..(l - 1)
        PROVE  \E h \in Hours : /\ s[3 * n + 1] = Message(h)
                                /\ s[3 * n + 2] = UserToBlog(h)
                                /\ s[3 * n + 3] = User(h)
    <3>1. n \in Nat /\ 3 * n + 1 <= Len(s)
      BY <2>2, <2>6, <2>8
    <3>2. PICK h \in Hours : TripleAt(s, h, 3 * n + 1)
      BY <2>5, <3>1 DEF TripleFrom
    <3>3. 3 * n + 1 + 1 = 3 * n + 2 /\ 3 * n + 1 + 2 = 3 * n + 3
      BY <3>1
    <3> QED
      BY <3>2, <3>3 DEF TripleAt
  <2> QED
    BY <2>1, <2>6, <2>7, <2>8
<1> QED
  BY <1>1, InvAlways, PTL
=============================================================================
