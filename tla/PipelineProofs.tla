--------------------------- MODULE PipelineProofs ---------------------------
(***************************************************************************)
(* Proofs about Pipeline, for any number of hours, rounds, topics,         *)
(* restarts and faults.                                                    *)
(***************************************************************************)
EXTENDS Pipeline, FiniteSetTheorems, WellFoundedInduction, TLAPS

KindSet == {"FilteredMicroblog", "Microblog", "OneDayTopic_FilteredMicroblog",
            "Topic_FilteredMicroblog_", "UserToBlog", "WeiboUser"}
TableSet == [hour : Hours, kind : KindSet, id : Nat]
TopicKind == "Topic_FilteredMicroblog_"
RoundSet == [pc : {"idle", "clean", "topics", "subtopics", "done", "aborted", "failed"},
             step : {"next", "check", "create", "insert", "output"},
             todo : Seq(TableSet), out : Seq(TableSet) \cup Seq(Seq(TableSet)),
             names : Seq(TableSet), odd : BOOLEAN]

ShapeInv ==
    /\ tables \subseteq TableSet /\ IsFiniteSet(tables)
    /\ filled \subseteq {h \in Hours : Filtered(h) \in tables}
    /\ subtopics \subseteq tables
    /\ newest \in 0..MaxHour
    /\ settled \in 0..newest
    /\ torn \subseteq Hours
    /\ oldest \in 1..(MaxHour + 1)
    /\ cached \in Seq(TableSet)
    /\ \A i \in 1..Len(cached) : cached[i] \in tables
    /\ round \in [Rounds -> RoundSet]
    /\ restarts \in 0..MaxRestarts
    /\ faults \in 0..MaxFaults
    /\ given \in [Hours -> Nat]

\* Which tables there are, and that topics are numbered from 1 to MaxTopics.
TablesInv == \A t \in tables : t \in AllTables /\ t.hour <= newest

\* The lists of one round, stage by stage.
StageInv(r) ==
    /\ round[r].pc = "idle" => round[r] = Idle
    /\ round[r].pc # "clean" => round[r].step \in {"next", "insert"}
    /\ round[r].pc \in {"subtopics", "done", "aborted", "failed"} => round[r].step = "next"
    /\ round[r].pc # "topics" => \A i \in 1..Len(round[r].todo) : round[r].todo[i] \in AllTables

Served(h) == h \in filled \cup refused

CleanInv(r) ==
    round[r].pc = "clean" =>
        /\ round[r].out \in Seq(TableSet)
        /\ \A i \in 1..Len(round[r].out) : Served(round[r].out[i].hour)
        /\ round[r].step # "next" => Len(round[r].todo) >= 3
        /\ round[r].step = "output" => Served(Hour(r))
        /\ round[r].names = <<>> /\ ~round[r].odd

\* A topic that is named has its table.
Named(t) == t \in AllTables /\ (t.kind = TopicKind => t \in tables)

TopicsInv(r) ==
    round[r].pc = "topics" =>
        /\ \A i \in 1..Len(round[r].todo) : Served(round[r].todo[i].hour)
        /\ round[r].step = "insert" => round[r].todo # <<>> /\ Hour(r) <= newest
        /\ \A i \in 1..Len(round[r].names) :
              round[r].names[i].kind = TopicKind /\ Named(round[r].names[i])

LinesInv(r) ==
    round[r].pc = "topics" =>
        /\ round[r].out \in Seq(Seq(TableSet))
        /\ \A i \in 1..Len(round[r].out) : \A j \in 1..Len(round[r].out[i]) :
              /\ Named(round[r].out[i][j])
              /\ ~round[r].odd /\ i % 2 = 0 => round[r].out[i][j].kind = TopicKind
        /\ ~round[r].odd => Len(round[r].out) % 2 = 0

SubtopicsInv(r) ==
    round[r].pc = "subtopics" =>
        \A i \in 1..Len(round[r].todo) :
            Named(round[r].todo[i]) /\ (~round[r].odd => round[r].todo[i].kind = TopicKind)

RoundInv(r) == StageInv(r) /\ CleanInv(r) /\ TopicsInv(r) /\ LinesInv(r) /\ SubtopicsInv(r)

\* The group of three after the first j.
CrawledKind(m) == IF m = 0 THEN "Microblog" ELSE IF m = 1 THEN "UserToBlog" ELSE "WeiboUser"
IsTriple(j) == \A m \in 0..2 : cached[3 * j + m + 1].kind = CrawledKind(m)
TriplesUpTo(n) == \A j \in Nat : 3 * j + 3 <= n => IsTriple(j)

Passed == {"topics", "subtopics", "done"}

\* Each round walks along a prefix of the list of tables, and that of a later round
\* is as long at least.
ListOf(r, n) ==
    /\ round[r].pc = "clean" =>
          \E j \in Nat :
             /\ 3 * j <= n /\ TriplesUpTo(3 * j)
             /\ Len(round[r].todo) = n - 3 * j
             /\ \A i \in 1..Len(round[r].todo) : round[r].todo[i] = cached[3 * j + i]
             /\ round[r].step # "next" => IsTriple(j)
    /\ round[r].pc = "aborted" => \E j \in Nat : 3 * j + 3 <= n /\ ~IsTriple(j)
    /\ round[r].pc \in Passed => TriplesUpTo(n)

ListsInv ==
    \E len \in [Rounds -> 0..Len(cached)] :
        /\ \A r \in Rounds : ListOf(r, len[r])
        /\ \A r, s \in Rounds :
              r < s /\ round[s].pc # "idle" => round[r].pc # "idle" /\ len[r] <= len[s]

\* As long as no hour was ever in part in the list, and no table of the programs' own
\* is in it, it consists of triples, of whole hours.
OwnListed == \E i \in 1..Len(cached) : cached[i] \notin Crawled(cached[i].hour)
Listed == {cached[i] : i \in 1..Len(cached)}
HoursInv ==
    ~OwnListed /\ torn = {} =>
        /\ Len(cached) % 3 = 0
        /\ \A i \in 1..Len(cached) : cached[i].kind = CrawledKind((i - 1) % 3)
        /\ \A h \in Hours : Crawled(h) \subseteq Listed \/ Crawled(h) \cap Listed = {}

Holds(r, h) ==
    /\ round[r].pc = "clean"
    /\ round[r].step \in {"create", "insert", "output"}
    /\ Hour(r) = h

\* A table is created by one run of run_filter and is given on by it alone.
GivenInv(h) ==
    /\ given[h] > 0 => Filtered(h) \in tables
    /\ h \notin unseen =>
          /\ given[h] <= 1
          /\ InHand(h) => given[h] = 0
          /\ \A r, s \in Rounds : Holds(r, h) /\ Holds(s, h) => r = s

PipelineInv ==
    /\ ShapeInv /\ TablesInv
    /\ \A r \in Rounds : RoundInv(r)
    /\ ListsInv /\ HoursInv
    /\ \A h \in Hours : GivenInv(h)

-----------------------------------------------------------------------------
(* Induction: the library's theorems take the formula as an operator, so that it *)
(* is by a least counterexample here                                             *)

LEMMA LeastNatural ==
    ASSUME NEW T \in SUBSET Nat, T # {}
    PROVE  \E x \in T : \A y \in T : x <= y
<1>1. PICK x \in T : \A y \in T : ~ (<<y, x>> \in OpToRel(<, Nat))
  BY NatLessThanWellFounded, WFMin, Zenon
<1>2. \A y \in T : ~ (y < x)
  BY <1>1 DEF OpToRel
<1> QED
  BY <1>2

\* What FlattenSeq defines recursively.
Flattens(f, ss, m) ==
    f = [i \in 1..m |-> IF i = 1 THEN ss[i] ELSE f[i - 1] \o ss[i]]

LEMMA FlattenExists ==
    ASSUME NEW ss, NEW n \in Nat
    PROVE  \E f : Flattens(f, ss, n)
<1> DEFINE Bad == {m \in Nat : ~ \E f : Flattens(f, ss, m)}
<1>1. SUFFICES ASSUME Bad # {} PROVE FALSE
  OBVIOUS
<1>2. PICK m \in Bad : \A k \in Bad : m <= k
  <2>1. Bad \in SUBSET Nat
    OBVIOUS
  <2> HIDE DEF Bad
  <2> QED
    BY <1>1, <2>1, LeastNatural
<1>3. m # 0
  <2>1. PICK f : f = [i \in 1..0 |-> ss[i]]
    OBVIOUS
  <2>2. Flattens(f, ss, 0)
    BY <2>1 DEF Flattens
  <2> QED
    BY <1>2, <2>2
<1>4. m - 1 \in Nat /\ m - 1 \notin Bad
  BY <1>2, <1>3
<1>5. PICK f : Flattens(f, ss, m - 1)
  BY <1>4
<1>6. PICK g : g = [i \in 1..m |-> IF i < m THEN f[i] ELSE IF i = 1 THEN ss[i] ELSE f[i - 1] \o ss[i]]
  OBVIOUS
<1>7. ASSUME NEW i \in 1..m
      PROVE  g[i] = IF i = 1 THEN ss[i] ELSE g[i - 1] \o ss[i]
  <2>1. CASE i < m
    <3>1. i \in 1..(m - 1) /\ g[i] = f[i]
      BY <1>2, <1>6, <2>1
    <3>2. f[i] = IF i = 1 THEN ss[i] ELSE f[i - 1] \o ss[i]
      BY <1>5, <3>1 DEF Flattens
    <3>3. i # 1 => g[i - 1] = f[i - 1]
      BY <1>2, <1>6, <2>1
    <3> QED
      BY <3>1, <3>2, <3>3
  <2>2. CASE i = m
    <3>1. i # 1 => g[i - 1] = f[i - 1]
      BY <1>2, <1>6, <2>2
    <3>2. g[i] = IF i = 1 THEN ss[i] ELSE f[i - 1] \o ss[i]
      BY <1>2, <1>6, <2>2
    <3> QED
      BY <3>1, <3>2
  <2> QED
    BY <1>2, <2>1, <2>2
<1>8. Flattens(g, ss, m)
  <2>1. g = [i \in 1..m |-> g[i]]
    BY <1>6
  <2> QED
    BY <1>7, <2>1 DEF Flattens
<1> QED
  BY <1>2, <1>8

LEMMA FlattenFacts ==
    ASSUME NEW T, NEW ss \in Seq(Seq(T))
    PROVE  FlattenSeq(ss) \in Seq(T)
<1>1. CASE Len(ss) = 0
  <2>1. ss = <<>>
    BY <1>1
  <2>2. FlattenSeq(ss) = ss
    BY <1>1 DEF FlattenSeq
  <2>3. \A S : <<>> \in Seq(S)
    OBVIOUS
  <2> QED
    BY <2>1, <2>2, <2>3
<1>2. CASE Len(ss) # 0
  <2> DEFINE n == Len(ss)
             f == CHOOSE f : Flattens(f, ss, n)
  <2>1. n \in Nat /\ n >= 1
    BY <1>2
  <2>2. Flattens(f, ss, n)
    BY <2>1, FlattenExists
  <2>3. FlattenSeq(ss) = f[n]
    BY <1>2 DEF FlattenSeq, Flattens
  <2> HIDE DEF f
  <2>4. \A i \in 1..n : ss[i] \in Seq(T)
    OBVIOUS
  <2> DEFINE Bad == {i \in 1..n : f[i] \notin Seq(T)}
  <2>5. Bad = {}
    <3>1. SUFFICES ASSUME Bad # {} PROVE FALSE
      OBVIOUS
    <3>2. PICK m \in Bad : \A k \in Bad : m <= k
      <4>1. Bad \in SUBSET Nat
        BY <2>1
      <4> HIDE DEF Bad
      <4> QED
        BY <3>1, <4>1, LeastNatural
    <3>3. f[m] = IF m = 1 THEN ss[m] ELSE f[m - 1] \o ss[m]
      BY <2>2, <3>2 DEF Flattens
    <3>4. m = 1 => ss[m] \in Seq(T)
      BY <2>4, <3>2
    <3>5. m # 1 => f[m - 1] \in Seq(T) /\ ss[m] \in Seq(T)
      BY <2>1, <2>4, <3>2
    <3>6. \A s, t \in Seq(T) : s \o t \in Seq(T)
      OBVIOUS
    <3> QED
      BY <3>2, <3>3, <3>4, <3>5, <3>6
  <2> QED
    BY <2>1, <2>3, <2>5
<1> QED
  BY <1>1, <1>2

-----------------------------------------------------------------------------
(* The order of the tables *)

LEMMA BoundsFacts ==
    /\ MaxHour \in Nat /\ MaxRound \in Nat /\ MaxTopics \in Nat /\ MaxRestarts \in Nat
    /\ MaxFaults \in Nat
BY BoundsAssumption

\* Kinds lists each kind once.
LEMMA RankFacts ==
    \A t \in TableSet :
        /\ Rank(t) \in 1..6
        /\ Rank(t) = IF t.kind = "FilteredMicroblog" THEN 1
                     ELSE IF t.kind = "Microblog" THEN 2
                     ELSE IF t.kind = "OneDayTopic_FilteredMicroblog" THEN 3
                     ELSE IF t.kind = TopicKind THEN 4
                     ELSE IF t.kind = "UserToBlog" THEN 5 ELSE 6
<1> SUFFICES ASSUME NEW t \in TableSet
             PROVE  /\ Rank(t) \in 1..6
                    /\ Rank(t) = IF t.kind = "FilteredMicroblog" THEN 1
                                 ELSE IF t.kind = "Microblog" THEN 2
                                 ELSE IF t.kind = "OneDayTopic_FilteredMicroblog" THEN 3
                                 ELSE IF t.kind = TopicKind THEN 4
                                 ELSE IF t.kind = "UserToBlog" THEN 5 ELSE 6
  OBVIOUS
<1>1. /\ Len(Kinds) = 6
      /\ Kinds[1] = "FilteredMicroblog" /\ Kinds[2] = "Microblog"
      /\ Kinds[3] = "OneDayTopic_FilteredMicroblog" /\ Kinds[4] = TopicKind
      /\ Kinds[5] = "UserToBlog" /\ Kinds[6] = "WeiboUser"
  BY DEF Kinds, TopicKind
<1>2. t.kind \in KindSet
  BY DEF TableSet
<1> DEFINE i == IF t.kind = "FilteredMicroblog" THEN 1
                ELSE IF t.kind = "Microblog" THEN 2
                ELSE IF t.kind = "OneDayTopic_FilteredMicroblog" THEN 3
                ELSE IF t.kind = TopicKind THEN 4
                ELSE IF t.kind = "UserToBlog" THEN 5 ELSE 6
<1>3. i \in 1..6 /\ Kinds[i] = t.kind
  BY <1>1, <1>2 DEF KindSet, TopicKind
<1>4. \A j \in 1..6 : Kinds[j] = t.kind => j = i
  <2>1. \A j \in 1..6 : j = 1 \/ j = 2 \/ j = 3 \/ j = 4 \/ j = 5 \/ j = 6
    OBVIOUS
  <2> QED
    BY <1>1, <1>2, <2>1 DEF KindSet, TopicKind
<1> HIDE DEF i
<1>5. Rank(t) = i
  BY <1>1, <1>3, <1>4 DEF Rank
<1> QED
  BY <1>3, <1>5 DEF i

\* Before is a strict total order.
LEMMA BeforeFacts ==
    \A s, t, u \in TableSet :
        /\ ~Before(t, t)
        /\ Before(s, t) /\ Before(t, u) => Before(s, u)
        /\ s # t => Before(s, t) \/ Before(t, s)
<1> SUFFICES ASSUME NEW s \in TableSet, NEW t \in TableSet, NEW u \in TableSet
             PROVE  /\ ~Before(t, t)
                    /\ Before(s, t) /\ Before(t, u) => Before(s, u)
                    /\ s # t => Before(s, t) \/ Before(t, s)
  OBVIOUS
<1>1. /\ s.hour \in Nat /\ t.hour \in Nat /\ u.hour \in Nat
      /\ s.id \in Nat /\ t.id \in Nat /\ u.id \in Nat
  BY BoundsFacts DEF TableSet, Hours
<1>2. Rank(s) \in Nat /\ Rank(t) \in Nat /\ Rank(u) \in Nat
  BY RankFacts
<1>3. ~Before(t, t) /\ (Before(s, t) /\ Before(t, u) => Before(s, u))
  BY <1>1, <1>2 DEF Before
<1>4. ASSUME ~Before(s, t), ~Before(t, s)
      PROVE  s = t
  <2>1. s.hour = t.hour /\ Rank(s) = Rank(t) /\ s.id = t.id
    BY <1>1, <1>2, <1>4 DEF Before
  <2>2. s.kind = t.kind
    BY <2>1, RankFacts DEF TableSet, KindSet, TopicKind
  <2> QED
    BY <2>1, <2>2 DEF TableSet
<1> QED
  BY <1>3, <1>4

Below(S, t) == {s \in S : Before(s, t)}

\* Sorted is the bijection with the numbers 1, 2, ... that keeps the order: as the
\* numbers of the tables before a table are different, there is one for each place.
LEMMA SortedFacts ==
    ASSUME NEW S \in SUBSET TableSet, IsFiniteSet(S)
    PROVE  /\ Cardinality(S) \in Nat
           /\ Sorted(S) \in Seq(S) /\ Len(Sorted(S)) = Cardinality(S)
           /\ \A i \in 1..Cardinality(S) :
                 Sorted(S)[i] \in S /\ Cardinality(Below(S, Sorted(S)[i])) = i - 1
           /\ \A t \in S : \E i \in 1..Cardinality(S) : Sorted(S)[i] = t
<1> DEFINE n == Cardinality(S)
           place == [t \in S |-> Cardinality(Below(S, t)) + 1]
<1>1. n \in Nat
  BY FS_CardinalityType
<1>2. ASSUME NEW t \in S
      PROVE  Cardinality(Below(S, t)) \in 0..(n - 1)
  <2>1. Below(S, t) \in SUBSET S /\ t \notin Below(S, t)
    BY BeforeFacts DEF Below
  <2>2. /\ IsFiniteSet(Below(S, t)) /\ Cardinality(Below(S, t)) <= n
        /\ n = Cardinality(Below(S, t)) => S = Below(S, t)
    BY <2>1, FS_Subset
  <2>3. Cardinality(Below(S, t)) \in Nat
    BY <2>2, FS_CardinalityType
  <2> QED
    BY <1>1, <2>1, <2>2, <2>3
<1>3. ASSUME NEW s \in S, NEW t \in S, Before(s, t)
      PROVE  Cardinality(Below(S, s)) # Cardinality(Below(S, t))
  <2>1. /\ Below(S, s) \in SUBSET Below(S, t)
        /\ s \in Below(S, t) /\ s \notin Below(S, s)
    BY <1>3, BeforeFacts DEF Below
  <2>2. IsFiniteSet(Below(S, t))
    <3>1. Below(S, t) \in SUBSET S
      BY DEF Below
    <3> QED
      BY <3>1, FS_Subset
  <2>3. Cardinality(Below(S, t)) = Cardinality(Below(S, s)) => Below(S, t) = Below(S, s)
    BY <2>1, <2>2, FS_Subset
  <2> QED
    BY <2>1, <2>3
<1>4. \A s, t \in S : place[s] = place[t] => s = t
  <2> SUFFICES ASSUME NEW s \in S, NEW t \in S, place[s] = place[t], s # t
               PROVE  FALSE
    OBVIOUS
  <2>1. Cardinality(Below(S, s)) = Cardinality(Below(S, t))
    <3>1. Cardinality(Below(S, s)) \in Int /\ Cardinality(Below(S, t)) \in Int
      BY <1>1, <1>2
    <3> QED
      BY <3>1
  <2>2. Before(s, t) \/ Before(t, s)
    BY BeforeFacts
  <2> QED
    BY <1>3, <2>1, <2>2
<1>5. place \in Injection(S, 1..n)
  <2>1. \A t \in S : place[t] \in 1..n
    BY <1>1, <1>2
  <2> QED
    BY <1>4, <2>1 DEF Injection, IsInjective
<1>6. IsFiniteSet(1..n) /\ Cardinality(1..n) = n
  BY <1>1, FS_Interval
<1>7. place \in Surjection(S, 1..n)
  <2> HIDE DEF place
  <2> QED
    BY <1>5, <1>6, FS_Injection
<1>8. ASSUME NEW i \in 1..n
      PROVE  Sorted(S)[i] \in S /\ Cardinality(Below(S, Sorted(S)[i])) = i - 1
  <2>1. PICK t \in S : place[t] = i
    BY <1>7 DEF Surjection
  <2>2. Cardinality(Below(S, t)) = i - 1
    BY <1>1, <1>2, <2>1
  <2>3. Sorted(S)[i] = CHOOSE u \in S : Cardinality(Below(S, u)) = i - 1
    BY <1>8 DEF Sorted, Below
  <2> QED
    BY <2>2, <2>3
<1>9. ASSUME NEW t \in S
      PROVE  \E i \in 1..n : Sorted(S)[i] = t
  <2>1. place[t] \in 1..n /\ place[t] = Cardinality(Below(S, t)) + 1
    BY <1>1, <1>2
  <2>2. PICK i \in 1..n : i = place[t]
    BY <2>1
  <2>3. Sorted(S)[i] \in S /\ Cardinality(Below(S, Sorted(S)[i])) = i - 1
    BY <1>8
  <2>4. place[Sorted(S)[i]] = place[t]
    BY <1>1, <1>2, <2>1, <2>2, <2>3
  <2>5. Sorted(S)[i] = t
    BY <1>4, <2>3, <2>4
  <2> QED
    BY <2>5
<1>10. Sorted(S) \in Seq(S) /\ Len(Sorted(S)) = n
  <2>1. PICK f : f = [i \in 1..n |->
                        CHOOSE t \in S : Cardinality({s \in S : Before(s, t)}) = i - 1]
    OBVIOUS
  <2>2. Sorted(S) = f
    BY <2>1 DEF Sorted
  <2>3. \A i \in 1..n : f[i] \in S
    BY <1>8, <2>2
  <2>4. f \in [1..n -> S]
    BY <2>1, <2>3
  <2>5. f \in Seq(S) /\ Len(f) = n
    BY <1>1, <2>4
  <2> QED
    BY <2>2, <2>5
<1> QED
  BY <1>1, <1>8, <1>9, <1>10

CrawledOf(G) == UNION {Crawled(h) : h \in G}

LEMMA CrawledTables ==
    /\ \A h \in Hours : /\ Message(h) \in TableSet /\ Message(h).kind = "Microblog"
                        /\ UserToBlog(h) \in TableSet /\ UserToBlog(h).kind = "UserToBlog"
                        /\ User(h) \in TableSet /\ User(h).kind = "WeiboUser"
    /\ \A h \in Hours : \A t \in Crawled(h) : t.hour = h /\ t \in TableSet
    /\ \A h \in Hours : Message(h) \in Crawled(h)
BY DEF Message, UserToBlog, User, Table, TableSet, KindSet, Crawled

LEMMA HoursFinite ==
    ASSUME NEW G \in SUBSET Hours
    PROVE  IsFiniteSet(G) /\ Cardinality(G) \in Nat
<1>1. IsFiniteSet(Hours)
  BY BoundsFacts, FS_Interval DEF Hours
<1>2. IsFiniteSet(G)
  BY <1>1, FS_Subset
<1> QED
  BY <1>2, FS_CardinalityType

LEMMA OneKind ==
    ASSUME NEW G \in SUBSET Hours, NEW kind
    PROVE  LET T == {Table(h, kind, 0) : h \in G}
           IN  IsFiniteSet(T) /\ Cardinality(T) = Cardinality(G)
<1> DEFINE T == {Table(h, kind, 0) : h \in G}
           f == [h \in G |-> Table(h, kind, 0)]
<1>1. f \in Bijection(G, T)
  BY DEF Bijection, Injection, IsInjective, Surjection, Table
<1>2. ExistsBijection(G, T)
  BY <1>1 DEF ExistsBijection
<1> QED
  BY <1>2, HoursFinite, FS_Bijection

LEMMA CrawledCount ==
    ASSUME NEW G \in SUBSET Hours
    PROVE  IsFiniteSet(CrawledOf(G)) /\ Cardinality(CrawledOf(G)) = 3 * Cardinality(G)
<1>1. PICK A, B, C : /\ A = {Table(h, "Microblog", 0) : h \in G}
                     /\ B = {Table(h, "UserToBlog", 0) : h \in G}
                     /\ C = {Table(h, "WeiboUser", 0) : h \in G}
  OBVIOUS
<1>2. CrawledOf(G) = (A \cup B) \cup C
  BY <1>1 DEF CrawledOf, Crawled, Message, UserToBlog, User
<1>3. /\ IsFiniteSet(A) /\ Cardinality(A) = Cardinality(G)
      /\ IsFiniteSet(B) /\ Cardinality(B) = Cardinality(G)
      /\ IsFiniteSet(C) /\ Cardinality(C) = Cardinality(G)
  BY <1>1, OneKind
<1>4. A \cap B = {} /\ (A \cup B) \cap C = {}
  BY <1>1 DEF Table
<1>5. Cardinality({}) = 0 /\ Cardinality(G) \in Nat
  BY FS_EmptySet, HoursFinite
<1>6. IsFiniteSet(A \cup B) /\ Cardinality(A \cup B) = Cardinality(G) + Cardinality(G)
  <2>1. /\ IsFiniteSet(A \cup B)
        /\ Cardinality(A \cup B) = Cardinality(A) + Cardinality(B) - Cardinality(A \cap B)
    BY <1>3, FS_Union, Zenon
  <2>2. Cardinality(A \cap B) = 0
    BY <1>4, <1>5, Zenon
  <2> QED
    BY <1>3, <1>5, <2>1, <2>2
<1>7. /\ IsFiniteSet((A \cup B) \cup C)
      /\ Cardinality((A \cup B) \cup C) = Cardinality(G) + Cardinality(G) + Cardinality(G)
  <2>1. /\ IsFiniteSet((A \cup B) \cup C)
        /\ Cardinality((A \cup B) \cup C)
             = Cardinality(A \cup B) + Cardinality(C) - Cardinality((A \cup B) \cap C)
    BY <1>3, <1>6, FS_Union, Zenon
  <2>2. Cardinality((A \cup B) \cap C) = 0
    BY <1>4, <1>5, Zenon
  <2> QED
    BY <1>3, <1>5, <1>6, <2>1, <2>2
<1> QED
  BY <1>2, <1>5, <1>7

\* Of whole hours the sorted list consists of triples.
LEMMA CrawledSorted ==
    ASSUME NEW H \in SUBSET Hours
    PROVE  /\ Cardinality(CrawledOf(H)) = 3 * Cardinality(H)
           /\ \A i \in 1..Cardinality(CrawledOf(H)) :
                 Sorted(CrawledOf(H))[i].kind = CrawledKind((i - 1) % 3)
<1> DEFINE S == CrawledOf(H)
<1>1. S \in SUBSET TableSet /\ IsFiniteSet(S) /\ Cardinality(S) = 3 * Cardinality(H)
  BY CrawledCount, CrawledTables DEF CrawledOf
<1>2. ASSUME NEW i \in 1..Cardinality(S)
      PROVE  Sorted(S)[i].kind = CrawledKind((i - 1) % 3)
  <2>1. Sorted(S)[i] \in S /\ Cardinality(Below(S, Sorted(S)[i])) = i - 1
    <3> HIDE DEF S
    <3> QED
      BY <1>1, SortedFacts
  <2>2. PICK t \in S : t = Sorted(S)[i]
    BY <2>1
  <2>3. PICK h \in H : t \in Crawled(h)
    BY <2>2 DEF CrawledOf
  <2> DEFINE G == {g \in H : g < h}
             B == CrawledOf(G)
  <2>4. /\ IsFiniteSet(B) /\ Cardinality(B) = 3 * Cardinality(G) /\ Cardinality(G) \in Nat
        /\ \A s \in B : s.hour < h
    <3>1. G \in SUBSET Hours
      OBVIOUS
    <3>2. \A s \in B : s.hour < h
      BY CrawledTables DEF CrawledOf
    <3> HIDE DEF G
    <3> QED
      BY <3>1, <3>2, CrawledCount, HoursFinite
  <2>5. \A s \in S : s.hour < h <=> s \in B
    BY <2>3, CrawledTables DEF CrawledOf
  <2>6. \A s \in S : s.hour = h => s \in Crawled(h)
    BY CrawledTables DEF CrawledOf
  <2>7. \A g \in Hours : g \in Nat
    BY BoundsFacts DEF Hours
  <2>8. \A s \in S : s.hour \in Nat /\ h \in Nat /\ s.id \in Nat /\ s \in TableSet
    BY <1>1, <2>3, <2>7 DEF TableSet
  <2>9. Message(h) \in S /\ UserToBlog(h) \in S /\ User(h) \in S
    BY <2>3 DEF CrawledOf, Crawled
  <2>10. /\ Rank(Message(h)) = 2 /\ Rank(UserToBlog(h)) = 5 /\ Rank(User(h)) = 6
         /\ Message(h).hour = h /\ UserToBlog(h).hour = h /\ User(h).hour = h
         /\ Message(h).id = 0 /\ UserToBlog(h).id = 0 /\ User(h).id = 0
    <3>1. h \in Hours
      OBVIOUS
    <3>2. /\ Rank(Message(h)) = 2 /\ Rank(UserToBlog(h)) = 5 /\ Rank(User(h)) = 6
      BY <3>1, CrawledTables, RankFacts DEF TopicKind
    <3> QED
      BY <3>2 DEF Message, UserToBlog, User, Table
  <2> HIDE DEF S, G, B
  <2>11. CASE t = Message(h)
    <3>1. Below(S, t) = B
      BY <2>4, <2>5, <2>6, <2>8, <2>9, <2>10, <2>11 DEF Below, Before, Crawled, B, CrawledOf, S, G
    <3>2. (i - 1) % 3 = 0
      BY <2>1, <2>2, <2>4, <3>1
    <3> QED
      BY <2>2, <2>11, <3>2, CrawledTables DEF CrawledKind, Message, Table
  <2>12. CASE t = UserToBlog(h)
    <3>1. Below(S, t) = B \cup {Message(h)}
      BY <2>4, <2>5, <2>6, <2>8, <2>9, <2>10, <2>12 DEF Below, Before, Crawled, B, CrawledOf, S, G
    <3>2. Message(h) \notin B
      BY <2>4, <2>8, <2>9, <2>10
    <3>3. Cardinality(B \cup {Message(h)}) = Cardinality(B) + 1
      BY <2>4, <3>2, FS_AddElement
    <3>4. (i - 1) % 3 = 1
      BY <2>1, <2>2, <2>4, <3>1, <3>3
    <3> QED
      BY <2>2, <2>12, <3>4 DEF CrawledKind, UserToBlog, Table
  <2>13. CASE t = User(h)
    <3>1. Below(S, t) = (B \cup {Message(h)}) \cup {UserToBlog(h)}
      BY <2>4, <2>5, <2>6, <2>8, <2>9, <2>10, <2>13 DEF Below, Before, Crawled, B, CrawledOf, S, G
    <3>2. /\ Message(h) \notin B /\ UserToBlog(h) \notin B
          /\ UserToBlog(h) \notin B \cup {Message(h)}
      BY <2>4, <2>8, <2>9, <2>10
    <3>3. /\ IsFiniteSet(B \cup {Message(h)})
          /\ Cardinality(B \cup {Message(h)}) = Cardinality(B) + 1
      BY <2>4, <3>2, FS_AddElement
    <3>4. Cardinality((B \cup {Message(h)}) \cup {UserToBlog(h)}) = Cardinality(B) + 1 + 1
      BY <3>2, <3>3, FS_AddElement
    <3>5. (i - 1) % 3 = 2
      BY <2>1, <2>2, <2>4, <3>1, <3>4
    <3> QED
      BY <2>2, <2>13, <3>5 DEF CrawledKind, User, Table
  <2> QED
    BY <2>3, <2>11, <2>12, <2>13 DEF Crawled
<1> QED
  BY <1>1, <1>2

-----------------------------------------------------------------------------
(* Sequences *)

LEMMA ConcatFacts ==
    ASSUME NEW S, NEW s \in Seq(S), NEW t \in Seq(S)
    PROVE  /\ s \o t \in Seq(S) /\ Len(s) \in Nat /\ Len(t) \in Nat
           /\ Len(s \o t) = Len(s) + Len(t)
           /\ \A i \in 1..Len(s) : (s \o t)[i] = s[i]
           /\ \A i \in 1..Len(t) : (s \o t)[Len(s) + i] = t[i]
           /\ \A i \in 1..(Len(s) + Len(t)) :
                 (s \o t)[i] = IF i <= Len(s) THEN s[i] ELSE t[i - Len(s)]
OBVIOUS

LEMMA ShortSequences ==
    \A S : /\ \E s \in Seq(S) : s = <<>>
           /\ \A t \in S : \E s \in Seq(S) : s = <<t>>
<1>1. \A S : <<>> \in Seq(S) /\ \A t \in S : <<t>> \in Seq(S)
  OBVIOUS
<1> QED
  BY <1>1, Zenon

LEMMA TailFacts ==
    ASSUME NEW S, NEW s \in Seq(S), s # <<>>
    PROVE  /\ Tail(s) \in Seq(S) /\ Len(s) \in Nat /\ Len(s) >= 1
           /\ Len(Tail(s)) = Len(s) - 1
           /\ \A i \in 1..Len(Tail(s)) : Tail(s)[i] = s[i + 1]
           /\ Head(s) = s[1] /\ s[1] \in S
OBVIOUS

LEMMA RestFacts ==
    ASSUME NEW S, NEW s \in Seq(S), Len(s) >= 3
    PROVE  /\ Rest(s) \in Seq(S) /\ Len(s) \in Nat
           /\ Len(Rest(s)) = Len(s) - 3
           /\ \A i \in 1..Len(Rest(s)) : Rest(s)[i] = s[i + 3]
           /\ Head(s) = s[1] /\ s[1] \in S
<1>1. Len(s) \in Nat /\ 4 \in 1..(Len(s) + 1) /\ Len(s) \in 3..Len(s)
  OBVIOUS
<1>0. /\ SubSeq(s, 4, Len(s)) \in Seq(S)
      /\ Len(SubSeq(s, 4, Len(s))) = IF 4 <= Len(s) THEN Len(s) - 4 + 1 ELSE 0
      /\ \A i \in 1..(Len(s) - 4 + 1) : SubSeq(s, 4, Len(s))[i] = s[4 + i - 1]
  BY <1>1
<1>2. PICK u : u = SubSeq(s, 4, Len(s))
  OBVIOUS
<1>3. /\ u \in Seq(S)
      /\ Len(u) = IF 4 <= Len(s) THEN Len(s) - 4 + 1 ELSE 0
      /\ \A i \in 1..(Len(s) - 4 + 1) : u[i] = s[4 + i - 1]
  BY <1>0, <1>2, Zenon
<1>4. Len(u) = Len(s) - 3
  <2>1. \A n, l : n \in Nat /\ n >= 3 /\ l = (IF 4 <= n THEN n - 4 + 1 ELSE 0) => l = n - 3
    OBVIOUS
  <2>2. Len(u) = IF 4 <= Len(s) THEN Len(s) - 4 + 1 ELSE 0
    BY <1>3
  <2> QED
    BY <1>1, <2>1, <2>2, Zenon
<1>5. ASSUME NEW i \in 1..Len(u)
      PROVE  u[i] = s[i + 3]
  <2>1. 4 + i - 1 = i + 3 /\ i \in 1..(Len(s) - 4 + 1)
    BY <1>1, <1>4, <1>5
  <2> QED
    BY <1>3, <2>1
<1>6. Head(s) = s[1] /\ s[1] \in S
  BY <1>1
<1> QED
  BY <1>1, <1>2, <1>3, <1>4, <1>5, <1>6, Zenon DEF Rest

-----------------------------------------------------------------------------
(* What a step of one round leaves of the others *)

LEMMA RoundTypes ==
    ASSUME ShapeInv, NEW r \in Rounds
    PROVE  /\ round[r] \in RoundSet
           /\ round[r].todo \in Seq(TableSet) /\ round[r].names \in Seq(TableSet)
           /\ Len(round[r].todo) \in Nat /\ Len(cached) \in Nat
           /\ round[r].odd \in BOOLEAN
BY DEF ShapeInv, RoundSet

LEMMA InHandHolds ==
    /\ \A h : InHand(h) <=> \E r \in Rounds : Holds(r, h)
    /\ \A h : InHand(h)' <=> \E r \in Rounds : Holds(r, h)'
BY DEF InHand, Holds, Cleaning

\* Only round r goes on, and what there is of tables only grows.
Frame(r) ==
    /\ UNCHANGED <<newest, settled, torn, oldest, cached, restarts>>
    /\ tables \subseteq tables' /\ filled \subseteq filled' /\ refused \subseteq refused'
    /\ \A s \in Rounds \ {r} : round'[s] = round[s]
    /\ round[r].pc # "idle" /\ round'[r].pc # "idle"

LEMMA OtherRounds ==
    ASSUME PipelineInv, NEW r \in Rounds, Frame(r), NEW s \in Rounds \ {r}
    PROVE  RoundInv(s)' /\ \A n : ListOf(s, n)' <=> ListOf(s, n)
<1>1. /\ round'[s] = round[s] /\ cached' = cached /\ newest' = newest
      /\ tables \subseteq tables' /\ filled \subseteq filled' /\ refused \subseteq refused'
  BY DEF Frame
<1>2. RoundInv(s)'
  <2>1. RoundInv(s)
    BY DEF PipelineInv
  <2>2. /\ \A t : Named(t) => Named(t)'
        /\ \A h : Served(h) => Served(h)'
        /\ Hour(s)' = Hour(s)
    BY <1>1 DEF Named, Served, Hour
  <2>3. StageInv(s)' /\ SubtopicsInv(s)'
    BY <1>1, <2>1, <2>2 DEF RoundInv, StageInv, SubtopicsInv
  <2>4. CleanInv(s)'
    BY <1>1, <2>1, <2>2 DEF RoundInv, CleanInv
  <2>5. TopicsInv(s)'
    BY <1>1, <2>1, <2>2 DEF RoundInv, TopicsInv
  <2>6. LinesInv(s)'
    BY <1>1, <2>1, <2>2 DEF RoundInv, LinesInv
  <2> QED
    BY <2>3, <2>4, <2>5, <2>6 DEF RoundInv
<1>3. \A n : ListOf(s, n)' <=> ListOf(s, n)
  BY <1>1 DEF ListOf, IsTriple, TriplesUpTo
<1> QED
  BY <1>2, <1>3

LEMMA StepOfOne ==
    ASSUME PipelineInv, NEW r \in Rounds, Frame(r), ShapeInv', TablesInv', RoundInv(r)',
           \A n \in Nat : ListOf(r, n) => ListOf(r, n)',
           \A h \in Hours : GivenInv(h)'
    PROVE  PipelineInv'
<1>1. \A s \in Rounds : RoundInv(s)'
  BY OtherRounds
<1>2. ListsInv'
  <2>1. PICK len \in [Rounds -> 0..Len(cached)] :
           /\ \A s \in Rounds : ListOf(s, len[s])
           /\ \A q, s \in Rounds :
                 q < s /\ round[s].pc # "idle" => round[q].pc # "idle" /\ len[q] <= len[s]
    BY DEF PipelineInv, ListsInv
  <2>2. \A s \in Rounds : len[s] \in Nat
    BY RoundTypes DEF PipelineInv
  <2>3. \A s \in Rounds : ListOf(s, len[s])'
    BY <2>1, <2>2, OtherRounds
  <2>4. \A s \in Rounds : round'[s].pc # "idle" <=> round[s].pc # "idle"
    BY DEF Frame
  <2>5. len \in [Rounds -> 0..Len(cached')]
    BY <2>1 DEF Frame
  <2> QED
    BY <2>1, <2>3, <2>4, <2>5 DEF ListsInv
<1>3. HoursInv'
  <2>1. cached' = cached /\ torn' = torn
    BY DEF Frame
  <2>2. (OwnListed' <=> OwnListed) /\ Listed' = Listed
    BY <2>1 DEF OwnListed, Listed
  <2>3. HoursInv
    BY DEF PipelineInv
  <2> QED
    BY <2>1, <2>2, <2>3 DEF HoursInv
<1> QED
  BY <1>1, <1>2, <1>3 DEF PipelineInv

\* The case of a step that gives nothing on and holds no hour that it did not hold.
LEMMA GivenKept ==
    ASSUME PipelineInv, NEW r \in Rounds, Frame(r), given' = given, unseen \subseteq unseen',
           \A h \in Hours \ unseen' : Holds(r, h)' => Holds(r, h)
    PROVE  \A h \in Hours : GivenInv(h)'
<1> SUFFICES ASSUME NEW h \in Hours PROVE GivenInv(h)'
  OBVIOUS
<1>1. GivenInv(h)
  BY DEF PipelineInv
<1>2. ASSUME h \notin unseen', NEW s \in Rounds, Holds(s, h)'
      PROVE  Holds(s, h)
  <2>1. s # r => round'[s] = round[s]
    BY DEF Frame
  <2> QED
    BY <1>2, <2>1 DEF Holds, Hour
<1>3. h \notin unseen' /\ InHand(h)' => InHand(h)
  BY <1>2, InHandHolds
<1>4. tables \subseteq tables'
  BY DEF Frame
<1> QED
  BY <1>1, <1>2, <1>3, <1>4 DEF GivenInv

\* The case of a step that leaves the database alone.
LEMMA DatabaseKept ==
    ASSUME PipelineInv, UNCHANGED <<tables, filled, subtopics, newest, settled, torn,
                                    oldest, cached, restarts>>,
           round' \in [Rounds -> RoundSet], faults' \in 0..MaxFaults, given' \in [Hours -> Nat]
    PROVE  ShapeInv' /\ TablesInv'
<1>1. ShapeInv'
  BY DEF PipelineInv, ShapeInv
<1>2. TablesInv'
  BY DEF PipelineInv, TablesInv
<1> QED
  BY <1>1, <1>2

LEMMA FaultsBounded ==
    ASSUME PipelineInv, Fault \/ UNCHANGED faults
    PROVE  faults' \in 0..MaxFaults
BY BoundsFacts DEF PipelineInv, ShapeInv, Fault

LEMMA RoundUpdated ==
    ASSUME ShapeInv, NEW r \in Rounds, NEW rec \in RoundSet, round' = [round EXCEPT ![r] = rec]
    PROVE  /\ round' \in [Rounds -> RoundSet] /\ round'[r] = rec
           /\ \A s \in Rounds \ {r} : round'[s] = round[s]
BY DEF ShapeInv

-----------------------------------------------------------------------------
(* The generator of triples *)

LEMMA NextTripleStep ==
    ASSUME PipelineInv, NEW r \in Rounds, NextTriple(r)
    PROVE  PipelineInv'
<1> DEFINE x == round[r]
<1>0. /\ ShapeInv /\ StageInv(r) /\ CleanInv(r) /\ x \in RoundSet
      /\ x.todo \in Seq(TableSet) /\ Len(x.todo) \in Nat
      /\ x.pc = "clean" /\ x.step = "next" /\ x.names = <<>> /\ ~x.odd
      /\ x.out \in Seq(TableSet)
  BY RoundTypes DEF PipelineInv, RoundInv, CleanInv, NextTriple
<1>1. UNCHANGED <<tables, filled, subtopics, newest, settled, torn, oldest, cached,
                  restarts, faults, given,
                  unseen, refused>>
  BY DEF NextTriple, database, history
<1>2. ASSUME NEW y \in RoundSet, round' = [round EXCEPT ![r] = y],
             y.pc # "idle", y.pc = "clean" => y.step \in {"next", "check"},
             RoundInv(r)', \A n \in Nat : ListOf(r, n) => ListOf(r, n)'
      PROVE  PipelineInv'
  <2>1. /\ round' \in [Rounds -> RoundSet] /\ round'[r] = y
        /\ \A s \in Rounds \ {r} : round'[s] = round[s]
    BY <1>0, <1>2, RoundUpdated
  <2>2. Frame(r)
    BY <1>0, <1>1, <1>2, <2>1 DEF Frame
  <2>3. faults' \in 0..MaxFaults /\ given' \in [Hours -> Nat]
    BY <1>0, <1>1 DEF ShapeInv
  <2>4. ShapeInv' /\ TablesInv'
    BY <1>1, <2>1, <2>3, DatabaseKept
  <2>5. \A h \in Hours : ~Holds(r, h)'
    BY <1>2, <2>1 DEF Holds
  <2>6. \A h \in Hours : GivenInv(h)'
    BY <1>1, <2>2, <2>5, GivenKept
  <2> QED
    BY <1>2, <2>2, <2>4, <2>6, StepOfOne
<1>3. CASE /\ Len(x.todo) < 3
           /\ round' = [round EXCEPT ![r].pc = "topics", ![r].todo = x.out, ![r].out = <<>>]
  <2> DEFINE y == [x EXCEPT !.pc = "topics", !.todo = x.out, !.out = <<>>]
  <2>1. /\ y \in RoundSet /\ round' = [round EXCEPT ![r] = y] /\ round'[r] = y
        /\ y.pc = "topics" /\ y.step = "next" /\ y.todo = x.out /\ y.out = <<>>
        /\ y.names = <<>> /\ ~y.odd
    BY <1>0, <1>3 DEF RoundSet, ShapeInv
  <2> HIDE DEF y
  <2>2. RoundInv(r)'
    <3>1. CleanInv(r)' /\ SubtopicsInv(r)'
      BY <2>1 DEF CleanInv, SubtopicsInv
    <3>4. StageInv(r)'
      BY <2>1 DEF StageInv
    <3>2. TopicsInv(r)'
      BY <1>0, <1>1, <2>1 DEF CleanInv, TopicsInv, Served
    <3>3. round'[r].out \in Seq(Seq(TableSet))
      <4>1. \A S : <<>> \in Seq(S)
        OBVIOUS
      <4> QED
        BY <2>1, <4>1
    <3>6. Len(round'[r].out) = 0 /\ \A i \in 1..Len(round'[r].out) : FALSE
      BY <2>1
    <3>7. Len(round'[r].out) % 2 = 0
      BY <3>6
    <3>5. LinesInv(r)'
      BY <3>3, <3>6, <3>7, Zenon DEF LinesInv
    <3> QED
      BY <3>1, <3>2, <3>4, <3>5 DEF RoundInv
  <2>3. ASSUME NEW n \in Nat, ListOf(r, n)
        PROVE  ListOf(r, n)'
    <3>1. PICK j \in Nat : TriplesUpTo(3 * j) /\ Len(x.todo) = n - 3 * j
      BY <1>0, <2>3 DEF ListOf
    <3>2. TriplesUpTo(n)
      BY <1>3, <3>1 DEF TriplesUpTo
    <3>3. TriplesUpTo(n)'
      BY <1>1, <3>2 DEF TriplesUpTo, IsTriple
    <3> QED
      BY <2>1, <3>3 DEF ListOf
  <2> QED
    BY <1>2, <2>1, <2>2, <2>3
<1>4. ASSUME Len(x.todo) >= 3, NEW n \in Nat, ListOf(r, n)
      PROVE  \E j \in Nat : /\ 3 * j + 3 <= n /\ TriplesUpTo(3 * j)
                            /\ Len(x.todo) = n - 3 * j
                            /\ \A i \in 1..Len(x.todo) : x.todo[i] = cached[3 * j + i]
                            /\ IsTriple(j) <=> Triple(x.todo) =
                                                 <<"Microblog", "UserToBlog", "WeiboUser">>
  <2>1. PICK j \in Nat : /\ 3 * j <= n /\ TriplesUpTo(3 * j)
                         /\ Len(x.todo) = n - 3 * j
                         /\ \A i \in 1..Len(x.todo) : x.todo[i] = cached[3 * j + i]
    BY <1>0, <1>4 DEF ListOf
  <2>2. /\ x.todo[1] = cached[3 * j + 1] /\ x.todo[2] = cached[3 * j + 2]
        /\ x.todo[3] = cached[3 * j + 3]
    BY <1>0, <1>4, <2>1, SMTT(30)
  <2>3. Triple(x.todo) = <<"Microblog", "UserToBlog", "WeiboUser">> <=>
           /\ cached[3 * j + 1].kind = "Microblog" /\ cached[3 * j + 2].kind = "UserToBlog"
           /\ cached[3 * j + 3].kind = "WeiboUser"
    BY <2>2 DEF Triple
  <2>4. IsTriple(j) <=>
           /\ cached[3 * j + 1].kind = "Microblog" /\ cached[3 * j + 2].kind = "UserToBlog"
           /\ cached[3 * j + 3].kind = "WeiboUser"
    <3>1. 0..2 = {0, 1, 2} /\ 3 * j + 0 + 1 = 3 * j + 1 /\ 3 * j + 1 + 1 = 3 * j + 2
          /\ 3 * j + 2 + 1 = 3 * j + 3
      OBVIOUS
    <3> QED
      BY <3>1 DEF IsTriple, CrawledKind
  <2>5. 3 * j + 3 <= n
    BY <1>0, <1>4, <2>1
  <2> QED
    BY <2>1, <2>3, <2>4, <2>5
<1>5. CASE /\ Len(x.todo) >= 3
           /\ Triple(x.todo) = <<"Microblog", "UserToBlog", "WeiboUser">>
           /\ round' = [round EXCEPT ![r].step = "check"]
  <2> DEFINE y == [x EXCEPT !.step = "check"]
  <2>1. /\ y \in RoundSet /\ round' = [round EXCEPT ![r] = y] /\ round'[r] = y
        /\ y.pc = "clean" /\ y.step = "check" /\ y.todo = x.todo /\ y.out = x.out
        /\ y.names = <<>> /\ ~y.odd
    BY <1>0, <1>5 DEF RoundSet, ShapeInv
  <2> HIDE DEF y
  <2>2. RoundInv(r)'
    <3>1. StageInv(r)' /\ TopicsInv(r)' /\ SubtopicsInv(r)' /\ LinesInv(r)'
      BY <1>0, <2>1 DEF StageInv, TopicsInv, LinesInv, SubtopicsInv
    <3>2. CleanInv(r)'
      BY <1>0, <1>1, <1>5, <2>1 DEF CleanInv, Served
    <3> QED
      BY <3>1, <3>2 DEF RoundInv
  <2>3. ASSUME NEW n \in Nat, ListOf(r, n)
        PROVE  ListOf(r, n)'
    <3>1. PICK j \in Nat : /\ 3 * j + 3 <= n /\ TriplesUpTo(3 * j)
                           /\ Len(x.todo) = n - 3 * j
                           /\ \A i \in 1..Len(x.todo) : x.todo[i] = cached[3 * j + i]
                           /\ IsTriple(j)
      BY <1>4, <1>5, <2>3
    <3>2. TriplesUpTo(3 * j)' /\ IsTriple(j)' /\ 3 * j <= n
      <4>1. \A k : IsTriple(k)' <=> IsTriple(k)
        BY <1>1 DEF IsTriple
      <4> QED
        BY <3>1, <4>1 DEF TriplesUpTo
    <3> QED
      BY <1>1, <2>1, <3>1, <3>2 DEF ListOf, Passed
  <2> QED
    BY <1>2, <2>1, <2>2, <2>3
<1>6. CASE /\ Len(x.todo) >= 3
           /\ Triple(x.todo) # <<"Microblog", "UserToBlog", "WeiboUser">>
           /\ round' = [round EXCEPT ![r] = Ended("aborted")]
  <2> DEFINE y == Ended("aborted")
  <2>1. /\ y \in RoundSet /\ round'[r] = y
        /\ y.pc = "aborted" /\ y.step = "next" /\ y.todo = <<>>
    BY <1>0, <1>6 DEF RoundSet, ShapeInv, Ended, Idle
  <2> HIDE DEF y
  <2>2. RoundInv(r)'
    <3>1. CleanInv(r)' /\ TopicsInv(r)' /\ LinesInv(r)' /\ SubtopicsInv(r)'
      BY <2>1 DEF CleanInv, TopicsInv, LinesInv, SubtopicsInv
    <3>2. \A i \in 1..Len(round'[r].todo) : FALSE
      BY <2>1
    <3>3. StageInv(r)'
      BY <2>1, <3>2 DEF StageInv
    <3> QED
      BY <3>1, <3>3 DEF RoundInv
  <2>3. ASSUME NEW n \in Nat, ListOf(r, n)
        PROVE  ListOf(r, n)'
    <3>1. PICK j \in Nat : 3 * j + 3 <= n /\ ~IsTriple(j)
      BY <1>4, <1>6, <2>3
    <3>2. ~IsTriple(j)'
      BY <1>1, <3>1 DEF IsTriple
    <3> QED
      BY <2>1, <3>1, <3>2 DEF ListOf, Passed
  <2>4. round' = [round EXCEPT ![r] = y]
    BY <1>6 DEF y
  <2> QED
    BY <1>2, <2>1, <2>2, <2>3, <2>4
<1> QED
  BY <1>3, <1>5, <1>6 DEF NextTriple

-----------------------------------------------------------------------------
(* The steps of run_filter *)

Grows ==
    /\ UNCHANGED <<newest, settled, torn, oldest, cached, restarts>>
    /\ tables \subseteq tables' /\ filled \subseteq filled' /\ refused \subseteq refused'

\* A run of run_filter goes on.
LEMMA CleanStays ==
    ASSUME PipelineInv, NEW r \in Rounds, Grows, NEW step \in {"create", "insert", "output"},
           round[r].pc = "clean", round[r].step # "next",
           round' = [round EXCEPT ![r].step = step],
           step = "output" => Hour(r) \in filled' \cup refused'
    PROVE  /\ Frame(r) /\ round' \in [Rounds -> RoundSet] /\ RoundInv(r)'
           /\ \A n \in Nat : ListOf(r, n) => ListOf(r, n)'
           /\ round'[r].pc = "clean" /\ round'[r].step = step /\ round'[r].todo = round[r].todo
<1> DEFINE x == round[r]
<1>8. PICK y : y = [x EXCEPT !.step = step]
  OBVIOUS
<1>0. /\ ShapeInv /\ StageInv(r) /\ CleanInv(r) /\ x \in RoundSet
      /\ x.todo \in Seq(TableSet) /\ Len(x.todo) \in Nat /\ Len(x.todo) >= 3
      /\ x.names = <<>> /\ ~x.odd /\ x.out \in Seq(TableSet)
      /\ \A i \in 1..Len(x.out) : Served(x.out[i].hour)
  BY RoundTypes DEF PipelineInv, RoundInv, CleanInv
<1>1. /\ y \in RoundSet /\ round' = [round EXCEPT ![r] = y]
      /\ y.pc = "clean" /\ y.step = step /\ y.todo = x.todo /\ y.out = x.out
      /\ y.names = <<>> /\ ~y.odd
  BY <1>0, <1>8 DEF RoundSet, ShapeInv
<1>2. /\ round' \in [Rounds -> RoundSet] /\ round'[r] = y
      /\ \A s \in Rounds \ {r} : round'[s] = round[s]
  BY <1>0, <1>1, RoundUpdated
<1>3. Frame(r)
  BY <1>1, <1>2 DEF Frame, Grows
<1>4. RoundInv(r)'
  <2>1. TopicsInv(r)' /\ SubtopicsInv(r)' /\ LinesInv(r)'
    BY <1>1, <1>2 DEF TopicsInv, LinesInv, SubtopicsInv
  <2>7. StageInv(r)'
    BY <1>0, <1>1, <1>2 DEF StageInv
  <2>2. \A h : Served(h) => Served(h)'
    BY DEF Served, Grows
  <2>3. Hour(r)' = Hour(r)
    BY <1>1, <1>2 DEF Hour
  <2>4. step = "output" => Served(Hour(r))'
    BY <2>3 DEF Served
  <2>5. \A i \in 1..Len(y.out) : Served(y.out[i].hour)'
    BY <1>0, <1>1, <2>2
  <2>6. CleanInv(r)'
    BY <1>0, <1>1, <1>2, <2>4, <2>5 DEF CleanInv
  <2> QED
    BY <2>1, <2>6, <2>7 DEF RoundInv
<1>5. ASSUME NEW n \in Nat, ListOf(r, n)
      PROVE  ListOf(r, n)'
  <2>1. PICK j \in Nat : /\ 3 * j <= n /\ TriplesUpTo(3 * j)
                         /\ Len(x.todo) = n - 3 * j
                         /\ \A i \in 1..Len(x.todo) : x.todo[i] = cached[3 * j + i]
                         /\ IsTriple(j)
    BY <1>5 DEF ListOf
  <2>2. cached' = cached
    BY DEF Grows
  <2>3. TriplesUpTo(3 * j)' /\ IsTriple(j)'
    BY <2>1, <2>2 DEF TriplesUpTo, IsTriple
  <2> QED
    BY <1>1, <1>2, <2>1, <2>2, <2>3, ZenonT(30) DEF ListOf, Passed
<1> QED
  BY <1>1, <1>2, <1>3, <1>4, <1>5

\* A run of run_filter ends, and the round goes on to the next triple.
LEMMA CleanEnds ==
    ASSUME PipelineInv, NEW r \in Rounds, Grows, NEW out \in Seq(TableSet),
           round[r].pc = "clean", round[r].step # "next", Cleaned(r, out),
           \A i \in 1..Len(out) : Served(out[i].hour)
    PROVE  /\ Frame(r) /\ round' \in [Rounds -> RoundSet] /\ RoundInv(r)'
           /\ \A n \in Nat : ListOf(r, n) => ListOf(r, n)'
           /\ round'[r].step = "next"
<1> DEFINE x == round[r]
<1>8. PICK y, u, v : /\ y = [x EXCEPT !.step = "next", !.todo = Rest(x.todo), !.out = x.out \o out]
                     /\ u = Rest(x.todo) /\ v = x.out \o out
  OBVIOUS
<1>0. /\ ShapeInv /\ StageInv(r) /\ CleanInv(r) /\ x \in RoundSet
      /\ x.todo \in Seq(TableSet) /\ Len(x.todo) \in Nat /\ Len(x.todo) >= 3
      /\ x.names = <<>> /\ ~x.odd /\ x.out \in Seq(TableSet)
      /\ \A i \in 1..Len(x.out) : Served(x.out[i].hour)
  BY RoundTypes DEF PipelineInv, RoundInv, CleanInv
<1>6. /\ u \in Seq(TableSet) /\ Len(u) = Len(x.todo) - 3
      /\ \A i \in 1..Len(u) : u[i] = x.todo[i + 3]
  BY <1>0, <1>8, RestFacts
<1>7. v \in Seq(TableSet) /\ \A i \in 1..Len(v) : Served(v[i].hour)
  <2>1. PICK o : o = x.out
    OBVIOUS
  <2>2. /\ v \in Seq(TableSet) /\ Len(o) \in Nat /\ Len(out) \in Nat
        /\ Len(v) = Len(o) + Len(out)
        /\ \A i \in 1..(Len(o) + Len(out)) : v[i] = IF i <= Len(o) THEN o[i] ELSE out[i - Len(o)]
    BY <1>0, <1>8, <2>1, ConcatFacts
  <2>3. ASSUME NEW i \in 1..Len(v) PROVE Served(v[i].hour)
    <3>1. CASE i <= Len(o)
      BY <1>0, <2>1, <2>2, <3>1
    <3>2. CASE i > Len(o)
      <4>1. i - Len(o) \in 1..Len(out) /\ v[i] = out[i - Len(o)]
        BY <2>2, <3>2
      <4> QED
        BY <4>1
    <3> QED
      BY <2>2, <3>1, <3>2
  <2> QED
    BY <2>2, <2>3
<1>1. /\ y \in RoundSet /\ round' = [round EXCEPT ![r] = y]
      /\ y.pc = "clean" /\ y.step = "next" /\ y.todo = u /\ y.out = v
      /\ y.names = <<>> /\ ~y.odd
  BY <1>0, <1>6, <1>7, <1>8 DEF RoundSet, ShapeInv, Cleaned
<1>2. /\ round' \in [Rounds -> RoundSet] /\ round'[r] = y
      /\ \A s \in Rounds \ {r} : round'[s] = round[s]
  BY <1>0, <1>1, RoundUpdated
<1>3. Frame(r)
  BY <1>1, <1>2 DEF Frame, Grows
<1>4. RoundInv(r)'
  <2>1. TopicsInv(r)' /\ SubtopicsInv(r)' /\ LinesInv(r)'
    BY <1>1, <1>2 DEF TopicsInv, LinesInv, SubtopicsInv
  <2>2. \A h : Served(h) => Served(h)'
    BY DEF Served, Grows
  <2>3. StageInv(r)'
    <3>1. \A i \in 1..Len(x.todo) : x.todo[i] \in AllTables
      BY <1>0 DEF StageInv
    <3>2. ASSUME NEW i \in 1..Len(y.todo) PROVE y.todo[i] \in AllTables
      <4>1. i + 3 \in 1..Len(x.todo) /\ y.todo[i] = x.todo[i + 3]
        BY <1>0, <1>1, <1>6
      <4> QED
        BY <3>1, <4>1
    <3> QED
      BY <1>1, <1>2, <3>2 DEF StageInv
  <2>5. \A i \in 1..Len(y.out) : Served(y.out[i].hour)'
    BY <1>1, <1>7, <2>2
  <2>6. CleanInv(r)'
    BY <1>1, <1>2, <1>7, <2>5 DEF CleanInv
  <2> QED
    BY <2>1, <2>3, <2>6 DEF RoundInv
<1>5. ASSUME NEW n \in Nat, ListOf(r, n)
      PROVE  ListOf(r, n)'
  <2>1. PICK j \in Nat : /\ 3 * j <= n /\ TriplesUpTo(3 * j)
                         /\ Len(x.todo) = n - 3 * j
                         /\ \A i \in 1..Len(x.todo) : x.todo[i] = cached[3 * j + i]
                         /\ IsTriple(j)
    BY <1>5 DEF ListOf
  <2>2. cached' = cached
    BY DEF Grows
  <2>3. PICK k \in Nat : k = j + 1
    OBVIOUS
  <2>4. 3 * k = 3 * j + 3 /\ 3 * k <= n /\ Len(y.todo) = n - 3 * k
    BY <1>0, <1>1, <1>6, <2>1, <2>3
  <2>5. \A i \in 1..Len(y.todo) : y.todo[i] = cached[3 * k + i]
    <3> SUFFICES ASSUME NEW i \in 1..Len(y.todo) PROVE y.todo[i] = cached[3 * k + i]
      OBVIOUS
    <3>1. i + 3 \in 1..Len(x.todo) /\ y.todo[i] = x.todo[i + 3]
      BY <1>0, <1>1, <1>6
    <3>2. 3 * j + (i + 3) = 3 * k + i
      BY <2>4
    <3> QED
      BY <2>1, <3>1, <3>2
  <2>6. TriplesUpTo(3 * k)
    <3> SUFFICES ASSUME NEW i \in Nat, 3 * i + 3 <= 3 * k PROVE IsTriple(i)
      BY DEF TriplesUpTo
    <3>1. i = j \/ 3 * i + 3 <= 3 * j
      BY <2>3
    <3> QED
      BY <2>1, <3>1 DEF TriplesUpTo
  <2>7. TriplesUpTo(3 * k)'
    BY <2>2, <2>6 DEF TriplesUpTo, IsTriple
  <2> QED
    BY <1>1, <1>2, <2>2, <2>3, <2>4, <2>5, <2>7 DEF ListOf, Passed
<1> QED
  BY <1>1, <1>2, <1>3, <1>4, <1>5

LEMMA HourFacts ==
    ASSUME PipelineInv, NEW r \in Rounds, round[r].pc = "clean", round[r].step # "next"
    PROVE  /\ Hour(r) \in Hours /\ Hour(r) <= newest
           /\ Filtered(Hour(r)) \in TableSet /\ Filtered(Hour(r)) \in AllTables
           /\ Filtered(Hour(r)).hour = Hour(r)
<1>1. /\ round[r].todo \in Seq(TableSet) /\ Len(round[r].todo) \in Nat
      /\ Len(round[r].todo) >= 3 /\ Len(cached) \in Nat /\ cached \in Seq(TableSet)
      /\ \A i \in 1..Len(cached) : cached[i] \in tables
  BY RoundTypes DEF PipelineInv, RoundInv, CleanInv, ShapeInv
<1>2. PICK n \in 0..Len(cached) : ListOf(r, n)
  BY DEF PipelineInv, ListsInv
<1>3. PICK j \in Nat : /\ Len(round[r].todo) = n - 3 * j
                       /\ \A i \in 1..Len(round[r].todo) : round[r].todo[i] = cached[3 * j + i]
  BY <1>2 DEF ListOf
<1>4. round[r].todo[1] = cached[3 * j + 1] /\ 3 * j + 1 \in 1..Len(cached)
  BY <1>1, <1>2, <1>3
<1>5. PICK t : t = round[r].todo[1]
  OBVIOUS
<1>6. t \in tables /\ t \in TableSet /\ Hour(r) = t.hour
  BY <1>1, <1>4, <1>5 DEF Hour
<1>7. t.hour \in Hours /\ t.hour <= newest
  BY <1>6 DEF PipelineInv, TablesInv, TableSet
<1>8. PICK h : h = Hour(r)
  OBVIOUS
<1>9. /\ Filtered(h) \in TableSet /\ Filtered(h).hour = h
      /\ Filtered(h) \in AllTables
  BY <1>6, <1>7, <1>8 DEF Filtered, Table, TableSet, KindSet, AllTables
<1> QED
  BY <1>6, <1>7, <1>8, <1>9

LEMMA TableAdded ==
    ASSUME PipelineInv, NEW t \in TableSet, t \in AllTables, t.hour <= newest,
           tables' = tables \cup {t},
           UNCHANGED <<filled, subtopics, newest, settled, torn, oldest, cached, restarts>>,
           round' \in [Rounds -> RoundSet], faults' \in 0..MaxFaults, given' \in [Hours -> Nat]
    PROVE  ShapeInv' /\ TablesInv'
<1>1. ShapeInv /\ TablesInv
  BY DEF PipelineInv
<1>2. IsFiniteSet(tables')
  BY <1>1, FS_AddElement DEF ShapeInv
<1>3. ShapeInv'
  BY <1>1, <1>2 DEF ShapeInv
<1>4. TablesInv'
  BY <1>1 DEF TablesInv
<1> QED
  BY <1>3, <1>4

LEMMA CheckDuplicateStep ==
    ASSUME PipelineInv, NEW r \in Rounds, CheckDuplicate(r)
    PROVE  PipelineInv'
<1>1. /\ round[r].pc = "clean" /\ round[r].step = "check"
      /\ UNCHANGED <<tables, filled, subtopics, newest, settled, torn, oldest, cached,
                     restarts, given, refused>>
  BY DEF CheckDuplicate, Cleaning, database
<1>2. Grows
  BY <1>1 DEF Grows
<1>3. ShapeInv /\ faults' \in 0..MaxFaults /\ given' \in [Hours -> Nat]
  <2>1. Fault \/ UNCHANGED faults
    BY DEF CheckDuplicate
  <2> QED
    BY <1>1, <2>1, FaultsBounded DEF PipelineInv, ShapeInv
<1>4. CASE Cleaned(r, <<>>) /\ UNCHANGED unseen
  <2>1. PICK out \in Seq(TableSet) : out = <<>>
    BY ShortSequences
  <2>2. Cleaned(r, out) /\ \A i \in 1..Len(out) : Served(out[i].hour)
    BY <1>4, <2>1
  <2>3. /\ Frame(r) /\ round' \in [Rounds -> RoundSet] /\ RoundInv(r)'
        /\ \A n \in Nat : ListOf(r, n) => ListOf(r, n)'
        /\ round'[r].step = "next"
    BY <1>1, <1>2, <2>2, CleanEnds
  <2>4. ShapeInv' /\ TablesInv'
    BY <1>1, <1>3, <2>3, DatabaseKept
  <2>5. \A h \in Hours : ~Holds(r, h)'
    BY <2>3 DEF Holds
  <2>6. \A h \in Hours : GivenInv(h)'
    BY <1>1, <1>4, <2>3, <2>5, GivenKept
  <2> QED
    BY <2>3, <2>4, <2>6, StepOfOne
<1>5. CASE /\ round' = [round EXCEPT ![r].step = "create"]
           /\ unseen' = IF Filtered(Hour(r)) \in tables \/ InHand(Hour(r))
                        THEN unseen \cup {Hour(r)} ELSE unseen
  <2>1. PICK step \in {"create", "insert", "output"} : step = "create"
    OBVIOUS
  <2>2. round' = [round EXCEPT ![r].step = step]
    BY <1>5, <2>1
  <2>3. /\ Frame(r) /\ round' \in [Rounds -> RoundSet] /\ RoundInv(r)'
        /\ \A n \in Nat : ListOf(r, n) => ListOf(r, n)'
        /\ round'[r].todo = round[r].todo
    BY <1>1, <1>2, <2>1, <2>2, CleanStays
  <2>4. ShapeInv' /\ TablesInv'
    BY <1>1, <1>3, <2>3, DatabaseKept
  <2>5. PICK g : g = Hour(r)
    OBVIOUS
  <2>6. \A h : Holds(r, h)' => h = g
    BY <2>3, <2>5 DEF Holds, Hour
  <2>7. g \in Hours
    BY <1>1, <2>5, HourFacts
  <2>8. \A h \in Hours : GivenInv(h)'
    <3>1. CASE Filtered(g) \in tables \/ InHand(g)
      <4>1. g \in unseen' /\ unseen \subseteq unseen'
        BY <1>5, <2>5, <3>1
      <4> QED
        BY <1>1, <2>3, <2>6, <4>1, GivenKept
    <3>2. CASE Filtered(g) \notin tables /\ ~InHand(g)
      <4>1. unseen' = unseen
        BY <1>5, <2>5, <3>2
      <4>2. ASSUME NEW h \in Hours, NEW s \in Rounds, Holds(s, h)', s # r
            PROVE  Holds(s, h)
        <5>1. round'[s] = round[s]
          BY <2>3, <4>2 DEF Frame
        <5> QED
          BY <4>2, <5>1 DEF Holds, Hour
      <4>3. ASSUME NEW h \in Hours, h # g
            PROVE  GivenInv(h)'
        <5>1. \A s \in Rounds : Holds(s, h)' => Holds(s, h)
          BY <2>6, <4>2, <4>3
        <5>2. InHand(h)' => InHand(h)
          BY <5>1, InHandHolds
        <5>3. GivenInv(h)
          BY DEF PipelineInv
        <5> QED
          BY <1>1, <4>1, <5>1, <5>2, <5>3 DEF GivenInv
      <4>4. GivenInv(g)'
        <5>1. given'[g] = 0
          BY <1>1, <1>3, <2>7, <3>2 DEF PipelineInv, GivenInv
        <5>2. \A s \in Rounds : Holds(s, g)' => s = r
          BY <2>7, <3>2, <4>2, InHandHolds
        <5> QED
          BY <5>1, <5>2 DEF GivenInv
      <4> QED
        BY <4>3, <4>4
    <3> QED
      BY <3>1, <3>2
  <2> QED
    BY <2>3, <2>4, <2>8, StepOfOne
<1> QED
  BY <1>4, <1>5 DEF CheckDuplicate

LEMMA CreateTableStep ==
    ASSUME PipelineInv, NEW r \in Rounds, CreateTable(r)
    PROVE  PipelineInv'
<1>1. /\ round[r].pc = "clean" /\ round[r].step = "create"
      /\ UNCHANGED <<filled, subtopics, newest, settled, torn, oldest, cached, restarts,
                     given, unseen>>
      /\ round' = [round EXCEPT ![r].step = "insert"]
  BY DEF CreateTable, Cleaning
<1>2. Grows
  BY <1>1 DEF Grows, CreateTable
<1>3. ShapeInv /\ faults' \in 0..MaxFaults /\ given' \in [Hours -> Nat]
  <2>1. Fault \/ UNCHANGED faults
    BY DEF CreateTable
  <2> QED
    BY <1>1, <2>1, FaultsBounded DEF PipelineInv, ShapeInv
<1>4. PICK step \in {"create", "insert", "output"} : step = "insert"
  OBVIOUS
<1>5. /\ Frame(r) /\ round' \in [Rounds -> RoundSet] /\ RoundInv(r)'
      /\ \A n \in Nat : ListOf(r, n) => ListOf(r, n)'
      /\ round'[r].todo = round[r].todo
  BY <1>1, <1>2, <1>4, CleanStays
<1>6. ShapeInv' /\ TablesInv'
  <2>1. CASE UNCHANGED tables
    BY <1>1, <1>3, <1>5, <2>1, DatabaseKept
  <2>2. CASE tables' = tables \cup {Filtered(Hour(r))}
    <3>1. PICK t : t = Filtered(Hour(r))
      OBVIOUS
    <3>2. t \in TableSet /\ t \in AllTables /\ t.hour <= newest
      BY <1>1, <3>1, HourFacts
    <3> QED
      BY <1>1, <1>3, <1>5, <2>2, <3>1, <3>2, TableAdded
  <2> QED
    BY <2>1, <2>2 DEF CreateTable
<1>7. \A h : Holds(r, h)' => Holds(r, h)
  BY <1>1, <1>5 DEF Holds, Hour
<1>8. \A h \in Hours : GivenInv(h)'
  BY <1>1, <1>5, <1>7, GivenKept
<1> QED
  BY <1>5, <1>6, <1>8, StepOfOne

LEMMA InsertDataStep ==
    ASSUME PipelineInv, NEW r \in Rounds, InsertData(r)
    PROVE  PipelineInv'
<1>1. /\ round[r].pc = "clean" /\ round[r].step = "insert"
      /\ UNCHANGED <<tables, subtopics, newest, settled, torn, oldest, cached, restarts,
                     given, unseen>>
      /\ round' = [round EXCEPT ![r].step = "output"]
  BY DEF InsertData, Cleaning
<1>2. Grows
  BY <1>1 DEF Grows, InsertData
<1>3. ShapeInv /\ faults' \in 0..MaxFaults /\ given' \in [Hours -> Nat]
  <2>1. Fault \/ UNCHANGED faults
    BY DEF InsertData
  <2> QED
    BY <1>1, <2>1, FaultsBounded DEF PipelineInv, ShapeInv
<1>4. PICK step \in {"create", "insert", "output"} : step = "output"
  OBVIOUS
<1>9. Hour(r) \in filled' \cup refused'
  BY DEF InsertData
<1>5. /\ Frame(r) /\ round' \in [Rounds -> RoundSet] /\ RoundInv(r)'
      /\ \A n \in Nat : ListOf(r, n) => ListOf(r, n)'
      /\ round'[r].todo = round[r].todo
  BY <1>1, <1>2, <1>4, <1>9, CleanStays
<1>6. ShapeInv' /\ TablesInv'
  <2>1. filled' \subseteq {h \in Hours : Filtered(h) \in tables}
    <3>1. Hour(r) \in Hours
      BY <1>1, HourFacts
    <3> QED
      BY <1>3, <3>1 DEF InsertData, ShapeInv
  <2>2. ShapeInv'
    BY <1>1, <1>3, <1>5, <2>1 DEF ShapeInv
  <2>3. TablesInv'
    BY <1>1 DEF PipelineInv, TablesInv
  <2> QED
    BY <2>2, <2>3
<1>7. \A h : Holds(r, h)' => Holds(r, h)
  BY <1>1, <1>5 DEF Holds, Hour
<1>8. \A h \in Hours : GivenInv(h)'
  BY <1>1, <1>5, <1>7, GivenKept
<1> QED
  BY <1>5, <1>6, <1>8, StepOfOne

LEMMA FilterCrashesStep ==
    ASSUME PipelineInv, NEW r \in Rounds, FilterCrashes(r)
    PROVE  PipelineInv'
<1>1. /\ round[r].pc = "clean" /\ round[r].step # "next"
      /\ UNCHANGED <<tables, filled, subtopics, newest, settled, torn, oldest, cached,
                     restarts, given,
                     unseen, refused>>
      /\ Cleaned(r, <<>>) /\ Fault
  BY DEF FilterCrashes, Cleaning, database, history
<1>2. Grows
  BY <1>1 DEF Grows
<1>3. ShapeInv /\ faults' \in 0..MaxFaults /\ given' \in [Hours -> Nat]
  BY <1>1, FaultsBounded DEF PipelineInv, ShapeInv
<1>4. PICK out \in Seq(TableSet) : out = <<>>
  BY ShortSequences
<1>5. Cleaned(r, out) /\ \A i \in 1..Len(out) : Served(out[i].hour)
  BY <1>1, <1>4
<1>6. /\ Frame(r) /\ round' \in [Rounds -> RoundSet] /\ RoundInv(r)'
      /\ \A n \in Nat : ListOf(r, n) => ListOf(r, n)'
      /\ round'[r].step = "next"
  BY <1>1, <1>2, <1>5, CleanEnds
<1>7. ShapeInv' /\ TablesInv'
  BY <1>1, <1>3, <1>6, DatabaseKept
<1>8. \A h \in Hours : ~Holds(r, h)'
  BY <1>6 DEF Holds
<1>9. \A h \in Hours : GivenInv(h)'
  BY <1>1, <1>6, <1>8, GivenKept
<1> QED
  BY <1>6, <1>7, <1>9, StepOfOne

LEMMA WriteOutputStep ==
    ASSUME PipelineInv, NEW r \in Rounds, WriteOutput(r)
    PROVE  PipelineInv'
<1>1. /\ round[r].pc = "clean" /\ round[r].step = "output"
      /\ UNCHANGED <<tables, filled, subtopics, newest, settled, torn, oldest, cached,
                     restarts, faults,
                     unseen, refused>>
      /\ Cleaned(r, <<Filtered(Hour(r))>>)
  BY DEF WriteOutput, Cleaning, database
<1>2. Grows
  BY <1>1 DEF Grows
<1>3. PICK g : g = Hour(r)
  OBVIOUS
<1>4. /\ g \in Hours /\ Filtered(g) \in TableSet /\ Filtered(g).hour = g
      /\ Served(g)
  BY <1>1, <1>3, HourFacts DEF PipelineInv, RoundInv, CleanInv
<1>5. PICK out \in Seq(TableSet) : out = <<Filtered(g)>>
  BY <1>4, ShortSequences
<1>6. Cleaned(r, out) /\ \A i \in 1..Len(out) : Served(out[i].hour)
  BY <1>1, <1>3, <1>4, <1>5
<1>7. /\ Frame(r) /\ round' \in [Rounds -> RoundSet] /\ RoundInv(r)'
      /\ \A n \in Nat : ListOf(r, n) => ListOf(r, n)'
      /\ round'[r].step = "next"
  BY <1>1, <1>2, <1>6, CleanEnds
<1>8. given \in [Hours -> Nat] /\ faults' \in 0..MaxFaults
  BY <1>1 DEF PipelineInv, ShapeInv
<1>9. given' = IF Filtered(g) \in tables THEN [given EXCEPT ![g] = @ + 1] ELSE given
  BY <1>3 DEF WriteOutput
<1>10. given' \in [Hours -> Nat]
  BY <1>4, <1>8, <1>9
<1>11. ShapeInv' /\ TablesInv'
  BY <1>1, <1>7, <1>8, <1>10, DatabaseKept
<1>12. ASSUME NEW h \in Hours, NEW s \in Rounds, Holds(s, h)'
       PROVE  s # r /\ Holds(s, h)
  <2>1. s # r
    BY <1>7, <1>12 DEF Holds
  <2>2. round'[s] = round[s]
    BY <1>7, <2>1 DEF Frame
  <2> QED
    BY <1>12, <2>1, <2>2 DEF Holds, Hour
<1>13. \A h \in Hours : GivenInv(h)'
  <2> SUFFICES ASSUME NEW h \in Hours PROVE GivenInv(h)'
    OBVIOUS
  <2>1. GivenInv(h)
    BY DEF PipelineInv
  <2>2. InHand(h)' => InHand(h)
    BY <1>12, InHandHolds
  <2>3. CASE given'[h] = given[h]
    BY <1>1, <1>12, <2>1, <2>2, <2>3 DEF GivenInv
  <2>4. CASE h = g /\ Filtered(g) \in tables
    <3>1. given'[g] = given[g] + 1
      BY <1>4, <1>8, <1>9, <2>4
    <3>2. Holds(r, g)
      BY <1>1, <1>3 DEF Holds
    <3>3. g \notin unseen => given[g] = 0
      BY <2>1, <2>4, <3>2, InHandHolds DEF GivenInv
    <3>4. g \notin unseen => \A s \in Rounds : ~Holds(s, g)'
      BY <1>4, <1>12, <2>1, <2>4, <3>2 DEF GivenInv
    <3>5. g \notin unseen => ~InHand(g)'
      BY <3>4, InHandHolds
    <3> QED
      BY <1>1, <2>4, <3>1, <3>3, <3>4, <3>5 DEF GivenInv
  <2> QED
    BY <1>4, <1>8, <1>9, <2>3, <2>4
<1> QED
  BY <1>7, <1>11, <1>13, StepOfOne

-----------------------------------------------------------------------------
(* The steps of run_dataprocess *)

\* A step of a round that has done with its triples.
LEMMA LaterStep ==
    ASSUME PipelineInv, NEW r \in Rounds, NEW y \in RoundSet, round' = [round EXCEPT ![r] = y],
           Grows, round[r].pc \in Passed, y.pc \in Passed,
           given' = given, unseen' = unseen,
           round' \in [Rounds -> RoundSet] => ShapeInv' /\ TablesInv' /\ RoundInv(r)'
    PROVE  PipelineInv'
<1>1. /\ round' \in [Rounds -> RoundSet] /\ round'[r] = y
      /\ \A s \in Rounds \ {r} : round'[s] = round[s]
  BY RoundUpdated DEF PipelineInv
<1>2. Frame(r)
  BY <1>1 DEF Frame, Grows, Passed
<1>3. \A n \in Nat : ListOf(r, n) => ListOf(r, n)'
  <2>1. cached' = cached
    BY DEF Grows
  <2>2. round'[r].pc # "clean" /\ round'[r].pc # "aborted" /\ round[r].pc \in Passed
    BY <1>1 DEF Passed
  <2>3. \A n : TriplesUpTo(n)' <=> TriplesUpTo(n)
    BY <2>1 DEF TriplesUpTo, IsTriple
  <2> QED
    BY <2>2, <2>3 DEF ListOf
<1>4. \A h \in Hours : ~Holds(r, h)'
  BY <1>1 DEF Holds, Passed
<1>5. \A h \in Hours : GivenInv(h)'
  BY <1>2, <1>4, GivenKept
<1> QED
  BY <1>1, <1>2, <1>3, <1>5, StepOfOne

LEMMA NamesKept ==
    ASSUME Grows
    PROVE  /\ \A t : Named(t) => Named(t)'
           /\ \A h : Served(h) => Served(h)'
BY DEF Grows, Named, Served

LEMMA LinesKept ==
    ASSUME Grows, NEW r \in Rounds, LinesInv(r), round'[r].pc = "topics", round[r].pc = "topics",
           round'[r].out = round[r].out, round'[r].odd = round[r].odd
    PROVE  LinesInv(r)'
<1>1. PICK o, d : o = round[r].out /\ d = round[r].odd
  OBVIOUS
<1>2. /\ o \in Seq(Seq(TableSet)) /\ (~d => Len(o) % 2 = 0)
      /\ \A i \in 1..Len(o) : \A j \in 1..Len(o[i]) :
            Named(o[i][j]) /\ (~d /\ i % 2 = 0 => o[i][j].kind = TopicKind)
  BY <1>1 DEF LinesInv
<1>3. \A i \in 1..Len(o) : \A j \in 1..Len(o[i]) :
         Named(o[i][j])' /\ (~d /\ i % 2 = 0 => o[i][j].kind = TopicKind)
  BY <1>2, NamesKept
<1>4. round'[r].out = o /\ round'[r].odd = d
  BY <1>1
<1> QED
  BY <1>2, <1>3, <1>4, Zenon DEF LinesInv

\* The tables of an hour that is not beyond the newest one.
LEMMA TopicTables ==
    ASSUME NEW h \in Hours
    PROVE  /\ Filtered(h) \in TableSet /\ Filtered(h) \in AllTables
           /\ Filtered(h).hour = h /\ Filtered(h).kind # TopicKind
           /\ OneDayTopic(h) \in TableSet /\ OneDayTopic(h) \in AllTables
           /\ OneDayTopic(h).hour = h
           /\ \A id \in 1..MaxTopics :
                 /\ Topic(h, id) \in TableSet /\ Topic(h, id) \in AllTables
                 /\ Topic(h, id).hour = h /\ Topic(h, id).kind = TopicKind
<1>1. /\ Filtered(h) \in TableSet /\ Filtered(h).hour = h /\ Filtered(h).kind # TopicKind
      /\ OneDayTopic(h) \in TableSet /\ OneDayTopic(h).hour = h
  BY DEF Filtered, OneDayTopic, Table, TableSet, KindSet, TopicKind
<1>2. Filtered(h) \in AllTables /\ OneDayTopic(h) \in AllTables
  BY DEF AllTables
<1>3. ASSUME NEW id \in 1..MaxTopics
      PROVE  /\ Topic(h, id) \in TableSet /\ Topic(h, id) \in AllTables
             /\ Topic(h, id).hour = h /\ Topic(h, id).kind = TopicKind
  <2>1. id \in Nat
    BY BoundsFacts
  <2>2. Topic(h, id) \in TableSet /\ Topic(h, id).hour = h /\ Topic(h, id).kind = TopicKind
    BY <2>1 DEF Topic, Table, TableSet, KindSet, TopicKind
  <2>3. Topic(h, id) \in AllTables
    BY DEF AllTables
  <2> QED
    BY <2>2, <2>3
<1> QED
  BY <1>1, <1>2, <1>3

LEMMA DetectionFacts ==
    ASSUME PipelineInv, NEW r \in Rounds, round[r].pc = "topics", round[r].todo # <<>>
    PROVE  /\ Hour(r) \in Hours /\ Served(Hour(r))
           /\ Hour(r) \in filled => Hour(r) <= newest
           /\ Tail(round[r].todo) \in Seq(TableSet)
           /\ \A i \in 1..Len(Tail(round[r].todo)) : Served(Tail(round[r].todo)[i].hour)
<1>1. /\ round[r].todo \in Seq(TableSet)
      /\ \A i \in 1..Len(round[r].todo) : Served(round[r].todo[i].hour)
  BY RoundTypes DEF PipelineInv, RoundInv, TopicsInv
<1>2. PICK s, u : s = round[r].todo /\ u = Tail(round[r].todo)
  OBVIOUS
<1>3. /\ u \in Seq(TableSet) /\ Len(s) \in Nat /\ Len(s) >= 1 /\ Len(u) = Len(s) - 1
      /\ \A i \in 1..Len(u) : u[i] = s[i + 1]
      /\ Head(s) = s[1] /\ s[1] \in TableSet
  BY <1>1, <1>2, TailFacts
<1>4. Hour(r) = s[1].hour /\ Hour(r) \in Hours /\ Served(Hour(r))
  BY <1>1, <1>2, <1>3 DEF Hour, TableSet
<1>5. ASSUME NEW i \in 1..Len(u) PROVE Served(u[i].hour)
  <2>1. i + 1 \in 1..Len(s) /\ u[i] = s[i + 1]
    BY <1>3
  <2> QED
    BY <1>1, <1>2, <2>1
<1>6. Hour(r) \in filled => Hour(r) <= newest
  <2>1. PICK h : h = Hour(r)
    OBVIOUS
  <2>2. h \in filled => Filtered(h) \in tables
    BY DEF PipelineInv, ShapeInv
  <2>3. Filtered(h).hour = h
    BY <1>4, <2>1, TopicTables
  <2> QED
    BY <2>1, <2>2, <2>3 DEF PipelineInv, TablesInv
<1> QED
  BY <1>2, <1>3, <1>4, <1>5, <1>6

LEMMA OpenTopicsStep ==
    ASSUME PipelineInv, NEW r \in Rounds, OpenTopics(r)
    PROVE  PipelineInv'
<1>1. /\ round[r].pc = "topics" /\ round[r].step = "next" /\ round[r].todo # <<>>
      /\ Hour(r) \in filled /\ tables' = tables \cup {OneDayTopic(Hour(r))}
      /\ UNCHANGED <<filled, subtopics, newest, settled, torn, oldest, cached, restarts,
                     faults,
                     given, unseen, refused>>
      /\ round' = [round EXCEPT ![r].step = "insert"]
  BY DEF OpenTopics, Detecting, history
<1>0. /\ ShapeInv /\ StageInv(r) /\ TopicsInv(r) /\ LinesInv(r) /\ round[r] \in RoundSet
  BY RoundTypes DEF PipelineInv, RoundInv
<1>2. Grows
  BY <1>1 DEF Grows
<1>3. PICK x, y, t : x = round[r] /\ y = [x EXCEPT !.step = "insert"] /\ t = OneDayTopic(Hour(r))
  OBVIOUS
<1>4. /\ y \in RoundSet /\ round' = [round EXCEPT ![r] = y] /\ y.pc = "topics"
      /\ y.step = "insert" /\ y.todo = x.todo /\ y.out = x.out /\ y.names = x.names
      /\ y.odd = x.odd
  BY <1>0, <1>1, <1>3 DEF RoundSet, ShapeInv
<1>5. /\ Hour(r) \in Hours /\ Hour(r) <= newest
      /\ t \in TableSet /\ t \in AllTables /\ t.hour <= newest
  <2>1. PICK h : h = Hour(r)
    OBVIOUS
  <2>2. h \in Hours /\ h <= newest
    BY <1>1, <2>1, DetectionFacts
  <2>3. t \in TableSet /\ t \in AllTables /\ t.hour = h
    BY <1>3, <2>1, <2>2, TopicTables
  <2> QED
    BY <2>1, <2>2, <2>3
<1>6. ASSUME round' \in [Rounds -> RoundSet]
      PROVE  ShapeInv' /\ TablesInv' /\ RoundInv(r)'
  <2>1. ShapeInv' /\ TablesInv'
    <3>1. faults' \in 0..MaxFaults /\ given' \in [Hours -> Nat]
      BY <1>0, <1>1 DEF ShapeInv
    <3> QED
      BY <1>1, <1>3, <1>5, <1>6, <3>1, TableAdded
  <2>2. round'[r] = y
    BY <1>0, <1>4, RoundUpdated
  <2>3. StageInv(r)' /\ CleanInv(r)' /\ SubtopicsInv(r)'
    BY <1>4, <2>2 DEF StageInv, CleanInv, SubtopicsInv
  <2>4. TopicsInv(r)'
    <3>1. Hour(r)' = Hour(r)
      BY <1>3, <1>4, <2>2 DEF Hour
    <3>2. Hour(r)' <= newest' /\ y.todo # <<>>
      BY <1>1, <1>3, <1>4, <1>5, <3>1
    <3>3. \A i \in 1..Len(y.todo) : Served(y.todo[i].hour)'
      BY <1>0, <1>1, <1>2, <1>3, <1>4, NamesKept DEF TopicsInv
    <3>4. \A i \in 1..Len(y.names) : y.names[i].kind = TopicKind /\ Named(y.names[i])'
      BY <1>0, <1>1, <1>2, <1>3, <1>4, NamesKept DEF TopicsInv
    <3> QED
      BY <2>2, <3>2, <3>3, <3>4 DEF TopicsInv
  <2>5. LinesInv(r)'
    BY <1>0, <1>1, <1>2, <1>3, <1>4, <2>2, LinesKept
  <2> QED
    BY <2>1, <2>3, <2>4, <2>5 DEF RoundInv
<1> QED
  BY <1>1, <1>2, <1>4, <1>6, LaterStep DEF Passed

LEMMA InsertTopicStep ==
    ASSUME PipelineInv, NEW r \in Rounds, InsertTopic(r)
    PROVE  PipelineInv'
<1>9. PICK t : t = Topic(Hour(r), Cardinality(TopicsOf(Hour(r))) + 1)
  OBVIOUS
<1>1. /\ round[r].pc = "topics" /\ round[r].step = "insert"
      /\ t.id <= MaxTopics /\ tables' = tables \cup {t}
      /\ UNCHANGED <<filled, subtopics, newest, settled, torn, oldest, cached, restarts,
                     faults,
                     given, unseen, refused>>
      /\ round' = [round EXCEPT ![r].names = Append(@, t)]
  BY <1>9 DEF InsertTopic, Detecting, history
<1>0. /\ ShapeInv /\ StageInv(r) /\ TopicsInv(r) /\ LinesInv(r) /\ round[r] \in RoundSet
      /\ round[r].names \in Seq(TableSet)
  BY RoundTypes DEF PipelineInv, RoundInv
<1>2. Grows
  BY <1>1 DEF Grows
<1>5. /\ Hour(r) \in Hours /\ Hour(r) <= newest /\ round[r].todo # <<>>
      /\ t \in TableSet /\ t \in AllTables /\ t.hour <= newest /\ t.kind = TopicKind
  <2>1. PICK h, n : h = Hour(r) /\ n = Cardinality(TopicsOf(h)) + 1
    OBVIOUS
  <2>2. round[r].todo # <<>> /\ h <= newest
    BY <1>0, <1>1, <2>1 DEF TopicsInv
  <2>3. h \in Hours
    BY <1>1, <2>1, <2>2, DetectionFacts
  <2>4. n \in Nat \ {0}
    <3>1. TopicsOf(h) \in SUBSET tables
      BY DEF TopicsOf
    <3>2. IsFiniteSet(TopicsOf(h))
      BY <1>0, <3>1, FS_Subset DEF ShapeInv
    <3> QED
      BY <2>1, <3>2, FS_CardinalityType
  <2>5. t = Topic(h, n) /\ n <= MaxTopics
    BY <1>1, <1>9, <2>1 DEF Topic, Table
  <2>6. n \in 1..MaxTopics
    BY <2>4, <2>5, BoundsFacts
  <2>7. t \in TableSet /\ t \in AllTables /\ t.hour = h /\ t.kind = TopicKind
    BY <2>3, <2>5, <2>6, TopicTables
  <2> QED
    BY <2>1, <2>2, <2>3, <2>7
<1>3. PICK x, u, y : x = round[r] /\ u = Append(x.names, t) /\ y = [x EXCEPT !.names = u]
  OBVIOUS
<1>8. /\ u \in Seq(TableSet)
      /\ \A i \in 1..Len(u) : u[i] = t \/ (i \in 1..Len(x.names) /\ u[i] = x.names[i])
  BY <1>0, <1>3, <1>5
<1>4. /\ y \in RoundSet /\ round' = [round EXCEPT ![r] = y] /\ y.pc = "topics"
      /\ y.step = "insert" /\ y.todo = x.todo /\ y.out = x.out /\ y.names = u
      /\ y.odd = x.odd
  BY <1>0, <1>1, <1>3, <1>8 DEF RoundSet, ShapeInv
<1>6. ASSUME round' \in [Rounds -> RoundSet]
      PROVE  ShapeInv' /\ TablesInv' /\ RoundInv(r)'
  <2>1. ShapeInv' /\ TablesInv'
    <3>1. faults' \in 0..MaxFaults /\ given' \in [Hours -> Nat]
      BY <1>0, <1>1 DEF ShapeInv
    <3> QED
      BY <1>1, <1>3, <1>5, <1>6, <3>1, TableAdded
  <2>2. round'[r] = y
    BY <1>0, <1>4, RoundUpdated
  <2>3. StageInv(r)' /\ CleanInv(r)' /\ SubtopicsInv(r)'
    BY <1>4, <2>2 DEF StageInv, CleanInv, SubtopicsInv
  <2>4. TopicsInv(r)'
    <3>1. Hour(r)' = Hour(r)
      BY <1>3, <1>4, <2>2 DEF Hour
    <3>2. Hour(r)' <= newest' /\ y.todo # <<>>
      BY <1>1, <1>3, <1>4, <1>5, <3>1
    <3>3. \A i \in 1..Len(y.todo) : Served(y.todo[i].hour)'
      BY <1>0, <1>1, <1>2, <1>3, <1>4, NamesKept DEF TopicsInv
    <3>5. Named(t)'
      BY <1>1, <1>5 DEF Named
    <3>6. \A i \in 1..Len(x.names) : x.names[i].kind = TopicKind /\ Named(x.names[i])'
      BY <1>0, <1>1, <1>2, <1>3, NamesKept DEF TopicsInv
    <3>4. \A i \in 1..Len(y.names) : y.names[i].kind = TopicKind /\ Named(y.names[i])'
      BY <1>4, <1>5, <1>8, <3>5, <3>6
    <3> QED
      BY <2>2, <3>2, <3>3, <3>4 DEF TopicsInv
  <2>5. LinesInv(r)'
    BY <1>0, <1>1, <1>2, <1>3, <1>4, <2>2, LinesKept
  <2> QED
    BY <2>1, <2>3, <2>4, <2>5 DEF RoundInv
<1> QED
  BY <1>1, <1>2, <1>4, <1>6, LaterStep DEF Passed

\* A call of run_dataprocess ends with some lines, of names that have tables.
LEMMA DetectedStep ==
    ASSUME PipelineInv, NEW r \in Rounds, NEW lines \in Seq(Seq(TableSet)),
           round[r].pc = "topics", round[r].todo # <<>>, Detected(r, lines),
           UNCHANGED <<tables, filled, subtopics, newest, settled, torn, oldest, cached,
                       restarts,
                       given, unseen, refused>>,
           faults' \in 0..MaxFaults,
           \A i \in 1..Len(lines) : \A j \in 1..Len(lines[i]) :
              Named(lines[i][j]) /\ (Len(lines) = 2 /\ i = 2 => lines[i][j].kind = TopicKind)
    PROVE  PipelineInv'
<1>0. /\ ShapeInv /\ StageInv(r) /\ TopicsInv(r) /\ LinesInv(r) /\ round[r] \in RoundSet
      /\ round[r].odd \in BOOLEAN
  BY RoundTypes DEF PipelineInv, RoundInv
<1>1. Grows
  BY DEF Grows
<1>2. PICK x, o, d, u, v :
         x = round[r] /\ o = x.out /\ d = x.odd /\ u = Tail(x.todo) /\ v = o \o lines
  OBVIOUS
<1>14. PICK e : e = (d \/ Len(lines) # 2)
  OBVIOUS
<1>15. PICK y : y = [x EXCEPT !.step = "next", !.todo = u, !.out = v, !.names = <<>>, !.odd = e]
  OBVIOUS
<1>3. /\ o \in Seq(Seq(TableSet)) /\ (~d => Len(o) % 2 = 0)
      /\ \A i \in 1..Len(o) : \A j \in 1..Len(o[i]) :
            Named(o[i][j]) /\ (~d /\ i % 2 = 0 => o[i][j].kind = TopicKind)
  BY <1>0, <1>2 DEF LinesInv
<1>4. u \in Seq(TableSet) /\ \A i \in 1..Len(u) : Served(u[i].hour)
  BY <1>2, DetectionFacts
<1>5. /\ v \in Seq(Seq(TableSet)) /\ Len(o) \in Nat /\ Len(lines) \in Nat
      /\ Len(v) = Len(o) + Len(lines)
      /\ \A i \in 1..(Len(o) + Len(lines)) :
            v[i] = IF i <= Len(o) THEN o[i] ELSE lines[i - Len(o)]
  <2>1. PICK S : S = Seq(TableSet)
    OBVIOUS
  <2>2. o \in Seq(S) /\ lines \in Seq(S) /\ v = o \o lines
    BY <1>2, <1>3, <2>1
  <2>3. /\ (o \o lines) \in Seq(S) /\ Len(o) \in Nat /\ Len(lines) \in Nat
        /\ Len(o \o lines) = Len(o) + Len(lines)
        /\ \A i \in 1..(Len(o) + Len(lines)) :
              (o \o lines)[i] = IF i <= Len(o) THEN o[i] ELSE lines[i - Len(o)]
    BY <2>2, ConcatFacts
  <2> QED
    BY <2>1, <2>2, <2>3, Zenon
<1>6. d \in BOOLEAN /\ e \in BOOLEAN /\ (~e => ~d /\ Len(lines) = 2)
  <2>1. d \in BOOLEAN
    BY <1>0, <1>2
  <2> QED
    BY <1>14, <2>1, Zenon
<1>13. <<>> \in Seq(TableSet)
  BY ShortSequences
<1>7. /\ y \in RoundSet /\ y.pc = "topics" /\ y.step = "next" /\ y.todo = u /\ y.out = v
      /\ y.names = <<>> /\ y.odd = e
  BY <1>0, <1>2, <1>4, <1>5, <1>6, <1>13, <1>15 DEF RoundSet
<1>8. round' = [round EXCEPT ![r] = y]
  <2>1. round' = [round EXCEPT ![r].step = "next", ![r].todo = u, ![r].out = v,
                               ![r].names = <<>>, ![r].odd = e]
    BY <1>0, <1>2, <1>14, Zenon DEF Detected, ShapeInv
  <2> QED
    BY <1>0, <1>2, <1>15, <2>1 DEF ShapeInv
<1>9. \A i \in 1..Len(v) : \A j \in 1..Len(v[i]) :
         Named(v[i][j]) /\ (~e /\ i % 2 = 0 => v[i][j].kind = TopicKind)
  <2> SUFFICES ASSUME NEW i \in 1..Len(v)
               PROVE  \A j \in 1..Len(v[i]) :
                         Named(v[i][j]) /\ (~e /\ i % 2 = 0 => v[i][j].kind = TopicKind)
    OBVIOUS
  <2>1. CASE i <= Len(o)
    <3>1. i \in 1..Len(o) /\ v[i] = o[i]
      BY <1>5, <2>1
    <3> QED
      BY <1>3, <1>6, <3>1
  <2>2. CASE i > Len(o)
    <3>1. i - Len(o) \in 1..Len(lines) /\ v[i] = lines[i - Len(o)]
      BY <1>5, <2>2
    <3>2. ~e /\ i % 2 = 0 => Len(lines) = 2 /\ i - Len(o) = 2
      <4>7. i \in Nat /\ Len(o) \in Nat
        BY <1>5
      <4>1. PICK k, n \in Nat : k = i /\ n = Len(o)
        BY <4>7, Zenon
      <4>5. k - n \in 1..Len(lines)
        BY <3>1, <4>1
      <4>6. ~e => n % 2 = 0 /\ Len(lines) = 2
        BY <1>3, <1>6, <4>1, Zenon
      <4>2. ~e => n % 2 = 0 /\ k - n \in 1..2 /\ Len(lines) = 2
        BY <4>5, <4>6
      <4>3. k - n = 1 /\ n % 2 = 0 => k % 2 = 1
        <5>1. \A m \in Nat : m % 2 = 0 => (m + 1) % 2 = 1
          OBVIOUS
        <5>2. k - n = 1 => k = n + 1
          OBVIOUS
        <5> QED
          BY <5>1, <5>2
      <4>4. ~e /\ i % 2 = 0 => k - n # 1
        BY <4>1, <4>2, <4>3
      <4> QED
        BY <4>1, <4>2, <4>4
    <3> QED
      BY <3>1, <3>2
  <2> QED
    BY <1>5, <2>1, <2>2
<1>10. ~e => Len(v) % 2 = 0
  <2>1. \A n \in Nat : n % 2 = 0 => (n + 2) % 2 = 0
    OBVIOUS
  <2>2. PICK n \in Nat : n = Len(o)
    BY <1>5
  <2>3. ~e => n % 2 = 0 /\ Len(v) = n + 2
    BY <1>3, <1>5, <1>6, <2>2
  <2> QED
    BY <2>1, <2>3
<1>11. ASSUME round' \in [Rounds -> RoundSet]
       PROVE  ShapeInv' /\ TablesInv' /\ RoundInv(r)'
  <2>1. ShapeInv' /\ TablesInv'
    <3>1. given' \in [Hours -> Nat]
      BY <1>0 DEF ShapeInv
    <3> QED
      BY <1>11, <3>1, DatabaseKept
  <2>2. round'[r] = y
    BY <1>0, <1>7, <1>8, RoundUpdated
  <2>3. StageInv(r)' /\ CleanInv(r)' /\ SubtopicsInv(r)'
    BY <1>7, <2>2 DEF StageInv, CleanInv, SubtopicsInv
  <2>4. TopicsInv(r)'
    <3>1. \A i \in 1..Len(u) : Served(u[i].hour)'
      BY <1>1, <1>4, NamesKept
    <3>2. \A i \in 1..Len(y.names) : FALSE
      BY <1>7
    <3> QED
      BY <1>7, <2>2, <3>1, <3>2 DEF TopicsInv
  <2>5. LinesInv(r)'
    <3>1. \A i \in 1..Len(v) : \A j \in 1..Len(v[i]) :
             Named(v[i][j])' /\ (~e /\ i % 2 = 0 => v[i][j].kind = TopicKind)
      BY <1>1, <1>9, NamesKept
    <3>2. round'[r].out = v /\ round'[r].odd = e
      BY <1>7, <2>2
    <3> QED
      BY <1>5, <1>10, <3>1, <3>2, Zenon DEF LinesInv
  <2> QED
    BY <2>1, <2>3, <2>4, <2>5 DEF RoundInv
<1> QED
  BY <1>1, <1>7, <1>8, <1>11, LaterStep DEF Passed

\* The lines for an hour and the names of its topics.
LEMMA LinesFacts ==
    ASSUME NEW h \in Hours, NEW names \in Seq(TableSet),
           \A i \in 1..Len(names) : names[i].kind = TopicKind /\ Named(names[i])
    PROVE  /\ Lines(h, names) \in Seq(Seq(TableSet))
           /\ \A i \in 1..Len(Lines(h, names)) : \A j \in 1..Len(Lines(h, names)[i]) :
                 /\ Named(Lines(h, names)[i][j])
                 /\ Len(Lines(h, names)) = 2 /\ i = 2
                       => Lines(h, names)[i][j].kind = TopicKind
<1>1. PICK f : f = Filtered(h)
  OBVIOUS
<1>2. f \in TableSet /\ Named(f)
  BY <1>1, TopicTables DEF Named
<1>3. PICK first \in Seq(TableSet) : first = <<f>>
  BY <1>2, ShortSequences
<1>4. \A j \in 1..Len(first) : Named(first[j])
  BY <1>2, <1>3
<1>5. CASE names = <<>>
  <2>1. Lines(h, names) = <<first>>
    BY <1>1, <1>3, <1>5 DEF Lines
  <2>2. PICK l : l = <<first>>
    OBVIOUS
  <2>3. l \in Seq(Seq(TableSet)) /\ Len(l) = 1 /\ l[1] = first
    BY <2>2
  <2> QED
    BY <1>4, <2>1, <2>2, <2>3
<1>6. CASE names # <<>>
  <2>1. Lines(h, names) = <<first, names>>
    BY <1>1, <1>3, <1>6 DEF Lines
  <2>2. PICK l : l = <<first, names>>
    OBVIOUS
  <2>3. l \in Seq(Seq(TableSet)) /\ Len(l) = 2 /\ l[1] = first /\ l[2] = names
    BY <2>2
  <2> QED
    BY <1>4, <2>1, <2>2, <2>3
<1> QED
  BY <1>5, <1>6

LEMMA CloseTopicsStep ==
    ASSUME PipelineInv, NEW r \in Rounds, CloseTopics(r)
    PROVE  PipelineInv'
<1>1. /\ round[r].pc = "topics" /\ round[r].step = "insert"
      /\ UNCHANGED <<tables, filled, subtopics, newest, settled, torn, oldest, cached,
                     restarts, faults,
                     given, unseen, refused>>
      /\ Detected(r, Lines(Hour(r), round[r].names))
  BY DEF CloseTopics, Detecting, history, database
<1>2. PICK h, names, lines : h = Hour(r) /\ names = round[r].names /\ lines = Lines(h, names)
  OBVIOUS
<1>3. /\ names \in Seq(TableSet) /\ round[r].todo # <<>> /\ faults' \in 0..MaxFaults
      /\ \A i \in 1..Len(names) : names[i].kind = TopicKind /\ Named(names[i])
  BY <1>1, <1>2, RoundTypes DEF PipelineInv, RoundInv, TopicsInv, ShapeInv
<1>4. h \in Hours
  BY <1>1, <1>2, <1>3, DetectionFacts
<1>5. /\ lines \in Seq(Seq(TableSet))
      /\ \A i \in 1..Len(lines) : \A j \in 1..Len(lines[i]) :
            Named(lines[i][j]) /\ (Len(lines) = 2 /\ i = 2 => lines[i][j].kind = TopicKind)
  BY <1>2, <1>3, <1>4, LinesFacts
<1>6. Detected(r, lines)
  BY <1>1, <1>2
<1> QED
  BY <1>1, <1>3, <1>5, <1>6, DetectedStep

LEMMA DetectionCrashesStep ==
    ASSUME PipelineInv, NEW r \in Rounds, DetectionCrashes(r)
    PROVE  PipelineInv'
<1>1. /\ round[r].pc = "topics" /\ round[r].todo # <<>>
      /\ UNCHANGED <<tables, filled, subtopics, newest, settled, torn, oldest, cached,
                     restarts,
                     given, unseen, refused>>
      /\ Detected(r, <<>>) \/ Detected(r, Lines(Hour(r), <<>>))
  <2>1. CASE Detecting(r, "next") /\ round[r].todo # <<>> /\ Detected(r, <<>>)
    BY <2>1 DEF DetectionCrashes, Detecting, history, database
  <2>2. CASE Detecting(r, "insert") /\ Detected(r, Lines(Hour(r), <<>>))
    <3>1. TopicsInv(r)
      BY DEF PipelineInv, RoundInv
    <3> QED
      BY <2>2, <3>1 DEF DetectionCrashes, Detecting, history, database, TopicsInv
  <2> QED
    BY <2>1, <2>2 DEF DetectionCrashes
<1>2. faults' \in 0..MaxFaults
  <2>1. Fault \/ UNCHANGED faults
    BY DEF DetectionCrashes
  <2> QED
    BY <2>1, FaultsBounded
<1>3. CASE Detected(r, <<>>)
  <2>1. PICK lines \in Seq(Seq(TableSet)) : lines = <<>>
    BY ShortSequences
  <2>2. \A i \in 1..Len(lines) : FALSE
    BY <2>1
  <2>3. Detected(r, lines)
    BY <1>3, <2>1
  <2> QED
    BY <1>1, <1>2, <2>2, <2>3, DetectedStep
<1>4. CASE Detected(r, Lines(Hour(r), <<>>))
  <2>1. PICK names \in Seq(TableSet) : names = <<>>
    BY ShortSequences
  <2>2. PICK h, lines : h = Hour(r) /\ lines = Lines(h, names)
    OBVIOUS
  <2>3. h \in Hours
    BY <1>1, <2>2, DetectionFacts
  <2>4. \A i \in 1..Len(names) : FALSE
    BY <2>1
  <2>5. /\ lines \in Seq(Seq(TableSet))
        /\ \A i \in 1..Len(lines) : \A j \in 1..Len(lines[i]) :
              Named(lines[i][j]) /\ (Len(lines) = 2 /\ i = 2 => lines[i][j].kind = TopicKind)
    BY <2>2, <2>3, <2>4, LinesFacts
  <2>6. Detected(r, lines)
    BY <1>4, <2>1, <2>2
  <2> QED
    BY <1>1, <1>2, <2>5, <2>6, DetectedStep
<1> QED
  BY <1>1, <1>3, <1>4

-----------------------------------------------------------------------------
(* The steps of interface *)

LEMMA ClassifyTopicsStep ==
    ASSUME PipelineInv, NEW r \in Rounds, ClassifyTopics(r)
    PROVE  PipelineInv'
<1>1. /\ round[r].pc = "topics" /\ round[r].step = "next"
      /\ UNCHANGED <<tables, filled, subtopics, newest, settled, torn, oldest, cached,
                     restarts, faults,
                     given, unseen, refused>>
      /\ round' = [round EXCEPT ![r].pc = "subtopics", ![r].out = <<>>,
                                ![r].todo = MessageTables(round[r].out)]
  BY DEF ClassifyTopics, Detecting, history, database
<1>0. /\ ShapeInv /\ StageInv(r) /\ LinesInv(r) /\ round[r] \in RoundSet
      /\ round[r].odd \in BOOLEAN /\ faults' \in 0..MaxFaults
  BY <1>1, RoundTypes DEF PipelineInv, RoundInv, ShapeInv
<1>2. Grows
  BY <1>1 DEF Grows
<1>3. PICK x, o, d, ss, u, T, y :
         /\ x = round[r] /\ o = x.out /\ d = x.odd
         /\ ss = [i \in 1..(Len(o) \div 2) |-> o[2 * i]] /\ u = FlattenSeq(ss)
         /\ T = {t \in TableSet : Named(t) /\ (~d => t.kind = TopicKind)}
         /\ y = [x EXCEPT !.pc = "subtopics", !.out = <<>>, !.todo = u]
  OBVIOUS
<1>4. /\ o \in Seq(Seq(TableSet)) /\ d \in BOOLEAN
      /\ \A i \in 1..Len(o) : \A j \in 1..Len(o[i]) :
            Named(o[i][j]) /\ (~d /\ i % 2 = 0 => o[i][j].kind = TopicKind)
  BY <1>0, <1>1, <1>3 DEF LinesInv
<1>5. ss \in Seq(Seq(T))
  <2>1. ASSUME NEW i \in 1..(Len(o) \div 2)
        PROVE  o[2 * i] \in Seq(T)
    <3>1. PICK k : k = 2 * i
      OBVIOUS
    <3>2. k \in 1..Len(o) /\ k % 2 = 0
      BY <1>4, <3>1
    <3>3. o[k] \in Seq(TableSet)
      BY <1>4, <3>2
    <3>4. \A j \in 1..Len(o[k]) : o[k][j] \in T
      BY <1>3, <1>4, <3>2, <3>3
    <3>5. \A S, s : s \in Seq(S) /\ (\A j \in 1..Len(s) : s[j] \in T) => s \in Seq(T)
      OBVIOUS
    <3> QED
      BY <3>1, <3>3, <3>4, <3>5
  <2>2. Len(o) \div 2 \in Nat
    BY <1>4
  <2>3. \A n \in Nat : \A S : \A f : f \in [1..n -> S] => f \in Seq(S)
    OBVIOUS
  <2>4. ss \in [1..(Len(o) \div 2) -> Seq(T)]
    BY <1>3, <2>1
  <2> QED
    BY <2>2, <2>3, <2>4
<1>6. u \in Seq(T) /\ u \in Seq(TableSet)
  <2>1. u \in Seq(T)
    BY <1>3, <1>5, FlattenFacts
  <2>2. T \subseteq TableSet
    BY <1>3
  <2> QED
    BY <2>1, <2>2
<1>7. \A i \in 1..Len(u) : Named(u[i]) /\ (~d => u[i].kind = TopicKind)
  <2>1. \A i \in 1..Len(u) : u[i] \in T
    BY <1>6
  <2> QED
    BY <1>3, <2>1
<1>12. <<>> \in Seq(TableSet)
  BY ShortSequences
<1>8. /\ y \in RoundSet /\ y.pc = "subtopics" /\ y.step = "next" /\ y.todo = u /\ y.odd = d
      /\ round' = [round EXCEPT ![r] = y]
  <2>1. MessageTables(o) = u
    BY <1>3 DEF MessageTables
  <2>2. round' = [round EXCEPT ![r] = [x EXCEPT !.pc = "subtopics", !.out = <<>>, !.todo = u]]
    BY <1>0, <1>1, <1>3, <2>1 DEF ShapeInv
  <2>3. y \in RoundSet /\ y.pc = "subtopics" /\ y.step = "next" /\ y.todo = u /\ y.odd = d
    BY <1>0, <1>1, <1>3, <1>6, <1>12 DEF RoundSet
  <2> QED
    BY <1>3, <2>2, <2>3
<1>9. ASSUME round' \in [Rounds -> RoundSet]
      PROVE  ShapeInv' /\ TablesInv' /\ RoundInv(r)'
  <2>1. ShapeInv' /\ TablesInv'
    <3>1. given' \in [Hours -> Nat]
      BY <1>0, <1>1 DEF ShapeInv
    <3> QED
      BY <1>0, <1>1, <1>9, <3>1, DatabaseKept
  <2>2. round'[r] = y
    BY <1>0, <1>8, RoundUpdated
  <2>3. CleanInv(r)' /\ TopicsInv(r)' /\ LinesInv(r)'
    BY <1>8, <2>2 DEF CleanInv, TopicsInv, LinesInv
  <2>4. StageInv(r)'
    BY <1>7, <1>8, <2>2 DEF StageInv, Named
  <2>5. SubtopicsInv(r)'
    <3>1. \A i \in 1..Len(u) : Named(u[i])' /\ (~d => u[i].kind = TopicKind)
      BY <1>2, <1>7, NamesKept
    <3> QED
      BY <1>8, <2>2, <3>1 DEF SubtopicsInv
  <2> QED
    BY <2>1, <2>3, <2>4, <2>5 DEF RoundInv
<1> QED
  BY <1>1, <1>2, <1>8, <1>9, LaterStep DEF Passed

LEMMA ClusterTopicStep ==
    ASSUME PipelineInv, NEW r \in Rounds, ClusterTopic(r)
    PROVE  PipelineInv'
<1>1. /\ round[r].pc = "subtopics" /\ round[r].todo # <<>>
      /\ UNCHANGED <<tables, filled, newest, settled, torn, oldest, cached, restarts, given,
                     unseen, refused>>
      /\ round' = [round EXCEPT ![r].todo = Tail(@)]
  BY DEF ClusterTopic, history
<1>0. /\ ShapeInv /\ TablesInv /\ StageInv(r) /\ SubtopicsInv(r) /\ round[r] \in RoundSet
      /\ round[r].todo \in Seq(TableSet)
  BY <1>1, RoundTypes DEF PipelineInv, RoundInv
<1>2. Grows
  BY <1>1 DEF Grows
<1>3. PICK x, s, u, y : /\ x = round[r] /\ s = x.todo /\ u = Tail(s)
                        /\ y = [x EXCEPT !.todo = u]
  OBVIOUS
<1>4. /\ u \in Seq(TableSet) /\ Len(s) \in Nat /\ Len(s) >= 1 /\ Len(u) = Len(s) - 1
      /\ \A i \in 1..Len(u) : u[i] = s[i + 1]
      /\ Head(s) = s[1] /\ s[1] \in TableSet
  BY <1>0, <1>1, <1>3, TailFacts
<1>5. \A i \in 1..Len(s) : Named(s[i]) /\ (~x.odd => s[i].kind = TopicKind)
  BY <1>0, <1>1, <1>3 DEF SubtopicsInv
<1>6. ASSUME NEW i \in 1..Len(u)
      PROVE  Named(u[i]) /\ (~x.odd => u[i].kind = TopicKind)
  <2>1. i + 1 \in 1..Len(s) /\ u[i] = s[i + 1]
    BY <1>4
  <2> QED
    BY <1>5, <2>1
<1>7. faults' \in 0..MaxFaults /\ subtopics' \subseteq tables
  <2>1. Fault \/ UNCHANGED faults
    BY DEF ClusterTopic
  <2>2. Named(s[1])
    BY <1>4, <1>5
  <2>3. subtopics' = subtopics \/ (subtopics' = subtopics \cup {s[1]} /\ s[1].kind = TopicKind)
    BY <1>3, <1>4 DEF ClusterTopic, TopicKind
  <2> QED
    BY <1>0, <2>1, <2>2, <2>3, FaultsBounded DEF Named, ShapeInv
<1>8. /\ y \in RoundSet /\ y.pc = "subtopics" /\ y.step = "next" /\ y.todo = u /\ y.odd = x.odd
      /\ round' = [round EXCEPT ![r] = y]
  <2>1. x.step = "next"
    BY <1>0, <1>1, <1>3 DEF StageInv
  <2> QED
    BY <1>0, <1>1, <1>3, <1>4, <2>1 DEF RoundSet, ShapeInv
<1>9. ASSUME round' \in [Rounds -> RoundSet]
      PROVE  ShapeInv' /\ TablesInv' /\ RoundInv(r)'
  <2>1. ShapeInv'
    BY <1>0, <1>1, <1>7, <1>9 DEF ShapeInv
  <2>6. TablesInv'
    BY <1>0, <1>1 DEF TablesInv
  <2>2. round'[r] = y
    BY <1>0, <1>8, RoundUpdated
  <2>3. CleanInv(r)' /\ TopicsInv(r)' /\ LinesInv(r)'
    BY <1>8, <2>2 DEF CleanInv, TopicsInv, LinesInv
  <2>4. StageInv(r)'
    BY <1>6, <1>8, <2>2 DEF StageInv, Named
  <2>5. SubtopicsInv(r)'
    <3>1. \A i \in 1..Len(u) : Named(u[i])' /\ (~x.odd => u[i].kind = TopicKind)
      BY <1>2, <1>6, NamesKept
    <3> QED
      BY <1>8, <2>2, <3>1 DEF SubtopicsInv
  <2> QED
    BY <2>1, <2>3, <2>4, <2>5, <2>6 DEF RoundInv
<1> QED
  BY <1>1, <1>2, <1>8, <1>9, LaterStep DEF Passed

LEMMA EndRoundStep ==
    ASSUME PipelineInv, NEW r \in Rounds, EndRound(r)
    PROVE  PipelineInv'
<1>1. /\ round[r].pc = "subtopics"
      /\ UNCHANGED <<tables, filled, subtopics, newest, settled, torn, oldest, cached,
                     restarts, faults,
                     given, unseen, refused>>
      /\ round' = [round EXCEPT ![r] = Ended("done")]
  BY DEF EndRound, history, database
<1>0. ShapeInv /\ faults' \in 0..MaxFaults /\ given' \in [Hours -> Nat]
  BY <1>1 DEF PipelineInv, ShapeInv
<1>2. Grows
  BY <1>1 DEF Grows
<1>3. PICK y : y = Ended("done")
  OBVIOUS
<1>4. y \in RoundSet /\ y.pc = "done" /\ y.step = "next" /\ y.todo = <<>>
  <2>1. <<>> \in Seq(TableSet)
    BY ShortSequences
  <2> QED
    BY <1>3, <2>1 DEF RoundSet, Ended, Idle
<1>5. ASSUME round' \in [Rounds -> RoundSet]
      PROVE  ShapeInv' /\ TablesInv' /\ RoundInv(r)'
  <2>1. ShapeInv' /\ TablesInv'
    BY <1>0, <1>1, <1>5, DatabaseKept
  <2>2. round'[r] = y
    BY <1>0, <1>1, <1>3, <1>4, RoundUpdated
  <2>3. CleanInv(r)' /\ TopicsInv(r)' /\ LinesInv(r)' /\ SubtopicsInv(r)'
    BY <1>4, <2>2 DEF CleanInv, TopicsInv, LinesInv, SubtopicsInv
  <2>4. \A i \in 1..Len(y.todo) : FALSE
    BY <1>4
  <2>5. StageInv(r)'
    BY <1>4, <2>2, <2>4 DEF StageInv
  <2> QED
    BY <2>1, <2>3, <2>5 DEF RoundInv
<1> QED
  BY <1>1, <1>2, <1>3, <1>4, <1>5, LaterStep DEF Passed

-----------------------------------------------------------------------------
(* The start of a round *)

LEMMA RoundKept ==
    ASSUME PipelineInv, NEW s \in Rounds, round'[s] = round[s], tables \subseteq tables',
           filled \subseteq filled', refused \subseteq refused',
           newest' \in Nat, newest <= newest'
    PROVE  RoundInv(s)'
<1>1. RoundInv(s) /\ newest \in Nat /\ round[s].todo \in Seq(TableSet)
  BY BoundsFacts, RoundTypes DEF PipelineInv, ShapeInv
<1>2. /\ \A t : Named(t) => Named(t)'
      /\ \A h : Served(h) => Served(h)'
      /\ Hour(s)' = Hour(s)
  BY DEF Named, Served, Hour
<1>3. StageInv(s)' /\ SubtopicsInv(s)'
  BY <1>1, <1>2 DEF RoundInv, StageInv, SubtopicsInv
<1>4. CleanInv(s)'
  BY <1>1, <1>2 DEF RoundInv, CleanInv
<1>5. TopicsInv(s)'
  <2>1. TopicsInv(s)
    BY <1>1 DEF RoundInv
  <2>2. round[s].pc = "topics" /\ round[s].step = "insert" => Hour(s)' <= newest'
    <3>1. round[s].pc = "topics" /\ round[s].step = "insert" =>
             Hour(s) \in Hours /\ Hour(s) <= newest
      BY <2>1, DetectionFacts DEF TopicsInv
    <3>2. \A h \in Hours : h \in Nat
      BY BoundsFacts DEF Hours
    <3> QED
      BY <1>1, <1>2, <3>1, <3>2
  <2> QED
    BY <1>2, <2>1, <2>2 DEF TopicsInv
<1>6. LinesInv(s)'
  BY <1>1, <1>2 DEF RoundInv, LinesInv
<1> QED
  BY <1>3, <1>4, <1>5, <1>6 DEF RoundInv

LEMMA GivenSame ==
    ASSUME PipelineInv, UNCHANGED <<given, unseen>>, tables \subseteq tables',
           \A s \in Rounds : \A h \in Hours : Holds(s, h)' => Holds(s, h)
    PROVE  \A h \in Hours : GivenInv(h)'
<1> SUFFICES ASSUME NEW h \in Hours PROVE GivenInv(h)'
  OBVIOUS
<1>1. GivenInv(h)
  BY DEF PipelineInv
<1>2. InHand(h)' => InHand(h)
  BY InHandHolds
<1> QED
  BY <1>1, <1>2 DEF GivenInv

\* A longer list does not change what a round knows of its own prefix.
LEMMA PrefixKept ==
    ASSUME PipelineInv, NEW s \in Rounds, round'[s] = round[s], NEW n \in 0..Len(cached),
           \A i \in 1..Len(cached) : cached'[i] = cached[i], ListOf(s, n)
    PROVE  ListOf(s, n)'
<1>1. /\ Len(cached) \in Nat /\ n \in Nat
      /\ round[s].pc = "clean" /\ round[s].step # "next" => Len(round[s].todo) >= 3
  BY RoundTypes DEF PipelineInv, RoundInv, CleanInv
<1>2. ASSUME NEW j \in Nat, 3 * j + 3 <= n
      PROVE  IsTriple(j)' <=> IsTriple(j)
  <2>1. \A m \in 0..2 : 3 * j + m + 1 \in 1..Len(cached)
    BY <1>1, <1>2
  <2>2. \A m \in 0..2 : cached'[3 * j + m + 1] = cached[3 * j + m + 1]
    BY <2>1
  <2> QED
    BY <2>2 DEF IsTriple
<1>3. ASSUME NEW k \in Nat, k <= n, TriplesUpTo(k)
      PROVE  TriplesUpTo(k)'
  <2> SUFFICES ASSUME NEW j \in Nat, 3 * j + 3 <= k PROVE IsTriple(j)'
    BY DEF TriplesUpTo
  <2>1. 3 * j + 3 <= n
    BY <1>1, <1>3
  <2> QED
    BY <1>2, <1>3, <2>1 DEF TriplesUpTo
<1>4. CASE round[s].pc = "clean"
  <2>1. PICK j \in Nat :
           /\ 3 * j <= n /\ TriplesUpTo(3 * j)
           /\ Len(round[s].todo) = n - 3 * j
           /\ \A i \in 1..Len(round[s].todo) : round[s].todo[i] = cached[3 * j + i]
           /\ round[s].step # "next" => IsTriple(j)
    BY <1>4 DEF ListOf
  <2>2. TriplesUpTo(3 * j)'
    <3>1. PICK k \in Nat : k = 3 * j
      OBVIOUS
    <3> QED
      BY <1>3, <2>1, <3>1
  <2>3. ASSUME NEW i \in 1..Len(round[s].todo)
        PROVE  round[s].todo[i] = cached'[3 * j + i]
    <3>1. 3 * j + i \in 1..Len(cached)
      BY <1>1, <2>1
    <3> QED
      BY <2>1, <3>1
  <2>4. round[s].step # "next" => IsTriple(j)'
    <3>1. round[s].step # "next" => 3 * j + 3 <= n
      BY <1>1, <1>4, <2>1
    <3> QED
      BY <1>2, <2>1, <3>1
  <2> QED
    BY <1>4, <2>1, <2>2, <2>3, <2>4 DEF ListOf, Passed
<1>5. CASE round[s].pc = "aborted"
  <2>1. PICK j \in Nat : 3 * j + 3 <= n /\ ~IsTriple(j)
    BY <1>5 DEF ListOf
  <2> QED
    BY <1>2, <1>5, <2>1 DEF ListOf, Passed
<1>6. CASE round[s].pc \in Passed
  <2>1. TriplesUpTo(n)'
    BY <1>1, <1>3, <1>6 DEF ListOf
  <2> QED
    BY <1>6, <2>1 DEF ListOf, Passed
<1>7. CASE round[s].pc \notin {"clean", "aborted"} \cup Passed
  BY <1>7 DEF ListOf
<1> QED
  BY <1>4, <1>5, <1>6, <1>7

\* What a detection adds to a list of whole hours, if it leaves the list one.
LEMMA AddedWhole ==
    ASSUME ShapeInv, HoursInv, ~OwnListed, torn = {}, NEW N \in SUBSET NewTables,
           \A t \in N : t \in Crawled(t.hour),
           \A h \in Hours : Crawled(h) \subseteq Listed \cup N \/ Crawled(h) \cap (Listed \cup N) = {}
    PROVE  \E H \in SUBSET Hours : N = CrawledOf(H)
<1> DEFINE H == {h \in Hours : Crawled(h) \subseteq N}
<1>1. ASSUME NEW t \in N
      PROVE  t \in CrawledOf(H)
  <2>1. t \in tables /\ t \notin ToSet(cached) /\ t \in Crawled(t.hour)
    BY <1>1 DEF NewTables
  <2>2. t.hour \in Hours /\ t \notin Listed
    BY <2>1 DEF ShapeInv, TableSet, ToSet, Listed
  <2>3. Crawled(t.hour) \cap Listed = {}
    BY <2>1, <2>2 DEF HoursInv
  <2>4. Crawled(t.hour) \subseteq N
    BY <1>1, <2>1, <2>2, <2>3
  <2> QED
    BY <2>1, <2>2, <2>4 DEF CrawledOf
<1>2. N = CrawledOf(H)
  <2>1. \A t \in CrawledOf(H) : t \in N
    BY DEF CrawledOf
  <2> HIDE DEF H
  <2> QED
    BY <1>1, <2>1
<1> QED
  BY <1>2

\* A detection adds some of the new tables to the list; then the round walks along
\* it, or ends where the detection fails.
LEMMA ListExtended ==
    ASSUME PipelineInv, NEW r \in Rounds, round[r].pc = "idle", MayStart(r),
           NEW N \in SUBSET NewTables, Cached(N), NEW y \in RoundSet,
           round' = [round EXCEPT ![r] = y], y.step = "next", y.out = <<>>, y.names = <<>>,
           ~y.odd, (y.pc = "clean" /\ y.todo = cached') \/ (y.pc = "failed" /\ y.todo = <<>>),
           oldest' \in 1..(MaxHour + 1), faults' \in 0..MaxFaults,
           UNCHANGED <<tables, filled, subtopics, newest, settled, restarts, given, unseen, refused>>
    PROVE  PipelineInv'
<1>1. cached' = cached \o Sorted(N) /\ torn' = torn \cup InPart(cached')
  BY DEF Cached
<1>0. /\ ShapeInv /\ TablesInv /\ HoursInv /\ round[r] = Idle /\ cached \in Seq(TableSet)
      /\ \A i \in 1..Len(cached) : cached[i] \in tables
  BY <1>1 DEF PipelineInv, RoundInv, StageInv, ShapeInv
<1>2. PICK c, new, d : /\ c = cached /\ new = Sorted(N) /\ d = c \o new
  OBVIOUS
<1>3. N \in SUBSET TableSet /\ IsFiniteSet(N) /\ N \subseteq tables
  <2>1. N \subseteq tables
    BY DEF NewTables
  <2>2. IsFiniteSet(N)
    BY <1>0, <2>1, FS_Subset DEF ShapeInv
  <2> QED
    BY <1>0, <2>1, <2>2 DEF ShapeInv
<1>4. /\ Cardinality(N) \in Nat /\ new \in Seq(N) /\ Len(new) = Cardinality(N)
      /\ \A i \in 1..Len(new) : new[i] \in N
      /\ \A t \in N : \E i \in 1..Len(new) : new[i] = t
  BY <1>2, <1>3, SortedFacts
<1>5. /\ d \in Seq(TableSet) /\ Len(c) \in Nat /\ Len(new) \in Nat
      /\ Len(d) = Len(c) + Len(new)
      /\ \A i \in 1..Len(c) : d[i] = c[i]
      /\ \A i \in 1..Len(new) : d[Len(c) + i] = new[i]
  <2>1. c \in Seq(TableSet) /\ new \in Seq(TableSet)
    BY <1>0, <1>2, <1>3, <1>4
  <2> QED
    BY <1>2, <2>1, ConcatFacts
<1>6. ASSUME NEW i \in 1..Len(d)
      PROVE  i \in 1..Len(c) \/ \E k \in 1..Len(new) : i = Len(c) + k
  <2>1. CASE i <= Len(c)
    BY <1>5, <2>1
  <2>2. CASE i > Len(c)
    <3>1. i - Len(c) \in 1..Len(new) /\ i = Len(c) + (i - Len(c))
      BY <1>5, <2>2
    <3> QED
      BY <3>1
  <2> QED
    BY <1>5, <2>1, <2>2
<1>16. ASSUME NEW i \in 1..Len(d)
       PROVE  (\E k \in 1..Len(c) : d[i] = c[k]) \/ d[i] \in N
  <2>1. CASE i \in 1..Len(c)
    BY <1>5, <2>1
  <2>2. CASE \E k \in 1..Len(new) : i = Len(c) + k
    <3>1. PICK k \in 1..Len(new) : i = Len(c) + k
      BY <2>2
    <3>2. d[i] = new[k]
      BY <1>5, <3>1
    <3> QED
      BY <1>4, <3>2
  <2> QED
    BY <1>6, <2>1, <2>2
<1>7. cached' = d /\ \A i \in 1..Len(d) : d[i] \in tables
  <2>1. cached' = d
    BY <1>1, <1>2
  <2>2. ASSUME NEW i \in 1..Len(d) PROVE d[i] \in tables
    BY <1>0, <1>2, <1>3, <1>16
  <2> QED
    BY <2>1, <2>2
<1>10. /\ round' \in [Rounds -> RoundSet] /\ round'[r] = y
       /\ \A s \in Rounds \ {r} : round'[s] = round[s]
  BY <1>0, RoundUpdated
<1>11. ShapeInv' /\ TablesInv'
  <2>1. ShapeInv'
    <3>1. torn' \subseteq Hours
      BY <1>0, <1>1 DEF ShapeInv, InPart
    <3> QED
      BY <1>0, <1>5, <1>7, <1>10, <3>1 DEF ShapeInv
  <2>2. TablesInv'
    BY <1>0 DEF TablesInv
  <2> QED
    BY <2>1, <2>2
<1>12. \A s \in Rounds : RoundInv(s)'
  <2>1. ASSUME NEW s \in Rounds \ {r} PROVE RoundInv(s)'
    <3>1. newest \in Nat
      BY <1>0, BoundsFacts DEF ShapeInv
    <3> QED
      BY <1>10, <3>1, RoundKept
  <2>2. RoundInv(r)'
    <3>1. TopicsInv(r)' /\ LinesInv(r)' /\ SubtopicsInv(r)'
      BY <1>10 DEF TopicsInv, LinesInv, SubtopicsInv
    <3>3. <<>> \in Seq(TableSet) /\ \A i \in 1..Len(<<>>) : FALSE
      BY ShortSequences
    <3>5. \A i \in 1..Len(y.todo) : y.todo[i] \in AllTables
      BY <1>0, <1>7, <3>3 DEF TablesInv
    <3>2. StageInv(r)'
      BY <1>10, <3>5 DEF StageInv
    <3>4. CleanInv(r)'
      BY <1>10, <3>3 DEF CleanInv
    <3> QED
      BY <3>1, <3>2, <3>4 DEF RoundInv
  <2> QED
    BY <2>1, <2>2
<1>13. ListsInv'
  <2>1. PICK len \in [Rounds -> 0..Len(cached)] :
           /\ \A s \in Rounds : ListOf(s, len[s])
           /\ \A q, s \in Rounds :
                 q < s /\ round[s].pc # "idle" => round[q].pc # "idle" /\ len[q] <= len[s]
    BY DEF PipelineInv, ListsInv
  <2>2. PICK n : n = Len(d)
    OBVIOUS
  <2>3. n \in Nat /\ Len(c) <= n /\ \A s \in Rounds : len[s] \in 0..Len(c)
    BY <1>2, <1>5, <2>1, <2>2
  <2>4. PICK new_len : new_len = [len EXCEPT ![r] = n]
    OBVIOUS
  <2>5. new_len[r] = n /\ \A s \in Rounds \ {r} : new_len[s] = len[s]
    BY <2>1, <2>4
  <2>6. new_len \in [Rounds -> 0..Len(cached')]
    <3>1. 0..Len(cached) \subseteq 0..n /\ n \in 0..n
      BY <1>2, <1>5, <2>3
    <3>2. Len(cached') = n
      BY <1>7, <2>2
    <3> QED
      BY <2>1, <2>4, <3>1, <3>2
  <2>7. ASSUME NEW s \in Rounds PROVE ListOf(s, new_len[s])'
    <3>1. CASE s # r
      <4>1. PICK k \in 0..Len(cached) : k = len[s]
        BY <2>1
      <4>2. \A i \in 1..Len(cached) : cached'[i] = cached[i]
        BY <1>2, <1>5, <1>7
      <4>3. ListOf(s, k) /\ round'[s] = round[s]
        BY <1>10, <2>1, <3>1, <4>1
      <4>4. ListOf(s, k)'
        BY <4>2, <4>3, PrefixKept
      <4> QED
        BY <2>5, <3>1, <4>1, <4>4
    <3>2. CASE y.pc = "clean"
      <4>1. TriplesUpTo(3 * 0)' /\ 0 \in Nat /\ 3 * 0 <= n /\ Len(y.todo) = n - 3 * 0
        BY <1>7, <2>2, <2>3, <3>2 DEF TriplesUpTo
      <4>2. \A i \in 1..Len(y.todo) : y.todo[i] = cached'[3 * 0 + i]
        BY <1>5, <1>7, <3>2
      <4>3. ListOf(r, n)'
        BY <1>10, <3>2, <4>1, <4>2 DEF ListOf, Passed
      <4> QED
        BY <2>5, <3>1, <4>3
    <3>3. CASE y.pc = "failed"
      <4>1. ListOf(r, n)'
        BY <1>10, <3>3 DEF ListOf, Passed
      <4> QED
        BY <2>5, <3>1, <4>1
    <3> QED
      BY <3>2, <3>3
  <2>8. ASSUME NEW q \in Rounds, NEW s \in Rounds, q < s, round'[s].pc # "idle"
        PROVE  round'[q].pc # "idle" /\ new_len[q] <= new_len[s]
    <3>1. CASE s # r /\ q # r
      BY <1>10, <2>1, <2>5, <2>8, <3>1
    <3>2. CASE s = r
      <4>1. q # r /\ q \in Nat /\ r \in Nat /\ 0 <= q
        BY <2>8, <3>2, BoundsFacts DEF Rounds
      <4>2. round[q].pc # "idle"
        <5>1. CASE r = 1
          <6>1. q = 0
            BY <2>8, <3>2, <4>1, <5>1
          <6> QED
            BY <1>1, <5>1, <6>1 DEF MayStart
        <5>2. CASE r > 1
          <6>1. round[r - 1].pc # "idle" /\ r - 1 \in Rounds
            BY <1>1, <4>1, <5>2, BoundsFacts, SMTT(30) DEF MayStart, Rounds
          <6>2. q = r - 1 \/ q < r - 1
            BY <2>8, <3>2, <4>1
          <6> QED
            BY <2>1, <6>1, <6>2
        <5> QED
          BY <2>8, <3>2, <4>1, <5>1, <5>2
      <4>3. len[q] <= n
        BY <1>5, <2>3
      <4> QED
        BY <1>10, <2>5, <3>2, <4>1, <4>2, <4>3
    <3>3. CASE s # r /\ q = r
      BY <1>1, <1>10, <2>1, <2>8, <3>3
    <3> QED
      BY <3>1, <3>2, <3>3
  <2> QED
    BY <2>6, <2>7, <2>8 DEF ListsInv
<1>14. HoursInv'
  <2> SUFFICES ASSUME ~OwnListed', torn' = {} PROVE
         /\ Len(d) % 3 = 0
         /\ \A i \in 1..Len(d) : d[i].kind = CrawledKind((i - 1) % 3)
         /\ \A h \in Hours : Crawled(h) \subseteq Listed' \/ Crawled(h) \cap Listed' = {}
    BY <1>7 DEF HoursInv
  <2>1. \A i \in 1..Len(d) : d[i] \in Crawled(d[i].hour)
    BY <1>7 DEF OwnListed
  <2>2. ~OwnListed /\ torn = {}
    <3>1. ASSUME NEW i \in 1..Len(c) PROVE c[i] \in Crawled(c[i].hour)
      <4>1. i \in 1..Len(d)
        BY <1>5
      <4> QED
        BY <1>5, <2>1, <4>1
    <3> QED
      BY <1>1, <1>2, <3>1 DEF OwnListed
  <2>3. \A t \in N : t \in Crawled(t.hour)
    <3>1. ASSUME NEW k \in 1..Len(new) PROVE new[k] \in Crawled(new[k].hour)
      <4>1. Len(c) + k \in 1..Len(d)
        BY <1>5
      <4> QED
        BY <1>5, <2>1, <4>1
    <3> QED
      BY <1>4, <3>1
  <2>9. Listed' = Listed \cup N
    <3>1. Listed' = {d[i] : i \in 1..Len(d)}
      BY <1>7 DEF Listed
    <3>2. \A t \in Listed \cup N : \E i \in 1..Len(d) : d[i] = t
      <4>1. ASSUME NEW i \in 1..Len(c) PROVE \E k \in 1..Len(d) : d[k] = c[i]
        BY <1>5
      <4>2. ASSUME NEW i \in 1..Len(new) PROVE \E k \in 1..Len(d) : d[k] = new[i]
        <5>1. Len(c) + i \in 1..Len(d)
          BY <1>5
        <5> QED
          BY <1>5, <5>1
      <4>3. ASSUME NEW t \in Listed PROVE \E i \in 1..Len(d) : d[i] = t
        <5>1. PICK i \in 1..Len(c) : c[i] = t
          BY <1>2, <4>3 DEF Listed
        <5> QED
          BY <4>1, <5>1
      <4>4. ASSUME NEW t \in N PROVE \E i \in 1..Len(d) : d[i] = t
        <5>1. PICK i \in 1..Len(new) : new[i] = t
          BY <1>4, <4>4
        <5> QED
          BY <4>2, <5>1
      <4> QED
        BY <4>3, <4>4
    <3>3. \A i \in 1..Len(d) : d[i] \in Listed \cup N
      BY <1>2, <1>16, SMTT(30) DEF Listed
    <3> QED
      BY <3>1, <3>2, <3>3
  <2>10. \A h \in Hours : Crawled(h) \subseteq Listed \cup N \/ Crawled(h) \cap (Listed \cup N) = {}
    <3>1. ToSet(d) = Listed \cup N
      <4>1. Listed' = {d[i] : i \in 1..Len(d)}
        BY <1>7 DEF Listed
      <4>2. ToSet(d) = {d[i] : i \in 1..Len(d)}
        <5>1. DOMAIN d = 1..Len(d)
          BY <1>5
        <5> QED
          BY <5>1, Zenon DEF ToSet
      <4> QED
        BY <2>9, <4>1, <4>2
    <3>2. InPart(d) = {}
      BY <1>1, <1>7
    <3>3. \A h \in Hours : Crawled(h) \cap ToSet(d) \in {{}, Crawled(h)}
      BY <3>2 DEF InPart
    <3> QED
      BY <3>1, <3>3
  <2>4. PICK H \in SUBSET Hours : N = CrawledOf(H)
    BY <1>0, <2>2, <2>3, <2>10, AddedWhole
  <2>5. /\ Cardinality(N) = 3 * Cardinality(H) /\ Cardinality(H) \in Nat
        /\ \A i \in 1..Len(new) : new[i].kind = CrawledKind((i - 1) % 3)
    <3>1. PICK S : S = CrawledOf(H)
      OBVIOUS
    <3>2. /\ Cardinality(S) = 3 * Cardinality(H)
          /\ \A i \in 1..Cardinality(S) : Sorted(S)[i].kind = CrawledKind((i - 1) % 3)
      BY <3>1, CrawledSorted
    <3>3. Cardinality(H) \in Nat
      BY HoursFinite
    <3>4. S = N /\ Sorted(S) = new
      BY <1>2, <2>4, <3>1
    <3> QED
      BY <1>4, <3>2, <3>3, <3>4
  <2>6. /\ Len(c) % 3 = 0
        /\ \A i \in 1..Len(c) : c[i].kind = CrawledKind((i - 1) % 3)
        /\ \A h \in Hours : Crawled(h) \subseteq Listed \/ Crawled(h) \cap Listed = {}
    <3>1. HoursInv /\ ~OwnListed /\ torn = {}
      BY <1>0, <2>2
    <3>2. /\ Len(cached) % 3 = 0
          /\ \A i \in 1..Len(cached) : cached[i].kind = CrawledKind((i - 1) % 3)
          /\ \A h \in Hours : Crawled(h) \subseteq Listed \/ Crawled(h) \cap Listed = {}
      BY <3>1, Zenon DEF HoursInv
    <3> QED
      BY <1>2, <3>2, Zenon
  <2>7. Len(d) % 3 = 0
    <3>1. \A a, b \in Nat : a % 3 = 0 => (a + 3 * b) % 3 = 0
      OBVIOUS
    <3>2. PICK a, b \in Nat : a = Len(c) /\ b = Cardinality(H)
      BY <1>5, <2>5
    <3>3. Len(d) = a + 3 * b /\ a % 3 = 0
      BY <1>4, <1>5, <2>5, <2>6, <3>2
    <3> QED
      BY <3>1, <3>3
  <2>8. ASSUME NEW i \in 1..Len(d)
        PROVE  d[i].kind = CrawledKind((i - 1) % 3)
    <3>1. CASE i \in 1..Len(c)
      BY <1>5, <2>6, <3>1
    <3>2. CASE \E k \in 1..Len(new) : i = Len(c) + k
      <4>1. PICK k \in 1..Len(new) : i = Len(c) + k
        BY <3>2
      <4>2. \A a \in Nat : \A b \in Int : b >= 1 /\ a % 3 = 0 => (a + b - 1) % 3 = (b - 1) % 3
        OBVIOUS
      <4>4. PICK a, b \in Int : a = Len(c) /\ b = k
        <5>1. Len(c) \in Int /\ k \in Int
          BY <1>5
        <5> QED
          BY <5>1, Zenon
      <4>5. a \in Nat /\ b >= 1 /\ a % 3 = 0 /\ i - 1 = a + b - 1
        BY <1>5, <2>6, <4>1, <4>4
      <4>6. (a + b - 1) % 3 = (b - 1) % 3
        BY <4>2, <4>5
      <4>3. (i - 1) % 3 = (k - 1) % 3
        BY <4>4, <4>5, <4>6
      <4> QED
        BY <1>5, <2>5, <4>1, <4>3
    <3> QED
      BY <1>6, <3>1, <3>2
  <2> QED
    BY <2>7, <2>8, <2>9, <2>10
<1>15. \A h \in Hours : GivenInv(h)'
  <2>1. ASSUME NEW s \in Rounds, NEW h \in Hours, Holds(s, h)' PROVE Holds(s, h)
    <3>1. s # r
      BY <1>10, <2>1 DEF Holds
    <3>2. round'[s] = round[s]
      BY <1>10, <3>1
    <3> QED
      BY <2>1, <3>2 DEF Holds, Hour
  <2> QED
    BY <2>1, GivenSame
<1> QED
  BY <1>11, <1>12, <1>13, <1>14, <1>15 DEF PipelineInv

LEMMA FirstBounded ==
    ASSUME PipelineInv, NEW X, NEW first \in {oldest, oldest + 1}, LeftOut(X, first)
    PROVE  first \in 1..(MaxHour + 1)
BY BoundsFacts DEF PipelineInv, ShapeInv, LeftOut

LEMMA StartStep ==
    ASSUME PipelineInv, NEW r \in Rounds, Start(r)
    PROVE  PipelineInv'
<1>1. /\ round[r].pc = "idle" /\ MayStart(r)
      /\ round' = [round EXCEPT ![r].pc = "clean", ![r].todo = cached']
      /\ UNCHANGED <<tables, filled, subtopics, newest, settled, restarts, faults, given, unseen,
                     refused>>
  BY DEF Start, database
<1>0. /\ ShapeInv /\ round[r] = Idle /\ round \in [Rounds -> RoundSet]
      /\ faults \in 0..MaxFaults
  BY <1>1 DEF PipelineInv, RoundInv, StageInv, ShapeInv
<1>2. PICK X \in SUBSET NewTables, first \in {oldest, oldest + 1} :
         LeftOut(X, first) /\ oldest' = first /\ Cached(NewTables \ X)
  BY DEF Start
<1>3. PICK N \in SUBSET NewTables : N = NewTables \ X
  OBVIOUS
<1>4. oldest' \in 1..(MaxHour + 1)
  BY <1>2, FirstBounded
<1>5. cached' \in Seq(TableSet)
  <2>1. N \in SUBSET TableSet /\ IsFiniteSet(N)
    <3>1. N \subseteq tables
      BY DEF NewTables
    <3> QED
      BY <1>0, <3>1, FS_Subset DEF ShapeInv
  <2>2. Sorted(N) \in Seq(N)
    BY <2>1, SortedFacts
  <2>3. PICK c, new : c = cached /\ new = Sorted(N)
    OBVIOUS
  <2>4. c \in Seq(TableSet) /\ new \in Seq(TableSet)
    BY <1>0, <2>1, <2>2, <2>3 DEF ShapeInv
  <2>5. cached' = c \o new
    BY <1>2, <1>3, <2>3 DEF Cached
  <2> QED
    BY <2>4, <2>5, ConcatFacts
<1>6. PICK d : d = cached'
  OBVIOUS
<1>7. PICK y : y = [Idle EXCEPT !.pc = "clean", !.todo = d]
  OBVIOUS
<1>8. /\ y \in RoundSet /\ y.pc = "clean" /\ y.step = "next" /\ y.todo = d
      /\ y.out = <<>> /\ y.names = <<>> /\ ~y.odd
      /\ round' = [round EXCEPT ![r] = y]
  <2>1. <<>> \in Seq(TableSet)
    BY ShortSequences
  <2>2. /\ y \in RoundSet /\ y.pc = "clean" /\ y.step = "next" /\ y.todo = d
        /\ y.out = <<>> /\ y.names = <<>> /\ ~y.odd
    BY <1>5, <1>6, <1>7, <2>1 DEF RoundSet, Idle
  <2> QED
    BY <1>0, <1>1, <1>6, <1>7, <2>2
<1> QED
  BY <1>0, <1>1, <1>2, <1>3, <1>4, <1>6, <1>8, ListExtended

LEMMA DetectionFailsStep ==
    ASSUME PipelineInv, NEW r \in Rounds, DetectionFails(r)
    PROVE  PipelineInv'
<1>1. /\ round[r].pc = "idle" /\ MayStart(r)
      /\ round' = [round EXCEPT ![r] = Ended("failed")]
      /\ UNCHANGED <<tables, filled, subtopics, newest, settled, restarts, given, unseen, refused>>
  BY DEF DetectionFails, database
<1>2. PICK X \in SUBSET NewTables, first \in {oldest, oldest + 1} :
         /\ LeftOut(X, first) /\ oldest' = first
         /\ \/ Cached({})
            \/ \E at \in NewTables : Cached({t \in NewTables \ X : Before(t, at)})
  BY DEF DetectionFails
<1>3. PICK N \in SUBSET NewTables : Cached(N)
  <2>1. CASE Cached({})
    BY <2>1
  <2>2. CASE \E at \in NewTables : Cached({t \in NewTables \ X : Before(t, at)})
    <3>1. PICK at \in NewTables : Cached({t \in NewTables \ X : Before(t, at)})
      BY <2>2
    <3>2. PICK N : N = {t \in NewTables \ X : Before(t, at)}
      OBVIOUS
    <3>3. N \in SUBSET NewTables /\ Cached(N)
      BY <3>1, <3>2
    <3> QED
      BY <3>3
  <2> QED
    BY <1>2, <2>1, <2>2
<1>4. oldest' \in 1..(MaxHour + 1) /\ faults' \in 0..MaxFaults
  BY <1>2, FirstBounded, FaultsBounded DEF DetectionFails
<1>5. PICK y : y = Ended("failed")
  OBVIOUS
<1>6. /\ y \in RoundSet /\ y.pc = "failed" /\ y.step = "next" /\ y.todo = <<>>
      /\ y.out = <<>> /\ y.names = <<>> /\ ~y.odd
  <2>1. <<>> \in Seq(TableSet)
    BY ShortSequences
  <2> QED
    BY <1>5, <2>1 DEF RoundSet, Ended, Idle
<1> QED
  BY <1>1, <1>3, <1>4, <1>5, <1>6, ListExtended

-----------------------------------------------------------------------------
(* The other steps *)

LEMMA RestartStep ==
    ASSUME PipelineInv, Restart
    PROVE  PipelineInv'
<1>1. /\ restarts < MaxRestarts /\ restarts' = restarts + 1
      /\ cached' = <<>> /\ round' = [r \in Rounds |-> Idle]
      /\ UNCHANGED <<tables, filled, subtopics, newest, settled, oldest, faults, given, unseen,
                     refused>>
      /\ torn' = {}
  BY DEF Restart, database
<1>0. ShapeInv /\ TablesInv
  BY DEF PipelineInv
<1>2. PICK x : x = Idle
  OBVIOUS
<1>3. /\ x \in RoundSet /\ x = Idle /\ x.pc = "idle" /\ x.step = "next" /\ x.todo = <<>>
  <2>1. <<>> \in Seq(TableSet)
    BY ShortSequences
  <2> QED
    BY <1>2, <2>1 DEF RoundSet, Idle
<1>4. \A r \in Rounds : round'[r] = x
  BY <1>1, <1>2
<1>5. cached' \in Seq(TableSet) /\ Len(cached') = 0 /\ \A i \in 1..Len(cached') : FALSE
  <2>1. <<>> \in Seq(TableSet)
    BY ShortSequences
  <2> QED
    BY <1>1, <2>1
<1>6. ShapeInv' /\ TablesInv'
  <2>1. restarts' \in 0..MaxRestarts /\ round' \in [Rounds -> RoundSet]
    BY <1>0, <1>1, <1>2, <1>3, BoundsFacts DEF ShapeInv
  <2>2. ShapeInv'
    BY <1>0, <1>1, <1>5, <2>1 DEF ShapeInv
  <2>3. TablesInv'
    BY <1>0, <1>1 DEF TablesInv
  <2> QED
    BY <2>2, <2>3
<1>7. ASSUME NEW r \in Rounds PROVE RoundInv(r)'
  <2>1. round'[r] = x
    BY <1>4
  <2>2. CleanInv(r)' /\ TopicsInv(r)' /\ LinesInv(r)' /\ SubtopicsInv(r)'
    BY <1>3, <2>1 DEF CleanInv, TopicsInv, LinesInv, SubtopicsInv
  <2>3. \A i \in 1..Len(x.todo) : FALSE
    BY <1>3
  <2>4. StageInv(r)'
    BY <1>3, <2>1, <2>3 DEF StageInv
  <2> QED
    BY <2>2, <2>4 DEF RoundInv
<1>8. ListsInv'
  <2>1. PICK len : len = [r \in Rounds |-> 0]
    OBVIOUS
  <2>2. len \in [Rounds -> 0..Len(cached')]
    BY <1>5, <2>1
  <2>3. \A r \in Rounds : ListOf(r, len[r])'
    BY <1>3, <1>4 DEF ListOf, Passed
  <2>4. \A r \in Rounds : round'[r].pc = "idle"
    BY <1>3, <1>4
  <2> QED
    BY <2>2, <2>3, <2>4 DEF ListsInv
<1>9. HoursInv'
  <2>1. Listed' = {}
    BY <1>5 DEF Listed
  <2>2. Len(cached') % 3 = 0
    BY <1>5
  <2> QED
    BY <1>5, <2>1, <2>2 DEF HoursInv
<1>10. \A h \in Hours : GivenInv(h)'
  <2>1. \A r \in Rounds : \A h \in Hours : ~Holds(r, h)'
    BY <1>3, <1>4 DEF Holds
  <2> QED
    BY <1>1, <2>1, GivenSame
<1> QED
  BY <1>6, <1>7, <1>8, <1>9, <1>10 DEF PipelineInv

\* No round goes on.
LEMMA RoundsStand ==
    ASSUME PipelineInv, UNCHANGED <<round, cached, torn, given, unseen>>,
           tables \subseteq tables', filled \subseteq filled', refused \subseteq refused',
           newest' \in Nat, newest <= newest', ShapeInv', TablesInv'
    PROVE  PipelineInv'
<1>1. \A r \in Rounds : RoundInv(r)'
  BY RoundKept
<1>2. ListsInv'
  <2>1. \A r \in Rounds : \A n : ListOf(r, n)' <=> ListOf(r, n)
    BY DEF ListOf, TriplesUpTo, IsTriple
  <2>2. PICK len \in [Rounds -> 0..Len(cached)] :
           /\ \A r \in Rounds : ListOf(r, len[r])
           /\ \A r, s \in Rounds :
                 r < s /\ round[s].pc # "idle" => round[r].pc # "idle" /\ len[r] <= len[s]
    BY DEF PipelineInv, ListsInv
  <2>3. /\ len \in [Rounds -> 0..Len(cached')]
        /\ \A r \in Rounds : ListOf(r, len[r])'
    BY <2>1, <2>2
  <2> QED
    BY <2>2, <2>3 DEF ListsInv
<1>3. HoursInv'
  <2>1. cached' = cached
    OBVIOUS
  <2>2. (OwnListed' <=> OwnListed) /\ Listed' = Listed
    BY <2>1 DEF OwnListed, Listed
  <2>3. HoursInv
    BY DEF PipelineInv
  <2> QED
    BY <2>1, <2>2, <2>3 DEF HoursInv
<1>4. \A h \in Hours : GivenInv(h)'
  <2>1. \A r \in Rounds : \A h \in Hours : Holds(r, h)' => Holds(r, h)
    BY DEF Holds, Hour
  <2> QED
    BY <2>1, GivenSame
<1> QED
  BY <1>1, <1>2, <1>3, <1>4 DEF PipelineInv

LEMMA CrawlTableStep ==
    ASSUME PipelineInv, CrawlTable
    PROVE  PipelineInv'
<1>0. ShapeInv /\ TablesInv /\ newest \in Nat /\ settled \in Nat /\ settled <= newest
  BY BoundsFacts DEF PipelineInv, ShapeInv
<1>1. PICK h \in Hours, i \in 1..3 :
         /\ settled < h /\ h <= newest + 1
         /\ tables' = tables \cup {CreationOrder(h)[i]}
         /\ newest' = IF h > newest THEN h ELSE newest
  BY DEF CrawlTable
<1>2. UNCHANGED <<filled, subtopics, settled, oldest, cached, round, restarts, faults, given,
                  unseen, refused, torn>>
  BY DEF CrawlTable, history
<1>3. PICK t : t = CreationOrder(h)[i]
  OBVIOUS
<1>4. t \in Crawled(h)
  BY <1>3 DEF CreationOrder, Crawled
<1>5. t \in TableSet /\ t \in AllTables /\ t.hour = h
  <2>1. t \in AllTables
    BY <1>4 DEF AllTables
  <2> QED
    BY <1>4, <2>1, CrawledTables
<1>6. newest' \in 0..MaxHour /\ newest <= newest' /\ h <= newest' /\ newest' \in Nat
  <2>1. newest \in 0..MaxHour /\ h \in 1..MaxHour /\ MaxHour \in Nat
    BY <1>0, BoundsFacts DEF ShapeInv, Hours
  <2> QED
    BY <1>1, <2>1
<1>7. ShapeInv'
  <2>1. IsFiniteSet(tables')
    BY <1>0, <1>1, FS_AddElement DEF ShapeInv
  <2>2. settled' \in 0..newest'
    BY <1>0, <1>2, <1>6
  <2> QED
    BY <1>0, <1>1, <1>2, <1>3, <1>5, <1>6, <2>1, <2>2 DEF ShapeInv
<1>8. TablesInv'
  <2>1. \A s \in tables : s.hour \in Nat
    BY <1>0, BoundsFacts DEF ShapeInv, TableSet, Hours
  <2> QED
    BY <1>0, <1>1, <1>3, <1>5, <1>6, <2>1 DEF TablesInv
<1> QED
  BY <1>1, <1>2, <1>6, <1>7, <1>8, RoundsStand

LEMMA SettleHourStep ==
    ASSUME PipelineInv, SettleHour
    PROVE  PipelineInv'
<1>1. /\ settled < newest /\ settled' = settled + 1
      /\ UNCHANGED <<tables, filled, subtopics, newest, torn, oldest, cached, round, restarts,
                     faults, given, unseen, refused>>
  BY DEF SettleHour, database, history
<1>0. ShapeInv /\ TablesInv /\ newest \in Nat /\ settled \in 0..newest
  BY BoundsFacts DEF PipelineInv, ShapeInv
<1>2. ShapeInv'
  <2>1. settled' \in 0..newest'
    BY <1>0, <1>1
  <2> QED
    BY <1>0, <1>1, <2>1 DEF ShapeInv
<1>3. TablesInv'
  BY <1>0, <1>1 DEF TablesInv
<1> QED
  BY <1>0, <1>1, <1>2, <1>3, RoundsStand

LEMMA ExpireStep ==
    ASSUME PipelineInv, Expire
    PROVE  PipelineInv'
<1>1. /\ oldest <= newest /\ oldest' = oldest + 1
      /\ UNCHANGED <<tables, filled, subtopics, newest, settled, torn, cached, round,
                     restarts, faults,
                     given, unseen, refused>>
  BY DEF Expire, database, history
<1>0. ShapeInv /\ TablesInv /\ newest \in Nat
  BY BoundsFacts DEF PipelineInv, ShapeInv
<1>2. ShapeInv'
  <2>1. oldest' \in 1..(MaxHour + 1)
    BY <1>0, <1>1, BoundsFacts DEF ShapeInv
  <2> QED
    BY <1>0, <1>1, <2>1 DEF ShapeInv
<1>3. TablesInv'
  BY <1>0, <1>1 DEF TablesInv
<1> QED
  BY <1>0, <1>1, <1>2, <1>3, RoundsStand

LEMMA StutterStep ==
    ASSUME PipelineInv, UNCHANGED vars
    PROVE  PipelineInv'
<1>1. UNCHANGED <<tables, filled, subtopics, newest, settled, torn, oldest, cached, round,
                  restarts, faults,
                  given, unseen, refused>>
  BY DEF vars
<1>0. ShapeInv /\ TablesInv /\ newest \in Nat
  BY BoundsFacts DEF PipelineInv, ShapeInv
<1>2. ShapeInv'
  BY <1>0, <1>1 DEF ShapeInv
<1>3. TablesInv'
  BY <1>0, <1>1 DEF TablesInv
<1> QED
  BY <1>0, <1>1, <1>2, <1>3, RoundsStand

-----------------------------------------------------------------------------
(* The invariant *)

LEMMA InvInit == Init => PipelineInv
<1> SUFFICES ASSUME Init PROVE PipelineInv
  OBVIOUS
<1>1. /\ tables = {} /\ filled = {} /\ subtopics = {} /\ newest = 0 /\ oldest = 1
      /\ settled = 0 /\ torn = {} /\ cached = <<>> /\ round = [r \in Rounds |-> Idle] /\ restarts = 0 /\ faults = 0
      /\ given = [h \in Hours |-> 0] /\ unseen = {} /\ refused = {}
  BY DEF Init
<1>2. PICK x : x = Idle
  OBVIOUS
<1>3. /\ x \in RoundSet /\ x.pc = "idle" /\ x.step = "next" /\ x.todo = <<>>
  <2>1. <<>> \in Seq(TableSet)
    BY ShortSequences
  <2> QED
    BY <1>2, <2>1 DEF RoundSet, Idle
<1>4. \A r \in Rounds : round[r] = x
  BY <1>1, <1>2
<1>5. cached \in Seq(TableSet) /\ Len(cached) = 0 /\ \A i \in 1..Len(cached) : FALSE
  <2>1. <<>> \in Seq(TableSet)
    BY ShortSequences
  <2> QED
    BY <1>1, <2>1
<1>6. ShapeInv
  <2>1. /\ newest \in 0..MaxHour /\ oldest \in 1..(MaxHour + 1)
        /\ restarts \in 0..MaxRestarts /\ faults \in 0..MaxFaults
    BY <1>1, BoundsFacts
  <2>2. round \in [Rounds -> RoundSet] /\ given \in [Hours -> Nat]
    BY <1>1, <1>2, <1>3
  <2>3. IsFiniteSet(tables)
    BY <1>1, FS_EmptySet
  <2> QED
    BY <1>1, <1>5, <2>1, <2>2, <2>3 DEF ShapeInv
<1>7. TablesInv
  BY <1>1 DEF TablesInv
<1>8. ASSUME NEW r \in Rounds PROVE RoundInv(r)
  <2>1. round[r] = x
    BY <1>4
  <2>2. CleanInv(r) /\ TopicsInv(r) /\ LinesInv(r) /\ SubtopicsInv(r)
    BY <1>3, <2>1 DEF CleanInv, TopicsInv, LinesInv, SubtopicsInv
  <2>3. \A i \in 1..Len(x.todo) : FALSE
    BY <1>3
  <2>4. StageInv(r)
    BY <1>2, <1>3, <2>1, <2>3 DEF StageInv
  <2> QED
    BY <2>2, <2>4 DEF RoundInv
<1>9. ListsInv
  <2>1. PICK len : len = [r \in Rounds |-> 0]
    OBVIOUS
  <2>2. len \in [Rounds -> 0..Len(cached)]
    BY <1>5, <2>1
  <2>3. \A r \in Rounds : ListOf(r, len[r])
    BY <1>3, <1>4 DEF ListOf, Passed
  <2>4. \A r \in Rounds : round[r].pc = "idle"
    BY <1>3, <1>4
  <2> QED
    BY <2>2, <2>3, <2>4 DEF ListsInv
<1>10. HoursInv
  <2>1. Listed = {}
    BY <1>5 DEF Listed
  <2>2. Len(cached) % 3 = 0
    BY <1>5
  <2> QED
    BY <1>5, <2>1, <2>2 DEF HoursInv
<1>11. \A h \in Hours : GivenInv(h)
  <2>1. \A r \in Rounds : \A h \in Hours : ~Holds(r, h)
    BY <1>3, <1>4 DEF Holds
  <2>2. \A h \in Hours : given[h] = 0
    BY <1>1
  <2> QED
    BY <2>1, <2>2, InHandHolds DEF GivenInv
<1> QED
  BY <1>6, <1>7, <1>8, <1>9, <1>10, <1>11 DEF PipelineInv

LEMMA InvStep == PipelineInv /\ [Next]_vars => PipelineInv'
<1> SUFFICES ASSUME PipelineInv, [Next]_vars PROVE PipelineInv'
  OBVIOUS
<1>1. CASE CrawlTable \/ SettleHour
  BY <1>1, CrawlTableStep, SettleHourStep
<1>2. CASE Expire
  BY <1>2, ExpireStep
<1>3. CASE Restart
  BY <1>3, RestartStep
<1>4. ASSUME NEW r \in Rounds, Start(r) \/ DetectionFails(r)
      PROVE  PipelineInv'
  BY <1>4, StartStep, DetectionFailsStep
<1>5. ASSUME NEW r \in Rounds, RoundStep(r)
      PROVE  PipelineInv'
  <2>1. CASE NextTriple(r)
    BY <2>1, NextTripleStep
  <2>2. CASE CheckDuplicate(r) \/ CreateTable(r) \/ InsertData(r)
    BY <2>2, CheckDuplicateStep, CreateTableStep, InsertDataStep
  <2>3. CASE WriteOutput(r) \/ FilterCrashes(r)
    BY <2>3, WriteOutputStep, FilterCrashesStep
  <2>4. CASE OpenTopics(r) \/ InsertTopic(r)
    BY <2>4, OpenTopicsStep, InsertTopicStep
  <2>5. CASE CloseTopics(r) \/ DetectionCrashes(r)
    BY <2>5, CloseTopicsStep, DetectionCrashesStep
  <2>6. CASE ClassifyTopics(r) \/ ClusterTopic(r) \/ EndRound(r)
    BY <2>6, ClassifyTopicsStep, ClusterTopicStep, EndRoundStep
  <2> QED
    BY <1>5, <2>1, <2>2, <2>3, <2>4, <2>5, <2>6 DEF RoundStep
<1>6. CASE UNCHANGED vars
  BY <1>6, StutterStep
<1> QED
  BY <1>1, <1>2, <1>3, <1>4, <1>5, <1>6 DEF Next

\* PipelineInv is an invariant of the program.
THEOREM InvAlways == Spec => []PipelineInv
BY InvInit, InvStep, PTL DEF Spec

-----------------------------------------------------------------------------
(* The properties *)

\* The type invariant.
THEOREM TypeCorrect == Spec => []TypeOK
<1>1. ASSUME PipelineInv PROVE TypeOK
  <2>1. /\ ShapeInv
        /\ \A t \in tables : t \in AllTables
        /\ \A r \in Rounds : StageInv(r)
    BY <1>1 DEF PipelineInv, TablesInv, RoundInv
  <2>2. ToSet(cached) \subseteq tables
    BY <2>1 DEF ShapeInv, ToSet
  <2>3. ASSUME NEW r \in Rounds
        PROVE  /\ round[r].pc \in {"idle", "clean", "topics", "subtopics", "done", "aborted",
                                 "failed"}
               /\ round[r].step \in {"next", "check", "create", "insert", "output"}
               /\ round[r].pc # "topics" => ToSet(round[r].todo) \subseteq AllTables
    <3>1. round[r] \in RoundSet /\ round[r].todo \in Seq(TableSet)
      BY <2>1, RoundTypes
    <3>2. round[r].pc # "topics" => ToSet(round[r].todo) \subseteq AllTables
      BY <2>1, <3>1 DEF StageInv, ToSet
    <3> QED
      BY <3>1, <3>2 DEF RoundSet
  <2>4. tables \subseteq AllTables
    BY <2>1
  <2> QED
    BY <2>1, <2>2, <2>3, <2>4 DEF TypeOK, ShapeInv
<1> QED
  BY <1>1, InvAlways, PTL

\* A round is ended by the assertion about the names of a triple
\* (intergrate_script.py:86) only when a detection has cached an hour of the crawler in
\* part, or a table of the programs' own: hours cached as wholes are met as triples,
\* whatever the order in which they settle, expire and are cached.
THEOREM WholeHoursPassTheAssertion == Spec => []WholeHoursPass
<1>1. ASSUME PipelineInv PROVE WholeHoursPass
  <2> SUFFICES ASSUME NEW r \in Rounds, round[r].pc = "aborted", torn = {}
               PROVE  \E t \in ToSet(cached) : t \notin Crawled(t.hour)
    BY DEF WholeHoursPass
  <2>1. /\ ShapeInv /\ HoursInv /\ cached \in Seq(TableSet) /\ Len(cached) \in Nat
    BY <1>1, RoundTypes DEF PipelineInv, ShapeInv
  <2>2. PICK n \in 0..Len(cached) : ListOf(r, n)
    BY <1>1 DEF PipelineInv, ListsInv
  <2>3. PICK j \in Nat : 3 * j + 3 <= n /\ ~IsTriple(j)
    BY <2>2 DEF ListOf
  <2>4. PICK m \in 0..2 : cached[3 * j + m + 1].kind # CrawledKind(m)
    BY <2>3 DEF IsTriple
  <2>5. PICK i \in 1..Len(cached) : i = 3 * j + m + 1
    BY <2>1, <2>2, <2>3
  <2>6. (i - 1) % 3 = m
    <3>1. \A a \in Nat : \A b \in 0..2 : (3 * a + b) % 3 = b
      OBVIOUS
    <3>2. (3 * j + m) % 3 = m
      BY <3>1
    <3>3. i - 1 = 3 * j + m
      BY <2>5
    <3> QED
      BY <3>2, <3>3
  <2>7. OwnListed
    BY <2>1, <2>4, <2>5, <2>6 DEF HoursInv
  <2>8. PICK k \in 1..Len(cached) : cached[k] \notin Crawled(cached[k].hour)
    BY <2>7 DEF OwnListed
  <2>9. cached[k] \in ToSet(cached)
    BY <2>1 DEF ToSet
  <2> QED
    BY <2>8, <2>9
<1> QED
  BY <1>1, InvAlways, PTL

\* Every later round walks over the same list and fails at the same triple.
THEOREM AbortStays == Spec => []AbortIsFinal
<1>1. ASSUME PipelineInv PROVE AbortIsFinal
  <2> SUFFICES ASSUME NEW r \in Rounds, NEW s \in Rounds, r < s, round[r].pc = "aborted"
               PROVE  round[s].pc \in {"idle", "clean", "aborted", "failed"}
    BY DEF AbortIsFinal
  <2>1. PICK len \in [Rounds -> 0..Len(cached)] :
           /\ \A q \in Rounds : ListOf(q, len[q])
           /\ \A q, t \in Rounds :
                 q < t /\ round[t].pc # "idle" => round[q].pc # "idle" /\ len[q] <= len[t]
    BY <1>1 DEF PipelineInv, ListsInv
  <2>2. PICK j \in Nat : 3 * j + 3 <= len[r] /\ ~IsTriple(j)
    BY <2>1 DEF ListOf
  <2>3. len[r] \in Int /\ len[s] \in Int
    BY <2>1
  <2>4. ASSUME round[s].pc \in Passed PROVE FALSE
    <3>1. len[r] <= len[s] /\ TriplesUpTo(len[s])
      BY <2>1, <2>4 DEF ListOf, Passed
    <3>2. 3 * j + 3 <= len[s]
      BY <2>2, <2>3, <3>1
    <3> QED
      BY <2>2, <3>1, <3>2 DEF TriplesUpTo
  <2>5. round[s] \in RoundSet
    BY <1>1, RoundTypes DEF PipelineInv
  <2> QED
    BY <2>4, <2>5 DEF RoundSet, Passed
<1> QED
  BY <1>1, InvAlways, PTL

\* The check of run_filter (and the database's refusal of a second table of one
\* name) lets an hour be given to topic detection once, unless a check could not
\* see the table or the run that was making it.
THEOREM GivenOnceUnlessRaced == Spec => []GivenTwiceOnlyAfterRace
<1>1. ASSUME PipelineInv PROVE GivenTwiceOnlyAfterRace
  <2> SUFFICES ASSUME NEW h \in Hours, given[h] > 1 PROVE h \in unseen
    BY DEF GivenTwiceOnlyAfterRace
  <2>1. GivenInv(h) /\ given[h] \in Nat
    BY <1>1 DEF PipelineInv, ShapeInv
  <2> QED
    BY <2>1 DEF GivenInv
<1> QED
  BY <1>1, InvAlways, PTL

\* Topic detection is given tables with rows, unless the database refused some.
THEOREM TopicsReadFilledTables == Spec => []TopicsOfFilledTables
<1>1. ASSUME PipelineInv PROVE TopicsOfFilledTables
  <2> SUFFICES ASSUME NEW r \in Rounds, round[r].pc = "topics", NEW t \in ToSet(round[r].todo)
               PROVE  t.hour \in filled \cup refused
    BY DEF TopicsOfFilledTables
  <2>1. TopicsInv(r) /\ round[r].todo \in Seq(TableSet)
    BY <1>1, RoundTypes DEF PipelineInv, RoundInv
  <2>2. PICK i \in 1..Len(round[r].todo) : t = round[r].todo[i]
    BY <2>1 DEF ToSet
  <2> QED
    BY <2>1, <2>2 DEF TopicsInv, Served
<1> QED
  BY <1>1, InvAlways, PTL

\* Every second line names topics, as long as each call of run_dataprocess gave two.
THEOREM TopicsAreTakenForTopics == Spec => []OnlyTopicsAreClustered
<1>1. ASSUME PipelineInv PROVE OnlyTopicsAreClustered
  <2> SUFFICES ASSUME NEW r \in Rounds, round[r].pc = "subtopics", ~round[r].odd,
                      NEW t \in ToSet(round[r].todo)
               PROVE  t.kind = "Topic_FilteredMicroblog_"
    BY DEF OnlyTopicsAreClustered
  <2>1. SubtopicsInv(r) /\ round[r].todo \in Seq(TableSet)
    BY <1>1, RoundTypes DEF PipelineInv, RoundInv
  <2>2. PICK i \in 1..Len(round[r].todo) : t = round[r].todo[i]
    BY <2>1 DEF ToSet
  <2> QED
    BY <2>1, <2>2 DEF SubtopicsInv, TopicKind
<1> QED
  BY <1>1, InvAlways, PTL

\* Only a check that misses the table lets a run of run_filter take an hour in hand.
LEMMA TakenInHand ==
    ASSUME PipelineInv, NEW r \in Rounds, Start(r) \/ DetectionFails(r) \/ RoundStep(r),
           NEW h \in Hours,
           Filtered(h) \in tables, h \notin unseen'
    PROVE  /\ \A s \in Rounds : Holds(s, h)' => Holds(s, h)
           /\ given'[h] = given[h] \/ Holds(r, h)
<1>0. round \in [Rounds -> RoundSet] /\ StageInv(r) /\ given \in [Hours -> Nat]
  BY DEF PipelineInv, ShapeInv, RoundInv
<1>1. ASSUME \A s \in Rounds \ {r} : round'[s] = round[s], Holds(r, h)' => Holds(r, h)
      PROVE  \A s \in Rounds : Holds(s, h)' => Holds(s, h)
  BY <1>1 DEF Holds, Hour
<1>2. CASE Start(r)
  <2>1. /\ round' = [round EXCEPT ![r].pc = "clean", ![r].todo = cached'] /\ given' = given
        /\ round[r] = Idle
    BY <1>0, <1>2 DEF Start, StageInv
  <2>2. round'[r].step = "next" /\ \A s \in Rounds \ {r} : round'[s] = round[s]
    BY <1>0, <2>1 DEF Idle
  <2> QED
    BY <1>1, <2>1, <2>2 DEF Holds
<1>10. CASE DetectionFails(r)
  <2>1. round' = [round EXCEPT ![r] = Ended("failed")] /\ given' = given
    BY <1>10 DEF DetectionFails
  <2>2. round'[r].step = "next" /\ \A s \in Rounds \ {r} : round'[s] = round[s]
    BY <1>0, <2>1 DEF Ended, Idle
  <2> QED
    BY <1>1, <2>1, <2>2 DEF Holds
<1>3. CASE NextTriple(r)
  <2>1. /\ round'[r].pc = "clean" => round'[r].step = "check"
        /\ \A s \in Rounds \ {r} : round'[s] = round[s]
    <3>1. CASE round' = [round EXCEPT ![r].pc = "topics", ![r].todo = round[r].out,
                                      ![r].out = <<>>]
      BY <1>0, <3>1
    <3>2. CASE round' = [round EXCEPT ![r].step = "check"]
      BY <1>0, <3>2
    <3>3. CASE round' = [round EXCEPT ![r] = Ended("aborted")]
      BY <1>0, <3>3 DEF Ended, Idle
    <3> QED
      BY <1>3, <3>1, <3>2, <3>3 DEF NextTriple
  <2>2. given' = given
    BY <1>3 DEF NextTriple, history
  <2> QED
    BY <1>1, <2>1, <2>2 DEF Holds
<1>4. CASE CheckDuplicate(r)
  <2>1. given' = given
    BY <1>4 DEF CheckDuplicate
  <2>2. CASE Cleaned(r, <<>>)
    <3>1. round'[r].step = "next" /\ \A s \in Rounds \ {r} : round'[s] = round[s]
      BY <1>0, <2>2 DEF Cleaned
    <3> QED
      BY <1>1, <2>1, <3>1 DEF Holds
  <2>3. CASE /\ round' = [round EXCEPT ![r].step = "create"]
             /\ unseen' = IF Filtered(Hour(r)) \in tables \/ InHand(Hour(r))
                          THEN unseen \cup {Hour(r)} ELSE unseen
    <3>1. round'[r].todo = round[r].todo /\ \A s \in Rounds \ {r} : round'[s] = round[s]
      BY <1>0, <2>3
    <3>2. h # Hour(r)
      BY <2>3
    <3>3. ~Holds(r, h)'
      BY <3>1, <3>2 DEF Holds, Hour
    <3> QED
      BY <1>1, <2>1, <3>1, <3>3
  <2> QED
    BY <1>4, <2>2, <2>3 DEF CheckDuplicate
<1>5. CASE CreateTable(r) \/ InsertData(r)
  <2>1. given' = given
    BY <1>5 DEF CreateTable, InsertData
  <2>2. /\ round'[r].todo = round[r].todo /\ round[r].pc = "clean"
        /\ round[r].step \in {"create", "insert"}
        /\ \A s \in Rounds \ {r} : round'[s] = round[s]
    <3>1. CASE CreateTable(r)
      <4>1. /\ round' = [round EXCEPT ![r].step = "insert"]
            /\ round[r].pc = "clean" /\ round[r].step = "create"
        BY <3>1 DEF CreateTable, Cleaning
      <4> QED
        BY <1>0, <4>1
    <3>2. CASE InsertData(r)
      <4>1. /\ round' = [round EXCEPT ![r].step = "output"]
            /\ round[r].pc = "clean" /\ round[r].step = "insert"
        BY <3>2 DEF InsertData, Cleaning
      <4> QED
        BY <1>0, <4>1
    <3> QED
      BY <1>5, <3>1, <3>2
  <2>3. Holds(r, h)' => Holds(r, h)
    BY <2>2 DEF Holds, Hour
  <2> QED
    BY <1>1, <2>1, <2>2, <2>3
<1>6. CASE WriteOutput(r)
  <2>1. /\ round'[r].step = "next" /\ round[r].pc = "clean" /\ round[r].step = "output"
        /\ \A s \in Rounds \ {r} : round'[s] = round[s]
    BY <1>0, <1>6 DEF WriteOutput, Cleaned, Cleaning
  <2>2. h # Hour(r) => given'[h] = given[h]
    BY <1>0, <1>6 DEF WriteOutput
  <2>3. h = Hour(r) => Holds(r, h)
    BY <2>1 DEF Holds
  <2> QED
    BY <1>1, <2>1, <2>2, <2>3 DEF Holds
<1>7. CASE FilterCrashes(r)
  <2>1. given' = given
    BY <1>7 DEF FilterCrashes, history
  <2>2. round'[r].step = "next" /\ \A s \in Rounds \ {r} : round'[s] = round[s]
    BY <1>0, <1>7 DEF FilterCrashes, Cleaned
  <2> QED
    BY <1>1, <2>1, <2>2 DEF Holds
<1>8. CASE OpenTopics(r) \/ InsertTopic(r) \/ CloseTopics(r) \/ DetectionCrashes(r)
  <2>1. given' = given
    BY <1>8 DEF OpenTopics, InsertTopic, CloseTopics, DetectionCrashes, history
  <2>2. round'[r].pc = "topics" /\ \A s \in Rounds \ {r} : round'[s] = round[s]
    <3>1. round[r].pc = "topics"
      BY <1>8 DEF OpenTopics, InsertTopic, CloseTopics, DetectionCrashes, Detecting
    <3>2. ASSUME NEW lines, Detected(r, lines)
          PROVE  round'[r].pc = "topics" /\ \A s \in Rounds \ {r} : round'[s] = round[s]
      BY <1>0, <3>1, <3>2 DEF Detected
    <3>3. CASE OpenTopics(r)
      <4>1. round' = [round EXCEPT ![r].step = "insert"]
        BY <3>3 DEF OpenTopics
      <4> QED
        BY <1>0, <3>1, <4>1
    <3>4. CASE InsertTopic(r)
      <4>1. PICK t : round' = [round EXCEPT ![r].names = Append(@, t)]
        BY <3>4 DEF InsertTopic
      <4> QED
        BY <1>0, <3>1, <4>1
    <3>5. CASE CloseTopics(r) \/ DetectionCrashes(r)
      BY <3>2, <3>5 DEF CloseTopics, DetectionCrashes
    <3> QED
      BY <1>8, <3>3, <3>4, <3>5
  <2> QED
    BY <1>1, <2>1, <2>2 DEF Holds
<1>9. CASE ClassifyTopics(r) \/ ClusterTopic(r) \/ EndRound(r)
  <2>1. given' = given
    BY <1>9 DEF ClassifyTopics, ClusterTopic, EndRound, history
  <2>2. round'[r].pc # "clean" /\ \A s \in Rounds \ {r} : round'[s] = round[s]
    <3>1. CASE ClassifyTopics(r)
      <4>1. PICK u : round' = [round EXCEPT ![r].pc = "subtopics", ![r].out = <<>>,
                                            ![r].todo = u]
        BY <3>1 DEF ClassifyTopics
      <4> QED
        BY <1>0, <4>1
    <3>2. CASE ClusterTopic(r)
      <4>1. round[r].pc = "subtopics" /\ round' = [round EXCEPT ![r].todo = Tail(@)]
        BY <3>2 DEF ClusterTopic
      <4> QED
        BY <1>0, <4>1
    <3>3. CASE EndRound(r)
      <4>1. round' = [round EXCEPT ![r] = Ended("done")]
        BY <3>3 DEF EndRound
      <4> QED
        BY <1>0, <4>1 DEF Ended, Idle
    <3> QED
      BY <1>9, <3>1, <3>2, <3>3
  <2> QED
    BY <1>1, <2>1, <2>2 DEF Holds
<1> QED
  BY <1>2, <1>3, <1>4, <1>5, <1>6, <1>7, <1>8, <1>9, <1>10 DEF RoundStep

\* An hour whose filtered table is there and that no run has in hand is left alone
\* by every step, whatever rounds and restarts follow: what a crash of run_filter
\* between its table and its output lost is not made up for.
THEOREM LostIsLost == Spec => LostHourStaysLost
<1> DEFINE Kept == \A h \in Hours : Filtered(h) \in tables /\ ~InHand(h) =>
                      h \in unseen' \/ (~InHand(h)' /\ given'[h] = given[h])
<1>1. ASSUME PipelineInv, [Next]_vars PROVE Kept
  <2> SUFFICES ASSUME NEW h \in Hours, Filtered(h) \in tables, ~InHand(h), h \notin unseen'
               PROVE  ~InHand(h)' /\ given'[h] = given[h]
    OBVIOUS
  <2>1. \A s \in Rounds : ~Holds(s, h)
    BY InHandHolds
  <2>2. CASE \E r \in Rounds : Start(r) \/ DetectionFails(r) \/ RoundStep(r)
    <3>1. PICK r \in Rounds : Start(r) \/ DetectionFails(r) \/ RoundStep(r)
      BY <2>2
    <3>2. /\ \A s \in Rounds : Holds(s, h)' => Holds(s, h)
          /\ given'[h] = given[h] \/ Holds(r, h)
      BY <1>1, <3>1, TakenInHand
    <3> QED
      BY <2>1, <3>2, InHandHolds
  <2>3. CASE Restart
    <3>1. given' = given /\ round' = [r \in Rounds |-> Idle]
      BY <2>3 DEF Restart
    <3>2. \A s \in Rounds : ~Holds(s, h)'
      BY <3>1 DEF Holds, Idle
    <3> QED
      BY <3>1, <3>2, InHandHolds
  <2>4. CASE CrawlTable \/ SettleHour \/ Expire \/ UNCHANGED vars
    <3>1. given' = given /\ round' = round
      BY <2>4 DEF CrawlTable, SettleHour, Expire, vars, history
    <3>2. \A s \in Rounds : Holds(s, h)' => Holds(s, h)
      BY <3>1 DEF Holds, Hour
    <3> QED
      BY <2>1, <3>1, <3>2, InHandHolds
  <2> QED
    BY <1>1, <2>2, <2>3, <2>4 DEF Next
<1> QED
  BY <1>1, InvAlways, PTL DEF Spec, LostHourStaysLost
=============================================================================
