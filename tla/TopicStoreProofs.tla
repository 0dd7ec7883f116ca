-------------------------- MODULE TopicStoreProofs --------------------------
(***************************************************************************)
(* Proofs about TopicStore, for any number of processes and topics, any    *)
(* sizes, batches and faults.                                              *)
(***************************************************************************)
EXTENDS TopicStore, FiniteSetTheorems, TLAPS

TopicIDs == 1..Len(Topics)
RowSet == [by : Process, topic : TopicIDs, n : Nat]
Places == {"query", "one day table", "topic", "insert", "read", "create", "read again",
           "rows", "ended"}

ShapeInv ==
    /\ exists \in BOOLEAN
    /\ oneDay \in Seq(Process \X TopicIDs)
    /\ tables \subseteq Ids
    /\ rows \in [Ids -> SUBSET RowSet]
    /\ \A n \in Ids : rows[n] # {} => n \in tables
    /\ pc \in [Process -> Places]
    /\ topic \in [Process -> 1..(Len(Topics) + 1)]
    /\ sent \in [Process -> Nat]
    /\ flag \in [Process -> BOOLEAN]
    /\ newestID \in [Process -> Ids]
    /\ autocommit \in [Process -> BOOLEAN]
    /\ view \in [Process -> Ids \cup {NoView}]
    /\ pending \in [Process -> SUBSET (Ids \X RowSet)]
    /\ \A p \in Process : \A e \in pending[p] : e[1] \in tables
    /\ out \in [Process -> Seq(Ids)]
    /\ faults \in 0..MaxFault

\* Where a process stands in its topic.
PlaceInv(p) ==
    /\ pc[p] \in {"insert", "read", "create", "read again", "rows"} \/ flag[p] =>
          topic[p] \in TopicIDs /\ ~Skipped(p) /\ sent[p] <= Topics[topic[p]].size
    /\ pc[p] \in {"query", "one day table", "insert", "read", "create"} => ~flag[p]
    /\ ~flag[p] => sent[p] = 0
    /\ pc[p] = "read" => view[p] = NoView

\* Each topic has one row at most, of topics that were begun.
OneDayInv ==
    /\ \A m \in DOMAIN oneDay :
          LET q == oneDay[m][1]
              k == oneDay[m][2]
          IN  k < topic[q] \/ (k = topic[q] /\ (AtWork(q) \/ pc[q] = "ended"))
    /\ \A m, n \in DOMAIN oneDay : oneDay[m] = oneDay[n] => m = n

Good(p) == Current(p) \notin overlapped \cup nameless

\* The row of a topic at work is the last one, and its id is the one that is read.
NewestInv(p) ==
    AtWork(p) /\ Good(p) =>
        /\ oneDay # <<>> /\ oneDay[Len(oneDay)] = Current(p)
        /\ view[p] \in {NoView, Len(oneDay)}
        /\ pc[p] \in {"create", "rows"} => newestID[p] = Len(oneDay)

UnderItsTopic(n, r) ==
    \/ n \in DOMAIN oneDay /\ oneDay[n] = <<r.by, r.topic>>
    \/ <<r.by, r.topic>> \in overlapped \cup nameless

\* Rows that are not committed are under their topics too.
RowsInv ==
    /\ RowsUnderTheirTopic
    /\ \A p \in Process : \A e \in pending[p] : UnderItsTopic(e[1], e[2])

IDInv == ShapeInv /\ OneDayInv /\ RowsInv /\ \A p \in Process : PlaceInv(p) /\ NewestInv(p)

\* The names that a process writes are those of ever newer topics.
NamesInv(p) ==
    nameless = {} =>
        /\ \A i, j \in DOMAIN out[p] : i < j => out[p][i] < out[p][j]
        /\ \A i \in DOMAIN out[p] :
              /\ out[p][i] <= Len(oneDay)
              /\ pc[p] = "read" => out[p][i] < Len(oneDay)
              /\ pc[p] = "create" => out[p][i] < newestID[p]
        /\ pc[p] = "create" => newestID[p] <= Len(oneDay)

Clean(p, k) == <<p, k>> \notin overlapped \cup damaged

\* What is there of a topic, up to some message.
StoredUpTo(p, k, n, last) ==
    /\ n \in DOMAIN oneDay /\ oneDay[n] = <<p, k>>
    /\ {Row(p, k, i) : i \in 1..last} \subseteq rows[n]
    /\ \E i \in DOMAIN out[p] : out[p][i] = n

CompleteInv(p) ==
    /\ \A k \in TopicIDs : Clean(p, k) /\ ~Topics[k].trash /\ k < topic[p] =>
          \E n \in Ids : StoredUpTo(p, k, n, Topics[k].size)
    /\ pc[p] \in {"topic", "read again", "rows"} /\ AtWork(p) /\ Clean(p, topic[p]) =>
          StoredUpTo(p, topic[p], Len(oneDay), sent[p])
    /\ pc[p] = "ended" => \A k \in TopicIDs : k < topic[p] \/ <<p, k>> \in damaged

StoreInv ==
    /\ IDInv
    /\ nameless \subseteq damaged
    /\ \A p \in Process : NamesInv(p) /\ CompleteInv(p)

-----------------------------------------------------------------------------
(* Facts *)

LEMMA ConstantFacts ==
    /\ Len(Topics) \in Nat /\ DOMAIN Topics = TopicIDs
    /\ \A k \in TopicIDs : Topics[k].size \in Nat /\ Topics[k].size >= 1
    /\ \A k \in TopicIDs : Topics[k].trash \in BOOLEAN
    /\ BatchSize \in Nat /\ BatchSize >= 1 /\ MaxFault \in Nat
<1>1. Len(Topics) \in Nat /\ DOMAIN Topics = TopicIDs
  BY TopicsAssumption DEF TopicIDs
<1>2. \A k \in TopicIDs : Topics[k] \in [size : Nat \ {0}, trash : BOOLEAN]
  <2>1. \A S : Topics \in Seq(S) => \A k \in TopicIDs : Topics[k] \in S
    BY DEF TopicIDs
  <2> QED
    BY <2>1, TopicsAssumption, Zenon
<1>3. /\ \A k \in TopicIDs : Topics[k].size \in Nat /\ Topics[k].size >= 1
      /\ \A k \in TopicIDs : Topics[k].trash \in BOOLEAN
  BY <1>2
<1> QED
  BY <1>1, <1>3, TopicsAssumption

LEMMA IDFacts ==
    /\ Cardinality(Process) * Len(Topics) \in Nat
    /\ Ids \subseteq Nat
    /\ 0 \in Ids
    /\ NoView \notin Ids
<1>1. Cardinality(Process) \in Nat
  BY TopicsAssumption, FS_CardinalityType, Zenon
<1>2. \A i, j \in Nat : i * j \in Nat
  OBVIOUS
<1>3. Cardinality(Process) * Len(Topics) \in Nat
  BY <1>1, <1>2, ConstantFacts
<1>4. \A m \in Nat : 0..m \subseteq Nat /\ 0 \in 0..m
  OBVIOUS
<1> QED
  BY <1>3, <1>4 DEF Ids, NoView

LEMMA AppendFacts ==
    ASSUME NEW S, NEW s \in Seq(S), NEW e \in S
    PROVE  /\ Append(s, e) \in Seq(S)
           /\ Len(Append(s, e)) = Len(s) + 1
           /\ \A i \in DOMAIN s : i \in DOMAIN Append(s, e) /\ Append(s, e)[i] = s[i]
           /\ Append(s, e)[Len(s) + 1] = e
           /\ DOMAIN Append(s, e) = DOMAIN s \cup {Len(s) + 1}
           /\ DOMAIN s = 1..Len(s) /\ Len(s) \in Nat
OBVIOUS

LEMMA SequenceFacts ==
    ASSUME ShapeInv
    PROVE  /\ Len(oneDay) \in Nat /\ DOMAIN oneDay = 1..Len(oneDay)
           /\ \A m \in DOMAIN oneDay : oneDay[m] \in Process \X TopicIDs
           /\ \A p \in Process : /\ Len(out[p]) \in Nat /\ DOMAIN out[p] = 1..Len(out[p])
                                 /\ \A i \in DOMAIN out[p] : out[p][i] \in Ids
BY DEF ShapeInv

LEMMA MinOfTwo ==
    ASSUME NEW i \in Int, NEW j \in Int
    PROVE  Min({i, j}) = IF i <= j THEN i ELSE j
<1> DEFINE m == IF i <= j THEN i ELSE j
<1>1. m \in {i, j} /\ \A y \in {i, j} : m <= y
  OBVIOUS
<1>2. \A x \in {i, j} : (\A y \in {i, j} : x <= y) => x = m
  OBVIOUS
<1> QED
  BY <1>1, <1>2 DEF Min

\* No topic has two rows, so that the ids stay within the number of topics.
LEMMA IDsBounded ==
    ASSUME oneDay \in Seq(Process \X TopicIDs),
           \A m, n \in DOMAIN oneDay : oneDay[m] = oneDay[n] => m = n
    PROVE  Len(oneDay) \in Ids
<1>1. IsFiniteSet(TopicIDs) /\ Cardinality(TopicIDs) = Len(Topics)
  <2>1. Len(Topics) \in Nat /\ 1 \in Int /\ Len(Topics) \in Int
    BY ConstantFacts
  <2>2. /\ IsFiniteSet(1..Len(Topics))
        /\ Cardinality(1..Len(Topics)) = IF 1 > Len(Topics) THEN 0 ELSE Len(Topics) - 1 + 1
    BY <2>1, FS_Interval, Zenon
  <2> QED
    BY <2>1, <2>2 DEF TopicIDs
<1>2. /\ IsFiniteSet(Process \X TopicIDs)
      /\ Cardinality(Process \X TopicIDs) = Cardinality(Process) * Len(Topics)
  <2>1. IsFiniteSet(Process)
    BY TopicsAssumption
  <2>2. /\ IsFiniteSet(Process \X TopicIDs)
        /\ Cardinality(Process \X TopicIDs) = Cardinality(Process) * Cardinality(TopicIDs)
    BY <1>1, <2>1, FS_Product, Zenon
  <2> QED
    BY <1>1, <2>2, Zenon
<1>3. DOMAIN oneDay = 1..Len(oneDay) /\ Len(oneDay) \in Nat
  OBVIOUS
<1>4. oneDay \in Injection(1..Len(oneDay), Process \X TopicIDs)
  BY <1>3 DEF Injection, IsInjective
<1>5. Cardinality(1..Len(oneDay)) <= Cardinality(Process \X TopicIDs)
  BY <1>2, <1>4, FS_Injection
<1>6. Cardinality(1..Len(oneDay)) = Len(oneDay)
  BY <1>3, FS_Interval
<1>7. \A m \in Nat : Len(oneDay) <= m => Len(oneDay) \in 0..m
  BY <1>3
<1>8. Len(oneDay) <= Cardinality(Process) * Len(Topics)
  BY <1>2, <1>5, <1>6
<1> QED
  BY <1>7, <1>8, IDFacts DEF Ids

\* The rows of a call: the messages after those sent, one batch or what is left.
LEMMA BatchFacts ==
    ASSUME ShapeInv, NEW p \in Process, topic[p] \in TopicIDs
    PROVE  /\ Left(p) \in Int
           /\ Batch(p) \subseteq RowSet
           /\ \A r \in Batch(p) : r.by = p /\ r.topic = topic[p]
           /\ \A n \in 1..Topics[topic[p]].size :
                 n > sent[p] /\ n <= sent[p] + BatchSize => Row(p, topic[p], n) \in Batch(p)
<1>1. /\ sent[p] \in Nat /\ BatchSize \in Nat /\ Topics[topic[p]].size \in Nat
      /\ Topics[topic[p]].size \in Int /\ sent[p] + BatchSize \in Int
  BY ConstantFacts DEF ShapeInv
<1>2. Min({sent[p] + BatchSize, Topics[topic[p]].size}) =
        IF sent[p] + BatchSize <= Topics[topic[p]].size
        THEN sent[p] + BatchSize ELSE Topics[topic[p]].size
  BY <1>1, MinOfTwo
<1>3. ASSUME NEW r \in Batch(p)
      PROVE  r \in RowSet /\ r.by = p /\ r.topic = topic[p]
  <2>1. PICK n \in (sent[p] + 1)..Min({sent[p] + BatchSize, Topics[topic[p]].size}) :
            r = Row(p, topic[p], n)
    BY DEF Batch
  <2>2. n \in Nat
    BY <1>1, <1>2, <2>1
  <2> QED
    BY <2>1, <2>2 DEF Row, RowSet
<1>4. ASSUME NEW n \in 1..Topics[topic[p]].size, n > sent[p], n <= sent[p] + BatchSize
      PROVE  Row(p, topic[p], n) \in Batch(p)
  <2>1. n \in (sent[p] + 1)..Min({sent[p] + BatchSize, Topics[topic[p]].size})
    BY <1>1, <1>2, <1>4
  <2> QED
    BY <2>1 DEF Batch
<1> QED
  BY <1>1, <1>3, <1>4 DEF Left

\* What a commit does.
LEMMA CommitFacts ==
    ASSUME ShapeInv, NEW p \in Process, NEW more \in SUBSET (Ids \X RowSet), CommitWith(p, more)
    PROVE  /\ rows' \in [Ids -> SUBSET RowSet]
           /\ \A n \in Ids : rows[n] \subseteq rows'[n]
           /\ \A n \in Ids : \A r \in rows'[n] : r \in rows[n] \/ <<n, r>> \in pending[p] \cup more
           /\ \A e \in more : e[2] \in rows'[e[1]]
           /\ pending'[p] = {} /\ view'[p] = NoView
           /\ \A q \in Process \ {p} : pending'[q] = pending[q] /\ view'[q] = view[q]
           /\ pending' \in [Process -> SUBSET (Ids \X RowSet)]
           /\ view' \in [Process -> Ids \cup {NoView}]
<1> DEFINE E == pending[p] \cup more
<1>1. E \subseteq Ids \X RowSet
  BY DEF ShapeInv
<1>2. \A n \in Ids : rows'[n] = rows[n] \cup {e[2] : e \in {d \in E : d[1] = n}}
  BY DEF CommitWith
<1>3. \A e \in E : e[1] \in Ids /\ e[2] \in RowSet /\ e = <<e[1], e[2]>>
  BY <1>1
<1>4. \A n \in Ids : \A r \in rows'[n] : r \in rows[n] \/ <<n, r>> \in E
  BY <1>2, <1>3
<1>5. \A e \in E : e[2] \in rows'[e[1]]
  BY <1>2, <1>3
<1>6. \A n \in Ids : rows'[n] \subseteq RowSet
  BY <1>3, <1>4 DEF ShapeInv
<1>7. rows' \in [Ids -> SUBSET RowSet]
  BY <1>6 DEF CommitWith
<1>8. /\ pending' = [pending EXCEPT ![p] = {}]
      /\ view' = [view EXCEPT ![p] = NoView]
  BY DEF CommitWith
<1>9. /\ pending'[p] = {} /\ view'[p] = NoView
      /\ \A q \in Process \ {p} : pending'[q] = pending[q] /\ view'[q] = view[q]
      /\ pending' \in [Process -> SUBSET (Ids \X RowSet)]
      /\ view' \in [Process -> Ids \cup {NoView}]
  BY <1>8 DEF ShapeInv
<1> QED
  BY <1>2, <1>4, <1>5, <1>7, <1>9

\* The commits that come with no rows of their own.
LEMMA CommitAlone ==
    ASSUME ShapeInv, NEW p \in Process, CommitWith(p, {})
    PROVE  /\ rows' \in [Ids -> SUBSET RowSet]
           /\ \A n \in Ids : rows[n] \subseteq rows'[n]
           /\ \A n \in Ids : \A r \in rows'[n] : r \in rows[n] \/ <<n, r>> \in pending[p]
           /\ view'[p] = NoView /\ \A q \in Process \ {p} : view'[q] = view[q]
           /\ pending'[p] = {} /\ \A q \in Process \ {p} : pending'[q] = pending[q]
           /\ pending' \in [Process -> SUBSET (Ids \X RowSet)]
           /\ view' \in [Process -> Ids \cup {NoView}]
<1>1. PICK more : more = {}
  OBVIOUS
<1>2. more \in SUBSET (Ids \X RowSet) /\ CommitWith(p, more) /\ pending[p] \cup more = pending[p]
  BY <1>1
<1> QED
  BY <1>2, CommitFacts

\* Rows are in tables that are there.
LEMMA TablesKept ==
    ASSUME ShapeInv, NEW p \in Process, tables \subseteq tables', NEW more,
           \A e \in more : e[1] \in tables,
           \A n \in Ids : \A r \in rows'[n] : r \in rows[n] \/ <<n, r>> \in pending[p] \cup more
    PROVE  \A n \in Ids : rows'[n] # {} => n \in tables'
<1>1. ASSUME NEW n \in Ids, NEW r \in rows'[n]
      PROVE  n \in tables'
  <2>1. CASE r \in rows[n]
    BY <2>1 DEF ShapeInv
  <2>2. CASE <<n, r>> \in pending[p]
    <3>1. <<n, r>>[1] \in tables
      BY <2>2 DEF ShapeInv
    <3> QED
      BY <3>1
  <2>3. CASE <<n, r>> \in more
    <3>1. <<n, r>>[1] \in tables
      BY <2>3
    <3> QED
      BY <3>1
  <2> QED
    BY <1>1, <2>1, <2>2, <2>3
<1> QED
  BY <1>1

LEMMA FaultsBounded ==
    ASSUME ShapeInv, Fault \/ UNCHANGED faults
    PROVE  faults' \in 0..MaxFault
BY ConstantFacts DEF ShapeInv, Fault

-----------------------------------------------------------------------------
(* What a step of one process leaves of the others *)

\* The rows of OneDayTopic and of the topics are only added to, errors and overlaps are
\* only recorded; the other processes stay where they are, and one at work is recorded
\* when a topic is inserted.
Frame(p) ==
    /\ \A q \in Process \ {p} :
          /\ pc'[q] = pc[q] /\ topic'[q] = topic[q] /\ sent'[q] = sent[q] /\ flag'[q] = flag[q]
          /\ newestID'[q] = newestID[q] /\ view'[q] = view[q] /\ out'[q] = out[q]
          /\ AtWork(q) => oneDay' = oneDay \/ Current(q) \in overlapped'
    /\ Len(oneDay) <= Len(oneDay')
    /\ \A m \in DOMAIN oneDay : m \in DOMAIN oneDay' /\ oneDay'[m] = oneDay[m]
    /\ \A n \in Ids : rows[n] \subseteq rows'[n]
    /\ overlapped \subseteq overlapped'
    /\ nameless \subseteq nameless'
    /\ damaged \subseteq damaged'

Extends(s, t) == \A i \in DOMAIN s : i \in DOMAIN t /\ t[i] = s[i]

LEMMA StoredKept ==
    ASSUME NEW p \in Process, Frame(p), NEW q \in Process, Extends(out[q], out'[q]),
           NEW k, NEW n \in Ids, NEW last, StoredUpTo(q, k, n, last)
    PROVE  StoredUpTo(q, k, n, last)'
<1>1. n \in DOMAIN oneDay' /\ oneDay'[n] = <<q, k>>
  BY DEF StoredUpTo, Frame
<1>2. {Row(q, k, i) : i \in 1..last} \subseteq rows'[n]
  BY DEF StoredUpTo, Frame
<1>3. \E i \in DOMAIN out'[q] : out'[q][i] = n
  BY DEF StoredUpTo, Extends
<1> QED
  BY <1>1, <1>2, <1>3 DEF StoredUpTo

\* The topics that a process has behind it.
LEMMA PastKept ==
    ASSUME StoreInv, NEW p \in Process, Frame(p), NEW q \in Process, Extends(out[q], out'[q]),
           NEW k \in TopicIDs, Clean(q, k)', ~Topics[k].trash, k < topic[q]
    PROVE  \E n \in Ids : StoredUpTo(q, k, n, Topics[k].size)'
<1>1. Clean(q, k)
  BY DEF Clean, Frame
<1>2. PICK n \in Ids : StoredUpTo(q, k, n, Topics[k].size)
  BY <1>1 DEF StoreInv, CompleteInv
<1> QED
  BY <1>2, StoredKept

LEMMA OthersKeep ==
    ASSUME StoreInv, ShapeInv', NEW p \in Process, Frame(p), NEW q \in Process \ {p}
    PROVE  PlaceInv(q)' /\ NewestInv(q)' /\ NamesInv(q)' /\ CompleteInv(q)'
<1>1. /\ pc'[q] = pc[q] /\ topic'[q] = topic[q] /\ sent'[q] = sent[q] /\ flag'[q] = flag[q]
      /\ newestID'[q] = newestID[q] /\ view'[q] = view[q] /\ out'[q] = out[q]
  BY DEF Frame
<1>2. /\ AtWork(q)' = AtWork(q) /\ Current(q)' = Current(q) /\ Skipped(q)' = Skipped(q)
  BY <1>1 DEF AtWork, Current, Skipped
<1>3. PlaceInv(q)'
  BY <1>1, <1>2 DEF StoreInv, IDInv, PlaceInv
<1>4. NewestInv(q)'
  <2>1. Good(q)' => Good(q)
    BY <1>2 DEF Good, Frame
  <2>2. AtWork(q) /\ Good(q)' => oneDay' = oneDay
    BY <1>2 DEF Good, Frame
  <2> QED
    BY <1>1, <1>2, <2>1, <2>2 DEF StoreInv, IDInv, NewestInv
<1>5. NamesInv(q)'
  <2>1. nameless' = {} => nameless = {}
    BY DEF Frame
  <2>2. Len(oneDay') \in Nat /\ Len(oneDay) <= Len(oneDay')
    BY DEF Frame, ShapeInv
  <2>3. \A i \in DOMAIN out[q] : out[q][i] \in Nat
    BY SequenceFacts, IDFacts DEF StoreInv, IDInv
  <2>4. newestID[q] \in Nat /\ Len(oneDay) \in Nat
    BY SequenceFacts, IDFacts DEF StoreInv, IDInv, ShapeInv
  <2> QED
    BY <1>1, <2>1, <2>2, <2>3, <2>4 DEF StoreInv, NamesInv
<1>6. CompleteInv(q)'
  <2>1. Extends(out[q], out'[q])
    BY <1>1 DEF Extends
  <2>2. ASSUME NEW k \in TopicIDs, Clean(q, k)', ~Topics[k].trash, k < topic'[q]
        PROVE  \E n \in Ids : StoredUpTo(q, k, n, Topics[k].size)'
    BY <1>1, <2>1, <2>2, PastKept
  <2>3. ASSUME pc'[q] \in {"topic", "read again", "rows"}, AtWork(q)', Clean(q, topic[q])'
        PROVE  StoredUpTo(q, topic[q], Len(oneDay), sent[q])'
    <3>1. oneDay' = oneDay
      BY <1>1, <1>2, <2>3 DEF Clean, Current, Frame
    <3>2. Clean(q, topic[q])
      BY <1>1, <2>3 DEF Clean, Frame
    <3>3. PICK k, n, last : k = topic[q] /\ n = Len(oneDay) /\ last = sent[q]
      OBVIOUS
    <3>4. StoredUpTo(q, k, n, last)
      BY <1>1, <1>2, <2>3, <3>2, <3>3 DEF StoreInv, CompleteInv
    <3>5. n \in Ids
      BY <3>3, IDsBounded DEF StoreInv, IDInv, ShapeInv, OneDayInv
    <3>6. StoredUpTo(q, k, n, last)'
      BY <2>1, <3>4, <3>5, StoredKept
    <3> QED
      BY <1>1, <3>1, <3>3, <3>6
  <2>4. pc'[q] = "ended" => \A k \in TopicIDs : k < topic'[q] \/ <<q, k>> \in damaged'
    BY <1>1 DEF StoreInv, CompleteInv, Frame
  <2> QED
    BY <2>2, <2>3, <2>4 DEF CompleteInv
<1> QED
  BY <1>3, <1>4, <1>5, <1>6

LEMMA FrameFacts ==
    ASSUME ShapeInv, NEW p \in Process,
           \A q \in Process \ {p} :
              /\ pc'[q] = pc[q] /\ topic'[q] = topic[q] /\ sent'[q] = sent[q] /\ flag'[q] = flag[q]
              /\ newestID'[q] = newestID[q] /\ view'[q] = view[q] /\ out'[q] = out[q],
           oneDay' = oneDay, \A n \in Ids : rows[n] \subseteq rows'[n],
           overlapped \subseteq overlapped', nameless \subseteq nameless', damaged \subseteq damaged'
    PROVE  Frame(p)
<1>1. Len(oneDay) \in Nat
  BY SequenceFacts
<1>2. Len(oneDay) <= Len(oneDay')
  BY <1>1
<1> QED
  BY <1>2 DEF Frame

LEMMA UnderKept ==
    ASSUME NEW p \in Process, Frame(p), NEW n, NEW r, UnderItsTopic(n, r)
    PROVE  UnderItsTopic(n, r)'
BY DEF UnderItsTopic, Frame

LEMMA RowsKept ==
    ASSUME StoreInv, NEW p \in Process, Frame(p), NEW more,
           \A e \in more : UnderItsTopic(e[1], e[2])',
           \A n \in Ids : \A r \in rows'[n] : r \in rows[n] \/ <<n, r>> \in pending[p] \cup more,
           \A q \in Process : pending'[q] \subseteq pending[q] \cup more
    PROVE  RowsInv'
<1>1. ASSUME NEW n \in Ids, NEW r \in rows'[n]
      PROVE  UnderItsTopic(n, r)'
  <2>1. CASE r \in rows[n]
    <3>1. UnderItsTopic(n, r)
      BY <2>1 DEF StoreInv, IDInv, RowsInv, RowsUnderTheirTopic, UnderItsTopic
    <3> QED
      BY <3>1, UnderKept
  <2>2. CASE <<n, r>> \in pending[p]
    <3>1. UnderItsTopic(n, r)
      BY <2>2 DEF StoreInv, IDInv, RowsInv
    <3> QED
      BY <3>1, UnderKept
  <2>3. CASE <<n, r>> \in more
    BY <2>3
  <2> QED
    BY <1>1, <2>1, <2>2, <2>3
<1>2. ASSUME NEW q \in Process, NEW e \in pending'[q]
      PROVE  UnderItsTopic(e[1], e[2])'
  <2>1. CASE e \in pending[q]
    <3>1. UnderItsTopic(e[1], e[2])
      BY <2>1 DEF StoreInv, IDInv, RowsInv
    <3> QED
      BY <3>1, UnderKept
  <2> QED
    BY <1>2, <2>1
<1>3. RowsUnderTheirTopic'
  BY <1>1 DEF RowsUnderTheirTopic, UnderItsTopic
<1> QED
  BY <1>2, <1>3 DEF RowsInv

\* The case of a step that writes no rows, but may end a transaction.
LEMMA RowsUnwritten ==
    ASSUME StoreInv, NEW p \in Process, Frame(p),
           \A n \in Ids : \A r \in rows'[n] : r \in rows[n] \/ <<n, r>> \in pending[p],
           \A q \in Process : pending'[q] \subseteq pending[q]
    PROVE  RowsInv'
<1> DEFINE more == {}
<1>1. \A e \in more : UnderItsTopic(e[1], e[2])'
  OBVIOUS
<1>2. \A n \in Ids : \A r \in rows'[n] : r \in rows[n] \/ <<n, r>> \in pending[p] \cup more
  OBVIOUS
<1>3. \A q \in Process : pending'[q] \subseteq pending[q] \cup more
  OBVIOUS
<1> HIDE DEF more
<1> QED
  BY <1>1, <1>2, <1>3, RowsKept

LEMMA OneDayKept ==
    ASSUME StoreInv, ShapeInv', NEW p \in Process, Frame(p), oneDay' = oneDay,
           \/ topic'[p] > topic[p]
           \/ /\ topic'[p] = topic[p]
              /\ AtWork(p) \/ pc[p] = "ended" => AtWork(p)' \/ pc'[p] = "ended"
    PROVE  OneDayInv'
<1>1. ASSUME NEW m \in DOMAIN oneDay, NEW q, NEW k, q = oneDay[m][1], k = oneDay[m][2]
      PROVE  k < topic'[q] \/ (k = topic'[q] /\ (AtWork(q)' \/ pc'[q] = "ended"))
  <2>1. q \in Process /\ k \in Nat /\ topic[q] \in Nat /\ topic'[q] \in Nat
    <3>1. oneDay[m] \in Process \X TopicIDs
      BY SequenceFacts DEF StoreInv, IDInv
    <3>2. k \in Nat /\ q \in Process
      BY <1>1, <3>1 DEF TopicIDs
    <3>3. topic[q] \in 1..(Len(Topics) + 1) /\ topic'[q] \in 1..(Len(Topics) + 1)
      BY <3>2 DEF StoreInv, IDInv, ShapeInv
    <3>4. Len(Topics) \in Nat
      BY ConstantFacts
    <3> QED
      BY <3>2, <3>3, <3>4
  <2>2. k < topic[q] \/ (k = topic[q] /\ (AtWork(q) \/ pc[q] = "ended"))
    BY <1>1 DEF StoreInv, IDInv, OneDayInv
  <2>3. CASE q = p
    BY <2>1, <2>2, <2>3
  <2>4. CASE q # p
    BY <2>1, <2>2, <2>4 DEF Frame, AtWork
  <2> QED
    BY <2>3, <2>4
<1>2. \A m, n \in DOMAIN oneDay : oneDay[m] = oneDay[n] => m = n
  BY DEF StoreInv, IDInv, OneDayInv
<1> QED
  BY <1>1, <1>2 DEF OneDayInv

\* So that it is enough to look at the process that takes the step.
LEMMA StepOfOne ==
    ASSUME StoreInv, NEW p \in Process, Frame(p), ShapeInv', OneDayInv', RowsInv',
           PlaceInv(p)', NewestInv(p)', NamesInv(p)', CompleteInv(p)', nameless' \subseteq damaged'
    PROVE  StoreInv'
<1>1. \A q \in Process \ {p} : PlaceInv(q)' /\ NewestInv(q)' /\ NamesInv(q)' /\ CompleteInv(q)'
  BY OthersKeep
<1> QED
  BY <1>1 DEF StoreInv, IDInv

-----------------------------------------------------------------------------
(* The steps before and after a topic *)

\* Nothing is written: the process only goes on.
Move(p) ==
    /\ UNCHANGED <<oneDay, tables, rows, topic, sent, flag, newestID, autocommit, view, pending,
                   out, overlapped, nameless, damaged>>
    /\ exists' \in BOOLEAN
    /\ faults' \in 0..MaxFault
    /\ \/ pc[p] \in {"query", "one day table"} /\ (Goto(p, "topic") \/ Goto(p, "one day table"))
       \/ /\ pc[p] = "topic" /\ topic[p] \in TopicIDs /\ ~Skipped(p)
          /\ Goto(p, IF flag[p] THEN "read again" ELSE "insert")

LEMMA MoveStep ==
    ASSUME StoreInv, NEW p \in Process, Move(p)
    PROVE  StoreInv'
<1>0. /\ ShapeInv /\ nameless \subseteq damaged /\ flag[p] \in BOOLEAN
      /\ PlaceInv(p) /\ NewestInv(p) /\ NamesInv(p) /\ CompleteInv(p)
  BY DEF StoreInv, IDInv, ShapeInv
<1>1. UNCHANGED <<oneDay, tables, rows, topic, sent, flag, newestID, autocommit, view, pending,
                  out, overlapped, nameless, damaged>>
  BY DEF Move
<1>2. /\ pc' \in [Process -> Places] /\ \A q \in Process \ {p} : pc'[q] = pc[q]
      /\ \/ /\ pc[p] \in {"query", "one day table"} /\ pc'[p] \in {"topic", "one day table"}
            /\ ~flag[p]
         \/ /\ pc[p] = "topic" /\ topic[p] \in TopicIDs /\ ~Skipped(p)
            /\ \/ flag[p] /\ pc'[p] = "read again"
               \/ ~flag[p] /\ pc'[p] = "insert"
  BY <1>0 DEF Move, Goto, ShapeInv, Places, PlaceInv
<1>3. ShapeInv'
  BY <1>0, <1>1, <1>2 DEF Move, ShapeInv
<1>4. Frame(p)
  <2>1. \A q \in Process \ {p} :
           /\ topic'[q] = topic[q] /\ sent'[q] = sent[q] /\ flag'[q] = flag[q]
           /\ newestID'[q] = newestID[q] /\ view'[q] = view[q] /\ out'[q] = out[q]
    BY <1>1
  <2>2. \A n \in Ids : rows[n] \subseteq rows'[n]
    BY <1>1
  <2> QED
    BY <1>0, <1>1, <1>2, <2>1, <2>2, FrameFacts
<1>5. AtWork(p)' <=> AtWork(p)
  <2>1. flag'[p] <=> flag[p]
    BY <1>1
  <2> QED
    BY <1>2, <2>1 DEF AtWork
<1>6. OneDayInv'
  BY <1>1, <1>2, <1>3, <1>4, <1>5, OneDayKept
<1>7. RowsInv'
  BY <1>1, <1>4, RowsUnwritten
<1>8. PlaceInv(p)'
  <2>1. /\ flag'[p] <=> flag[p]
        /\ topic'[p] = topic[p] /\ sent'[p] = sent[p] /\ view'[p] = view[p]
    BY <1>1
  <2>2. topic[p] \in TopicIDs /\ ~flag[p] => sent[p] = 0 /\ 0 <= Topics[topic[p]].size
    <3>1. topic[p] \in TopicIDs => 0 <= Topics[topic[p]].size
      <4>1. \A n \in Nat : 0 <= n
        OBVIOUS
      <4> QED
        BY <4>1, ConstantFacts, Zenon
    <3>2. ~flag[p] => sent[p] = 0
      BY <1>0, Zenon DEF PlaceInv
    <3> QED
      BY <3>1, <3>2
  <2>3. Skipped(p)' <=> Skipped(p)
    BY <2>1 DEF Skipped
  <2>4. \/ ~flag[p] /\ pc'[p] \in {"topic", "one day table"}
        \/ ~flag[p] /\ pc'[p] = "insert" /\ topic[p] \in TopicIDs /\ ~Skipped(p)
        \/ flag[p] /\ pc'[p] = "read again"
    BY <1>2
  <2>5. ASSUME pc'[p] \in {"insert", "read", "create", "read again", "rows"} \/ flag'[p]
        PROVE  topic'[p] \in TopicIDs /\ ~Skipped(p)' /\ sent'[p] <= Topics[topic'[p]].size
    <3>1. topic[p] \in TopicIDs /\ ~Skipped(p) /\ sent[p] <= Topics[topic[p]].size
      BY <1>0, <2>1, <2>2, <2>4, <2>5 DEF PlaceInv
    <3> QED
      BY <2>1, <2>3, <3>1
  <2>6. /\ pc'[p] \in {"query", "one day table", "insert", "read", "create"} => ~flag'[p]
        /\ ~flag'[p] => sent'[p] = 0
        /\ pc'[p] # "read"
    BY <1>0, <2>1, <2>4 DEF PlaceInv
  <2> QED
    BY <2>5, <2>6 DEF PlaceInv
<1>9. NewestInv(p)' /\ NamesInv(p)'
  BY <1>0, <1>1, <1>2, <1>5 DEF NewestInv, NamesInv, Good, Current
<1>10. CompleteInv(p)'
  <2>1. ASSUME NEW k \in TopicIDs, Clean(p, k)', ~Topics[k].trash, k < topic'[p]
        PROVE  \E n \in Ids : StoredUpTo(p, k, n, Topics[k].size)'
    BY <1>1, <1>4, <2>1, PastKept DEF Extends
  <2>2. ASSUME pc'[p] \in {"topic", "read again", "rows"}, AtWork(p)', Clean(p, topic[p])'
        PROVE  StoredUpTo(p, topic[p], Len(oneDay), sent[p])'
    <3>1. pc[p] = "topic" /\ AtWork(p) /\ Clean(p, topic[p])
      BY <1>1, <1>2, <1>5, <2>2 DEF Clean, AtWork
    <3>2. StoredUpTo(p, topic[p], Len(oneDay), sent[p])
      BY <1>0, <3>1 DEF CompleteInv
    <3> QED
      BY <1>1, <3>2 DEF StoredUpTo
  <2>3. pc'[p] # "ended"
    BY <1>2
  <2> QED
    BY <2>1, <2>2, <2>3 DEF CompleteInv
<1> QED
  BY <1>0, <1>1, <1>3, <1>4, <1>6, <1>7, <1>8, <1>9, <1>10, StepOfOne

LEMMA SkipStep ==
    ASSUME StoreInv, NEW p \in Process, Skip(p)
    PROVE  StoreInv'
<1>0. /\ ShapeInv /\ nameless \subseteq damaged /\ flag[p] \in BOOLEAN
      /\ PlaceInv(p) /\ NewestInv(p) /\ NamesInv(p) /\ CompleteInv(p)
  BY DEF StoreInv, IDInv, ShapeInv
<1>1. /\ UNCHANGED <<exists, oneDay, tables, rows, pc, sent, flag, newestID, autocommit, view,
                     pending, out, faults, overlapped, nameless, damaged>>
      /\ pc[p] = "topic" /\ topic[p] \in TopicIDs /\ Skipped(p)
      /\ topic' = [topic EXCEPT ![p] = @ + 1]
  BY ConstantFacts DEF Skip, tableSet, history
<1>2. /\ topic[p] \in Nat /\ topic'[p] = topic[p] + 1
      /\ \A q \in Process \ {p} : topic'[q] = topic[q]
      /\ topic' \in [Process -> 1..(Len(Topics) + 1)]
  <2>1. topic[p] \in 1..Len(Topics) /\ Len(Topics) \in Nat
    BY <1>1, ConstantFacts DEF TopicIDs
  <2>2. topic \in [Process -> 1..(Len(Topics) + 1)]
    BY <1>0 DEF ShapeInv
  <2> QED
    BY <1>1, <2>1, <2>2
<1>3. ~flag[p] /\ sent[p] = 0
  BY <1>0, <1>1 DEF PlaceInv
<1>4. ~AtWork(p) /\ ~AtWork(p)'
  BY <1>1, <1>3 DEF AtWork
<1>5. ShapeInv'
  BY <1>0, <1>1, <1>2 DEF ShapeInv
<1>6. Frame(p)
  BY <1>0, <1>1, <1>2, FrameFacts
<1>7. OneDayInv'
  <2>1. topic'[p] > topic[p]
    BY <1>2
  <2> QED
    BY <1>1, <1>5, <1>6, <2>1, OneDayKept
<1>8. RowsInv'
  BY <1>1, <1>6, RowsUnwritten
<1>9. PlaceInv(p)'
  BY <1>1, <1>3 DEF PlaceInv
<1>10. NewestInv(p)'
  BY <1>4 DEF NewestInv
<1>11. NamesInv(p)'
  BY <1>0, <1>1 DEF NamesInv
<1>12. CompleteInv(p)'
  <2>1. ASSUME NEW k \in TopicIDs, Clean(p, k)', ~Topics[k].trash, k < topic'[p]
        PROVE  \E n \in Ids : StoredUpTo(p, k, n, Topics[k].size)'
    <3>1. k # topic[p]
      BY <1>1, <2>1 DEF Skipped
    <3>2. k < topic[p]
      BY <1>2, <2>1, <3>1 DEF TopicIDs
    <3> QED
      BY <1>1, <1>6, <2>1, <3>2, PastKept DEF Extends
  <2> QED
    BY <1>1, <1>4, <2>1 DEF CompleteInv
<1> QED
  BY <1>0, <1>1, <1>5, <1>6, <1>7, <1>8, <1>9, <1>10, <1>11, <1>12, StepOfOne

\* The process ends, at its end or by a crash; its open transaction is lost.
LEMMA EndStep ==
    ASSUME StoreInv, NEW p \in Process, Exit(p) \/ Crash(p)
    PROVE  StoreInv'
<1>0. /\ ShapeInv /\ nameless \subseteq damaged /\ flag[p] \in BOOLEAN
      /\ PlaceInv(p) /\ NewestInv(p) /\ NamesInv(p) /\ CompleteInv(p)
  BY DEF StoreInv, IDInv, ShapeInv
<1>1. /\ UNCHANGED <<exists, oneDay, tables, rows, topic, sent, flag, newestID, autocommit, out,
                     overlapped, nameless>>
      /\ pc' = [pc EXCEPT ![p] = "ended"]
      /\ pending' = [pending EXCEPT ![p] = {}]
      /\ view' = [view EXCEPT ![p] = NoView]
      /\ faults' \in 0..MaxFault
      /\ damaged \subseteq damaged'
  BY <1>0, ConstantFacts DEF Exit, Crash, tableSet, history, Goto, Fault, ShapeInv
<1>2. /\ pc'[p] = "ended" /\ view'[p] = NoView
      /\ \A q \in Process \ {p} : pc'[q] = pc[q] /\ view'[q] = view[q]
      /\ \A q \in Process : pending'[q] \subseteq pending[q]
      /\ pc' \in [Process -> Places] /\ view' \in [Process -> Ids \cup {NoView}]
      /\ pending' \in [Process -> SUBSET (Ids \X RowSet)]
  BY <1>0, <1>1 DEF ShapeInv, Places
<1>3. ShapeInv'
  BY <1>0, <1>1, <1>2 DEF ShapeInv
<1>4. Frame(p)
  BY <1>0, <1>1, <1>2, FrameFacts
<1>5. OneDayInv'
  <2>1. topic'[p] = topic[p]
    BY <1>1
  <2> QED
    BY <1>1, <1>2, <1>3, <1>4, <2>1, OneDayKept
<1>6. RowsInv'
  BY <1>1, <1>2, <1>4, RowsUnwritten
<1>7. PlaceInv(p)'
  BY <1>0, <1>1, <1>2 DEF PlaceInv, Skipped
<1>8. NewestInv(p)'
  <2>1. AtWork(p)' => AtWork(p)
    BY <1>1, <1>2 DEF AtWork
  <2> QED
    BY <1>0, <1>1, <1>2, <2>1 DEF NewestInv, Good, Current
<1>9. NamesInv(p)'
  BY <1>0, <1>1, <1>2 DEF NamesInv
<1>10. CompleteInv(p)'
  <2>1. ASSUME NEW k \in TopicIDs, Clean(p, k)', ~Topics[k].trash, k < topic'[p]
        PROVE  \E n \in Ids : StoredUpTo(p, k, n, Topics[k].size)'
    BY <1>1, <1>4, <2>1, PastKept DEF Extends
  <2>2. ASSUME NEW k \in TopicIDs, ~(k < topic'[p])
        PROVE  <<p, k>> \in damaged'
    <3>1. topic'[p] = topic[p] /\ topic[p] \in 1..(Len(Topics) + 1) /\ Len(Topics) \in Nat
      BY <1>0, <1>1, ConstantFacts DEF ShapeInv
    <3>2. k >= topic[p] /\ topic[p] \in TopicIDs
      BY <2>2, <3>1 DEF TopicIDs
    <3>3. Crash(p)
      BY <3>2, ConstantFacts DEF Exit
    <3> QED
      BY <3>2, <3>3, ConstantFacts DEF Crash
  <2> QED
    BY <1>2, <2>1, <2>2 DEF CompleteInv
<1> QED
  BY <1>0, <1>1, <1>3, <1>4, <1>5, <1>6, <1>7, <1>8, <1>9, <1>10, StepOfOne

-----------------------------------------------------------------------------
(* The steps of InsertData *)

\* The new row is the last one; topics of other processes at work, and this one then,
\* are recorded.
LEMMA InsertTopicStep ==
    ASSUME StoreInv, NEW p \in Process, InsertTopic(p)
    PROVE  StoreInv'
<1>0. /\ ShapeInv /\ nameless \subseteq damaged /\ flag[p] \in BOOLEAN /\ OneDayInv
      /\ PlaceInv(p) /\ NewestInv(p) /\ NamesInv(p) /\ CompleteInv(p)
  BY DEF StoreInv, IDInv, ShapeInv
<1>1. /\ UNCHANGED <<exists, tables, topic, sent, flag, newestID, autocommit, out, faults,
                     nameless, damaged>>
      /\ pc[p] = "insert" /\ pc' = [pc EXCEPT ![p] = "read"]
      /\ oneDay' = Append(oneDay, Current(p))
      /\ CommitWith(p, {})
      /\ overlapped \subseteq overlapped'
      /\ \A q \in Process \ {p} : AtWork(q) => Current(q) \in overlapped'
  BY DEF InsertTopic, Goto
<1>2. /\ topic[p] \in TopicIDs /\ ~Skipped(p) /\ ~flag[p] /\ sent[p] = 0
      /\ sent[p] <= Topics[topic[p]].size
  BY <1>0, <1>1 DEF PlaceInv
<1>3. ~AtWork(p) /\ AtWork(p)'
  <2>1. pc'[p] = "read"
    BY <1>0, <1>1 DEF ShapeInv
  <2> QED
    BY <1>1, <1>2, <2>1 DEF AtWork
<1>4. Current(p) \in Process \X TopicIDs
  BY <1>2 DEF Current
<1>5. /\ oneDay' \in Seq(Process \X TopicIDs)
      /\ Len(oneDay) \in Nat /\ Len(oneDay') = Len(oneDay) + 1
      /\ DOMAIN oneDay = 1..Len(oneDay)
      /\ DOMAIN oneDay' = DOMAIN oneDay \cup {Len(oneDay) + 1}
      /\ \A m \in DOMAIN oneDay : m \in DOMAIN oneDay' /\ oneDay'[m] = oneDay[m]
      /\ oneDay'[Len(oneDay) + 1] = Current(p)
  <2>1. oneDay \in Seq(Process \X TopicIDs)
    BY <1>0 DEF ShapeInv
  <2>2. PICK S : S = Process \X TopicIDs
    OBVIOUS
  <2>3. oneDay \in Seq(S) /\ Current(p) \in S
    BY <1>4, <2>1, <2>2
  <2> QED
    BY <1>1, <2>2, <2>3, AppendFacts
<1>6. /\ rows' \in [Ids -> SUBSET RowSet]
      /\ \A n \in Ids : rows[n] \subseteq rows'[n]
      /\ \A n \in Ids : \A r \in rows'[n] : r \in rows[n] \/ <<n, r>> \in pending[p]
      /\ view'[p] = NoView /\ \A q \in Process \ {p} : view'[q] = view[q]
      /\ pending'[p] = {} /\ \A q \in Process \ {p} : pending'[q] = pending[q]
      /\ pending' \in [Process -> SUBSET (Ids \X RowSet)]
      /\ view' \in [Process -> Ids \cup {NoView}]
  BY <1>0, <1>1, CommitAlone
<1>7. /\ pc'[p] = "read" /\ \A q \in Process \ {p} : pc'[q] = pc[q]
      /\ pc' \in [Process -> Places]
  BY <1>0, <1>1 DEF ShapeInv, Places
<1>8. ShapeInv'
  <2>1. \A n \in Ids : rows'[n] # {} => n \in tables'
    <3>1. PICK more : more = {}
      OBVIOUS
    <3> QED
      BY <1>0, <1>1, <1>6, <3>1, TablesKept
  <2>2. \A q \in Process : \A e \in pending'[q] : e[1] \in tables'
    BY <1>0, <1>1, <1>6 DEF ShapeInv
  <2> QED
    BY <1>0, <1>1, <1>5, <1>6, <1>7, <2>1, <2>2 DEF ShapeInv
<1>9. Frame(p)
  <2>1. Len(oneDay) <= Len(oneDay')
    BY <1>5
  <2>2. \A q \in Process \ {p} :
           /\ topic'[q] = topic[q] /\ sent'[q] = sent[q] /\ flag'[q] = flag[q]
           /\ newestID'[q] = newestID[q] /\ out'[q] = out[q]
    BY <1>1
  <2>3. nameless \subseteq nameless' /\ damaged \subseteq damaged'
    BY <1>1
  <2> QED
    BY <1>1, <1>5, <1>6, <1>7, <2>1, <2>2, <2>3 DEF Frame
<1>10. OneDayInv'
  <2>1. ASSUME NEW m \in DOMAIN oneDay, NEW q, NEW k, q = oneDay[m][1], k = oneDay[m][2]
        PROVE  /\ oneDay[m] # Current(p)
               /\ k < topic'[q] \/ (k = topic'[q] /\ (AtWork(q)' \/ pc'[q] = "ended"))
    <3>1. q \in Process /\ oneDay[m] = <<q, k>>
      BY <1>0, <2>1, SequenceFacts
    <3>2. k < topic[q] \/ (k = topic[q] /\ (AtWork(q) \/ pc[q] = "ended"))
      BY <1>0, <2>1 DEF OneDayInv
    <3>3. k \in Nat /\ topic[p] \in Nat
      BY <1>0, <1>2, <2>1, SequenceFacts DEF TopicIDs
    <3>4. CASE q = p
      <4>1. k < topic[p]
        BY <1>1, <1>3, <3>2, <3>4
      <4> QED
        BY <1>1, <3>1, <3>3, <3>4, <4>1 DEF Current
    <3>5. CASE q # p
      <4>1. AtWork(q)' = AtWork(q) /\ pc'[q] = pc[q] /\ topic'[q] = topic[q]
        BY <1>1, <1>7, <3>1, <3>5 DEF AtWork
      <4> QED
        BY <3>1, <3>2, <3>5, <4>1 DEF Current
    <3> QED
      BY <3>4, <3>5
  <2>2. Current(p) = <<p, topic'[p]>>
    BY <1>1 DEF Current
  <2>3. ASSUME NEW m \in DOMAIN oneDay', NEW q, NEW k, q = oneDay'[m][1], k = oneDay'[m][2]
        PROVE  k < topic'[q] \/ (k = topic'[q] /\ (AtWork(q)' \/ pc'[q] = "ended"))
    <3>1. CASE m \in DOMAIN oneDay
      BY <1>5, <2>1, <2>3, <3>1
    <3>2. CASE m = Len(oneDay) + 1
      BY <1>3, <1>5, <2>2, <2>3, <3>2
    <3> QED
      BY <1>5, <2>3, <3>1, <3>2
  <2>4. ASSUME NEW m \in DOMAIN oneDay', NEW n \in DOMAIN oneDay', oneDay'[m] = oneDay'[n]
        PROVE  m = n
    <3>1. \A i \in DOMAIN oneDay : oneDay'[i] = oneDay[i] /\ oneDay[i] # Current(p)
      BY <1>5, <2>1
    <3>2. \A i, j \in DOMAIN oneDay : oneDay[i] = oneDay[j] => i = j
      BY <1>0 DEF OneDayInv
    <3> QED
      BY <1>5, <2>4, <3>1, <3>2
  <2> QED
    BY <2>3, <2>4 DEF OneDayInv
<1>11. RowsInv'
  BY <1>6, <1>9, RowsUnwritten
<1>12. PlaceInv(p)'
  <2>1. Skipped(p)' <=> Skipped(p)
    BY <1>1 DEF Skipped
  <2>2. ~flag'[p] /\ topic'[p] = topic[p] /\ sent'[p] = 0
    BY <1>1, <1>2
  <2> QED
    BY <1>2, <1>6, <1>7, <2>1, <2>2 DEF PlaceInv
<1>13. NewestInv(p)'
  <2>1. Current(p)' = Current(p)
    BY <1>1 DEF Current
  <2>2. oneDay' # <<>> /\ oneDay'[Len(oneDay')] = Current(p)
    BY <1>5
  <2> QED
    BY <1>6, <1>7, <2>1, <2>2 DEF NewestInv
<1>14. NamesInv(p)'
  <2>1. \A i \in DOMAIN out[p] : out[p][i] \in Nat
    BY <1>0, SequenceFacts, IDFacts
  <2>2. ASSUME nameless = {}
        PROVE  /\ \A i, j \in DOMAIN out[p] : i < j => out[p][i] < out[p][j]
               /\ \A i \in DOMAIN out[p] : out[p][i] < Len(oneDay')
    BY <1>0, <1>5, <2>1, <2>2 DEF NamesInv
  <2> QED
    BY <1>1, <1>5, <1>7, <2>1, <2>2 DEF NamesInv
<1>15. CompleteInv(p)'
  <2>1. ASSUME NEW k \in TopicIDs, Clean(p, k)', ~Topics[k].trash, k < topic'[p]
        PROVE  \E n \in Ids : StoredUpTo(p, k, n, Topics[k].size)'
    BY <1>1, <1>9, <2>1, PastKept DEF Extends
  <2> QED
    BY <1>7, <2>1 DEF CompleteInv
<1> QED
  BY <1>0, <1>1, <1>8, <1>9, <1>10, <1>11, <1>12, <1>13, <1>14, <1>15, StepOfOne

\* The id that is read is that of the last row, unless the process misses a statement
\* or holds a snapshot of before another process's row; both are recorded.
LEMMA ReadStep ==
    ASSUME StoreInv, NEW p \in Process, Read(p) \/ ReadAgain(p) \/ IDUnread(p)
    PROVE  StoreInv'
<1>0. /\ ShapeInv /\ nameless \subseteq damaged /\ flag[p] \in BOOLEAN
      /\ PlaceInv(p) /\ NewestInv(p) /\ NamesInv(p) /\ CompleteInv(p)
      /\ Len(oneDay) \in Ids /\ Ids \subseteq Nat
  BY IDsBounded, IDFacts DEF StoreInv, IDInv, ShapeInv, OneDayInv
<1>1. /\ UNCHANGED <<exists, oneDay, tables, rows, topic, sent, flag, autocommit, pending, out,
                     overlapped>>
      /\ \/ pc[p] = "read" /\ pc' = [pc EXCEPT ![p] = "create"]
         \/ pc[p] = "read again" /\ pc' = [pc EXCEPT ![p] = "rows"]
      /\ nameless \subseteq nameless' /\ damaged \subseteq damaged' /\ nameless' \subseteq damaged'
      /\ faults' \in 0..MaxFault
  <2>1. CASE Read(p) \/ ReadAgain(p)
    <3>1. faults' = faults /\ nameless' = nameless /\ damaged' = damaged
      BY <2>1 DEF Read, ReadAgain, history
    <3>2. /\ faults' \in 0..MaxFault
          /\ nameless \subseteq nameless' /\ damaged \subseteq damaged' /\ nameless' \subseteq damaged'
      BY <1>0, <3>1, FaultsBounded
    <3>3. UNCHANGED <<tableSet, rows, topic, sent, flag, autocommit, pending, out>>
      BY <2>1 DEF Read, ReadAgain, ReadID
    <3>4. \/ pc[p] = "read" /\ pc' = [pc EXCEPT ![p] = "create"]
          \/ pc[p] = "read again" /\ pc' = [pc EXCEPT ![p] = "rows"]
      BY <2>1 DEF Read, ReadAgain, ReadID, Goto
    <3>5. overlapped' = overlapped
      BY <2>1 DEF Read, ReadAgain, history
    <3> QED
      BY <3>2, <3>3, <3>4, <3>5 DEF tableSet
  <2>2. CASE IDUnread(p)
    <3>1. faults' \in 0..MaxFault
      BY <1>0, <2>2, FaultsBounded DEF IDUnread, OneDayFault
    <3>2. nameless \subseteq nameless' /\ damaged \subseteq damaged' /\ nameless' \subseteq damaged'
      BY <1>0, <2>2 DEF IDUnread
    <3>3. /\ UNCHANGED <<exists, oneDay, tables, rows, topic, sent, flag, autocommit, pending, out,
                         overlapped>>
          /\ \/ pc[p] = "read" /\ pc' = [pc EXCEPT ![p] = "create"]
             \/ pc[p] = "read again" /\ pc' = [pc EXCEPT ![p] = "rows"]
      BY <2>2 DEF IDUnread, tableSet, Goto
    <3> QED
      BY <3>1, <3>2, <3>3
  <2> QED
    BY <2>1, <2>2
<1>2. PICK id \in Ids, v \in Ids \cup {NoView} :
          /\ newestID' = [newestID EXCEPT ![p] = id]
          /\ view' = [view EXCEPT ![p] = v]
          /\ \/ /\ id = IF view[p] = NoView THEN Len(oneDay) ELSE view[p]
                /\ v \in {NoView, id}
             \/ Current(p) \in nameless' /\ v = view[p]
  <2>1. view[p] \in Ids \cup {NoView} /\ view = [view EXCEPT ![p] = view[p]]
    BY <1>0 DEF ShapeInv
  <2>2. CASE IDUnread(p)
    <3>1. PICK id \in Ids : newestID' = [newestID EXCEPT ![p] = id]
      BY <2>2 DEF IDUnread
    <3>2. view' = view /\ Current(p) \in nameless'
      BY <2>2 DEF IDUnread
    <3> QED
      BY <2>1, <3>1, <3>2
  <2>3. CASE Read(p) \/ ReadAgain(p)
    <3> DEFINE id == IF view[p] = NoView THEN Len(oneDay) ELSE view[p]
               v == IF autocommit[p] THEN NoView ELSE id
    <3>1. /\ newestID' = [newestID EXCEPT ![p] = id]
          /\ view' = [view EXCEPT ![p] = v]
      BY <2>3 DEF Read, ReadAgain, ReadID, NewestID
    <3>2. id \in Ids /\ v \in Ids \cup {NoView} /\ v \in {NoView, id}
      BY <1>0, <2>1
    <3> QED
      BY <3>1, <3>2
  <2> QED
    BY <2>2, <2>3
<1>3. /\ newestID'[p] = id /\ view'[p] = v
      /\ \/ pc[p] = "read" /\ pc'[p] = "create"
         \/ pc[p] = "read again" /\ pc'[p] = "rows"
      /\ \A q \in Process \ {p} : pc'[q] = pc[q] /\ newestID'[q] = newestID[q] /\ view'[q] = view[q]
      /\ pc' \in [Process -> Places] /\ newestID' \in [Process -> Ids]
      /\ view' \in [Process -> Ids \cup {NoView}]
  BY <1>0, <1>1, <1>2 DEF ShapeInv, Places
<1>4. ShapeInv'
  BY <1>0, <1>1, <1>3 DEF ShapeInv
<1>5. Frame(p)
  <2>1. \A q \in Process \ {p} :
           topic'[q] = topic[q] /\ sent'[q] = sent[q] /\ flag'[q] = flag[q] /\ out'[q] = out[q]
    BY <1>1
  <2>2. \A n \in Ids : rows[n] \subseteq rows'[n]
    BY <1>1
  <2>3. overlapped \subseteq overlapped'
    BY <1>1
  <2> QED
    BY <1>0, <1>1, <1>3, <2>1, <2>2, <2>3, FrameFacts
<1>6. AtWork(p) /\ AtWork(p)'
  BY <1>3 DEF AtWork
<1>7. OneDayInv'
  <2>1. topic'[p] = topic[p]
    BY <1>1
  <2> QED
    BY <1>1, <1>4, <1>5, <1>6, <2>1, OneDayKept
<1>8. RowsInv'
  BY <1>1, <1>5, RowsUnwritten
<1>9. PlaceInv(p)'
  <2>1. /\ flag'[p] <=> flag[p]
        /\ topic'[p] = topic[p] /\ sent'[p] = sent[p]
    BY <1>1
  <2>2. Skipped(p)' <=> Skipped(p)
    BY <2>1 DEF Skipped
  <2>3. /\ topic[p] \in TopicIDs /\ ~Skipped(p) /\ sent[p] <= Topics[topic[p]].size
        /\ pc[p] = "read" => ~flag[p]
        /\ ~flag[p] => sent[p] = 0
    BY <1>0, <1>3 DEF PlaceInv
  <2> QED
    BY <1>3, <2>1, <2>2, <2>3 DEF PlaceInv
<1>10. Current(p)' = Current(p)
  BY <1>1 DEF Current
<1>11. NewestInv(p)'
  <2>1. ASSUME Good(p)'
        PROVE  /\ oneDay # <<>> /\ oneDay[Len(oneDay)] = Current(p)
               /\ v \in {NoView, Len(oneDay)} /\ id = Len(oneDay)
    <3>1. Good(p) /\ Current(p) \notin nameless'
      BY <1>1, <1>10, <2>1 DEF Good
    <3> QED
      BY <1>0, <1>2, <1>6, <3>1 DEF NewestInv
  <2> QED
    BY <1>1, <1>3, <1>10, <2>1 DEF NewestInv
<1>12. NamesInv(p)'
  <2>1. ASSUME nameless' = {}
        PROVE  nameless = {} /\ (pc[p] = "read" => id = Len(oneDay))
    BY <1>0, <1>1, <1>2, <2>1 DEF PlaceInv
  <2>2. ASSUME nameless' = {}, pc'[p] = "create"
        PROVE  /\ \A i \in DOMAIN out[p] : out[p][i] < newestID'[p]
               /\ newestID'[p] <= Len(oneDay)
    BY <1>0, <1>3, <2>1, <2>2 DEF NamesInv
  <2>3. pc'[p] # "read"
    BY <1>3
  <2>4. ASSUME nameless' = {}
        PROVE  /\ \A i, j \in DOMAIN out[p] : i < j => out[p][i] < out[p][j]
               /\ \A i \in DOMAIN out[p] : out[p][i] <= Len(oneDay)
    BY <1>0, <2>1, <2>4 DEF NamesInv
  <2> QED
    BY <1>1, <2>2, <2>3, <2>4 DEF NamesInv
<1>13. CompleteInv(p)'
  <2>1. ASSUME NEW k \in TopicIDs, Clean(p, k)', ~Topics[k].trash, k < topic'[p]
        PROVE  \E n \in Ids : StoredUpTo(p, k, n, Topics[k].size)'
    BY <1>1, <1>5, <2>1, PastKept DEF Extends
  <2>2. ASSUME pc'[p] \in {"topic", "read again", "rows"}, AtWork(p)', Clean(p, topic[p])'
        PROVE  StoredUpTo(p, topic[p], Len(oneDay), sent[p])'
    <3>1. pc[p] = "read again" /\ Clean(p, topic[p])
      BY <1>1, <1>3, <2>2 DEF Clean
    <3>2. StoredUpTo(p, topic[p], Len(oneDay), sent[p])
      BY <1>0, <1>6, <3>1 DEF CompleteInv
    <3> QED
      BY <1>1, <3>2 DEF StoredUpTo
  <2> QED
    BY <1>3, <2>1, <2>2 DEF CompleteInv
<1> QED
  BY <1>1, <1>4, <1>5, <1>7, <1>8, <1>9, <1>11, <1>12, <1>13, StepOfOne

\* The name goes out with an id that none of the process's names had before, as long
\* as no id was taken for another.
LEMMA CreateStep ==
    ASSUME StoreInv, NEW p \in Process, CreateTable(p) \/ CreateRefused(p)
    PROVE  StoreInv'
<1>0. /\ ShapeInv /\ nameless \subseteq damaged /\ flag[p] \in BOOLEAN
      /\ PlaceInv(p) /\ NewestInv(p) /\ NamesInv(p) /\ CompleteInv(p)
      /\ Len(oneDay) \in Ids /\ Ids \subseteq Nat /\ newestID[p] \in Ids
  BY IDsBounded, IDFacts DEF StoreInv, IDInv, ShapeInv, OneDayInv
<1>1. /\ UNCHANGED <<exists, oneDay, topic, sent, flag, newestID, autocommit, overlapped, nameless>>
      /\ pc[p] = "create" /\ pc' = [pc EXCEPT ![p] = "read again"]
      /\ out' = [out EXCEPT ![p] = Append(@, newestID[p])]
      /\ tables \subseteq tables' /\ tables' \subseteq Ids
      /\ damaged \subseteq damaged' /\ faults' \in 0..MaxFault
  <2>1. CASE CreateTable(p)
    <3>1. faults' = faults /\ nameless' = nameless /\ damaged' = damaged /\ overlapped' = overlapped
      BY <2>1 DEF CreateTable, history
    <3>2. faults' \in 0..MaxFault
      BY <1>0, <3>1, FaultsBounded
    <3>3. tables \subseteq tables' /\ tables' \subseteq Ids
      BY <1>0, <2>1 DEF CreateTable, ShapeInv
    <3> QED
      BY <2>1, <3>1, <3>2, <3>3 DEF CreateTable, Goto
  <2>2. CASE CreateRefused(p)
    <3>1. faults' \in 0..MaxFault
      BY <1>0, <2>2, FaultsBounded DEF CreateRefused
    <3>2. tables' = tables /\ exists' = exists /\ oneDay' = oneDay
      BY <2>2 DEF CreateRefused, tableSet
    <3>3. tables \subseteq tables' /\ tables' \subseteq Ids
      BY <1>0, <3>2 DEF ShapeInv
    <3> QED
      BY <2>2, <3>1, <3>2, <3>3 DEF CreateRefused, Goto
  <2> QED
    BY <2>1, <2>2
<1>2. /\ rows' \in [Ids -> SUBSET RowSet]
      /\ \A n \in Ids : rows[n] \subseteq rows'[n]
      /\ \A n \in Ids : \A r \in rows'[n] : r \in rows[n] \/ <<n, r>> \in pending[p]
      /\ view'[p] \in {NoView, view[p]} /\ \A q \in Process \ {p} : view'[q] = view[q]
      /\ \A q \in Process : pending'[q] \subseteq pending[q]
      /\ pending' \in [Process -> SUBSET (Ids \X RowSet)]
      /\ view' \in [Process -> Ids \cup {NoView}]
  <2>1. CASE CreateTable(p)
    <3>1. CommitWith(p, {})
      BY <2>1 DEF CreateTable
    <3> QED
      BY <1>0, <3>1, CommitAlone
  <2>2. CASE CreateRefused(p)
    BY <1>0, <2>2 DEF CreateRefused, ShapeInv
  <2> QED
    BY <2>1, <2>2
<1>3. /\ pc'[p] = "read again" /\ \A q \in Process \ {p} : pc'[q] = pc[q] /\ out'[q] = out[q]
      /\ pc' \in [Process -> Places]
      /\ out'[p] = Append(out[p], newestID[p])
      /\ out[p] \in Seq(Ids)
  BY <1>0, <1>1 DEF ShapeInv, Places
<1>4. /\ out'[p] \in Seq(Ids) /\ Len(out[p]) \in Nat
      /\ DOMAIN out[p] = 1..Len(out[p])
      /\ DOMAIN out'[p] = DOMAIN out[p] \cup {Len(out[p]) + 1}
      /\ \A i \in DOMAIN out[p] : i \in DOMAIN out'[p] /\ out'[p][i] = out[p][i]
      /\ out'[p][Len(out[p]) + 1] = newestID[p]
  <2>1. PICK S, s, e : S = Ids /\ s = out[p] /\ e = newestID[p]
    OBVIOUS
  <2>2. s \in Seq(S) /\ e \in S /\ out'[p] = Append(s, e)
    BY <1>0, <1>3, <2>1
  <2> QED
    BY <2>1, <2>2, AppendFacts
<1>5. ShapeInv'
  <2>1. \A n \in Ids : rows'[n] # {} => n \in tables'
    <3>1. PICK more : more = {}
      OBVIOUS
    <3>2. /\ tables \subseteq tables' /\ \A e \in more : e[1] \in tables
          /\ \A n \in Ids : \A r \in rows'[n] : r \in rows[n] \/ <<n, r>> \in pending[p] \cup more
      BY <1>1, <1>2, <3>1
    <3> QED
      BY <1>0, <3>2, TablesKept
  <2>2. \A q \in Process : \A e \in pending'[q] : e[1] \in tables'
    BY <1>0, <1>1, <1>2 DEF ShapeInv
  <2>3. out' \in [Process -> Seq(Ids)]
    BY <1>0, <1>1, <1>3, <1>4 DEF ShapeInv
  <2> QED
    BY <1>0, <1>1, <1>2, <1>3, <2>1, <2>2, <2>3 DEF ShapeInv
<1>6. Frame(p)
  <2>1. \A q \in Process \ {p} :
           /\ topic'[q] = topic[q] /\ sent'[q] = sent[q] /\ flag'[q] = flag[q]
           /\ newestID'[q] = newestID[q]
    BY <1>1
  <2>2. overlapped \subseteq overlapped' /\ nameless \subseteq nameless'
    BY <1>1
  <2> QED
    BY <1>0, <1>1, <1>2, <1>3, <2>1, <2>2, FrameFacts
<1>7. AtWork(p) /\ AtWork(p)' /\ Current(p)' = Current(p)
  BY <1>1, <1>3 DEF AtWork, Current
<1>8. OneDayInv'
  <2>1. topic'[p] = topic[p]
    BY <1>1
  <2> QED
    BY <1>1, <1>5, <1>6, <1>7, <2>1, OneDayKept
<1>9. RowsInv'
  BY <1>2, <1>6, RowsUnwritten
<1>10. topic[p] \in TopicIDs /\ ~Skipped(p) /\ ~flag[p] /\ sent[p] = 0
       /\ sent[p] <= Topics[topic[p]].size
  BY <1>0, <1>1 DEF PlaceInv
<1>11. PlaceInv(p)'
  <2>1. Skipped(p)' <=> Skipped(p)
    BY <1>1 DEF Skipped
  <2>2. ~flag'[p] /\ topic'[p] = topic[p] /\ sent'[p] = sent[p]
    BY <1>1, <1>10
  <2> QED
    BY <1>3, <1>10, <2>1, <2>2 DEF PlaceInv
<1>12. NewestInv(p)'
  <2>1. Good(p)' <=> Good(p)
    BY <1>1, <1>7 DEF Good
  <2> QED
    BY <1>0, <1>1, <1>2, <1>3, <1>7, <2>1 DEF NewestInv
<1>13. NamesInv(p)'
  <2>1. \A i \in DOMAIN out[p] : out[p][i] \in Nat
    BY <1>0, SequenceFacts
  <2>2. ASSUME nameless = {}
        PROVE  /\ \A i, j \in DOMAIN out[p] : i < j => out[p][i] < out[p][j]
               /\ \A i \in DOMAIN out[p] : out[p][i] <= Len(oneDay) /\ out[p][i] < newestID[p]
               /\ newestID[p] <= Len(oneDay)
    BY <1>0, <1>1, <2>2 DEF NamesInv
  <2>3. ASSUME nameless = {}, NEW i \in DOMAIN out'[p], NEW j \in DOMAIN out'[p], i < j
        PROVE  out'[p][i] < out'[p][j]
    <3>1. i \in DOMAIN out[p]
      BY <1>4, <2>3
    <3> QED
      BY <1>4, <2>2, <2>3, <3>1
  <2>4. ASSUME nameless = {}, NEW i \in DOMAIN out'[p]
        PROVE  out'[p][i] <= Len(oneDay)
    BY <1>4, <2>2, <2>4
  <2> QED
    BY <1>1, <1>3, <2>3, <2>4 DEF NamesInv
<1>14. CompleteInv(p)'
  <2>1. ASSUME NEW k \in TopicIDs, Clean(p, k)', ~Topics[k].trash, k < topic'[p]
        PROVE  \E n \in Ids : StoredUpTo(p, k, n, Topics[k].size)'
    BY <1>1, <1>4, <1>6, <2>1, PastKept DEF Extends
  <2>2. ASSUME Clean(p, topic[p])'
        PROVE  StoredUpTo(p, topic[p], Len(oneDay), sent[p])'
    <3>1. Good(p)
      BY <1>0, <1>1, <2>2 DEF Clean, Good, Current
    <3>2. oneDay # <<>> /\ oneDay[Len(oneDay)] = Current(p) /\ newestID[p] = Len(oneDay)
      BY <1>0, <1>1, <1>7, <3>1 DEF NewestInv
    <3>3. Len(oneDay) \in DOMAIN oneDay
      <4>1. oneDay \in Seq(Process \X TopicIDs)
        BY <1>0 DEF ShapeInv
      <4> QED
        BY <3>2, <4>1
    <3>4. {Row(p, topic'[p], i) : i \in 1..sent'[p]} = {}
      <4>1. sent'[p] = 0
        BY <1>1, <1>10
      <4>2. 1..sent'[p] = {}
        BY <4>1
      <4> QED
        BY <4>2
    <3>5. \E i \in DOMAIN out'[p] : out'[p][i] = Len(oneDay')
      BY <1>1, <1>4, <3>2
    <3>6. oneDay'[Len(oneDay')] = <<p, topic'[p]>> /\ Len(oneDay') \in DOMAIN oneDay'
      BY <1>1, <3>2, <3>3 DEF Current
    <3> QED
      BY <3>4, <3>5, <3>6 DEF StoredUpTo
  <2> QED
    BY <1>3, <2>1, <2>2 DEF CompleteInv
<1> QED
  BY <1>0, <1>1, <1>5, <1>6, <1>8, <1>9, <1>11, <1>12, <1>13, <1>14, StepOfOne

-----------------------------------------------------------------------------
(* The return from InsertData *)

\* The topic is over, or a full batch was taken from what was left.
LEMMA ReturnFacts ==
    ASSUME ShapeInv, NEW p \in Process, topic[p] \in TopicIDs, sent[p] <= Topics[topic[p]].size,
           Return(p)
    PROVE  /\ pc'[p] = "topic" /\ pc' \in [Process -> Places]
           /\ topic' \in [Process -> 1..(Len(Topics) + 1)]
           /\ sent' \in [Process -> Nat] /\ flag' \in [Process -> BOOLEAN]
           /\ \A q \in Process \ {p} :
                 /\ pc'[q] = pc[q] /\ topic'[q] = topic[q] /\ sent'[q] = sent[q]
                 /\ flag'[q] = flag[q]
           /\ \/ /\ topic'[p] = topic[p] + 1 /\ sent'[p] = 0 /\ ~flag'[p]
                 /\ Topics[topic[p]].size < sent[p] + BatchSize
              \/ /\ topic'[p] = topic[p] /\ sent'[p] = sent[p] + BatchSize /\ flag'[p]
                 /\ sent'[p] <= Topics[topic[p]].size
<1> DEFINE size == Topics[topic[p]].size
<1>1. /\ sent[p] \in Nat /\ BatchSize \in Nat /\ size \in Nat /\ Len(Topics) \in Nat
      /\ topic[p] \in 1..Len(Topics)
  BY ConstantFacts DEF ShapeInv, TopicIDs
<1>2. /\ pc \in [Process -> Places] /\ topic \in [Process -> 1..(Len(Topics) + 1)]
      /\ sent \in [Process -> Nat] /\ flag \in [Process -> BOOLEAN]
  BY DEF ShapeInv
<1>3. /\ pc'[p] = "topic" /\ pc' \in [Process -> Places]
      /\ \A q \in Process \ {p} : pc'[q] = pc[q]
  BY <1>2 DEF Return, Goto, Places
<1>4. CASE Left(p) < BatchSize
  <2>1. /\ topic' = [topic EXCEPT ![p] = @ + 1] /\ sent' = [sent EXCEPT ![p] = 0]
        /\ flag' = [flag EXCEPT ![p] = FALSE]
    BY <1>4 DEF Return
  <2>2. size < sent[p] + BatchSize
    BY <1>1, <1>4 DEF Left
  <2>3. topic' \in [Process -> 1..(Len(Topics) + 1)] /\ topic'[p] = topic[p] + 1
    BY <1>1, <1>2, <2>1
  <2>4. sent' \in [Process -> Nat] /\ sent'[p] = 0 /\ flag' \in [Process -> BOOLEAN]
    BY <1>1, <1>2, <2>1
  <2>5. ~flag'[p]
    BY <1>2, <2>1
  <2>6. \A q \in Process \ {p} :
           topic'[q] = topic[q] /\ sent'[q] = sent[q] /\ flag'[q] = flag[q]
    BY <1>2, <2>1
  <2> QED
    BY <1>3, <2>2, <2>3, <2>4, <2>5, <2>6
<1>5. CASE ~(Left(p) < BatchSize)
  <2>1. /\ topic' = topic /\ sent' = [sent EXCEPT ![p] = @ + BatchSize]
        /\ flag' = [flag EXCEPT ![p] = TRUE]
    BY <1>5 DEF Return
  <2>2. sent[p] + BatchSize <= size
    BY <1>1, <1>5 DEF Left
  <2>3. sent' \in [Process -> Nat] /\ sent'[p] = sent[p] + BatchSize
    BY <1>1, <1>2, <2>1
  <2>4. flag' \in [Process -> BOOLEAN] /\ flag'[p]
    BY <1>2, <2>1
  <2>5. \A q \in Process \ {p} :
           topic'[q] = topic[q] /\ sent'[q] = sent[q] /\ flag'[q] = flag[q]
    BY <1>2, <2>1
  <2> QED
    BY <1>2, <1>3, <2>1, <2>2, <2>3, <2>4, <2>5
<1> QED
  BY <1>4, <1>5

\* What InsertData did before it returns: it committed the rows of the call, or an
\* error is recorded.  "more" holds the rows that it inserted.
Returns(p, more) ==
    /\ pc[p] \in {"insert", "rows"}
    /\ Return(p)
    /\ UNCHANGED <<exists, oneDay, tables, newestID, out, overlapped>>
    /\ autocommit' \in [Process -> BOOLEAN] /\ faults' \in 0..MaxFault
    /\ nameless \subseteq nameless' /\ damaged \subseteq damaged' /\ nameless' \subseteq damaged'
    /\ more \subseteq {newestID[p]} \X Batch(p)
    /\ more # {} => pc[p] = "rows" /\ newestID[p] \in tables
    /\ rows' \in [Ids -> SUBSET RowSet] /\ \A n \in Ids : rows[n] \subseteq rows'[n]
    /\ \A n \in Ids : \A r \in rows'[n] : r \in rows[n] \/ <<n, r>> \in pending[p] \cup more
    /\ pending' \in [Process -> SUBSET (Ids \X RowSet)]
    /\ \A q \in Process : pending'[q] \subseteq pending[q] \cup more
    /\ view' \in [Process -> Ids \cup {NoView}] /\ view'[p] \in {NoView, view[p]}
    /\ \A q \in Process \ {p} : view'[q] = view[q]
    /\ \/ Current(p) \in damaged' /\ (pc[p] = "insert" => Current(p) \in nameless')
       \/ pc[p] = "rows" /\ Batch(p) \subseteq rows'[newestID[p]]

LEMMA ReturnStep ==
    ASSUME StoreInv, NEW p \in Process, NEW more, Returns(p, more)
    PROVE  StoreInv'
<1>0. /\ ShapeInv /\ nameless \subseteq damaged /\ flag[p] \in BOOLEAN
      /\ PlaceInv(p) /\ NewestInv(p) /\ NamesInv(p) /\ CompleteInv(p)
      /\ Len(oneDay) \in Ids /\ newestID[p] \in Ids
  BY IDsBounded DEF StoreInv, IDInv, ShapeInv, OneDayInv
<1>1. /\ UNCHANGED <<exists, oneDay, tables, newestID, out, overlapped>>
      /\ pc[p] \in {"insert", "rows"}
      /\ nameless \subseteq nameless' /\ damaged \subseteq damaged' /\ nameless' \subseteq damaged'
      /\ \A n \in Ids : rows[n] \subseteq rows'[n]
      /\ view'[p] \in {NoView, view[p]} /\ \A q \in Process \ {p} : view'[q] = view[q]
  BY DEF Returns
<1>2. /\ topic[p] \in TopicIDs /\ ~Skipped(p) /\ sent[p] <= Topics[topic[p]].size
      /\ topic[p] \in Nat /\ sent[p] \in Nat /\ BatchSize \in Nat
      /\ Topics[topic[p]].size \in Nat
  <2>1. topic[p] \in TopicIDs /\ ~Skipped(p) /\ sent[p] <= Topics[topic[p]].size
    BY <1>0, <1>1 DEF PlaceInv
  <2>2. Topics[topic[p]].size \in Nat /\ BatchSize \in Nat
    BY <2>1, ConstantFacts
  <2>3. topic[p] \in Nat /\ sent[p] \in Nat
    BY <1>0, <2>1 DEF TopicIDs, ShapeInv
  <2> QED
    BY <2>1, <2>2, <2>3
<1>3. /\ pc'[p] = "topic" /\ pc' \in [Process -> Places]
      /\ topic' \in [Process -> 1..(Len(Topics) + 1)]
      /\ sent' \in [Process -> Nat] /\ flag' \in [Process -> BOOLEAN]
      /\ \A q \in Process \ {p} :
            /\ pc'[q] = pc[q] /\ topic'[q] = topic[q] /\ sent'[q] = sent[q]
            /\ flag'[q] = flag[q]
      /\ \/ /\ topic'[p] = topic[p] + 1 /\ sent'[p] = 0 /\ ~flag'[p]
            /\ Topics[topic[p]].size < sent[p] + BatchSize
         \/ /\ topic'[p] = topic[p] /\ sent'[p] = sent[p] + BatchSize /\ flag'[p]
            /\ sent'[p] <= Topics[topic[p]].size
  BY <1>0, <1>2, ReturnFacts DEF Returns
<1>4. \A e \in more : e[1] = newestID[p] /\ e[1] \in tables /\ e[2] \in Batch(p)
  BY DEF Returns
<1>5. ShapeInv'
  <2>1. \A n \in Ids : rows'[n] # {} => n \in tables'
    <3>1. tables \subseteq tables' /\ \A e \in more : e[1] \in tables
      BY <1>1, <1>4
    <3> QED
      BY <1>0, <3>1, TablesKept DEF Returns
  <2>2. \A q \in Process : \A e \in pending'[q] : e[1] \in tables'
    BY <1>0, <1>1, <1>4 DEF ShapeInv, Returns
  <2>3. /\ rows' \in [Ids -> SUBSET RowSet] /\ autocommit' \in [Process -> BOOLEAN]
        /\ pending' \in [Process -> SUBSET (Ids \X RowSet)] /\ faults' \in 0..MaxFault
        /\ view' \in [Process -> Ids \cup {NoView}]
    BY DEF Returns
  <2> QED
    BY <1>0, <1>1, <1>3, <2>1, <2>2, <2>3 DEF ShapeInv
<1>6. Frame(p)
  <2>1. \A q \in Process \ {p} : newestID'[q] = newestID[q] /\ out'[q] = out[q]
    BY <1>1
  <2>2. overlapped \subseteq overlapped'
    BY <1>1
  <2> QED
    BY <1>0, <1>1, <1>3, <2>1, <2>2, FrameFacts
<1>7. AtWork(p)' <=> flag'[p]
  BY <1>3 DEF AtWork
<1>8. OneDayInv'
  <2>1. \/ topic'[p] > topic[p]
        \/ topic'[p] = topic[p] /\ AtWork(p)'
    BY <1>2, <1>3, <1>7
  <2> QED
    BY <1>1, <1>5, <1>6, <2>1, OneDayKept
<1>9. Good(p)' /\ topic'[p] = topic[p] => Good(p) /\ Current(p) \notin nameless'
  BY <1>1 DEF Good, Current
<1>10. pc[p] = "rows" /\ Good(p) =>
          /\ oneDay # <<>> /\ oneDay[Len(oneDay)] = Current(p)
          /\ view[p] \in {NoView, Len(oneDay)} /\ newestID[p] = Len(oneDay)
  BY <1>0 DEF NewestInv, AtWork
<1>11. RowsInv'
  <2>1. ASSUME NEW e \in more
        PROVE  UnderItsTopic(e[1], e[2])'
    <3>1. /\ e[1] = newestID[p] /\ e[2].by = p /\ e[2].topic = topic[p] /\ pc[p] = "rows"
      BY <1>0, <1>2, <1>4, BatchFacts DEF Returns
    <3>2. CASE Good(p)
      <4>1. Len(oneDay) \in DOMAIN oneDay
        <5>1. oneDay \in Seq(Process \X TopicIDs) /\ oneDay # <<>>
          BY <1>0, <1>10, <3>1, <3>2 DEF ShapeInv
        <5> QED
          BY <5>1
      <4> QED
        BY <1>1, <1>10, <3>1, <3>2, <4>1 DEF UnderItsTopic, Current
    <3>3. CASE ~Good(p)
      <4>1. <<p, topic[p]>> \in overlapped' \cup nameless'
        BY <1>1, <3>3 DEF Good, Current
      <4> QED
        BY <3>1, <4>1 DEF UnderItsTopic
    <3> QED
      BY <3>2, <3>3
  <2> QED
    BY <1>6, <2>1, RowsKept DEF Returns
<1>12. PlaceInv(p)'
  <2>1. ASSUME flag'[p]
        PROVE  topic'[p] \in TopicIDs /\ ~Skipped(p)' /\ sent'[p] <= Topics[topic'[p]].size
    <3>1. topic'[p] = topic[p] /\ sent'[p] <= Topics[topic[p]].size
      BY <1>3, <2>1
    <3> QED
      BY <1>2, <3>1 DEF Skipped
  <2>2. ~flag'[p] => sent'[p] = 0
    BY <1>3
  <2> QED
    BY <1>3, <2>1, <2>2 DEF PlaceInv
<1>13. NewestInv(p)'
  <2>1. ASSUME AtWork(p)', Good(p)'
        PROVE  /\ oneDay # <<>> /\ oneDay[Len(oneDay)] = Current(p)'
               /\ view'[p] \in {NoView, Len(oneDay)}
    <3>1. topic'[p] = topic[p]
      BY <1>3, <1>7, <2>1
    <3>2. Good(p) /\ Current(p) \notin nameless' /\ Current(p)' = Current(p)
      BY <1>9, <2>1, <3>1 DEF Current
    <3>3. pc[p] = "rows"
      BY <1>1, <3>2 DEF Returns
    <3> QED
      BY <1>1, <1>10, <3>2, <3>3
  <2> QED
    BY <1>1, <1>3, <2>1 DEF NewestInv
<1>14. NamesInv(p)'
  <2>1. nameless' = {} => nameless = {}
    BY <1>1
  <2> QED
    BY <1>0, <1>1, <1>3, <2>1 DEF NamesInv
<1>15. ASSUME NEW k, k = topic[p], <<p, k>> \notin overlapped' \cup damaged',
              NEW last \in Nat, last <= Topics[k].size, last <= sent[p] + BatchSize
       PROVE  StoredUpTo(p, k, Len(oneDay), last)'
  <2>1. pc[p] = "rows" /\ Batch(p) \subseteq rows'[newestID[p]]
    BY <1>15 DEF Returns, Current
  <2>2. Good(p) /\ Clean(p, topic[p])
    BY <1>0, <1>1, <1>15 DEF Good, Clean, Current
  <2>3. StoredUpTo(p, topic[p], Len(oneDay), sent[p])
    BY <1>0, <2>1, <2>2 DEF CompleteInv, AtWork
  <2>4. newestID[p] = Len(oneDay)
    BY <1>10, <2>1, <2>2
  <2>5. ASSUME NEW i \in 1..last
        PROVE  Row(p, k, i) \in rows'[Len(oneDay)]
    <3>1. CASE i <= sent[p]
      <4>1. i \in 1..sent[p]
        BY <1>2, <2>5, <3>1
      <4>2. Row(p, k, i) \in rows[Len(oneDay)]
        BY <1>15, <2>3, <4>1 DEF StoredUpTo
      <4> QED
        BY <1>0, <1>1, <4>2
    <3>2. CASE i > sent[p]
      <4>1. i \in 1..Topics[topic[p]].size /\ i <= sent[p] + BatchSize
        BY <1>2, <1>15, <2>5
      <4>2. Row(p, topic[p], i) \in Batch(p)
        BY <1>0, <1>2, <3>2, <4>1, BatchFacts
      <4> QED
        BY <1>15, <2>1, <2>4, <4>2
    <3> QED
      BY <1>2, <2>5, <3>1, <3>2
  <2> QED
    BY <1>1, <1>15, <2>3, <2>5 DEF StoredUpTo
<1>16. CompleteInv(p)'
  <2>1. ASSUME NEW k \in TopicIDs, Clean(p, k)', ~Topics[k].trash, k < topic'[p]
        PROVE  \E n \in Ids : StoredUpTo(p, k, n, Topics[k].size)'
    <3>1. CASE k < topic[p]
      BY <1>1, <1>6, <2>1, <3>1, PastKept DEF Extends
    <3>2. CASE ~(k < topic[p])
      <4>1. k = topic[p] /\ Topics[k].size < sent[p] + BatchSize
        BY <1>2, <1>3, <2>1, <3>2 DEF TopicIDs
      <4>2. PICK last \in Nat : last = Topics[k].size
        BY <1>2, <4>1
      <4>3. <<p, k>> \notin overlapped' \cup damaged'
        BY <2>1 DEF Clean
      <4>4. last <= Topics[k].size /\ last <= sent[p] + BatchSize
        BY <1>2, <4>1, <4>2
      <4>5. StoredUpTo(p, k, Len(oneDay), last)'
        BY <1>15, <4>1, <4>3, <4>4
      <4>6. PICK n \in Ids : n = Len(oneDay)
        BY <1>0
      <4> QED
        BY <1>1, <4>2, <4>5, <4>6
    <3> QED
      BY <3>1, <3>2
  <2>2. ASSUME AtWork(p)', Clean(p, topic[p])'
        PROVE  StoredUpTo(p, topic[p], Len(oneDay), sent[p])'
    <3>1. /\ topic'[p] = topic[p] /\ sent'[p] = sent[p] + BatchSize
          /\ sent'[p] <= Topics[topic[p]].size
      BY <1>3, <1>7, <2>2
    <3>2. PICK k, last : k = topic[p] /\ last = sent'[p]
      OBVIOUS
    <3>3. <<p, k>> \notin overlapped' \cup damaged'
      BY <2>2, <3>1, <3>2 DEF Clean
    <3>4. last \in Nat /\ last <= Topics[k].size /\ last <= sent[p] + BatchSize
      BY <1>2, <3>1, <3>2
    <3>5. StoredUpTo(p, k, Len(oneDay), last)'
      BY <1>15, <3>2, <3>3, <3>4
    <3> QED
      BY <3>1, <3>2, <3>5
  <2> QED
    BY <1>3, <2>1, <2>2 DEF CompleteInv
<1> QED
  BY <1>1, <1>5, <1>6, <1>8, <1>11, <1>12, <1>13, <1>14, <1>16, StepOfOne

\* Some or all messages of the call are inserted.
LEMMA InsertRowsStep ==
    ASSUME StoreInv, NEW p \in Process, NEW batch \in SUBSET Batch(p),
           pc[p] = "rows", InsertRows(p, batch), faults' \in 0..MaxFault,
           \/ batch = Batch(p) /\ UNCHANGED damaged
           \/ damaged' = damaged \cup {Current(p)}
    PROVE  StoreInv'
<1>0. /\ ShapeInv /\ nameless \subseteq damaged /\ PlaceInv(p) /\ newestID[p] \in Ids
  BY DEF StoreInv, IDInv, ShapeInv
<1>1. PICK more : more = OfID(p, batch)
  OBVIOUS
<1>2. /\ Fits(p, batch) /\ CommitWith(p, more) /\ Return(p)
      /\ UNCHANGED <<tableSet, newestID, out, overlapped, nameless>>
      /\ autocommit' = [autocommit EXCEPT ![p] = FALSE]
  BY <1>1 DEF InsertRows
<1>3. Batch(p) \subseteq RowSet
  BY <1>0, BatchFacts DEF PlaceInv
<1>4. more \in SUBSET (Ids \X RowSet) /\ more \subseteq {newestID[p]} \X Batch(p)
  BY <1>0, <1>1, <1>3 DEF OfID
<1>5. more # {} => newestID[p] \in tables
  BY <1>1, <1>2 DEF OfID, Fits
<1>6. \A r \in batch : <<newestID[p], r>> \in more
  BY <1>1 DEF OfID
<1>7. /\ rows' \in [Ids -> SUBSET RowSet]
      /\ \A n \in Ids : rows[n] \subseteq rows'[n]
      /\ \A n \in Ids : \A r \in rows'[n] : r \in rows[n] \/ <<n, r>> \in pending[p] \cup more
      /\ \A e \in more : e[2] \in rows'[e[1]]
      /\ pending'[p] = {} /\ view'[p] = NoView
      /\ \A q \in Process \ {p} : pending'[q] = pending[q] /\ view'[q] = view[q]
      /\ pending' \in [Process -> SUBSET (Ids \X RowSet)]
      /\ view' \in [Process -> Ids \cup {NoView}]
  BY <1>0, <1>2, <1>4, CommitFacts
<1>8. batch \subseteq rows'[newestID[p]]
  <2>1. ASSUME NEW r \in batch
        PROVE  r \in rows'[newestID[p]]
    <3>1. <<newestID[p], r>>[2] \in rows'[<<newestID[p], r>>[1]]
      BY <1>6, <1>7
    <3> QED
      BY <3>1
  <2> QED
    BY <2>1
<1>9. Current(p) \in damaged' \/ Batch(p) \subseteq rows'[newestID[p]]
  BY <1>8
<1>10. /\ UNCHANGED <<exists, oneDay, tables, newestID, out, overlapped>>
       /\ nameless \subseteq nameless' /\ damaged \subseteq damaged' /\ nameless' \subseteq damaged'
  BY <1>0, <1>2 DEF tableSet
<1>11. autocommit' \in [Process -> BOOLEAN]
  BY <1>0, <1>2 DEF ShapeInv
<1>12. \A q \in Process : pending'[q] \subseteq pending[q] \cup more
  BY <1>7
<1>13. Returns(p, more)
  BY <1>2, <1>4, <1>5, <1>7, <1>9, <1>10, <1>11, <1>12 DEF Returns
<1> QED
  BY <1>13, ReturnStep

LEMMA StopStep ==
    ASSUME StoreInv, NEW p \in Process, pc[p] = "rows", NEW n, NEW batch \in SUBSET Batch(p),
           StopAt(p, batch, n), Fault \/ UNCHANGED faults,
           {s \in batch : s.n < n} # {} => newestID[p] \in tables
    PROVE  StoreInv'
<1>0. /\ ShapeInv /\ nameless \subseteq damaged /\ PlaceInv(p) /\ newestID[p] \in Ids
      /\ faults' \in 0..MaxFault
  BY FaultsBounded DEF StoreInv, IDInv, ShapeInv
<1>4. PICK more : more = OfID(p, {s \in batch : s.n < n})
  OBVIOUS
<1>1. /\ pending' = [pending EXCEPT ![p] = @ \cup more]
      /\ autocommit' = [autocommit EXCEPT ![p] = FALSE]
      /\ damaged' = damaged \cup {Current(p)}
      /\ Return(p)
      /\ UNCHANGED <<tableSet, rows, newestID, view, out, overlapped, nameless>>
  BY <1>4 DEF StopAt
<1>2. Batch(p) \subseteq RowSet
  BY <1>0, BatchFacts DEF PlaceInv
<1>3. /\ more \subseteq Ids \X RowSet /\ more \subseteq {newestID[p]} \X Batch(p)
      /\ more # {} => newestID[p] \in tables
  BY <1>0, <1>2, <1>4 DEF OfID
<1>5. /\ pending' \in [Process -> SUBSET (Ids \X RowSet)]
      /\ \A q \in Process : pending'[q] \subseteq pending[q] \cup more
  BY <1>0, <1>1, <1>3 DEF ShapeInv
<1>6. /\ rows' \in [Ids -> SUBSET RowSet] /\ \A m \in Ids : rows[m] \subseteq rows'[m]
      /\ \A m \in Ids : \A r \in rows'[m] : r \in rows[m] \/ <<m, r>> \in pending[p] \cup more
      /\ autocommit' \in [Process -> BOOLEAN]
      /\ view' \in [Process -> Ids \cup {NoView}] /\ view'[p] \in {NoView, view[p]}
      /\ \A q \in Process \ {p} : view'[q] = view[q]
  BY <1>0, <1>1 DEF ShapeInv
<1>7. /\ UNCHANGED <<exists, oneDay, tables, newestID, out, overlapped>>
      /\ nameless \subseteq nameless' /\ damaged \subseteq damaged' /\ nameless' \subseteq damaged'
      /\ Current(p) \in damaged'
  BY <1>0, <1>1 DEF tableSet
<1>8. Returns(p, more)
  BY <1>0, <1>1, <1>3, <1>5, <1>6, <1>7 DEF Returns
<1> QED
  BY <1>8, ReturnStep

\* Without the table already the first row is refused.
LEMMA NotInsertedStep ==
    ASSUME StoreInv, NEW p \in Process, pc[p] = "rows", NEW batch \in SUBSET Batch(p),
           NotInserted(p, batch), Fault \/ UNCHANGED faults
    PROVE  StoreInv'
<1>1. PICK r \in batch :
         /\ \A s \in batch : ~Fits(p, {s}) => r.n <= s.n
         /\ StopAt(p, batch, r.n)
  BY DEF NotInserted
<1>2. \A s \in batch : s.n \in Nat
  <2>1. ShapeInv /\ topic[p] \in TopicIDs
    BY DEF StoreInv, IDInv, PlaceInv
  <2> QED
    BY <2>1, BatchFacts DEF RowSet
<1>3. newestID[p] \notin tables => \A s \in batch : ~Fits(p, {s})
  BY DEF Fits
<1>4. newestID[p] \notin tables => \A s \in batch : ~(s.n < r.n)
  <2>1. newestID[p] \notin tables => \A s \in batch : r.n <= s.n
    BY <1>1, <1>3, Zenon
  <2>2. r.n \in Nat
    BY <1>2
  <2> QED
    BY <1>2, <2>1, <2>2
<1>5. {s \in batch : s.n < r.n} # {} => newestID[p] \in tables
  BY <1>4
<1> QED
  BY <1>1, <1>5, StopStep

LEMMA RowRefusedStep ==
    ASSUME StoreInv, NEW p \in Process, RowRefused(p)
    PROVE  StoreInv'
<1>1. PICK r \in Batch(p) : StopAt(p, Batch(p), r.n)
  BY DEF RowRefused
<1>2. pc[p] = "rows" /\ Fault /\ newestID[p] \in tables
  BY DEF RowRefused
<1>3. Batch(p) \in SUBSET Batch(p)
  OBVIOUS
<1> QED
  BY <1>1, <1>2, <1>3, StopStep

LEMMA ReadRefusedStep ==
    ASSUME StoreInv, NEW p \in Process, ReadRefused(p)
    PROVE  StoreInv'
<1>1. PICK batch \in SUBSET Batch(p) :
         \/ InsertRows(p, batch) /\ damaged' = damaged \cup {Current(p)}
         \/ NotInserted(p, batch)
  BY DEF ReadRefused
<1>2. pc[p] = "rows" /\ Fault
  BY DEF ReadRefused
<1>3. faults' \in 0..MaxFault
  BY <1>2, FaultsBounded DEF StoreInv, IDInv
<1>4. CASE InsertRows(p, batch) /\ damaged' = damaged \cup {Current(p)}
  BY <1>2, <1>3, <1>4, InsertRowsStep
<1>5. CASE NotInserted(p, batch)
  BY <1>2, <1>5, NotInsertedStep
<1> QED
  BY <1>1, <1>4, <1>5

LEMMA InsertBatchStep ==
    ASSUME StoreInv, NEW p \in Process, InsertBatch(p)
    PROVE  StoreInv'
<1>1. /\ pc[p] = "rows" /\ InsertRows(p, Batch(p)) /\ UNCHANGED damaged /\ UNCHANGED faults
      /\ Batch(p) \in SUBSET Batch(p)
  BY DEF InsertBatch
<1>2. faults' \in 0..MaxFault
  BY <1>1 DEF StoreInv, IDInv, ShapeInv
<1> QED
  BY <1>1, <1>2, InsertRowsStep

LEMMA ConflictStep ==
    ASSUME StoreInv, NEW p \in Process, Conflict(p)
    PROVE  StoreInv'
<1>1. /\ pc[p] = "rows" /\ NotInserted(p, Batch(p)) /\ UNCHANGED faults
      /\ Batch(p) \in SUBSET Batch(p)
  BY DEF Conflict
<1> QED
  BY <1>1, NotInsertedStep

LEMMA TopicRefusedStep ==
    ASSUME StoreInv, NEW p \in Process, TopicRefused(p)
    PROVE  StoreInv'
<1>0. /\ ShapeInv /\ nameless \subseteq damaged
  BY DEF StoreInv, IDInv
<1>1. /\ pc[p] = "insert" /\ Return(p)
      /\ nameless' = nameless \cup {Current(p)} /\ damaged' = damaged \cup {Current(p)}
      /\ UNCHANGED <<tableSet, rows, newestID, autocommit, view, pending, out, overlapped>>
      /\ faults' \in 0..MaxFault
  BY <1>0, FaultsBounded DEF TopicRefused, OneDayFault
<1>2. PICK more : more = {}
  OBVIOUS
<1>3. /\ rows' \in [Ids -> SUBSET RowSet] /\ \A m \in Ids : rows[m] \subseteq rows'[m]
      /\ \A m \in Ids : \A r \in rows'[m] : r \in rows[m] \/ <<m, r>> \in pending[p] \cup more
      /\ autocommit' \in [Process -> BOOLEAN]
      /\ view' \in [Process -> Ids \cup {NoView}] /\ view'[p] \in {NoView, view[p]}
      /\ \A q \in Process \ {p} : view'[q] = view[q]
      /\ pending' \in [Process -> SUBSET (Ids \X RowSet)]
      /\ \A q \in Process : pending'[q] \subseteq pending[q] \cup more
  BY <1>0, <1>1 DEF ShapeInv
<1>4. /\ UNCHANGED <<exists, oneDay, tables, newestID, out, overlapped>>
      /\ nameless \subseteq nameless' /\ damaged \subseteq damaged' /\ nameless' \subseteq damaged'
      /\ Current(p) \in damaged' /\ Current(p) \in nameless'
  BY <1>0, <1>1 DEF tableSet
<1>5. Returns(p, more)
  BY <1>1, <1>2, <1>3, <1>4 DEF Returns
<1> QED
  BY <1>5, ReturnStep

-----------------------------------------------------------------------------
(* The invariant and the theorems *)

LEMMA MovesAreMoves ==
    ASSUME StoreInv, NEW p \in Process,
           \/ Query(p) \/ CreateOneDayTable(p) \/ NextBatch(p)
           \/ QueryRefused(p) \/ CreateOneDayRefused(p)
    PROVE  Move(p)
<1>0. ShapeInv /\ exists \in BOOLEAN
  BY DEF StoreInv, IDInv, ShapeInv
<1>1. CASE Query(p)
  <2>1. exists' \in BOOLEAN /\ faults' \in 0..MaxFault
    BY <1>0, <1>1, FaultsBounded DEF Query, tableSet, history
  <2>2. pc[p] = "query" /\ (Goto(p, "topic") \/ Goto(p, "one day table"))
    BY <1>1 DEF Query
  <2> QED
    BY <1>1, <2>1, <2>2 DEF Query, Move, tableSet, history
<1>2. CASE CreateOneDayTable(p)
  <2>1. exists' \in BOOLEAN /\ faults' \in 0..MaxFault
    BY <1>0, <1>2, FaultsBounded DEF CreateOneDayTable, history
  <2> QED
    BY <1>2, <2>1 DEF CreateOneDayTable, Move, history
<1>3. CASE NextBatch(p)
  <2>1. exists' \in BOOLEAN /\ faults' \in 0..MaxFault
    BY <1>0, <1>3, FaultsBounded DEF NextBatch, tableSet, history
  <2>2. topic[p] \in TopicIDs
    BY <1>3, ConstantFacts DEF NextBatch
  <2> QED
    BY <1>3, <2>1, <2>2 DEF NextBatch, Move, tableSet, history
<1>4. CASE QueryRefused(p) \/ CreateOneDayRefused(p)
  <2>1. exists' \in BOOLEAN /\ faults' \in 0..MaxFault
    BY <1>0, <1>4, FaultsBounded DEF QueryRefused, CreateOneDayRefused, tableSet
  <2> QED
    BY <1>4, <2>1 DEF QueryRefused, CreateOneDayRefused, Move, tableSet
<1> QED
  BY <1>1, <1>2, <1>3, <1>4

LEMMA StoreInvInit == Init => StoreInv
<1> SUFFICES ASSUME Init PROVE StoreInv
  OBVIOUS
<1>1. oneDay = <<>> /\ DOMAIN oneDay = {} /\ \A p \in Process : out[p] = <<>> /\ DOMAIN out[p] = {}
  BY DEF Init
<1>2. ShapeInv
  <2>1. 0 \in Ids /\ 1 \in 1..(Len(Topics) + 1) /\ 0 \in 0..MaxFault
    BY IDFacts, ConstantFacts
  <2>2. /\ exists \in BOOLEAN /\ oneDay \in Seq(Process \X TopicIDs) /\ tables \subseteq Ids
        /\ rows \in [Ids -> SUBSET RowSet] /\ \A n \in Ids : rows[n] # {} => n \in tables
    <3>1. exists = FALSE /\ tables = {} /\ rows = [n \in Ids |-> {}]
      BY DEF Init
    <3>2. \A S : <<>> \in Seq(S)
      OBVIOUS
    <3>3. oneDay \in Seq(Process \X TopicIDs)
      BY <1>1, <3>2, Zenon
    <3> QED
      BY <3>1, <3>3
  <2>3. /\ pc \in [Process -> Places] /\ topic \in [Process -> 1..(Len(Topics) + 1)]
        /\ sent \in [Process -> Nat] /\ flag \in [Process -> BOOLEAN]
        /\ newestID \in [Process -> Ids] /\ autocommit \in [Process -> BOOLEAN]
        /\ view \in [Process -> Ids \cup {NoView}]
    BY <2>1 DEF Init, Places
  <2>4. /\ pending \in [Process -> SUBSET (Ids \X RowSet)]
        /\ \A p \in Process : \A e \in pending[p] : e[1] \in tables
        /\ out \in [Process -> Seq(Ids)]
        /\ faults \in 0..MaxFault
    BY <2>1 DEF Init
  <2> QED
    BY <2>2, <2>3, <2>4 DEF ShapeInv
<1>3. RowsInv
  <2>1. \A n \in Ids : rows[n] = {}
    BY DEF Init
  <2>2. \A p \in Process : pending[p] = {}
    BY DEF Init
  <2> QED
    BY <2>1, <2>2 DEF RowsInv, RowsUnderTheirTopic
<1>4. OneDayInv
  BY <1>1 DEF OneDayInv
<1>5. ASSUME NEW p \in Process
      PROVE  PlaceInv(p) /\ NewestInv(p) /\ NamesInv(p) /\ CompleteInv(p)
  <2>1. pc[p] = "query" /\ ~flag[p] /\ topic[p] = 1 /\ sent[p] = 0
    BY DEF Init
  <2>2. ~AtWork(p)
    BY <2>1 DEF AtWork
  <2>3. \A k \in TopicIDs : ~(k < topic[p])
    BY <2>1 DEF TopicIDs
  <2>4. PlaceInv(p)
    BY <2>1 DEF PlaceInv
  <2> QED
    BY <1>1, <2>1, <2>2, <2>3, <2>4 DEF NewestInv, NamesInv, CompleteInv
<1>6. nameless \subseteq damaged
  BY DEF Init
<1> QED
  BY <1>2, <1>3, <1>4, <1>5, <1>6 DEF StoreInv, IDInv

LEMMA StoreInvStep == StoreInv /\ [Next]_vars => StoreInv'
<1> SUFFICES ASSUME StoreInv, [Next]_vars PROVE StoreInv'
  OBVIOUS
<1>1. ASSUME NEW p \in Process, Step(p) \/ Fails(p)
      PROVE  StoreInv'
  <2>1. CASE \/ Query(p) \/ CreateOneDayTable(p) \/ NextBatch(p)
             \/ QueryRefused(p) \/ CreateOneDayRefused(p)
    BY <2>1, MovesAreMoves, MoveStep
  <2>2. CASE Skip(p)
    BY <2>2, SkipStep
  <2>3. CASE Exit(p) \/ Crash(p)
    BY <2>3, EndStep
  <2>4. CASE InsertTopic(p)
    BY <2>4, InsertTopicStep
  <2>5. CASE Read(p) \/ ReadAgain(p) \/ IDUnread(p)
    BY <2>5, ReadStep
  <2>6. CASE CreateTable(p) \/ CreateRefused(p)
    BY <2>6, CreateStep
  <2>7. CASE InsertBatch(p) \/ ReadRefused(p)
    BY <2>7, InsertBatchStep, ReadRefusedStep
  <2>8. CASE Conflict(p) \/ RowRefused(p)
    BY <2>8, ConflictStep, RowRefusedStep
  <2>9. CASE TopicRefused(p)
    BY <2>9, TopicRefusedStep
  <2> QED
    BY <1>1, <2>1, <2>2, <2>3, <2>4, <2>5, <2>6, <2>7, <2>8, <2>9, Zenon DEF Step, Fails
<1>2. CASE UNCHANGED vars
  <2>1. UNCHANGED <<exists, oneDay, tables, rows, pc, topic, sent, flag, newestID, autocommit,
                    view, pending, out, faults, overlapped, nameless, damaged>>
    BY <1>2 DEF vars, tableSet, place, history
  <2>2. ShapeInv' /\ nameless' \subseteq damaged'
    BY <2>1 DEF StoreInv, IDInv, ShapeInv
  <2>3. OneDayInv' /\ RowsInv'
    BY <2>1 DEF StoreInv, IDInv, OneDayInv, AtWork, RowsInv, RowsUnderTheirTopic, UnderItsTopic
  <2>4. ASSUME NEW p \in Process
        PROVE  PlaceInv(p)' /\ NewestInv(p)' /\ NamesInv(p)' /\ CompleteInv(p)'
    <3>1. PlaceInv(p)'
      BY <2>1 DEF StoreInv, IDInv, PlaceInv, Skipped
    <3>2. NewestInv(p)'
      BY <2>1 DEF StoreInv, IDInv, NewestInv, Good, Current, AtWork
    <3>3. NamesInv(p)'
      BY <2>1 DEF StoreInv, NamesInv
    <3>4. CompleteInv(p)'
      <4>1. CompleteInv(p) /\ (AtWork(p)' <=> AtWork(p))
        BY <2>1 DEF StoreInv, AtWork
      <4>2. \A k, n, last : StoredUpTo(p, k, n, last)' <=> StoredUpTo(p, k, n, last)
        BY <2>1 DEF StoredUpTo
      <4>3. \A k : Clean(p, k)' <=> Clean(p, k)
        BY <2>1 DEF Clean
      <4>4. /\ \A k \in TopicIDs : Clean(p, k)' /\ ~Topics[k].trash /\ k < topic'[p] =>
                  \E n \in Ids : StoredUpTo(p, k, n, Topics[k].size)'
            /\ pc'[p] = "ended" => \A k \in TopicIDs : k < topic'[p] \/ <<p, k>> \in damaged'
        BY <2>1, <4>1, <4>2, <4>3 DEF CompleteInv
      <4>5. pc'[p] \in {"topic", "read again", "rows"} /\ AtWork(p)' /\ Clean(p, topic[p])' =>
                StoredUpTo(p, topic[p], Len(oneDay), sent[p])'
        BY <2>1, <4>1, ZenonT(30) DEF CompleteInv, Clean, StoredUpTo
      <4> QED
        BY <4>4, <4>5 DEF CompleteInv
    <3> QED
      BY <3>1, <3>2, <3>3, <3>4
  <2> QED
    BY <2>2, <2>3, <2>4 DEF StoreInv, IDInv
<1> QED
  BY <1>1, <1>2 DEF Next

\* StoreInv is an invariant of any number of processes that share the table OneDayTopic.
THEOREM InvAlways == Spec => []StoreInv
BY StoreInvInit, StoreInvStep, PTL DEF Spec

\* Every variable keeps its type: in particular the ids stay within the number of
\* topics, because no topic is inserted twice (InsertData, DBoperation.cpp).
THEOREM TypeCorrect == Spec => []TypeOK
<1>1. StoreInv => TypeOK
  <2> SUFFICES ASSUME StoreInv PROVE TypeOK
    OBVIOUS
  <2>1. ShapeInv /\ DOMAIN Topics = TopicIDs
    BY ConstantFacts DEF StoreInv, IDInv
  <2>2. ASSUME NEW n \in Ids, NEW r \in rows[n]
        PROVE  r = Row(r.by, r.topic, r.n) /\ n \in tables
    <3>1. r \in RowSet
      BY <2>1, <2>2 DEF ShapeInv
    <3>2. n \in tables
      BY <2>1, <2>2 DEF ShapeInv
    <3> QED
      BY <3>1, <3>2 DEF RowSet, Row
  <2>3. oneDay \in Seq(Process \X DOMAIN Topics)
    BY <2>1 DEF ShapeInv
  <2> QED
    BY <2>1, <2>2, <2>3 DEF ShapeInv, TypeOK
<1> QED
  BY <1>1, InvAlways, PTL

\* A topic's table holds messages of the topic whose row has its id, and only those,
\* but for the topics whose insertion overlapped with another process's or whose row
\* was refused (GetNewserID after the INSERT, without a lock between them).
THEOREM RowsUnderTheirTopicAlways == Spec => []RowsUnderTheirTopic
<1>1. StoreInv => RowsUnderTheirTopic
  BY DEF StoreInv, IDInv, RowsInv
<1> QED
  BY <1>1, InvAlways, PTL

\* A topic that met no error is there, with one row, every message and its name in the
\* file, once its process has ended, whatever went wrong with the topics before it.
THEOREM UndamagedTopicsAreComplete == Spec => []UndamagedTopicsComplete
<1>1. StoreInv => UndamagedTopicsComplete
  <2> SUFFICES ASSUME StoreInv, NEW p \in Process, pc[p] = "ended", NEW k \in TopicIDs,
                      <<p, k>> \notin overlapped \cup damaged, ~Topics[k].trash
               PROVE  \E n \in DOMAIN oneDay : Complete(p, k, n)
    BY ConstantFacts DEF UndamagedTopicsComplete
  <2>0. ShapeInv /\ OneDayInv /\ NamesInv(p) /\ CompleteInv(p)
    BY DEF StoreInv, IDInv
  <2>1. k < topic[p]
    BY <2>0 DEF CompleteInv
  <2>2. PICK n \in Ids : StoredUpTo(p, k, n, Topics[k].size)
    BY <2>0, <2>1 DEF CompleteInv, Clean
  <2>3. n \in DOMAIN oneDay /\ \A m \in DOMAIN oneDay : oneDay[m] = <<p, k>> <=> m = n
    BY <2>0, <2>2 DEF StoredUpTo, OneDayInv
  <2>4. {Row(p, k, i) : i \in 1..Topics[k].size} \subseteq rows[n]
    BY <2>2 DEF StoredUpTo
  <2> DEFINE names == {i \in DOMAIN out[p] : out[p][i] = n}
  <2>5. PICK i \in DOMAIN out[p] : out[p][i] = n
    BY <2>2 DEF StoredUpTo
  <2>6. ASSUME nameless = {}
        PROVE  names = {i}
    <3>1. ASSUME NEW j \in DOMAIN out[p], out[p][j] = n
          PROVE  j = i
      <4>1. n \in Nat /\ i \in Nat /\ j \in Nat
        BY <2>0, <2>5, IDFacts, SequenceFacts
      <4>2. /\ i < j => out[p][i] < out[p][j]
            /\ j < i => out[p][j] < out[p][i]
        BY <2>0, <2>6 DEF NamesInv
      <4> QED
        BY <2>5, <3>1, <4>1, <4>2
    <3> QED
      BY <2>5, <3>1
  <2>7. nameless = {} => Cardinality(names) = 1
    BY <2>6, FS_Singleton
  <2> QED
    BY <2>3, <2>4, <2>5, <2>7 DEF Complete
<1> QED
  BY <1>1, InvAlways, PTL
=============================================================================
