----------------------------- MODULE SinglePass -----------------------------
(***************************************************************************)
(* DataProcess/src: how run_dataprocess makes topics.  A first scan of the *)
(* messages weighs the words (gen_feature/GetTopic.cpp); the heaviest      *)
(* become feature words.  A second counts how often two of them occur      *)
(* together; then each word, in map order, joins the topic it is nearest   *)
(* to or begins one.  A third scan assigns messages to topics (all in      *)
(* singlepass/Cluster.cpp).  The sorted topics are then stored             *)
(* (topic_summary/TopicViewAndPolitics.cpp), see TopicStore.               *)
(*                                                                         *)
(* The runs modelled are those in which the database refuses no count of   *)
(* a table and no row: then the scans read the same rows, as TableScan     *)
(* shows, and the last row of a table may come twice.                      *)
(***************************************************************************)
EXTENDS Integers, Sequences, FiniteSets, SequencesExt, Functions

CONSTANTS
    Inputs,          \* what the scans read: sequences of rows, see RowType
    Word,            \* the words, integers in the order of the maps
    TagValue,        \* 30, the weight of a word in a hash tag
    FreqLimit,       \* 10
    LeastWordNum,    \* 100, the number of feature words of an hour with few messages,
    RowsPerWord,     \* and 30, how many messages each word more takes
    TopicMapThrod,   \* TOPICMAPTHROD, 100000
    RandSize,        \* RAND_SIZE, 10000
    ThrodAdd,        \* THROD_ADD, 5
    TotalWeiboNum,   \* TOTAL_WEIBO_NUM, 50000: an hour of so many takes three words
    MinMessageNum,   \* MIN_TOPIC_MESSAGE_NUM, 5
    Garbage          \* values that a read of no element may give

\* An occurrence is in a hash tag, or a noun or verb, or a word that never counts.
RowType == [mid : Nat, words : Seq([word : Word, kind : {"tag", "noun", "other"}])]

ASSUME SinglePassAssumption ==
    /\ Inputs \subseteq Seq(RowType)
    /\ Word \subseteq Nat
    /\ {TagValue, RandSize, RowsPerWord} \subseteq Nat \ {0}
    /\ {FreqLimit, LeastWordNum, TopicMapThrod, ThrodAdd, TotalWeiboNum, MinMessageNum} \subseteq Nat
    /\ Garbage \subseteq Int

\* A message is found under its id and its table; if it comes twice, it is the same row.
ASSUME RowsAssumption ==
    \A rows \in Inputs : \A i, j \in DOMAIN rows : rows[i].mid = rows[j].mid => rows[i] = rows[j]

VARIABLES
    pc,          \* the part of the program, or "done" or "crashed"
    reads,       \* the rows of each scan
    place,       \* the next row of the scan, or the next word of the first one
    weight,      \* m_topic_word: the weights of the words in the map
    purged,      \* has the map been purged?
    feature,     \* the feature words (topicword)
    cooc,        \* co_ccur_matrix
    throd,       \* CLSTER_THROD as a fraction
    clusters,    \* clusterList: topics as the sequences of their words
    index,       \* wordToweiboid
    messages,    \* messages[k]: weibo_id_list of topic k
    messageNum,  \* messageNum[k]: its topic_message_num
    taken        \* the topics given to GetOneTopicWeiboByBatch and not left at once

vars == <<pc, reads, place, weight, purged, feature, cooc, throd, clusters, index,
          messages, messageNum, taken>>

None == [x \in {} |-> 0]

Init ==
    /\ pc = "count"
    /\ reads \in Inputs
    /\ place = 1
    /\ weight = None
    /\ purged = FALSE
    /\ feature = {}
    /\ cooc = None
    /\ throd = [num |-> 0, den |-> 1]
    /\ clusters = <<>>
    /\ index = None
    /\ messages = <<>>
    /\ messageNum = <<>>
    /\ taken = <<>>

\* What main and the first scan set by the number of rows.
TopicWordNum == Max({Len(reads) \div RowsPerWord, LeastWordNum})
BelongThrod == IF Len(reads) < TotalWeiboNum THEN 2 ELSE 3

EndOfScan(list, next) ==
    /\ place > Len(list)
    /\ place' = 1
    /\ pc' = next

-----------------------------------------------------------------------------
(* GetTopic: the feature words *)

Weighed_TwiceFirst(map, o) ==
    LET old == IF o.word \in DOMAIN map THEN map[o.word] ELSE 1
        gain == IF o.kind = "tag" THEN TagValue + 1 ELSE 1
    IN  [w \in DOMAIN map \cup {o.word} |-> IF w = o.word THEN old + gain ELSE map[w]]

\* A new word in a tag has the value of a tag, one that is known gets one more.
Weighed(map, o) ==
    LET known == o.word \in DOMAIN map
        gain == (IF o.kind = "tag" THEN TagValue ELSE 0)
                + (IF known \/ o.kind # "tag" THEN 1 ELSE 0)
        old == IF known THEN map[o.word] ELSE 0
    IN  [w \in DOMAIN map \cup {o.word} |-> IF w = o.word THEN old + gain ELSE map[w]]

\* AddKeyToMapWithProperty, for one word after the other.
Occurrences == FlattenSeq([i \in DOMAIN reads |-> reads[i].words])

CountWord ==
    /\ pc = "count"
    /\ place <= Len(Occurrences)
    /\ LET o == Occurrences[place]
       IN  weight' = IF o.kind = "other" THEN weight ELSE Weighed(weight, o)
    /\ place' = place + 1
    /\ pc' = IF Cardinality(DOMAIN weight') > TopicMapThrod THEN "purge" ELSE "count"
    /\ UNCHANGED <<reads, purged, feature, cooc, throd, clusters, index, messages, messageNum, taken>>

\* DeleteElementsBelowThrod goes on from an element it has erased: it may miss others
\* or die.
Rare == {w \in DOMAIN weight : weight[w] < FreqLimit}

Purge ==
    /\ pc = "purge"
    /\ \E erased \in SUBSET Rare :
          /\ Rare # {} => Min(Rare) \in erased
          /\ weight' = Restrict(weight, DOMAIN weight \ erased)
    /\ purged' = TRUE
    /\ pc' = "count"
    /\ UNCHANGED <<reads, place, feature, cooc, throd, clusters, index, messages, messageNum, taken>>

PurgeDies ==
    /\ pc = "purge"
    /\ Rare # {}
    /\ pc' = "crashed"
    /\ UNCHANGED <<reads, place, weight, purged, feature, cooc, throd, clusters, index,
                   messages, messageNum, taken>>

\* TopicWordSort: of the heaviest words those above the limit.
Heaviest(set) ==
    /\ set \subseteq DOMAIN weight
    /\ Cardinality(set) = Min({Cardinality(DOMAIN weight), TopicWordNum})
    /\ \A v \in set, w \in DOMAIN weight \ set : weight[v] >= weight[w]

TopicWordSort ==
    /\ pc = "count"
    /\ EndOfScan(Occurrences, "cooccur")
    /\ \E set \in SUBSET DOMAIN weight :
          /\ Heaviest(set)
          /\ feature' = {w \in set : weight[w] > FreqLimit}
    /\ UNCHANGED <<reads, weight, purged, cooc, throd, clusters, index, messages, messageNum, taken>>

-----------------------------------------------------------------------------
(* Cluster: the co-occurrence of feature words *)

Count(list, w) == Cardinality({i \in DOMAIN list : list[i] = w})

WithFirst_NewIsOne(matrix, list, first) ==
    LET old == IF first \in DOMAIN matrix THEN matrix[first] ELSE None
        new == [w \in DOMAIN old \cup ((Range(list) \cap feature) \ {first}) |->
                   IF w \in DOMAIN old THEN old[w] + Count(list, w) ELSE 1]
    IN  [w \in DOMAIN matrix \cup {first} |-> IF w = first THEN new ELSE matrix[w]]

\* One turn of the loop over firstword: each feature word of the list meets it.
WithFirst(matrix, list, first) ==
    LET old == IF first \in DOMAIN matrix THEN matrix[first] ELSE None
        new == [w \in DOMAIN old \cup ((Range(list) \cap feature) \ {first}) |->
                   (IF w \in DOMAIN old THEN old[w] ELSE 0) + Count(list, w)]
    IN  [w \in DOMAIN matrix \cup {first} |-> IF w = first THEN new ELSE matrix[w]]

\* The loop: only feature words are in the list that is gone through.
Counted(matrix, list) ==
    LET after[i \in 0..Len(list)] ==
            IF i = 0 THEN matrix
            ELSE IF list[i] \in feature THEN WithFirst(after[i - 1], list, list[i])
            ELSE after[i - 1]
    IN  after[Len(list)]

WordsOf(r) == [i \in DOMAIN r.words |-> r.words[i].word]

CooccurRow ==
    /\ pc = "cooccur"
    /\ place <= Len(reads)
    /\ cooc' = Counted(cooc, WordsOf(reads[place]))
    /\ place' = place + 1
    /\ UNCHANGED <<pc, reads, weight, purged, feature, throd, clusters, index, messages, messageNum, taken>>

-----------------------------------------------------------------------------
(* Cluster: the threshold, and the pass over the words *)

\* The first entry of a word that was drawn; it has none if it never met another.
FirstEntry(w) ==
    IF DOMAIN cooc[w] = {} THEN Garbage ELSE {cooc[w][Min(DOMAIN cooc[w])]}

\* GenClusterThrod: the last word is never drawn, and with one word nothing is: then
\* the mean is not a number, which no comparison finds above anything.  The first word
\* begins the first topic; without a feature word its place is read all the same.
Threshold ==
    /\ pc = "cooccur"
    /\ feature # {}
    /\ EndOfScan(reads, "assign")
    /\ LET drawn == UNION {FirstEntry(w) : w \in DOMAIN cooc \ {Max(DOMAIN cooc)}}
           size == Min({RandSize, Cardinality(DOMAIN cooc) - 1})
       IN  \E draw \in [1..size -> drawn] :
              throd' = [num |-> SumFunction(draw) + ThrodAdd * size, den |-> size]
    /\ clusters' = <<<<Min(feature)>>>>
    /\ UNCHANGED <<reads, weight, purged, feature, cooc, index, messages, messageNum, taken>>

NoFeatureWord ==
    /\ pc = "cooccur"
    /\ feature = {}
    /\ place > Len(reads)
    /\ pc' = "crashed"
    /\ UNCHANGED <<reads, place, weight, purged, feature, cooc, throd, clusters, index,
                   messages, messageNum, taken>>

\* Cal_Words_Topic_Distance, a fraction.
Together(w, v) == IF w \in DOMAIN cooc /\ v \in DOMAIN cooc[w] THEN cooc[w][v] ELSE 0
SumTogether(w, words) == SumFunction([i \in DOMAIN words |-> Together(w, words[i])])

Distance_Sum(w, topic) == [num |-> SumTogether(w, topic), den |-> 1]
Distance(w, topic) == [num |-> SumTogether(w, topic), den |-> Len(topic)]

Less(p, q) == p.num * q.den < q.num * p.den

\* The first of the nearest topics.
Nearest(w) ==
    LET dist(k) == Distance(w, clusters[k])
    IN  CHOOSE k \in DOMAIN clusters :
           \A j \in DOMAIN clusters : ~Less(dist(k), dist(j)) /\ (j < k => Less(dist(j), dist(k)))

Assigned == UNION {Range(clusters[k]) : k \in DOMAIN clusters}
Unassigned == feature \ Assigned

Assign ==
    /\ pc = "assign"
    /\ Unassigned # {}
    /\ LET w == Min(Unassigned)
           k == Nearest(w)
       IN  clusters' = IF Less(Distance(w, clusters[k]), throd)
                       THEN Append(clusters, <<w>>)
                       ELSE [clusters EXCEPT ![k] = Append(@, w)]
    /\ UNCHANGED <<pc, reads, place, weight, purged, feature, cooc, throd, index,
                   messages, messageNum, taken>>

-----------------------------------------------------------------------------
(* Cluster: the messages of a topic *)

\* MatchWeiboIDToTopic: an empty set for each word of a topic that has enough words,
Match ==
    /\ pc = "assign"
    /\ Unassigned = {}
    /\ pc' = "index"
    /\ index' = [w \in UNION {Range(clusters[k]) :
                                 k \in {i \in DOMAIN clusters : Len(clusters[i]) >= BelongThrod}} |-> {}]
    /\ UNCHANGED <<reads, place, weight, purged, feature, cooc, throd, clusters,
                   messages, messageNum, taken>>

\* then a scan that fills the sets.
IndexRow ==
    /\ pc = "index"
    /\ place <= Len(reads)
    /\ index' = [w \in DOMAIN index |->
                    IF w \in Range(WordsOf(reads[place])) THEN index[w] \cup {reads[place].mid}
                    ELSE index[w]]
    /\ place' = place + 1
    /\ UNCHANGED <<pc, reads, weight, purged, feature, cooc, throd, clusters,
                   messages, messageNum, taken>>

\* ListEveryTopicWeiboId: the messages with enough words of the topic.  Too few of them
\* are dropped again, but their number stays.
Ids(w) == IF w \in DOMAIN index THEN index[w] ELSE {}
Belonging(topic) ==
    {m \in UNION {Ids(w) : w \in Range(topic)} :
        Cardinality({w \in Range(topic) : m \in Ids(w)}) >= BelongThrod}

ListAllTopicWeiboId ==
    /\ pc = "index"
    /\ EndOfScan(reads, "sort")
    /\ messageNum' = [k \in DOMAIN clusters |-> Cardinality(Belonging(clusters[k]))]
    /\ messages' = [k \in DOMAIN clusters |->
                       IF messageNum'[k] <= MinMessageNum THEN {} ELSE Belonging(clusters[k])]
    /\ UNCHANGED <<reads, weight, purged, feature, cooc, throd, clusters, index, taken>>

\* SortTopic; of equal topics either may come first.
Descending(order) ==
    \A i, j \in DOMAIN order : i < j => messageNum[order[i]] >= messageNum[order[j]]

\* InsterAllTopicToDatabase stops at the first topic that is too small, and
\* GetOneTopicWeiboByBatch leaves one of the least size at once.
Stored(order) ==
    LET after[i \in 0..Len(order)] ==
            IF i = 0 THEN <<>>
            ELSE IF /\ \A j \in 1..i : messageNum[order[j]] >= MinMessageNum
                    /\ messageNum[order[i]] > MinMessageNum
            THEN Append(after[i - 1], order[i])
            ELSE after[i - 1]
    IN  after[Len(order)]

SortTopic_None ==
    /\ pc = "sort"
    /\ pc' = "done"
    /\ taken' = Stored([k \in DOMAIN clusters |-> k])
    /\ UNCHANGED <<reads, place, weight, purged, feature, cooc, throd, clusters, index,
                   messages, messageNum>>

SortTopic ==
    /\ pc = "sort"
    /\ pc' = "done"
    /\ \E order \in {f \in [DOMAIN clusters -> DOMAIN clusters] : IsInjective(f)} :
          /\ Descending(order)
          /\ taken' = Stored(order)
    /\ UNCHANGED <<reads, place, weight, purged, feature, cooc, throd, clusters, index,
                   messages, messageNum>>

Next ==
    \/ CountWord \/ Purge \/ PurgeDies \/ TopicWordSort
    \/ CooccurRow \/ Threshold \/ NoFeatureWord \/ Assign
    \/ Match \/ IndexRow \/ ListAllTopicWeiboId \/ SortTopic

Spec == Init /\ [][Next]_vars

-----------------------------------------------------------------------------
(* Properties *)

\* The weight a word has by all its occurrences.
Places(w, kinds) ==
    {i \in DOMAIN Occurrences : Occurrences[i].word = w /\ Occurrences[i].kind \in kinds}

Weight(w) ==
    LET counted == Places(w, {"tag", "noun"})
        newInTag == counted # {} /\ Occurrences[Min(counted)].kind = "tag"
    IN  TagValue * Cardinality(Places(w, {"tag"})) + Cardinality(counted) - (IF newInTag THEN 1 ELSE 0)

\* However often the map was purged, and whatever that erased, a feature word is above
\* the limit by all its occurrences.  Without a purge no heavier word is passed over.
FeatureWordsFrequent ==
    pc \notin {"count", "purge", "crashed"} =>
        /\ \A w \in feature : Weight(w) > FreqLimit
        /\ Cardinality(feature) <= TopicWordNum
        /\ ~purged => \A w \in Word \ feature : Weight(w) > FreqLimit =>
               /\ Cardinality(feature) = TopicWordNum
               /\ \A v \in feature : Weight(v) >= Weight(w)

\* The matrix has an entry for each pair of feature words that met in a row so far, and
\* counts each pair of their occurrences in a place, in both directions alike.
Met(a, b, n) == SumFunction([i \in 1..n |-> Count(WordsOf(reads[i]), a) * Count(WordsOf(reads[i]), b)])

CooccurrenceExact ==
    pc \notin {"count", "purge", "crashed"} =>
        LET n == IF pc = "cooccur" THEN place - 1 ELSE Len(reads)
        IN  /\ DOMAIN cooc = {w \in feature : \E i \in 1..n : w \in Range(WordsOf(reads[i]))}
            /\ \A a \in DOMAIN cooc :
                  /\ DOMAIN cooc[a] = {b \in feature \ {a} : Met(a, b, n) > 0}
                  /\ \A b \in DOMAIN cooc[a] : cooc[a][b] = Met(a, b, n)

\* Whatever was drawn for the threshold, each feature word is in one topic: the first
\* of those that were nearest by the words before it, if one was near enough, and
\* else the one that it began.
Before(w, k) == {v \in Range(clusters[k]) : v < w}
Mean(w, k) == [num |-> SumFunction([v \in Before(w, k) |-> Met(w, v, Len(reads))]),
               den |-> Cardinality(Before(w, k))]

EachWordInNearestTopic ==
    \A k \in DOMAIN clusters : \A i \in DOMAIN clusters[k] :
        LET w == clusters[k][i]
            others == {j \in DOMAIN clusters : Before(w, j) # {}}
        IN  /\ \A j \in DOMAIN clusters : \A h \in DOMAIN clusters[j] :
                  clusters[j][h] = w => j = k /\ h = i
            /\ IF i = 1
               THEN \A j \in others : Less(Mean(w, j), throd)
               ELSE /\ k \in others /\ ~Less(Mean(w, k), throd)
                    /\ \A j \in others \ {k} :
                          IF j < k THEN Less(Mean(w, j), Mean(w, k)) ELSE ~Less(Mean(w, k), Mean(w, j))

\* Exactly the topics with more than the least number of messages are stored, largest
\* first, with each message that has enough of their words, counted once however often
\* its row was read.  (At the least number itself the three comparisons of the code do
\* not agree, and the two that leave the topic out win: see LeastTopicsStored.)
MessagesWith(topic) ==
    {reads[i].mid : i \in {j \in DOMAIN reads :
        Cardinality(Range(topic) \cap Range(WordsOf(reads[j]))) >= BelongThrod}}

LargeTopicsStoredWhole ==
    pc = "done" =>
        /\ Range(taken) = {k \in DOMAIN clusters : Cardinality(MessagesWith(clusters[k])) > MinMessageNum}
        /\ \A i \in DOMAIN taken : messages[taken[i]] = MessagesWith(clusters[taken[i]])
        /\ \A i, j \in DOMAIN taken :
              i < j => /\ taken[i] # taken[j]
                       /\ Cardinality(messages[taken[i]]) >= Cardinality(messages[taken[j]])

\* A topic is kept from the database if it has fewer messages than the least number: the
\* comment of MIN_TOPIC_MESSAGE_NUM says so, and InsterAllTopicToDatabase stops at such
\* a topic.  But the messages of a topic of just that number are dropped before.
LeastTopicsStored ==
    pc = "done" =>
        \A k \in DOMAIN clusters :
            Cardinality(MessagesWith(clusters[k])) >= MinMessageNum => k \in Range(taken)
=============================================================================
