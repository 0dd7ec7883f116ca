----------------------------- MODULE TableState -----------------------------
(***************************************************************************)
(* sina_api/weibo_crawl/statistics.py: how the integration script decides  *)
(* which tables of the crawler no longer change.  A detection reads the    *)
(* list of tables, counts the rows of each new one, sleeps, counts again   *)
(* and lists those whose number has not changed.  The crawler works on the *)
(* same database meanwhile: for each hour of messages it creates three     *)
(* tables, one after the other, and its transactions add rows to them      *)
(* (persist.py, db_handler.py).  The programs that the rounds call make    *)
(* tables of their own in it, which carry the number of the hour: two of   *)
(* them stand for all here, one whose name is sorted before the three of   *)
(* the crawler and one that comes between them.                            *)
(*                                                                         *)
(* The script takes the list in groups of three, so that one table more or *)
(* less shifts all the triples after it.  What the programs make of their  *)
(* triples is modelled in Pipeline.                                        *)
(***************************************************************************)
EXTENDS Integers, Sequences, FiniteSets, SequencesExt

CONSTANTS
    MaxHour,     \* bound: hours of messages
    MaxSize,     \* bound: transactions that add rows to a table
    MaxOwn,      \* bound: tables the programs of the rounds make
    MaxDetection \* bound: detections and restarts during which there is other work

ASSUME BoundsAssumption == {MaxHour, MaxSize, MaxOwn, MaxDetection} \subseteq Nat

Hours == 1..MaxHour

\* In the order in which Python sorts them, and in the order of their creation.
Kinds == <<"FilteredMicroblog", "Microblog", "OneDayTopic_FilteredMicroblog",
           "UserToBlog", "WeiboUser">>
CreationOrder == <<"WeiboUser", "Microblog", "UserToBlog">>

Table(h, kind) == [hour |-> h, kind |-> kind]
Message(h)     == Table(h, "Microblog")
UserToBlog(h)  == Table(h, "UserToBlog")
User(h)        == Table(h, "WeiboUser")
Filtered(h)    == Table(h, "FilteredMicroblog")
OneDayTopic(h) == Table(h, "OneDayTopic_FilteredMicroblog")

TablesOf(h) == {Message(h), UserToBlog(h), User(h)}
OwnOf(h) == {Filtered(h), OneDayTopic(h)}
AllTables == UNION {TablesOf(h) \cup OwnOf(h) : h \in Hours}

VARIABLES
    size,        \* size[t]: rows of the table t, for the tables there are
    oldest,      \* the first hour within interval_limit
    pc,          \* "idle", "measure", "compare"
    queue,       \* the tables the present loop has still to look at
    new,         \* new_tables: table |-> rows when it was first counted
    cached,      \* cached_static_table_names, the names
    detections,  \* how many detections and restarts there were
    disturbed,   \* hours that were incomplete, or touched, during a detection
    given        \* the tables the programs of the rounds were given, or have made

vars == <<size, oldest, pc, queue, new, cached, detections, disturbed, given>>

Tables == DOMAIN size
Complete(h) == TablesOf(h) \subseteq Tables
Fresh(t) == t.hour >= oldest

NoSizes == [t \in {} |-> 0]

Init ==
    /\ size = NoSizes
    /\ oldest = 1
    /\ pc = "idle"
    /\ queue = <<>>
    /\ new = NoSizes
    /\ cached = <<>>
    /\ detections = 0
    /\ disturbed = {}
    /\ given = {}

-----------------------------------------------------------------------------
(* The crawler and the clock *)

Disturbs(hours) == disturbed' = IF pc = "idle" THEN disturbed ELSE disturbed \cup hours

Working == detections < MaxDetection

\* create_model_class, one table at a time.
CreateTable ==
    /\ Working
    /\ \E h \in Hours, i \in 1..3 :
          LET t == Table(h, CreationOrder[i])
          IN  /\ t \notin Tables
              /\ \A j \in 1..(i - 1) : Table(h, CreationOrder[j]) \in Tables
              /\ size' = [s \in Tables \cup {t} |-> IF s = t THEN 0 ELSE size[s]]
              /\ Disturbs({h})
    /\ UNCHANGED <<oldest, pc, queue, new, cached, detections, given>>

\* What a transaction adds rows to: users, messages, relations, in this order.
\* Its users may all be there already, and after an error, which is swallowed,
\* the rows of the statements before it are committed.
Additions(h) ==
    LET known == size[Table(h, "WeiboUser")] > 0
        done  == {1..n : n \in 1..3} \cup (IF known THEN {2..n : n \in 2..3} ELSE {})
    IN  {{Table(h, CreationOrder[i]) : i \in s} : s \in done}

\* The transaction of one answer of the API.  One with messages of several hours is
\* several of these in a row.
Commit ==
    /\ Working
    /\ \E h \in {g \in Hours : Complete(g)} : \E T \in Additions(h) :
          /\ \A t \in T : size[t] < MaxSize
          /\ size' = [t \in Tables |-> IF t \in T THEN size[t] + 1 ELSE size[t]]
          /\ Disturbs({h})
    /\ UNCHANGED <<oldest, pc, queue, new, cached, detections, given>>

\* An hour gets older than interval_limit.
Expire ==
    /\ Working
    /\ oldest \in Hours
    /\ oldest' = oldest + 1
    /\ Disturbs({oldest})
    /\ UNCHANGED <<size, pc, queue, new, cached, detections, given>>

-----------------------------------------------------------------------------
(* The programs of the rounds *)

\* run_filter makes the filtered table of an hour whose messages it was given, and
\* run_dataprocess, which is given the filtered table, those of the topics, if there
\* are rows in it.
CreateOwn ==
    /\ Working
    /\ Cardinality({t \in Tables : t \in OwnOf(t.hour)}) < MaxOwn
    /\ \E h \in Hours : \E t \in OwnOf(h) \ Tables :
          /\ IF t = Filtered(h) THEN Message(h) \in given
             ELSE Filtered(h) \in given /\ size[Filtered(h)] > 0
          /\ size' = [s \in Tables \cup {t} |-> IF s = t THEN 0 ELSE size[s]]
          /\ given' = given \cup {t}
    /\ UNCHANGED <<oldest, pc, queue, new, cached, detections, disturbed>>

\* A transaction of theirs.
FillOwn ==
    /\ Working
    /\ \E h \in Hours : \E t \in OwnOf(h) \cap given :
          /\ size[t] < MaxSize
          /\ size' = [size EXCEPT ![t] = @ + 1]
    /\ UNCHANGED <<oldest, pc, queue, new, cached, detections, disturbed, given>>

-----------------------------------------------------------------------------
(* _double_check_strategy *)

Rank(t) == CHOOSE i \in 1..Len(Kinds) : Kinds[i] = t.kind

\* sorted(metadata.tables, key=extract_key)
Before(s, t) == s.hour < t.hour \/ (s.hour = t.hour /\ Rank(s) < Rank(t))

Sorted(S) ==
    [i \in 1..Cardinality(S) |->
        CHOOSE t \in S : Cardinality({s \in S : Before(s, t)}) = i - 1]

\* metadata.reflect: all tables of the database, those of the programs included.
Reflected_Once == IF detections = 0 THEN Tables ELSE ToSet(cached)
Reflected == Tables

Reflect ==
    /\ pc = "idle"
    /\ pc' = "measure"
    /\ queue' = Sorted(Reflected)
    /\ new' = NoSizes
    /\ disturbed' = disturbed \cup {h \in Hours : ~Complete(h) /\ TablesOf(h) \cap Tables # {}}
    /\ UNCHANGED <<size, oldest, cached, detections, given>>

\* The tables whose rows are counted at all.
IsNew(t) == t \notin ToSet(cached) /\ Fresh(t)

Measure ==
    /\ pc = "measure"
    /\ queue # <<>>
    /\ queue' = Tail(queue)
    /\ LET t == Head(queue)
       IN  new' = IF IsNew(t)
                  THEN [s \in DOMAIN new \cup {t} |-> IF s = t THEN size[t] ELSE new[s]]
                  ELSE new
    /\ UNCHANGED <<size, oldest, pc, cached, detections, disturbed, given>>

\* new_tables.items(), in the order of insertion.
ItemsOf_Unordered(f) == Reverse(Sorted(DOMAIN f))
ItemsOf_ButLast(f) == IF f = NoSizes THEN <<>> ELSE Front(Sorted(DOMAIN f))
ItemsOf(f) == Sorted(DOMAIN f)

\* time.sleep(5), and the second loop.
Sleep ==
    /\ pc = "measure"
    /\ queue = <<>>
    /\ pc' = "compare"
    /\ queue' = ItemsOf(new)
    /\ UNCHANGED <<size, oldest, new, cached, detections, disturbed, given>>

IsStable(t) == size[t] = new[t]

Compare ==
    /\ pc = "compare"
    /\ queue # <<>>
    /\ queue' = Tail(queue)
    /\ cached' = IF IsStable(Head(queue)) THEN Append(cached, Head(queue)) ELSE cached
    /\ UNCHANGED <<size, oldest, pc, new, detections, disturbed, given>>

\* get_static_tables returns the list.  The detections after MaxDetection are
\* those that the crawler does not disturb any more, and are not counted.
Return ==
    /\ pc = "compare"
    /\ queue = <<>>
    /\ pc' = "idle"
    /\ new' = NoSizes
    /\ detections' = IF Working THEN detections + 1 ELSE detections
    /\ given' = given \cup ToSet(cached)
    /\ UNCHANGED <<size, oldest, queue, cached, disturbed>>

\* The database refuses a count, which ends the thread of the round with an exception;
\* what the second loop has listed by then stays in the cache.  (If it refuses the list
\* of tables, nothing has changed yet.)
CountFails ==
    /\ Working
    /\ queue # <<>>
    /\ \/ pc = "measure" /\ IsNew(Head(queue)) /\ UNCHANGED disturbed
       \/ /\ pc = "compare"
          /\ disturbed' = disturbed \cup
                {h \in Hours : \A s \in {cached, queue} : TablesOf(h) \cap ToSet(s) # {}}
    /\ pc' = "idle"
    /\ queue' = <<>>
    /\ new' = NoSizes
    /\ detections' = detections + 1
    /\ UNCHANGED <<size, oldest, cached, given>>

\* The script and its programs are killed, and it is started again with an empty cache.
Restart ==
    /\ Working
    /\ pc' = "idle"
    /\ queue' = <<>>
    /\ new' = NoSizes
    /\ cached' = <<>>
    /\ detections' = detections + 1
    /\ disturbed' = {}
    /\ given' = {}
    /\ UNCHANGED <<size, oldest>>

Detect == Reflect \/ Measure \/ Sleep \/ Compare \/ Return

Next ==
    \/ CreateTable \/ Commit \/ Expire
    \/ CreateOwn \/ FillOwn
    \/ Detect \/ CountFails \/ Restart

Spec == Init /\ [][Next]_vars

\* The script starts a detection every hour and each takes its steps.
FairSpec == Spec /\ WF_vars(Detect)
-----------------------------------------------------------------------------
(* Properties *)

TypeOK ==
    /\ size \in [Tables -> 0..MaxSize]
    /\ Tables \subseteq AllTables
    /\ oldest \in 1..(MaxHour + 1)
    /\ pc \in {"idle", "measure", "compare"}
    /\ ToSet(queue) \subseteq Tables
    /\ DOMAIN new \subseteq Tables
    /\ \A t \in DOMAIN new : new[t] \in 0..size[t]
    /\ ToSet(cached) \subseteq Tables
    /\ detections \in 0..MaxDetection
    /\ disturbed \subseteq Hours
    /\ given \subseteq Tables

\* The tables of the hour stand in the list s once each, at i, j and k, and between
\* them there are at most tables that the programs made for the same hour.
GroupAt(s, h, i, j, k) ==
    /\ i < j /\ j < k
    /\ s[i] = Message(h) /\ s[j] = UserToBlog(h) /\ s[k] = User(h)
    /\ \A p \in (1..Len(s)) \ {i, j, k} :
          /\ s[p] \notin TablesOf(h)
          /\ i < p /\ p < k => s[p] \in OwnOf(h)

\* A detection lists an hour as a whole or not at all, and its tables stand together in
\* the order of a triple, unless the crawler or the clock came between the steps of a
\* detection, its tables were not all there, or a count between them was refused.
WholeHours ==
    pc = "idle" =>
        \A h \in Hours \ disturbed :
            \/ TablesOf(h) \cap ToSet(cached) = {}
            \/ \E i, j, k \in 1..Len(cached) : GroupAt(cached, h, i, j, k)

\* The groups of three are the triples of single hours, also when hours become
\* static in another order than they began, as long as no detection was disturbed
\* and none has listed a table of the programs.
TriplesAligned ==
    /\ pc = "idle" /\ disturbed = {}
    /\ \A h \in Hours : OwnOf(h) \cap ToSet(cached) = {}
    => /\ Len(cached) % 3 = 0
       /\ \A n \in 0..(Len(cached) \div 3 - 1) : \E h \in Hours :
             /\ cached[3 * n + 1] = Message(h)
             /\ cached[3 * n + 2] = UserToBlog(h)
             /\ cached[3 * n + 3] = User(h)

\* The tables of a complete hour are listed at last, although each detection may
\* find them changing or fail, and a restart empties the list, unless the hour gets
\* too old before that.
EveryHourFound ==
    \A h \in Hours : Complete(h) ~> TablesOf(h) \subseteq ToSet(cached) \/ oldest > h
=============================================================================
