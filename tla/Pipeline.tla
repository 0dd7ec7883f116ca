------------------------------ MODULE Pipeline ------------------------------
(***************************************************************************)
(* intergrate_script.py and the three programs it calls: every hour a      *)
(* round takes the tables that no longer change, lets run_filter, then     *)
(* run_dataprocess and then interface loose on them, and passes table      *)
(* names from one to the next through temporary files.  Rounds are         *)
(* threads: a round that takes more than an hour overlaps with the next.   *)
(*                                                                         *)
(* All programs, and the crawler, work in the database sina of one host.   *)
(* The crawler creates the tables of an hour one after the other, and a    *)
(* table it may still add rows to is listed by a detection or not.  The    *)
(* steps of a detection, and how it comes to list an hour in part, are     *)
(* modelled in TableState; here a detection is one step.                   *)
(***************************************************************************)
EXTENDS Integers, Sequences, FiniteSets, SequencesExt

CONSTANTS
    MaxHour,      \* bound: hours the crawler makes tables for
    MaxRound,     \* bound: rounds of one run of the script, from 0
    MaxTopics,    \* bound: topics of an hour
    MaxRestarts,  \* bound: how often the script is started again
    MaxFaults     \* bound: programs that crash and statements the database refuses

ASSUME BoundsAssumption ==
    {MaxHour, MaxRound, MaxTopics, MaxRestarts, MaxFaults} \subseteq Nat

Hours == 1..MaxHour
Rounds == 0..MaxRound

Kinds_Created == <<"WeiboUser", "Microblog", "UserToBlog", "FilteredMicroblog",
                   "OneDayTopic_FilteredMicroblog", "Topic_FilteredMicroblog_">>

\* Names without digits, in the order in which Python sorts them.
Kinds == <<"FilteredMicroblog", "Microblog", "OneDayTopic_FilteredMicroblog",
           "Topic_FilteredMicroblog_", "UserToBlog", "WeiboUser">>

\* A table name: its first number, its text, and its second number or 0.
Table(h, kind, id) == [hour |-> h, kind |-> kind, id |-> id]
Message(h)     == Table(h, "Microblog", 0)
UserToBlog(h)  == Table(h, "UserToBlog", 0)
User(h)        == Table(h, "WeiboUser", 0)
Filtered(h)    == Table(h, "FilteredMicroblog", 0)
OneDayTopic(h) == Table(h, "OneDayTopic_FilteredMicroblog", 0)
Topic(h, id)   == Table(h, "Topic_FilteredMicroblog_", id)
Crawled(h)     == {Message(h), UserToBlog(h), User(h)}
CreationOrder(h) == <<User(h), Message(h), UserToBlog(h)>>

VARIABLES
    tables,     \* the tables of the database, those of interface apart
    filled,     \* the hours whose Filtered table has got its rows
    subtopics,  \* the topic tables interface has made Sub_ tables for
    newest,     \* the last hour the crawler made a table for
    settled,    \* the last hour the crawler neither creates nor fills a table of
    oldest,     \* the first hour within INTERVAL_LIMIT
    cached,     \* TableState::cached_static_table_names
    round,      \* round[r]: the state of a call of intergration()
    restarts,   \* how often the script was started again
    faults,     \* crashes and refusals so far
    given,      \* given[h]: how often Filtered(h), once it exists, was given on
    unseen,     \* hours whose table, or a run making it, a check did not see
    refused,    \* hours whose filtered table or rows the database once refused
    torn        \* hours of which, at some time, only a part was cached

vars == <<tables, filled, subtopics, newest, settled, oldest, cached, round, restarts,
          faults, given, unseen, refused, torn>>
database == <<tables, filled, subtopics>>
history == <<given, unseen, refused, torn>>

\* todo: the inputs the call_procedure of this stage has still to take;
\* out: its output_sets; names: the topics the running run_dataprocess has made;
\* odd: whether a call of it did not give two lines.
Idle == [pc |-> "idle", step |-> "next", todo |-> <<>>, out |-> <<>>, names |-> <<>>,
         odd |-> FALSE]
Ended(pc) == [Idle EXCEPT !.pc = pc]

Init ==
    /\ tables = {}
    /\ filled = {}
    /\ subtopics = {}
    /\ newest = 0
    /\ settled = 0
    /\ oldest = 1
    /\ cached = <<>>
    /\ round = [r \in Rounds |-> Idle]
    /\ restarts = 0
    /\ faults = 0
    /\ given = [h \in Hours |-> 0]
    /\ unseen = {}
    /\ refused = {}
    /\ torn = {}

\* A program dies, or the database refuses a statement.
Fault == faults < MaxFaults /\ faults' = faults + 1

-----------------------------------------------------------------------------
(* The crawler and the clock *)

\* create_model_class, one table at a time.  The table of an hour may be made while
\* messages of the hour before still come in.
CrawlTable ==
    /\ \E h \in {g \in Hours : settled < g /\ g <= newest + 1}, i \in 1..3 :
          /\ CreationOrder(h)[i] \notin tables
          /\ \A j \in 1..(i - 1) : CreationOrder(h)[j] \in tables
          /\ tables' = tables \cup {CreationOrder(h)[i]}
          /\ newest' = IF h > newest THEN h ELSE newest
    /\ UNCHANGED <<filled, subtopics, settled, oldest, cached, round, restarts, faults,
                   history>>

\* The crawler has stored the last message of the hour, or a failed creation keeps
\* it from storing any (CrawlerStore), so that a table may be missing.
SettleHour ==
    /\ settled < newest
    /\ settled' = settled + 1
    /\ UNCHANGED <<database, newest, oldest, cached, round, restarts, faults, history>>

Expire ==
    /\ oldest <= newest
    /\ oldest' = oldest + 1
    /\ UNCHANGED <<database, newest, settled, cached, round, restarts, faults, history>>

-----------------------------------------------------------------------------
(* A round: get_static_tables and the generator of triples *)

Rank(t) == CHOOSE i \in 1..Len(Kinds) : Kinds[i] = t.kind

\* sorted(metadata.tables, key=extract_key)
Before(s, t) ==
    \/ s.hour < t.hour
    \/ s.hour = t.hour /\ Rank(s) < Rank(t)
    \/ s.hour = t.hour /\ Rank(s) = Rank(t) /\ s.id < t.id

Sorted(S) ==
    [i \in 1..Cardinality(S) |->
        CHOOSE t \in S : Cardinality({s \in S : Before(s, t)}) = i - 1]

\* The tables that are not cached and not too old.
NewTables == {t \in tables \ ToSet(cached) : t.hour >= oldest}

\* A table to which the crawler, or a program of another round, may be adding rows.
Changing(t) ==
    IF t \in Crawled(t.hour)
    THEN t.hour > settled
    ELSE \E q \in Rounds : round[q].step = "insert" /\ Head(round[q].todo).hour = t.hour

\* get_static_tables: what it leaves out of the list, when `first' is the first hour
\* within the limit at its end.  A table may be left out because it changes, and is if
\* it does not yet exist when the list is read.  The time is asked for each table, so
\* that an hour may become too old between two of its tables.
LeftOut(X, first) ==
    /\ first <= newest + 1
    /\ X \subseteq NewTables
    /\ \A t \in X : Changing(t) \/ t.hour < first
    /\ \A s \in X, t \in NewTables \ X : s.hour = t.hour /\ Before(s, t) => Changing(s)

\* The main thread runs round 0 and then starts a thread every hour.
MayStart(r) ==
    \/ r = 0
    \/ r = 1 /\ round[0].pc = "done"
    \/ r > 1 /\ round[r - 1].pc # "idle"

InPart(static) == {h \in Hours : Crawled(h) \cap ToSet(static) \notin {{}, Crawled(h)}}

\* The cache of table names grows by those in `listed'.
Cached(listed) ==
    /\ cached' = cached \o Sorted(listed)
    /\ torn' = torn \cup InPart(cached')

Start_Fresh(r) ==
    /\ round[r].pc = "idle"
    /\ MayStart(r)
    /\ \E X \in SUBSET NewTables, first \in {oldest, oldest + 1} :
          /\ LeftOut(X, first)
          /\ oldest' = first
          /\ Cached(NewTables \ X)
          /\ round' = [round EXCEPT ![r].pc = "clean", ![r].todo = Sorted(NewTables \ X)]
    /\ UNCHANGED <<database, newest, settled, restarts, faults, given, unseen, refused>>

Start(r) ==
    /\ round[r].pc = "idle"
    /\ MayStart(r)
    /\ \E X \in SUBSET NewTables, first \in {oldest, oldest + 1} :
          /\ LeftOut(X, first)
          /\ oldest' = first
          /\ Cached(NewTables \ X)
    /\ round' = [round EXCEPT ![r].pc = "clean", ![r].todo = cached']
    /\ UNCHANGED <<database, newest, settled, restarts, faults, given, unseen, refused>>

\* The database refuses the list of tables or a count.  The exception ends the thread,
\* and the tables before the one it was counting stay in the cache.
DetectionFails(r) ==
    /\ round[r].pc = "idle"
    /\ MayStart(r)
    /\ Fault
    /\ \E X \in SUBSET NewTables, first \in {oldest, oldest + 1} :
          /\ LeftOut(X, first)
          /\ oldest' = first
          /\ \/ Cached({})
             \/ \E at \in NewTables : Cached({t \in NewTables \ X : Before(t, at)})
    /\ round' = [round EXCEPT ![r] = Ended("failed")]
    /\ UNCHANGED <<database, newest, settled, restarts, given, unseen, refused>>

Triple(s) == <<s[1].kind, s[2].kind, s[3].kind>>
Rest(s) == SubSeq(s, 4, Len(s))

\* group_adjacent leaves out an incomplete triple at the end; a triple with other
\* names fails the assertion, which ends the thread.
NextTriple(r) ==
    /\ round[r].pc = "clean"
    /\ round[r].step = "next"
    /\ \/ /\ Len(round[r].todo) < 3
          /\ round' = [round EXCEPT ![r].pc = "topics", ![r].todo = round[r].out,
                                    ![r].out = <<>>]
       \/ /\ Len(round[r].todo) >= 3
          /\ Triple(round[r].todo) = <<"Microblog", "UserToBlog", "WeiboUser">>
          /\ round' = [round EXCEPT ![r].step = "check"]
       \/ /\ Len(round[r].todo) >= 3
          /\ Triple(round[r].todo) # <<"Microblog", "UserToBlog", "WeiboUser">>
          /\ round' = [round EXCEPT ![r] = Ended("aborted")]
    /\ UNCHANGED <<database, newest, settled, oldest, cached, restarts, faults, history>>

-----------------------------------------------------------------------------
(* run_filter, step by step; the state of one run of it is in RunFilter *)

Hour(r) == Head(round[r].todo).hour
Cleaning(r, step) == round[r].pc = "clean" /\ round[r].step = step

\* The program ended without an output, or with the name of the filtered table.
Cleaned(r, out) ==
    round' = [round EXCEPT ![r].step = "next", ![r].todo = Rest(@), ![r].out = @ \o out]

CheckDuplicate_Never(r) ==
    /\ Cleaning(r, "check")
    /\ round' = [round EXCEPT ![r].step = "create"]
    /\ UNCHANGED <<database, newest, settled, oldest, cached, restarts, faults, history>>

CheckDuplicate_Filled(r) ==
    /\ Cleaning(r, "check")
    /\ IF Hour(r) \in filled
       THEN Cleaned(r, <<>>)
       ELSE round' = [round EXCEPT ![r].step = "create"]
    /\ UNCHANGED <<database, newest, settled, oldest, cached, restarts, faults, history>>

\* A run of run_filter has passed the check for hour h and has not ended.
InHand(h) ==
    \E r \in Rounds :
        /\ \E step \in {"create", "insert", "output"} : Cleaning(r, step)
        /\ Hour(r) = h

\* If the list of tables is refused, it is taken to be empty.
CheckDuplicate(r) ==
    /\ Cleaning(r, "check")
    /\ LET there == Filtered(Hour(r)) \in tables
       IN  \/ there /\ Cleaned(r, <<>>) /\ UNCHANGED <<faults, unseen>>
           \/ /\ IF there THEN Fault ELSE UNCHANGED faults
              /\ round' = [round EXCEPT ![r].step = "create"]
              /\ unseen' = IF there \/ InHand(Hour(r)) THEN unseen \cup {Hour(r)} ELSE unseen
    /\ UNCHANGED <<database, newest, settled, oldest, cached, restarts, given, refused,
                   torn>>

CreateTable_ThenOutput(r) ==
    /\ Cleaning(r, "create")
    /\ tables' = tables \cup {Filtered(Hour(r))}
    /\ round' = [round EXCEPT ![r].step = "output"]
    /\ UNCHANGED <<filled, subtopics, newest, settled, oldest, cached, restarts, faults,
                   history>>

CreateTable(r) ==
    /\ Cleaning(r, "create")
    /\ \/ tables' = tables \cup {Filtered(Hour(r))} /\ UNCHANGED <<refused, faults>>
       \/ Fault /\ refused' = refused \cup {Hour(r)} /\ UNCHANGED tables
    /\ round' = [round EXCEPT ![r].step = "insert"]
    /\ UNCHANGED <<filled, subtopics, newest, settled, oldest, cached, restarts, given, unseen,
                   torn>>

\* One transaction, which fails if the rows or not even the table are there, and
\* which the database may refuse; the exception is swallowed.
InsertData(r) ==
    LET possible == Hour(r) \notin filled /\ Filtered(Hour(r)) \in tables
    IN  /\ Cleaning(r, "insert")
        /\ \/ possible /\ filled' = filled \cup {Hour(r)} /\ UNCHANGED <<refused, faults>>
           \/ /\ IF possible THEN Fault ELSE UNCHANGED faults
              /\ refused' = refused \cup {Hour(r)}
              /\ UNCHANGED filled
        /\ round' = [round EXCEPT ![r].step = "output"]
        /\ UNCHANGED <<tables, subtopics, newest, settled, oldest, cached, restarts, given,
                       unseen, torn>>

WriteOutput(r) ==
    /\ Cleaning(r, "output")
    /\ Cleaned(r, <<Filtered(Hour(r))>>)
    /\ given' = IF Filtered(Hour(r)) \in tables THEN [given EXCEPT ![Hour(r)] = @ + 1]
                ELSE given
    /\ UNCHANGED <<database, newest, settled, oldest, cached, restarts, faults, unseen,
                   refused, torn>>

\* The exit status of a program is not looked at.
FilterCrashes(r) ==
    /\ \E step \in {"check", "create", "insert", "output"} : Cleaning(r, step)
    /\ Fault
    /\ Cleaned(r, <<>>)
    /\ UNCHANGED <<database, newest, settled, oldest, cached, restarts, history>>

-----------------------------------------------------------------------------
(* run_dataprocess *)

Detecting(r, step) == round[r].pc = "topics" /\ round[r].step = step

\* The lines that are not empty, of the two that the program writes.
Lines(h, names) == IF names = <<>> THEN <<<<Filtered(h)>>>> ELSE <<<<Filtered(h)>>, names>>

Detected(r, lines) ==
    round' = [round EXCEPT ![r].step = "next", ![r].todo = Tail(@), ![r].out = @ \o lines,
                           ![r].names = <<>>, ![r].odd = @ \/ Len(lines) # 2]

\* The names of one call are opened by the line of the filtered table, which is
\* flushed, and by the OneDayTopic table.
OpenTopics(r) ==
    /\ Detecting(r, "next")
    /\ round[r].todo # <<>>
    /\ Hour(r) \in filled
    /\ tables' = tables \cup {OneDayTopic(Hour(r))}
    /\ round' = [round EXCEPT ![r].step = "insert"]
    /\ UNCHANGED <<filled, subtopics, newest, settled, oldest, cached, restarts, faults,
                   history>>

\* A filtered table without rows gives no words, and clustering dereferences the
\* end of an empty map before it opens anything.
DetectionCrashes(r) ==
    /\ \/ /\ Detecting(r, "next")
          /\ round[r].todo # <<>>
          /\ IF Hour(r) \in filled THEN Fault ELSE UNCHANGED faults
          /\ Detected(r, <<>>)
       \/ Detecting(r, "insert") /\ Fault /\ Detected(r, Lines(Hour(r), <<>>))
    /\ UNCHANGED <<database, newest, settled, oldest, cached, restarts, history>>

TopicsOf(h) == {t \in tables : t.hour = h /\ t.kind = "Topic_FilteredMicroblog_"}

\* InsertData: the topic's id is the highest of the OneDayTopic table.
InsertTopic(r) ==
    LET topic == Topic(Hour(r), Cardinality(TopicsOf(Hour(r))) + 1)
    IN  /\ Detecting(r, "insert")
        /\ topic.id <= MaxTopics
        /\ tables' = tables \cup {topic}
        /\ round' = [round EXCEPT ![r].names = Append(@, topic)]
        /\ UNCHANGED <<filled, subtopics, newest, settled, oldest, cached, restarts, faults,
                   history>>

CloseTopics(r) ==
    /\ Detecting(r, "insert")
    /\ Detected(r, Lines(Hour(r), round[r].names))
    /\ UNCHANGED <<database, newest, settled, oldest, cached, restarts, faults, history>>

-----------------------------------------------------------------------------
(* interface *)

MessageTables_Odd(lines) ==
    FlattenSeq([i \in 1..(Len(lines) \div 2) |-> lines[2 * i - 1]])

\* classify_topic_outputs: every second line names the tables to cluster.
MessageTables(lines) ==
    FlattenSeq([i \in 1..(Len(lines) \div 2) |-> lines[2 * i]])

ClassifyTopics(r) ==
    /\ Detecting(r, "next")
    /\ round[r].todo = <<>>
    /\ round' = [round EXCEPT ![r].pc = "subtopics", ![r].out = <<>>,
                              ![r].todo = MessageTables(round[r].out)]
    /\ UNCHANGED <<database, newest, settled, oldest, cached, restarts, faults, history>>

\* A table that has not the columns of a topic ends the program, as a crash does.
ClusterTopic(r) ==
    /\ round[r].pc = "subtopics"
    /\ round[r].todo # <<>>
    /\ LET table == Head(round[r].todo)
           topic == table.kind = "Topic_FilteredMicroblog_"
       IN  \/ topic /\ subtopics' = subtopics \cup {table} /\ UNCHANGED faults
           \/ UNCHANGED subtopics /\ (IF topic THEN Fault ELSE UNCHANGED faults)
    /\ round' = [round EXCEPT ![r].todo = Tail(@)]
    /\ UNCHANGED <<tables, filled, newest, settled, oldest, cached, restarts, history>>

EndRound(r) ==
    /\ round[r].pc = "subtopics"
    /\ round[r].todo = <<>>
    /\ round' = [round EXCEPT ![r] = Ended("done")]
    /\ UNCHANGED <<database, newest, settled, oldest, cached, restarts, faults, history>>

-----------------------------------------------------------------------------
\* The script and its programs are killed, or end with round 0, and it is
\* started again with an empty cache.
Restart ==
    /\ restarts < MaxRestarts
    /\ \E r \in Rounds : round[r].pc # "idle"
    /\ restarts' = restarts + 1
    /\ cached' = <<>>
    /\ round' = [r \in Rounds |-> Idle]
    /\ torn' = {}
    /\ UNCHANGED <<database, newest, settled, oldest, faults, given, unseen, refused>>

RoundStep(r) ==
    \/ NextTriple(r)
    \/ CheckDuplicate(r) \/ CreateTable(r) \/ InsertData(r) \/ WriteOutput(r)
    \/ FilterCrashes(r)
    \/ OpenTopics(r) \/ InsertTopic(r) \/ CloseTopics(r) \/ DetectionCrashes(r)
    \/ ClassifyTopics(r) \/ ClusterTopic(r) \/ EndRound(r)

Next ==
    \/ CrawlTable \/ SettleHour \/ Expire \/ Restart
    \/ \E r \in Rounds : Start(r) \/ DetectionFails(r) \/ RoundStep(r)

Spec == Init /\ [][Next]_vars
-----------------------------------------------------------------------------
(* Properties *)

AllTables ==
    UNION {Crawled(h) \cup {Filtered(h), OneDayTopic(h)}
           \cup {Topic(h, id) : id \in 1..MaxTopics} : h \in Hours}

TypeOK ==
    /\ tables \subseteq AllTables
    /\ filled \subseteq {h \in Hours : Filtered(h) \in tables}
    /\ subtopics \subseteq tables
    /\ newest \in 0..MaxHour
    /\ settled \in 0..newest
    /\ torn \subseteq Hours
    /\ oldest \in 1..(MaxHour + 1)
    /\ ToSet(cached) \subseteq tables
    /\ \A r \in Rounds :
          /\ round[r].pc \in {"idle", "clean", "topics", "subtopics", "done", "aborted",
                             "failed"}
          /\ round[r].step \in {"next", "check", "create", "insert", "output"}
          /\ round[r].pc # "topics" => ToSet(round[r].todo) \subseteq AllTables
    /\ restarts \in 0..MaxRestarts
    /\ faults \in 0..MaxFaults

\* The assertion about the names of a triple is met as long as the cache holds hours
\* of the crawler as wholes: if it fails, a detection has cached an hour in part, or
\* a table that one of the programs has made.  This is all that hours which are cached
\* in any order, over overlapping rounds and with hours expiring, do to the triples.
WholeHoursPass ==
    \A r \in Rounds : round[r].pc = "aborted" =>
        torn # {} \/ \E t \in ToSet(cached) : t \notin Crawled(t.hour)

\* Once it has failed in a round it fails in every later round, so that no hour is
\* given to topic detection any more until the script is started again.
AbortIsFinal ==
    \A r, s \in Rounds :
        r < s /\ round[r].pc = "aborted" => round[s].pc \in {"idle", "clean", "aborted", "failed"}

\* The check of run_filter keeps a table from being given to topic detection
\* twice, over rounds and restarts, unless two rounds worked on the hour before
\* either had created the filtered table, or the database did not list its tables.
GivenTwiceOnlyAfterRace == \A h \in Hours : given[h] > 1 => h \in unseen

\* An hour that was filtered, or whose run of run_filter died after it had created
\* the table, is never filtered again and so never given to topic detection again,
\* whatever rounds and restarts follow, unless a check misses the table.
LostHourStaysLost ==
    [][\A h \in Hours : Filtered(h) \in tables /\ ~InHand(h) =>
          h \in unseen' \/ (~InHand(h)' /\ given'[h] = given[h])]_<<round, given>>

\* The filtered table that topic detection is given has its rows, unless the
\* database refused the table or the rows at some time.
TopicsOfFilledTables ==
    \A r \in Rounds : round[r].pc = "topics" =>
        \A t \in ToSet(round[r].todo) : t.hour \in filled \cup refused

\* The names that come out of topic detection are taken for what they are, unless
\* one of its calls gave anything but two lines.
OnlyTopicsAreClustered ==
    \A r \in Rounds : round[r].pc = "subtopics" /\ ~round[r].odd =>
        \A t \in ToSet(round[r].todo) : t.kind = "Topic_FilteredMicroblog_"

\* assert target_name == table_name_without_epoch (intergrate_script.py:86), asked
\* only of caches in which no hour of the crawler was ever in part.
AssertionHolds == \A r \in Rounds : torn = {} => round[r].pc # "aborted"
=============================================================================
