----------------------------- MODULE RunFilter -----------------------------
(***************************************************************************)
(* weibo_ad_filter/build/run_filter on one table of messages: the check    *)
(* that the hour was not filtered before, the pages read from the table,   *)
(* the reference counts of near-identical texts (ref_count/ref.h), the     *)
(* second pass that drops advertisements, and the table of the messages    *)
(* that are left.  A run may crash anywhere and be started again, and the  *)
(* crawler may still add messages to the table.                            *)
(*                                                                         *)
(* A message is a key of the table; rows come in the order of the keys     *)
(* (the primary key of InnoDB).  A page is cut from the join with the      *)
(* tables of relations and users, in which mid is a key too: a message     *)
(* without its relation has no row, but is counted.  Every page has the    *)
(* join's rows in the same order.  A text is its fingerprint, a set of     *)
(* bits.  The source and length filters are one attribute, parsed |->      *)
(* FALSE, and the ratios of IsFromZombieUser another.                      *)
(***************************************************************************)
EXTENDS Integers, Sequences, FiniteSets, FiniteSetsExt, SequencesExt

CONSTANTS
    Mids,            \* the messages of the hour; natural numbers, their keys
    Fingerprints,    \* sets of bits
    Attributes,      \* the attributes [Mids -> Attribute] the hour may have
    Tables,          \* what the tables may hold when run_filter is first started
    ROWS_EACH_TIME,  \* rows of a page
    MaxRuns          \* bound: how often run_filter is started on the table

Attribute == [parsed : BOOLEAN, zombie : BOOLEAN, fp : Fingerprints]

ASSUME MidsAssumption == Mids \subseteq Nat /\ IsFiniteSet(Mids)
ASSUME FingerprintsAssumption == \A x \in Fingerprints : IsFiniteSet(x)
ASSUME AttributesAssumption == Attributes \subseteq [Mids -> Attribute]
ASSUME TablesAssumption ==
    \A t \in Tables : t.related \subseteq t.messages /\ t.messages \subseteq Mids
ASSUME PageAssumption == ROWS_EACH_TIME \in Nat \ {0}
ASSUME RunsAssumption == MaxRuns \in Nat \ {0}

VARIABLES
    pc,        \* "start", "open", "read", "create", "insert", "output", "ended"
    attr,      \* attr[m]: what the filters see of message m
    present,   \* the messages in the table
    related,   \* those of them that have a relation and a user, the rows of the join
    rows,      \* Allocator::rows_of_cur_table
    left,      \* Allocator::rows_left_of_cur_table
    blogs,     \* the part of the page still to be parsed
    missed,    \* the messages of the pages so far that the database did not deliver
    ref,       \* RefCount::ref: representative |-> count
    parsed,    \* parsed_blogs
    inserts,   \* insert_datas
    filtered,  \* the table Filtered<table>
    outputs,   \* how often that table, once it exists, was given to the next program
    runs,      \* how often run_filter was started
    grew,      \* whether a message came after this run counted the rows
    failed,    \* whether the database refused the table or the insertion of this run
    blind      \* whether a run did not see a filtered table that was there

\* The tables of the crawler, and what a run keeps in memory.
tables == <<present, related>>
memory == <<rows, left, blogs, missed, ref, parsed, inserts>>

vars == <<pc, attr, tables, memory, filtered, outputs, runs, grew, failed, blind>>

Distance(x, y) == Cardinality((x \ y) \cup (y \ x))

NoCounts == [x \in {} |-> 0]

\* The elements of s that are in S: kept[n] are those among the first n.
KeptUpTo(s, S) ==
    LET kept[n \in 0..Len(s)] ==
            IF n = 0 THEN <<>>
            ELSE IF s[n] \in S THEN Append(kept[n - 1], s[n]) ELSE kept[n - 1]
    IN  kept
Kept(s, S) == KeptUpTo(s, S)[Len(s)]

Cleared ==
    /\ rows' = 0
    /\ left' = 0
    /\ blogs' = <<>>
    /\ missed' = {}
    /\ ref' = NoCounts
    /\ parsed' = <<>>
    /\ inserts' = <<>>

Init ==
    /\ pc = "start"
    /\ attr \in Attributes
    /\ \E t \in Tables : present = t.messages /\ related = t.related
    /\ rows = 0
    /\ left = 0
    /\ blogs = <<>>
    /\ missed = {}
    /\ ref = NoCounts
    /\ parsed = <<>>
    /\ inserts = <<>>
    /\ filtered = [exists |-> FALSE, rows |-> {}]
    /\ outputs = 0
    /\ runs = 1
    /\ grew = FALSE
    /\ failed = FALSE
    /\ blind = FALSE

\* The crawler adds a message of the hour, with or without its relation, or the
\* relation of one that is there.
Grow ==
    /\ \E m \in Mids \ related :
          /\ present' = present \cup {m}
          /\ related' \in {related, related \cup {m}}
          /\ <<present', related'>> # tables
    /\ grew' = (grew \/ pc \notin {"start", "open"})
    /\ UNCHANGED <<pc, attr, memory, filtered, outputs, runs, failed, blind>>

\* IsDuplicateInsertTable: a table that has been filtered is left alone.  If the
\* list of tables is refused, GetTables prints the error and gives no table.
CheckDuplicate_Never ==
    /\ pc = "start"
    /\ pc' = "open"
    /\ UNCHANGED <<attr, tables, memory, filtered, outputs, runs, grew, failed, blind>>

CheckDuplicate ==
    /\ pc = "start"
    /\ \E listed \in BOOLEAN :
          /\ pc' = IF filtered.exists /\ listed THEN "ended" ELSE "open"
          /\ blind' = (blind \/ (filtered.exists /\ ~listed))
    /\ UNCHANGED <<attr, tables, memory, filtered, outputs, runs, grew, failed>>

\* Allocator::NextTable counts the messages.  If the count is refused, Getcount takes
\* the front of an empty list and the process dies (Crash).
NextTable ==
    /\ pc = "open"
    /\ pc' = "read"
    /\ rows' = Cardinality(present)
    /\ left' = Cardinality(present)
    /\ UNCHANGED <<attr, tables, blogs, missed, ref, parsed, inserts, filtered, outputs,
                   runs, grew, failed, blind>>

\* The rows of the join in order, and up to n of them from an offset on.
RowOrder ==
    [i \in 1..Cardinality(related) |->
        CHOOSE m \in related : Cardinality({l \in related : l < m}) = i - 1]

Page(offset, n) ==
    SubSeq(RowOrder, offset + 1, Min({offset + n, Cardinality(related)}))

\* HasNextRow and NextBlogs.
PageSize == IF left > ROWS_EACH_TIME THEN ROWS_EACH_TIME ELSE left

PageStart_Left == left
PageStart == rows - left

\* DB_query prints an error and returns the rows that came before it, or none; the
\* rows that are left are lowered all the same.
NextBlogs ==
    /\ pc = "read"
    /\ blogs = <<>>
    /\ left > 0
    /\ LET page == Page(PageStart, PageSize)
       IN  \E n \in 0..Len(page) :
              /\ blogs' = SubSeq(page, 1, n)
              /\ missed' = missed \cup {page[i] : i \in (n + 1)..Len(page)}
    /\ left' = left - PageSize
    /\ UNCHANGED <<pc, attr, tables, rows, ref, parsed, inserts, filtered, outputs,
                   runs, grew, failed, blind>>

-----------------------------------------------------------------------------
\* The keys among the neighbours that HammingValuesWithinDistance lists.
Keys(x, dist) == {k \in DOMAIN ref : Distance(x, k) <= dist}

Highest(keys) == {k \in keys : \A l \in keys : ref[l] <= ref[k]}

\* RefCount::AddFingerPrint(fp, 2): the text counts for a near representative
\* with the highest count, or becomes a representative itself.  Which of several
\* highest ones it is depends on the order of the neighbours.
AddFingerPrint_Distance1(x) ==
    IF Keys(x, 1) = {}
    THEN ref' = [k \in DOMAIN ref \cup {x} |-> IF k = x THEN 1 ELSE ref[k]]
    ELSE \E k \in Highest(Keys(x, 1)) : ref' = [ref EXCEPT ![k] = @ + 1]

AddFingerPrint(x) ==
    IF Keys(x, 2) = {}
    THEN ref' = [k \in DOMAIN ref \cup {x} |-> IF k = x THEN 1 ELSE ref[k]]
    ELSE \E k \in Highest(Keys(x, 2)) : ref' = [ref EXCEPT ![k] = @ + 1]

\* One turn of the loop over a page.
ParseBlog ==
    /\ pc = "read"
    /\ blogs # <<>>
    /\ blogs' = Tail(blogs)
    /\ IF attr[Head(blogs)].parsed
       THEN /\ AddFingerPrint(attr[Head(blogs)].fp)
            /\ parsed' = Append(parsed, Head(blogs))
       ELSE UNCHANGED <<ref, parsed>>
    /\ UNCHANGED <<pc, attr, tables, rows, left, missed, inserts, filtered, outputs, runs,
                   grew, failed, blind>>

\* RefCount::GetRefCount(fp, HAMMING_DISTANCE).
GetRefCount(x) == Max({ref[k] : k \in Keys(x, 1)} \cup {0})

\* The second pass over parsed_blogs.
Survives_Twice(m) == ~attr[m].zombie /\ GetRefCount(attr[m].fp) < 2
Survives_FirstCopy(m) ==
    ~attr[m].zombie /\ \A l \in Mids : l < m /\ attr[l].parsed => attr[l].fp # attr[m].fp
Survives(m) == ~attr[m].zombie /\ GetRefCount(attr[m].fp) <= 2

Sift ==
    /\ pc = "read"
    /\ blogs = <<>>
    /\ left = 0
    /\ pc' = "create"
    /\ inserts' = Kept(parsed, {m \in Mids : Survives(m)})
    /\ UNCHANGED <<attr, tables, rows, left, blogs, missed, ref, parsed, filtered, outputs,
                   runs, grew, failed, blind>>

-----------------------------------------------------------------------------
\* DBpool::CreateTable; an error, for one that the table exists, is printed only.
CreateTable ==
    /\ pc = "create"
    /\ pc' = "insert"
    /\ \/ filtered' = [filtered EXCEPT !.exists = TRUE] /\ UNCHANGED failed
       \/ failed' = TRUE /\ UNCHANGED filtered
    /\ UNCHANGED <<attr, tables, memory, outputs, runs, grew, blind>>

\* DBpool::DB_insertData, one transaction.  It fails on a repeated key, and the
\* database may refuse any other statement; the exception is printed only.
Committed_RowByRow(ok) ==
    \E n \in 0..Len(inserts) :
        /\ ok => n = Len(inserts)
        /\ filtered' = [filtered EXCEPT !.rows = @ \cup {inserts[i] : i \in 1..n}]

Committed(ok) ==
    IF ok THEN filtered' = [filtered EXCEPT !.rows = @ \cup ToSet(inserts)]
          ELSE UNCHANGED filtered

InsertData ==
    /\ pc = "insert"
    /\ pc' = "output"
    /\ \E ok \in BOOLEAN :
          /\ ok => /\ filtered.exists
                   /\ IsInjective(inserts)
                   /\ ToSet(inserts) \cap filtered.rows = {}
          /\ Committed(ok)
          /\ failed' = (failed \/ ~ok)
    /\ UNCHANGED <<attr, tables, memory, outputs, runs, grew, blind>>

\* The name of the table is written whatever became of the insertion.
WriteOutput ==
    /\ pc = "output"
    /\ pc' = "ended"
    /\ outputs' = IF filtered.exists THEN outputs + 1 ELSE outputs
    /\ Cleared
    /\ UNCHANGED <<attr, tables, filtered, runs, grew, failed, blind>>

\* The process dies; its open transaction, if any, is rolled back.
Crash ==
    /\ pc \in {"open", "read", "create", "insert", "output"}
    /\ pc' = "ended"
    /\ Cleared
    /\ UNCHANGED <<attr, tables, filtered, outputs, runs, grew, failed, blind>>

\* A later round of the integration script starts run_filter again.
Rerun ==
    /\ pc = "ended"
    /\ runs < MaxRuns
    /\ pc' = "start"
    /\ runs' = runs + 1
    /\ grew' = FALSE
    /\ failed' = FALSE
    /\ UNCHANGED <<attr, tables, memory, filtered, outputs, blind>>

Step == CheckDuplicate \/ NextTable \/ NextBlogs \/ ParseBlog \/ Sift \/ CreateTable
        \/ InsertData \/ WriteOutput

Next == Step \/ Grow \/ Crash \/ Rerun

Spec == Init /\ [][Next]_vars
-----------------------------------------------------------------------------
(* Properties *)

TypeOK ==
    /\ pc \in {"start", "open", "read", "create", "insert", "output", "ended"}
    /\ attr \in Attributes
    /\ present \subseteq Mids
    /\ related \subseteq present
    /\ rows \in Nat
    /\ left \in 0..rows
    /\ blogs \in Seq(Mids)
    /\ missed \subseteq Mids
    /\ ref \in [DOMAIN ref -> Nat \ {0}]
    /\ DOMAIN ref \subseteq Fingerprints
    /\ parsed \in Seq(Mids)
    /\ inserts \in Seq(Mids)
    /\ filtered \in [exists : BOOLEAN, rows : SUBSET Mids]
    /\ outputs \in Nat
    /\ runs \in 1..MaxRuns
    /\ grew \in BOOLEAN
    /\ {failed, blind} \subseteq BOOLEAN

\* The paging of Allocator reads every row of the join exactly once, in pages of
\* any size and although it counts the messages that have no row, provided the
\* tables did not grow meanwhile: a refused or broken page loses the rows of its
\* own that were not delivered, silently, and neither loses nor repeats another.
ReadsEachMessageOnce ==
    pc = "create" /\ ~grew =>
        parsed = Kept(RowOrder, {m \in Mids : attr[m].parsed} \ missed)

\* No two representatives of RefCount are within distance 2 of each other: a
\* text is never counted under one while it could be counted under another that
\* was there first.
RepresentativesApart ==
    \A x, y \in DOMAIN ref : x # y => ~(Distance(x, y) <= 2)

\* Only texts of which the run has read at least three similar ones are dropped as
\* advertisements: a representative at distance 1 that three texts at distance 2
\* were counted for makes them three texts at distance 3.
NoUniqueTextDropped ==
    pc = "create" =>
        \A i \in 1..Len(parsed) :
            ~attr[parsed[i]].zombie /\ parsed[i] \notin ToSet(inserts) =>
                Cardinality({j \in 1..Len(parsed) :
                    Distance(attr[parsed[j]].fp, attr[parsed[i]].fp) <= 3}) >= 3

\* The decision is made on the final counts: of messages with the same text, all
\* are kept or none is, wherever in the table they stand.
SameTextSameFate ==
    pc = "create" =>
        \A i, j \in 1..Len(parsed) :
            /\ attr[parsed[i]].fp = attr[parsed[j]].fp
            /\ ~attr[parsed[i]].zombie /\ ~attr[parsed[j]].zombie
            /\ parsed[i] \in ToSet(inserts)
            => parsed[j] \in ToSet(inserts)

\* When the name is given to topic detection the table holds all messages of
\* the insertion, or none if the database refused a statement: also if a crash
\* of an earlier run left the table behind, or the table grew and the pages
\* repeated a message.  Only a run that could not list the tables may add to the
\* rows of an earlier one.
InsertionAllOrNothing ==
    pc = "output" /\ ~blind => filtered.rows = IF failed THEN {} ELSE ToSet(inserts)

\* Over all runs, crashes included, a filtered table is given to topic detection
\* at most once, as long as the check can list the tables.
OutputOnce == ~blind => outputs <= 1
=============================================================================
