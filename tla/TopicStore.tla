----------------------------- MODULE TopicStore -----------------------------
(***************************************************************************)
(* DataProcess/src: InsterAllTopicToDatabase and GetOneTopicWeiboByBatch   *)
(* (topic_summary/TopicViewAndPolitics.cpp), InsertData and the functions  *)
(* it calls (dbdao/DBoperation.cpp).  A run_dataprocess writes the topics  *)
(* of an hour into the table OneDayTopic_<hour>, creates a table for each  *)
(* topic, named after its id, and fills it batch by batch.  It learns the  *)
(* id by asking for the greatest one.  Two processes work on one hour when *)
(* rounds of the script overlap.                                           *)
(*                                                                         *)
(* The statements are those of a connection that begins in auto-commit     *)
(* mode and leaves it with the first batch.  Out of it a transaction reads *)
(* what was committed before its first read; CREATE TABLE ends it.         *)
(***************************************************************************)
EXTENDS Integers, Sequences, FiniteSets, SequencesExt

CONSTANTS
    Process,     \* the processes on this hour
    Topics,      \* their topics, sorted: records of the size and whether it is trash
    BatchSize,   \* 10000
    MaxFault     \* bound: refused statements and crashes

ASSUME TopicsAssumption ==
    /\ IsFiniteSet(Process)
    /\ Topics \in Seq([size : Nat \ {0}, trash : BOOLEAN])
    /\ BatchSize \in Nat \ {0}
    /\ MaxFault \in Nat

VARIABLES
    exists,      \* is the table OneDayTopic_<hour> there?
    oneDay,      \* its rows, whose ids are their places; each names process and topic
    tables,      \* the ids n whose table Topic_<hour>_<n> is there
    rows,        \* rows[n]: the committed rows of that table
    pc,          \* pc[p]: where the process stands
    topic,       \* topic[p]: the topic it is at
    sent,        \* sent[p]: messages of the topic that were given to InsertData
    flag,        \* flag[p]: has InsertData been called for the topic?
    newestID,    \* newestID[p]
    autocommit,  \* autocommit[p]
    view,        \* view[p]: the greatest id in the snapshot of its transaction
    pending,     \* pending[p]: pairs of an id and a row, not committed
    out,         \* out[p]: the ids in the names it wrote
    faults,
    overlapped,  \* topics at work while another process inserted one
    nameless,    \* topics whose row was refused, or whose id could not be read
    damaged      \* topics that met an error

place == <<pc, topic, sent, flag>>
tableSet == <<exists, oneDay, tables>>
history == <<faults, overlapped, nameless, damaged>>
vars == <<tableSet, rows, place, newestID, autocommit, view, pending, out, history>>

NoView == -1
Ids == 0..(Cardinality(Process) * Len(Topics))
NewestID == Len(oneDay)     \* max(topicid), 0 for an empty table

\* A row tells its process and its topic in the model only; its key is the message.
Row(p, k, n) == [by |-> p, topic |-> k, n |-> n]
Key(r) == <<r.topic, r.n>>
KeysIn(n, ps) == {Key(r) : r \in rows[n]}
                 \cup {Key(e[2]) : e \in {d \in UNION {pending[p] : p \in ps} : d[1] = n}}

Current(p) == <<p, topic[p]>>
AtWork(p) == pc[p] \in {"read", "create", "read again", "rows"} \/ flag[p]

Init ==
    /\ exists = FALSE
    /\ oneDay = <<>>
    /\ tables = {}
    /\ rows = [n \in Ids |-> {}]
    /\ pc = [p \in Process |-> "query"]
    /\ topic = [p \in Process |-> 1]
    /\ sent = [p \in Process |-> 0]
    /\ flag = [p \in Process |-> FALSE]
    /\ newestID = [p \in Process |-> 0]
    /\ autocommit = [p \in Process |-> TRUE]
    /\ view = [p \in Process |-> NoView]
    /\ pending = [p \in Process |-> {}]
    /\ out = [p \in Process |-> <<>>]
    /\ faults = 0
    /\ overlapped = {}
    /\ nameless = {}
    /\ damaged = {}

Goto(p, step) == pc' = [pc EXCEPT ![p] = step]
Fault == faults < MaxFault /\ faults' = faults + 1

-----------------------------------------------------------------------------
(* QueryIfOneDayTableExistAndCreate *)

Query(p) ==
    /\ pc[p] = "query"
    /\ Goto(p, IF exists THEN "topic" ELSE "one day table")
    /\ UNCHANGED <<tableSet, rows, topic, sent, flag, newestID, autocommit, view, pending, out, history>>

\* The error of a table that is there meanwhile is printed.
CreateOneDayTable(p) ==
    /\ pc[p] = "one day table"
    /\ exists' = TRUE
    /\ Goto(p, "topic")
    /\ UNCHANGED <<oneDay, tables, rows, topic, sent, flag, newestID, autocommit, view, pending, out, history>>

-----------------------------------------------------------------------------
(* GetOneTopicWeiboByBatch *)

Skipped(p) == Topics[topic[p]].trash
Left(p) == Topics[topic[p]].size - sent[p]

\* The next call of InsertData: each full batch, and then the rest, which may be
\* empty.  A topic that is trash is left before the first one.
NextBatch(p) ==
    /\ pc[p] = "topic"
    /\ topic[p] \in DOMAIN Topics
    /\ ~Skipped(p)
    /\ Goto(p, IF flag[p] THEN "read again" ELSE "insert")
    /\ UNCHANGED <<tableSet, rows, topic, sent, flag, newestID, autocommit, view, pending, out, history>>

Skip(p) ==
    /\ pc[p] = "topic"
    /\ topic[p] \in DOMAIN Topics
    /\ Skipped(p)
    /\ topic' = [topic EXCEPT ![p] = @ + 1]
    /\ UNCHANGED <<tableSet, rows, pc, sent, flag, newestID, autocommit, view, pending, out, history>>

Return_KeepsFlag(p) ==
    /\ Goto(p, "topic")
    /\ flag' = [flag EXCEPT ![p] = TRUE]
    /\ IF Left(p) < BatchSize
       THEN /\ topic' = [topic EXCEPT ![p] = @ + 1]
            /\ sent' = [sent EXCEPT ![p] = 0]
       ELSE /\ sent' = [sent EXCEPT ![p] = @ + BatchSize]
            /\ UNCHANGED topic

\* InsertData returns, with or without an error: nobody asks.
Return(p) ==
    /\ Goto(p, "topic")
    /\ IF Left(p) < BatchSize
       THEN /\ topic' = [topic EXCEPT ![p] = @ + 1]
            /\ sent' = [sent EXCEPT ![p] = 0]
            /\ flag' = [flag EXCEPT ![p] = FALSE]
       ELSE /\ sent' = [sent EXCEPT ![p] = @ + BatchSize]
            /\ flag' = [flag EXCEPT ![p] = TRUE]
            /\ UNCHANGED topic

\* The process ends and its connection with it.
Exit(p) ==
    /\ pc[p] = "topic"
    /\ topic[p] \notin DOMAIN Topics
    /\ Goto(p, "ended")
    /\ pending' = [pending EXCEPT ![p] = {}]
    /\ view' = [view EXCEPT ![p] = NoView]
    /\ UNCHANGED <<tableSet, rows, topic, sent, flag, newestID, autocommit, out, history>>

-----------------------------------------------------------------------------
(* InsertData *)

\* commit ends the transaction of p, with whatever an earlier error left in it.
CommitWith(p, more) ==
    /\ rows' = [n \in Ids |-> rows[n] \cup {e[2] : e \in {d \in pending[p] \cup more : d[1] = n}}]
    /\ pending' = [pending EXCEPT ![p] = {}]
    /\ view' = [view EXCEPT ![p] = NoView]

InsertTopic(p) ==
    /\ pc[p] = "insert"
    /\ exists
    /\ oneDay' = Append(oneDay, Current(p))
    /\ CommitWith(p, {})
    /\ overlapped' = overlapped
           \cup {Current(q) : q \in {r \in Process \ {p} : AtWork(r)}}
           \cup (IF \E q \in Process \ {p} : AtWork(q) THEN {Current(p)} ELSE {})
    /\ Goto(p, "read")
    /\ UNCHANGED <<exists, tables, topic, sent, flag, newestID, autocommit, out,
                   faults, nameless, damaged>>

\* GetNewserID
ReadID(p, next) ==
    LET id == IF view[p] = NoView THEN NewestID ELSE view[p]
    IN  /\ newestID' = [newestID EXCEPT ![p] = id]
        /\ view' = [view EXCEPT ![p] = IF autocommit[p] THEN NoView ELSE id]
        /\ Goto(p, next)
        /\ UNCHANGED <<tableSet, rows, topic, sent, flag, autocommit, pending, out>>

Read(p) ==
    /\ pc[p] = "read"
    /\ exists
    /\ ReadID(p, "create")
    /\ UNCHANGED history

\* The table is created unless it is there, which is no more than printed, and its
\* name goes out.
CreateTable(p) ==
    /\ pc[p] = "create"
    /\ tables' = tables \cup {newestID[p]}
    /\ CommitWith(p, {})
    /\ out' = [out EXCEPT ![p] = Append(@, newestID[p])]
    /\ Goto(p, "read again")
    /\ UNCHANGED <<exists, oneDay, topic, sent, flag, newestID, autocommit, history>>

ReadAgain(p) ==
    /\ pc[p] = "read again"
    /\ exists
    /\ ReadID(p, "rows")
    /\ UNCHANGED history

\* The messages of this call.
Batch(p) == {Row(p, topic[p], n) : n \in (sent[p] + 1)..Min({sent[p] + BatchSize, Topics[topic[p]].size})}

\* A table takes them if it is there and has none of their keys.
Fits(p, batch) ==
    batch = {} \/ (newestID[p] \in tables /\ {Key(r) : r \in batch} \cap KeysIn(newestID[p], Process) = {})

OfID(p, batch) == {<<newestID[p], r>> : r \in batch}

InsertRows_NoCommit(p, batch) ==
    /\ Fits(p, batch)
    /\ pending' = [pending EXCEPT ![p] = @ \cup OfID(p, batch)]
    /\ autocommit' = [autocommit EXCEPT ![p] = FALSE]
    /\ Return(p)
    /\ UNCHANGED <<tableSet, rows, newestID, view, out, faults, overlapped, nameless>>

\* InsertTopicWeiboIdToDatabase: row by row, with one commit at the end.  A row whose
\* key another process has just inserted waits for its commit.
InsertRows(p, batch) ==
    /\ Fits(p, batch)
    /\ CommitWith(p, OfID(p, batch))
    /\ autocommit' = [autocommit EXCEPT ![p] = FALSE]
    /\ Return(p)
    /\ UNCHANGED <<tableSet, newestID, out, overlapped, nameless>>

InsertBatch(p) ==
    /\ pc[p] = "rows"
    /\ InsertRows(p, Batch(p))
    /\ UNCHANGED <<faults, damaged>>

\* The rows before one that fails stay in the transaction.
StopAt(p, batch, n) ==
    /\ pending' = [pending EXCEPT ![p] = @ \cup OfID(p, {s \in batch : s.n < n})]
    /\ autocommit' = [autocommit EXCEPT ![p] = FALSE]
    /\ damaged' = damaged \cup {Current(p)}
    /\ Return(p)
    /\ UNCHANGED <<tableSet, rows, newestID, view, out, overlapped, nameless>>

\* The table is not there, or a key is in it already, or another transaction has it
\* for longer than the server waits.
NotInserted(p, batch) ==
    \E r \in batch :
        /\ ~Fits(p, {r})
        /\ \A s \in batch : ~Fits(p, {s}) => r.n <= s.n
        /\ StopAt(p, batch, r.n)

Conflict(p) ==
    /\ pc[p] = "rows"
    /\ NotInserted(p, Batch(p))
    /\ UNCHANGED faults

-----------------------------------------------------------------------------
(* What goes wrong *)

RowRefused(p) ==
    /\ Fault
    /\ pc[p] = "rows"
    /\ newestID[p] \in tables
    /\ \E r \in Batch(p) :
          /\ \A s \in Batch(p) : ~Fits(p, {s}) => r.n < s.n
          /\ StopAt(p, Batch(p), r.n)

\* SelectOnetableByBatch prints the error of a read of the messages, which may have
\* given some of them, and InsertData goes on with those.  (The read is before the
\* call, which does not look at what it gave before this step.)
ReadRefused(p) ==
    /\ Fault
    /\ pc[p] = "rows"
    /\ \E batch \in SUBSET Batch(p) \ {Batch(p)} :
          \/ InsertRows(p, batch) /\ damaged' = damaged \cup {Current(p)}
          \/ NotInserted(p, batch)

\* QueryIfTableExist returns nothing, which may be taken for either answer.
QueryRefused(p) ==
    /\ Fault
    /\ pc[p] = "query"
    /\ Goto(p, "topic") \/ Goto(p, "one day table")
    /\ UNCHANGED <<tableSet, rows, topic, sent, flag, newestID, autocommit, view, pending, out,
                   overlapped, nameless, damaged>>

CreateOneDayRefused(p) ==
    /\ Fault
    /\ pc[p] = "one day table"
    /\ Goto(p, "topic")
    /\ UNCHANGED <<tableSet, rows, topic, sent, flag, newestID, autocommit, view, pending, out,
                   overlapped, nameless, damaged>>

\* A statement on the table OneDayTopic is refused, always if it is not there.
OneDayFault == Fault \/ (~exists /\ UNCHANGED faults)

\* The exception leaves InsertData before the rows.
TopicRefused(p) ==
    /\ OneDayFault
    /\ pc[p] = "insert"
    /\ nameless' = nameless \cup {Current(p)}
    /\ damaged' = damaged \cup {Current(p)}
    /\ Return(p)
    /\ UNCHANGED <<tableSet, rows, newestID, autocommit, view, pending, out, overlapped>>

\* res is returned without having been set.
IDUnread(p) ==
    /\ OneDayFault
    /\ \/ pc[p] = "read" /\ Goto(p, "create")
       \/ pc[p] = "read again" /\ Goto(p, "rows")
    /\ \E n \in Ids : newestID' = [newestID EXCEPT ![p] = n]
    /\ nameless' = nameless \cup {Current(p)}
    /\ damaged' = damaged \cup {Current(p)}
    /\ UNCHANGED <<tableSet, rows, topic, sent, flag, autocommit, view, pending, out, overlapped>>

\* The name goes out all the same.
CreateRefused(p) ==
    /\ Fault
    /\ pc[p] = "create"
    /\ out' = [out EXCEPT ![p] = Append(@, newestID[p])]
    /\ damaged' = damaged \cup {Current(p)}
    /\ Goto(p, "read again")
    /\ UNCHANGED <<tableSet, rows, topic, sent, flag, newestID, autocommit, view, pending,
                   overlapped, nameless>>

Crash(p) ==
    /\ Fault
    /\ pc[p] # "ended"
    /\ Goto(p, "ended")
    /\ pending' = [pending EXCEPT ![p] = {}]
    /\ view' = [view EXCEPT ![p] = NoView]
    /\ damaged' = damaged \cup {<<p, k>> : k \in {i \in DOMAIN Topics : i >= topic[p]}}
    /\ UNCHANGED <<tableSet, rows, topic, sent, flag, newestID, autocommit, out,
                   overlapped, nameless>>

-----------------------------------------------------------------------------
Step(p) ==
    \/ Query(p) \/ CreateOneDayTable(p) \/ NextBatch(p) \/ Skip(p) \/ Exit(p)
    \/ InsertTopic(p) \/ Read(p) \/ CreateTable(p) \/ ReadAgain(p) \/ InsertBatch(p) \/ Conflict(p)

Fails(p) ==
    \/ QueryRefused(p) \/ CreateOneDayRefused(p)
    \/ RowRefused(p) \/ ReadRefused(p) \/ TopicRefused(p) \/ IDUnread(p) \/ CreateRefused(p) \/ Crash(p)

Next == \E p \in Process : Step(p) \/ Fails(p)

Spec == Init /\ [][Next]_vars

-----------------------------------------------------------------------------
(* Properties *)

TypeOK ==
    /\ exists \in BOOLEAN
    /\ oneDay \in Seq(Process \X DOMAIN Topics)
    /\ tables \subseteq Ids
    /\ \A n \in Ids : \A r \in rows[n] : r = Row(r.by, r.topic, r.n) /\ n \in tables
    /\ \A p \in Process : \A e \in pending[p] : e[1] \in tables
    /\ topic \in [Process -> 1..(Len(Topics) + 1)]
    /\ newestID \in [Process -> Ids]
    /\ view \in [Process -> Ids \cup {NoView}]
    /\ faults \in 0..MaxFault

\* A topic's table holds messages of the topic whose row has its id, and only those,
\* except for topics whose insertion overlapped with that of another process (no lock
\* is held between the insertion and the reading of max(topicid)), and for topics
\* whose row was refused, but whose later batches are inserted all the same.
RowsUnderTheirTopic ==
    \A n \in Ids : \A r \in rows[n] :
        \/ n \in DOMAIN oneDay /\ oneDay[n] = <<r.by, r.topic>>
        \/ <<r.by, r.topic>> \in overlapped \cup nameless

\* A topic that met no error itself is complete when its process has ended, whatever
\* errors the topics before it met, whose transactions its own commits complete: one
\* row, all messages in the table of its id, and that table's name in the file, once
\* unless another topic of the process took its id.
Complete(p, k, n) ==
    /\ \A m \in DOMAIN oneDay : oneDay[m] = <<p, k>> <=> m = n
    /\ {Row(p, k, i) : i \in 1..Topics[k].size} \subseteq rows[n]
    /\ LET names == {i \in DOMAIN out[p] : out[p][i] = n}
       IN  names # {} /\ (nameless = {} => Cardinality(names) = 1)

UndamagedTopicsComplete ==
    \A p \in Process : pc[p] = "ended" =>
        \A k \in DOMAIN Topics : <<p, k>> \notin overlapped \cup damaged /\ ~Topics[k].trash =>
            \E n \in DOMAIN oneDay : Complete(p, k, n)
=============================================================================
