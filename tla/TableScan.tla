----------------------------- MODULE TableScan -----------------------------
(***************************************************************************)
(* The cursor of DataProcess/src/dbdao/DBoperation.cpp with which          *)
(* run_dataprocess goes over all messages, table by table and              *)
(* OneTimeReadWeiboNum rows at a time: once to collect the feature words   *)
(* (GetTopic), once to count which words occur together and once to assign *)
(* messages to topics (Cluster).  The rows of a table do not change while  *)
(* it is scanned; what is done with a row is left out.  The database may   *)
(* refuse any count and any read.                                          *)
(***************************************************************************)
EXTENDS Integers, Sequences

CONSTANTS
    Databases,             \* sequences of table sizes: the table list of a run
    OneTimeReadWeiboNum,   \* rows asked of the database at a time
    Scans                  \* how often the tables are scanned

ASSUME DatabasesAssumption == Databases \subseteq Seq(Nat) \ {<<>>}
ASSUME BatchAssumption == OneTimeReadWeiboNum \in Nat \ {0}
ASSUME ScansAssumption == Scans \in Nat \ {0}

VARIABLES
    phase,       \* "scan", "between" two scans, "done", or dead by an exception:
                 \* "sqlerror" of a negative offset, "refused" of any other read
    sizes,       \* sizes[t]: how many rows table t has
    scan,        \* the scan that is running or was the last to run
    tableIndex,  \* DBoperation::tableIndex, from 1
    tableName,   \* DBoperation::table_name, as an index of sizes
    weiboSize,   \* DBoperation::weibo_size
    count,       \* the loop's cursor in the current table
    uncounted,   \* the scans and tables <<s, t>> whose count was refused
    times        \* times[s][t][r]: how often scan s read row r of table t

scanVars == <<phase, sizes, scan, tableIndex, tableName, weiboSize, count, uncounted, times>>

Tables == 1..Len(sizes)
RowsOf(t) == 0..(sizes[t] - 1)

\* GetTablecount only prints what the database refuses, and gives 0.
GetTablecount(s, t) == IF <<s, t>> \in uncounted THEN 0 ELSE sizes[t]
MayBeRefused(s, t) == uncounted' \in {uncounted, uncounted \cup {<<s, t>>}}

\* The tables are set up by main (DBTableInit), which has counted the first.
ScanInit ==
    /\ phase = "scan"
    /\ sizes \in Databases
    /\ scan = 1
    /\ tableIndex = 1
    /\ tableName = 1
    /\ uncounted \in {{}, {<<1, 1>>}}
    /\ weiboSize = GetTablecount(1, 1)
    /\ count = 0
    /\ times = [s \in 1..Scans |-> [t \in Tables |-> [r \in RowsOf(t) |-> 0]]]

\* ChangeToNextTable's test that the table is read.
AtEnd_Strict == count = weiboSize - 1
AtEnd == count >= weiboSize - 1

\* ChangeOneTableCount: where the cursor goes from row c of a table of n rows.
NextCount(c, n) ==
    IF c + OneTimeReadWeiboNum >= n THEN n - 1 ELSE c + OneTimeReadWeiboNum

\* GetMidandText: rows c, c + 1, ... of table t.  MySQL rejects a negative
\* offset and may refuse any other read, and nothing catches the exception.
Read(t, c) ==
    \/ /\ phase' = IF c < 0 THEN "sqlerror" ELSE "refused"
       /\ UNCHANGED times
    \/ /\ c >= 0
       /\ times' = [times EXCEPT ![scan][t] =
               [r \in RowsOf(t) |->
                   IF r \in c..(c + OneTimeReadWeiboNum - 1) THEN @[r] + 1 ELSE @[r]]]
       /\ UNCHANGED phase

\* One turn of the loop that stays in the table.
ReadBatch_ReadFirst ==
    /\ phase = "scan"
    /\ ~AtEnd
    /\ Read(tableName, count)
    /\ count' = NextCount(count, weiboSize)
    /\ UNCHANGED <<sizes, scan, tableIndex, tableName, weiboSize, uncounted>>

ReadBatch ==
    /\ phase = "scan"
    /\ ~AtEnd
    /\ count' = NextCount(count, weiboSize)
    /\ Read(tableName, NextCount(count, weiboSize))
    /\ UNCHANGED <<sizes, scan, tableIndex, tableName, weiboSize, uncounted>>

\* One turn in which ChangeToNextTable opens the next table: the cursor is set
\* to its first row and moved on before anything is read.
OpenNextTable(from) ==
    /\ phase = "scan"
    /\ AtEnd
    /\ tableIndex < Len(sizes)
    /\ tableIndex' = tableIndex + 1
    /\ tableName' = tableIndex + 1
    /\ UNCHANGED <<sizes, scan>>
    /\ MayBeRefused(scan, tableIndex + 1)
    /\ weiboSize' = GetTablecount(scan, tableName)'
    /\ count' = NextCount(from, weiboSize')
    /\ Read(tableIndex + 1, count')

ReadNextTable_KeepCount == OpenNextTable(count)
ReadNextTable == OpenNextTable(0)

\* ChangeToNextTable finds no further table.
EndScan ==
    /\ phase = "scan"
    /\ AtEnd
    /\ tableIndex = Len(sizes)
    /\ phase' = IF scan = Scans THEN "done" ELSE "between"
    /\ tableIndex' = tableIndex + 1
    /\ UNCHANGED <<sizes, scan, tableName, weiboSize, count, uncounted, times>>

\* SetTableIndexToZero and the next loop's own cursor.
OpenFirstTable(n) ==
    /\ phase = "between"
    /\ phase' = "scan"
    /\ scan' = scan + 1
    /\ tableIndex' = 1
    /\ tableName' = 1
    /\ UNCHANGED <<sizes, times>>
    /\ MayBeRefused(scan + 1, 1)
    /\ weiboSize' = n
    /\ count' = 0

StartScan_OldSize == OpenFirstTable(weiboSize)
StartScan == OpenFirstTable(GetTablecount(scan, tableName)')

ScanNext == ReadBatch \/ ReadNextTable \/ EndScan \/ StartScan

ScanSpec == ScanInit /\ [][ScanNext]_scanVars

\* One thread that goes on unless the uncaught exception ends the process.
ScanFairSpec == ScanSpec /\ WF_scanVars(ScanNext)
-----------------------------------------------------------------------------
(* Properties *)

\* A scan that runs compares its cursor with what the count of its table gave.
TypeOK ==
    /\ phase \in {"scan", "between", "done", "sqlerror", "refused"}
    /\ sizes \in Databases
    /\ scan \in 1..Scans
    /\ tableIndex \in 1..(Len(sizes) + 1)
    /\ tableName \in Tables
    /\ uncounted \subseteq (1..scan) \X Tables
    /\ weiboSize = GetTablecount(scan, tableName)
    /\ count \in Int
    /\ times = [s \in 1..Scans |-> [t \in Tables |-> [r \in RowsOf(t) |-> times[s][t][r]]]]
    /\ \A s \in 1..Scans, t \in Tables : \A r \in RowsOf(t) : times[s][t][r] \in Nat

\* What a finished scan has read of table t: all rows after the first batch,
\* and the last row once more unless a batch began with it; a first table with
\* a single row is not read at all.
ExpectedTimes(t, r) ==
    LET last == sizes[t] - 1
        afterFirstBatch == IF r >= OneTimeReadWeiboNum THEN 1 ELSE 0
        lastOnceMore ==
            IF r = last /\ (last < OneTimeReadWeiboNum
                            \/ last % OneTimeReadWeiboNum # 0) THEN 1 ELSE 0
    IN  IF t = 1 /\ sizes[1] = 1 THEN 0 ELSE afterFirstBatch + lastOnceMore

\* A first table whose count was refused is passed over as if it were empty.
PassedOver(s, t) == t = 1 /\ <<s, 1>> \in uncounted
ScanTimes(s, t, r) == IF PassedOver(s, t) THEN 0 ELSE ExpectedTimes(t, r)

Finished(s) == s < scan \/ phase \in {"between", "done"}

\* Every finished scan has read exactly these rows, wherever the one before left
\* the cursor: two scans disagree only on a first table that one of them passed
\* over without a word, since its count was refused.
ScansReadTheSameRows ==
    \A s \in 1..Scans : Finished(s) /\ s <= scan =>
        \A t \in Tables : \A r \in RowsOf(t) : times[s][t][r] = ScanTimes(s, t, r)

\* No scan ever reads a row of the first batch of a table, unless it is the
\* last row of the table.
FirstBatchNeverRead ==
    \A s \in 1..Scans, t \in Tables : \A r \in RowsOf(t) :
        r < OneTimeReadWeiboNum /\ r # sizes[t] - 1 => times[s][t][r] = 0

\* The offset is negative exactly for a table after the first that is empty or
\* whose count was refused.  A first table like that is passed over.
Unreadable(t) == t > 1 /\ (sizes[t] = 0 \/ \E s \in 1..Scans : <<s, t>> \in uncounted)

NegativeOffsetExplained == phase = "sqlerror" => Unreadable(tableName)

\* A run never hangs, the cursor always reaches the last row; and unless a read
\* was refused it makes all its scans exactly if it can read every table after
\* the first.
ScansEnd ==
    <>(phase \in {"refused", IF \E t \in Tables : Unreadable(t) THEN "sqlerror" ELSE "done"})

\* "go over every message" (Cluster.cpp:46): a run that is done, and was never
\* refused a count, has read every row of every table in every scan.
EveryMessageRead ==
    phase = "done" /\ uncounted = {} =>
        \A s \in 1..Scans, t \in Tables : \A r \in RowsOf(t) : times[s][t][r] > 0
=============================================================================
