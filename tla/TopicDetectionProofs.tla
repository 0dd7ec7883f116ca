----------------------- MODULE TopicDetectionProofs -----------------------
(***************************************************************************)
(* Proofs about topic detection.  TableScan, for every list of tables,     *)
(* every batch size and every number of scans; then SinglePass, for        *)
(* whatever the scans read, every choice of the limits and every draw of   *)
(* the threshold.                                                          *)
(***************************************************************************)
EXTENDS TableScan, SinglePass, FiniteSetTheorems, WellFoundedInduction, TLAPS

-----------------------------------------------------------------------------
(* TableScan: the cursor *)


\* While a scan runs, the table that is read is the one the index names; the
\* cursor is only negative once the database has rejected it.
CursorOK ==
    /\ phase = "scan" => tableIndex = tableName
    /\ phase = "between" => scan < Scans
    /\ phase # "sqlerror" => count >= 0

CursorInv ==
    /\ TypeOK
    /\ CursorOK
    /\ FirstBatchNeverRead
    /\ NegativeOffsetExplained

\* What is known of the list of tables.
LEMMA SizesType ==
    ASSUME sizes \in Databases
    PROVE  /\ sizes \in Seq(Nat)
           /\ Len(sizes) \in Nat \ {0}
           /\ Tables = 1..Len(sizes)
           /\ 1 \in Tables
           /\ \A t \in Tables : sizes[t] \in Nat
           /\ \A t \in Tables : \A r \in RowsOf(t) : r \in Nat /\ r < sizes[t]
<1>1. sizes \in Seq(Nat) /\ sizes # <<>>
  BY DatabasesAssumption
<1>2. Len(sizes) \in Nat \ {0}
  BY <1>1
<1>3. \A t \in Tables : sizes[t] \in Nat
  BY <1>1 DEF Tables
<1> QED
  BY <1>1, <1>2, <1>3 DEF Tables, RowsOf

\* Where ChangeOneTableCount leaves the cursor: past the first batch, or at the
\* last row; it is negative for an empty table only.
LEMMA NextCountPlace ==
    ASSUME NEW c \in Nat, NEW n \in Nat
    PROVE  /\ NextCount(c, n) \in Int
           /\ NextCount(c, n) >= OneTimeReadWeiboNum \/ NextCount(c, n) = n - 1
           /\ NextCount(c, n) < 0 => n = 0
           /\ n > 0 => NextCount(c, n) >= 0
  BY BatchAssumption DEF NextCount

\* GetMidandText from the row the cursor was moved to: either the table is empty
\* and the database refuses, or no row of the first batch is read but the last.
LEMMA ReadKeeps ==
    ASSUME CursorInv,
           phase = "scan",
           NEW t \in Tables,
           NEW c \in Nat,
           NEW n \in {0, sizes[t]},
           Read(t, NextCount(c, n)),
           sizes' = sizes, scan' = scan
    PROVE  /\ times' = [s \in 1..Scans |-> [u \in Tables |->
                            [r \in RowsOf(u) |-> times'[s][u][r]]]]
           /\ \A s \in 1..Scans, u \in Tables : \A r \in RowsOf(u) :
                  times'[s][u][r] \in Nat
           /\ FirstBatchNeverRead'
           /\ phase' \in {"scan", "sqlerror", "refused"}
           /\ phase' = "sqlerror" => n = 0
           /\ phase' # "sqlerror" => NextCount(c, n) >= 0
<1> DEFINE next == NextCount(c, n)
<1>1. /\ sizes \in Databases
      /\ scan \in 1..Scans
      /\ times = [s \in 1..Scans |-> [u \in Tables |-> [r \in RowsOf(u) |-> times[s][u][r]]]]
      /\ \A s \in 1..Scans, u \in Tables : \A r \in RowsOf(u) : times[s][u][r] \in Nat
      /\ FirstBatchNeverRead
  BY DEF CursorInv, TypeOK
<1>2. sizes[t] \in Nat /\ \A u \in Tables : \A r \in RowsOf(u) : r \in Nat /\ r < sizes[u]
  BY <1>1, SizesType
<1>3. /\ next \in Int
      /\ next >= OneTimeReadWeiboNum \/ next = n - 1
      /\ next < 0 => n = 0
      /\ n \in Nat /\ (n = 0 => next < 0)
  BY <1>2, NextCountPlace DEF NextCount
<1>4. Tables' = Tables /\ \A u \in Tables : RowsOf(u)' = RowsOf(u)
  BY DEF Tables, RowsOf
<1>5. CASE phase' # "scan"
  <2>1. phase' = (IF next < 0 THEN "sqlerror" ELSE "refused") /\ times' = times
    BY <1>5 DEF Read
  <2>2. FirstBatchNeverRead'
    BY <2>1, <1>1, <1>4 DEF FirstBatchNeverRead
  <2>3. times' = [s \in 1..Scans |-> [u \in Tables |-> [r \in RowsOf(u) |-> times'[s][u][r]]]]
    BY <2>1, <1>1
  <2> HIDE DEF next
  <2> QED
    BY <2>1, <2>2, <2>3, <1>1, <1>3 DEF next
<1>6. CASE phase' = "scan"
  <2> DEFINE row == [r \in RowsOf(t) |->
                        IF r \in next..(next + OneTimeReadWeiboNum - 1)
                        THEN times[scan][t][r] + 1 ELSE times[scan][t][r]]
  <2>1. times' = [times EXCEPT ![scan][t] = row] /\ phase' = phase /\ next >= 0
    <3>1. phase' # (IF next < 0 THEN "sqlerror" ELSE "refused")
      BY <1>6
    <3> QED
      BY <3>1 DEF Read
  <2>2. \A s \in 1..Scans, u \in Tables :
            times'[s][u] = IF s = scan /\ u = t THEN row ELSE times[s][u]
    <3>1. times' = [times EXCEPT ![scan][t] = row]
      BY <2>1
    <3>2. /\ scan \in 1..Scans
          /\ times = [s \in 1..Scans |-> [u \in Tables |-> [r \in RowsOf(u) |-> times[s][u][r]]]]
      BY <1>1
    <3> QED
      BY <3>1, <3>2, Zenon
  <2>3. /\ DOMAIN times' = 1..Scans
        /\ times' = [s \in 1..Scans |-> times'[s]]
        /\ \A s \in 1..Scans : times'[s] = [u \in Tables |-> times'[s][u]]
    <3>1. times' = [s \in 1..Scans |-> times'[s]]
      BY <2>1, <1>1
    <3>2. \A s \in 1..Scans : times'[s] = [u \in Tables |-> times'[s][u]]
      BY <2>1, <1>1
    <3> QED
      BY <3>1, <3>2
  <2>4. ASSUME NEW s \in 1..Scans, NEW u \in Tables
        PROVE  times'[s][u] = [r \in RowsOf(u) |-> times'[s][u][r]]
    <3>1. times[s][u] = [r \in RowsOf(u) |-> times[s][u][r]]
      BY <1>1
    <3>2. row = [r \in RowsOf(t) |-> row[r]]
      OBVIOUS
    <3>3. CASE s = scan /\ u = t
      <4>1. times'[s][u] = row
        BY <2>2, <3>3
      <4> QED
        BY <4>1, <3>2, <3>3
    <3>4. CASE ~(s = scan /\ u = t)
      <4>1. times'[s][u] = times[s][u]
        BY <2>2, <3>4
      <4> QED
        BY <4>1, <3>1
    <3> QED
      BY <3>3, <3>4
  <2>5. times' = [s \in 1..Scans |-> [u \in Tables |->
                     [r \in RowsOf(u) |-> times'[s][u][r]]]]
    BY <2>3, <2>4
  <2>6. ASSUME NEW s \in 1..Scans, NEW u \in Tables, NEW r \in RowsOf(u)
        PROVE  /\ times'[s][u][r] \in Nat
               /\ \/ times'[s][u][r] = times[s][u][r]
                  \/ u = t /\ r \in next..(next + OneTimeReadWeiboNum - 1)
    <3>1. times[s][u][r] \in Nat
      BY <1>1
    <3>2. CASE s = scan /\ u = t
      <4>1. times'[s][u] = row /\ row[r] = IF r \in next..(next + OneTimeReadWeiboNum - 1)
                        THEN times[s][u][r] + 1 ELSE times[s][u][r]
        BY <2>2, <3>2
      <4>2. CASE r \in next..(next + OneTimeReadWeiboNum - 1)
        <5>1. times'[s][u][r] = times[s][u][r] + 1
          BY <4>1, <4>2
        <5> QED
          BY <5>1, <3>1, <3>2, <4>2
      <4>3. CASE ~(r \in next..(next + OneTimeReadWeiboNum - 1))
        BY <4>1, <4>3, <3>1
      <4> QED
        BY <4>2, <4>3
    <3>3. CASE ~(s = scan /\ u = t)
      <4>1. times'[s][u] = times[s][u]
        BY <2>2, <3>3
      <4> QED
        BY <4>1, <3>1
    <3> QED
      BY <3>2, <3>3
  <2>7. ASSUME NEW s \in 1..Scans, NEW u \in Tables, NEW r \in RowsOf(u),
               r < OneTimeReadWeiboNum, r # sizes[u] - 1
        PROVE  times'[s][u][r] = 0
    <3>1. times[s][u][r] = 0
      BY <2>7, <1>1 DEF FirstBatchNeverRead
    <3>2. u = t => r \notin next..(next + OneTimeReadWeiboNum - 1)
      <4>1. n = sizes[t]
        BY <1>3, <2>1
      <4> QED
        BY <2>7, <1>2, <1>3, <4>1, BatchAssumption
    <3> QED
      BY <3>1, <3>2, <2>6
  <2>8. FirstBatchNeverRead'
    BY <2>7, <1>4 DEF FirstBatchNeverRead
  <2>9. next >= 0 /\ phase' = "scan"
    BY <1>3, <1>6, <2>1
  <2>10. \A s \in 1..Scans, u \in Tables : \A r \in RowsOf(u) : times'[s][u][r] \in Nat
    BY <2>6
  <2> HIDE DEF row
  <2> QED
    BY <2>5, <2>8, <2>9, <2>10
<1> QED
  BY <1>5, <1>6

\* The size that a count gives.
LEMMA CountGives ==
    \A s, t : /\ GetTablecount(s, t) \in {0, sizes[t]}
              /\ GetTablecount(s, t) # sizes[t] => <<s, t>> \in uncounted
  BY DEF GetTablecount

LEMMA CursorInit == ScanInit => CursorInv
<1> SUFFICES ASSUME ScanInit PROVE CursorInv
  OBVIOUS
<1>1. sizes \in Databases
  BY DEF ScanInit
<1>2. 1 \in Tables /\ Len(sizes) \in Nat \ {0} /\ Tables = 1..Len(sizes)
  BY <1>1, SizesType
<1>3. \A s \in 1..Scans, t \in Tables : \A r \in RowsOf(t) : times[s][t][r] = 0
  BY DEF ScanInit
<1>4. TypeOK
  <2>1. times = [s \in 1..Scans |-> [t \in Tables |-> [r \in RowsOf(t) |-> times[s][t][r]]]]
    BY DEF ScanInit
  <2>2. uncounted \subseteq (1..1) \X Tables
    BY <1>2 DEF ScanInit
  <2> QED
    BY <1>1, <1>2, <1>3, <2>1, <2>2, ScansAssumption DEF ScanInit, TypeOK
<1> QED
  BY <1>3, <1>4, ScansAssumption
     DEF ScanInit, CursorInv, CursorOK, FirstBatchNeverRead, NegativeOffsetExplained

LEMMA CursorStep == CursorInv /\ [ScanNext]_scanVars => CursorInv'
<1> SUFFICES ASSUME CursorInv, [ScanNext]_scanVars PROVE CursorInv'
  OBVIOUS
<1>0. /\ sizes \in Databases /\ scan \in 1..Scans /\ Scans \in Nat
      /\ Len(sizes) \in Nat \ {0} /\ Tables = 1..Len(sizes) /\ 1 \in Tables
      /\ \A t \in Tables : sizes[t] \in Nat
      /\ tableIndex \in 1..(Len(sizes) + 1)
  BY SizesType, ScansAssumption DEF CursorInv, TypeOK
<1>1. CASE ReadBatch
  <2>1. /\ phase = "scan" /\ sizes' = sizes /\ scan' = scan /\ tableIndex' = tableIndex
        /\ tableName' = tableName /\ weiboSize' = weiboSize /\ uncounted' = uncounted
        /\ tableName \in Tables /\ weiboSize \in {0, sizes[tableName]} /\ count \in Nat
        /\ tableIndex = tableName
        /\ count' = NextCount(count, weiboSize)
        /\ Read(tableName, NextCount(count, weiboSize))
        /\ ~(count >= weiboSize - 1)
    <3>1. weiboSize = GetTablecount(scan, tableName)
      BY DEF CursorInv, TypeOK
    <3>2. weiboSize \in {0, sizes[tableName]}
      BY <3>1, CountGives
    <3> QED
      BY <1>1, <3>2 DEF ReadBatch, AtEnd, CursorInv, TypeOK, CursorOK
  <2>2. weiboSize > 0 /\ weiboSize \in Nat
    BY <2>1, <1>0
  <2>3. /\ times' = [s \in 1..Scans |-> [u \in Tables |->
                        [r \in RowsOf(u) |-> times'[s][u][r]]]]
        /\ \A s \in 1..Scans, u \in Tables : \A r \in RowsOf(u) : times'[s][u][r] \in Nat
        /\ FirstBatchNeverRead'
        /\ phase' \in {"scan", "sqlerror", "refused"}
        /\ phase' = "sqlerror" => weiboSize = 0
        /\ phase' # "sqlerror" => count' >= 0
    BY <2>1, ReadKeeps
  <2>4. count' \in Int
    BY <2>1, <2>2, NextCountPlace
  <2>5. Tables' = Tables /\ \A u \in Tables : RowsOf(u)' = RowsOf(u)
    BY <2>1 DEF Tables, RowsOf
  <2>6. TypeOK'
    <3>1. weiboSize' = GetTablecount(scan, tableName)'
      BY <1>1 DEF ReadBatch, CursorInv, TypeOK, GetTablecount
    <3>2. uncounted' \subseteq (1..scan') \X Tables'
      BY <2>1, <2>5 DEF CursorInv, TypeOK
    <3> QED
      BY <1>0, <2>1, <2>3, <2>4, <2>5, <3>1, <3>2 DEF TypeOK
  <2> QED
    BY <2>1, <2>2, <2>3, <2>6 DEF CursorInv, CursorOK, NegativeOffsetExplained
<1>2. CASE ReadNextTable
  <2> DEFINE t == tableIndex + 1
  <2>1. /\ phase = "scan" /\ sizes' = sizes /\ scan' = scan /\ tableIndex' = t
        /\ tableName' = t /\ weiboSize' \in {0, sizes[t]}
        /\ tableIndex < Len(sizes) /\ tableIndex = tableName
        /\ count' = NextCount(0, weiboSize')
        /\ Read(t, NextCount(0, weiboSize'))
        /\ weiboSize' = GetTablecount(scan, tableName)'
        /\ weiboSize' # sizes[t] => <<scan, t>> \in uncounted'
        /\ uncounted' \in {uncounted, uncounted \cup {<<scan, t>>}}
    BY <1>2 DEF ReadNextTable, OpenNextTable, GetTablecount, MayBeRefused, CursorInv, CursorOK
  <2>2. t \in Tables /\ t > 1 /\ t \in 1..(Len(sizes) + 1)
    BY <2>1, <1>0
  <2>3. /\ times' = [s \in 1..Scans |-> [u \in Tables |->
                        [r \in RowsOf(u) |-> times'[s][u][r]]]]
        /\ \A s \in 1..Scans, u \in Tables : \A r \in RowsOf(u) : times'[s][u][r] \in Nat
        /\ FirstBatchNeverRead'
        /\ phase' \in {"scan", "sqlerror", "refused"}
        /\ phase' = "sqlerror" => weiboSize' = 0
        /\ phase' # "sqlerror" => count' >= 0
    BY <2>1, <2>2, ReadKeeps
  <2>4. count' \in Int
    BY <2>1, <2>2, <1>0, NextCountPlace
  <2>5. Tables' = Tables /\ \A u \in Tables : RowsOf(u)' = RowsOf(u)
    BY <2>1 DEF Tables, RowsOf
  <2>6. TypeOK'
    <3>1. uncounted' \subseteq (1..scan') \X Tables'
      BY <1>0, <2>1, <2>2, <2>5 DEF CursorInv, TypeOK
    <3> QED
      BY <1>0, <2>1, <2>2, <2>3, <2>4, <2>5, <3>1 DEF TypeOK
  <2>7. NegativeOffsetExplained'
    BY <1>0, <2>1, <2>2, <2>3 DEF NegativeOffsetExplained, Unreadable
  <2> QED
    BY <2>1, <2>2, <2>3, <2>6, <2>7 DEF CursorInv, CursorOK
<1>3. CASE EndScan
  <2>1. Tables' = Tables /\ \A u \in Tables : RowsOf(u)' = RowsOf(u)
    BY <1>3 DEF EndScan, Tables, RowsOf
  <2>2. TypeOK'
    BY <1>0, <1>3, <2>1 DEF EndScan, CursorInv, TypeOK, GetTablecount
  <2>3. FirstBatchNeverRead'
    BY <1>3, <2>1 DEF EndScan, CursorInv, FirstBatchNeverRead
  <2> QED
    BY <1>0, <1>3, <2>2, <2>3 DEF EndScan, CursorInv, CursorOK, NegativeOffsetExplained
<1>4. CASE StartScan
  <2>1. Tables' = Tables /\ \A u \in Tables : RowsOf(u)' = RowsOf(u)
    BY <1>4 DEF StartScan, OpenFirstTable, Tables, RowsOf
  <2>2. scan + 1 \in 1..Scans
    BY <1>0, <1>4 DEF StartScan, OpenFirstTable, CursorInv, CursorOK
  <2>3. TypeOK'
    <3>1. uncounted' \subseteq (1..(scan + 1)) \X Tables
      BY <1>0, <1>4 DEF StartScan, OpenFirstTable, MayBeRefused, CursorInv, TypeOK
    <3>2. scan' = scan + 1 /\ weiboSize' = GetTablecount(scan, tableName)'
      BY <1>4 DEF StartScan, OpenFirstTable
    <3> QED
      BY <1>0, <1>4, <2>1, <2>2, <3>1, <3>2 DEF StartScan, OpenFirstTable, CursorInv, TypeOK
  <2>4. FirstBatchNeverRead'
    BY <1>4, <2>1 DEF StartScan, OpenFirstTable, CursorInv, FirstBatchNeverRead
  <2> QED
    BY <1>4, <2>3, <2>4 DEF StartScan, OpenFirstTable, CursorInv, CursorOK,
       NegativeOffsetExplained
<1>5. CASE UNCHANGED scanVars
  <2>1. Tables' = Tables /\ \A u \in Tables : RowsOf(u)' = RowsOf(u)
    BY <1>5 DEF scanVars, Tables, RowsOf
  <2>2. TypeOK'
    BY <1>5, <2>1 DEF scanVars, CursorInv, TypeOK, RowsOf, GetTablecount
  <2>3. FirstBatchNeverRead'
    BY <1>5, <2>1 DEF scanVars, CursorInv, FirstBatchNeverRead
  <2> QED
    BY <1>5, <2>1, <2>2, <2>3
       DEF scanVars, CursorInv, CursorOK, NegativeOffsetExplained, Unreadable
<1> QED
  BY <1>1, <1>2, <1>3, <1>4, <1>5 DEF ScanNext

\* The inductive invariant of the cursor.
THEOREM CursorInvariance == ScanSpec => []CursorInv
<1>1. ScanInit => CursorInv
  BY CursorInit
<1>2. CursorInv /\ [ScanNext]_scanVars => CursorInv'
  BY CursorStep
<1> QED
  BY <1>1, <1>2, PTL DEF ScanSpec

\* For every list of tables the variables keep their types, and the size the
\* cursor is compared with is what the count of the table being read gave: its
\* size, or 0 if the database refused the count.
THEOREM ScanTypeCorrect == ScanSpec => []TypeOK
<1>1. CursorInv => TypeOK
  BY DEF CursorInv
<1> QED
  BY <1>1, CursorInvariance, PTL

\* For every list of tables and every batch size the rows of the first batch of
\* a table are lost to every scan, except a last row among them.
THEOREM FirstBatchLost == ScanSpec => []FirstBatchNeverRead
<1>1. CursorInv => FirstBatchNeverRead
  BY DEF CursorInv
<1> QED
  BY <1>1, CursorInvariance, PTL

\* For every list of tables, a table after the first that is empty, or whose count
\* was refused, is the only way to an offset that MySQL rejects.
THEOREM ErrorExplained == ScanSpec => []NegativeOffsetExplained
<1>1. CursorInv => NegativeOffsetExplained
  BY DEF CursorInv
<1> QED
  BY <1>1, CursorInvariance, PTL
-----------------------------------------------------------------------------
(* What the scans have read so far *)

\* The rows of table t that scan s should have read at its end are read, and
\* no row of it is read.
ReadOut(s, t) == \A r \in RowsOf(t) : times[s][t][r] = ScanTimes(s, t, r)
Unread(s, t) == \A r \in RowsOf(t) : times[s][t][r] = 0

\* The cursor stands at row c at the beginning of a batch, and the batches from
\* the second one to this one are read; nothing is read yet at row 0.
ReadUpTo(t, c) ==
    \A r \in RowsOf(t) : times[scan][t][r] =
        IF OneTimeReadWeiboNum <= r /\ r < c + OneTimeReadWeiboNum THEN 1 ELSE 0

AtBatch ==
    /\ count % OneTimeReadWeiboNum = 0
    /\ count = 0 => tableName = 1
    /\ count # 0 => count < weiboSize
    /\ ReadUpTo(tableName, count)

\* The cursor was put on the last row, and the table is read.
AtLastRow ==
    /\ count = weiboSize - 1
    /\ ReadOut(scan, tableName)

ScansInv ==
    \A s \in 1..Scans, t \in Tables :
        /\ Finished(s) /\ s <= scan => ReadOut(s, t)
        /\ s > scan => Unread(s, t)

TablesInv ==
    phase = "scan" => \A t \in Tables :
        /\ t < tableName => ReadOut(scan, t)
        /\ t > tableName => Unread(scan, t)

ProgressInv ==
    /\ CursorInv
    /\ ScansInv
    /\ TablesInv
    /\ phase = "scan" => AtBatch \/ AtLastRow

\* Division by the batch size: each number has one quotient and one remainder.
LEMMA BatchOf ==
    ASSUME NEW c \in Nat
    PROVE  /\ c % OneTimeReadWeiboNum \in 0..(OneTimeReadWeiboNum - 1)
           /\ \E k \in Nat : c = k * OneTimeReadWeiboNum + (c % OneTimeReadWeiboNum)
<1>1. OneTimeReadWeiboNum \in Nat /\ OneTimeReadWeiboNum > 0
  BY BatchAssumption
<1>2. /\ c % OneTimeReadWeiboNum \in 0..(OneTimeReadWeiboNum - 1)
      /\ c = (c \div OneTimeReadWeiboNum) * OneTimeReadWeiboNum + (c % OneTimeReadWeiboNum)
      /\ (c \div OneTimeReadWeiboNum) \in Nat
  BY <1>1
<1> QED
  BY <1>2

\* No number strictly between two neighbouring multiples is a multiple.
LEMMA NoneBetween ==
    ASSUME NEW B \in Nat, B > 0, NEW k \in Nat, NEW j \in Nat,
           k * B < j * B, j * B < k * B + B
    PROVE  FALSE
  OBVIOUS

\* A batch that begins at a multiple of the batch size ends before the next
\* multiple, and the next batch begins there.
LEMMA Batches ==
    ASSUME NEW c \in Nat, c % OneTimeReadWeiboNum = 0
    PROVE  /\ (c + OneTimeReadWeiboNum) % OneTimeReadWeiboNum = 0
           /\ \A l \in Nat : c < l /\ l < c + OneTimeReadWeiboNum
                  => l % OneTimeReadWeiboNum # 0
           /\ c # 0 => c >= OneTimeReadWeiboNum
<1> DEFINE B == OneTimeReadWeiboNum
<1>1. B \in Nat /\ B > 0
  BY BatchAssumption
<1>2. PICK k \in Nat : c = k * B + (c % B)
  BY BatchOf
<1>3. c = k * B
  BY <1>1, <1>2
<1>4. \A l \in Nat : c < l /\ l < c + B => l % B # 0
  <2> SUFFICES ASSUME NEW l \in Nat, c < l, l < c + B, l % B = 0 PROVE FALSE
    OBVIOUS
  <2>1. PICK j \in Nat : l = j * B + (l % B)
    BY BatchOf
  <2>2. l = j * B
    BY <1>1, <2>1
  <2> QED
    BY <1>1, <1>3, <2>2, NoneBetween
<1>5. (c + B) % B = 0
  <2> DEFINE m == (c + B) % B
  <2>1. c + B \in Nat
    BY <1>1
  <2>2. m \in 0..(B - 1)
    BY <2>1, BatchOf
  <2>3. PICK j \in Nat : c + B = j * B + m
    BY <2>1, BatchOf
  <2>4. k + 1 \in Nat /\ (k + 1) * B = k * B + B
    BY <1>1
  <2> HIDE DEF m
  <2>5. j * B + m = (k + 1) * B /\ m < B /\ 0 <= m
    BY <1>1, <1>3, <2>2, <2>3, <2>4
  <2>6. j * B \in Nat /\ (k + 1) * B \in Nat /\ m \in Nat
    BY <1>1, <2>2, <2>4
  <2>7. m > 0 => j * B < (k + 1) * B /\ (k + 1) * B < j * B + B
    BY <1>1, <2>5, <2>6
  <2>8. m = 0
    BY <1>1, <2>4, <2>6, <2>7, NoneBetween
  <2> QED
    BY <2>8 DEF m
<1>6. c # 0 => c >= B
  <2>1. k # 0 => k * B >= B
    BY <1>1
  <2> QED
    BY <1>1, <1>3, <2>1
<1> QED
  BY <1>4, <1>5, <1>6

\* What GetMidandText leaves of the counts when the database answers.
LEMMA ReadCounts ==
    ASSUME CursorInv, NEW t \in Tables, NEW c \in Int,
           Read(t, c), phase' = "scan", sizes' = sizes, scan' = scan
    PROVE  \A s \in 1..Scans, u \in Tables : \A r \in RowsOf(u) :
               times'[s][u][r] =
                   IF s = scan /\ u = t /\ r \in c..(c + OneTimeReadWeiboNum - 1)
                   THEN times[s][u][r] + 1 ELSE times[s][u][r]
<1> DEFINE row == [r \in RowsOf(t) |->
                      IF r \in c..(c + OneTimeReadWeiboNum - 1)
                      THEN times[scan][t][r] + 1 ELSE times[scan][t][r]]
<1>1. /\ scan \in 1..Scans
      /\ times = [s \in 1..Scans |-> [u \in Tables |-> [r \in RowsOf(u) |-> times[s][u][r]]]]
  BY DEF CursorInv, TypeOK
<1>2. times' = [times EXCEPT ![scan][t] = row]
  <2>1. phase' # (IF c < 0 THEN "sqlerror" ELSE "refused")
    OBVIOUS
  <2> QED
    BY <2>1 DEF Read
<1>3. \A s \in 1..Scans, u \in Tables :
          times'[s][u] = IF s = scan /\ u = t THEN row ELSE times[s][u]
  BY <1>1, <1>2, Zenon
<1> SUFFICES ASSUME NEW s \in 1..Scans, NEW u \in Tables, NEW r \in RowsOf(u)
             PROVE  times'[s][u][r] =
                        IF s = scan /\ u = t /\ r \in c..(c + OneTimeReadWeiboNum - 1)
                        THEN times[s][u][r] + 1 ELSE times[s][u][r]
  OBVIOUS
<1>4. CASE s = scan /\ u = t
  <2>1. times'[s][u] = row
    BY <1>3, <1>4
  <2>2. row[r] = IF r \in c..(c + OneTimeReadWeiboNum - 1)
                 THEN times[scan][t][r] + 1 ELSE times[scan][t][r]
    BY <1>4
  <2> HIDE DEF row
  <2> QED
    BY <1>4, <2>1, <2>2
<1>5. CASE ~(s = scan /\ u = t)
  <2>1. times'[s][u] = times[s][u]
    BY <1>3, <1>5
  <2> QED
    BY <1>5, <2>1
<1> QED
  BY <1>4, <1>5

\* A table whose cursor cannot go on is read out.
LEMMA EndMeansReadOut ==
    ASSUME ProgressInv, phase = "scan", AtEnd
    PROVE  ReadOut(scan, tableName)
<1> DEFINE B == OneTimeReadWeiboNum
           n == sizes[tableName]
<1>1. /\ sizes \in Databases /\ tableName \in Tables
      /\ weiboSize = GetTablecount(scan, tableName)
      /\ count \in Nat /\ B \in Nat /\ B > 0
  BY BatchAssumption DEF ProgressInv, CursorInv, TypeOK, CursorOK
<1>2. n \in Nat /\ \A r \in RowsOf(tableName) : r \in Nat /\ r < n
  BY <1>1, SizesType
<1>3. CASE AtLastRow
  BY <1>3 DEF AtLastRow
<1>5. CASE AtBatch /\ <<scan, tableName>> \in uncounted
  <2>1. weiboSize = 0
    BY <1>1, <1>5 DEF GetTablecount
  <2>2. count = 0 /\ tableName = 1
    BY <1>1, <1>5, <2>1 DEF AtBatch
  <2>3. \A r \in RowsOf(tableName) : times[scan][tableName][r] = 0
    BY <1>1, <1>2, <1>5, <2>2 DEF AtBatch, ReadUpTo
  <2> QED
    BY <1>5, <2>2, <2>3 DEF ReadOut, ScanTimes, PassedOver
<1>4. CASE AtBatch /\ <<scan, tableName>> \notin uncounted
  <2>0. weiboSize = n
    BY <1>1, <1>4 DEF GetTablecount
  <2>1. /\ count % B = 0
        /\ count = 0 => tableName = 1
        /\ count # 0 => count < n
        /\ \A r \in RowsOf(tableName) : times[scan][tableName][r] =
               IF B <= r /\ r < count + B THEN 1 ELSE 0
        /\ count >= n - 1
    BY <1>1, <1>4, <2>0 DEF AtBatch, ReadUpTo, AtEnd
  <2>2. count # 0 => count >= B
    BY <1>1, <2>1, Batches
  <2> SUFFICES ASSUME NEW r \in RowsOf(tableName)
               PROVE  times[scan][tableName][r] = ExpectedTimes(tableName, r)
    BY <1>4 DEF ReadOut, ScanTimes, PassedOver
  <2>3. r \in Nat /\ r < n
    BY <1>2
  <2>4. CASE count = 0
    <3>1. tableName = 1 /\ n = 1 /\ r = 0
      BY <1>1, <1>2, <2>1, <2>3, <2>4
    <3>2. times[scan][tableName][r] = 0
      BY <1>1, <2>1, <3>1
    <3> QED
      BY <3>1, <3>2 DEF ExpectedTimes
  <2>5. CASE count # 0
    <3>1. /\ count = n - 1 /\ n > B /\ n > 1 /\ (n - 1) % B = 0 /\ n - 1 >= B
      BY <1>1, <1>2, <2>1, <2>2, <2>5
    <3>2. times[scan][tableName][r] = IF B <= r THEN 1 ELSE 0
      <4>1. r < count + B
        BY <1>1, <1>2, <2>3, <3>1
      <4> QED
        BY <2>1, <4>1
    <3>3. ExpectedTimes(tableName, r) = IF B <= r THEN 1 ELSE 0
      <4>1. ~(tableName = 1 /\ sizes[1] = 1)
        BY <1>2, <3>1
      <4>2. ~(n - 1 < B \/ (n - 1) % B # 0)
        BY <1>1, <1>2, <3>1
      <4> HIDE DEF n
      <4>3. sizes[tableName] = n
        BY DEF n
      <4> QED
        BY <1>1, <1>2, <2>3, <4>1, <4>2, <4>3 DEF ExpectedTimes
    <3> QED
      BY <3>2, <3>3
  <2> QED
    BY <2>4, <2>5
<1> QED
  BY <1>3, <1>4, <1>5 DEF ProgressInv

\* A turn of the loop in the same table reads the next batch or, at the last
\* turn, the last row, which no batch began with.
LEMMA TurnInTable ==
    ASSUME ProgressInv, ReadBatch, phase' = "scan"
    PROVE  AtBatch' \/ AtLastRow'
<1> DEFINE B == OneTimeReadWeiboNum
           n == sizes[tableName]
           c == count
<1>0. /\ sizes \in Databases /\ tableName \in Tables /\ weiboSize \in {0, n}
      /\ weiboSize # n => <<scan, tableName>> \in uncounted
      /\ <<scan, tableName>> \in uncounted => weiboSize = 0
      /\ c \in Nat /\ B \in Nat /\ B > 0 /\ scan \in 1..Scans
      /\ phase = "scan" /\ c < weiboSize - 1 /\ sizes[tableName] \in Nat
      /\ sizes' = sizes /\ scan' = scan /\ tableName' = tableName /\ weiboSize' = weiboSize
      /\ uncounted' = uncounted
      /\ count' = NextCount(c, weiboSize)
      /\ Read(tableName, NextCount(c, weiboSize))
  BY BatchAssumption, SizesType
     DEF ProgressInv, CursorInv, TypeOK, CursorOK, ReadBatch, AtEnd, GetTablecount
<1>1. /\ sizes \in Databases /\ tableName \in Tables /\ weiboSize = n
      /\ c \in Nat /\ B \in Nat /\ B > 0 /\ scan \in 1..Scans
      /\ phase = "scan" /\ c < n - 1 /\ <<scan, tableName>> \notin uncounted
      /\ sizes' = sizes /\ scan' = scan /\ tableName' = tableName /\ weiboSize' = weiboSize
      /\ uncounted' = uncounted
      /\ count' = NextCount(c, n)
      /\ Read(tableName, NextCount(c, n))
  <2>1. weiboSize = n
    BY <1>0
  <2> QED
    BY <1>0, <2>1
<1>2. n \in Nat /\ \A r \in RowsOf(tableName) : r \in Nat /\ r < n
  BY <1>1, SizesType
<1>3. NextCount(c, n) = IF c + B >= n THEN n - 1 ELSE c + B
  BY DEF NextCount
<1>4. /\ c % B = 0
      /\ \A r \in RowsOf(tableName) : times[scan][tableName][r] =
             IF B <= r /\ r < c + B THEN 1 ELSE 0
  BY <1>1, <1>2 DEF ProgressInv, AtBatch, AtLastRow, ReadUpTo
<1>5. \A r \in RowsOf(tableName) :
          times'[scan][tableName][r] =
              IF r \in count'..(count' + B - 1)
              THEN times[scan][tableName][r] + 1 ELSE times[scan][tableName][r]
  <2>1. NextCount(c, n) \in Int
    BY <1>1, <1>2, <1>3
  <2>2. CursorInv
    BY DEF ProgressInv
  <2> HIDE DEF c, n
  <2> QED
    BY <1>1, <2>1, <2>2, ReadCounts
<1>6. RowsOf(tableName)' = RowsOf(tableName)
  BY <1>1 DEF RowsOf
<1>7. CASE c + B < n
  <2>1. count' = c + B
    BY <1>1, <1>2, <1>3, <1>7
  <2>2. (c + B) % B = 0
    BY <1>1, <1>4, Batches
  <2>3. ASSUME NEW r \in RowsOf(tableName)
        PROVE  times'[scan][tableName][r] = IF B <= r /\ r < c + B + B THEN 1 ELSE 0
    <3>1. r \in Nat
      BY <1>2
    <3> QED
      BY <1>1, <1>4, <1>5, <2>1, <3>1
  <2>4. ReadUpTo(tableName, count)'
    BY <1>1, <1>6, <2>1, <2>3 DEF ReadUpTo
  <2>5. /\ count' % B = 0 /\ count' # 0 /\ count' < weiboSize'
    BY <1>1, <1>7, <2>1, <2>2
  <2> QED
    BY <2>4, <2>5 DEF AtBatch
<1>8. CASE ~(c + B < n)
  <2>1. count' = n - 1
    BY <1>1, <1>2, <1>3, <1>8
  <2>2. (n - 1) % B # 0 /\ n > 1
    <3>1. n - 1 \in Nat /\ c < n - 1 /\ n - 1 < c + B
      BY <1>1, <1>2, <1>8
    <3>2. \A l \in Nat : c < l /\ l < c + B => l % B # 0
      BY <1>1, <1>4, Batches
    <3> HIDE DEF n, B
    <3> QED
      BY <1>1, <1>2, <3>1, <3>2
  <2>3. ASSUME NEW r \in RowsOf(tableName)
        PROVE  times'[scan][tableName][r] = ExpectedTimes(tableName, r)
    <3>1. r \in Nat /\ r < n
      BY <1>2
    <3>2. times'[scan][tableName][r] =
              (IF r >= B THEN 1 ELSE 0) + (IF r = n - 1 THEN 1 ELSE 0)
      BY <1>1, <1>2, <1>4, <1>5, <1>8, <2>1, <3>1
    <3>3. ~(tableName = 1 /\ sizes[1] = 1)
      BY <1>2, <2>2
    <3> HIDE DEF n
    <3>4. sizes[tableName] = n
      BY DEF n
    <3> QED
      BY <1>1, <2>2, <3>1, <3>2, <3>3, <3>4 DEF ExpectedTimes
  <2>4. ReadOut(scan, tableName)'
    <3>1. \A r \in RowsOf(tableName) : ExpectedTimes(tableName, r)' = ExpectedTimes(tableName, r)
      BY <1>1 DEF ExpectedTimes
    <3>2. ~PassedOver(scan, tableName)'
      BY <1>1 DEF PassedOver
    <3> HIDE DEF n, B, c
    <3> QED
      BY <1>1, <1>6, <2>3, <3>1, <3>2 DEF ReadOut, ScanTimes
  <2> QED
    BY <1>1, <2>1, <2>4 DEF AtLastRow
<1> QED
  BY <1>7, <1>8

\* The turn in which the next table is opened reads its second batch, or its
\* last row if it has no second batch.
LEMMA TurnToNextTable ==
    ASSUME ProgressInv, ReadNextTable, phase' = "scan"
    PROVE  AtBatch' \/ AtLastRow'
<1> DEFINE B == OneTimeReadWeiboNum
<1>11. PICK t : t = tableIndex + 1
  OBVIOUS
<1> DEFINE n == sizes[t]
<1>0. /\ sizes \in Databases /\ tableIndex \in Nat \ {0} /\ tableIndex < Len(sizes)
      /\ B \in Nat /\ B > 0 /\ scan \in 1..Scans /\ phase = "scan" /\ tableIndex = tableName
      /\ Len(sizes) \in Nat /\ Tables = 1..Len(sizes)
      /\ sizes' = sizes /\ scan' = scan /\ tableName' = t /\ weiboSize' \in {0, n}
      /\ count' = NextCount(0, weiboSize')
      /\ Read(t, NextCount(0, weiboSize'))
  BY <1>11, BatchAssumption, SizesType
     DEF ProgressInv, CursorInv, TypeOK, CursorOK, ReadNextTable, OpenNextTable, GetTablecount
\* The cursor would be negative if the count had been refused.
<1>10. weiboSize' = n
  <2>1. CASE weiboSize' = 0
    <3>1. NextCount(0, weiboSize') < 0
      BY <1>0, <2>1 DEF NextCount
    <3> DEFINE c == NextCount(0, weiboSize')
    <3>2. Read(t, c)
      BY <1>0
    <3>3. c < 0
      BY <3>1
    <3> HIDE DEF c
    <3>4. c >= 0
      BY <3>2 DEF Read
    <3>5. c \in Int
      BY <1>0, <2>1, NextCountPlace DEF c
    <3> QED
      BY <3>3, <3>4, <3>5
  <2> QED
    BY <1>0, <2>1
<1>1. /\ sizes \in Databases /\ tableIndex \in Nat \ {0} /\ tableIndex < Len(sizes)
      /\ B \in Nat /\ B > 0 /\ scan \in 1..Scans /\ phase = "scan" /\ tableIndex = tableName
      /\ Len(sizes) \in Nat /\ Tables = 1..Len(sizes)
      /\ sizes' = sizes /\ scan' = scan /\ tableName' = t /\ weiboSize' = n
      /\ count' = NextCount(0, n)
      /\ Read(t, NextCount(0, n))
  BY <1>0, <1>10
<1>2. t \in Tables /\ t > tableName /\ t # 1
  BY <1>1, <1>11
<1>3. n \in Nat /\ \A r \in RowsOf(t) : r \in Nat /\ r < n
  BY <1>1, <1>2, SizesType
<1>4. NextCount(0, n) = IF B >= n THEN n - 1 ELSE B
  BY <1>1 DEF NextCount
<1>5. \A r \in RowsOf(t) : times[scan][t][r] = 0
  BY <1>1, <1>2 DEF ProgressInv, TablesInv, Unread
<1>6. \A r \in RowsOf(t) :
          times'[scan][t][r] = IF r \in count'..(count' + B - 1) THEN 1 ELSE 0
  <2>1. NextCount(0, n) \in Int
    BY <1>1, <1>3, <1>4
  <2>2. CursorInv
    BY DEF ProgressInv
  <2> HIDE DEF n
  <2>4. \A r \in RowsOf(t) :
            times'[scan][t][r] = IF r \in count'..(count' + B - 1)
                                 THEN times[scan][t][r] + 1 ELSE times[scan][t][r]
    BY <1>1, <1>2, <2>1, <2>2, ReadCounts
  <2> QED
    BY <1>5, <2>4
<1>7. RowsOf(tableName)' = RowsOf(t)
  BY <1>1 DEF RowsOf
<1>8. CASE B < n
  <2>1. count' = B
    BY <1>1, <1>3, <1>4, <1>8
  <2>2. B % B = 0
    <3>1. 0 \in Nat /\ 0 % B = 0
      BY <1>1
    <3>2. (0 + B) % B = 0
      BY <3>1, Batches
    <3> QED
      BY <1>1, <3>2
  <2>3. ASSUME NEW r \in RowsOf(t)
        PROVE  times'[scan][t][r] = IF B <= r /\ r < B + B THEN 1 ELSE 0
    <3>1. r \in Nat
      BY <1>3
    <3> QED
      BY <1>1, <1>6, <2>1, <3>1
  <2> QED
    BY <1>1, <1>7, <1>8, <2>1, <2>2, <2>3 DEF AtBatch, ReadUpTo, RowsOf
<1>9. CASE ~(B < n)
  <2>1. count' = n - 1
    BY <1>1, <1>3, <1>4, <1>9
  <2>2. ASSUME NEW r \in RowsOf(t)
        PROVE  times'[scan][t][r] = ExpectedTimes(t, r)
    <3>1. r \in Nat /\ r < n
      BY <1>3
    <3>2. times'[scan][t][r] = IF r = n - 1 THEN 1 ELSE 0
      BY <1>1, <1>3, <1>6, <2>1, <3>1
    <3>3. r < B /\ n - 1 < B
      BY <1>1, <1>3, <1>9, <3>1
    <3> HIDE DEF n
    <3>4. sizes[t] = n
      BY DEF n
    <3> QED
      BY <1>1, <1>2, <3>1, <3>2, <3>3, <3>4 DEF ExpectedTimes
  <2> QED
    <3>1. \A r \in RowsOf(t) : ExpectedTimes(tableName, r)' = ExpectedTimes(t, r)
      BY <1>1 DEF ExpectedTimes
    <3>2. ~PassedOver(scan, tableName)'
      BY <1>1, <1>2 DEF PassedOver
    <3>3. \A r \in RowsOf(t) : ScanTimes(scan, tableName, r)' = ExpectedTimes(t, r)
      BY <3>1, <3>2 DEF ScanTimes
    <3>5. scan' = scan /\ tableName' = t
      BY <1>1
    <3> HIDE DEF n, B
    <3>4. ReadOut(scan, tableName)'
      BY <1>7, <2>2, <3>3, <3>5 DEF ReadOut
    <3> QED
      BY <1>1, <2>1, <3>4 DEF AtLastRow
<1> QED
  BY <1>8, <1>9

\* A read changes what is said of the table it reads in the running scan only.
LEMMA OthersKept ==
    ASSUME CursorInv, NEW t \in Tables, NEW c \in Int, Read(t, c), phase' = "scan",
           sizes' = sizes, scan' = scan,
           \A q \in Nat : <<q, 1>> \in uncounted' <=> <<q, 1>> \in uncounted,
           NEW s \in 1..Scans, NEW u \in Tables, ~(s = scan /\ u = t)
    PROVE  /\ ReadOut(s, u) => ReadOut(s, u)'
           /\ Unread(s, u) => Unread(s, u)'
<1>1. \A r \in RowsOf(u) : times'[s][u][r] = times[s][u][r]
  BY ReadCounts
<1>2. RowsOf(u)' = RowsOf(u) /\ \A r \in RowsOf(u) : ScanTimes(s, u, r)' = ScanTimes(s, u, r)
  <2>1. s \in Nat
    BY ScansAssumption
  <2>2. PassedOver(s, u)' <=> PassedOver(s, u)
    BY <2>1 DEF PassedOver
  <2>3. \A r \in RowsOf(u) : ExpectedTimes(u, r)' = ExpectedTimes(u, r)
    BY DEF ExpectedTimes
  <2> QED
    BY <2>2, <2>3 DEF RowsOf, ScanTimes
<1> QED
  BY <1>1, <1>2 DEF ReadOut, Unread

\* A refused read leaves the counts and ends the run.
LEMMA RefusedKeepsScans ==
    ASSUME ProgressInv, phase = "scan", phase' \in {"sqlerror", "refused"}, times' = times,
           sizes' = sizes, scan' = scan,
           \A q \in Nat : <<q, 1>> \in uncounted' <=> <<q, 1>> \in uncounted
    PROVE  ScansInv' /\ TablesInv'
<1>1. \A s : Finished(s)' /\ s <= scan' => Finished(s) /\ s <= scan
  BY DEF Finished
<1>2. Tables' = Tables
  BY DEF Tables
<1>3. ASSUME NEW s \in 1..Scans, NEW t \in Tables
      PROVE  (ReadOut(s, t)' <=> ReadOut(s, t)) /\ (Unread(s, t)' <=> Unread(s, t))
  <2>1. s \in Nat
    BY ScansAssumption
  <2>2. PassedOver(s, t)' <=> PassedOver(s, t)
    BY <2>1 DEF PassedOver
  <2>3. \A r : ExpectedTimes(t, r)' = ExpectedTimes(t, r)
    BY DEF ExpectedTimes
  <2>4. \A r : ScanTimes(s, t, r)' = ScanTimes(s, t, r)
    BY <2>2, <2>3 DEF ScanTimes
  <2>5. RowsOf(t)' = RowsOf(t)
    BY DEF RowsOf
  <2> QED
    BY <2>4, <2>5 DEF ReadOut, Unread
<1> QED
  BY <1>1, <1>2, <1>3 DEF ProgressInv, ScansInv, TablesInv

LEMMA ProgressInit == ScanInit => ProgressInv
<1> SUFFICES ASSUME ScanInit PROVE ProgressInv
  OBVIOUS
<1>1. CursorInv
  BY CursorInit
<1>2. \A s \in 1..Scans, t \in Tables : Unread(s, t)
  BY DEF ScanInit, Unread
<1>3. ScansInv /\ TablesInv
  BY <1>1, <1>2, ScansAssumption, SizesType DEF ScanInit, ScansInv, TablesInv, Finished
<1>4. AtBatch
  <2>1. \A r \in RowsOf(1) : times[1][1][r] = 0 /\ r \in Nat
    <3>1. 1 \in Tables /\ 1 \in 1..Scans /\ \A r \in RowsOf(1) : r \in Nat
      BY SizesType, ScansAssumption DEF ScanInit
    <3> QED
      BY <1>2, <3>1 DEF Unread
  <2>2. 0 % OneTimeReadWeiboNum = 0 /\ OneTimeReadWeiboNum \in Nat
    BY BatchAssumption
  <2>3. scan = 1 /\ tableName = 1 /\ count = 0
    BY DEF ScanInit
  <2>4. ReadUpTo(1, 0)
    BY <2>1, <2>2, <2>3 DEF ReadUpTo
  <2> QED
    BY <2>2, <2>3, <2>4 DEF AtBatch
<1> QED
  BY <1>1, <1>3, <1>4 DEF ProgressInv

LEMMA ProgressStep == ProgressInv /\ [ScanNext]_scanVars => ProgressInv'
<1> SUFFICES ASSUME ProgressInv, [ScanNext]_scanVars PROVE ProgressInv'
  OBVIOUS
<1>0. /\ CursorInv /\ ScansInv /\ TablesInv
      /\ sizes \in Databases /\ scan \in 1..Scans /\ Scans \in Nat
      /\ Len(sizes) \in Nat \ {0} /\ Tables = 1..Len(sizes)
      /\ \A t \in Tables : sizes[t] \in Nat
      /\ tableIndex \in 1..(Len(sizes) + 1) /\ tableName \in Tables
      /\ weiboSize \in {0, sizes[tableName]} /\ weiboSize \in Nat /\ count \in Int
      /\ uncounted \subseteq (1..scan) \X Tables
      /\ phase = "scan" => tableIndex = tableName /\ count \in Nat
  BY SizesType, ScansAssumption DEF ProgressInv, CursorInv, TypeOK, CursorOK, GetTablecount
<1>1. CursorInv'
  BY <1>0, CursorStep
<1>2. ASSUME sizes' = sizes
      PROVE  /\ Tables' = Tables
             /\ \A u \in Tables : RowsOf(u)' = RowsOf(u)
             /\ \A u \in Tables : \A r : ExpectedTimes(u, r)' = ExpectedTimes(u, r)
  BY <1>2 DEF Tables, RowsOf, ExpectedTimes
<1>3. CASE ReadBatch
  <2>1. /\ phase = "scan" /\ sizes' = sizes /\ scan' = scan /\ tableName' = tableName
        /\ NextCount(count, weiboSize) \in Int
        /\ uncounted' = uncounted
        /\ Read(tableName, NextCount(count, weiboSize))
    BY <1>0, <1>3, NextCountPlace DEF ReadBatch
  <2>2. CASE phase' # "scan"
    <3>1. times' = times /\ phase' \in {"sqlerror", "refused"}
      BY <2>1, <2>2 DEF Read
    <3> QED
      BY <1>1, <2>1, <2>2, <3>1, RefusedKeepsScans DEF ProgressInv
  <2>3. CASE phase' = "scan"
    <3>1. phase' = "scan"
      BY <2>3
    <3>2. \A s \in 1..Scans, u \in Tables : ~(s = scan /\ u = tableName) =>
              (ReadOut(s, u) => ReadOut(s, u)') /\ (Unread(s, u) => Unread(s, u)')
      BY <1>0, <2>1, <2>3, OthersKept
    <3>3. ScansInv'
      BY <1>0, <1>2, <2>1, <3>1, <3>2 DEF ScansInv, Finished
    <3>4. TablesInv'
      BY <1>0, <1>2, <2>1, <3>1, <3>2 DEF TablesInv
    <3> QED
      BY <1>1, <1>3, <3>1, <3>3, <3>4, TurnInTable DEF ProgressInv
  <2> QED
    BY <2>2, <2>3
<1>4. CASE ReadNextTable
  <2> DEFINE t == tableIndex + 1
  <2>1. /\ phase = "scan" /\ sizes' = sizes /\ scan' = scan /\ tableName' = t
        /\ tableIndex < Len(sizes)
        /\ weiboSize' \in {0, sizes[t]}
        /\ uncounted' \in {uncounted, uncounted \cup {<<scan, t>>}}
        /\ Read(t, NextCount(0, weiboSize'))
        /\ AtEnd
    BY <1>4, <1>0 DEF ReadNextTable, OpenNextTable, GetTablecount, MayBeRefused
  <2>2. t \in Tables /\ t = tableName + 1 /\ ReadOut(scan, tableName)
    BY <1>0, <2>1, EndMeansReadOut
  <2>3. NextCount(0, weiboSize') \in Int
    BY <1>0, <2>1, <2>2, NextCountPlace
  <2>6. \A q \in Nat : <<q, 1>> \in uncounted' <=> <<q, 1>> \in uncounted
    BY <1>0, <2>1, <2>2
  <2>4. CASE phase' # "scan"
    <3>1. times' = times /\ phase' \in {"sqlerror", "refused"}
      BY <2>1, <2>4 DEF Read
    <3> QED
      BY <1>1, <2>1, <2>4, <2>6, <3>1, RefusedKeepsScans DEF ProgressInv
  <2>5. CASE phase' = "scan"
    <3>1. phase' = "scan"
      BY <2>5
    <3>2. \A s \in 1..Scans, u \in Tables : ~(s = scan /\ u = t) =>
              (ReadOut(s, u) => ReadOut(s, u)') /\ (Unread(s, u) => Unread(s, u)')
      BY <1>0, <2>1, <2>2, <2>3, <2>5, <2>6, OthersKept
    <3>3. ScansInv'
      BY <1>0, <1>2, <2>1, <3>1, <3>2 DEF ScansInv, Finished
    <3>4. TablesInv'
      <4>1. \A u \in Tables : u < t => ReadOut(scan, u)
        BY <1>0, <2>1, <2>2 DEF TablesInv
      <4>2. \A u \in Tables : u > t => Unread(scan, u)
        BY <1>0, <2>1, <2>2 DEF TablesInv
      <4> QED
        BY <1>0, <1>2, <2>1, <2>2, <3>1, <3>2, <4>1, <4>2 DEF TablesInv
    <3> QED
      BY <1>1, <1>4, <3>1, <3>3, <3>4, TurnToNextTable DEF ProgressInv
  <2> QED
    BY <2>4, <2>5
<1>5. CASE EndScan
  <2>1. /\ phase = "scan" /\ AtEnd /\ tableIndex = Len(sizes)
        /\ phase' \in {"done", "between"}
        /\ sizes' = sizes /\ scan' = scan /\ times' = times /\ uncounted' = uncounted
    BY <1>5 DEF EndScan
  <2>2. \A t \in Tables : ReadOut(scan, t)
    BY <1>0, <2>1, EndMeansReadOut DEF TablesInv
  <2>3. \A s \in 1..Scans, t \in Tables :
            (ReadOut(s, t) => ReadOut(s, t)') /\ (Unread(s, t) => Unread(s, t)')
    BY <1>2, <2>1 DEF ReadOut, Unread, ScanTimes, PassedOver
  <2>4. \A s \in 1..Scans : s <= scan' => s = scan \/ s < scan
    BY <1>0, <2>1
  <2>5. ScansInv'
    BY <1>0, <1>2, <2>1, <2>2, <2>3, <2>4 DEF ScansInv, Finished
  <2> QED
    BY <1>1, <2>1, <2>5 DEF ProgressInv, TablesInv
<1>6. CASE StartScan
  <2>1. /\ phase = "between" /\ phase' = "scan" /\ scan' = scan + 1
        /\ tableName' = 1 /\ count' = 0
        /\ uncounted' \in {uncounted, uncounted \cup {<<scan + 1, 1>>}}
        /\ sizes' = sizes /\ times' = times
    BY <1>6 DEF StartScan, OpenFirstTable, MayBeRefused
  <2>2. \A s \in 1..Scans, t \in Tables :
            (s <= scan /\ ReadOut(s, t) => ReadOut(s, t)') /\ (Unread(s, t) => Unread(s, t)')
    <3>1. \A s \in 1..Scans, t \in Tables : s <= scan => (PassedOver(s, t)' <=> PassedOver(s, t))
      BY <1>0, <2>1 DEF PassedOver
    <3> QED
      BY <1>2, <2>1, <3>1 DEF ReadOut, Unread, ScanTimes
  <2>3. \A s \in 1..Scans : (s < scan' => s <= scan) /\ (s > scan' => s > scan)
    BY <1>0, <2>1
  <2>4. ScansInv'
    BY <1>0, <1>2, <2>1, <2>2, <2>3 DEF ScansInv, Finished
  <2>5. scan' \in 1..Scans /\ scan' > scan
    BY <1>0, <1>1, <2>1 DEF CursorInv, TypeOK
  <2>6. \A t \in Tables : Unread(scan', t)
    BY <1>0, <2>5 DEF ScansInv
  <2>7. TablesInv'
    BY <1>0, <1>2, <2>1, <2>6 DEF TablesInv, Unread
  <2>8. AtBatch'
    <3>1. 0 % OneTimeReadWeiboNum = 0 /\ OneTimeReadWeiboNum \in Nat
      BY BatchAssumption
    <3>2. 1 \in Tables /\ \A r \in RowsOf(1) : r \in Nat /\ times'[scan'][1][r] = 0
      BY <1>0, <2>1, <2>6, SizesType DEF Unread
    <3> QED
      BY <1>2, <2>1, <3>1, <3>2 DEF AtBatch, ReadUpTo
  <2> QED
    BY <1>1, <2>4, <2>7, <2>8 DEF ProgressInv
<1>7. CASE UNCHANGED scanVars
  <2>1. /\ phase' = phase /\ sizes' = sizes /\ scan' = scan /\ tableName' = tableName
        /\ weiboSize' = weiboSize /\ count' = count /\ times' = times
        /\ uncounted' = uncounted
    BY <1>7 DEF scanVars
  <2>2. \A s \in 1..Scans, t \in Tables : (ReadOut(s, t)' <=> ReadOut(s, t))
                                       /\ (Unread(s, t)' <=> Unread(s, t))
    BY <1>2, <2>1 DEF ReadOut, Unread, ScanTimes, PassedOver
  <2>3. ScansInv' /\ TablesInv'
    BY <1>0, <1>2, <2>1, <2>2 DEF ScansInv, TablesInv, Finished
  <2>4. AtBatch' <=> AtBatch
    BY <2>1 DEF AtBatch, ReadUpTo, RowsOf
  <2>5. AtLastRow' <=> AtLastRow
    BY <1>0, <2>1, <2>2, ScansAssumption DEF AtLastRow
  <2> QED
    BY <1>1, <2>1, <2>3, <2>4, <2>5 DEF ProgressInv
<1> QED
  BY <1>3, <1>4, <1>5, <1>6, <1>7 DEF ScanNext

\* For every list of tables, every batch size and every number of scans, all
\* finished scans have read the same rows the same number of times, wherever the
\* scan before left the cursor, but for the first table if its count was refused.
THEOREM ScansAgree == ScanSpec => []ScansReadTheSameRows
<1>1. ScanInit => ProgressInv
  BY ProgressInit
<1>2. ProgressInv /\ [ScanNext]_scanVars => ProgressInv'
  BY ProgressStep
<1>3. ProgressInv => ScansReadTheSameRows
  BY DEF ProgressInv, ScansInv, ReadOut, ScansReadTheSameRows
<1> QED
  BY <1>1, <1>2, <1>3, PTL DEF ScanSpec


-----------------------------------------------------------------------------
(* Induction, recursive functions and extrema *)

\* Every non-empty set of natural numbers has a least element.
LEMMA LeastNatural ==
    ASSUME NEW S \in SUBSET Nat, S # {}
    PROVE  \E m \in S : \A k \in S : m <= k
<1>1. PICK m \in S : \A k \in S : ~(<<k, m>> \in OpToRel(<, Nat))
  BY NatLessThanWellFounded, WFMin, Zenon
<1>2. \A k \in S : ~(k < m)
  BY <1>1 DEF OpToRel
<1> QED
  BY <1>2

\* Induction, with the numbers of which something is true as a set.
LEMMA Induction ==
    ASSUME NEW S, 0 \in S, \A n \in Nat : n \in S => n + 1 \in S
    PROVE  \A n \in Nat : n \in S
<1> DEFINE Bad == {k \in Nat : k \notin S}
<1>1. SUFFICES ASSUME Bad # {} PROVE FALSE
  OBVIOUS
<1>2. PICK k \in Bad : \A l \in Bad : k <= l
  <2>1. Bad \in SUBSET Nat
    OBVIOUS
  <2> HIDE DEF Bad
  <2> QED
    BY <1>1, <2>1, LeastNatural
<1>3. k - 1 \in Nat /\ k - 1 \notin Bad
  BY <1>2
<1>4. k - 1 + 1 \in S
  BY <1>3
<1> QED
  BY <1>2, <1>4

\* g is the recursion over 0..n that begins with base and goes on by step, in the set D.
Iteration(g, D, n, base, step) ==
    /\ g \in [0..n -> D]
    /\ g[0] = base
    /\ \A i \in 1..n : g[i] = step[i][g[i - 1]]

LEMMA Iterates ==
    ASSUME NEW D, NEW n \in Nat, NEW base \in D, NEW step \in [1..n -> [D -> D]]
    PROVE  \E g : Iteration(g, D, n, base, step)
<1> DEFINE S == {k \in Nat : k <= n => \E g : Iteration(g, D, k, base, step)}
<1>1. 0 \in S
  <2>1. PICK g : g = [i \in 0..0 |-> base]
    OBVIOUS
  <2>2. Iteration(g, D, 0, base, step)
    BY <2>1 DEF Iteration
  <2> QED
    BY <2>2
<1>2. ASSUME NEW k \in Nat, k \in S
      PROVE  k + 1 \in S
  <2>1. SUFFICES ASSUME k + 1 <= n PROVE \E g : Iteration(g, D, k + 1, base, step)
    OBVIOUS
  <2>2. PICK g : Iteration(g, D, k, base, step)
    BY <1>2, <2>1
  <2>3. PICK h : h = [i \in 0..(k + 1) |-> IF i <= k THEN g[i] ELSE step[k + 1][g[k]]]
    OBVIOUS
  <2>4. g \in [0..k -> D] /\ g[0] = base /\ \A i \in 1..k : g[i] = step[i][g[i - 1]]
    BY <2>2 DEF Iteration
  <2>5. step[k + 1][g[k]] \in D
    <3>1. step[k + 1] \in [D -> D] /\ g[k] \in D
      BY <2>1, <2>4
    <3> QED
      BY <3>1
  <2>6. h \in [0..(k + 1) -> D]
    <3>1. \A i \in 0..(k + 1) : i <= k => i \in 0..k /\ g[i] \in D
      BY <2>4
    <3>2. \A i \in 0..(k + 1) : h[i] \in D
      BY <2>3, <2>5, <3>1
    <3> QED
      BY <2>3, <3>2
  <2>7. h[0] = base
    BY <2>3, <2>4
  <2>8. ASSUME NEW i \in 1..(k + 1)
        PROVE  h[i] = step[i][h[i - 1]]
    <3>1. h[i - 1] = g[i - 1]
      BY <2>3
    <3>2. CASE i <= k
      <4>1. i \in 1..k /\ h[i] = g[i]
        BY <2>3, <3>2
      <4> QED
        BY <2>4, <3>1, <4>1
    <3>3. CASE i = k + 1
      <4>1. i - 1 = k /\ ~(i <= k) /\ i \in 0..(k + 1)
        BY <3>3
      <4>2. h[i] = step[k + 1][g[k]] /\ h[i - 1] = g[k]
        BY <2>3, <3>1, <4>1
      <4> QED
        BY <3>3, <4>2
    <3> QED
      BY <3>2, <3>3
  <2> QED
    BY <2>6, <2>7, <2>8 DEF Iteration
<1> HIDE DEF S
<1>3. n \in S
  BY <1>1, <1>2, Induction
<1> QED
  BY <1>3 DEF S

LEMMA MinOf ==
    ASSUME NEW S \in SUBSET Nat, S # {}
    PROVE  Min(S) \in S /\ \A x \in S : Min(S) <= x
<1>1. \E x \in S : \A y \in S : x <= y
  BY LeastNatural
<1> QED
  BY <1>1 DEF Min

\* The least of two numbers.
LEMMA MinOfTwo ==
    ASSUME NEW a \in Int, NEW b \in Int
    PROVE  Min({a, b}) = IF a <= b THEN a ELSE b
<1>1. PICK x \in {a, b} : \A y \in {a, b} : x =< y
  OBVIOUS
<1>2. Min({a, b}) \in {a, b} /\ \A y \in {a, b} : Min({a, b}) =< y
  BY <1>1 DEF Min
<1> QED
  BY <1>2

LEMMA MaxOfTwo ==
    ASSUME NEW a \in Int, NEW b \in Int
    PROVE  Max({a, b}) = IF a >= b THEN a ELSE b
<1>1. PICK x \in {a, b} : \A y \in {a, b} : x >= y
  OBVIOUS
<1>2. Max({a, b}) \in {a, b} /\ \A y \in {a, b} : Max({a, b}) >= y
  BY <1>1 DEF Max
<1> QED
  BY <1>2

-----------------------------------------------------------------------------
(* Sums *)

\* SumFunction takes out any element and adds it to the sum of the others.
OneOf(s) == CHOOSE x \in s : TRUE

\* The sum of f over each set of its arguments: take one out, sum the rest.
SumIter(f) ==
    CHOOSE g : g = [s \in SUBSET DOMAIN f |->
                       IF s = {} THEN 0
                       ELSE f[CHOOSE x \in s : TRUE] + g[s \ {CHOOSE x \in s : TRUE}]]

\* g is that function as far as sets of n elements.
SumsUpTo(g, f, n) ==
    /\ g = [s \in {t \in SUBSET DOMAIN f : Cardinality(t) <= n} |-> g[s]]
    /\ \A s \in SUBSET DOMAIN f : Cardinality(s) <= n =>
           g[s] = IF s = {} THEN 0 ELSE f[OneOf(s)] + g[s \ {OneOf(s)}]

LEMMA OneLess ==
    ASSUME NEW s, IsFiniteSet(s), s # {}
    PROVE  /\ OneOf(s) \in s
           /\ IsFiniteSet(s \ {OneOf(s)})
           /\ Cardinality(s \ {OneOf(s)}) = Cardinality(s) - 1
           /\ Cardinality(s) \in Nat \ {0}
<1>1. OneOf(s) \in s
  BY DEF OneOf
<1> QED
  BY <1>1, FS_RemoveElement, FS_EmptySet, FS_CardinalityType

\* The recursion over the sets of arguments does define a function.
LEMMA SumsExist ==
    ASSUME NEW f, IsFiniteSet(DOMAIN f), NEW m \in Nat
    PROVE  \E g : SumsUpTo(g, f, m)
<1> DEFINE Bad == {k \in Nat : ~ \E g : SumsUpTo(g, f, k)}
           Small(k) == {t \in SUBSET DOMAIN f : Cardinality(t) <= k}
<1>0. \A t \in SUBSET DOMAIN f : /\ IsFiniteSet(t) /\ Cardinality(t) \in Nat
                                 /\ Cardinality(t) = 0 <=> t = {}
  BY FS_Subset, FS_CardinalityType, FS_EmptySet
<1>1. SUFFICES ASSUME Bad # {} PROVE FALSE
  OBVIOUS
<1>2. PICK k \in Bad : \A l \in Bad : k <= l
  <2>1. Bad \in SUBSET Nat
    OBVIOUS
  <2> HIDE DEF Bad
  <2> QED
    BY <1>1, <2>1, LeastNatural
<1>3. k # 0
  <2>1. PICK g : g = [s \in Small(0) |-> 0]
    OBVIOUS
  <2>2. \A s \in SUBSET DOMAIN f : Cardinality(s) <= 0 => s = {} /\ g[s] = 0
    BY <1>0, <2>1
  <2>3. SumsUpTo(g, f, 0)
    BY <2>1, <2>2 DEF SumsUpTo
  <2> QED
    BY <1>2, <2>3
<1>4. k - 1 \in Nat /\ k - 1 \notin Bad /\ k \in Nat
  BY <1>2, <1>3
<1>5. PICK g : SumsUpTo(g, f, k - 1)
  BY <1>4
<1>6. PICK h : h = [s \in Small(k) |->
                       IF s = {} THEN 0 ELSE f[OneOf(s)] + g[s \ {OneOf(s)}]]
  OBVIOUS
<1>7. ASSUME NEW s \in SUBSET DOMAIN f, Cardinality(s) <= k - 1
      PROVE  h[s] = g[s]
  <2>1. s \in Small(k)
    BY <1>0, <1>4, <1>7
  <2>2. g[s] = IF s = {} THEN 0 ELSE f[OneOf(s)] + g[s \ {OneOf(s)}]
    BY <1>5, <1>7 DEF SumsUpTo
  <2> QED
    BY <1>6, <2>1, <2>2
<1>8. ASSUME NEW s \in SUBSET DOMAIN f, Cardinality(s) <= k
      PROVE  h[s] = IF s = {} THEN 0 ELSE f[OneOf(s)] + h[s \ {OneOf(s)}]
  <2>1. h[s] = IF s = {} THEN 0 ELSE f[OneOf(s)] + g[s \ {OneOf(s)}]
    BY <1>6, <1>8
  <2>2. CASE s # {}
    <3>1. s \ {OneOf(s)} \in SUBSET DOMAIN f /\ Cardinality(s \ {OneOf(s)}) <= k - 1
      BY <1>0, <1>4, <1>8, <2>2, OneLess
    <3>2. h[s \ {OneOf(s)}] = g[s \ {OneOf(s)}]
      BY <1>7, <3>1
    <3> QED
      BY <2>1, <3>2
  <2> QED
    BY <2>1, <2>2
<1>9. SumsUpTo(h, f, k)
  <2>1. h = [s \in Small(k) |-> h[s]]
    BY <1>6
  <2> QED
    BY <1>8, <2>1 DEF SumsUpTo
<1> QED
  BY <1>2, <1>9

\* So the sum over a set is one value more than the sum over the rest.
LEMMA SumSteps ==
    ASSUME NEW f, IsFiniteSet(DOMAIN f)
    PROVE  /\ SumFunction(f) = SumIter(f)[DOMAIN f]
           /\ \A s \in SUBSET DOMAIN f :
                  SumIter(f)[s] = IF s = {} THEN 0
                                  ELSE f[OneOf(s)] + SumIter(f)[s \ {OneOf(s)}]
<1>1. SumFunction(f) = SumIter(f)[DOMAIN f]
  BY DEF SumFunction, SumFunctionOnSet, FoldFunctionOnSet, MapThenFoldSet, SumIter
<1>2. PICK g : SumsUpTo(g, f, Cardinality(DOMAIN f))
  BY SumsExist, FS_CardinalityType
<1>3. \A s \in SUBSET DOMAIN f : Cardinality(s) <= Cardinality(DOMAIN f)
  BY FS_Subset
<1>4. g = [s \in SUBSET DOMAIN f |->
              IF s = {} THEN 0
              ELSE f[CHOOSE x \in s : TRUE] + g[s \ {CHOOSE x \in s : TRUE}]]
  <2>1. {t \in SUBSET DOMAIN f : Cardinality(t) <= Cardinality(DOMAIN f)} = SUBSET DOMAIN f
    BY <1>3
  <2>2. g = [s \in SUBSET DOMAIN f |-> g[s]]
    BY <1>2, <2>1 DEF SumsUpTo
  <2>3. \A s \in SUBSET DOMAIN f :
            g[s] = IF s = {} THEN 0
                   ELSE f[CHOOSE x \in s : TRUE] + g[s \ {CHOOSE x \in s : TRUE}]
    BY <1>2, <1>3 DEF SumsUpTo, OneOf
  <2> QED
    BY <2>2, <2>3
<1> DEFINE it == SumIter(f)
<1>5. it = [s \in SUBSET DOMAIN f |->
               IF s = {} THEN 0
               ELSE f[CHOOSE x \in s : TRUE] + it[s \ {CHOOSE x \in s : TRUE}]]
  BY <1>4 DEF SumIter
<1> HIDE DEF it
<1>6. \A s \in SUBSET DOMAIN f :
          it[s] = IF s = {} THEN 0
                  ELSE f[CHOOSE x \in s : TRUE] + it[s \ {CHOOSE x \in s : TRUE}]
  BY <1>5
<1> QED
  BY <1>1, <1>6 DEF it, OneOf

\* Any element may be taken out first; a sum of natural numbers is one.
LEMMA SumAny ==
    ASSUME NEW f, IsFiniteSet(DOMAIN f), \A x \in DOMAIN f : f[x] \in Nat
    PROVE  \A s \in SUBSET DOMAIN f :
               /\ SumIter(f)[s] \in Nat
               /\ \A a \in s : SumIter(f)[s] = f[a] + SumIter(f)[s \ {a}]
<1> DEFINE it == SumIter(f)
           P(s) == it[s] \in Nat /\ \A a \in s : it[s] = f[a] + it[s \ {a}]
           S == {k \in Nat : \A s \in SUBSET DOMAIN f : Cardinality(s) <= k => P(s)}
<1>0. \A s \in SUBSET DOMAIN f : IsFiniteSet(s) /\ Cardinality(s) \in Nat
  BY FS_Subset, FS_CardinalityType
<1>1. \A s \in SUBSET DOMAIN f :
          it[s] = IF s = {} THEN 0 ELSE f[OneOf(s)] + it[s \ {OneOf(s)}]
  BY SumSteps
<1>1a. it[{}] = 0
  BY SumSteps
<1> HIDE DEF it
<1>2. 0 \in S
  <2>1. \A s \in SUBSET DOMAIN f : Cardinality(s) <= 0 => s = {}
    BY <1>0, FS_EmptySet
  <2>2. P({})
    BY <1>1a
  <2> QED
    BY <2>1, <2>2
<1>3. ASSUME NEW k \in Nat, k \in S
      PROVE  k + 1 \in S
  <2>0. SUFFICES ASSUME NEW s \in SUBSET DOMAIN f, Cardinality(s) <= k + 1
                 PROVE  P(s)
    OBVIOUS
  <2>1. SUFFICES ASSUME s # {} PROVE P(s)
    BY <1>1a
  <2>2. ASSUME NEW r \in SUBSET s, NEW a \in s, a \notin r
        PROVE  P(r)
    <3>1. Cardinality(s \ {a}) <= k /\ IsFiniteSet(s \ {a})
      BY <1>0, <2>0, FS_RemoveElement
    <3>2. Cardinality(r) <= k /\ Cardinality(r) \in Nat
      <4>1. r \in SUBSET (s \ {a})
        BY <2>2
      <4>2. Cardinality(r) <= Cardinality(s \ {a})
        BY <3>1, <4>1, FS_Subset
      <4>3. Cardinality(r) \in Nat /\ Cardinality(s \ {a}) \in Nat
        BY <1>0
      <4> QED
        BY <3>1, <4>2, <4>3
    <3> QED
      BY <1>3, <3>2
  <2> DEFINE b == OneOf(s)
  <2>4. b \in s
    BY <2>1 DEF OneOf
  <2>5. it[s] = f[b] + it[s \ {b}] /\ f[b] \in Nat /\ it[s \ {b}] \in Nat
    <3>1. P(s \ {b})
      BY <2>2, <2>4
    <3>2. it[s] = f[b] + it[s \ {b}]
      BY <1>1, <2>1
    <3> QED
      BY <2>4, <3>1, <3>2
  <2> HIDE DEF b
  <2>6. ASSUME NEW a \in s, a # b
        PROVE  it[s] = f[a] + it[s \ {a}]
    <3> DEFINE r == s \ {a, b}
    <3>1. it[s \ {b}] = f[a] + it[(s \ {b}) \ {a}]
      <4>1. P(s \ {b})
        BY <2>2, <2>4
      <4> QED
        BY <2>6, <4>1
    <3>2. it[s \ {a}] = f[b] + it[(s \ {a}) \ {b}]
      <4>1. P(s \ {a})
        BY <2>2
      <4> QED
        BY <2>4, <2>6, <4>1
    <3>3. (s \ {b}) \ {a} = r /\ (s \ {a}) \ {b} = r
      OBVIOUS
    <3>4. it[r] \in Nat
      <4>1. P(r)
        BY <2>2, <2>4
      <4> QED
        BY <4>1
    <3>5. f[a] \in Nat
      OBVIOUS
    <3>6. it[s \ {b}] = f[a] + it[r] /\ it[s \ {a}] = f[b] + it[r]
      BY <3>1, <3>2, <3>3
    <3> HIDE DEF r
    <3> QED
      BY <2>5, <3>4, <3>5, <3>6
  <2>7. it[s] \in Nat
    BY <2>5
  <2> QED
    BY <2>5, <2>6, <2>7
<1> HIDE DEF S, P
<1>4. \A k \in Nat : k \in S
  BY <1>2, <1>3, Induction
<1>5. ASSUME NEW s \in SUBSET DOMAIN f PROVE P(s)
  <2>1. Cardinality(s) \in Nat
    BY <1>0
  <2> QED
    BY <1>4, <2>1 DEF S
<1> QED
  BY <1>5 DEF P, it

\* Equal values under other names have the same sum.
LEMMA SumReindexed ==
    ASSUME NEW f, IsFiniteSet(DOMAIN f), \A x \in DOMAIN f : f[x] \in Nat,
           NEW g, IsFiniteSet(DOMAIN g), \A x \in DOMAIN g : g[x] \in Nat,
           NEW t,
           \A x \in DOMAIN f : t[x] \in DOMAIN g /\ f[x] = g[t[x]],
           \A x, y \in DOMAIN f : t[x] = t[y] => x = y
    PROVE  \A s \in SUBSET DOMAIN f : SumIter(f)[s] = SumIter(g)[{t[x] : x \in s}]
<1> DEFINE F == SumIter(f)
           G == SumIter(g)
           Im(s) == {t[x] : x \in s}
           Q(s) == F[s] = G[Im(s)]
           S == {k \in Nat : \A s \in SUBSET DOMAIN f : Cardinality(s) = k => Q(s)}
<1>0. \A s \in SUBSET DOMAIN f : IsFiniteSet(s) /\ Cardinality(s) \in Nat
  BY FS_Subset, FS_CardinalityType
<1>1. F[{}] = 0 /\ G[{}] = 0
  BY SumSteps
<1>2. \A s \in SUBSET DOMAIN f : \A a \in s : F[s] = f[a] + F[s \ {a}]
  <2>1. \A s \in SUBSET DOMAIN f :
            SumIter(f)[s] \in Nat /\ \A a \in s : SumIter(f)[s] = f[a] + SumIter(f)[s \ {a}]
    BY SumAny
  <2> QED
    BY <2>1
<1>3. \A s \in SUBSET DOMAIN g : \A a \in s : G[s] = g[a] + G[s \ {a}]
  <2>1. \A s \in SUBSET DOMAIN g :
            SumIter(g)[s] \in Nat /\ \A a \in s : SumIter(g)[s] = g[a] + SumIter(g)[s \ {a}]
    BY SumAny
  <2> QED
    BY <2>1
<1> HIDE DEF F, G
<1>4. 0 \in S
  <2>1. \A s \in SUBSET DOMAIN f : Cardinality(s) = 0 => s = {}
    BY <1>0, FS_EmptySet
  <2>2. Im({}) = {}
    OBVIOUS
  <2> QED
    BY <1>1, <2>1, <2>2
<1>5. ASSUME NEW k \in Nat, k \in S
      PROVE  k + 1 \in S
  <2> HIDE DEF Q
  <2>1. SUFFICES ASSUME NEW s \in SUBSET DOMAIN f, Cardinality(s) = k + 1
                 PROVE  Q(s)
    OBVIOUS
  <2>2. PICK a \in s : TRUE
    BY <2>1, FS_EmptySet
  <2>3. Cardinality(s \ {a}) = k
    BY <1>0, <2>1, FS_RemoveElement
  <2>4. F[s \ {a}] = G[Im(s \ {a})]
    BY <1>5, <2>3 DEF Q
  <2>5. Im(s) \in SUBSET DOMAIN g /\ t[a] \in Im(s) /\ Im(s) \ {t[a]} = Im(s \ {a})
    OBVIOUS
  <2> HIDE DEF Im
  <2>6. G[Im(s)] = g[t[a]] + G[Im(s \ {a})]
    <3>1. G[Im(s)] = g[t[a]] + G[Im(s) \ {t[a]}]
      <4> DEFINE u == Im(s)
                 c == t[a]
      <4>1. u \in SUBSET DOMAIN g /\ c \in u
        BY <2>5
      <4> HIDE DEF u, c
      <4>2. G[u] = g[c] + G[u \ {c}]
        BY <1>3, <4>1
      <4> QED
        BY <4>2 DEF u, c
    <3> QED
      BY <2>5, <3>1
  <2>7. F[s] = f[a] + F[s \ {a}] /\ f[a] = g[t[a]]
    BY <1>2
  <2> QED
    BY <2>4, <2>6, <2>7 DEF Q
<1> HIDE DEF S, Q
<1>6. \A k \in Nat : k \in S
  BY <1>4, <1>5, Induction
<1> QED
  BY <1>0, <1>6 DEF S, Q, F, G

\* t gives each argument of f another name in g, and uses all the names.
Renames(t, f, g) ==
    /\ \A x \in DOMAIN f : t[x] \in DOMAIN g /\ f[x] = g[t[x]]
    /\ \A x, y \in DOMAIN f : t[x] = t[y] => x = y
    /\ \A y \in DOMAIN g : \E x \in DOMAIN f : t[x] = y

LEMMA SumReindexedWhole ==
    ASSUME NEW f, IsFiniteSet(DOMAIN f), \A x \in DOMAIN f : f[x] \in Nat,
           NEW g, IsFiniteSet(DOMAIN g), \A x \in DOMAIN g : g[x] \in Nat,
           NEW t, Renames(t, f, g)
    PROVE  SumFunction(f) = SumFunction(g)
<1>1. {t[x] : x \in DOMAIN f} = DOMAIN g
  BY DEF Renames
<1>2. SumIter(f)[DOMAIN f] = SumIter(g)[{t[x] : x \in DOMAIN f}]
  BY SumReindexed DEF Renames
<1>3. SumFunction(f) = SumIter(f)[DOMAIN f] /\ SumFunction(g) = SumIter(g)[DOMAIN g]
  BY SumSteps
<1> QED
  BY <1>1, <1>2, <1>3

LEMMA SumIsNat ==
    ASSUME NEW f, IsFiniteSet(DOMAIN f), \A x \in DOMAIN f : f[x] \in Nat
    PROVE  SumFunction(f) \in Nat
  BY SumAny, SumSteps

LEMMA SumOfNone ==
    ASSUME NEW f, DOMAIN f = {}
    PROVE  SumFunction(f) = 0
  BY SumSteps, FS_EmptySet

\* One value more.
LEMMA SumExtended ==
    ASSUME NEW g, IsFiniteSet(DOMAIN g), \A x \in DOMAIN g : g[x] \in Nat,
           NEW f, NEW a, a \notin DOMAIN g, DOMAIN f = DOMAIN g \cup {a},
           f[a] \in Nat, \A x \in DOMAIN g : f[x] = g[x]
    PROVE  SumFunction(f) = SumFunction(g) + f[a]
<1>1. IsFiniteSet(DOMAIN f) /\ \A x \in DOMAIN f : f[x] \in Nat
  BY FS_AddElement
<1>2. SumIter(f)[DOMAIN f] = f[a] + SumIter(f)[DOMAIN f \ {a}]
  BY <1>1, SumAny
<1>3. DOMAIN f \ {a} = DOMAIN g
  OBVIOUS
<1> DEFINE t == [x \in DOMAIN g |-> x]
<1>4. SumIter(g)[DOMAIN g] = SumIter(f)[{t[x] : x \in DOMAIN g}]
  <2>1. \A x \in DOMAIN g : t[x] \in DOMAIN f /\ g[x] = f[t[x]]
    OBVIOUS
  <2>2. \A x, y \in DOMAIN g : t[x] = t[y] => x = y
    OBVIOUS
  <2> HIDE DEF t
  <2> QED
    BY <1>1, <2>1, <2>2, SumReindexed
<1>5. {t[x] : x \in DOMAIN g} = DOMAIN g
  OBVIOUS
<1>6. SumFunction(f) = SumIter(f)[DOMAIN f] /\ SumFunction(g) = SumIter(g)[DOMAIN g]
  BY <1>1, SumSteps
<1>7. SumFunction(g) \in Nat
  BY SumIsNat
<1> HIDE DEF t
<1> QED
  BY <1>2, <1>3, <1>4, <1>5, <1>6, <1>7

-----------------------------------------------------------------------------
(* The invariants of SinglePass *)

Kinds == {"tag", "noun", "other"}
Occurrence == [word : Word, kind : Kinds]
Early == {"count", "purge"}

\* Where each scan is, and what there is before its part of the program.
PlaceInv ==
    /\ pc \in Early \cup {"cooccur", "assign", "index", "sort", "done", "crashed"}
    /\ reads \in Inputs
    /\ pc \in Early => place \in 1..(Len(Occurrences) + 1)
    /\ pc \in {"cooccur", "index"} => place \in 1..(Len(reads) + 1)
    /\ pc = "assign" => place = 1
    /\ pc \in Early => feature = {} /\ cooc = None
    /\ feature \in SUBSET Word /\ IsFiniteSet(feature)
    /\ pc \in Early \cup {"cooccur", "crashed"} => clusters = <<>>

\* The weight of a word by its first n occurrences.
PlacesUpTo(w, kinds, n) == {i \in Places(w, kinds) : i <= n}

WeightUpTo(w, n) ==
    LET counted == PlacesUpTo(w, {"tag", "noun"}, n)
        newInTag == counted # {} /\ Occurrences[Min(counted)].kind = "tag"
    IN  TagValue * Cardinality(PlacesUpTo(w, {"tag"}, n)) + Cardinality(counted)
        - (IF newInTag THEN 1 ELSE 0)

\* A word in the map has no more than the weight of its occurrences so far, since it
\* begins anew when it was erased; without a purge all are there with exactly that.
WeightInv ==
    pc \in Early =>
        /\ DOMAIN weight \in SUBSET Word /\ IsFiniteSet(DOMAIN weight)
        /\ \A w \in DOMAIN weight :
              /\ PlacesUpTo(w, {"tag", "noun"}, place - 1) # {}
              /\ weight[w] \in Nat /\ weight[w] <= WeightUpTo(w, place - 1)
        /\ ~purged => \A w \in Word : PlacesUpTo(w, {"tag", "noun"}, place - 1) # {} =>
              w \in DOMAIN weight /\ weight[w] = WeightUpTo(w, place - 1)

\* The topics consist of the least of the feature words.
TopicsInv ==
    /\ clusters \in Seq(Seq(Word) \ {<<>>})
    /\ Assigned \subseteq feature
    /\ \A v \in Assigned, w \in Unassigned : v < w
    /\ pc = "assign" => clusters # <<>>

\* A set of ids for each word of a topic that has enough words.
Indexed == UNION {Range(clusters[k]) : k \in {i \in DOMAIN clusters : Len(clusters[i]) >= BelongThrod}}

IdsUpTo(w, n) == {reads[i].mid : i \in {j \in 1..n : w \in Range(WordsOf(reads[j]))}}

MessagesInv ==
    /\ pc = "index" => index = [w \in Indexed |-> IdsUpTo(w, place - 1)]
    /\ pc = "sort" =>
          /\ messageNum = [k \in DOMAIN clusters |-> Cardinality(MessagesWith(clusters[k]))]
          /\ messages = [k \in DOMAIN clusters |->
                            IF messageNum[k] <= MinMessageNum THEN {} ELSE MessagesWith(clusters[k])]

-----------------------------------------------------------------------------
(* Rows and the words in them *)

LEMMA ReadsType ==
    ASSUME reads \in Inputs
    PROVE  /\ reads \in Seq(RowType)
           /\ Len(reads) \in Nat
           /\ DOMAIN reads = 1..Len(reads)
           /\ \A i \in 1..Len(reads) :
                 /\ reads[i].mid \in Nat
                 /\ reads[i].words \in Seq(Occurrence)
                 /\ WordsOf(reads[i]) \in Seq(Word)
<1>1. reads \in Seq(RowType)
  BY SinglePassAssumption
<1>2. ASSUME NEW i \in 1..Len(reads)
      PROVE  /\ reads[i].mid \in Nat
             /\ reads[i].words \in Seq(Occurrence)
             /\ WordsOf(reads[i]) \in Seq(Word)
  <2>1. reads[i] \in RowType
    BY <1>1
  <2>2. reads[i].mid \in Nat /\ reads[i].words \in Seq(Occurrence)
    BY <2>1 DEF RowType, Occurrence, Kinds
  <2> DEFINE s == reads[i].words
  <2>3. s \in Seq(Occurrence) /\ WordsOf(reads[i]) = [j \in DOMAIN s |-> s[j].word]
    BY <2>2 DEF WordsOf
  <2> HIDE DEF s
  <2>4. DOMAIN s = 1..Len(s) /\ Len(s) \in Nat /\ \A j \in 1..Len(s) : s[j] \in Occurrence
    BY <2>3
  <2>5. \A j \in 1..Len(s) : s[j].word \in Word
    BY <2>4 DEF Occurrence
  <2>6. WordsOf(reads[i]) \in [1..Len(s) -> Word]
    BY <2>3, <2>4, <2>5
  <2> QED
    BY <2>2, <2>4, <2>6
<1> QED
  BY <1>1, <1>2

LEMMA FlattenType ==
    ASSUME NEW T, NEW s \in Seq(Seq(T))
    PROVE  FlattenSeq(s) \in Seq(T)
<1>1. CASE Len(s) = 0
  BY <1>1 DEF FlattenSeq
<1>2. CASE Len(s) # 0
  <2> DEFINE n == Len(s) - 1
             D == Seq(T)
             step == [i \in 1..n |-> [x \in D |-> x \o s[i + 1]]]
  <2>1. n \in Nat /\ Len(s) = n + 1 /\ \A i \in 1..(n + 1) : s[i] \in D
    BY <1>2
  <2>2. step \in [1..n -> [D -> D]]
    <3>1. ASSUME NEW i \in 1..n, NEW x \in D
          PROVE  x \o s[i + 1] \in D
      <4>1. x \in Seq(T) /\ s[i + 1] \in Seq(T)
        BY <2>1
      <4> QED
        BY <4>1
    <3> HIDE DEF D
    <3> QED
      BY <3>1
  <2>3. s[1] \in D /\ \A i \in 1..n : \A x \in D : step[i][x] = x \o s[i + 1]
    BY <2>1
  <2> HIDE DEF n, D, step
  <2>3a. PICK g : Iteration(g, D, n, s[1], step)
    BY <2>1, <2>2, <2>3, Iterates
  <2>4. g \in [0..n -> D] /\ g[0] = s[1] /\ \A i \in 1..n : g[i] = step[i][g[i - 1]]
    BY <2>3a DEF Iteration
  <2>5. PICK h : h = [i \in 1..Len(s) |-> g[i - 1]]
    OBVIOUS
  <2>6. ASSUME NEW i \in 1..Len(s)
        PROVE  h[i] = IF i = 1 THEN s[i] ELSE h[i - 1] \o s[i]
    <3>1. CASE i = 1
      BY <2>4, <2>5, <3>1
    <3>2. CASE i # 1
      <4>1. i - 1 \in 1..n /\ g[i - 1 - 1] \in D /\ i - 1 \in 1..Len(s)
        BY <2>1, <2>4, <3>2
      <4>2. g[i - 1] = g[i - 1 - 1] \o s[i - 1 + 1]
        BY <2>3, <2>4, <4>1
      <4>3. h[i] = g[i - 1] /\ h[i - 1] = g[i - 1 - 1] /\ i - 1 + 1 = i
        BY <2>5, <4>1
      <4> QED
        BY <3>2, <4>2, <4>3
    <3> QED
      BY <3>1, <3>2
  <2>7. h = [i \in 1..Len(s) |-> IF i = 1 THEN s[i] ELSE h[i - 1] \o s[i]]
    BY <2>5, <2>6
  <2> DEFINE f == CHOOSE f : f = [i \in 1..Len(s) |-> IF i = 1 THEN s[i] ELSE f[i - 1] \o s[i]]
  <2>8. f = [i \in 1..Len(s) |-> IF i = 1 THEN s[i] ELSE f[i - 1] \o s[i]]
    BY <2>7
  <2>9. FlattenSeq(s) = f[Len(s)]
    BY <1>2 DEF FlattenSeq
  <2> HIDE DEF f
  <2>8a. \A i \in 1..Len(s) : f[i] = IF i = 1 THEN s[i] ELSE f[i - 1] \o s[i]
    BY <2>8
  <2>10. \A i \in Nat : i \in {j \in Nat : j \in 1..Len(s) => f[j] \in D}
    <3> DEFINE S == {j \in Nat : j \in 1..Len(s) => f[j] \in D}
    <3>1. 0 \in S
      OBVIOUS
    <3>2. ASSUME NEW k \in Nat, k \in S
          PROVE  k + 1 \in S
      <4>1. SUFFICES ASSUME k + 1 \in 1..Len(s) PROVE f[k + 1] \in D
        OBVIOUS
      <4>2. s[k + 1] \in Seq(T)
        BY <4>1
      <4>3. CASE k = 0
        BY <2>8, <4>1, <4>2, <4>3 DEF D
      <4>4. CASE k # 0
        <5>1. f[k] \in Seq(T) /\ f[k + 1] = f[k] \o s[k + 1]
          <6>1. k \in 1..Len(s) /\ k + 1 - 1 = k /\ k + 1 # 1
            BY <2>1, <4>1, <4>4
          <6>2. PICK m : m = k + 1
            OBVIOUS
          <6>3. f[m] = f[m - 1] \o s[m]
            <7>1. m \in 1..Len(s) /\ m # 1
              BY <4>1, <6>1, <6>2
            <7> QED
              BY <2>8a, <7>1
          <6>4. m - 1 = k
            BY <6>2
          <6> QED
            BY <3>2, <6>1, <6>2, <6>3, <6>4 DEF D
        <5> QED
          BY <4>2, <5>1 DEF D
      <4> QED
        BY <4>3, <4>4
    <3> HIDE DEF S
    <3>3. \A i \in Nat : i \in S
      BY <3>1, <3>2, Induction
    <3> QED
      BY <3>3 DEF S
  <2> QED
    BY <2>1, <2>9, <2>10 DEF D
<1> QED
  BY <1>1, <1>2

LEMMA OccurrencesType ==
    ASSUME reads \in Inputs
    PROVE  /\ Occurrences \in Seq(Occurrence)
           /\ Len(Occurrences) \in Nat
           /\ DOMAIN Occurrences = 1..Len(Occurrences)
           /\ \A i \in 1..Len(Occurrences) :
                 Occurrences[i].word \in Word /\ Occurrences[i].kind \in Kinds
<1> DEFINE s == [i \in DOMAIN reads |-> reads[i].words]
<1>1. DOMAIN reads = 1..Len(reads) /\ Len(reads) \in Nat
      /\ \A i \in DOMAIN reads : reads[i].words \in Seq(Occurrence)
  BY ReadsType
<1>2. s \in [1..Len(reads) -> Seq(Occurrence)]
  BY <1>1
<1>3. s \in Seq(Seq(Occurrence))
  BY <1>1, <1>2
<1> HIDE DEF s
<1>4. FlattenSeq(s) \in Seq(Occurrence)
  BY <1>3, FlattenType
<1>5. Occurrences \in Seq(Occurrence)
  BY <1>4 DEF Occurrences, s
<1>6. \A i \in 1..Len(Occurrences) : Occurrences[i] \in Occurrence
  BY <1>5
<1> QED
  BY <1>5, <1>6 DEF Occurrence

-----------------------------------------------------------------------------
(* Where the program is *)

LEMMA PlaceInit == Init => PlaceInv
<1> SUFFICES ASSUME Init PROVE PlaceInv
  OBVIOUS
<1>1. reads \in Inputs /\ Len(Occurrences) \in Nat
  BY OccurrencesType DEF Init
<1> QED
  BY <1>1, FS_EmptySet DEF Init, PlaceInv, Early

\* What depends on the rows only stays.
LEMMA RowsStay ==
    ASSUME reads' = reads
    PROVE  /\ Occurrences' = Occurrences
           /\ TopicWordNum' = TopicWordNum
           /\ BelongThrod' = BelongThrod
           /\ \A w : Weight(w)' = Weight(w)
           /\ \A a, b, n : Met(a, b, n)' = Met(a, b, n)
           /\ \A topic : MessagesWith(topic)' = MessagesWith(topic)
  BY DEF Occurrences, TopicWordNum, BelongThrod, Weight, Places, Met, MessagesWith

LEMMA PlaceStep == PlaceInv /\ WeightInv /\ [Next]_vars => PlaceInv'
<1> SUFFICES ASSUME PlaceInv, WeightInv, [Next]_vars PROVE PlaceInv'
  OBVIOUS
<1> USE DEF PlaceInv, Early
<1>0. Len(Occurrences) \in Nat /\ Len(reads) \in Nat
  BY OccurrencesType, ReadsType
<1>1. ASSUME reads' = reads PROVE Occurrences' = Occurrences
  BY <1>1, RowsStay
<1>2. CASE CountWord
  BY <1>0, <1>1, <1>2 DEF CountWord
<1>3. CASE Purge
  BY <1>1, <1>3 DEF Purge
<1>4. CASE PurgeDies
  BY <1>1, <1>4 DEF PurgeDies
<1>5. CASE TopicWordSort
  <2>1. feature' \in SUBSET Word /\ IsFiniteSet(feature')
    <3>1. PICK set \in SUBSET DOMAIN weight : Heaviest(set) /\ feature' = {w \in set : weight[w] > FreqLimit}
      BY <1>5 DEF TopicWordSort
    <3>2. DOMAIN weight \in SUBSET Word /\ IsFiniteSet(DOMAIN weight)
      BY <1>5 DEF TopicWordSort, WeightInv
    <3>3. feature' \in SUBSET DOMAIN weight
      BY <3>1
    <3> QED
      BY <3>2, <3>3, FS_Subset
  <2> QED
    BY <1>0, <1>1, <1>5, <2>1 DEF TopicWordSort, EndOfScan
<1>6. CASE CooccurRow
  BY <1>0, <1>1, <1>6 DEF CooccurRow
<1>7. CASE Threshold
  BY <1>0, <1>1, <1>7 DEF Threshold, EndOfScan
<1>8. CASE NoFeatureWord
  BY <1>1, <1>8 DEF NoFeatureWord
<1>9. CASE Assign
  BY <1>1, <1>9 DEF Assign
<1>10. CASE Match
  BY <1>0, <1>1, <1>10 DEF Match
<1>11. CASE IndexRow
  BY <1>0, <1>1, <1>11 DEF IndexRow
<1>12. CASE ListAllTopicWeiboId
  BY <1>0, <1>1, <1>12 DEF ListAllTopicWeiboId, EndOfScan
<1>13. CASE SortTopic
  BY <1>1, <1>13 DEF SortTopic
<1>14. CASE UNCHANGED vars
  BY <1>1, <1>14 DEF vars
<1> QED
  BY <1>2, <1>3, <1>4, <1>5, <1>6, <1>7, <1>8, <1>9, <1>10, <1>11, <1>12, <1>13, <1>14 DEF Next

-----------------------------------------------------------------------------
(* The feature words *)

LEMMA PlacesType ==
    ASSUME reads \in Inputs, NEW w, NEW kinds, NEW n \in Nat
    PROVE  /\ PlacesUpTo(w, kinds, n) \in SUBSET (1..n)
           /\ IsFiniteSet(PlacesUpTo(w, kinds, n))
           /\ Cardinality(PlacesUpTo(w, kinds, n)) \in Nat
           /\ Cardinality(PlacesUpTo(w, kinds, n)) = 0 <=> PlacesUpTo(w, kinds, n) = {}
<1>1. PlacesUpTo(w, kinds, n) \in SUBSET (1..n)
  BY OccurrencesType DEF PlacesUpTo, Places
<1> HIDE DEF PlacesUpTo
<1>2. IsFiniteSet(1..n)
  BY FS_Interval
<1>3. IsFiniteSet(PlacesUpTo(w, kinds, n))
  BY <1>1, <1>2, FS_Subset
<1> QED
  BY <1>1, <1>3, FS_CardinalityType, FS_EmptySet

LEMMA PlacesStep ==
    ASSUME reads \in Inputs, NEW w, NEW kinds, NEW n \in Nat, n < Len(Occurrences)
    PROVE  /\ PlacesUpTo(w, kinds, n + 1) =
                  IF Occurrences[n + 1].word = w /\ Occurrences[n + 1].kind \in kinds
                  THEN PlacesUpTo(w, kinds, n) \cup {n + 1} ELSE PlacesUpTo(w, kinds, n)
           /\ Cardinality(PlacesUpTo(w, kinds, n + 1)) =
                  Cardinality(PlacesUpTo(w, kinds, n))
                  + (IF Occurrences[n + 1].word = w /\ Occurrences[n + 1].kind \in kinds THEN 1 ELSE 0)
<1> DEFINE here == Occurrences[n + 1].word = w /\ Occurrences[n + 1].kind \in kinds
           before == PlacesUpTo(w, kinds, n)
<1>1. DOMAIN Occurrences = 1..Len(Occurrences) /\ Len(Occurrences) \in Nat
  BY OccurrencesType
<1>2. PlacesUpTo(w, kinds, n + 1) = IF here THEN before \cup {n + 1} ELSE before
  BY <1>1 DEF PlacesUpTo, Places
<1>3. before \in SUBSET (1..n) /\ IsFiniteSet(before) /\ Cardinality(before) \in Nat
  BY PlacesType
<1> HIDE DEF here, before
<1>4. n + 1 \notin before
  BY <1>3
<1>5. Cardinality(before \cup {n + 1}) = Cardinality(before) + 1
  BY <1>3, <1>4, FS_AddElement
<1> QED
  BY <1>2, <1>3, <1>5 DEF here, before

\* The weight of a word by one occurrence more.
LEMMA WeightStep ==
    ASSUME reads \in Inputs, NEW w, NEW n \in Nat, n < Len(Occurrences)
    PROVE  LET o == Occurrences[n + 1]
               fresh == PlacesUpTo(w, {"tag", "noun"}, n) = {}
               gain == IF o.word # w \/ o.kind = "other" THEN 0
                       ELSE IF o.kind = "noun" THEN 1
                       ELSE IF fresh THEN TagValue ELSE TagValue + 1
           IN  /\ WeightUpTo(w, n) \in Nat
               /\ fresh => WeightUpTo(w, n) = 0
               /\ WeightUpTo(w, n + 1) = WeightUpTo(w, n) + gain
<1> DEFINE o == Occurrences[n + 1]
           C == PlacesUpTo(w, {"tag", "noun"}, n)
           C1 == PlacesUpTo(w, {"tag", "noun"}, n + 1)
           t == Cardinality(PlacesUpTo(w, {"tag"}, n))
           t1 == Cardinality(PlacesUpTo(w, {"tag"}, n + 1))
           c == Cardinality(C)
           c1 == Cardinality(C1)
           in == C # {} /\ Occurrences[Min(C)].kind = "tag"
           in1 == C1 # {} /\ Occurrences[Min(C1)].kind = "tag"
<1>1. /\ WeightUpTo(w, n) = TagValue * t + c - (IF in THEN 1 ELSE 0)
      /\ WeightUpTo(w, n + 1) = TagValue * t1 + c1 - (IF in1 THEN 1 ELSE 0)
  BY DEF WeightUpTo
<1>2. /\ C \in SUBSET (1..n) /\ c \in Nat /\ t \in Nat
      /\ c = 0 <=> C = {}
      /\ t = 0 <=> PlacesUpTo(w, {"tag"}, n) = {}
  BY PlacesType
<1>3. PlacesUpTo(w, {"tag"}, n) \subseteq C
  BY DEF PlacesUpTo, Places
<1>4. /\ o.kind \in Kinds
      /\ C1 = IF o.word = w /\ o.kind \in {"tag", "noun"} THEN C \cup {n + 1} ELSE C
      /\ c1 = c + (IF o.word = w /\ o.kind \in {"tag", "noun"} THEN 1 ELSE 0)
      /\ t1 = t + (IF o.word = w /\ o.kind \in {"tag"} THEN 1 ELSE 0)
  <2>1. o.kind \in Kinds
    BY OccurrencesType
  <2> HIDE DEF C, C1, c, c1, t, t1, o
  <2>2. /\ C1 = IF o.word = w /\ o.kind \in {"tag", "noun"} THEN C \cup {n + 1} ELSE C
        /\ c1 = c + (IF o.word = w /\ o.kind \in {"tag", "noun"} THEN 1 ELSE 0)
    BY PlacesStep DEF C, C1, c, c1, o
  <2>3. t1 = t + (IF o.word = w /\ o.kind \in {"tag"} THEN 1 ELSE 0)
    BY PlacesStep DEF t, t1, o
  <2> QED
    BY <2>1, <2>2, <2>3
<1>5. TagValue \in Nat \ {0}
  BY SinglePassAssumption
<1>6. TagValue * t \in Nat /\ TagValue * (t + 1) = TagValue * t + TagValue
  BY <1>2, <1>5
<1>7. C # {} => Min(C1) = Min(C)
  <2>1. SUFFICES ASSUME C # {} PROVE Min(C1) = Min(C)
    OBVIOUS
  <2> HIDE DEF C, C1, o
  <2>2. Min(C) \in C /\ \A x \in C : Min(C) <= x
    BY <1>2, <2>1, MinOf
  <2>3. C1 \in SUBSET Nat /\ C \subseteq C1 /\ C1 \subseteq C \cup {n + 1}
    BY <1>2, <1>4
  <2>4. Min(C1) \in C1 /\ \A x \in C1 : Min(C1) <= x
    BY <2>1, <2>3, MinOf
  <2>5. Min(C) \in 1..n /\ Min(C) \in C1
    BY <1>2, <2>2, <2>3
  <2>6. Min(C1) \in C \/ Min(C1) = n + 1
    BY <2>3, <2>4
  <2>7. Min(C1) <= Min(C)
    BY <2>4, <2>5
  <2>8. Min(C1) \in C
    BY <2>5, <2>6, <2>7
  <2>9. Min(C1) \in 1..n /\ Min(C) <= Min(C1)
    BY <1>2, <2>2, <2>8
  <2> QED
    BY <2>5, <2>7, <2>9
<1>8. C = {} /\ C1 # {} => C1 = {n + 1} /\ Min(C1) = n + 1
  <2>1. SUFFICES ASSUME C = {}, C1 # {} PROVE C1 = {n + 1} /\ Min(C1) = n + 1
    OBVIOUS
  <2>2. C1 = {n + 1}
    BY <1>4, <2>1
  <2> HIDE DEF C1
  <2>3. Min(C1) \in C1
    BY <2>2, MinOf
  <2> QED
    BY <2>2, <2>3
<1>9. C = {} => t = 0 /\ c = 0 /\ ~in /\ WeightUpTo(w, n) = 0
  BY <1>1, <1>2, <1>3, <1>5
<1>10. C # {} => (in1 <=> in)
  <2>1. C # {} => C1 # {}
    BY <1>4
  <2> QED
    BY <1>7, <2>1
<1>11. WeightUpTo(w, n) \in Nat
  <2>1. C # {} => c >= 1
    BY <1>2
  <2> HIDE DEF C, c, t
  <2> QED
    BY <1>1, <1>2, <1>6, <2>1, <1>9
<1>12. C = {} => (in1 <=> o.word = w /\ o.kind = "tag")
  BY <1>4, <1>8
<1> HIDE DEF C, C1, c, c1, t, t1, in, in1, o
<1>13. TagValue * t1 = TagValue * t + (IF o.word = w /\ o.kind \in {"tag"} THEN TagValue ELSE 0)
  <2>1. CASE o.word = w /\ o.kind \in {"tag"}
    BY <1>4, <1>6, <2>1
  <2>2. CASE ~(o.word = w /\ o.kind \in {"tag"})
    <3>1. t1 = t
      BY <1>2, <1>4, <2>2
    <3> QED
      BY <1>6, <2>2, <3>1
  <2> QED
    BY <2>1, <2>2
<1>14. WeightUpTo(w, n + 1) =
          WeightUpTo(w, n) + (IF o.word # w \/ o.kind = "other" THEN 0
                              ELSE IF o.kind = "noun" THEN 1
                              ELSE IF C = {} THEN TagValue ELSE TagValue + 1)
  <2>1. CASE o.word # w \/ o.kind = "other"
    <3>1. t1 = t /\ c1 = c
      BY <1>2, <1>4, <2>1
    <3>2. in1 <=> in
      <4>1. C = {} => ~in1
        BY <1>12, <2>1
      <4> QED
        BY <1>9, <1>10, <4>1
    <3> QED
      BY <1>1, <1>2, <1>6, <2>1, <3>1, <3>2
  <2>2. CASE o.word = w /\ o.kind = "noun"
    <3>1. c1 = c + 1 /\ TagValue * t1 = TagValue * t /\ (in1 <=> in)
      BY <1>2, <1>4, <1>6, <1>9, <1>10, <1>12, <1>13, <2>2
    <3> QED
      BY <1>1, <1>2, <1>6, <2>2, <3>1
  <2>3. CASE o.word = w /\ o.kind = "tag" /\ C = {}
    <3>1. c1 = c + 1 /\ TagValue * t1 = TagValue * t + TagValue /\ in1 /\ ~in
      BY <1>2, <1>4, <1>9, <1>12, <1>13, <2>3
    <3> QED
      BY <1>1, <1>2, <1>5, <1>6, <2>3, <3>1
  <2>4. CASE o.word = w /\ o.kind = "tag" /\ C # {}
    <3>1. c1 = c + 1 /\ TagValue * t1 = TagValue * t + TagValue /\ (in1 <=> in)
      BY <1>2, <1>4, <1>10, <1>13, <2>4
    <3>2. WeightUpTo(w, n + 1) = WeightUpTo(w, n) + (TagValue + 1)
      <4>1. CASE in
        BY <1>1, <1>2, <1>5, <1>6, <3>1, <4>1
      <4>2. CASE ~in
        BY <1>1, <1>2, <1>5, <1>6, <3>1, <4>2
      <4> QED
        BY <4>1, <4>2
    <3> QED
      BY <2>4, <3>2
  <2>5. o.kind = "tag" \/ o.kind = "noun" \/ o.kind = "other"
    BY <1>4 DEF Kinds
  <2> QED
    BY <2>1, <2>2, <2>3, <2>4, <2>5, Zenon
<1> QED
  BY <1>9, <1>11, <1>14 DEF C, o

\* Without an occurrence that counts a word has no weight.
LEMMA WeightOfNone ==
    ASSUME reads \in Inputs, NEW w, NEW n \in Nat, PlacesUpTo(w, {"tag", "noun"}, n) = {}
    PROVE  WeightUpTo(w, n) = 0
<1> DEFINE C == PlacesUpTo(w, {"tag", "noun"}, n)
           t == Cardinality(PlacesUpTo(w, {"tag"}, n))
           c == Cardinality(C)
           in == C # {} /\ Occurrences[Min(C)].kind = "tag"
<1>1. WeightUpTo(w, n) = TagValue * t + c - (IF in THEN 1 ELSE 0)
  BY DEF WeightUpTo
<1>2. PlacesUpTo(w, {"tag"}, n) \subseteq C
  BY DEF PlacesUpTo, Places
<1>3. t = 0 /\ c = 0
  BY <1>2, PlacesType
<1>4. ~in /\ TagValue \in Nat
  BY SinglePassAssumption
<1> HIDE DEF C, t, c, in
<1> QED
  BY <1>1, <1>3, <1>4

\* The occurrences that count, with one more.
LEMMA CountedStep ==
    ASSUME reads \in Inputs, NEW w, NEW n \in Nat, n < Len(Occurrences)
    PROVE  PlacesUpTo(w, {"tag", "noun"}, n + 1) =
               IF Occurrences[n + 1].word = w /\ Occurrences[n + 1].kind # "other"
               THEN PlacesUpTo(w, {"tag", "noun"}, n) \cup {n + 1}
               ELSE PlacesUpTo(w, {"tag", "noun"}, n)
<1> DEFINE o == Occurrences[n + 1]
           C == PlacesUpTo(w, {"tag", "noun"}, n)
           C1 == PlacesUpTo(w, {"tag", "noun"}, n + 1)
           c == Cardinality(C)
           c1 == Cardinality(C1)
<1>1. o.kind \in Kinds
  BY OccurrencesType
<1> HIDE DEF o, C, C1, c, c1
<1>2. /\ C1 = IF o.word = w /\ o.kind \in {"tag", "noun"} THEN C \cup {n + 1} ELSE C
      /\ c1 = c + (IF o.word = w /\ o.kind \in {"tag", "noun"} THEN 1 ELSE 0)
  BY PlacesStep DEF C, C1, c, c1, o
<1>3. C1 = IF o.word = w /\ o.kind # "other" THEN C \cup {n + 1} ELSE C
  BY <1>1, <1>2 DEF Kinds
<1> QED
  BY <1>3 DEF C, C1, o

LEMMA WeightIsWhole ==
    ASSUME reads \in Inputs, NEW w
    PROVE  /\ Weight(w) = WeightUpTo(w, Len(Occurrences))
           /\ PlacesUpTo(w, {"tag", "noun"}, Len(Occurrences)) = {} => Weight(w) = 0
           /\ Weight(w) \in Nat
<1>1. DOMAIN Occurrences = 1..Len(Occurrences) /\ Len(Occurrences) \in Nat
  BY OccurrencesType
<1>2. \A kinds : PlacesUpTo(w, kinds, Len(Occurrences)) = Places(w, kinds)
  BY <1>1 DEF PlacesUpTo, Places
<1>3. Weight(w) = WeightUpTo(w, Len(Occurrences))
  BY <1>2 DEF Weight, WeightUpTo
<1>4. CASE Len(Occurrences) = 0
  <2>1. \A kinds : PlacesUpTo(w, kinds, 0) = {}
    BY <1>1, <1>4 DEF PlacesUpTo, Places
  <2>3. WeightUpTo(w, 0) = 0
    BY <2>1, WeightOfNone
  <2> QED
    BY <1>3, <1>4, <2>3
<1>5. CASE Len(Occurrences) # 0
  <2> DEFINE n == Len(Occurrences) - 1
  <2>1. n \in Nat /\ n < Len(Occurrences) /\ n + 1 = Len(Occurrences)
    BY <1>1, <1>5
  <2> HIDE DEF n
  <2>2. /\ WeightUpTo(w, n) \in Nat
        /\ PlacesUpTo(w, {"tag", "noun"}, n) = {} => WeightUpTo(w, n) = 0
    BY <2>1, WeightStep
  <2>3. PlacesUpTo(w, {"tag", "noun"}, n + 1) = {} =>
            /\ PlacesUpTo(w, {"tag", "noun"}, n) = {}
            /\ Occurrences[n + 1].word # w \/ Occurrences[n + 1].kind = "other"
    <3>1. Occurrences[n + 1].kind \in Kinds
      BY <2>1, OccurrencesType
    <3>2. PlacesUpTo(w, {"tag", "noun"}, n + 1) =
              IF Occurrences[n + 1].word = w /\ Occurrences[n + 1].kind # "other"
              THEN PlacesUpTo(w, {"tag", "noun"}, n) \cup {n + 1}
              ELSE PlacesUpTo(w, {"tag", "noun"}, n)
      BY <2>1, CountedStep
    <3> QED
      BY <3>1, <3>2 DEF Kinds
  <2>4. TagValue \in Nat
    BY SinglePassAssumption
  <2> DEFINE gain == IF Occurrences[n + 1].word # w \/ Occurrences[n + 1].kind = "other" THEN 0
                     ELSE IF Occurrences[n + 1].kind = "noun" THEN 1
                     ELSE IF PlacesUpTo(w, {"tag", "noun"}, n) = {} THEN TagValue ELSE TagValue + 1
  <2>5. WeightUpTo(w, n + 1) = WeightUpTo(w, n) + gain
    BY <2>1, WeightStep
  <2>6. gain \in Nat
    BY <2>4
  <2> QED
    BY <1>3, <2>1, <2>2, <2>3, <2>5, <2>6
<1> QED
  BY <1>3, <1>4, <1>5

LEMMA WeightInit == Init => WeightInv
<1> SUFFICES ASSUME Init PROVE WeightInv
  OBVIOUS
<1>1. DOMAIN weight = {} /\ place - 1 = 0
  BY DEF Init, None
<1>2. \A w : PlacesUpTo(w, {"tag", "noun"}, 0) = {}
  BY OccurrencesType DEF Init, PlacesUpTo, Places
<1> QED
  BY <1>1, <1>2, FS_EmptySet DEF WeightInv

\* A word more is counted.
LEMMA CountKeepsWeight ==
    ASSUME PlaceInv, WeightInv, CountWord
    PROVE  WeightInv'
<1> DEFINE o == Occurrences[place]
           n == place - 1
           C(w, m) == PlacesUpTo(w, {"tag", "noun"}, m)
           fresh(w) == C(w, n) = {}
           gain(w) == IF o.word # w \/ o.kind = "other" THEN 0
                      ELSE IF o.kind = "noun" THEN 1
                      ELSE IF fresh(w) THEN TagValue ELSE TagValue + 1
<1>1. /\ reads \in Inputs /\ n \in Nat /\ place = n + 1 /\ n < Len(Occurrences)
      /\ o.word \in Word /\ o.kind \in Kinds
      /\ place' - 1 = n + 1 /\ reads' = reads /\ purged' = purged
      /\ weight' = IF o.kind = "other" THEN weight ELSE Weighed(weight, o)
      /\ pc \in Early
  BY OccurrencesType DEF PlaceInv, CountWord, Early
<1>2. /\ DOMAIN weight \in SUBSET Word /\ IsFiniteSet(DOMAIN weight)
      /\ \A w \in DOMAIN weight :
            C(w, n) # {} /\ weight[w] \in Nat /\ weight[w] <= WeightUpTo(w, n)
      /\ ~purged => \A w \in Word : C(w, n) # {} =>
            w \in DOMAIN weight /\ weight[w] = WeightUpTo(w, n)
  BY <1>1 DEF WeightInv
<1>3. ASSUME NEW w
      PROVE  /\ WeightUpTo(w, n) \in Nat
             /\ fresh(w) => WeightUpTo(w, n) = 0
             /\ WeightUpTo(w, n + 1) = WeightUpTo(w, n) + gain(w)
             /\ C(w, n + 1) = IF o.word = w /\ o.kind # "other"
                              THEN C(w, n) \cup {n + 1} ELSE C(w, n)
  <2>1. /\ WeightUpTo(w, n) \in Nat
        /\ fresh(w) => WeightUpTo(w, n) = 0
        /\ WeightUpTo(w, n + 1) = WeightUpTo(w, n) + gain(w)
    BY <1>1, WeightStep
  <2>2. C(w, n + 1) = IF o.word = w /\ o.kind # "other"
                      THEN C(w, n) \cup {n + 1} ELSE C(w, n)
    BY <1>1, CountedStep
  <2> QED
    BY <2>1, <2>2
<1>3a. \A w : gain(w) = 0 => WeightUpTo(w, n + 1) = WeightUpTo(w, n)
  <2> DEFINE W(w) == WeightUpTo(w, n)
             W1(w) == WeightUpTo(w, n + 1)
  <2>1. \A w : W(w) \in Nat /\ W1(w) = W(w) + gain(w)
    BY <1>3
  <2> HIDE DEF W, W1, gain
  <2>2. \A w : gain(w) = 0 => W1(w) = W(w)
    BY <2>1
  <2> QED
    BY <2>2 DEF W, W1
<1>4. TagValue \in Nat \ {0}
  BY SinglePassAssumption
<1>5. \A w : /\ PlacesUpTo(w, {"tag", "noun"}, place - 1)' = C(w, n + 1)
             /\ WeightUpTo(w, place - 1)' = WeightUpTo(w, n + 1)
  <2>1. Occurrences' = Occurrences /\ (place - 1)' = n + 1
    BY <1>1, RowsStay
  <2> QED
    BY <2>1 DEF PlacesUpTo, Places, WeightUpTo
<1> HIDE DEF C, o, n
<1>6. /\ DOMAIN weight' \in SUBSET Word /\ IsFiniteSet(DOMAIN weight')
      /\ \A w \in DOMAIN weight' :
            C(w, n + 1) # {} /\ weight'[w] \in Nat /\ weight'[w] <= WeightUpTo(w, n + 1)
      /\ ~purged => \A w \in Word : C(w, n + 1) # {} =>
            w \in DOMAIN weight' /\ weight'[w] = WeightUpTo(w, n + 1)
  <2>1. CASE o.kind = "other"
    <3>1. weight' = weight /\ \A w : gain(w) = 0 /\ C(w, n + 1) = C(w, n)
      BY <1>1, <1>3, <2>1
    <3>2. \A w : WeightUpTo(w, n + 1) = WeightUpTo(w, n)
      <4> HIDE DEF gain
      <4> QED
        BY <1>3a, <3>1
    <3> QED
      BY <1>2, <3>1, <3>2
  <2>2. CASE o.kind # "other"
    <3>1. o.kind \in {"tag", "noun"}
      BY <1>1, <2>2 DEF Kinds
    <3> DEFINE known == o.word \in DOMAIN weight
               more == (IF o.kind = "tag" THEN TagValue ELSE 0)
                       + (IF known \/ o.kind # "tag" THEN 1 ELSE 0)
               old == IF known THEN weight[o.word] ELSE 0
    <3>2. weight' = [w \in DOMAIN weight \cup {o.word} |->
                        IF w = o.word THEN old + more ELSE weight[w]]
      BY <1>1, <2>2 DEF Weighed
    <3>3. DOMAIN weight' = DOMAIN weight \cup {o.word} /\ IsFiniteSet(DOMAIN weight')
      BY <1>2, <3>2, FS_AddElement
    <3>4. \A w : w # o.word =>
              C(w, n + 1) = C(w, n) /\ WeightUpTo(w, n + 1) = WeightUpTo(w, n)
      <4>1. ASSUME NEW w, w # o.word
            PROVE  C(w, n + 1) = C(w, n) /\ WeightUpTo(w, n + 1) = WeightUpTo(w, n)
        <5>1. gain(w) = 0 /\ C(w, n + 1) = C(w, n)
          BY <1>3, <4>1
        <5> HIDE DEF gain
        <5> QED
          BY <1>3a, <5>1
      <4> QED
        BY <4>1
    <3>5. C(o.word, n + 1) # {}
      BY <1>3, <3>1
    <3>6. weight'[o.word] = old + more
      BY <3>2
    <3>7. /\ old \in Nat /\ more \in Nat
          /\ known => gain(o.word) = more /\ old <= WeightUpTo(o.word, n)
          /\ ~known => more <= gain(o.word) /\ old = 0
          /\ fresh(o.word) /\ ~known => more = gain(o.word)
      <4>1. known => ~fresh(o.word) /\ weight[o.word] \in Nat
                     /\ weight[o.word] <= WeightUpTo(o.word, n)
        BY <1>2
      <4> QED
        BY <1>4, <3>1, <4>1
    <3>8. ~purged => weight'[o.word] = WeightUpTo(o.word, n + 1)
      <4>1. SUFFICES ASSUME ~purged PROVE weight'[o.word] = WeightUpTo(o.word, n + 1)
        OBVIOUS
      <4>2. ~fresh(o.word) => known /\ weight[o.word] = WeightUpTo(o.word, n)
        BY <1>1, <1>2, <4>1
      <4>3. CASE known
        <5>1. ~fresh(o.word)
          BY <1>2, <4>3
        <5> QED
          <6>1. weight'[o.word] = weight[o.word] + gain(o.word)
            BY <3>6, <3>7, <4>3
          <6>2. WeightUpTo(o.word, n + 1) = WeightUpTo(o.word, n) + gain(o.word)
            BY <1>3
          <6> HIDE DEF gain
          <6> QED
            BY <4>2, <5>1, <6>1, <6>2
      <4>4. CASE ~known
        <5>1. fresh(o.word)
          BY <4>2, <4>4
        <5> HIDE DEF gain, more, old, known, fresh
        <5> QED
          BY <1>3, <3>6, <3>7, <4>4, <5>1
      <4> QED
        BY <4>3, <4>4
    <3>9. weight'[o.word] \in Nat /\ weight'[o.word] <= WeightUpTo(o.word, n + 1)
      <4>1. gain(o.word) \in Nat
        BY <1>4
      <4> HIDE DEF gain, more, old, known, fresh
      <4>2. WeightUpTo(o.word, n) \in Nat
            /\ WeightUpTo(o.word, n + 1) = WeightUpTo(o.word, n) + gain(o.word)
        BY <1>3
      <4> QED
        BY <3>6, <3>7, <4>1, <4>2
    <3>10. ASSUME NEW w \in DOMAIN weight'
           PROVE  C(w, n + 1) # {} /\ weight'[w] \in Nat /\ weight'[w] <= WeightUpTo(w, n + 1)
      <4>1. CASE w # o.word
        <5>1. w \in DOMAIN weight /\ weight'[w] = weight[w]
          BY <3>2, <4>1
        <5> QED
          BY <1>2, <3>4, <4>1, <5>1
      <4>2. CASE w = o.word
        BY <3>5, <3>9, <4>2
      <4> QED
        BY <4>1, <4>2
    <3>11. ASSUME ~purged, NEW w \in Word, C(w, n + 1) # {}
           PROVE  w \in DOMAIN weight' /\ weight'[w] = WeightUpTo(w, n + 1)
      <4>1. CASE w # o.word
        <5>1. w \in DOMAIN weight /\ weight[w] = WeightUpTo(w, n)
          BY <1>2, <3>4, <3>11, <4>1
        <5>2. weight'[w] = weight[w]
          BY <3>2, <4>1, <5>1
        <5> QED
          BY <3>3, <3>4, <4>1, <5>1, <5>2
      <4>2. CASE w = o.word
        BY <3>3, <3>8, <3>11, <4>2
      <4> QED
        BY <4>1, <4>2
    <3>12. DOMAIN weight' \in SUBSET Word
      BY <1>1, <1>2, <3>3
    <3> QED
      BY <3>3, <3>10, <3>11, <3>12
  <2> QED
    BY <2>1, <2>2
<1> QED
  BY <1>1, <1>5, <1>6 DEF WeightInv, C


LEMMA WeightKept == PlaceInv /\ WeightInv /\ [Next]_vars => WeightInv'
<1> SUFFICES ASSUME PlaceInv, WeightInv, [Next]_vars PROVE WeightInv'
  OBVIOUS
<1>1. CASE CountWord
  BY <1>1, CountKeepsWeight
<1>2. CASE Purge
  <2>1. PICK erased : weight' = Restrict(weight, DOMAIN weight \ erased)
    BY <1>2 DEF Purge
  <2>2. DOMAIN weight' \in SUBSET DOMAIN weight /\ \A w \in DOMAIN weight' : weight'[w] = weight[w]
    BY <2>1 DEF Restrict
  <2>3. /\ DOMAIN weight \in SUBSET Word /\ IsFiniteSet(DOMAIN weight)
        /\ \A w \in DOMAIN weight :
              /\ PlacesUpTo(w, {"tag", "noun"}, place - 1) # {}
              /\ weight[w] \in Nat /\ weight[w] <= WeightUpTo(w, place - 1)
    BY <1>2 DEF WeightInv, Purge, Early
  <2>4. IsFiniteSet(DOMAIN weight')
    BY <2>2, <2>3, FS_Subset
  <2>5. \A w : /\ PlacesUpTo(w, {"tag", "noun"}, place - 1)' = PlacesUpTo(w, {"tag", "noun"}, place - 1)
               /\ WeightUpTo(w, place - 1)' = WeightUpTo(w, place - 1)
    <3>1. Occurrences' = Occurrences /\ (place - 1)' = place - 1
      BY <1>2, RowsStay DEF Purge
    <3> QED
      BY <3>1 DEF PlacesUpTo, Places, WeightUpTo
  <2>6. purged' = TRUE
    BY <1>2 DEF Purge
  <2> HIDE <1>2
  <2> QED
    BY <2>2, <2>3, <2>4, <2>5, <2>6 DEF WeightInv
<1>3. CASE PurgeDies
  BY <1>3 DEF PurgeDies, WeightInv, Early
<1>4. CASE TopicWordSort
  BY <1>4 DEF TopicWordSort, EndOfScan, WeightInv, Early
<1>5. CASE CooccurRow
  BY <1>5 DEF CooccurRow, WeightInv, Early
<1>6. CASE Threshold
  BY <1>6 DEF Threshold, EndOfScan, WeightInv, Early
<1>7. CASE NoFeatureWord
  BY <1>7 DEF NoFeatureWord, WeightInv, Early
<1>8. CASE Assign
  BY <1>8 DEF Assign, WeightInv, Early
<1>9. CASE Match
  BY <1>9 DEF Match, WeightInv, Early
<1>10. CASE IndexRow
  BY <1>10 DEF IndexRow, WeightInv, Early
<1>11. CASE ListAllTopicWeiboId
  BY <1>11 DEF ListAllTopicWeiboId, EndOfScan, WeightInv, Early
<1>12. CASE SortTopic
  BY <1>12 DEF SortTopic, WeightInv, Early
<1>13. CASE UNCHANGED vars
  <2>1. \A w : /\ PlacesUpTo(w, {"tag", "noun"}, place - 1)' = PlacesUpTo(w, {"tag", "noun"}, place - 1)
               /\ WeightUpTo(w, place - 1)' = WeightUpTo(w, place - 1)
    <3>1. Occurrences' = Occurrences /\ (place - 1)' = place - 1
      BY <1>13, RowsStay DEF vars
    <3> QED
      BY <3>1 DEF PlacesUpTo, Places, WeightUpTo
  <2> QED
    BY <1>13, <2>1 DEF vars, WeightInv
<1> QED
  BY <1>1, <1>2, <1>3, <1>4, <1>5, <1>6, <1>7, <1>8, <1>9, <1>10, <1>11, <1>12, <1>13 DEF Next

\* The words taken from the map are heavy enough, and no heavier one is left there.
LEMMA SortTakesFrequent ==
    ASSUME PlaceInv, WeightInv, TopicWordSort
    PROVE  FeatureWordsFrequent'
<1> DEFINE n == Len(Occurrences)
           C(w) == PlacesUpTo(w, {"tag", "noun"}, n)
<1>1. /\ reads \in Inputs /\ n \in Nat /\ place - 1 = n
      /\ reads' = reads /\ purged' = purged /\ pc \in Early
  BY OccurrencesType DEF PlaceInv, TopicWordSort, EndOfScan, Early
<1>2. \A w : /\ Weight(w) \in Nat /\ WeightUpTo(w, n) = Weight(w)
             /\ C(w) = {} => Weight(w) = 0
  BY <1>1, WeightIsWhole
<1> HIDE DEF C, n
<1>3. /\ DOMAIN weight \in SUBSET Word /\ IsFiniteSet(DOMAIN weight)
      /\ \A w \in DOMAIN weight :
            C(w) # {} /\ weight[w] \in Nat /\ weight[w] <= Weight(w)
      /\ ~purged => \A w \in Word : C(w) # {} => w \in DOMAIN weight /\ weight[w] = Weight(w)
  BY <1>1, <1>2 DEF WeightInv, C
<1>4. PICK set \in SUBSET DOMAIN weight :
          Heaviest(set) /\ feature' = {w \in set : weight[w] > FreqLimit}
  BY DEF TopicWordSort
<1>5. TopicWordNum \in Nat
  <2>1. Len(reads) \in Nat /\ RowsPerWord \in Nat \ {0} /\ LeastWordNum \in Nat
    BY <1>1, ReadsType, SinglePassAssumption
  <2> DEFINE a == Len(reads) \div RowsPerWord
  <2>2. a \in Nat
    BY <2>1
  <2> HIDE DEF a
  <2>3. Max({a, LeastWordNum}) \in Nat
    BY <2>1, <2>2, MaxOfTwo
  <2> QED
    BY <2>3 DEF TopicWordNum, a
<1>6. /\ Cardinality(DOMAIN weight) \in Nat /\ IsFiniteSet(set) /\ Cardinality(set) \in Nat
      /\ Cardinality(set) = Cardinality(DOMAIN weight) => set = DOMAIN weight
  BY <1>3, FS_Subset, FS_CardinalityType
<1>7. Cardinality(set) = IF Cardinality(DOMAIN weight) <= TopicWordNum
                         THEN Cardinality(DOMAIN weight) ELSE TopicWordNum
  <2> DEFINE d == Cardinality(DOMAIN weight)
             t == TopicWordNum
  <2>1. d \in Int /\ t \in Int /\ Cardinality(set) = Min({d, t})
    BY <1>4, <1>5, <1>6 DEF Heaviest
  <2> HIDE DEF d, t
  <2>2. Cardinality(set) = IF d <= t THEN d ELSE t
    BY <2>1, MinOfTwo
  <2> QED
    BY <2>2 DEF d, t
<1>8. feature' \in SUBSET set /\ IsFiniteSet(feature') /\ Cardinality(feature') \in Nat
      /\ Cardinality(feature') <= Cardinality(set)
  <2>1. feature' \in SUBSET set
    BY <1>4
  <2> QED
    BY <1>6, <2>1, FS_Subset, FS_CardinalityType
<1>9. \A w \in feature' : Weight(w) > FreqLimit
  <2>1. ASSUME NEW w \in feature' PROVE Weight(w) > FreqLimit
    <3>1. w \in DOMAIN weight /\ weight[w] > FreqLimit /\ weight[w] \in Nat
          /\ weight[w] <= Weight(w) /\ Weight(w) \in Nat /\ FreqLimit \in Nat
      BY <1>2, <1>3, <1>4, SinglePassAssumption
    <3> QED
      BY <3>1
  <2> QED
    BY <2>1
<1>10. Cardinality(feature') <= TopicWordNum
  BY <1>5, <1>6, <1>7, <1>8
<1>11. ASSUME ~purged, NEW w \in Word \ feature', Weight(w) > FreqLimit
       PROVE  Cardinality(feature') = TopicWordNum /\ \A v \in feature' : Weight(v) >= Weight(w)
  <2>1. FreqLimit \in Nat
    BY SinglePassAssumption
  <2>2. w \in DOMAIN weight /\ weight[w] = Weight(w)
    <3>1. Weight(w) # 0
      BY <1>2, <1>11, <2>1
    <3> QED
      BY <1>2, <1>3, <1>11, <3>1
  <2>3. w \notin set
    BY <1>4, <1>11, <2>2
  <2>4. \A v \in set : v \in DOMAIN weight /\ weight[v] >= weight[w] /\ weight[v] = Weight(v)
    BY <1>3, <1>4, <1>11, <2>2, <2>3 DEF Heaviest
  <2>5. ASSUME NEW v \in set PROVE weight[v] > FreqLimit /\ Weight(v) >= Weight(w)
    <3>1. Weight(v) \in Nat /\ Weight(w) \in Nat /\ weight[v] = Weight(v) /\ Weight(v) >= Weight(w)
      BY <1>2, <2>2, <2>4
    <3> QED
      BY <1>11, <2>1, <3>1
  <2>6. feature' = set
    BY <1>4, <2>5
  <2>7. Cardinality(set) # Cardinality(DOMAIN weight)
    BY <1>6, <2>2, <2>3
  <2> QED
    BY <1>7, <2>5, <2>6, <2>7
<1>12. TopicWordNum' = TopicWordNum /\ \A w : Weight(w)' = Weight(w)
  BY <1>1, RowsStay
<1> QED
  BY <1>1, <1>9, <1>10, <1>11, <1>12 DEF FeatureWordsFrequent

\* The feature words, once chosen, stay.
LEMMA FrequentKept ==
    PlaceInv /\ WeightInv /\ FeatureWordsFrequent /\ [Next]_vars => FeatureWordsFrequent'
<1> SUFFICES ASSUME PlaceInv, WeightInv, FeatureWordsFrequent, [Next]_vars
             PROVE  FeatureWordsFrequent'
  OBVIOUS
<1>1. CASE TopicWordSort
  BY <1>1, SortTakesFrequent
<1>2. CASE CountWord
  BY <1>2 DEF CountWord, FeatureWordsFrequent
<1>3. CASE Purge
  BY <1>3 DEF Purge, FeatureWordsFrequent
<1>4. CASE PurgeDies
  BY <1>4 DEF PurgeDies, FeatureWordsFrequent
<1>5. CASE NoFeatureWord
  BY <1>5 DEF NoFeatureWord, FeatureWordsFrequent
<1>6. CASE CooccurRow \/ Threshold \/ Assign \/ Match \/ IndexRow \/ ListAllTopicWeiboId
           \/ SortTopic \/ UNCHANGED vars
  <2>1. reads' = reads /\ purged' = purged /\ feature' = feature
    BY <1>6 DEF CooccurRow, Threshold, Assign, Match, IndexRow, ListAllTopicWeiboId, SortTopic, vars
  <2>2. pc' \notin {"count", "purge", "crashed"} => pc \notin {"count", "purge", "crashed"}
    BY <1>6 DEF CooccurRow, Threshold, Assign, Match, IndexRow, ListAllTopicWeiboId, SortTopic, vars
  <2>3. TopicWordNum' = TopicWordNum /\ \A w : Weight(w)' = Weight(w)
    BY <2>1, RowsStay
  <2> QED
    BY <2>1, <2>2, <2>3 DEF FeatureWordsFrequent
<1> QED
  BY <1>1, <1>2, <1>3, <1>4, <1>5, <1>6 DEF Next

-----------------------------------------------------------------------------
(* The matrix *)

\* How often a word is in the first n places of a list.
CountUpTo(list, w, n) == Cardinality({i \in 1..n : list[i] = w})

LEMMA CountType ==
    ASSUME NEW T, NEW list \in Seq(T), NEW w
    PROVE  /\ Count(list, w) = CountUpTo(list, w, Len(list))
           /\ Count(list, w) \in Nat
           /\ Count(list, w) > 0 <=> w \in Range(list)
<1> DEFINE at == {i \in DOMAIN list : list[i] = w}
<1>1. DOMAIN list = 1..Len(list) /\ Len(list) \in Nat
  OBVIOUS
<1>2. IsFiniteSet(DOMAIN list) /\ at \in SUBSET DOMAIN list
  BY <1>1, FS_Interval
<1>3. w \in Range(list) <=> at # {}
  BY DEF Range
<1>4. Count(list, w) = Cardinality(at)
  BY DEF Count
<1>5. Count(list, w) = CountUpTo(list, w, Len(list))
  BY <1>1 DEF Count, CountUpTo
<1> HIDE DEF at
<1>6. IsFiniteSet(at)
  BY <1>2, FS_Subset
<1>7. Cardinality(at) \in Nat /\ (Cardinality(at) = 0 <=> at = {})
  BY <1>6, FS_CardinalityType, FS_EmptySet
<1> QED
  BY <1>3, <1>4, <1>5, <1>7

LEMMA CountSteps ==
    ASSUME NEW list, NEW w, NEW n \in Nat
    PROVE  /\ CountUpTo(list, w, n) \in Nat
           /\ CountUpTo(list, w, 0) = 0
           /\ CountUpTo(list, w, n) > 0 <=> \E i \in 1..n : list[i] = w
           /\ CountUpTo(list, w, n + 1) = CountUpTo(list, w, n) + (IF list[n + 1] = w THEN 1 ELSE 0)
<1> DEFINE at == {i \in 1..n : list[i] = w}
           at1 == {i \in 1..(n + 1) : list[i] = w}
<1>1. at1 = IF list[n + 1] = w THEN at \cup {n + 1} ELSE at
  OBVIOUS
<1>2. at \in SUBSET (1..n) /\ IsFiniteSet(1..n) /\ n + 1 \notin at
  BY FS_Interval
<1>3. CountUpTo(list, w, 0) = 0
  <2>1. {i \in 1..0 : list[i] = w} = {}
    OBVIOUS
  <2> QED
    BY <2>1, FS_EmptySet DEF CountUpTo
<1>4. at # {} <=> \E i \in 1..n : list[i] = w
  OBVIOUS
<1>5. CountUpTo(list, w, n) = Cardinality(at) /\ CountUpTo(list, w, n + 1) = Cardinality(at1)
  BY DEF CountUpTo
<1> HIDE DEF at, at1
<1>6. IsFiniteSet(at)
  BY <1>2, FS_Subset
<1>7. Cardinality(at) \in Nat /\ (Cardinality(at) = 0 <=> at = {})
  BY <1>6, FS_CardinalityType, FS_EmptySet
<1>8. Cardinality(at \cup {n + 1}) = Cardinality(at) + 1
  BY <1>2, <1>6, FS_AddElement
<1>9. Cardinality(at1) = Cardinality(at) + (IF list[n + 1] = w THEN 1 ELSE 0)
  <2>1. CASE list[n + 1] = w
    BY <1>1, <1>8, <2>1
  <2>2. CASE list[n + 1] # w
    BY <1>1, <1>7, <2>2
  <2> QED
    BY <2>1, <2>2
<1> QED
  BY <1>3, <1>4, <1>5, <1>7, <1>9

\* The matrix with rows for the words of S and the numbers of t, if those are not zero.
MatrixOf(S, t) == [a \in S |-> [b \in {v \in feature \ {a} : t[a][v] > 0} |-> t[a][b]]]

Fits(S, t) ==
    /\ S \in SUBSET feature
    /\ t \in [feature -> [feature -> Nat]]
    /\ \A a \in feature \ S, b \in feature : t[a][b] = 0

\* u is t with the words of the list added to the row of the first word.
AddsRow(u, t, list, first) ==
    /\ u \in [feature -> [feature -> Nat]]
    /\ \A a, b \in feature : u[a][b] = t[a][b] + (IF a = first THEN Count(list, b) ELSE 0)

LEMMA WithFirstStep ==
    ASSUME NEW S, NEW t, Fits(S, t), NEW T, NEW list \in Seq(T), NEW first \in feature,
           NEW u, AddsRow(u, t, list, first)
    PROVE  /\ Fits(S \cup {first}, u)
           /\ WithFirst(MatrixOf(S, t), list, first) = MatrixOf(S \cup {first}, u)
<1> DEFINE m == MatrixOf(S, t)
           old == IF first \in DOMAIN m THEN m[first] ELSE None
           new == [w \in DOMAIN old \cup ((Range(list) \cap feature) \ {first}) |->
                      (IF w \in DOMAIN old THEN old[w] ELSE 0) + Count(list, w)]
           met == {b \in feature \ {first} : t[first][b] > 0}
           met1 == {b \in feature \ {first} : u[first][b] > 0}
<1>a. /\ u \in [feature -> [feature -> Nat]]
      /\ \A a, b \in feature : u[a][b] = t[a][b] + (IF a = first THEN Count(list, b) ELSE 0)
  BY DEF AddsRow
<1>0. /\ S \in SUBSET feature
      /\ \A a, b \in feature : t[a][b] \in Nat /\ u[a][b] \in Nat
      /\ \A a \in feature \ S, b \in feature : t[a][b] = 0
  BY <1>a DEF Fits
<1>1. \A b : Count(list, b) \in Nat /\ (Count(list, b) > 0 <=> b \in Range(list))
  BY CountType
<1>2. \A a \in feature \ {first}, b \in feature : u[a][b] = t[a][b]
  BY <1>a, <1>0
<1>3. \A b \in feature : u[first][b] = t[first][b] + Count(list, b)
  BY <1>a
<1>4. Fits(S \cup {first}, u)
  <2>1. \A a \in feature \ (S \cup {first}), b \in feature : u[a][b] = 0
    BY <1>0, <1>2
  <2> QED
    BY <1>a, <1>0, <2>1 DEF Fits
<1>5. DOMAIN m = S /\ \A a \in S : m[a] = [b \in {v \in feature \ {a} : t[a][v] > 0} |-> t[a][b]]
  BY DEF MatrixOf
<1>6. DOMAIN old = met /\ \A b \in met : old[b] = t[first][b]
  <2>1. CASE first \in S
    BY <1>5, <2>1
  <2>2. CASE first \notin S
    <3>1. met = {}
      BY <1>0, <2>2
    <3>2. old = None
      BY <1>5, <2>2
    <3> QED
      BY <3>1, <3>2 DEF None
  <2> QED
    BY <2>1, <2>2
<1>7. WithFirst(m, list, first) = [w \in DOMAIN m \cup {first} |-> IF w = first THEN new ELSE m[w]]
  BY DEF WithFirst
<1>8. met1 = met \cup ((Range(list) \cap feature) \ {first})
  <2>1. \A b \in feature : u[first][b] > 0 <=> t[first][b] > 0 \/ b \in Range(list)
    <3>1. ASSUME NEW b \in feature PROVE u[first][b] > 0 <=> t[first][b] > 0 \/ b \in Range(list)
      <4>1. t[first][b] \in Nat /\ Count(list, b) \in Nat /\ u[first][b] = t[first][b] + Count(list, b)
        BY <1>0, <1>1, <1>3
      <4> QED
        BY <1>1, <4>1
    <3> QED
      BY <3>1
  <2> QED
    BY <2>1
<1>9. new = [b \in met1 |-> u[first][b]]
  <2>1. DOMAIN new = met1
    BY <1>6, <1>8
  <2>2. ASSUME NEW b \in met1 PROVE new[b] = u[first][b]
    <3>1. t[first][b] \in Nat /\ Count(list, b) \in Nat /\ u[first][b] = t[first][b] + Count(list, b)
      BY <1>0, <1>1, <1>3, <2>2
    <3>2. (IF b \in DOMAIN old THEN old[b] ELSE 0) = t[first][b]
      <4>1. CASE b \in met
        BY <1>6, <4>1
      <4>2. CASE b \notin met
        <5>1. t[first][b] = 0
          BY <2>2, <3>1, <4>2
        <5> QED
          BY <1>6, <4>2, <5>1
      <4> QED
        BY <4>1, <4>2
    <3>3. new[b] = (IF b \in DOMAIN old THEN old[b] ELSE 0) + Count(list, b)
      <4> HIDE DEF old
      <4> QED
        BY <2>1, <2>2
    <3> HIDE DEF new, old
    <3> QED
      BY <3>1, <3>2, <3>3
  <2>3. new = [b \in DOMAIN new |-> new[b]]
    <3> HIDE DEF old
    <3> QED
      OBVIOUS
  <2> HIDE DEF new, met1
  <2> QED
    BY <2>1, <2>2, <2>3
<1>10. ASSUME NEW a \in S \cup {first}
       PROVE  (IF a = first THEN new ELSE m[a])
                  = [b \in {v \in feature \ {a} : u[a][v] > 0} |-> u[a][b]]
  <2>1. CASE a = first
    BY <1>9, <2>1
  <2>2. CASE a # first
    <3>1. a \in S /\ a \in feature \ {first} /\ m[a] = [b \in {v \in feature \ {a} : t[a][v] > 0} |-> t[a][b]]
      BY <1>0, <1>5, <2>2
    <3>2. {v \in feature \ {a} : u[a][v] > 0} = {v \in feature \ {a} : t[a][v] > 0}
      BY <1>2, <3>1
    <3>3. \A b \in {v \in feature \ {a} : u[a][v] > 0} : u[a][b] = t[a][b]
      BY <1>2, <3>1
    <3> HIDE DEF m
    <3> QED
      BY <2>2, <3>1, <3>2, <3>3
  <2> QED
    BY <2>1, <2>2
<1> HIDE DEF m, new, old, met, met1
<1>11. WithFirst(m, list, first) = MatrixOf(S \cup {first}, u)
  <2> DEFINE S1 == S \cup {first}
             r(a) == IF a = first THEN new ELSE m[a]
             e(a) == [b \in {v \in feature \ {a} : u[a][v] > 0} |-> u[a][b]]
  <2>1. \A a \in S1 : r(a) = e(a)
    BY <1>10
  <2>2. WithFirst(m, list, first) = [a \in S1 |-> r(a)]
    BY <1>5, <1>7
  <2>3. MatrixOf(S1, u) = [a \in S1 |-> e(a)]
    BY DEF MatrixOf
  <2> HIDE DEF S1, r, e
  <2>4. [a \in S1 |-> r(a)] = [a \in S1 |-> e(a)]
    BY <2>1
  <2> QED
    BY <2>2, <2>3, <2>4 DEF S1
<1> QED
  BY <1>4, <1>11 DEF m

\* The loop over a list adds, for each pair, the product of how often they are there.
LEMMA CountedAdds ==
    ASSUME NEW S, NEW t, Fits(S, t), NEW T, NEW list \in Seq(T)
    PROVE  /\ Fits(S \cup (Range(list) \cap feature),
                   [a \in feature |-> [b \in feature |-> t[a][b] + Count(list, a) * Count(list, b)]])
           /\ Counted(MatrixOf(S, t), list) =
                  MatrixOf(S \cup (Range(list) \cap feature),
                           [a \in feature |->
                               [b \in feature |-> t[a][b] + Count(list, a) * Count(list, b)]])
<1> DEFINE n == Len(list)
           So(i) == S \cup ({list[j] : j \in 1..i} \cap feature)
           Su(i) == [a \in feature |->
                       [b \in feature |-> t[a][b] + CountUpTo(list, a, i) * Count(list, b)]]
           m == MatrixOf(S, t)
           f == CHOOSE f : f = [i \in 0..n |->
                    IF i = 0 THEN m
                    ELSE IF list[i] \in feature THEN WithFirst(f[i - 1], list, list[i])
                    ELSE f[i - 1]]
           g == [i \in 0..n |-> MatrixOf(So(i), Su(i))]
<1>1. n \in Nat /\ DOMAIN list = 1..n
  OBVIOUS
<1>2. /\ S \in SUBSET feature
      /\ \A a, b \in feature : t[a][b] \in Nat
      /\ \A a \in feature \ S, b \in feature : t[a][b] = 0
      /\ t = [a \in feature |-> [b \in feature |-> t[a][b]]]
  BY DEF Fits
<1>3. \A b : Count(list, b) \in Nat
  BY CountType
<1>4. ASSUME NEW i \in Nat, i <= n
      PROVE  /\ So(i) \in SUBSET feature
             /\ Su(i) \in [feature -> [feature -> Nat]]
             /\ \A a, b \in feature : Su(i)[a][b] = t[a][b] + CountUpTo(list, a, i) * Count(list, b)
  <2>1. ASSUME NEW a \in feature, NEW b \in feature
        PROVE  t[a][b] + CountUpTo(list, a, i) * Count(list, b) \in Nat
    <3> DEFINE x == t[a][b]
               y == CountUpTo(list, a, i)
               z == Count(list, b)
    <3>1. x \in Nat /\ y \in Nat /\ z \in Nat
      BY <1>2, <1>3, CountSteps
    <3> HIDE DEF x, y, z
    <3>2. x + y * z \in Nat
      BY <3>1
    <3> QED
      BY <3>2 DEF x, y, z
  <2> QED
    BY <1>2, <2>1
<1>5. Su(0) = t /\ So(0) = S
  <2>1. ASSUME NEW a \in feature, NEW b \in feature
        PROVE  t[a][b] + CountUpTo(list, a, 0) * Count(list, b) = t[a][b]
    <3> DEFINE x == t[a][b]
               z == Count(list, b)
    <3>1. x \in Nat /\ CountUpTo(list, a, 0) = 0 /\ z \in Nat
      BY <1>2, <1>3, CountSteps
    <3> HIDE DEF x, z
    <3>2. x + 0 * z = x
      BY <3>1
    <3> QED
      BY <3>1, <3>2 DEF x, z
  <2>2. So(0) = S
    OBVIOUS
  <2> QED
    BY <1>2, <2>1, <2>2
<1>6. ASSUME NEW i \in Nat, i < n, Fits(So(i), Su(i))
      PROVE  /\ Fits(So(i + 1), Su(i + 1))
             /\ MatrixOf(So(i + 1), Su(i + 1)) =
                    IF list[i + 1] \in feature
                    THEN WithFirst(MatrixOf(So(i), Su(i)), list, list[i + 1])
                    ELSE MatrixOf(So(i), Su(i))
  <2> DEFINE first == list[i + 1]
             s0 == So(i)
             s1 == So(i + 1)
             u0 == Su(i)
             u1 == Su(i + 1)
  <2>1. /\ u0 \in [feature -> [feature -> Nat]] /\ u1 \in [feature -> [feature -> Nat]]
        /\ \A a, b \in feature :
              /\ u0[a][b] = t[a][b] + CountUpTo(list, a, i) * Count(list, b)
              /\ u1[a][b] = t[a][b] + CountUpTo(list, a, i + 1) * Count(list, b)
    <3>1. i <= n /\ i + 1 \in Nat /\ i + 1 <= n
      BY <1>1, <1>6
    <3> HIDE DEF So, Su
    <3>2. /\ u0 \in [feature -> [feature -> Nat]]
          /\ \A a, b \in feature : u0[a][b] = t[a][b] + CountUpTo(list, a, i) * Count(list, b)
      BY <1>4, <3>1
    <3>3. /\ u1 \in [feature -> [feature -> Nat]]
          /\ \A a, b \in feature : u1[a][b] = t[a][b] + CountUpTo(list, a, i + 1) * Count(list, b)
      BY <1>4, <3>1
    <3> QED
      BY <3>2, <3>3
  <2>2. s1 = IF first \in feature THEN s0 \cup {first} ELSE s0
    <3>1. 1..(i + 1) = (1..i) \cup {i + 1}
      OBVIOUS
    <3> QED
      BY <3>1
  <2>3. ASSUME NEW a \in feature, NEW b \in feature
        PROVE  u1[a][b] = u0[a][b] + (IF a = first THEN Count(list, b) ELSE 0)
    <3> DEFINE x == t[a][b]
               y == CountUpTo(list, a, i)
               y1 == CountUpTo(list, a, i + 1)
               z == Count(list, b)
    <3>1. /\ x \in Nat /\ y \in Nat /\ z \in Nat
          /\ y1 = y + (IF a = first THEN 1 ELSE 0)
          /\ u0[a][b] = x + y * z /\ u1[a][b] = x + y1 * z
      <4>1. x \in Nat /\ z \in Nat
        BY <1>2, <1>3
      <4>2a. y \in Nat
        BY CountSteps
      <4>2b. y1 = y + (IF list[i + 1] = a THEN 1 ELSE 0)
        <5> HIDE DEF y, y1
        <5>1. /\ y \in Nat
              /\ CountUpTo(list, a, 0) = 0
              /\ y > 0 <=> \E k \in 1..i : list[k] = a
              /\ y1 = y + (IF list[i + 1] = a THEN 1 ELSE 0)
          BY CountSteps DEF y, y1
        <5> QED
          BY <5>1
      <4>2. y \in Nat /\ y1 = y + (IF first = a THEN 1 ELSE 0)
        BY <4>2a, <4>2b
      <4> HIDE DEF u0, u1, first
      <4>3. u0[a][b] = x + y * z /\ u1[a][b] = x + y1 * z
        BY <2>1
      <4> QED
        BY <4>1, <4>2, <4>3
    <3> HIDE DEF first, x, y, y1, z, u0, u1
    <3>2. CASE a = first
      <4>1. y1 = y + 1
        BY <3>1, <3>2
      <4>2. (y + 1) * z = y * z + z
        BY <3>1
      <4>3. y * z \in Nat
        BY <3>1
      <4> QED
        BY <3>1, <3>2, <4>1, <4>2, <4>3 DEF z
    <3>3. CASE a # first
      <4>1. y1 = y /\ x + y * z \in Nat
        BY <3>1, <3>3
      <4> QED
        BY <3>1, <3>3, <4>1
    <3> QED
      BY <3>2, <3>3
  <2> HIDE DEF first, s0, s1, u0, u1
  <2>4. Fits(s0, u0)
    BY <1>6 DEF s0, u0
  <2>5. CASE first \in feature
    <3>1. Fits(s0 \cup {first}, u1)
          /\ WithFirst(MatrixOf(s0, u0), list, first) = MatrixOf(s0 \cup {first}, u1)
      <4>1. AddsRow(u1, u0, list, first)
        BY <2>1, <2>3 DEF AddsRow
      <4> QED
        BY <2>4, <2>5, <4>1, WithFirstStep
    <3>2. s1 = s0 \cup {first}
      BY <2>2, <2>5
    <3> QED
      BY <2>5, <3>1, <3>2 DEF s0, s1, u0, u1, first
  <2>6. CASE first \notin feature
    <3>1. s1 = s0
      BY <2>2, <2>6
    <3>2. \A a, b \in feature : u1[a][b] = u0[a][b]
      <4>1. ASSUME NEW a \in feature, NEW b \in feature PROVE u1[a][b] = u0[a][b]
        <5>1. u1[a][b] = u0[a][b] + (IF a = first THEN Count(list, b) ELSE 0)
          BY <2>3
        <5>2. a # first
          BY <2>6
        <5>3. u0[a][b] \in Nat
          BY <2>1
        <5> QED
          BY <5>1, <5>2, <5>3
      <4> QED
        BY <4>1
    <3>3. u1 = u0
      BY <2>1, <3>2
    <3> QED
      BY <2>4, <2>6, <3>1, <3>3 DEF s0, s1, u0, u1, first
  <2> QED
    BY <2>5, <2>6
<1> HIDE DEF So, Su
<1>7. \A i \in Nat : i <= n => Fits(So(i), Su(i))
  <2> DEFINE P == {i \in Nat : i <= n => Fits(So(i), Su(i))}
  <2>1. 0 \in P
    BY <1>5
  <2>2. ASSUME NEW i \in Nat, i \in P PROVE i + 1 \in P
    <3>1. SUFFICES ASSUME i + 1 <= n PROVE Fits(So(i + 1), Su(i + 1))
      OBVIOUS
    <3>2. i < n
      BY <1>1, <3>1
    <3> QED
      BY <1>6, <2>2, <3>2
  <2> HIDE DEF P
  <2>3. \A i \in Nat : i \in P
    BY <2>1, <2>2, Induction
  <2> QED
    BY <2>3 DEF P
<1>8. g = [i \in 0..n |->
             IF i = 0 THEN m
             ELSE IF list[i] \in feature THEN WithFirst(g[i - 1], list, list[i])
             ELSE g[i - 1]]
  <2>1. ASSUME NEW i \in 0..n
        PROVE  MatrixOf(So(i), Su(i)) =
                   IF i = 0 THEN m
                   ELSE IF list[i] \in feature THEN WithFirst(g[i - 1], list, list[i])
                   ELSE g[i - 1]
    <3>1. CASE i = 0
      BY <1>5, <3>1
    <3>2. CASE i # 0
      <4>1. PICK k \in Nat : i = k + 1 /\ k < n
        <5>1. i - 1 \in Nat /\ i = i - 1 + 1 /\ i - 1 < n
          BY <1>1, <3>2
        <5> QED
          BY <5>1
      <4>2. i - 1 = k /\ k \in 0..n
        BY <1>1, <4>1
      <4>3. g[i - 1] = MatrixOf(So(k), Su(k))
        BY <4>2
      <4>4. MatrixOf(So(k + 1), Su(k + 1)) =
                IF list[k + 1] \in feature
                THEN WithFirst(MatrixOf(So(k), Su(k)), list, list[k + 1])
                ELSE MatrixOf(So(k), Su(k))
        BY <1>1, <1>6, <1>7, <4>1
      <4> HIDE DEF g
      <4> QED
        BY <3>2, <4>1, <4>3, <4>4
    <3> QED
      BY <3>1, <3>2
  <2> DEFINE e(i) == IF i = 0 THEN m
                     ELSE IF list[i] \in feature THEN WithFirst(g[i - 1], list, list[i])
                     ELSE g[i - 1]
             o(i) == MatrixOf(So(i), Su(i))
  <2>2. \A i \in 0..n : o(i) = e(i)
    BY <2>1
  <2>3. g = [i \in 0..n |-> o(i)]
    OBVIOUS
  <2> HIDE DEF e, o
  <2>4. [i \in 0..n |-> o(i)] = [i \in 0..n |-> e(i)]
    BY <2>2
  <2>5. g = [i \in 0..n |-> e(i)]
    BY <2>3, <2>4
  <2> HIDE DEF g
  <2> QED
    BY <2>5 DEF e
<1> HIDE DEF g
<1>9. f = [i \in 0..n |->
             IF i = 0 THEN m
             ELSE IF list[i] \in feature THEN WithFirst(f[i - 1], list, list[i])
             ELSE f[i - 1]]
  BY <1>8
<1>10. Counted(m, list) = f[n]
  BY DEF Counted
<1> HIDE DEF f, m
<1>11. \A i \in Nat : i <= n => f[i] = g[i]
  <2> DEFINE P == {i \in Nat : i <= n => f[i] = g[i]}
  <2>1. 0 \in P
    <3>1. 0 \in 0..n
      BY <1>1
    <3> QED
      BY <1>8, <1>9, <3>1
  <2>2. ASSUME NEW i \in Nat, i \in P PROVE i + 1 \in P
    <3>1. SUFFICES ASSUME i + 1 <= n PROVE f[i + 1] = g[i + 1]
      OBVIOUS
    <3>2. PICK k : k = i + 1
      OBVIOUS
    <3>3. k \in 0..n /\ k # 0 /\ k - 1 = i /\ i <= n
      BY <1>1, <3>1, <3>2
    <3>4. f[k] = IF list[k] \in feature THEN WithFirst(f[k - 1], list, list[k]) ELSE f[k - 1]
      BY <1>9, <3>3
    <3>5. g[k] = IF list[k] \in feature THEN WithFirst(g[k - 1], list, list[k]) ELSE g[k - 1]
      BY <1>8, <3>3
    <3>6. f[i] = g[i]
      BY <2>2, <3>3
    <3> QED
      BY <3>2, <3>3, <3>4, <3>5, <3>6
  <2> HIDE DEF P
  <2>3. \A i \in Nat : i \in P
    BY <2>1, <2>2, Induction
  <2> QED
    BY <2>3 DEF P
<1>12. f[n] = MatrixOf(So(n), Su(n)) /\ Fits(So(n), Su(n))
  <2>1. n \in Nat /\ n <= n /\ n \in 0..n
    BY <1>1
  <2>2. f[n] = g[n] /\ Fits(So(n), Su(n))
    BY <1>7, <1>11, <2>1
  <2> QED
    BY <2>1, <2>2 DEF g
<1>13. So(n) = S \cup (Range(list) \cap feature)
  BY <1>1 DEF So, Range
<1>14. Su(n) = [a \in feature |-> [b \in feature |-> t[a][b] + Count(list, a) * Count(list, b)]]
  <2>1. \A a : CountUpTo(list, a, n) = Count(list, a)
    BY CountType
  <2> QED
    BY <2>1 DEF Su
<1> QED
  BY <1>10, <1>12, <1>13, <1>14 DEF m

\* What the first n rows give.
SeenUpTo(n) == {w \in feature : \E i \in 1..n : w \in Range(WordsOf(reads[i]))}
MetUpTo(n) == [a \in feature |-> [b \in feature |-> Met(a, b, n)]]

\* The rows whose words are counted.
RowsCounted == IF pc = "cooccur" THEN place - 1 ELSE Len(reads)

CoocInv ==
    pc \notin {"count", "purge", "crashed"} =>
        cooc = MatrixOf(SeenUpTo(RowsCounted), MetUpTo(RowsCounted))

LEMMA ProductOfCounts ==
    ASSUME reads \in Inputs, NEW a, NEW b, NEW i \in 1..Len(reads)
    PROVE  /\ Count(WordsOf(reads[i]), a) \in Nat
           /\ Count(WordsOf(reads[i]), a) * Count(WordsOf(reads[i]), b) \in Nat
           /\ a \notin Range(WordsOf(reads[i])) =>
                  Count(WordsOf(reads[i]), a) * Count(WordsOf(reads[i]), b) = 0
<1> DEFINE x == Count(WordsOf(reads[i]), a)
           y == Count(WordsOf(reads[i]), b)
<1>1. WordsOf(reads[i]) \in Seq(Word)
  BY ReadsType
<1>2. x \in Nat /\ y \in Nat /\ (x > 0 <=> a \in Range(WordsOf(reads[i])))
  BY <1>1, CountType
<1> HIDE DEF x, y
<1>3. x * y \in Nat
  BY <1>2
<1>4. x = 0 => x * y = 0
  BY <1>2
<1>5. a \notin Range(WordsOf(reads[i])) => x = 0
  BY <1>2
<1> QED
  BY <1>2, <1>3, <1>4, <1>5 DEF x, y

\* How often two words meet grows row by row; a word that is in no row meets none.
LEMMA MetSteps ==
    ASSUME reads \in Inputs, NEW a, NEW b, NEW n \in Nat, n <= Len(reads)
    PROVE  /\ Met(a, b, n) \in Nat
           /\ Met(a, b, 0) = 0
           /\ n < Len(reads) =>
                  Met(a, b, n + 1) =
                      Met(a, b, n) + Count(WordsOf(reads[n + 1]), a) * Count(WordsOf(reads[n + 1]), b)
<1> DEFINE p(i) == Count(WordsOf(reads[i]), a) * Count(WordsOf(reads[i]), b)
<1>0. Len(reads) \in Nat
  BY ReadsType
<1>1. \A i \in 1..Len(reads) : p(i) \in Nat
  BY ProductOfCounts
<1>2. \A k : Met(a, b, k) = SumFunction([i \in 1..k |-> p(i)])
  BY DEF Met
<1> HIDE DEF p
<1> DEFINE f == [i \in 1..n |-> p(i)]
           h == [i \in 1..(n + 1) |-> p(i)]
           z == [i \in 1..0 |-> p(i)]
<1>3. IsFiniteSet(1..n)
  BY FS_Interval
<1>4. DOMAIN f = 1..n /\ \A i \in 1..n : f[i] = p(i) /\ p(i) \in Nat
  BY <1>0, <1>1
<1>5. DOMAIN z = {}
  OBVIOUS
<1>6. Met(a, b, n) = SumFunction(f) /\ Met(a, b, n + 1) = SumFunction(h) /\ Met(a, b, 0) = SumFunction(z)
  BY <1>2
<1>7. n < Len(reads) =>
          /\ n + 1 \notin DOMAIN f /\ DOMAIN h = DOMAIN f \cup {n + 1}
          /\ h[n + 1] = p(n + 1) /\ p(n + 1) \in Nat
          /\ \A i \in DOMAIN f : h[i] = f[i]
  BY <1>0, <1>1
<1> HIDE DEF f, h, z
<1>8. SumFunction(f) \in Nat
  BY <1>3, <1>4, SumIsNat
<1>9. SumFunction(z) = 0
  BY <1>5, SumOfNone
<1>10. n < Len(reads) => SumFunction(h) = SumFunction(f) + p(n + 1)
  <2> SUFFICES ASSUME n < Len(reads) PROVE SumFunction(h) = SumFunction(f) + p(n + 1)
    OBVIOUS
  <2> DEFINE k == n + 1
  <2>1. /\ IsFiniteSet(DOMAIN f) /\ \A i \in DOMAIN f : f[i] \in Nat
        /\ k \notin DOMAIN f /\ DOMAIN h = DOMAIN f \cup {k}
        /\ h[k] = p(k) /\ h[k] \in Nat /\ \A i \in DOMAIN f : h[i] = f[i]
    BY <1>3, <1>4, <1>7
  <2> HIDE DEF k
  <2>2. SumFunction(h) = SumFunction(f) + h[k]
    BY <2>1, SumExtended
  <2> QED
    BY <2>1, <2>2 DEF k
<1> QED
  BY <1>6, <1>8, <1>9, <1>10 DEF p

LEMMA NeverMet ==
    ASSUME reads \in Inputs, NEW a, NEW b
    PROVE  \A n \in Nat : n <= Len(reads) /\ (\A i \in 1..n : a \notin Range(WordsOf(reads[i])))
                              => Met(a, b, n) = 0
<1> DEFINE P == {n \in Nat : n <= Len(reads) /\ (\A i \in 1..n : a \notin Range(WordsOf(reads[i])))
                                 => Met(a, b, n) = 0}
<1>0. Len(reads) \in Nat
  BY ReadsType
<1>1. 0 \in P
  BY <1>0, MetSteps
<1>2. ASSUME NEW n \in Nat, n \in P PROVE n + 1 \in P
  <2> SUFFICES ASSUME n + 1 <= Len(reads), \A i \in 1..(n + 1) : a \notin Range(WordsOf(reads[i]))
               PROVE  Met(a, b, n + 1) = 0
    OBVIOUS
  <2>1. n < Len(reads) /\ n <= Len(reads) /\ n + 1 \in 1..Len(reads) /\ n + 1 \in 1..(n + 1)
    BY <1>0
  <2>2. Met(a, b, n) = 0
    BY <1>2, <2>1
  <2> DEFINE x == Count(WordsOf(reads[n + 1]), a) * Count(WordsOf(reads[n + 1]), b)
  <2>3. Met(a, b, n + 1) = Met(a, b, n) + x
    BY <2>1, MetSteps
  <2>4. x = 0
    <3> DEFINE k == n + 1
    <3>1. k \in 1..Len(reads) /\ a \notin Range(WordsOf(reads[k]))
      BY <2>1
    <3> HIDE DEF k
    <3>2. Count(WordsOf(reads[k]), a) * Count(WordsOf(reads[k]), b) = 0
      BY <3>1, ProductOfCounts
    <3> QED
      BY <3>2 DEF k
  <2> HIDE DEF x
  <2> QED
    BY <2>2, <2>3, <2>4
<1> HIDE DEF P
<1>3. \A n \in Nat : n \in P
  BY <1>1, <1>2, Induction
<1> QED
  BY <1>3 DEF P

LEMMA RowsFit ==
    ASSUME reads \in Inputs, NEW n \in Nat, n <= Len(reads)
    PROVE  Fits(SeenUpTo(n), MetUpTo(n))
<1>1. \A a, b : Met(a, b, n) \in Nat
  BY MetSteps
<1>2. \A a \in feature \ SeenUpTo(n) : \A i \in 1..n : a \notin Range(WordsOf(reads[i]))
  BY DEF SeenUpTo
<1>3. \A a \in feature \ SeenUpTo(n), b \in feature : Met(a, b, n) = 0
  BY <1>2, NeverMet
<1> QED
  BY <1>1, <1>3 DEF Fits, SeenUpTo, MetUpTo

\* A row more.
LEMMA RowCounted ==
    ASSUME PlaceInv, CoocInv, CooccurRow
    PROVE  CoocInv'
<1>a. PICK n : n = place - 1
  OBVIOUS
<1>b. PICK k : k = n + 1
  OBVIOUS
<1> DEFINE list == WordsOf(reads[place])
<1>1. /\ reads \in Inputs /\ n \in Nat /\ n < Len(reads) /\ n <= Len(reads) /\ Len(reads) \in Nat
      /\ place = k /\ k \in 1..Len(reads)
      /\ pc = "cooccur" /\ pc' = "cooccur" /\ place' - 1 = k
      /\ reads' = reads /\ feature' = feature /\ cooc' = Counted(cooc, list)
  BY <1>a, <1>b, ReadsType DEF PlaceInv, CooccurRow, Early
<1>2. list \in Seq(Word) /\ list = WordsOf(reads[k])
  BY <1>1, ReadsType
<1>3. cooc = MatrixOf(SeenUpTo(n), MetUpTo(n)) /\ Fits(SeenUpTo(n), MetUpTo(n))
  BY <1>a, <1>1, RowsFit DEF CoocInv, RowsCounted
<1>4. \A a, b : Met(a, b, k) = Met(a, b, n) + Count(list, a) * Count(list, b)
  <2>1. \A a, b : Met(a, b, n + 1) =
            Met(a, b, n) + Count(WordsOf(reads[n + 1]), a) * Count(WordsOf(reads[n + 1]), b)
    BY <1>1, MetSteps
  <2> QED
    BY <1>b, <1>2, <2>1
<1>5. SeenUpTo(k) = SeenUpTo(n) \cup (Range(list) \cap feature)
  <2>1. 1..k = (1..n) \cup {k}
    BY <1>b, <1>1
  <2> HIDE DEF list
  <2> QED
    BY <1>2, <2>1 DEF SeenUpTo
<1> HIDE DEF list
<1> DEFINE S == SeenUpTo(n)
           t == MetUpTo(n)
           u == [a \in feature |-> [b \in feature |-> t[a][b] + Count(list, a) * Count(list, b)]]
<1>6. u = MetUpTo(k)
  BY <1>4 DEF MetUpTo
<1>7. Counted(MatrixOf(S, t), list) = MatrixOf(S \cup (Range(list) \cap feature), u)
  <2>1. Fits(S, t)
    BY <1>3
  <2> HIDE DEF S, t
  <2> QED
    BY <1>2, <2>1, CountedAdds
<1> HIDE DEF u
<1>8. cooc' = MatrixOf(SeenUpTo(k), MetUpTo(k))
  BY <1>1, <1>3, <1>5, <1>6, <1>7
<1>9. RowsCounted' = k
  BY <1>1 DEF RowsCounted
<1>10. MatrixOf(SeenUpTo(k), MetUpTo(k))' = MatrixOf(SeenUpTo(k), MetUpTo(k))
  <2>1. \A j : SeenUpTo(j)' = SeenUpTo(j) /\ MetUpTo(j)' = MetUpTo(j)
    BY <1>1 DEF SeenUpTo, MetUpTo, Met
  <2> QED
    BY <1>1, <2>1 DEF MatrixOf
<1> QED
  BY <1>8, <1>9, <1>10 DEF CoocInv

LEMMA CoocKept == PlaceInv /\ CoocInv /\ [Next]_vars => CoocInv'
<1> SUFFICES ASSUME PlaceInv, CoocInv, [Next]_vars PROVE CoocInv'
  OBVIOUS
<1>1. CASE CooccurRow
  BY <1>1, RowCounted
<1>2. CASE TopicWordSort
  <2>1. pc' = "cooccur" /\ place' - 1 = 0 /\ cooc' = None /\ reads' = reads /\ reads \in Inputs
    BY <1>2 DEF TopicWordSort, EndOfScan, PlaceInv, Early
  <2>2. RowsCounted' = 0
    BY <2>1 DEF RowsCounted
  <2>3. SeenUpTo(0)' = {}
    BY DEF SeenUpTo
  <2>4. MatrixOf(SeenUpTo(0), MetUpTo(0))' = None
    BY <2>3 DEF MatrixOf, None
  <2> QED
    BY <2>1, <2>2, <2>4 DEF CoocInv
<1>3. CASE CountWord \/ Purge \/ PurgeDies \/ NoFeatureWord
  BY <1>3 DEF CountWord, Purge, PurgeDies, NoFeatureWord, CoocInv
<1>4. CASE Threshold \/ Assign \/ Match \/ IndexRow \/ ListAllTopicWeiboId \/ SortTopic \/ UNCHANGED vars
  <2>1. reads' = reads /\ cooc' = cooc /\ feature' = feature
    BY <1>4 DEF Threshold, Assign, Match, IndexRow, ListAllTopicWeiboId, SortTopic, vars
  <2>2. /\ pc' \notin {"count", "purge", "crashed"} => pc \notin {"count", "purge", "crashed"}
        /\ pc' = "cooccur" => pc = "cooccur" /\ place' = place
        /\ pc = "cooccur" /\ pc' # "cooccur" => Threshold
    BY <1>4 DEF Threshold, EndOfScan, Assign, Match, IndexRow, ListAllTopicWeiboId, SortTopic, vars
  <2>3. Threshold => place - 1 = Len(reads)
    BY ReadsType DEF Threshold, EndOfScan, PlaceInv
  <2>4. RowsCounted' = RowsCounted
    BY <2>1, <2>2, <2>3 DEF RowsCounted
  <2>5. \A n : MatrixOf(SeenUpTo(n), MetUpTo(n))' = MatrixOf(SeenUpTo(n), MetUpTo(n))
    <3>1. \A n : SeenUpTo(n)' = SeenUpTo(n) /\ MetUpTo(n)' = MetUpTo(n)
      BY <2>1 DEF SeenUpTo, MetUpTo, Met
    <3> QED
      BY <2>1, <3>1 DEF MatrixOf
  <2>6. PICK n : n = RowsCounted
    OBVIOUS
  <2>7. pc' \notin {"count", "purge", "crashed"} => cooc = MatrixOf(SeenUpTo(n), MetUpTo(n))
    BY <2>2, <2>6 DEF CoocInv
  <2>8. pc' \notin {"count", "purge", "crashed"} => cooc' = MatrixOf(SeenUpTo(n), MetUpTo(n))'
    BY <2>1, <2>5, <2>7
  <2>9. RowsCounted' = n
    BY <2>4, <2>6
  <2> QED
    BY <2>8, <2>9 DEF CoocInv
<1> QED
  BY <1>1, <1>2, <1>3, <1>4 DEF Next

\* That is what the matrix is to be.
LEMMA CoocIsExact ==
    ASSUME PlaceInv, CoocInv
    PROVE  CooccurrenceExact
<1> SUFFICES ASSUME pc \notin {"count", "purge", "crashed"}
             PROVE  LET n == IF pc = "cooccur" THEN place - 1 ELSE Len(reads)
                    IN  /\ DOMAIN cooc = {w \in feature : \E i \in 1..n : w \in Range(WordsOf(reads[i]))}
                        /\ \A a \in DOMAIN cooc :
                              /\ DOMAIN cooc[a] = {b \in feature \ {a} : Met(a, b, n) > 0}
                              /\ \A b \in DOMAIN cooc[a] : cooc[a][b] = Met(a, b, n)
  BY DEF CooccurrenceExact
<1> DEFINE n == RowsCounted
           S == SeenUpTo(n)
           t == MetUpTo(n)
<1>1. cooc = MatrixOf(S, t)
  BY DEF CoocInv
<1>2. S \in SUBSET feature /\ \A a, b \in feature : t[a][b] = Met(a, b, n)
  BY DEF SeenUpTo, MetUpTo
<1>3. S = {w \in feature : \E i \in 1..n : w \in Range(WordsOf(reads[i]))}
  BY DEF SeenUpTo
<1> HIDE DEF S, t, n
<1>4. DOMAIN cooc = S /\ \A a \in S : cooc[a] = [b \in {v \in feature \ {a} : t[a][v] > 0} |-> t[a][b]]
  BY <1>1 DEF MatrixOf
<1>5. ASSUME NEW a \in S
      PROVE  /\ DOMAIN cooc[a] = {b \in feature \ {a} : Met(a, b, n) > 0}
             /\ \A b \in DOMAIN cooc[a] : cooc[a][b] = Met(a, b, n)
  <2>1. {v \in feature \ {a} : t[a][v] > 0} = {b \in feature \ {a} : Met(a, b, n) > 0}
    BY <1>2
  <2>2. cooc[a] = [b \in {b \in feature \ {a} : Met(a, b, n) > 0} |-> t[a][b]]
    BY <1>4, <2>1
  <2> QED
    BY <1>2, <2>2
<1> QED
  BY <1>3, <1>4, <1>5 DEF n, RowsCounted

-----------------------------------------------------------------------------
(* Fractions *)

Fraction == [num : Nat, den : Nat \ {0}]

LEMMA TimesOrder ==
    ASSUME NEW a \in Int, NEW b \in Int, NEW c \in Nat
    PROVE  /\ a <= b => a * c <= b * c
           /\ a < b /\ c # 0 => a * c < b * c
           /\ a * c < b * c => a < b
  OBVIOUS

\* What is less than a third one is less when another is not greater.
LEMMA LessTransitive ==
    ASSUME NEW p \in Fraction, NEW q \in Fraction, NEW r, r.num \in Int, r.den \in Nat,
           ~Less(q, p), Less(q, r)
    PROVE  Less(p, r)
<1> DEFINE pn == p.num
           pd == p.den
           qn == q.num
           qd == q.den
           rn == r.num
           rd == r.den
<1>1. /\ pn \in Nat /\ qn \in Nat /\ rn \in Int
      /\ pd \in Nat \ {0} /\ qd \in Nat \ {0} /\ rd \in Nat
  BY DEF Fraction
<1>2. ~(qn * pd < pn * qd) /\ qn * rd < rn * qd
  BY DEF Less
<1>3. pn * rd < rn * pd => Less(p, r)
  BY DEF Less
<1> HIDE DEF pn, pd, qn, qd, rn, rd
<1> DEFINE a == pn * qd
           b == qn * pd
           c == qn * rd
           d == rn * qd
           x == pn * rd
           y == rn * pd
<1>4. a \in Int /\ b \in Int /\ c \in Int /\ d \in Int /\ x \in Int /\ y \in Int
  BY <1>1
<1>5. a * rd = x * qd /\ b * rd = c * pd /\ d * pd = y * qd
  BY <1>1
<1>6. a <= b /\ c < d
  BY <1>2, <1>4
<1> HIDE DEF a, b, c, d, x, y
<1>7. a * rd <= b * rd /\ c * pd < d * pd
  BY <1>1, <1>4, <1>6, TimesOrder
<1>8. a * rd \in Int /\ b * rd \in Int /\ c * pd \in Int /\ d * pd \in Int
  BY <1>1, <1>4
<1>9. x * qd < y * qd
  BY <1>5, <1>7, <1>8
<1>10. x < y
  BY <1>1, <1>4, <1>9, TimesOrder
<1> QED
  BY <1>3, <1>10 DEF x, y

LEMMA LessAsymmetric ==
    ASSUME NEW p \in Fraction, NEW q \in Fraction, Less(p, q)
    PROVE  ~Less(q, p)
<1> DEFINE x == p.num * q.den
           y == q.num * p.den
<1>1. x \in Int /\ y \in Int
  BY DEF Fraction
<1>2. x < y /\ (Less(q, p) <=> y < x)
  BY DEF Less
<1> HIDE DEF x, y
<1> QED
  BY <1>1, <1>2

\* d[k] is the first of the greatest of the first m.
FirstGreatest(d, m, k) ==
    /\ k \in 1..m
    /\ \A j \in 1..m : ~Less(d[k], d[j]) /\ (j < k => Less(d[j], d[k]))

LEMMA FirstGreatestExists ==
    ASSUME NEW n \in Nat, NEW d \in [1..n -> Fraction]
    PROVE  \A m \in Nat : m # 0 /\ m <= n => \E k : FirstGreatest(d, m, k)
<1> DEFINE P == {m \in Nat : m # 0 /\ m <= n => \E k : FirstGreatest(d, m, k)}
<1>1. 0 \in P
  OBVIOUS
<1>2. ASSUME NEW m \in Nat, m \in P PROVE m + 1 \in P
  <2> SUFFICES ASSUME m + 1 <= n PROVE \E k : FirstGreatest(d, m + 1, k)
    OBVIOUS
  <2>0. \A j \in 1..(m + 1) : d[j] \in Fraction
    OBVIOUS
  <2>a. \A j \in 1..(m + 1) : ~Less(d[j], d[j])
    BY <2>0, LessAsymmetric
  <2>1. CASE m = 0
    <3>1. FirstGreatest(d, m + 1, 1)
      BY <2>a, <2>1 DEF FirstGreatest
    <3> QED
      BY <3>1
  <2>2. CASE m # 0
    <3>1. PICK k : FirstGreatest(d, m, k)
      BY <1>2, <2>2
    <3>2. k \in 1..m /\ \A j \in 1..m : ~Less(d[k], d[j]) /\ (j < k => Less(d[j], d[k]))
      BY <3>1 DEF FirstGreatest
    <3>3. CASE Less(d[k], d[m + 1])
      <4>1. ASSUME NEW j \in 1..m PROVE Less(d[j], d[m + 1]) /\ ~Less(d[m + 1], d[j])
        <5> DEFINE p == d[j]
                   q == d[k]
                   r == d[m + 1]
        <5>1. p \in Fraction /\ q \in Fraction /\ r \in Fraction /\ ~Less(q, p) /\ Less(q, r)
          BY <2>0, <3>2, <3>3
        <5> HIDE DEF p, q, r
        <5>2. r.num \in Int /\ r.den \in Nat
          BY <5>1 DEF Fraction
        <5>3. Less(p, r)
          BY <5>1, <5>2, LessTransitive
        <5>4. ~Less(r, p)
          BY <5>1, <5>3, LessAsymmetric
        <5> QED
          BY <5>3, <5>4 DEF p, r
      <4>2. FirstGreatest(d, m + 1, m + 1)
        BY <2>a, <4>1 DEF FirstGreatest
      <4> QED
        BY <4>2
    <3>4. CASE ~Less(d[k], d[m + 1])
      <4>1. FirstGreatest(d, m + 1, k)
        BY <3>2, <3>4 DEF FirstGreatest
      <4> QED
        BY <4>1
    <3> QED
      BY <3>3, <3>4
  <2> QED
    BY <2>1, <2>2
<1> HIDE DEF P
<1>3. \A m \in Nat : m \in P
  BY <1>1, <1>2, Induction
<1> QED
  BY <1>3 DEF P

\* A sum is in each set that has the values, zero and the sums of two.
LEMMA SumStaysIn ==
    ASSUME NEW T, 0 \in T, \A a, b \in T : a + b \in T,
           NEW f, IsFiniteSet(DOMAIN f), \A x \in DOMAIN f : f[x] \in T
    PROVE  SumFunction(f) \in T
<1> DEFINE it == SumIter(f)
           S == {k \in Nat : \A s \in SUBSET DOMAIN f : Cardinality(s) = k => it[s] \in T}
<1>0. \A s \in SUBSET DOMAIN f : IsFiniteSet(s) /\ Cardinality(s) \in Nat
  BY FS_Subset, FS_CardinalityType
<1>1. /\ SumFunction(f) = it[DOMAIN f]
      /\ \A s \in SUBSET DOMAIN f :
            it[s] = IF s = {} THEN 0 ELSE f[OneOf(s)] + it[s \ {OneOf(s)}]
  BY SumSteps
<1> HIDE DEF it
<1>2. 0 \in S
  <2>1. \A s \in SUBSET DOMAIN f : Cardinality(s) = 0 => s = {}
    BY <1>0, FS_EmptySet
  <2>2. it[{}] = 0
    BY <1>1
  <2> QED
    BY <2>1, <2>2
<1>3. ASSUME NEW k \in Nat, k \in S PROVE k + 1 \in S
  <2> SUFFICES ASSUME NEW s \in SUBSET DOMAIN f, Cardinality(s) = k + 1 PROVE it[s] \in T
    OBVIOUS
  <2>1. s # {}
    BY FS_EmptySet
  <2>2. OneOf(s) \in s /\ Cardinality(s \ {OneOf(s)}) = k
    BY <1>0, <2>1, OneLess
  <2> DEFINE r == s \ {OneOf(s)}
  <2>3. r \in SUBSET DOMAIN f /\ Cardinality(r) = k
    BY <2>2
  <2>4. it[s] = f[OneOf(s)] + it[r] /\ f[OneOf(s)] \in T
    BY <1>1, <2>1, <2>2
  <2> HIDE DEF r
  <2>5. it[r] \in T
    BY <1>3, <2>3
  <2> QED
    BY <2>4, <2>5
<1> HIDE DEF S
<1>4. \A k \in Nat : k \in S
  BY <1>2, <1>3, Induction
<1>5. Cardinality(DOMAIN f) \in S
  BY <1>0, <1>4
<1> QED
  BY <1>1, <1>5 DEF S

-----------------------------------------------------------------------------
(* The topics *)

BeforeIn(topics, w, k) == {v \in Range(topics[k]) : v < w}

MeanOf(words, w) == [num |-> SumFunction([v \in words |-> Met(w, v, Len(reads))]),
                     den |-> Cardinality(words)]

\* The word at place i of topic k is there only, and that is where it belongs.
NearestAt(topics, limit, k, i) ==
    LET w == topics[k][i]
        others == {j \in DOMAIN topics : BeforeIn(topics, w, j) # {}}
        mean(j) == MeanOf(BeforeIn(topics, w, j), w)
    IN  /\ \A j \in DOMAIN topics : \A h \in DOMAIN topics[j] : topics[j][h] = w => j = k /\ h = i
        /\ IF i = 1
           THEN \A j \in others : Less(mean(j), limit)
           ELSE /\ k \in others /\ ~Less(mean(k), limit)
                /\ \A j \in others \ {k} :
                      IF j < k THEN Less(mean(j), mean(k)) ELSE ~Less(mean(k), mean(j))

LEMMA EachIsNearest ==
    EachWordInNearestTopic <=>
        \A k \in DOMAIN clusters : \A i \in DOMAIN clusters[k] : NearestAt(clusters, throd, k, i)
<1>1. \A w, k : Before(w, k) = BeforeIn(clusters, w, k)
  BY DEF Before, BeforeIn
<1>2. \A w, k : Mean(w, k) = MeanOf(BeforeIn(clusters, w, k), w)
  BY <1>1 DEF Mean, MeanOf
<1> HIDE DEF MeanOf, BeforeIn
<1> QED
  BY <1>1, <1>2 DEF EachWordInNearestTopic, NearestAt

\* The matrix gives how often a feature word met another.
LEMMA TogetherIsMet ==
    ASSUME PlaceInv, CoocInv, pc = "assign", NEW w \in feature, NEW v \in feature, w # v
    PROVE  Together(w, v) = Met(w, v, Len(reads)) /\ Met(w, v, Len(reads)) \in Nat
<1> DEFINE n == Len(reads)
<1>1. reads \in Inputs /\ n \in Nat
  BY ReadsType DEF PlaceInv
<1>2. Met(w, v, n) \in Nat
  BY <1>1, MetSteps
<1>3. /\ DOMAIN cooc = {a \in feature : \E i \in 1..n : a \in Range(WordsOf(reads[i]))}
      /\ \A a \in DOMAIN cooc :
            /\ DOMAIN cooc[a] = {b \in feature \ {a} : Met(a, b, n) > 0}
            /\ \A b \in DOMAIN cooc[a] : cooc[a][b] = Met(a, b, n)
  BY CoocIsExact DEF CooccurrenceExact
<1>4. w \notin DOMAIN cooc => Met(w, v, n) = 0
  <2> SUFFICES ASSUME w \notin DOMAIN cooc PROVE Met(w, v, n) = 0
    OBVIOUS
  <2>1. \A i \in 1..n : w \notin Range(WordsOf(reads[i]))
    BY <1>3
  <2> QED
    BY <1>1, <2>1, NeverMet
<1> HIDE DEF n
<1>5. CASE w \in DOMAIN cooc /\ v \in DOMAIN cooc[w]
  BY <1>2, <1>3, <1>5 DEF Together, n
<1>6. CASE w \in DOMAIN cooc /\ v \notin DOMAIN cooc[w]
  <2>1. ~(Met(w, v, n) > 0)
    BY <1>3, <1>6
  <2>2. Met(w, v, n) = 0
    BY <1>2, <2>1
  <2> QED
    BY <1>6, <2>2 DEF Together, n
<1>7. CASE w \notin DOMAIN cooc
  BY <1>4, <1>7 DEF Together, n
<1> QED
  BY <1>5, <1>6, <1>7

\* So the distance to a topic is the mean over its words.
LEMMA DistanceIsMean ==
    ASSUME PlaceInv, CoocInv, pc = "assign",
           NEW words \in Seq(Word), words # <<>>, Range(words) \subseteq feature,
           \A i, j \in DOMAIN words : words[i] = words[j] => i = j,
           NEW w \in feature, w \notin Range(words)
    PROVE  /\ Distance(w, words) = MeanOf(Range(words), w)
           /\ Distance(w, words) \in Fraction
<1> DEFINE n == Len(words)
           f == [i \in DOMAIN words |-> Together(w, words[i])]
           g == [v \in Range(words) |-> Met(w, v, Len(reads))]
<1>1. n \in Nat \ {0} /\ DOMAIN words = 1..n
  OBVIOUS
<1>2. \A i \in DOMAIN words : words[i] \in Range(words) /\ words[i] \in feature /\ words[i] # w
  BY DEF Range
<1>3. \A v \in Range(words) : v \in feature /\ v # w /\ \E i \in DOMAIN words : words[i] = v
  BY DEF Range
<1>4. \A v \in Range(words) : g[v] \in Nat /\ g[v] = Together(w, v)
  BY <1>3, TogetherIsMet
<1>5. DOMAIN f = 1..n /\ DOMAIN g = Range(words) /\ IsFiniteSet(1..n) /\ Cardinality(1..n) = n
  BY <1>1, FS_Interval
<1>6. words \in Bijection(1..n, Range(words))
  <2>1. words \in [1..n -> Range(words)]
    BY <1>1, <1>2
  <2>2. IsInjective(words)
    BY DEF IsInjective
  <2> QED
    BY <1>1, <1>3, <2>1, <2>2 DEF Bijection, Injection, Surjection
<1>7. IsFiniteSet(Range(words)) /\ Cardinality(Range(words)) = n
  BY <1>5, <1>6, FS_Bijection DEF ExistsBijection
<1>8. \A i \in DOMAIN f : words[i] \in DOMAIN g /\ f[i] = g[words[i]] /\ f[i] \in Nat
  BY <1>1, <1>2, <1>4
<1>9. \A i, j \in DOMAIN f : words[i] = words[j] => i = j
  BY <1>1
<1>10. \A v \in DOMAIN g : \E i \in DOMAIN f : words[i] = v
  BY <1>3
<1>11. SumTogether(w, words) = SumFunction(f) /\ MeanOf(Range(words), w) = [num |-> SumFunction(g), den |-> n]
  BY <1>7 DEF SumTogether, MeanOf
<1>12. \A v \in DOMAIN g : g[v] \in Nat
  BY <1>4
<1> HIDE DEF f, g
<1>13. SumFunction(f) = SumFunction(g)
  <2>1. IsFiniteSet(DOMAIN f) /\ \A x \in DOMAIN f : f[x] \in Nat
    BY <1>5, <1>8
  <2>2. IsFiniteSet(DOMAIN g) /\ \A x \in DOMAIN g : g[x] \in Nat
    BY <1>5, <1>7, <1>12
  <2>3. Renames(words, f, g)
    BY <1>8, <1>9, <1>10 DEF Renames
  <2> QED
    BY <2>1, <2>2, <2>3, SumReindexedWhole
<1>14. SumFunction(f) \in Nat
  BY <1>5, <1>8, SumIsNat
<1>15. Distance(w, words) = [num |-> SumFunction(f), den |-> n]
  BY <1>11 DEF Distance
<1> QED
  BY <1>1, <1>11, <1>13, <1>14, <1>15 DEF Fraction

\* The last topics with one word w more, at place i of topic k.
Grown(topics, new, w, k, i) ==
    /\ k \in DOMAIN new /\ i \in DOMAIN new[k] /\ new[k][i] = w
    /\ DOMAIN topics \subseteq DOMAIN new
    /\ \A j \in DOMAIN topics : /\ DOMAIN topics[j] \subseteq DOMAIN new[j]
                                /\ \A h \in DOMAIN topics[j] : new[j][h] = topics[j][h]
    /\ \A j \in DOMAIN new : \A h \in DOMAIN new[j] :
           \/ j = k /\ h = i
           \/ j \in DOMAIN topics /\ h \in DOMAIN topics[j]
    /\ \A j \in DOMAIN topics : \A h \in DOMAIN topics[j] : topics[j][h] \in Nat /\ topics[j][h] < w

\* What is before a word is not changed by it, nor by a greater one.
LEMMA GrownBefore ==
    ASSUME NEW topics, NEW new, NEW w \in Nat, NEW k, NEW i, Grown(topics, new, w, k, i),
           NEW v \in Nat, v <= w, NEW j \in DOMAIN new
    PROVE  BeforeIn(new, v, j) = IF j \in DOMAIN topics THEN BeforeIn(topics, v, j) ELSE {}
<1>1. CASE j \in DOMAIN topics
  <2>1. ASSUME NEW x, x \in BeforeIn(new, v, j) PROVE x \in BeforeIn(topics, v, j)
    <3>1. PICK h \in DOMAIN new[j] : x = new[j][h] /\ x < v
      BY <2>1 DEF BeforeIn, Range
    <3>2. ~(j = k /\ h = i)
      <4>1. j = k /\ h = i => x = w
        BY <3>1 DEF Grown
      <4> QED
        BY <3>1, <4>1
    <3>3. h \in DOMAIN topics[j] /\ new[j][h] = topics[j][h]
      BY <3>2 DEF Grown
    <3> QED
      BY <1>1, <3>1, <3>3 DEF BeforeIn, Range
  <2>2. ASSUME NEW x, x \in BeforeIn(topics, v, j) PROVE x \in BeforeIn(new, v, j)
    <3>1. PICK h \in DOMAIN topics[j] : x = topics[j][h] /\ x < v
      BY <2>2 DEF BeforeIn, Range
    <3>2. h \in DOMAIN new[j] /\ new[j][h] = topics[j][h]
      BY <1>1 DEF Grown
    <3> QED
      BY <3>1, <3>2 DEF BeforeIn, Range
  <2> QED
    BY <1>1, <2>1, <2>2
<1>2. CASE j \notin DOMAIN topics
  <2>1. ASSUME NEW x, x \in BeforeIn(new, v, j) PROVE FALSE
    <3>1. PICK h \in DOMAIN new[j] : x = new[j][h] /\ x < v
      BY <2>1 DEF BeforeIn, Range
    <3>2. x = w
      BY <1>2, <3>1 DEF Grown
    <3> QED
      BY <3>1, <3>2
  <2> QED
    BY <1>2, <2>1
<1> QED
  BY <1>1, <1>2

\* So the words that are there are where they belong.
LEMMA GrownKeeps ==
    ASSUME NEW topics, NEW new, NEW w \in Nat, NEW k, NEW i, Grown(topics, new, w, k, i),
           NEW limit, NEW a \in DOMAIN topics, NEW b \in DOMAIN topics[a],
           NearestAt(topics, limit, a, b)
    PROVE  NearestAt(new, limit, a, b)
<1> DEFINE v == topics[a][b]
           others == {j \in DOMAIN topics : BeforeIn(topics, v, j) # {}}
           others1 == {j \in DOMAIN new : BeforeIn(new, v, j) # {}}
           mean(j) == MeanOf(BeforeIn(topics, v, j), v)
           mean1(j) == MeanOf(BeforeIn(new, v, j), v)
<1>1. /\ v \in Nat /\ v < w /\ v <= w /\ new[a][b] = v
      /\ a \in DOMAIN new /\ b \in DOMAIN new[a] /\ new[k][i] = w
      /\ DOMAIN topics \subseteq DOMAIN new
  BY DEF Grown
<1>2. \A j \in DOMAIN new : BeforeIn(new, v, j) = IF j \in DOMAIN topics THEN BeforeIn(topics, v, j) ELSE {}
  <2> HIDE DEF v
  <2> QED
    BY <1>1, GrownBefore
<1>3. others1 = others /\ \A j \in others : mean1(j) = mean(j)
  <2> HIDE DEF v
  <2> QED
    BY <1>1, <1>2
<1>4. /\ \A j \in DOMAIN topics : \A h \in DOMAIN topics[j] : topics[j][h] = v => j = a /\ h = b
      /\ IF b = 1
         THEN \A j \in others : Less(mean(j), limit)
         ELSE /\ a \in others /\ ~Less(mean(a), limit)
              /\ \A j \in others \ {a} :
                    IF j < a THEN Less(mean(j), mean(a)) ELSE ~Less(mean(a), mean(j))
  BY DEF NearestAt
<1>5. \A j \in DOMAIN new : \A h \in DOMAIN new[j] : new[j][h] = v => j = a /\ h = b
  <2>1. ASSUME NEW j \in DOMAIN new, NEW h \in DOMAIN new[j], new[j][h] = v
        PROVE  j = a /\ h = b
    <3>1. ~(j = k /\ h = i)
      BY <1>1, <2>1
    <3>2. j \in DOMAIN topics /\ h \in DOMAIN topics[j] /\ topics[j][h] = v
      BY <2>1, <3>1 DEF Grown
    <3> QED
      BY <1>4, <3>2
  <2> QED
    BY <2>1
<1> HIDE DEF v, others, others1, mean, mean1
<1>6. IF b = 1
      THEN \A j \in others1 : Less(mean1(j), limit)
      ELSE /\ a \in others1 /\ ~Less(mean1(a), limit)
           /\ \A j \in others1 \ {a} :
                 IF j < a THEN Less(mean1(j), mean1(a)) ELSE ~Less(mean1(a), mean1(j))
  <2>1. CASE b = 1
    BY <1>3, <1>4, <2>1
  <2>2. CASE b # 1
    <3>1. a \in others /\ ~Less(mean(a), limit)
      BY <1>4, <2>2
    <3>2. ASSUME NEW j \in others \ {a}
          PROVE  IF j < a THEN Less(mean1(j), mean1(a)) ELSE ~Less(mean1(a), mean1(j))
      BY <1>3, <1>4, <2>2, <3>1
    <3> QED
      BY <1>3, <2>2, <3>1, <3>2
  <2> QED
    BY <2>1, <2>2
<1> QED
  BY <1>1, <1>5, <1>6 DEF NearestAt, v, others1, mean1

\* What was drawn are numbers; the number of draws is one if any word has a row.
ThrodInv ==
    pc = "assign" =>
        throd.num \in Int /\ throd.den \in Int /\ (throd.den \in Nat \/ DOMAIN cooc = {})

LEMMA ThresholdType ==
    ASSUME PlaceInv, CoocInv, Threshold
    PROVE  ThrodInv'
<1>1. /\ reads \in Inputs /\ feature \in SUBSET Word /\ IsFiniteSet(feature) /\ pc = "cooccur"
      /\ RowsCounted \in Nat /\ RowsCounted <= Len(reads) /\ Len(reads) \in Nat
  BY ReadsType DEF PlaceInv, Threshold, EndOfScan, RowsCounted
<1>2. /\ DOMAIN cooc \in SUBSET feature
      /\ \A a \in DOMAIN cooc :
            /\ DOMAIN cooc[a] \in SUBSET feature
            /\ \A b \in DOMAIN cooc[a] : cooc[a][b] \in Nat
  <2>1. PICK n : n = RowsCounted
    OBVIOUS
  <2>2. /\ DOMAIN cooc \in SUBSET feature
        /\ \A a \in DOMAIN cooc :
              /\ DOMAIN cooc[a] = {b \in feature \ {a} : Met(a, b, n) > 0}
              /\ \A b \in DOMAIN cooc[a] : cooc[a][b] = Met(a, b, n)
    <3>1. n = place - 1
      BY <1>1, <2>1 DEF RowsCounted
    <3> QED
      BY <1>1, <3>1, CoocIsExact DEF CooccurrenceExact
  <2>3. \A a, b : Met(a, b, n) \in Nat
    BY <1>1, <2>1, MetSteps
  <2>4. ASSUME NEW a \in DOMAIN cooc
        PROVE  DOMAIN cooc[a] \in SUBSET feature /\ \A b \in DOMAIN cooc[a] : cooc[a][b] \in Nat
    <3>1. DOMAIN cooc[a] = {b \in feature \ {a} : Met(a, b, n) > 0}
      BY <2>2
    <3>2. \A b \in DOMAIN cooc[a] : cooc[a][b] = Met(a, b, n)
      BY <2>2
    <3> QED
      BY <2>3, <3>1, <3>2
  <2> QED
    BY <2>2, <2>4
<1>3. feature \in SUBSET Nat
  BY <1>1, SinglePassAssumption
<1>4. \A a \in DOMAIN cooc : FirstEntry(a) \in SUBSET Int
  <2>1. ASSUME NEW a \in DOMAIN cooc, DOMAIN cooc[a] # {} PROVE cooc[a][Min(DOMAIN cooc[a])] \in Int
    <3> DEFINE met == DOMAIN cooc[a]
    <3>1. met \in SUBSET Nat /\ met # {}
      BY <1>2, <1>3, <2>1
    <3> HIDE DEF met
    <3>2. Min(met) \in met
      BY <3>1, MinOf
    <3> QED
      BY <1>2, <3>2 DEF met
  <2>2. Garbage \in SUBSET Int
    BY SinglePassAssumption
  <2> QED
    BY <2>1, <2>2 DEF FirstEntry
<1>5. Cardinality(DOMAIN cooc) \in Nat /\ (Cardinality(DOMAIN cooc) = 0 <=> DOMAIN cooc = {})
  <2>1. IsFiniteSet(DOMAIN cooc)
    BY <1>1, <1>2, FS_Subset
  <2> QED
    BY <2>1, FS_CardinalityType, FS_EmptySet
<1> DEFINE drawn == UNION {FirstEntry(w) : w \in DOMAIN cooc \ {Max(DOMAIN cooc)}}
           c == Cardinality(DOMAIN cooc) - 1
           size == Min({RandSize, c})
<1>6. drawn \in SUBSET Int
  BY <1>4
<1>7. size \in Int /\ (size \in Nat \/ DOMAIN cooc = {})
  <2>1. RandSize \in Nat /\ c \in Int /\ (c \in Nat \/ DOMAIN cooc = {})
    BY <1>5, SinglePassAssumption
  <2> HIDE DEF c
  <2>2. size = IF RandSize <= c THEN RandSize ELSE c
    BY <2>1, MinOfTwo
  <2> QED
    BY <2>1, <2>2
<1>8. PICK draw \in [1..size -> drawn] :
          throd' = [num |-> SumFunction(draw) + ThrodAdd * size, den |-> size]
  BY DEF Threshold
<1> HIDE DEF drawn, size
<1>9. SumFunction(draw) \in Int
  <2>1. IsFiniteSet(1..size)
    BY <1>7, FS_Interval
  <2>2. IsFiniteSet(DOMAIN draw) /\ \A x \in DOMAIN draw : draw[x] \in Int
    BY <1>6, <2>1
  <2>3. 0 \in Int /\ \A a, b \in Int : a + b \in Int
    OBVIOUS
  <2> QED
    BY <2>2, <2>3, SumStaysIn
<1>10. ThrodAdd * size \in Int
  BY <1>7, SinglePassAssumption
<1>11. cooc' = cooc
  BY DEF Threshold
<1> QED
  BY <1>7, <1>8, <1>9, <1>10, <1>11 DEF ThrodInv

\* The distance is nothing if no word has a row.
LEMMA NoDistance ==
    ASSUME DOMAIN cooc = {}, NEW words \in Seq(Word), NEW w
    PROVE  Distance(w, words).num = 0
<1> DEFINE f == [i \in DOMAIN words |-> Together(w, words[i])]
<1>1. DOMAIN f = 1..Len(words) /\ Len(words) \in Nat
  OBVIOUS
<1>2. \A i \in DOMAIN f : f[i] \in {0}
  BY DEF Together
<1>3. Distance(w, words).num = SumFunction(f)
  BY DEF Distance, SumTogether
<1> HIDE DEF f
<1>4. IsFiniteSet(DOMAIN f)
  BY <1>1, FS_Interval
<1> DEFINE T == {0}
<1>5. 0 \in T /\ (\A a, b \in T : a + b \in T) /\ \A i \in DOMAIN f : f[i] \in T
  BY <1>2
<1> HIDE DEF T
<1>6. SumFunction(f) \in T
  BY <1>4, <1>5, SumStaysIn
<1> QED
  BY <1>3, <1>6 DEF T

\* If the nearest topic is not near enough, none is.
LEMMA NoneNearer ==
    ASSUME ThrodInv, pc = "assign", NEW p \in Fraction, NEW q \in Fraction,
           DOMAIN cooc = {} => p.num = 0 /\ q.num = 0,
           ~Less(q, p), Less(q, throd)
    PROVE  Less(p, throd)
<1>1. throd.num \in Int /\ throd.den \in Int /\ (throd.den \in Nat \/ DOMAIN cooc = {})
  BY DEF ThrodInv
<1>2. CASE throd.den \in Nat
  BY <1>1, <1>2, LessTransitive
<1>3. CASE p.num = 0 /\ q.num = 0
  <2> DEFINE t == throd.num
             pd == p.den
             qd == q.den
  <2>1. pd \in Nat \ {0} /\ qd \in Nat \ {0} /\ t \in Int
    BY <1>1 DEF Fraction
  <2>2. 0 * throd.den < t * qd /\ 0 * throd.den = 0
    BY <1>1, <1>3 DEF Less
  <2>3. Less(p, throd) <=> 0 < t * pd
    BY <1>1, <1>3 DEF Less
  <2> HIDE DEF t, pd, qd
  <2>4. 0 * qd < t * qd
    BY <2>1, <2>2
  <2>5. 0 < t
    BY <2>1, <2>4, TimesOrder
  <2>6. 0 * pd < t * pd
    BY <2>1, <2>5, TimesOrder
  <2> QED
    BY <2>1, <2>3, <2>6
<1> QED
  BY <1>1, <1>2, <1>3

LEMMA EachIsNearestNext ==
    ASSUME reads' = reads
    PROVE  EachWordInNearestTopic' <=>
               \A k \in DOMAIN clusters' : \A i \in DOMAIN clusters'[k] :
                   NearestAt(clusters', throd', k, i)
<1>1. \A w, k : Before(w, k)' = BeforeIn(clusters', w, k)
  BY DEF Before, BeforeIn
<1>2. \A w, k : Mean(w, k)' = MeanOf(BeforeIn(clusters', w, k), w)
  <2>1. Len(reads)' = Len(reads) /\ \A a, b, n : Met(a, b, n)' = Met(a, b, n)
    BY RowsStay
  <2> QED
    BY <1>1, <2>1 DEF Mean, MeanOf
<1> HIDE DEF MeanOf, BeforeIn
<1> QED
  BY <1>1, <1>2 DEF EachWordInNearestTopic, NearestAt

\* What there is in the topics while words join them.
LEMMA TopicsType ==
    ASSUME PlaceInv, TopicsInv, pc = "assign"
    PROVE  /\ Len(clusters) \in Nat \ {0} /\ DOMAIN clusters = 1..Len(clusters)
           /\ \A k \in DOMAIN clusters :
                 /\ clusters[k] \in Seq(Word) /\ clusters[k] # <<>> /\ Len(clusters[k]) \in Nat \ {0}
                 /\ DOMAIN clusters[k] = 1..Len(clusters[k])
                 /\ Range(clusters[k]) \subseteq Assigned
                 /\ \A i \in DOMAIN clusters[k] : clusters[k][i] \in Assigned
           /\ Assigned \subseteq feature /\ feature \in SUBSET Nat /\ IsFiniteSet(feature)
<1>1. clusters \in Seq(Seq(Word) \ {<<>>}) /\ clusters # <<>>
  BY DEF TopicsInv
<1>2. Len(clusters) \in Nat \ {0} /\ DOMAIN clusters = 1..Len(clusters)
      /\ \A k \in DOMAIN clusters : clusters[k] \in Seq(Word) \ {<<>>}
  BY <1>1
<1>3. ASSUME NEW k \in DOMAIN clusters
      PROVE  /\ clusters[k] \in Seq(Word) /\ clusters[k] # <<>> /\ Len(clusters[k]) \in Nat \ {0}
             /\ DOMAIN clusters[k] = 1..Len(clusters[k])
             /\ Range(clusters[k]) \subseteq Assigned
             /\ \A i \in DOMAIN clusters[k] : clusters[k][i] \in Assigned
  <2>1. Range(clusters[k]) \subseteq Assigned
    BY DEF Assigned
  <2>2. \A i \in DOMAIN clusters[k] : clusters[k][i] \in Range(clusters[k])
    BY DEF Range
  <2> QED
    BY <1>2, <2>1, <2>2
<1>4. Assigned \subseteq feature /\ feature \in SUBSET Nat /\ IsFiniteSet(feature)
  BY SinglePassAssumption DEF PlaceInv, TopicsInv
<1> QED
  BY <1>2, <1>3, <1>4

\* Where the next word is nearest, by the words before it.
LEMMA NearestExists ==
    ASSUME PlaceInv, CoocInv, TopicsInv, EachWordInNearestTopic, pc = "assign", Unassigned # {}
    PROVE  LET w == Min(Unassigned)
               d == [j \in DOMAIN clusters |-> Distance(w, clusters[j])]
           IN  /\ w \in Unassigned /\ w \in Nat /\ w \in feature /\ w \in Word
               /\ \A v \in Assigned : v \in Nat /\ v < w
               /\ \A v \in Unassigned : w <= v
               /\ \A j \in DOMAIN clusters :
                     /\ d[j] \in Fraction /\ d[j] = MeanOf(BeforeIn(clusters, w, j), w)
                     /\ BeforeIn(clusters, w, j) # {}
               /\ FirstGreatest(d, Len(clusters), Nearest(w))
<1> DEFINE w == Min(Unassigned)
           d == [j \in DOMAIN clusters |-> Distance(w, clusters[j])]
<1>1. w \in Unassigned /\ \A v \in Unassigned : w <= v
  <2>1. Unassigned \in SUBSET Nat
    BY TopicsType DEF Unassigned
  <2> QED
    BY <2>1, MinOf
<1>2. w \in feature /\ w \notin Assigned /\ w \in Nat /\ w \in Word
  BY <1>1, TopicsType DEF Unassigned, PlaceInv
<1>3. \A v \in Assigned : v \in Nat /\ v < w
  BY <1>1, TopicsType DEF TopicsInv
<1> HIDE DEF w
<1>4. ASSUME NEW j \in DOMAIN clusters
      PROVE  /\ Distance(w, clusters[j]) \in Fraction
             /\ Distance(w, clusters[j]) = MeanOf(BeforeIn(clusters, w, j), w)
             /\ BeforeIn(clusters, w, j) # {}
  <2> DEFINE words == clusters[j]
  <2>1. /\ words \in Seq(Word) /\ words # <<>> /\ Range(words) \subseteq Assigned
        /\ Assigned \subseteq feature /\ 1 \in DOMAIN words
    BY TopicsType
  <2>2. \A h, i \in DOMAIN words : words[h] = words[i] => h = i
    BY DEF EachWordInNearestTopic
  <2>3. BeforeIn(clusters, w, j) = Range(words)
    BY <1>3, <2>1 DEF BeforeIn
  <2>4. Range(words) # {}
    BY <2>1 DEF Range
  <2> HIDE DEF words
  <2>5. w \notin Range(words) /\ Range(words) \subseteq feature
    BY <1>2, <2>1
  <2>6. Distance(w, words) = MeanOf(Range(words), w) /\ Distance(w, words) \in Fraction
    BY <1>2, <2>1, <2>2, <2>5, DistanceIsMean
  <2> QED
    BY <2>3, <2>4, <2>6 DEF words
<1>5. Len(clusters) \in Nat \ {0} /\ DOMAIN clusters = 1..Len(clusters)
  BY TopicsType
<1>6. d \in [1..Len(clusters) -> Fraction]
  BY <1>4, <1>5
<1>7. \A k : FirstGreatest(d, Len(clusters), k) <=>
          /\ k \in DOMAIN clusters
          /\ \A j \in DOMAIN clusters :
                /\ ~Less(Distance(w, clusters[k]), Distance(w, clusters[j]))
                /\ j < k => Less(Distance(w, clusters[j]), Distance(w, clusters[k]))
  BY <1>5 DEF FirstGreatest
<1>8. \E k : FirstGreatest(d, Len(clusters), k)
  <2> DEFINE n == Len(clusters)
  <2>1. n \in Nat /\ n # 0 /\ n <= n /\ d \in [1..n -> Fraction]
    BY <1>5, <1>6
  <2> HIDE DEF d, n
  <2>2. \A m \in Nat : m # 0 /\ m <= n => \E k : FirstGreatest(d, m, k)
    BY <2>1, FirstGreatestExists
  <2> QED
    BY <2>1, <2>2 DEF n
<1>9. FirstGreatest(d, Len(clusters), Nearest(w))
  <2> HIDE DEF d
  <2>1. PICK k : FirstGreatest(d, Len(clusters), k)
    BY <1>8
  <2>2. \E k1 \in DOMAIN clusters :
            \A j \in DOMAIN clusters :
                /\ ~Less(Distance(w, clusters[k1]), Distance(w, clusters[j]))
                /\ j < k1 => Less(Distance(w, clusters[j]), Distance(w, clusters[k1]))
    BY <1>7, <2>1
  <2>3. /\ Nearest(w) \in DOMAIN clusters
        /\ \A j \in DOMAIN clusters :
              /\ ~Less(Distance(w, clusters[Nearest(w)]), Distance(w, clusters[j]))
              /\ j < Nearest(w) => Less(Distance(w, clusters[j]), Distance(w, clusters[Nearest(w)]))
    BY <2>2 DEF Nearest
  <2> QED
    BY <1>7, <2>3
<1> QED
  BY <1>1, <1>2, <1>3, <1>4, <1>9 DEF w

\* A word begins a topic, or joins one at its end.
LEMMA BeginsTopic ==
    ASSUME NEW topics \in Seq(Seq(Word) \ {<<>>}), NEW w \in Nat,
           \A j \in DOMAIN topics : \A h \in DOMAIN topics[j] : topics[j][h] \in Nat /\ topics[j][h] < w
    PROVE  Grown(topics, Append(topics, <<w>>), w, Len(topics) + 1, 1)
<1> DEFINE new == Append(topics, <<w>>)
           n == Len(topics)
<1>1. n \in Nat /\ DOMAIN topics = 1..n /\ DOMAIN new = 1..(n + 1)
  OBVIOUS
<1>2. \A j \in 1..n : new[j] = topics[j]
  OBVIOUS
<1>3. new[n + 1] = <<w>> /\ DOMAIN <<w>> = {1}
  OBVIOUS
<1> HIDE DEF new, n
<1>4. \A j \in DOMAIN new : \A h \in DOMAIN new[j] :
          (j = n + 1 /\ h = 1) \/ (j \in DOMAIN topics /\ h \in DOMAIN topics[j])
  <2>1. ASSUME NEW j \in DOMAIN new, NEW h \in DOMAIN new[j]
        PROVE  (j = n + 1 /\ h = 1) \/ (j \in DOMAIN topics /\ h \in DOMAIN topics[j])
    <3>1. CASE j = n + 1
      BY <1>3, <2>1, <3>1
    <3>2. CASE j # n + 1
      <4>1. j \in 1..n
        BY <1>1, <2>1, <3>2
      <4> QED
        BY <1>1, <1>2, <2>1, <4>1
    <3> QED
      BY <3>1, <3>2
  <2> QED
    BY <2>1
<1>5. n + 1 \in DOMAIN new /\ 1 \in DOMAIN new[n + 1] /\ new[n + 1][1] = w
  BY <1>1, <1>3
<1>6. DOMAIN topics \subseteq DOMAIN new
  BY <1>1
<1> QED
  BY <1>1, <1>2, <1>4, <1>5, <1>6 DEF Grown, new, n

LEMMA JoinsTopic ==
    ASSUME NEW topics \in Seq(Seq(Word) \ {<<>>}), NEW w \in Nat, NEW k \in DOMAIN topics,
           \A j \in DOMAIN topics : \A h \in DOMAIN topics[j] : topics[j][h] \in Nat /\ topics[j][h] < w
    PROVE  Grown(topics, [topics EXCEPT ![k] = Append(@, w)], w, k, Len(topics[k]) + 1)
<1> DEFINE new == [topics EXCEPT ![k] = Append(@, w)]
           old == topics[k]
           n == Len(old)
<1>1. DOMAIN new = DOMAIN topics /\ \A j \in DOMAIN topics \ {k} : new[j] = topics[j]
  OBVIOUS
<1>2. new[k] = Append(old, w)
  OBVIOUS
<1>3. old \in Seq(Word)
  OBVIOUS
<1> HIDE DEF new, old
<1>4. n \in Nat /\ DOMAIN old = 1..n /\ DOMAIN new[k] = 1..(n + 1)
      /\ new[k][n + 1] = w /\ \A h \in 1..n : new[k][h] = old[h]
  BY <1>2, <1>3
<1> HIDE DEF n
<1>5. \A j \in DOMAIN topics : /\ DOMAIN topics[j] \subseteq DOMAIN new[j]
                               /\ \A h \in DOMAIN topics[j] : new[j][h] = topics[j][h]
  <2>1. DOMAIN old \subseteq DOMAIN new[k] /\ \A h \in DOMAIN old : new[k][h] = old[h]
    BY <1>4
  <2> QED
    BY <1>1, <2>1 DEF old
<1>6. \A j \in DOMAIN new : \A h \in DOMAIN new[j] :
          (j = k /\ h = n + 1) \/ (j \in DOMAIN topics /\ h \in DOMAIN topics[j])
  <2>1. ASSUME NEW h \in DOMAIN new[k] PROVE h = n + 1 \/ h \in DOMAIN old
    BY <1>4
  <2> QED
    BY <1>1, <2>1 DEF old
<1>7. k \in DOMAIN new /\ n + 1 \in DOMAIN new[k] /\ new[k][n + 1] = w
  BY <1>1, <1>4
<1> QED
  BY <1>1, <1>5, <1>6, <1>7 DEF Grown, new, n, old

\* What the topics have when one has grown.
WordsIn(topics) == UNION {Range(topics[j]) : j \in DOMAIN topics}

LEMMA GrownRange ==
    ASSUME NEW topics, NEW new, NEW w \in Nat, NEW k, NEW i, Grown(topics, new, w, k, i)
    PROVE  WordsIn(new) = WordsIn(topics) \cup {w}
<1>0. \A t, x : x \in WordsIn(t) <=> \E j \in DOMAIN t : \E h \in DOMAIN t[j] : x = t[j][h]
  BY DEF WordsIn, Range
<1>1. ASSUME NEW x \in WordsIn(new)
      PROVE  x \in WordsIn(topics) \/ x = w
  <2>1. PICK j \in DOMAIN new : \E h \in DOMAIN new[j] : x = new[j][h]
    BY <1>0
  <2>2. PICK h \in DOMAIN new[j] : x = new[j][h]
    BY <2>1
  <2>3. CASE j = k /\ h = i
    <3>1. new[k][i] = w
      BY DEF Grown
    <3> QED
      BY <2>2, <2>3, <3>1
  <2>4. CASE j \in DOMAIN topics /\ h \in DOMAIN topics[j]
    <3>1. x = topics[j][h]
      BY <2>2, <2>4 DEF Grown
    <3> QED
      BY <1>0, <2>4, <3>1
  <2> QED
    BY <2>2, <2>3, <2>4 DEF Grown
<1>2. ASSUME NEW x \in WordsIn(topics)
      PROVE  x \in WordsIn(new)
  <2>1. PICK j \in DOMAIN topics : \E h \in DOMAIN topics[j] : x = topics[j][h]
    BY <1>0
  <2>2. PICK h \in DOMAIN topics[j] : x = topics[j][h]
    BY <2>1
  <2>3. j \in DOMAIN new /\ h \in DOMAIN new[j] /\ x = new[j][h]
    BY <2>2 DEF Grown
  <2> QED
    BY <1>0, <2>3
<1>3. w \in WordsIn(new)
  <2>1. k \in DOMAIN new /\ i \in DOMAIN new[k] /\ new[k][i] = w
    BY DEF Grown
  <2> QED
    BY <1>0, <2>1
<1> QED
  BY <1>1, <1>2, <1>3

\* One word more is in a topic.
LEMMA AssignKeeps ==
    ASSUME PlaceInv, CoocInv, TopicsInv, ThrodInv, EachWordInNearestTopic, Assign
    PROVE  TopicsInv' /\ EachWordInNearestTopic'
<1> DEFINE w == Min(Unassigned)
           d == [j \in DOMAIN clusters |-> Distance(w, clusters[j])]
           n == Len(clusters)
           k == Nearest(w)
           new == clusters'
           mean(j) == MeanOf(BeforeIn(clusters, w, j), w)
<1>0. /\ pc = "assign" /\ Unassigned # {} /\ reads' = reads /\ feature' = feature
      /\ throd' = throd /\ pc' = pc
      /\ new = IF Less(Distance(w, clusters[k]), throd) THEN Append(clusters, <<w>>)
               ELSE [clusters EXCEPT ![k] = Append(@, w)]
  BY DEF Assign
<1>1. /\ w \in Unassigned /\ w \in Nat /\ w \in feature /\ w \in Word
      /\ \A v \in Assigned : v \in Nat /\ v < w
      /\ \A v \in Unassigned : w <= v
      /\ \A j \in DOMAIN clusters :
            d[j] \in Fraction /\ d[j] = mean(j) /\ BeforeIn(clusters, w, j) # {}
      /\ FirstGreatest(d, n, k)
  BY <1>0, NearestExists
<1>2. /\ n \in Nat \ {0} /\ DOMAIN clusters = 1..n
      /\ \A j \in DOMAIN clusters :
            /\ clusters[j] \in Seq(Word) /\ Len(clusters[j]) \in Nat \ {0}
            /\ \A h \in DOMAIN clusters[j] : clusters[j][h] \in Assigned
      /\ clusters \in Seq(Seq(Word) \ {<<>>})
  BY <1>0, TopicsType DEF TopicsInv
<1>3. \A j \in DOMAIN clusters : d[j] = Distance(w, clusters[j])
  OBVIOUS
<1>4. DOMAIN cooc = {} => \A j \in DOMAIN clusters : d[j].num = 0
  BY <1>2, NoDistance
<1> HIDE DEF w, d, n, k, new
<1>5. k \in DOMAIN clusters /\ \A j \in DOMAIN clusters : ~Less(d[k], d[j]) /\ (j < k => Less(d[j], d[k]))
  BY <1>1, <1>2 DEF FirstGreatest
<1>6. \A j \in DOMAIN clusters : \A h \in DOMAIN clusters[j] :
          clusters[j][h] \in Nat /\ clusters[j][h] < w
  BY <1>1, <1>2
<1>7. \A a \in DOMAIN clusters : \A b \in DOMAIN clusters[a] : NearestAt(clusters, throd, a, b)
  BY EachIsNearest
<1>8. ASSUME NEW x, NEW i, Grown(clusters, new, w, x, i)
      PROVE  /\ \A a \in DOMAIN clusters : \A b \in DOMAIN clusters[a] : NearestAt(new, throd, a, b)
             /\ \A j \in DOMAIN new : BeforeIn(new, w, j) = IF j \in DOMAIN clusters
                                                           THEN BeforeIn(clusters, w, j) ELSE {}
             /\ \A j \in DOMAIN new : \A h \in DOMAIN new[j] : new[j][h] = w => j = x /\ h = i
             /\ x \in DOMAIN new /\ i \in DOMAIN new[x] /\ new[x][i] = w
             /\ NearestAt(new, throd, x, i) => EachWordInNearestTopic'
             /\ new \in Seq(Seq(Word) \ {<<>>}) => TopicsInv'
  <2>1. \A a \in DOMAIN clusters : \A b \in DOMAIN clusters[a] : NearestAt(new, throd, a, b)
    BY <1>1, <1>7, <1>8, GrownKeeps
  <2>2. \A j \in DOMAIN new : BeforeIn(new, w, j) = IF j \in DOMAIN clusters
                                                   THEN BeforeIn(clusters, w, j) ELSE {}
    <3>1. w <= w
      BY <1>1
    <3> QED
      BY <1>1, <1>8, <3>1, GrownBefore
  <2>3. \A j \in DOMAIN new : \A h \in DOMAIN new[j] :
            (j = x /\ h = i) \/ (j \in DOMAIN clusters /\ h \in DOMAIN clusters[j])
    BY <1>8 DEF Grown
  <2>4. \A j \in DOMAIN new : \A h \in DOMAIN new[j] : new[j][h] = w => j = x /\ h = i
    <3>1. ASSUME NEW j \in DOMAIN clusters, NEW h \in DOMAIN clusters[j] PROVE new[j][h] # w
      <4>1. new[j][h] = clusters[j][h]
        BY <1>8 DEF Grown
      <4> QED
        BY <1>1, <1>6, <4>1
    <3> QED
      BY <2>3, <3>1
  <2>5. x \in DOMAIN new /\ i \in DOMAIN new[x] /\ new[x][i] = w
    BY <1>8 DEF Grown
  <2>6. NearestAt(new, throd, x, i) => EachWordInNearestTopic'
    <3>1. NearestAt(new, throd, x, i) =>
              \A a \in DOMAIN new : \A b \in DOMAIN new[a] : NearestAt(new, throd, a, b)
      BY <2>1, <2>3
    <3> QED
      BY <1>0, <3>1, EachIsNearestNext DEF new
  <2>7. new \in Seq(Seq(Word) \ {<<>>}) => TopicsInv'
    <3>1. Assigned' = Assigned \cup {w}
      <4>1. WordsIn(new) = WordsIn(clusters) \cup {w}
        BY <1>1, <1>8, GrownRange
      <4>2. Assigned = WordsIn(clusters) /\ Assigned' = WordsIn(new)
        BY DEF Assigned, WordsIn, new
      <4> QED
        BY <4>1, <4>2
    <3>2. Unassigned' = Unassigned \ {w}
      BY <1>0, <3>1 DEF Unassigned
    <3>3. Assigned \subseteq feature /\ \A v \in Assigned, u \in Unassigned : v < u
      BY DEF TopicsInv
    <3>4. \A u \in Unassigned : u \in Nat
      BY <1>0, TopicsType DEF Unassigned
    <3>5. \A v \in Assigned', u \in Unassigned' : v < u
      BY <1>1, <3>1, <3>2, <3>3, <3>4
    <3>6. Assigned' \subseteq feature'
      BY <1>0, <1>1, <3>1, <3>3
    <3>7. new # <<>>
      BY <2>5
    <3> QED
      BY <3>5, <3>6, <3>7 DEF TopicsInv, new
  <2> QED
    BY <2>1, <2>2, <2>4, <2>5, <2>6, <2>7
<1>9. CASE Less(d[k], throd)
  <2>1. new = Append(clusters, <<w>>)
    BY <1>0, <1>3, <1>5, <1>9
  <2>2. Grown(clusters, new, w, n + 1, 1)
    BY <1>1, <1>2, <1>6, <2>1, BeginsTopic DEF n
  <2>3. new \in Seq(Seq(Word) \ {<<>>})
    <3> DEFINE T == Seq(Word) \ {<<>>}
    <3>1. <<w>> \in T /\ clusters \in Seq(T)
      BY <1>1, <1>2
    <3> HIDE DEF T
    <3>2. new \in Seq(T)
      BY <2>1, <3>1
    <3> QED
      BY <3>2 DEF T
  <2>4. \A j \in DOMAIN clusters : Less(d[j], throd)
    <3>1. ASSUME NEW j \in DOMAIN clusters PROVE Less(d[j], throd)
      <4> DEFINE p == d[j]
                 q == d[k]
      <4>1. p \in Fraction /\ q \in Fraction /\ ~Less(q, p) /\ Less(q, throd)
            /\ (DOMAIN cooc = {} => p.num = 0 /\ q.num = 0)
        BY <1>1, <1>4, <1>5, <1>9
      <4> HIDE DEF p, q
      <4>2. Less(p, throd)
        BY <1>0, <4>1, NoneNearer
      <4> QED
        BY <4>2 DEF p
    <3> QED
      BY <3>1
  <2> DEFINE others == {j \in DOMAIN new : BeforeIn(new, w, j) # {}}
             m(j) == MeanOf(BeforeIn(new, w, j), w)
  <2>5. \A j \in others : j \in DOMAIN clusters /\ m(j) = d[j]
    <3>1. \A j \in others : j \in DOMAIN clusters /\ BeforeIn(new, w, j) = BeforeIn(clusters, w, j)
      BY <1>8, <2>2
    <3> QED
      BY <1>1, <3>1
  <2> HIDE DEF others, m
  <2>6. \A j \in others : Less(m(j), throd)
    BY <2>4, <2>5
  <2>7. new[n + 1][1] = w /\ \A j \in DOMAIN new : \A h \in DOMAIN new[j] : new[j][h] = w => j = n + 1 /\ h = 1
    BY <1>8, <2>2
  <2>8. NearestAt(new, throd, n + 1, 1)
    BY <2>6, <2>7 DEF NearestAt, others, m
  <2> QED
    BY <1>8, <2>2, <2>3, <2>8
<1>10. CASE ~Less(d[k], throd)
  <2> DEFINE i == Len(clusters[k]) + 1
  <2>1. new = [clusters EXCEPT ![k] = Append(@, w)]
    BY <1>0, <1>3, <1>5, <1>10
  <2>2. Grown(clusters, new, w, k, i)
    BY <1>1, <1>2, <1>5, <1>6, <2>1, JoinsTopic
  <2>3. new \in Seq(Seq(Word) \ {<<>>})
    <3> DEFINE T == Seq(Word) \ {<<>>}
    <3>1. Append(clusters[k], w) \in T /\ clusters \in Seq(T)
      <4> DEFINE old == clusters[k]
      <4>1. old \in Seq(Word)
        BY <1>2, <1>5
      <4> HIDE DEF old
      <4>2. Append(old, w) \in Seq(Word) /\ Append(old, w) # <<>>
        BY <1>1, <4>1
      <4> QED
        BY <1>2, <4>2 DEF old
    <3> HIDE DEF T
    <3>2. new \in Seq(T)
      BY <1>5, <2>1, <3>1
    <3> QED
      BY <3>2 DEF T
  <2>4. i # 1
    BY <1>2, <1>5
  <2> HIDE DEF i
  <2> DEFINE others == {j \in DOMAIN new : BeforeIn(new, w, j) # {}}
             m(j) == MeanOf(BeforeIn(new, w, j), w)
  <2>5. \A j \in others : j \in DOMAIN clusters /\ m(j) = d[j]
    <3>1. \A j \in others : j \in DOMAIN clusters /\ BeforeIn(new, w, j) = BeforeIn(clusters, w, j)
      BY <1>8, <2>2
    <3> QED
      BY <1>1, <3>1
  <2>6. k \in others
    <3>1. BeforeIn(new, w, k) = BeforeIn(clusters, w, k) /\ k \in DOMAIN new
      BY <1>5, <1>8, <2>2
    <3> QED
      BY <1>1, <1>5, <3>1
  <2> HIDE DEF others, m
  <2>7. ~Less(m(k), throd)
    BY <1>10, <2>5, <2>6
  <2>8. \A j \in others \ {k} : IF j < k THEN Less(m(j), m(k)) ELSE ~Less(m(k), m(j))
    <3>1. ASSUME NEW j \in others \ {k}
          PROVE  IF j < k THEN Less(m(j), m(k)) ELSE ~Less(m(k), m(j))
      <4>1. j \in DOMAIN clusters /\ m(j) = d[j] /\ m(k) = d[k]
        BY <2>5, <2>6
      <4> QED
        BY <1>5, <4>1
    <3> QED
      BY <3>1
  <2>9. new[k][i] = w /\ \A j \in DOMAIN new : \A h \in DOMAIN new[j] : new[j][h] = w => j = k /\ h = i
    BY <1>8, <2>2
  <2>10. NearestAt(new, throd, k, i)
    BY <2>4, <2>6, <2>7, <2>8, <2>9 DEF NearestAt, others, m
  <2> QED
    BY <1>8, <2>2, <2>3, <2>10
<1> QED
  BY <1>9, <1>10

\* The first topic has the least word.
LEMMA FirstTopic ==
    ASSUME PlaceInv, Threshold
    PROVE  TopicsInv' /\ EachWordInNearestTopic'
<1> DEFINE m == Min(feature)
<1>1. reads' = reads /\ feature' = feature /\ clusters' = <<<<m>>>> /\ feature # {}
      /\ feature \in SUBSET Word /\ feature \in SUBSET Nat
  BY SinglePassAssumption DEF PlaceInv, Threshold
<1>2. m \in feature /\ \A v \in feature : m <= v
  BY <1>1, MinOf
<1>3. m \in Nat /\ m \in Word
  BY <1>1, <1>2
<1> HIDE DEF m
<1> DEFINE new == <<<<m>>>>
<1>4. DOMAIN new = {1} /\ new[1] = <<m>> /\ DOMAIN new[1] = {1} /\ new[1][1] = m /\ new # <<>>
  OBVIOUS
<1>5. new \in Seq(Seq(Word) \ {<<>>})
  <2> DEFINE T == Seq(Word) \ {<<>>}
  <2>1. <<m>> \in T
    BY <1>3
  <2> HIDE DEF T
  <2>2. new \in Seq(T)
    BY <2>1
  <2> QED
    BY <2>2 DEF T
<1> HIDE DEF new
<1>6. Assigned' = {m}
  <2>1. Range(new[1]) = {m}
    BY <1>4 DEF Range
  <2>2. UNION {Range(new[k]) : k \in DOMAIN new} = {m}
    BY <1>4, <2>1
  <2> QED
    BY <1>1, <2>2 DEF Assigned, new
<1>7. TopicsInv'
  <2>1. Unassigned' = feature \ {m}
    BY <1>1, <1>6 DEF Unassigned
  <2>2. \A v \in Assigned', u \in Unassigned' : v < u
    BY <1>1, <1>2, <1>3, <1>6, <2>1
  <2>3. Assigned' \subseteq feature'
    BY <1>1, <1>2, <1>6
  <2> QED
    BY <1>1, <1>4, <1>5, <2>2, <2>3 DEF TopicsInv, new
<1>8. NearestAt(new, throd', 1, 1)
  <2>1. \A j \in DOMAIN new : BeforeIn(new, m, j) = {}
    <3>1. Range(new[1]) = {m} /\ ~(m < m)
      BY <1>3, <1>4 DEF Range
    <3> QED
      BY <1>4, <3>1 DEF BeforeIn
  <2> QED
    BY <1>4, <2>1 DEF NearestAt
<1> QED
  BY <1>1, <1>4, <1>7, <1>8, EachIsNearestNext DEF new

LEMMA TopicsInit == Init => TopicsInv /\ ThrodInv /\ EachWordInNearestTopic
<1> SUFFICES ASSUME Init PROVE TopicsInv /\ ThrodInv /\ EachWordInNearestTopic
  OBVIOUS
<1>1. clusters = <<>> /\ pc = "count" /\ DOMAIN clusters = {}
  BY DEF Init
<1>2. <<>> \in Seq(Seq(Word) \ {<<>>})
  OBVIOUS
<1>3. Assigned = {}
  BY <1>1 DEF Assigned
<1> QED
  BY <1>1, <1>2, <1>3 DEF TopicsInv, ThrodInv, EachWordInNearestTopic

LEMMA TopicsKept ==
    PlaceInv /\ CoocInv /\ TopicsInv /\ ThrodInv /\ EachWordInNearestTopic /\ [Next]_vars
        => TopicsInv' /\ ThrodInv' /\ EachWordInNearestTopic'
<1> SUFFICES ASSUME PlaceInv, CoocInv, TopicsInv, ThrodInv, EachWordInNearestTopic, [Next]_vars
             PROVE  TopicsInv' /\ ThrodInv' /\ EachWordInNearestTopic'
  OBVIOUS
<1>1. CASE Threshold
  BY <1>1, FirstTopic, ThresholdType
<1>2. CASE Assign
  <2>1. ThrodInv'
    BY <1>2 DEF Assign, ThrodInv
  <2> QED
    BY <1>2, <2>1, AssignKeeps
<1>3. CASE TopicWordSort
  <2>1. clusters' = <<>> /\ pc' = "cooccur"
    BY <1>3 DEF TopicWordSort, EndOfScan, PlaceInv, Early
  <2>2. DOMAIN clusters' = {}
    BY <2>1
  <2>3. Assigned' = {}
    BY <2>2 DEF Assigned
  <2> QED
    BY <2>1, <2>2, <2>3 DEF TopicsInv, ThrodInv, EachWordInNearestTopic
<1>4. CASE CountWord \/ Purge \/ PurgeDies \/ CooccurRow \/ NoFeatureWord \/ Match \/ IndexRow
           \/ ListAllTopicWeiboId \/ SortTopic \/ UNCHANGED vars
  <2>1. /\ reads' = reads /\ clusters' = clusters /\ feature' = feature /\ throd' = throd
        /\ pc' = "assign" => pc = "assign" /\ cooc' = cooc
    <3>1. CASE CountWord \/ Purge \/ PurgeDies \/ CooccurRow \/ NoFeatureWord
      BY <3>1 DEF CountWord, Purge, PurgeDies, CooccurRow, NoFeatureWord
    <3>2. CASE Match \/ IndexRow \/ ListAllTopicWeiboId \/ SortTopic \/ UNCHANGED vars
      BY <3>2 DEF Match, IndexRow, ListAllTopicWeiboId, EndOfScan, SortTopic, vars
    <3> QED
      BY <1>4, <3>1, <3>2
  <2>2. TopicsInv'
    BY <2>1 DEF TopicsInv, Unassigned, Assigned
  <2>3. ThrodInv'
    BY <2>1 DEF ThrodInv
  <2>4. EachWordInNearestTopic'
    <3>1. \A k \in DOMAIN clusters' : \A i \in DOMAIN clusters'[k] : NearestAt(clusters', throd', k, i)
      BY <2>1, EachIsNearest
    <3> QED
      BY <2>1, <3>1, EachIsNearestNext
  <2> QED
    BY <2>2, <2>3, <2>4
<1> QED
  BY <1>1, <1>2, <1>3, <1>4 DEF Next

-----------------------------------------------------------------------------
(* The messages *)

LEMMA MessagesFinite ==
    ASSUME reads \in Inputs, NEW topic
    PROVE  Cardinality(MessagesWith(topic)) \in Nat
<1> DEFINE S == {j \in DOMAIN reads : Cardinality(Range(topic) \cap Range(WordsOf(reads[j]))) >= BelongThrod}
           f == [i \in S |-> reads[i].mid]
<1>1. S \in SUBSET (1..Len(reads)) /\ IsFiniteSet(1..Len(reads))
  BY ReadsType, FS_Interval
<1>2. MessagesWith(topic) = {reads[i].mid : i \in S}
  BY DEF MessagesWith
<1> HIDE DEF S
<1>3. IsFiniteSet(S)
  BY <1>1, FS_Subset
<1> DEFINE T == {reads[i].mid : i \in S}
<1>4. f \in Surjection(S, T)
  BY DEF Surjection
<1> HIDE DEF f, T
<1>5. IsFiniteSet(T)
  BY <1>3, <1>4, FS_Surjection
<1> QED
  BY <1>2, <1>5, FS_CardinalityType DEF T

LEMMA ThrodType == BelongThrod \in {2, 3}
  BY DEF BelongThrod

\* Nothing is in the index before the scan.
LEMMA MatchIndexes ==
    ASSUME PlaceInv, Match
    PROVE  MessagesInv'
<1>1. index' = [w \in Indexed |-> {}] /\ pc' = "index" /\ place' - 1 = 0
  BY DEF Match, Indexed, PlaceInv
<1>2. Indexed' = Indexed
  <2>1. BelongThrod' = BelongThrod /\ clusters' = clusters
    BY RowsStay DEF Match
  <2> QED
    BY <2>1 DEF Indexed
<1>3. \A w : IdsUpTo(w, 0)' = {}
  BY DEF IdsUpTo
<1> QED
  BY <1>1, <1>2, <1>3 DEF MessagesInv

LEMMA IndexRowIndexes ==
    ASSUME PlaceInv, MessagesInv, IndexRow
    PROVE  MessagesInv'
<1>a. PICK n : n = place - 1
  OBVIOUS
<1>b. PICK k : k = n + 1
  OBVIOUS
<1>1. /\ n \in Nat /\ place = k /\ place' - 1 = k /\ k \in 1..Len(reads) /\ reads \in Inputs
      /\ pc = "index" /\ pc' = "index" /\ reads' = reads /\ clusters' = clusters
      /\ index = [w \in Indexed |-> IdsUpTo(w, n)]
      /\ index' = [w \in DOMAIN index |->
                      IF w \in Range(WordsOf(reads[k])) THEN index[w] \cup {reads[k].mid} ELSE index[w]]
  <2>1. /\ n \in Nat /\ place = k /\ place' - 1 = k /\ k \in 1..Len(reads) /\ reads \in Inputs
        /\ pc = "index" /\ pc' = "index" /\ reads' = reads /\ clusters' = clusters
    BY <1>a, <1>b, ReadsType DEF PlaceInv, IndexRow
  <2>2. index = [w \in Indexed |-> IdsUpTo(w, n)]
    BY <1>a, <2>1 DEF MessagesInv
  <2>3. index' = [w \in DOMAIN index |->
                     IF w \in Range(WordsOf(reads[k])) THEN index[w] \cup {reads[k].mid} ELSE index[w]]
    BY <2>1 DEF IndexRow
  <2> QED
    BY <2>1, <2>2, <2>3
<1>2. \A w : IdsUpTo(w, k) = IF w \in Range(WordsOf(reads[k])) THEN IdsUpTo(w, n) \cup {reads[k].mid}
                             ELSE IdsUpTo(w, n)
  <2>1. 1..k = (1..n) \cup {k}
    BY <1>b, <1>1
  <2>2. ASSUME NEW w PROVE {j \in 1..k : w \in Range(WordsOf(reads[j]))} =
                               IF w \in Range(WordsOf(reads[k]))
                               THEN {j \in 1..n : w \in Range(WordsOf(reads[j]))} \cup {k}
                               ELSE {j \in 1..n : w \in Range(WordsOf(reads[j]))}
    BY <2>1
  <2>3. ASSUME NEW w PROVE IdsUpTo(w, k) = IF w \in Range(WordsOf(reads[k]))
                                           THEN IdsUpTo(w, n) \cup {reads[k].mid}
                                           ELSE IdsUpTo(w, n)
    <3> DEFINE A == {j \in 1..n : w \in Range(WordsOf(reads[j]))}
    <3>1. IdsUpTo(w, n) = {reads[i].mid : i \in A}
      BY DEF IdsUpTo
    <3>2. IdsUpTo(w, k) = {reads[i].mid : i \in {j \in 1..k : w \in Range(WordsOf(reads[j]))}}
      BY DEF IdsUpTo
    <3> HIDE DEF A
    <3>3. {reads[i].mid : i \in A \cup {k}} = {reads[i].mid : i \in A} \cup {reads[k].mid}
      OBVIOUS
    <3>4. CASE w \in Range(WordsOf(reads[k]))
      BY <2>2, <3>1, <3>2, <3>3, <3>4 DEF A
    <3>5. CASE w \notin Range(WordsOf(reads[k]))
      BY <2>2, <3>1, <3>2, <3>5 DEF A
    <3> QED
      BY <3>4, <3>5
  <2> QED
    BY <2>3
<1>3. index' = [w \in Indexed |-> IdsUpTo(w, k)]
  <2>1. DOMAIN index = Indexed /\ \A w \in Indexed : index[w] = IdsUpTo(w, n)
    BY <1>1
  <2>2. \A w \in Indexed : (IF w \in Range(WordsOf(reads[k])) THEN index[w] \cup {reads[k].mid} ELSE index[w])
                               = IdsUpTo(w, k)
    BY <1>2, <2>1
  <2> QED
    BY <1>1, <2>1, <2>2
<1>4. Indexed' = Indexed
  <2>1. BelongThrod' = BelongThrod
    BY <1>1, RowsStay
  <2> QED
    BY <1>1, <2>1 DEF Indexed
<1>5. \A w : IdsUpTo(w, k)' = IdsUpTo(w, k)
  BY <1>1 DEF IdsUpTo
<1> QED
  BY <1>1, <1>3, <1>4, <1>5 DEF MessagesInv

\* The messages found by the words' sets are those that have enough of the words.
LEMMA BelongingIsWith ==
    ASSUME PlaceInv, TopicsInv, EachWordInNearestTopic, NEW k \in DOMAIN clusters,
           index = [w \in Indexed |-> IdsUpTo(w, Len(reads))]
    PROVE  Belonging(clusters[k]) = MessagesWith(clusters[k])
<1> DEFINE topic == clusters[k]
           words == Range(topic)
           inRow(j) == words \cap Range(WordsOf(reads[j]))
<1>1. /\ reads \in Inputs /\ DOMAIN reads = 1..Len(reads)
      /\ topic \in Seq(Word) /\ Len(topic) \in Nat /\ DOMAIN topic = 1..Len(topic)
  BY ReadsType DEF PlaceInv, TopicsInv
<1>2. IsFiniteSet(words) /\ Cardinality(words) \in Nat /\ Cardinality(words) <= Len(topic)
  <2>1. topic \in Surjection(1..Len(topic), words)
    <3>1. topic \in [1..Len(topic) -> words]
      BY <1>1 DEF Range
    <3>2. \A v \in words : \E i \in 1..Len(topic) : topic[i] = v
      BY <1>1 DEF Range
    <3> QED
      BY <3>1, <3>2 DEF Surjection
  <2> DEFINE f == topic
             n == Len(topic)
  <2>2. f \in Surjection(1..n, words) /\ n \in Nat
    BY <1>1, <2>1
  <2> HIDE DEF words, f, n
  <2>3. IsFiniteSet(1..n) /\ Cardinality(1..n) = n
    BY <2>2, FS_Interval
  <2>4. IsFiniteSet(words) /\ Cardinality(words) <= Cardinality(1..n)
    BY <2>2, <2>3, FS_Surjection
  <2> QED
    BY <2>3, <2>4, FS_CardinalityType DEF n
<1>3. MessagesWith(topic) = {reads[i].mid : i \in {j \in 1..Len(reads) : Cardinality(inRow(j)) >= BelongThrod}}
  BY <1>1 DEF MessagesWith
<1>4. CASE Len(topic) >= BelongThrod
  <2>1. \A w \in words : w \in Indexed
    BY <1>4 DEF Indexed
  <2>2. \A w \in words : Ids(w) = IdsUpTo(w, Len(reads))
    BY <2>1 DEF Ids
  <2> HIDE DEF words
  <2>3. Belonging(topic) = {m \in UNION {Ids(w) : w \in words} :
                               Cardinality({w \in words : m \in Ids(w)}) >= BelongThrod}
    BY DEF Belonging, words
  <2>4. \A w \in words : \A m : m \in Ids(w) <=> \E i \in 1..Len(reads) : /\ w \in Range(WordsOf(reads[i]))
                                                                     /\ m = reads[i].mid
    BY <2>2 DEF IdsUpTo
  <2>5. ASSUME NEW i \in 1..Len(reads)
        PROVE  {w \in words : reads[i].mid \in Ids(w)} = inRow(i)
    <3>1. \A j \in 1..Len(reads) : reads[j].mid = reads[i].mid => reads[j] = reads[i]
      BY <1>1, RowsAssumption
    <3>2. ASSUME NEW w \in words, reads[i].mid \in Ids(w) PROVE w \in Range(WordsOf(reads[i]))
      <4>1. PICK j \in 1..Len(reads) : w \in Range(WordsOf(reads[j])) /\ reads[i].mid = reads[j].mid
        BY <2>4, <3>2
      <4>2. reads[j] = reads[i]
        BY <3>1, <4>1
      <4> QED
        BY <4>1, <4>2
    <3>3. ASSUME NEW w \in words, w \in Range(WordsOf(reads[i])) PROVE reads[i].mid \in Ids(w)
      BY <2>4, <3>3
    <3> QED
      BY <3>2, <3>3
  <2> HIDE DEF inRow
  <2>6. ASSUME NEW m \in Belonging(topic) PROVE m \in MessagesWith(topic)
    <3>1. /\ m \in UNION {Ids(w) : w \in words}
          /\ Cardinality({w \in words : m \in Ids(w)}) >= BelongThrod
      BY <2>3, <2>6
    <3>2. PICK w \in words : m \in Ids(w)
      BY <3>1
    <3>3. PICK i \in 1..Len(reads) : m = reads[i].mid
      BY <2>4, <3>2
    <3>4. Cardinality(inRow(i)) >= BelongThrod
      BY <2>5, <3>1, <3>3
    <3> QED
      BY <1>3, <3>3, <3>4
  <2>7. ASSUME NEW m \in MessagesWith(topic) PROVE m \in Belonging(topic)
    <3>1. PICK i \in 1..Len(reads) : Cardinality(inRow(i)) >= BelongThrod /\ m = reads[i].mid
      BY <1>3, <2>7
    <3>2. Cardinality({w \in words : m \in Ids(w)}) >= BelongThrod
      BY <2>5, <3>1
    <3>3. {w \in words : m \in Ids(w)} # {}
      <4>1. Cardinality({}) = 0 /\ ~(0 >= BelongThrod)
        BY FS_EmptySet, ThrodType
      <4> QED
        BY <3>2, <4>1
    <3>4. m \in UNION {Ids(w) : w \in words}
      BY <3>3
    <3> QED
      BY <2>3, <3>2, <3>4
  <2> QED
    BY <2>6, <2>7
<1>5. CASE ~(Len(topic) >= BelongThrod)
  <2>1. ASSUME NEW w \in words PROVE Ids(w) = {}
    <3>1. w \notin Indexed
      <4> SUFFICES ASSUME w \in Indexed PROVE FALSE
        OBVIOUS
      <4>1. PICK j \in DOMAIN clusters : Len(clusters[j]) >= BelongThrod /\ w \in Range(clusters[j])
        BY DEF Indexed
      <4>2. PICK h \in DOMAIN clusters[j] : clusters[j][h] = w
        BY <4>1 DEF Range
      <4>3. PICK i \in DOMAIN topic : topic[i] = w
        BY <2>1 DEF Range
      <4>4. j = k
        BY <4>2, <4>3 DEF EachWordInNearestTopic
      <4> QED
        BY <1>5, <4>1, <4>4
    <3> QED
      BY <3>1 DEF Ids
  <2>2. Belonging(topic) = {}
    <3>1. UNION {Ids(w) : w \in words} = {}
      BY <2>1
    <3> QED
      BY <3>1 DEF Belonging
  <2>3. ASSUME NEW j \in 1..Len(reads) PROVE ~(Cardinality(inRow(j)) >= BelongThrod)
    <3> DEFINE A == inRow(j)
    <3>1. A \in SUBSET words
      OBVIOUS
    <3> HIDE DEF A, words
    <3>2. IsFiniteSet(A) /\ Cardinality(A) <= Cardinality(words)
      BY <1>2, <3>1, FS_Subset
    <3>3. Cardinality(A) \in Nat
      BY <3>2, FS_CardinalityType
    <3>4. ~(Cardinality(A) >= BelongThrod)
      BY <1>1, <1>2, <1>5, <3>2, <3>3, ThrodType
    <3> QED
      BY <3>4 DEF A
  <2>4. MessagesWith(topic) = {}
    <3> HIDE DEF inRow
    <3> QED
      BY <1>3, <2>3
  <2> QED
    BY <2>2, <2>4
<1> QED
  BY <1>4, <1>5

LEMMA ListsMessages ==
    ASSUME PlaceInv, TopicsInv, EachWordInNearestTopic, MessagesInv, ListAllTopicWeiboId
    PROVE  MessagesInv'
<1>1. /\ reads \in Inputs /\ place - 1 = Len(reads) /\ pc = "index" /\ pc' = "sort"
      /\ reads' = reads /\ clusters' = clusters
  BY ReadsType DEF PlaceInv, ListAllTopicWeiboId, EndOfScan
<1>2. \A k \in DOMAIN clusters : Belonging(clusters[k]) = MessagesWith(clusters[k])
  BY <1>1, BelongingIsWith DEF MessagesInv
<1>3. /\ messageNum' = [k \in DOMAIN clusters |-> Cardinality(MessagesWith(clusters[k]))]
      /\ messages' = [k \in DOMAIN clusters |->
                         IF messageNum'[k] <= MinMessageNum THEN {} ELSE MessagesWith(clusters[k])]
  <2>1. messageNum' = [k \in DOMAIN clusters |-> Cardinality(Belonging(clusters[k]))]
    BY DEF ListAllTopicWeiboId
  <2>2. messages' = [k \in DOMAIN clusters |->
                        IF messageNum'[k] <= MinMessageNum THEN {} ELSE Belonging(clusters[k])]
    BY DEF ListAllTopicWeiboId
  <2> QED
    BY <1>2, <2>1, <2>2
<1>4. \A topic : MessagesWith(topic)' = MessagesWith(topic)
  BY <1>1, RowsStay
<1> QED
  BY <1>1, <1>3, <1>4 DEF MessagesInv

\* The first p of an order.
FirstOf(order, p) == [j \in 1..p |-> order[j]]

\* The topics that are stored are the first of the order, as far as they are large.
LEMMA StoredIsFirst ==
    ASSUME NEW n \in Nat, NEW T, NEW order \in [1..n -> T],
           \A k \in T : messageNum[k] \in Nat, Descending(order)
    PROVE  \E p \in 0..n : /\ Stored(order) = FirstOf(order, p)
                           /\ \A i \in 1..n : messageNum[order[i]] > MinMessageNum <=> i <= p
<1> DEFINE num(i) == messageNum[order[i]]
<1>1. /\ Len(order) = n /\ DOMAIN order = 1..n
      /\ MinMessageNum \in Nat /\ \A i \in 1..n : num(i) \in Nat
      /\ \A i, j \in 1..n : i < j => num(i) >= num(j)
  <2>1. DOMAIN order = 1..n /\ \A i \in 1..n : order[i] \in T
    OBVIOUS
  <2>2. Len(order) = n
    OBVIOUS
  <2>3. MinMessageNum \in Nat
    BY SinglePassAssumption
  <2>4. \A i \in 1..n : num(i) \in Nat
    BY <2>1
  <2>5. \A i, j \in 1..n : i < j => num(i) >= num(j)
    BY <2>1 DEF Descending
  <2> QED
    BY <2>1, <2>2, <2>3, <2>4, <2>5
<1>2. PICK p \in 0..n : \A i \in 1..n : num(i) > MinMessageNum <=> i <= p
  <2> HIDE DEF num
  <2> DEFINE Small == {i \in 1..n : num(i) <= MinMessageNum}
  <2>1. CASE Small = {}
    <3>1. n \in 0..n /\ \A i \in 1..n : num(i) > MinMessageNum <=> i <= n
      BY <1>1, <2>1
    <3> QED
      BY <3>1
  <2>2. CASE Small # {}
    <3>1. Small \in SUBSET Nat
      OBVIOUS
    <3>2. PICK q \in Small : \A i \in Small : q <= i
      <4> HIDE DEF Small
      <4> QED
        BY <2>2, <3>1, LeastNatural
    <3>3. ASSUME NEW i \in 1..n PROVE num(i) > MinMessageNum <=> i <= q - 1
      <4>1. CASE i < q
        <5>1. i \notin Small
          BY <3>2, <4>1
        <5> QED
          BY <1>1, <4>1, <5>1
      <4>2. CASE i = q
        BY <1>1, <4>2
      <4>3. CASE q < i
        <5>1. num(q) >= num(i) /\ num(q) <= MinMessageNum
          BY <1>1, <4>3
        <5> QED
          BY <1>1, <4>3, <5>1
      <4> QED
        BY <4>1, <4>2, <4>3
    <3>4. q - 1 \in 0..n
      OBVIOUS
    <3> QED
      BY <3>3, <3>4
  <2> QED
    BY <2>1, <2>2
<1> DEFINE takes(i) == (\A j \in 1..i : num(j) >= MinMessageNum) /\ num(i) > MinMessageNum
           upTo(i) == FirstOf(order, IF i <= p THEN i ELSE p)
           f == CHOOSE f : f = [i \in 0..n |->
                    IF i = 0 THEN <<>>
                    ELSE IF takes(i) THEN Append(f[i - 1], order[i]) ELSE f[i - 1]]
           g == [i \in 0..n |-> upTo(i)]
<1>3. \A i \in 1..n : takes(i) <=> i <= p
  <2>1. ASSUME NEW i \in 1..n, i <= p PROVE takes(i)
    <3>1. num(i) > MinMessageNum
      BY <1>2, <2>1
    <3>2. \A j \in 1..i : num(j) > MinMessageNum /\ num(j) \in Nat
      BY <1>1, <1>2, <2>1
    <3> HIDE DEF num
    <3> QED
      BY <1>1, <3>1, <3>2
  <2>2. ASSUME NEW i \in 1..n, takes(i) PROVE i <= p
    BY <1>2, <2>2
  <2> QED
    BY <2>1, <2>2
<1>4. Stored(order) = f[n]
  BY <1>1 DEF Stored
<1> HIDE DEF takes, num
<1>5. upTo(0) = <<>>
  <2>1. FirstOf(order, 0) = <<>>
    BY DEF FirstOf
  <2> QED
    BY <2>1
<1>6. ASSUME NEW i \in 1..n
      PROVE  upTo(i) = IF takes(i) THEN Append(upTo(i - 1), order[i]) ELSE upTo(i - 1)
  <2>1. CASE i <= p
    <3> DEFINE s == FirstOf(order, i - 1)
               t == FirstOf(order, i)
               x == order[i]
    <3>1. upTo(i) = t /\ upTo(i - 1) = s
      BY <2>1
    <3>2. s \in Seq(T) /\ Len(s) = i - 1 /\ \A j \in 1..(i - 1) : s[j] = order[j]
      <4>1. s \in [1..(i - 1) -> T]
        BY DEF FirstOf
      <4> QED
        BY <4>1 DEF FirstOf
    <3>3. t \in Seq(T) /\ Len(t) = i /\ \A j \in 1..i : t[j] = order[j]
      <4>1. t \in [1..i -> T]
        BY DEF FirstOf
      <4> QED
        BY <4>1 DEF FirstOf
    <3>4. x \in T
      OBVIOUS
    <3> HIDE DEF s, t
    <3>5. Append(s, x) \in Seq(T) /\ Len(Append(s, x)) = i
          /\ \A j \in 1..i : Append(s, x)[j] = order[j]
      BY <3>2, <3>4
    <3>6. Append(s, x) = t
      <4> DEFINE u == Append(s, x)
      <4>0. u \in Seq(T) /\ Len(u) = i /\ \A j \in 1..i : u[j] = order[j]
        BY <3>5
      <4> HIDE DEF u
      <4>1. u \in [1..i -> T] /\ t \in [1..i -> T] /\ \A j \in 1..i : u[j] = t[j]
        BY <3>3, <4>0
      <4>2. u = t
        BY <4>1
      <4> QED
        BY <4>2 DEF u
    <3> QED
      BY <1>3, <2>1, <3>1, <3>6
  <2>2. CASE ~(i <= p)
    <3>1. upTo(i) = FirstOf(order, p) /\ upTo(i - 1) = FirstOf(order, p)
      <4>1. i - 1 <= p => i - 1 = p
        BY <2>2
      <4> QED
        BY <2>2, <4>1
    <3> QED
      BY <1>3, <2>2, <3>1
  <2> QED
    BY <2>1, <2>2
<1>7. \A i \in 0..n : g[i] = upTo(i)
  OBVIOUS
<1>8. upTo(n) = FirstOf(order, p)
  <2>1. (IF n <= p THEN n ELSE p) = p
    OBVIOUS
  <2> QED
    BY <2>1
<1> HIDE DEF upTo
<1>9. g = [i \in 0..n |-> IF i = 0 THEN <<>>
                          ELSE IF takes(i) THEN Append(g[i - 1], order[i]) ELSE g[i - 1]]
  <2> DEFINE e(i) == IF i = 0 THEN <<>>
                     ELSE IF takes(i) THEN Append(g[i - 1], order[i]) ELSE g[i - 1]
  <2>1. ASSUME NEW i \in 0..n PROVE upTo(i) = e(i)
    <3>1. CASE i = 0
      BY <1>5, <3>1
    <3>2. CASE i # 0
      <4>1. i \in 1..n /\ g[i - 1] = upTo(i - 1)
        BY <1>7, <3>2
      <4> HIDE DEF g
      <4> QED
        BY <1>6, <3>2, <4>1
    <3> QED
      BY <3>1, <3>2
  <2>2. g = [i \in 0..n |-> upTo(i)]
    OBVIOUS
  <2> HIDE DEF e
  <2>3. [i \in 0..n |-> upTo(i)] = [i \in 0..n |-> e(i)]
    BY <2>1
  <2>4. g = [i \in 0..n |-> e(i)]
    BY <2>2, <2>3
  <2> HIDE DEF g
  <2> QED
    BY <2>4 DEF e
<1> HIDE DEF g
<1>10. f = [i \in 0..n |-> IF i = 0 THEN <<>>
                           ELSE IF takes(i) THEN Append(f[i - 1], order[i]) ELSE f[i - 1]]
  BY <1>9
<1> HIDE DEF f
<1>11. \A i \in Nat : i <= n => f[i] = g[i]
  <2> DEFINE P == {i \in Nat : i <= n => f[i] = g[i]}
  <2>1. 0 \in P
    <3>1. 0 \in 0..n
      OBVIOUS
    <3> QED
      BY <1>9, <1>10, <3>1
  <2>2. ASSUME NEW i \in Nat, i \in P PROVE i + 1 \in P
    <3>1. SUFFICES ASSUME i + 1 <= n PROVE f[i + 1] = g[i + 1]
      OBVIOUS
    <3>2. PICK k : k = i + 1
      OBVIOUS
    <3>3. k \in 0..n /\ k # 0 /\ k - 1 = i /\ i <= n
      BY <3>1, <3>2
    <3>4. f[k] = IF takes(k) THEN Append(f[k - 1], order[k]) ELSE f[k - 1]
      BY <1>10, <3>3
    <3>5. g[k] = IF takes(k) THEN Append(g[k - 1], order[k]) ELSE g[k - 1]
      BY <1>9, <3>3
    <3>6. f[i] = g[i]
      BY <2>2, <3>3
    <3> QED
      BY <3>2, <3>3, <3>4, <3>5, <3>6
  <2> HIDE DEF P
  <2>3. \A i \in Nat : i \in P
    BY <2>1, <2>2, Induction
  <2> QED
    BY <2>3 DEF P
<1>12. f[n] = FirstOf(order, p)
  <2>1. n \in Nat /\ n <= n /\ n \in 0..n
    OBVIOUS
  <2>2. f[n] = g[n]
    BY <1>11, <2>1
  <2> QED
    BY <1>7, <1>8, <2>1, <2>2
<1> QED
  BY <1>2, <1>4, <1>12 DEF num

\* The sorted topics are stored as far as they are large.
LEMMA SortStores ==
    ASSUME PlaceInv, TopicsInv, MessagesInv, SortTopic
    PROVE  LargeTopicsStoredWhole'
<1> DEFINE n == Len(clusters)
<1>1. /\ reads \in Inputs /\ n \in Nat /\ DOMAIN clusters = 1..n
      /\ pc = "sort" /\ reads' = reads /\ clusters' = clusters /\ messages' = messages
  BY DEF PlaceInv, TopicsInv, SortTopic
<1>2. /\ \A k \in 1..n : messageNum[k] = Cardinality(MessagesWith(clusters[k]))
      /\ \A k \in 1..n : messages[k] = IF messageNum[k] <= MinMessageNum THEN {} ELSE MessagesWith(clusters[k])
  BY <1>1 DEF MessagesInv
<1>3. \A k \in 1..n : messageNum[k] \in Nat
  BY <1>1, <1>2, MessagesFinite
<1>4. PICK order \in [1..n -> 1..n] : IsInjective(order) /\ Descending(order) /\ taken' = Stored(order)
  BY <1>1 DEF SortTopic
<1> HIDE DEF n
<1>5. PICK p \in 0..n : /\ Stored(order) = FirstOf(order, p)
                        /\ \A i \in 1..n : messageNum[order[i]] > MinMessageNum <=> i <= p
  BY <1>1, <1>3, <1>4, StoredIsFirst
<1>6. /\ DOMAIN taken' = 1..p /\ \A i \in 1..p : taken'[i] = order[i]
      /\ \A i \in 1..p : i \in 1..n /\ order[i] \in 1..n
  <2>1. taken' = [j \in 1..p |-> order[j]]
    BY <1>4, <1>5 DEF FirstOf
  <2>2. \A i \in 1..p : i \in 1..n
    BY <1>1, <1>5
  <2>3. \A i \in 1..p : order[i] \in 1..n
    BY <1>4, <2>2
  <2> QED
    BY <2>1, <2>2, <2>3
<1>7. \A k \in 1..n : \E i \in 1..n : order[i] = k
  <2>1. IsFiniteSet(1..n)
    BY <1>1, FS_Interval
  <2>2. order \in Injection(1..n, 1..n)
    <3>1. order \in [1..n -> 1..n]
      BY <1>4
    <3>2. \A a, b \in DOMAIN order : order[a] = order[b] => a = b
      BY <1>4 DEF IsInjective
    <3> QED
      BY <3>1, <3>2 DEF Injection, IsInjective
  <2>3. order \in Surjection(1..n, 1..n)
    BY <2>1, <2>2, FS_Injection
  <2> QED
    BY <2>3 DEF Surjection
<1>8. MinMessageNum \in Nat
  BY SinglePassAssumption
<1>9. Range(taken') = {k \in 1..n : Cardinality(MessagesWith(clusters[k])) > MinMessageNum}
  <2>1. ASSUME NEW k \in Range(taken')
        PROVE  k \in 1..n /\ Cardinality(MessagesWith(clusters[k])) > MinMessageNum
    <3>1. PICK i \in 1..p : k = order[i]
      BY <1>6, <2>1 DEF Range
    <3>2. messageNum[k] > MinMessageNum /\ k \in 1..n
      BY <1>5, <1>6, <3>1
    <3> QED
      BY <1>2, <3>2
  <2>2. ASSUME NEW k \in 1..n, Cardinality(MessagesWith(clusters[k])) > MinMessageNum
        PROVE  k \in Range(taken')
    <3>1. PICK i \in 1..n : order[i] = k
      BY <1>7
    <3>2. messageNum[order[i]] > MinMessageNum
      BY <1>2, <2>2, <3>1
    <3>3. i \in 1..p
      BY <1>5, <3>2
    <3> QED
      BY <1>6, <3>1, <3>3 DEF Range
  <2> QED
    BY <2>1, <2>2
<1>10. ASSUME NEW i \in 1..p
       PROVE  messages[taken'[i]] = MessagesWith(clusters[taken'[i]])
              /\ Cardinality(messages[taken'[i]]) = messageNum[order[i]]
  <2>1. taken'[i] = order[i] /\ order[i] \in 1..n /\ messageNum[order[i]] > MinMessageNum
        /\ messageNum[order[i]] \in Nat
    BY <1>3, <1>5, <1>6
  <2>2. ~(messageNum[order[i]] <= MinMessageNum)
    BY <1>8, <2>1
  <2> QED
    BY <1>2, <2>1, <2>2
<1>11. ASSUME NEW i \in 1..p, NEW j \in 1..p, i < j
       PROVE  taken'[i] # taken'[j] /\ Cardinality(messages[taken'[i]]) >= Cardinality(messages[taken'[j]])
  <2>1. taken'[i] = order[i] /\ taken'[j] = order[j] /\ i \in DOMAIN order /\ j \in DOMAIN order
    BY <1>6
  <2>2. order[i] # order[j]
    BY <1>4, <1>11, <2>1 DEF IsInjective
  <2>3. messageNum[order[i]] >= messageNum[order[j]]
    BY <1>4, <1>11, <2>1 DEF Descending
  <2> QED
    BY <1>10, <2>1, <2>2, <2>3
<1>12. \A topic : MessagesWith(topic)' = MessagesWith(topic)
  BY <1>1, RowsStay
<1>13. DOMAIN clusters' = 1..n
  BY <1>1
<1> QED
  BY <1>1, <1>6, <1>9, <1>10, <1>11, <1>12, <1>13 DEF LargeTopicsStoredWhole

LEMMA MessagesKept ==
    PlaceInv /\ TopicsInv /\ EachWordInNearestTopic /\ MessagesInv /\ LargeTopicsStoredWhole /\ [Next]_vars
        => MessagesInv' /\ LargeTopicsStoredWhole'
<1> SUFFICES ASSUME PlaceInv, TopicsInv, EachWordInNearestTopic, MessagesInv, LargeTopicsStoredWhole,
                    [Next]_vars
             PROVE  MessagesInv' /\ LargeTopicsStoredWhole'
  OBVIOUS
<1>1. CASE Match
  <2>1. pc' # "done"
    BY <1>1 DEF Match
  <2> QED
    BY <1>1, <2>1, MatchIndexes DEF LargeTopicsStoredWhole
<1>2. CASE IndexRow
  <2>1. pc' # "done"
    BY <1>2 DEF IndexRow
  <2> QED
    BY <1>2, <2>1, IndexRowIndexes DEF LargeTopicsStoredWhole
<1>3. CASE ListAllTopicWeiboId
  <2>1. pc' # "done"
    BY <1>3 DEF ListAllTopicWeiboId, EndOfScan
  <2> QED
    BY <1>3, <2>1, ListsMessages DEF LargeTopicsStoredWhole
<1>4. CASE SortTopic
  <2>1. pc' = "done"
    BY <1>4 DEF SortTopic
  <2> QED
    BY <1>4, <2>1, SortStores DEF MessagesInv
<1>5. CASE CountWord \/ Purge \/ PurgeDies \/ TopicWordSort \/ CooccurRow \/ Threshold \/ NoFeatureWord \/ Assign
  <2>1. pc' \notin {"index", "sort", "done"}
    BY <1>5 DEF CountWord, Purge, PurgeDies, TopicWordSort, CooccurRow, Threshold, NoFeatureWord, Assign,
                EndOfScan
  <2> QED
    BY <2>1 DEF MessagesInv, LargeTopicsStoredWhole
<1>6. CASE UNCHANGED vars
  <2>1. /\ pc' = pc /\ reads' = reads /\ place' = place /\ clusters' = clusters /\ index' = index
        /\ messages' = messages /\ messageNum' = messageNum /\ taken' = taken
    BY <1>6 DEF vars
  <2>2. \A topic : MessagesWith(topic)' = MessagesWith(topic)
    BY <2>1, RowsStay
  <2>3. Indexed' = Indexed /\ \A w, n : IdsUpTo(w, n)' = IdsUpTo(w, n)
    BY <2>1, RowsStay DEF Indexed, IdsUpTo
  <2>4. MessagesInv'
    BY <2>1, <2>2, <2>3 DEF MessagesInv
  <2>5. LargeTopicsStoredWhole'
    BY <2>1, <2>2 DEF LargeTopicsStoredWhole
  <2> QED
    BY <2>4, <2>5
<1> QED
  BY <1>1, <1>2, <1>3, <1>4, <1>5, <1>6 DEF Next

-----------------------------------------------------------------------------
(* The theorems *)

\* The inductive invariant: what is true of the program in each of its parts.
SinglePassInv ==
    /\ PlaceInv
    /\ WeightInv
    /\ FeatureWordsFrequent
    /\ CoocInv
    /\ TopicsInv
    /\ ThrodInv
    /\ EachWordInNearestTopic
    /\ MessagesInv
    /\ LargeTopicsStoredWhole

LEMMA SinglePassInit == Init => SinglePassInv
<1> SUFFICES ASSUME Init PROVE SinglePassInv
  OBVIOUS
<1>1. pc = "count"
  BY DEF Init
<1>2. FeatureWordsFrequent /\ CoocInv /\ MessagesInv /\ LargeTopicsStoredWhole
  BY <1>1 DEF FeatureWordsFrequent, CoocInv, MessagesInv, LargeTopicsStoredWhole
<1> QED
  BY <1>2, PlaceInit, WeightInit, TopicsInit DEF SinglePassInv

LEMMA SinglePassStep == SinglePassInv /\ [Next]_vars => SinglePassInv'
  BY PlaceStep, WeightKept, FrequentKept, CoocKept, TopicsKept, MessagesKept DEF SinglePassInv

\* Whatever is read and drawn, each part of the program works on what the parts before it
\* left: the weights, the matrix, the topics and the index are exact at every row.
THEOREM SinglePassInvariance == Spec => []SinglePassInv
<1>1. Init => SinglePassInv
  BY SinglePassInit
<1>2. SinglePassInv /\ [Next]_vars => SinglePassInv'
  BY SinglePassStep
<1> QED
  BY <1>1, <1>2, PTL DEF Spec

\* However often the map of words was purged, and whatever that erased, a feature word is
\* above the limit by all its occurrences; without a purge no heavier word is passed over
\* (AddKeyToMapWithProperty, DeleteElementsBelowThrod, TopicWordSort).
THEOREM FeatureWordsAreFrequent == Spec => []FeatureWordsFrequent
<1>1. SinglePassInv => FeatureWordsFrequent
  BY DEF SinglePassInv
<1> QED
  BY <1>1, SinglePassInvariance, PTL

\* The co-occurrence matrix has exactly the pairs of feature words that met, with how
\* often they did, after every row of the scan and to the end of the program.
THEOREM CooccurrenceIsExact == Spec => []CooccurrenceExact
<1>1. SinglePassInv => CooccurrenceExact
  BY CoocIsExact DEF SinglePassInv
<1> QED
  BY <1>1, SinglePassInvariance, PTL

\* Whatever was drawn for the threshold, each feature word that was gone through is in one
\* topic, the first of the nearest by the words before it, or began one (Single_Pass_Cluster).
THEOREM WordsJoinNearestTopic == Spec => []EachWordInNearestTopic
<1>1. SinglePassInv => EachWordInNearestTopic
  BY DEF SinglePassInv
<1> QED
  BY <1>1, SinglePassInvariance, PTL

\* The topics given to the store are those with more than the least number of messages,
\* largest first, each with all the messages that have enough of its words.
THEOREM LargeTopicsAreStored == Spec => []LargeTopicsStoredWhole
<1>1. SinglePassInv => LargeTopicsStoredWhole
  BY DEF SinglePassInv
<1> QED
  BY <1>1, SinglePassInvariance, PTL
=============================================================================
