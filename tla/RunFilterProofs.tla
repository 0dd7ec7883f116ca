-------------------------- MODULE RunFilterProofs --------------------------
(***************************************************************************)
(* Proofs about RunFilter, for every table, every set of texts, every page *)
(* size and every number of runs.                                          *)
(***************************************************************************)
EXTENDS RunFilter, FiniteSetTheorems, WellFoundedInduction, TLAPS

LEMMA DistanceSymmetric ==
    ASSUME NEW x, NEW y
    PROVE  Distance(x, y) = Distance(y, x)
<1>1. (x \ y) \cup (y \ x) = (y \ x) \cup (x \ y)
  OBVIOUS
<1> QED
  BY <1>1 DEF Distance

\* AddFingerPrint keeps the representatives apart: a new one is far from all.
LEMMA AddKeepsApart ==
    ASSUME RepresentativesApart, NEW x, AddFingerPrint(x)
    PROVE  RepresentativesApart'
<1>1. CASE Keys(x, 2) = {}
  <2>1. ref' = [k \in DOMAIN ref \cup {x} |-> IF k = x THEN 1 ELSE ref[k]]
    BY <1>1 DEF AddFingerPrint
  <2>2. DOMAIN ref' = DOMAIN ref \cup {x}
    BY <2>1
  <2>3. \A k \in DOMAIN ref : ~(Distance(x, k) <= 2)
    BY <1>1 DEF Keys
  <2>4. ASSUME NEW a \in DOMAIN ref', NEW b \in DOMAIN ref', a # b
        PROVE  ~(Distance(a, b) <= 2)
    <3>1. CASE a \in DOMAIN ref /\ b \in DOMAIN ref
      BY <2>4, <3>1 DEF RepresentativesApart
    <3>2. CASE a = x /\ b \in DOMAIN ref
      BY <2>3, <3>2
    <3>3. CASE b = x /\ a \in DOMAIN ref
      BY <2>3, <3>3, DistanceSymmetric
    <3> QED
      BY <2>2, <2>4, <3>1, <3>2, <3>3
  <2> QED
    BY <2>4 DEF RepresentativesApart
<1>2. CASE Keys(x, 2) # {}
  <2>1. DOMAIN ref' = DOMAIN ref
    BY <1>2 DEF AddFingerPrint
  <2> QED
    BY <2>1 DEF RepresentativesApart
<1> QED
  BY <1>1, <1>2

-----------------------------------------------------------------------------
\* No two representatives are near each other, in every run on every table.
THEOREM CountsAreSeparate == Spec => []RepresentativesApart
<1>1. Init => RepresentativesApart
  BY DEF Init, NoCounts, RepresentativesApart
<1>2. RepresentativesApart /\ [Next]_vars => RepresentativesApart'
  <2> SUFFICES ASSUME RepresentativesApart, [Next]_vars
               PROVE  RepresentativesApart'
    OBVIOUS
  <2>1. CASE ParseBlog
    <3>1. CASE attr[Head(blogs)].parsed
      BY <2>1, <3>1, AddKeepsApart DEF ParseBlog
    <3>2. CASE ~attr[Head(blogs)].parsed
      BY <2>1, <3>2 DEF ParseBlog, RepresentativesApart
    <3> QED
      BY <3>1, <3>2
  <2>2. CASE WriteOutput \/ Crash
    BY <2>2 DEF WriteOutput, Crash, Cleared, NoCounts, RepresentativesApart
  <2>3. CASE \/ CheckDuplicate \/ NextTable \/ NextBlogs \/ Sift \/ CreateTable
             \/ InsertData \/ Grow \/ Rerun \/ UNCHANGED vars
    <3>1. ref' = ref
      BY <2>3 DEF CheckDuplicate, NextTable, NextBlogs, Sift, CreateTable, InsertData,
         Grow, Rerun, vars, tables, memory
    <3> QED
      BY <3>1 DEF RepresentativesApart
  <2> QED
    BY <2>1, <2>2, <2>3 DEF Next, Step
<1> QED
  BY <1>1, <1>2, PTL DEF Spec

-----------------------------------------------------------------------------
\* How far the table and the output are at each step, as long as no run was
\* blind.  A run gets past the check only if the table is not there, and then
\* neither rows nor an output are.
Sighted ==
    /\ outputs <= 1
    /\ ~filtered.exists => filtered.rows = {} /\ outputs = 0
    /\ pc = "start" => ~failed
    /\ pc \in {"open", "read", "create"} => ~filtered.exists /\ ~failed
    /\ pc = "insert" => filtered.rows = {} /\ outputs = 0 /\ (failed <=> ~filtered.exists)
    /\ pc = "output" => outputs = 0
    /\ InsertionAllOrNothing

OutputInv ==
    /\ filtered = [exists |-> filtered.exists, rows |-> filtered.rows]
    /\ filtered.exists \in BOOLEAN
    /\ failed \in BOOLEAN
    /\ blind \in BOOLEAN
    /\ outputs \in Nat
    /\ ~blind => Sighted

LEMMA OutputInit == Init => OutputInv
<1> SUFFICES ASSUME Init PROVE OutputInv
  OBVIOUS
<1>1. /\ filtered = [exists |-> FALSE, rows |-> {}]
      /\ pc = "start" /\ outputs = 0 /\ failed = FALSE /\ blind = FALSE
  BY DEF Init
<1>2. filtered.exists = FALSE /\ filtered.rows = {}
  BY <1>1
<1>3. filtered = [exists |-> filtered.exists, rows |-> filtered.rows]
  BY <1>1, <1>2
<1>4. outputs \in Nat /\ outputs <= 1
  BY <1>1
<1>5. InsertionAllOrNothing
  BY <1>1 DEF InsertionAllOrNothing
<1>6. filtered.exists \in BOOLEAN /\ failed \in BOOLEAN /\ ~failed /\ blind \in BOOLEAN
  BY <1>1, <1>2
<1>7. pc \notin {"open", "read", "create"} /\ pc # "insert" /\ pc # "output"
  BY <1>1
<1>8. Sighted
  BY <1>1, <1>2, <1>4, <1>5, <1>6, <1>7, Zenon DEF Sighted
<1> QED BY <1>3, <1>4, <1>6, <1>8, Zenon DEF OutputInv

\* Steps that leave the table, the output and the faults alone, and whose run does
\* not come to another of the places that Sighted speaks of.
LEMMA QuietStep ==
    ASSUME OutputInv, UNCHANGED <<filtered, outputs, failed, blind>>,
           \/ UNCHANGED pc /\ (pc = "output" => UNCHANGED inserts)
           \/ pc' = "ended"
           \/ pc \in {"open", "read"} /\ pc' \in {"read", "create"}
    PROVE  OutputInv'
<1>1. CASE UNCHANGED pc /\ (pc = "output" => UNCHANGED inserts)
  BY <1>1 DEF OutputInv, Sighted, InsertionAllOrNothing, ToSet
<1>2. CASE pc' = "ended"
  BY <1>2 DEF OutputInv, Sighted, InsertionAllOrNothing
<1>3. CASE pc \in {"open", "read"} /\ pc' \in {"read", "create"}
  BY <1>3 DEF OutputInv, Sighted, InsertionAllOrNothing
<1> QED
  BY <1>1, <1>2, <1>3

LEMMA CheckStep == OutputInv /\ CheckDuplicate => OutputInv'
<1> SUFFICES ASSUME OutputInv, CheckDuplicate PROVE OutputInv'
  OBVIOUS
<1>1. UNCHANGED <<filtered, outputs, failed>> /\ pc = "start"
  BY DEF CheckDuplicate
<1>2. PICK listed \in BOOLEAN :
          /\ pc' = IF filtered.exists /\ listed THEN "ended" ELSE "open"
          /\ blind' = (blind \/ (filtered.exists /\ ~listed))
  BY DEF CheckDuplicate
<1>3. blind' \in BOOLEAN
  BY <1>2 DEF OutputInv
<1>4. CASE blind'
  BY <1>1, <1>3, <1>4 DEF OutputInv
<1>5. CASE ~blind'
  <2>1. ~blind /\ (filtered.exists => listed)
    BY <1>2, <1>5 DEF OutputInv
  <2>2. Sighted
    BY <2>1 DEF OutputInv
  <2>3. pc' = "ended" \/ (pc' = "open" /\ ~filtered.exists)
    BY <1>2, <2>1
  <2>4. Sighted'
    BY <1>1, <2>2, <2>3 DEF Sighted, InsertionAllOrNothing
  <2> QED
    BY <1>1, <1>3, <2>4 DEF OutputInv
<1> QED
  BY <1>4, <1>5

LEMMA CreateStep == OutputInv /\ CreateTable => OutputInv'
<1> SUFFICES ASSUME OutputInv, CreateTable PROVE OutputInv'
  OBVIOUS
<1>1. pc = "create" /\ pc' = "insert" /\ UNCHANGED <<outputs, blind>>
  BY DEF CreateTable
<1>2. CASE filtered' = [filtered EXCEPT !.exists = TRUE] /\ UNCHANGED failed
  <2>1. /\ filtered'.exists = TRUE /\ filtered'.rows = filtered.rows
        /\ filtered' = [exists |-> filtered'.exists, rows |-> filtered'.rows]
    BY <1>2 DEF OutputInv
  <2> QED
    BY <1>1, <1>2, <2>1 DEF OutputInv, Sighted, InsertionAllOrNothing
<1>3. CASE failed' = TRUE /\ UNCHANGED filtered
  BY <1>1, <1>3 DEF OutputInv, Sighted, InsertionAllOrNothing
<1> QED
  BY <1>2, <1>3 DEF CreateTable

LEMMA InsertStep == OutputInv /\ InsertData => OutputInv'
<1> SUFFICES ASSUME OutputInv, InsertData PROVE OutputInv'
  OBVIOUS
<1>1. /\ pc = "insert" /\ pc' = "output"
      /\ outputs' = outputs /\ inserts' = inserts /\ blind' = blind
  BY DEF InsertData, memory
<1>2. PICK ok \in BOOLEAN :
          /\ ok => filtered.exists
          /\ Committed(ok)
          /\ failed' = (failed \/ ~ok)
  BY DEF InsertData
<1>3. CASE ok
  <2>1. /\ filtered'.exists = filtered.exists /\ filtered.exists
        /\ filtered'.rows = filtered.rows \cup ToSet(inserts)
        /\ filtered' = [exists |-> filtered'.exists, rows |-> filtered'.rows]
    BY <1>2, <1>3 DEF Committed, OutputInv
  <2>2. failed' = failed
    BY <1>2, <1>3 DEF OutputInv
  <2>3. ToSet(inserts)' = ToSet(inserts)
    BY <1>1 DEF ToSet
  <2>4. ASSUME ~blind PROVE Sighted'
    <3>1. Sighted /\ filtered.rows = {} /\ ~failed /\ outputs = 0
      BY <1>1, <2>1, <2>4 DEF OutputInv, Sighted
    <3> QED
      BY <1>1, <2>1, <2>2, <2>3, <3>1 DEF Sighted, InsertionAllOrNothing
  <2> QED
    BY <1>1, <2>1, <2>2, <2>4 DEF OutputInv
<1>4. CASE ~ok
  <2>1. filtered' = filtered /\ failed' = TRUE
    BY <1>2, <1>4 DEF Committed
  <2> QED
    BY <1>1, <2>1 DEF OutputInv, Sighted, InsertionAllOrNothing
<1> QED
  BY <1>3, <1>4

LEMMA OutputStep == OutputInv /\ [Next]_vars => OutputInv'
<1> SUFFICES ASSUME OutputInv, [Next]_vars PROVE OutputInv'
  OBVIOUS
<1>1. CASE NextTable \/ NextBlogs \/ ParseBlog \/ Sift
  BY <1>1, QuietStep DEF NextTable, NextBlogs, ParseBlog, Sift
<1>2. CASE WriteOutput
  <2>1. /\ pc = "output" /\ pc' = "ended" /\ UNCHANGED <<filtered, failed, blind>>
        /\ outputs' = IF filtered.exists THEN outputs + 1 ELSE outputs
    BY <1>2 DEF WriteOutput
  <2> QED
    BY <2>1 DEF OutputInv, Sighted, InsertionAllOrNothing
<1>3. CASE Grow
  BY <1>3, QuietStep DEF Grow, memory
<1>4. CASE Crash
  BY <1>4, QuietStep DEF Crash
<1>5. CASE Rerun
  <2>1. /\ pc = "ended" /\ pc' = "start" /\ failed' = FALSE
        /\ UNCHANGED <<filtered, outputs, blind>>
    BY <1>5 DEF Rerun
  <2> QED
    BY <2>1 DEF OutputInv, Sighted, InsertionAllOrNothing
<1>6. CASE UNCHANGED vars
  BY <1>6, QuietStep DEF vars, memory
<1> QED
  BY <1>1, <1>2, <1>3, <1>4, <1>5, <1>6, CheckStep, CreateStep, InsertStep DEF Next, Step

\* Whatever crashes and however often it is started again, run_filter names a
\* filtered table to topic detection at most once, as long as it sees the tables.
THEOREM OutputAtMostOnce == Spec => []OutputOnce
<1>1. OutputInv => OutputOnce
  BY DEF OutputInv, Sighted, OutputOnce
<1> QED
  BY <1>1, OutputInit, OutputStep, PTL DEF Spec

\* Whatever crashed before, a table that is named holds the whole insertion, or
\* nothing after the database refused it.
THEOREM InsertionAtomic == Spec => []InsertionAllOrNothing
<1>1. OutputInv => InsertionAllOrNothing
  BY DEF OutputInv, Sighted, InsertionAllOrNothing
<1> QED
  BY <1>1, OutputInit, OutputStep, PTL DEF Spec

-----------------------------------------------------------------------------
(* The elements of a sequence that are kept *)

LEMMA LeastNatural ==
    ASSUME NEW T \in SUBSET Nat, T # {}
    PROVE  \E x \in T : \A y \in T : x <= y
<1>1. PICK x \in T : \A y \in T : ~ (<<y, x>> \in OpToRel(<, Nat))
  BY NatLessThanWellFounded, WFMin, Zenon
<1>2. \A y \in T : ~ (y < x)
  BY <1>1 DEF OpToRel
<1> QED
  BY <1>2

\* What KeptUpTo defines recursively, up to the first m elements.
Keeps(f, s, S, m) ==
    f = [n \in 0..m |->
            IF n = 0 THEN <<>>
            ELSE IF s[n] \in S THEN Append(f[n - 1], s[n]) ELSE f[n - 1]]

LEMMA KeepsExists ==
    ASSUME NEW s, NEW S, NEW m \in Nat
    PROVE  \E f : Keeps(f, s, S, m)
<1> DEFINE Bad == {k \in Nat : ~ \E f : Keeps(f, s, S, k)}
<1>1. SUFFICES ASSUME Bad # {} PROVE FALSE
  OBVIOUS
<1>2. PICK k \in Bad : \A l \in Bad : k <= l
  <2>1. Bad \in SUBSET Nat
    OBVIOUS
  <2> HIDE DEF Bad
  <2> QED
    BY <1>1, <2>1, LeastNatural
<1>3. k # 0
  <2>1. PICK f : f = [n \in 0..0 |-> <<>>]
    OBVIOUS
  <2>2. Keeps(f, s, S, 0)
    BY <2>1 DEF Keeps
  <2> QED
    BY <1>2, <2>2
<1>4. k - 1 \in Nat /\ k - 1 \notin Bad
  BY <1>2, <1>3
<1>5. PICK f : Keeps(f, s, S, k - 1)
  BY <1>4
<1>6. PICK g : g = [n \in 0..k |->
                      IF n < k THEN f[n]
                      ELSE IF s[n] \in S THEN Append(f[n - 1], s[n]) ELSE f[n - 1]]
  OBVIOUS
<1>7. ASSUME NEW n \in 0..k
      PROVE  g[n] = IF n = 0 THEN <<>>
                    ELSE IF s[n] \in S THEN Append(g[n - 1], s[n]) ELSE g[n - 1]
  <2>1. n # 0 => g[n - 1] = f[n - 1]
    BY <1>2, <1>6
  <2>2. CASE n < k
    <3>1. n \in 0..(k - 1) /\ g[n] = f[n]
      BY <1>2, <1>6, <2>2
    <3>2. f[n] = IF n = 0 THEN <<>>
                 ELSE IF s[n] \in S THEN Append(f[n - 1], s[n]) ELSE f[n - 1]
      BY <1>5, <3>1 DEF Keeps
    <3> QED
      BY <2>1, <3>1, <3>2
  <2>3. CASE n = k
    <3>1. g[n] = IF s[n] \in S THEN Append(f[n - 1], s[n]) ELSE f[n - 1]
      BY <1>2, <1>6, <2>3
    <3> QED
      BY <1>3, <2>1, <2>3, <3>1
  <2> QED
    BY <1>2, <2>2, <2>3
<1>8. Keeps(g, s, S, k)
  <2>1. g = [n \in 0..k |-> g[n]]
    BY <1>6
  <2> QED
    BY <1>7, <2>1 DEF Keeps
<1> QED
  BY <1>2, <1>8

LEMMA KeptSteps ==
    ASSUME NEW T, NEW s \in Seq(T), NEW S
    PROVE  /\ KeptUpTo(s, S)[0] = <<>>
           /\ \A n \in 1..Len(s) :
                 KeptUpTo(s, S)[n] = IF s[n] \in S THEN Append(KeptUpTo(s, S)[n - 1], s[n])
                                     ELSE KeptUpTo(s, S)[n - 1]
<1> DEFINE f == CHOOSE f : Keeps(f, s, S, Len(s))
<1>1. Len(s) \in Nat
  OBVIOUS
<1>2. Keeps(f, s, S, Len(s))
  BY <1>1, KeepsExists
<1>3. KeptUpTo(s, S) = f
  BY DEF KeptUpTo, Keeps
<1> HIDE DEF f
<1>4. 0 \in 0..Len(s) /\ \A n \in 1..Len(s) : n \in 0..Len(s) /\ n # 0
  BY <1>1
<1>5. f[0] = <<>>
  BY <1>2, <1>4 DEF Keeps
<1>6. \A n \in 1..Len(s) : f[n] = IF s[n] \in S THEN Append(f[n - 1], s[n]) ELSE f[n - 1]
  BY <1>2, <1>4 DEF Keeps
<1> QED
  BY <1>3, <1>5, <1>6

\* The elements kept are those that are in S, each as often as before.
LEMMA KeptFacts ==
    ASSUME NEW T, NEW s \in Seq(T), NEW S
    PROVE  /\ Kept(s, S) \in Seq(T)
           /\ ToSet(Kept(s, S)) = ToSet(s) \cap S
           /\ (\A i, j \in 1..Len(s) : s[i] = s[j] => i = j)
                => \A i, j \in 1..Len(Kept(s, S)) : Kept(s, S)[i] = Kept(s, S)[j] => i = j
<1>1. PICK f, len : f = KeptUpTo(s, S) /\ len = Len(s)
  OBVIOUS
<1>2. /\ f[0] = <<>> /\ len \in Nat
      /\ \A n \in 1..len : f[n] = IF s[n] \in S THEN Append(f[n - 1], s[n]) ELSE f[n - 1]
  BY <1>1, KeptSteps
<1> DEFINE Once(t) == \A i, j \in 1..Len(t) : t[i] = t[j] => i = j
           Good(n) == /\ f[n] \in Seq(T)
                      /\ \A x : (\E i \in 1..Len(f[n]) : f[n][i] = x)
                                  <=> (x \in S /\ \E i \in 1..n : s[i] = x)
                      /\ Once(s) => Once(f[n])
           Bad == {n \in 0..len : ~Good(n)}
<1>3. Bad = {}
  <2>1. SUFFICES ASSUME Bad # {} PROVE FALSE
    OBVIOUS
  <2>2. PICK n \in Bad : \A k \in Bad : n <= k
    <3>1. Bad \in SUBSET Nat
      BY <1>2
    <3> HIDE DEF Bad
    <3> QED
      BY <2>1, <3>1, LeastNatural
  <2>3. n # 0
    <3>1. Len(f[0]) = 0 /\ f[0] \in Seq(T)
      BY <1>2
    <3>2. Good(0)
      BY <3>1
    <3> HIDE DEF Good
    <3> QED
      BY <2>2, <3>2
  <2>4. n - 1 \in 0..len /\ n \in 1..len /\ Good(n - 1)
    <3> HIDE DEF Good
    <3>0. n \in 0..len
      OBVIOUS
    <3>1. n - 1 \in 0..len /\ n \in 1..len /\ ~ (n <= n - 1)
      BY <1>2, <2>3, <3>0
    <3>2. n - 1 \notin Bad
      BY <2>2, <3>1
    <3> QED
      BY <3>1, <3>2
  <2>5. PICK t, u, x : t = f[n - 1] /\ u = f[n] /\ x = s[n]
    OBVIOUS
  <2>6. /\ t \in Seq(T) /\ x \in T
        /\ \A y : (\E i \in 1..Len(t) : t[i] = y) <=> (y \in S /\ \E i \in 1..(n - 1) : s[i] = y)
        /\ Once(s) => Once(t)
        /\ u = IF x \in S THEN Append(t, x) ELSE t
    <3>1. /\ t \in Seq(T)
          /\ \A y : (\E i \in 1..Len(t) : t[i] = y) <=> (y \in S /\ \E i \in 1..(n - 1) : s[i] = y)
          /\ Once(s) => Once(t)
      BY <2>4, <2>5, Zenon
    <3>2. x \in T
      BY <1>1, <2>4, <2>5
    <3>3. u = IF x \in S THEN Append(t, x) ELSE t
      BY <1>2, <2>4, <2>5, Zenon
    <3> QED
      BY <3>1, <3>2, <3>3
  <2>7. \A y : (\E i \in 1..n : s[i] = y) <=> ((\E i \in 1..(n - 1) : s[i] = y) \/ y = x)
    <3>1. \A i \in 1..n : i \in 1..(n - 1) \/ i = n
      BY <1>2, <2>4
    <3>2. n \in 1..n /\ \A i \in 1..(n - 1) : i \in 1..n
      BY <1>2, <2>4
    <3> QED
      BY <2>5, <3>1, <3>2
  <2>8. /\ u \in Seq(T)
        /\ \A y : (\E i \in 1..Len(u) : u[i] = y) <=> (y \in S /\ \E i \in 1..n : s[i] = y)
        /\ Once(s) => Once(u)
    <3>1. CASE x \notin S
      BY <2>6, <2>7, <3>1
    <3>2. CASE x \in S
      <4>1. /\ u \in Seq(T) /\ Len(t) \in Nat /\ Len(u) = Len(t) + 1 /\ u[Len(t) + 1] = x
            /\ \A i \in 1..Len(t) : u[i] = t[i]
        BY <2>6, <3>2
      <4>2. \A i \in 1..Len(u) : i \in 1..Len(t) \/ i = Len(t) + 1
        BY <4>1
      <4>3. Len(t) + 1 \in 1..Len(u) /\ \A i \in 1..Len(t) : i \in 1..Len(u)
        BY <4>1
      <4>4. \A y : (\E i \in 1..Len(u) : u[i] = y) <=> ((\E i \in 1..Len(t) : t[i] = y) \/ y = x)
        BY <4>1, <4>2, <4>3
      <4>5. ASSUME Once(s) PROVE Once(u)
        <5>1. \A i \in 1..Len(t) : t[i] # x
          <6>1. \A i \in 1..(n - 1) : s[i] # x
            <7>1. \A i \in 1..(n - 1) : i \in 1..Len(s) /\ i # n /\ n \in 1..Len(s)
              BY <1>1, <1>2, <2>4
            <7> QED
              BY <2>5, <4>5, <7>1
          <6> QED
            BY <2>6, <6>1
        <5>2. Once(t)
          BY <2>6, <4>5
        <5> QED
          BY <4>1, <4>2, <5>1, <5>2
      <4> QED
        BY <2>6, <2>7, <3>2, <4>1, <4>4, <4>5
    <3> QED
      BY <3>1, <3>2
  <2>9. Good(n)
    BY <2>5, <2>8
  <2> HIDE DEF Good
  <2> QED
    BY <2>2, <2>9
<1>4. Good(len)
  <2>1. len \in 0..len
    BY <1>2
  <2> HIDE DEF Good
  <2> QED
    BY <1>3, <2>1
<1>5. PICK k : k = f[len]
  OBVIOUS
<1>6. Kept(s, S) = k
  BY <1>1, <1>5 DEF Kept
<1>7. /\ k \in Seq(T)
      /\ \A x : (\E i \in 1..Len(k) : k[i] = x) <=> (x \in S /\ \E i \in 1..len : s[i] = x)
      /\ Once(s) => Once(k)
  BY <1>4, <1>5
<1>8. ToSet(k) = ToSet(s) \cap S
  <2>1. DOMAIN k = 1..Len(k) /\ DOMAIN s = 1..len
    BY <1>1, <1>7
  <2> QED
    BY <1>7, <2>1 DEF ToSet
<1> QED
  BY <1>6, <1>7, <1>8

-----------------------------------------------------------------------------
AlikeUpTo(s, S, R, a) == \A i \in 1..a : s[i] \in S <=> s[i] \in R
NoneAfter(s, R, a, b) == \A i \in 1..b : a < i => s[i] \notin R

\* Of the first b elements those in R are kept, and of the first a those in S.  If the
\* two agree as far as a, and R has nothing after it, then the same are kept.
LEMMA KeptAgree ==
    ASSUME NEW T, NEW s \in Seq(T), NEW S, NEW R,
           NEW a \in Nat, NEW b \in Nat, a <= b, b <= Len(s),
           AlikeUpTo(s, S, R, a),
           NoneAfter(s, R, a, b)
    PROVE  KeptUpTo(s, S)[a] = KeptUpTo(s, R)[b]
<1>1. PICK f, g, len : f = KeptUpTo(s, S) /\ g = KeptUpTo(s, R) /\ len = Len(s)
  OBVIOUS
<1>2. /\ f[0] = <<>> /\ g[0] = <<>> /\ len \in Nat
      /\ \A n \in 1..len : f[n] = IF s[n] \in S THEN Append(f[n - 1], s[n]) ELSE f[n - 1]
      /\ \A n \in 1..len : g[n] = IF s[n] \in R THEN Append(g[n - 1], s[n]) ELSE g[n - 1]
  BY <1>1, KeptSteps
<1> DEFINE Agrees(n) == g[n] = IF n <= a THEN f[n] ELSE f[a]
           Bad == {n \in 0..b : ~Agrees(n)}
<1>3. Bad = {}
  <2>1. SUFFICES ASSUME Bad # {} PROVE FALSE
    OBVIOUS
  <2>2. PICK n \in Bad : \A k \in Bad : n <= k
    <3>1. Bad \in SUBSET Nat
      OBVIOUS
    <3> HIDE DEF Bad
    <3> QED
      BY <2>1, <3>1, LeastNatural
  <2>3. n # 0
    <3>1. Agrees(0)
      BY <1>2
    <3> HIDE DEF Agrees
    <3> QED
      BY <2>2, <3>1
  <2>4. n - 1 \in 0..b /\ n \in 1..b /\ n \in 1..len /\ Agrees(n - 1)
    <3> HIDE DEF Agrees
    <3>0. n \in 0..b
      OBVIOUS
    <3>1. n - 1 \in 0..b /\ n \in 1..b /\ n \in 1..len /\ ~ (n <= n - 1)
      BY <1>1, <1>2, <2>3, <3>0
    <3>2. n - 1 \notin Bad
      BY <2>2, <3>1
    <3> QED
      BY <3>1, <3>2
  <2>5. CASE n <= a
    <3>1. n \in 1..a /\ n - 1 <= a
      BY <2>4, <2>5
    <3>2. g[n - 1] = f[n - 1] /\ (s[n] \in S <=> s[n] \in R)
      BY <2>4, <3>1 DEF AlikeUpTo
    <3>3. g[n] = f[n]
      BY <1>2, <2>4, <3>2
    <3> QED
      BY <2>2, <2>5, <3>3
  <2>6. CASE ~ (n <= a)
    <3>1. s[n] \notin R
      BY <2>4, <2>6 DEF NoneAfter
    <3>2. g[n - 1] = f[a]
      <4>1. CASE n - 1 <= a
        <5>1. n - 1 = a
          BY <2>4, <2>6, <4>1
        <5> QED
          BY <2>4, <4>1, <5>1
      <4>2. CASE ~ (n - 1 <= a)
        BY <2>4, <4>2
      <4> QED
        BY <4>1, <4>2
    <3>3. g[n] = f[a]
      BY <1>2, <2>4, <3>1, <3>2
    <3> QED
      BY <2>2, <2>6, <3>3
  <2> QED
    BY <2>5, <2>6
<1>4. Agrees(b)
  <2>1. b \in 0..b
    OBVIOUS
  <2> HIDE DEF Agrees
  <2> QED
    BY <1>3, <2>1
<1>5. g[b] = f[a]
  <2>1. CASE b <= a
    <3>1. b = a
      BY <2>1
    <3> QED
      BY <1>4, <2>1, <3>1
  <2>2. CASE ~ (b <= a)
    BY <1>4, <2>2
  <2> QED
    BY <2>1, <2>2
<1> QED
  BY <1>1, <1>5

-----------------------------------------------------------------------------
(* The rows of the join *)

LEMMA PresentFinite ==
    ASSUME present \subseteq Mids
    PROVE  /\ IsFiniteSet(present) /\ Cardinality(present) \in Nat
           /\ \A m \in present : m \in Nat
<1>1. present \in SUBSET Mids /\ IsFiniteSet(Mids) /\ Mids \subseteq Nat
  BY MidsAssumption
<1> QED
  BY <1>1, FS_Subset, FS_CardinalityType

LEMMA RelatedFinite ==
    ASSUME related \subseteq Mids
    PROVE  /\ IsFiniteSet(related) /\ Cardinality(related) \in Nat
           /\ \A m \in related : m \in Nat
<1>1. related \in SUBSET Mids /\ IsFiniteSet(Mids) /\ Mids \subseteq Nat
  BY MidsAssumption
<1> QED
  BY <1>1, FS_Subset, FS_CardinalityType

Before(m) == {l \in related : l < m}

\* RowOrder lists each message of the join once.
LEMMA RowFacts ==
    ASSUME related \subseteq Mids
    PROVE  /\ RowOrder \in Seq(related) /\ Len(RowOrder) = Cardinality(related)
           /\ ToSet(RowOrder) = related
           /\ \A i, j \in 1..Len(RowOrder) : RowOrder[i] = RowOrder[j] => i = j
<1>1. PICK n : n = Cardinality(related)
  OBVIOUS
<1>2. n \in Nat /\ IsFiniteSet(related) /\ \A m \in related : m \in Nat
  BY <1>1, RelatedFinite
<1>3. ASSUME NEW m \in related
      PROVE  Cardinality(Before(m)) \in 0..(n - 1) /\ IsFiniteSet(Before(m))
  <2>1. Before(m) \in SUBSET related /\ m \notin Before(m)
    BY <1>2 DEF Before
  <2>2. /\ IsFiniteSet(Before(m)) /\ Cardinality(Before(m)) <= n
        /\ n = Cardinality(Before(m)) => related = Before(m)
    BY <1>1, <1>2, <2>1, FS_Subset
  <2>3. Cardinality(Before(m)) \in Nat
    BY <2>2, FS_CardinalityType
  <2> QED
    BY <1>2, <2>1, <2>2, <2>3
<1>4. ASSUME NEW l \in related, NEW m \in related, l < m
      PROVE  Cardinality(Before(l)) # Cardinality(Before(m))
  <2>1. /\ Before(l) \in SUBSET Before(m)
        /\ l \in Before(m) /\ l \notin Before(l)
    BY <1>2, <1>4 DEF Before
  <2>2. Cardinality(Before(m)) = Cardinality(Before(l)) => Before(m) = Before(l)
    BY <1>3, <2>1, FS_Subset
  <2> QED
    BY <2>1, <2>2
<1>5. \A l, m \in related : Cardinality(Before(l)) = Cardinality(Before(m)) => l = m
  <2>1. \A l, m \in related : l < m \/ m < l \/ l = m
    BY <1>2
  <2> QED
    BY <1>4, <2>1
<1> DEFINE place == [m \in related |-> Cardinality(Before(m)) + 1]
<1>6. \A m \in related : place[m] \in 1..n /\ place[m] - 1 = Cardinality(Before(m))
  BY <1>2, <1>3
<1>7. \A l, m \in related : place[l] = place[m] => l = m
  BY <1>5, <1>6
<1>8. place \in [related -> 1..n]
  BY <1>6
<1> HIDE DEF place
<1>9. place \in Surjection(related, 1..n)
  <2>1. place \in Injection(related, 1..n)
    BY <1>7, <1>8 DEF Injection, IsInjective
  <2>2. IsFiniteSet(1..n) /\ Cardinality(1..n) = n
    BY <1>2, FS_Interval
  <2> QED
    BY <1>1, <1>2, <2>1, <2>2, FS_Injection
<1>10. ASSUME NEW i \in 1..n
       PROVE  RowOrder[i] \in related /\ Cardinality(Before(RowOrder[i])) = i - 1
  <2>1. PICK m \in related : place[m] = i
    BY <1>9 DEF Surjection
  <2>2. Cardinality(Before(m)) = i - 1
    BY <1>6, <2>1
  <2>3. RowOrder[i] = CHOOSE l \in related : Cardinality(Before(l)) = i - 1
    BY <1>1, <1>10 DEF RowOrder, Before
  <2> QED
    BY <2>2, <2>3
<1>11. RowOrder \in Seq(related) /\ Len(RowOrder) = n
  <2>1. PICK f : f = [i \in 1..n |->
                        CHOOSE m \in related : Cardinality({l \in related : l < m}) = i - 1]
    OBVIOUS
  <2>2. RowOrder = f
    BY <1>1, <2>1 DEF RowOrder
  <2>3. f \in [1..n -> related]
    BY <1>10, <2>1, <2>2
  <2>4. f \in Seq(related) /\ Len(f) = n
    <3>1. n \in Nat
      BY <1>2
    <3> QED
      BY <2>3, <3>1
  <2> QED
    BY <2>2, <2>4
<1>12. ASSUME NEW m \in related
       PROVE  \E i \in 1..n : RowOrder[i] = m
  <2>1. place[m] \in 1..n /\ Cardinality(Before(m)) = place[m] - 1
    BY <1>6
  <2>2. /\ RowOrder[place[m]] \in related
        /\ Cardinality(Before(RowOrder[place[m]])) = place[m] - 1
    BY <1>10, <2>1
  <2>3. RowOrder[place[m]] = m
    BY <1>5, <2>1, <2>2
  <2> QED
    BY <2>1, <2>3
<1>13. ToSet(RowOrder) = related
  <2>1. DOMAIN RowOrder = 1..n
    BY <1>11
  <2> QED
    BY <1>10, <1>12, <2>1 DEF ToSet
<1>14. ASSUME NEW i \in 1..n, NEW j \in 1..n, RowOrder[i] = RowOrder[j]
       PROVE  i = j
  <2>1. i - 1 = j - 1
    BY <1>10, <1>14
  <2> QED
    BY <1>2, <2>1
<1> QED
  BY <1>1, <1>11, <1>13, <1>14

-----------------------------------------------------------------------------
(* Fingerprints and counts *)

\* Distance is a metric.
LEMMA Triangle ==
    ASSUME NEW x \in Fingerprints, NEW y \in Fingerprints, NEW z \in Fingerprints
    PROVE  /\ Distance(x, y) \in Nat /\ Distance(y, z) \in Nat /\ Distance(x, z) \in Nat
           /\ Distance(x, z) <= Distance(x, y) + Distance(y, z)
<1>1. PICK A, B, C : /\ A = (x \ y) \cup (y \ x)
                     /\ B = (y \ z) \cup (z \ y)
                     /\ C = (x \ z) \cup (z \ x)
  OBVIOUS
<1>2. \A u, v \in Fingerprints : IsFiniteSet((u \ v) \cup (v \ u))
  <2> SUFFICES ASSUME NEW u \in Fingerprints, NEW v \in Fingerprints
               PROVE  IsFiniteSet((u \ v) \cup (v \ u))
    OBVIOUS
  <2>1. IsFiniteSet(u \cup v)
    BY FingerprintsAssumption, FS_Union
  <2>2. (u \ v) \cup (v \ u) \in SUBSET (u \cup v)
    OBVIOUS
  <2> QED
    BY <2>1, <2>2, FS_Subset
<1>3. IsFiniteSet(A) /\ IsFiniteSet(B) /\ IsFiniteSet(C)
  BY <1>1, <1>2
<1>4. C \in SUBSET (A \cup B)
  BY <1>1
<1>5. /\ IsFiniteSet(A \cup B)
      /\ Cardinality(A \cup B) = Cardinality(A) + Cardinality(B) - Cardinality(A \cap B)
  BY <1>3, FS_Union
<1>6. IsFiniteSet(A \cap B)
  <2>1. A \cap B \in SUBSET A
    OBVIOUS
  <2> QED
    BY <1>3, <2>1, FS_Subset
<1>7. /\ Cardinality(A) \in Nat /\ Cardinality(B) \in Nat /\ Cardinality(C) \in Nat
      /\ Cardinality(A \cap B) \in Nat /\ Cardinality(A \cup B) \in Nat
  BY <1>3, <1>5, <1>6, FS_CardinalityType
<1>8. Cardinality(C) <= Cardinality(A \cup B)
  BY <1>4, <1>5, FS_Subset
<1>9. Cardinality(C) <= Cardinality(A) + Cardinality(B)
  BY <1>5, <1>7, <1>8
<1>10. /\ Distance(x, y) = Cardinality(A) /\ Distance(y, z) = Cardinality(B)
       /\ Distance(x, z) = Cardinality(C)
  BY <1>1 DEF Distance
<1> QED
  BY <1>7, <1>9, <1>10

\* The highest of some numbers that have a bound.
LEMMA MaxFacts ==
    ASSUME NEW N \in SUBSET Nat, N # {}, NEW b \in Nat, \A n \in N : n <= b
    PROVE  Max(N) \in N /\ \A n \in N : n <= Max(N)
<1>1. PICK D : D = {b - n : n \in N}
  OBVIOUS
<1>2. D \in SUBSET Nat /\ D # {}
  <2>1. \A n \in N : b - n \in Nat
    OBVIOUS
  <2> QED
    BY <1>1, <2>1, Zenon
<1>3. PICK d \in D : \A e \in D : d <= e
  BY <1>2, LeastNatural
<1>4. PICK m \in N : d = b - m
  BY <1>1, <1>3
<1>5. \A n \in N : m >= n
  <2> SUFFICES ASSUME NEW n \in N PROVE m >= n
    OBVIOUS
  <2>1. b - n \in D
    BY <1>1
  <2>2. m \in Nat /\ n \in Nat /\ b - m <= b - n
    BY <1>3, <1>4, <2>1
  <2> QED
    BY <2>2
<1>6. /\ Max(N) = CHOOSE x \in N : \A y \in N : x >= y
  BY DEF Max
<1>7. Max(N) \in N /\ \A n \in N : Max(N) >= n
  BY <1>5, <1>6
<1>8. Max(N) \in Nat /\ \A n \in N : n \in Nat
  BY <1>7
<1> QED
  BY <1>7, <1>8

-----------------------------------------------------------------------------
(* Reading and counting *)

Good == {m \in Mids : attr[m].parsed}

\* Where the run stands in the join: at is the number of the last row it parsed or had
\* to pass over.  The rows of the page follow, and after them, as far as the run has
\* counted, only rows that the database did not deliver; none is missed after that.
Stands(at) ==
    /\ at \in 0..Len(RowOrder) /\ at <= rows - left
    /\ \A i \in 1..Len(blogs) :
          at + i \in 1..Len(RowOrder) /\ at + i <= rows - left /\ blogs[i] = RowOrder[at + i]
    /\ \A i \in 1..Len(RowOrder) : RowOrder[i] \in missed => i <= rows - left
    /\ \A i \in 1..Len(blogs) : blogs[i] \notin missed
    /\ \A i \in 1..Len(RowOrder) :
          at + Len(blogs) < i /\ i <= rows - left => RowOrder[i] \in missed
    /\ parsed = KeptUpTo(RowOrder, Good \ missed)[at]

ShapeInv ==
    /\ pc \in {"start", "open", "read", "create", "insert", "output", "ended"}
    /\ attr \in [Mids -> Attribute] /\ attr \in Attributes
    /\ present \subseteq Mids
    /\ related \subseteq present
    /\ rows \in Nat /\ left \in 0..rows
    /\ blogs \in Seq(Mids)
    /\ missed \subseteq Mids
    /\ ref \in [DOMAIN ref -> Nat \ {0}] /\ DOMAIN ref \subseteq Fingerprints
    /\ parsed \in Seq(Mids)
    /\ inserts \in Seq(Mids)
    /\ runs \in 1..MaxRuns
    /\ grew \in BOOLEAN
    /\ pc \in {"start", "open", "ended"} =>
          blogs = <<>> /\ missed = {} /\ parsed = <<>> /\ ref = NoCounts

\* While the tables have not grown, what was parsed are the rows up to some place but
\* for the missed ones.
PageInv ==
    pc = "read" /\ ~grew => rows = Cardinality(present) /\ \E at \in Nat : Stands(at)

\* Each text was counted for a representative within distance 2, and the counts
\* are the numbers of these texts.
CountInv ==
    \E a \in [1..Len(parsed) -> DOMAIN ref] :
        /\ \A j \in 1..Len(parsed) : Distance(attr[parsed[j]].fp, a[j]) <= 2
        /\ \A k \in DOMAIN ref : Cardinality({j \in 1..Len(parsed) : a[j] = k}) = ref[k]

SiftInv == pc = "create" => inserts = Kept(parsed, {m \in Mids : Survives(m)})

ReadInv == ShapeInv /\ PageInv /\ CountInv /\ ReadsEachMessageOnce /\ SiftInv

LEMMA Seqs ==
    ASSUME NEW S
    PROVE  /\ <<>> \in Seq(S) /\ Len(<<>>) = 0
           /\ \A s \in Seq(S) : Len(s) \in Nat /\ (s = <<>> <=> Len(s) = 0)
OBVIOUS

LEMMA CountsCleared ==
    ASSUME parsed = <<>>, ref = NoCounts
    PROVE  /\ CountInv
           /\ ref \in [DOMAIN ref -> Nat \ {0}] /\ DOMAIN ref = {}
<1>1. DOMAIN ref = {} /\ ref = [x \in {} |-> 0]
  BY DEF NoCounts
<1>2. 1..Len(parsed) = {}
  OBVIOUS
<1>3. PICK a : a = [j \in {} |-> 0]
  OBVIOUS
<1>4. a \in [1..Len(parsed) -> DOMAIN ref]
  BY <1>1, <1>2, <1>3
<1> QED
  BY <1>1, <1>2, <1>4 DEF CountInv

\* Steps on which neither the counts nor what they count change.
LEMMA CountsKept ==
    ASSUME CountInv, UNCHANGED <<attr, ref, parsed>>
    PROVE  CountInv'
BY DEF CountInv, Distance

LEMMA SurvivesKept ==
    ASSUME UNCHANGED <<attr, ref>>
    PROVE  \A m : Survives(m)' <=> Survives(m)
BY DEF Survives, GetRefCount, Keys, Distance, Max

\* RowOrder depends on the join only, and what is kept of it on the attributes and the
\* missed rows.
LEMMA RowsKept ==
    ASSUME UNCHANGED <<related, attr>>
    PROVE  RowOrder' = RowOrder /\ Good' = Good
BY DEF RowOrder, Good

LEMMA StandsKept ==
    ASSUME UNCHANGED <<related, attr, rows, left, blogs, missed, parsed>>,
           NEW at \in Nat, Stands(at)
    PROVE  Stands(at)'
BY RowsKept DEF Stands, KeptUpTo

\* A page is the rows of the join from an offset on, as far as there are rows.
LEMMA PageFacts ==
    ASSUME related \subseteq Mids, NEW off \in Nat, NEW n \in Nat
    PROVE  /\ Page(off, n) \in Seq(Mids) /\ Len(Page(off, n)) <= n
           /\ \A i \in 1..Len(Page(off, n)) :
                 off + i \in 1..Len(RowOrder) /\ Page(off, n)[i] = RowOrder[off + i]
           /\ \A i \in 1..Len(RowOrder) : off < i /\ i <= off + n => i - off \in 1..Len(Page(off, n))
<1>1. PICK c, s : c = Cardinality(related) /\ s = RowOrder
  OBVIOUS
<1>2. c \in Nat /\ s \in Seq(related) /\ Len(s) = c
  BY <1>1, RelatedFinite, RowFacts
<1>3. PICK end : end = Min({off + n, c})
  OBVIOUS
<1>4. end \in {off + n, c} /\ end <= c /\ end <= off + n
  <2>1. \E x \in {off + n, c} : \A y \in {off + n, c} : x <= y
    BY <1>1, <1>2
  <2>2. /\ Min({off + n, c}) \in {off + n, c}
        /\ \A y \in {off + n, c} : Min({off + n, c}) <= y
    BY <2>1 DEF Min
  <2> QED
    BY <1>2, <1>3, <2>2
<1>5. PICK p : p = SubSeq(s, off + 1, end)
  OBVIOUS
<1>6. Page(off, n) = p
  BY <1>1, <1>3, <1>5 DEF Page
<1>7. s \in Seq(Mids) /\ end \in Nat
  BY <1>2, <1>4
<1>8. CASE end < off + 1
  <2>1. p = <<>>
    BY <1>5, <1>7, <1>8
  <2>2. \A i \in 1..c : ~(off < i /\ i <= off + n)
    BY <1>2, <1>4, <1>7, <1>8
  <2>3. p \in Seq(Mids) /\ Len(p) = 0
    BY <2>1
  <2>4. Len(p) <= n /\ \A i \in 1..Len(p) : FALSE
    BY <2>3
  <2> QED
    BY <1>1, <1>2, <1>6, <2>2, <2>3, <2>4
<1>9. CASE ~(end < off + 1)
  <2>1. Len(p) = end - off /\ \A i \in 1..Len(p) : p[i] = s[off + i]
    BY <1>2, <1>4, <1>5, <1>7, <1>9
  <2>2. p \in Seq(Mids)
    BY <1>2, <1>4, <1>5, <1>7, <1>9
  <2>3. Len(p) <= n /\ \A i \in 1..Len(p) : off + i \in 1..c
    BY <1>2, <1>4, <1>7, <1>9, <2>1
  <2>4. \A i \in 1..c : off < i /\ i <= off + n => i - off \in 1..Len(p)
    BY <1>2, <1>4, <1>7, <1>9, <2>1
  <2> QED
    BY <1>1, <1>2, <1>6, <2>1, <2>2, <2>3, <2>4
<1> QED
  BY <1>7, <1>8, <1>9

LEMMA ReadInit == Init => ReadInv
<1> SUFFICES ASSUME Init PROVE ReadInv
  OBVIOUS
<1>1. /\ pc = "start" /\ attr \in Attributes
      /\ rows = 0 /\ left = 0 /\ blogs = <<>> /\ missed = {} /\ ref = NoCounts /\ parsed = <<>>
      /\ inserts = <<>> /\ runs = 1 /\ grew = FALSE
  BY DEF Init
<1>2. CountInv /\ ref \in [DOMAIN ref -> Nat \ {0}] /\ DOMAIN ref = {}
  BY <1>1, CountsCleared
<1>3. blogs \in Seq(Mids) /\ parsed \in Seq(Mids) /\ inserts \in Seq(Mids) /\ Len(blogs) = 0
  BY <1>1, Seqs
<1>4. /\ attr \in [Mids -> Attribute] /\ runs \in 1..MaxRuns
      /\ present \subseteq Mids /\ related \subseteq present
  <2>1. PICK t \in Tables : present = t.messages /\ related = t.related
    BY DEF Init
  <2> QED
    BY <1>1, <2>1, AttributesAssumption, TablesAssumption, RunsAssumption
<1>5. ShapeInv
  <2>1. rows \in Nat /\ left \in 0..rows /\ missed \subseteq Mids
    BY <1>1, <1>3
  <2>2. pc \in {"start", "open", "read", "create", "insert", "output", "ended"}
    BY <1>1
  <2>3. grew \in BOOLEAN
    BY <1>1
  <2>4. ref \in [DOMAIN ref -> Nat \ {0}] /\ DOMAIN ref \subseteq Fingerprints
    BY <1>2
  <2> QED
    BY <1>1, <1>3, <1>4, <2>1, <2>2, <2>3, <2>4, Zenon DEF ShapeInv
<1> QED
  BY <1>1, <1>2, <1>5 DEF ReadInv, PageInv, ReadsEachMessageOnce, SiftInv

\* Steps that leave the rows, the page, the texts and the counts alone.
LEMMA MemoryKept ==
    ASSUME ReadInv, UNCHANGED <<attr, memory>>,
           pc' \in {"start", "open", "read", "create", "insert", "output", "ended"},
           pc' \in {"start", "open", "ended"} => pc \in {"start", "open", "ended"},
           pc' \in {"read", "create"} => pc' = pc,
           present' \subseteq Mids, related' \subseteq present',
           pc' \in {"read", "create"} /\ ~grew' => ~grew /\ UNCHANGED tables,
           grew' \in BOOLEAN, runs' \in 1..MaxRuns
    PROVE  ReadInv'
<1>0. ShapeInv /\ PageInv /\ CountInv /\ ReadsEachMessageOnce /\ SiftInv
  BY DEF ReadInv
<1>1. UNCHANGED <<rows, left, blogs, missed, ref, parsed, inserts>>
  BY DEF memory
<1>2. ShapeInv'
  <2>1. pc' \in {"start", "open", "ended"} =>
            blogs = <<>> /\ missed = {} /\ parsed = <<>> /\ ref = NoCounts
    BY <1>0 DEF ShapeInv
  <2>2. NoCounts' = NoCounts
    BY DEF NoCounts
  <2> QED
    BY <1>0, <1>1, <2>1, <2>2 DEF ShapeInv
<1>3. PageInv'
  <2> SUFFICES ASSUME pc' = "read", ~grew' PROVE PageInv'
    BY DEF PageInv
  <2>1. pc = "read" /\ ~grew /\ UNCHANGED <<present, related, attr>>
    BY DEF tables
  <2>2. PICK at \in Nat : Stands(at)
    BY <1>0, <2>1 DEF PageInv
  <2>3. Stands(at)'
    BY <1>1, <2>1, <2>2, StandsKept
  <2>4. rows = Cardinality(present)
    BY <1>0, <2>1 DEF PageInv
  <2> QED
    BY <1>1, <2>1, <2>3, <2>4 DEF PageInv
<1>4. CountInv'
  BY <1>0, <1>1, CountsKept
<1>5. ReadsEachMessageOnce'
  <2> SUFFICES ASSUME pc' = "create", ~grew' PROVE ReadsEachMessageOnce'
    BY DEF ReadsEachMessageOnce
  <2>1. pc = "create" /\ ~grew /\ UNCHANGED <<related, attr>>
    BY DEF tables
  <2>2. parsed = Kept(RowOrder, Good \ missed)
    BY <1>0, <2>1 DEF ReadsEachMessageOnce, Good
  <2>3. RowOrder' = RowOrder /\ Good' = Good
    BY <2>1, RowsKept
  <2>4. parsed' = Kept(RowOrder', Good' \ missed')
    BY <1>1, <2>2, <2>3
  <2> QED
    BY <2>4 DEF ReadsEachMessageOnce, Good, Kept, KeptUpTo
<1>6. SiftInv'
  <2> SUFFICES ASSUME pc' = "create" PROVE SiftInv'
    BY DEF SiftInv
  <2>1. pc = "create"
    OBVIOUS
  <2>2. inserts = Kept(parsed, {m \in Mids : Survives(m)})
    BY <1>0, <2>1 DEF SiftInv
  <2>3. {m \in Mids : Survives(m)'} = {m \in Mids : Survives(m)}
    BY <1>1, SurvivesKept
  <2> QED
    BY <1>1, <2>2, <2>3 DEF SiftInv, Kept, KeptUpTo
<1> QED
  BY <1>2, <1>3, <1>4, <1>5, <1>6 DEF ReadInv

\* The end of a run, orderly or not.
LEMMA MemoryCleared ==
    ASSUME ReadInv, Cleared, pc' = "ended", UNCHANGED <<attr, tables, runs, grew>>
    PROVE  ReadInv'
<1>0. ShapeInv
  BY DEF ReadInv
<1>1. /\ rows' = 0 /\ left' = 0 /\ blogs' = <<>> /\ missed' = {} /\ ref' = NoCounts
      /\ parsed' = <<>> /\ inserts' = <<>>
  BY DEF Cleared
<1>2. NoCounts' = NoCounts
  BY DEF NoCounts
<1>3. CountInv' /\ ref' \in [DOMAIN ref' -> Nat \ {0}] /\ DOMAIN ref' = {}
  <2>1. DOMAIN ref' = {} /\ ref' = [x \in {} |-> 0]
    BY <1>1 DEF NoCounts
  <2>2. 1..Len(parsed') = {}
    BY <1>1
  <2>3. PICK a : a = [j \in {} |-> 0]
    OBVIOUS
  <2>4. a \in [1..Len(parsed') -> DOMAIN ref']
    BY <2>1, <2>2, <2>3
  <2> QED
    BY <2>1, <2>2, <2>4 DEF CountInv
<1>4. blogs' \in Seq(Mids) /\ parsed' \in Seq(Mids) /\ inserts' \in Seq(Mids) /\ Len(blogs') = 0
  BY <1>1, Seqs
<1>5. ShapeInv'
  <2>1. rows' \in Nat /\ left' \in 0..rows' /\ missed' \subseteq Mids
    BY <1>1, <1>4
  <2>2. /\ UNCHANGED <<present, related>>
        /\ pc' \in {"start", "open", "read", "create", "insert", "output", "ended"}
    BY DEF tables
  <2>3. ref' \in [DOMAIN ref' -> Nat \ {0}] /\ DOMAIN ref' \subseteq Fingerprints
    BY <1>3
  <2> QED
    BY <1>0, <1>1, <1>2, <1>4, <2>1, <2>2, <2>3 DEF ShapeInv
<1> QED
  BY <1>3, <1>5 DEF ReadInv, PageInv, ReadsEachMessageOnce, SiftInv

LEMMA NextTableStep ==
    ASSUME ReadInv, NextTable
    PROVE  ReadInv'
<1>0. ShapeInv /\ CountInv
  BY DEF ReadInv
<1>1. /\ pc = "open" /\ pc' = "read"
      /\ rows' = Cardinality(present) /\ left' = Cardinality(present)
      /\ UNCHANGED <<attr, present, related, blogs, missed, ref, parsed, inserts, runs, grew>>
  BY DEF NextTable, tables
<1>2. PICK c : c = Cardinality(present)
  OBVIOUS
<1>3. c \in Nat
  BY <1>0, <1>2, PresentFinite DEF ShapeInv
<1>4. blogs = <<>> /\ parsed = <<>> /\ missed = {} /\ Len(blogs) = 0
  BY <1>0, <1>1 DEF ShapeInv
<1>5. ShapeInv'
  <2>1. rows' \in Nat /\ left' \in 0..rows'
    BY <1>1, <1>2, <1>3, <1>4
  <2> QED
    BY <1>0, <1>1, <2>1 DEF ShapeInv
<1>6. PageInv'
  <2>1. RowOrder' = RowOrder /\ Good' = Good
    BY <1>1, RowsKept
  <2>2. RowOrder \in Seq(related)
    BY <1>0, RowFacts DEF ShapeInv
  <2>3. KeptUpTo(RowOrder, Good \ {})[0] = <<>>
    BY <2>2, KeptSteps
  <2>4. /\ 0 \in 0..Len(RowOrder) /\ rows' - left' = 0 /\ 0 <= rows' - left' /\ Len(blogs') = 0
        /\ \A i \in 1..Len(RowOrder) : ~(i <= 0)
    BY <1>1, <1>2, <1>3, <1>4, <2>2
  <2>5. Stands(0)'
    BY <1>1, <1>4, <2>1, <2>3, <2>4 DEF Stands, KeptUpTo
  <2> QED
    BY <1>1, <2>5 DEF PageInv
<1>7. CountInv'
  BY <1>0, <1>1, CountsKept
<1> QED
  BY <1>1, <1>5, <1>6, <1>7 DEF ReadInv, ReadsEachMessageOnce, SiftInv

\* The next page: the rows between the place where the run stands and the offset of the
\* page were missed, so nothing is kept of them, and the place moves on to the offset.
LEMMA NextBlogsStands ==
    ASSUME ShapeInv, blogs = <<>>, NEW at \in Nat, Stands(at),
           NEW off \in Nat, off = rows - left, NEW size \in Nat, left' = left - size,
           size <= left, NEW n \in Nat, n <= Len(Page(off, size)),
           blogs' = SubSeq(Page(off, size), 1, n),
           missed' = missed \cup {Page(off, size)[i] : i \in (n + 1)..Len(Page(off, size))},
           UNCHANGED <<attr, related, rows, parsed>>
    PROVE  /\ blogs' \in Seq(Mids) /\ missed' \subseteq Mids
           /\ \E to \in Nat : Stands(to)'
<1>1. PICK p, s : p = Page(off, size) /\ s = RowOrder
  OBVIOUS
<1>2. related \subseteq Mids /\ rows \in Nat /\ left \in Nat /\ missed \subseteq Mids
  BY DEF ShapeInv
<1>3. /\ p \in Seq(Mids) /\ Len(p) <= size /\ Len(p) \in Nat
      /\ \A i \in 1..Len(p) : off + i \in 1..Len(s) /\ p[i] = s[off + i]
      /\ \A i \in 1..Len(s) : off < i /\ i <= off + size => i - off \in 1..Len(p)
  <2>1. /\ p \in Seq(Mids) /\ Len(p) <= size
        /\ \A i \in 1..Len(p) : off + i \in 1..Len(s) /\ p[i] = s[off + i]
        /\ \A i \in 1..Len(s) : off < i /\ i <= off + size => i - off \in 1..Len(p)
    BY <1>1, <1>2, PageFacts, Zenon
  <2>2. Len(p) \in Nat
    BY <2>1
  <2> QED
    BY <2>1, <2>2
<1>4. /\ s \in Seq(related) /\ Len(s) \in Nat
      /\ \A i, j \in 1..Len(s) : s[i] = s[j] => i = j
  BY <1>1, <1>2, RowFacts
<1>5. /\ blogs' \in Seq(Mids) /\ Len(blogs') = n
      /\ \A i \in 1..n : i \in 1..Len(p) /\ blogs'[i] = p[i]
  BY <1>1, <1>3
<1>6. missed' = missed \cup {p[i] : i \in (n + 1)..Len(p)}
  BY <1>1
<1>7. \A i \in (n + 1)..Len(p) : i \in 1..Len(p) /\ p[i] \in Mids
  BY <1>3
<1>8. missed' \subseteq Mids
  BY <1>2, <1>6, <1>7
<1>9. rows' - left' = off + size
  BY <1>2
<1>10. RowOrder' = s /\ Good' = Good
  BY <1>1, RowsKept
<1>11. /\ at \in 0..Len(s) /\ at <= off
       /\ \A i \in 1..Len(s) : s[i] \in missed => i <= off
       /\ \A i \in 1..Len(s) : at < i /\ i <= off => s[i] \in missed
       /\ parsed = KeptUpTo(s, Good \ missed)[at]
  BY <1>1 DEF Stands
\* A row that is missed now was missed before, or is one of this page.
<1>12. \A i \in 1..Len(s) :
          s[i] \in missed' <=> s[i] \in missed \/ (off + n < i /\ i <= off + size)
  <2>1. ASSUME NEW i \in 1..Len(s), off + n < i, i <= off + size PROVE s[i] \in missed'
    <3>1. i - off \in 1..Len(p) /\ i - off >= n + 1
      BY <1>3, <2>1
    <3>2. i - off \in (n + 1)..Len(p) /\ off + (i - off) = i
      BY <1>3, <3>1
    <3>3. p[i - off] = s[i]
      BY <1>3, <3>1, <3>2
    <3> QED
      BY <1>6, <3>2, <3>3
  <2>2. ASSUME NEW i \in 1..Len(s), s[i] \in missed', s[i] \notin missed
        PROVE  off + n < i /\ i <= off + size
    <3>1. PICK j \in (n + 1)..Len(p) : s[i] = p[j]
      BY <1>6, <2>2
    <3>2. j \in 1..Len(p) /\ off + j \in 1..Len(s) /\ s[i] = s[off + j]
      BY <1>3, <1>7, <3>1
    <3>3. i = off + j
      BY <1>4, <3>2
    <3> QED
      BY <1>3, <3>1, <3>3
  <2> QED
    BY <1>6, <2>1, <2>2
<1>13. PICK to : to = IF off <= Len(s) THEN off ELSE at
  OBVIOUS
<1>14. to \in Nat /\ to \in 0..Len(s) /\ to <= off + size
  BY <1>4, <1>11, <1>13
<1>15. \A i \in 1..n : /\ to + i \in 1..Len(s) /\ to + i <= off + size
                       /\ blogs'[i] = s[to + i] /\ blogs'[i] \notin missed'
  <2> SUFFICES ASSUME NEW i \in 1..n
               PROVE  /\ to + i \in 1..Len(s) /\ to + i <= off + size
                      /\ blogs'[i] = s[to + i] /\ blogs'[i] \notin missed'
    OBVIOUS
  <2>1. i \in 1..Len(p) /\ off + i \in 1..Len(s) /\ blogs'[i] = s[off + i]
    BY <1>3, <1>5
  <2>2. to = off
    BY <1>4, <1>13, <2>1
  <2>3. off + i <= off + size /\ ~(off + i <= off) /\ ~(off + n < off + i)
    BY <1>3, <2>1
  <2>4. s[off + i] \notin missed'
    BY <1>11, <1>12, <2>1, <2>3
  <2> QED
    BY <2>1, <2>2, <2>3, <2>4
<1>16. \A i \in 1..Len(s) : s[i] \in missed' => i <= off + size
  BY <1>11, <1>12
<1>17. \A i \in 1..Len(s) : to + n < i /\ i <= off + size => s[i] \in missed'
  <2>1. CASE off <= Len(s)
    BY <1>12, <1>13, <2>1
  <2>2. CASE ~(off <= Len(s))
    <3> SUFFICES ASSUME NEW i \in 1..Len(s), to + n < i PROVE s[i] \in missed'
      OBVIOUS
    <3>1. at < i /\ i <= off
      BY <1>4, <1>13, <1>14, <2>2
    <3> QED
      BY <1>11, <1>12, <3>1
  <2> QED
    BY <2>1, <2>2
<1>18. KeptUpTo(s, Good \ missed)[at] = KeptUpTo(s, Good \ missed')[to]
  <2>0. PICK S, R : S = Good \ missed /\ R = Good \ missed'
    OBVIOUS
  <2>1. CASE off <= Len(s)
    <3>1. to = off /\ at <= to /\ to <= Len(s)
      BY <1>11, <1>13, <2>1
    <3>2. AlikeUpTo(s, S, R, at)
      <4>1. \A i \in 1..at : i \in 1..Len(s) /\ ~(off + n < i)
        BY <1>4, <1>11, <2>1
      <4> QED
        BY <1>12, <2>0, <4>1 DEF AlikeUpTo
    <3>3. NoneAfter(s, R, at, to)
      <4>1. \A i \in 1..to : i \in 1..Len(s) /\ i <= off
        BY <1>4, <2>1, <3>1
      <4> QED
        BY <1>11, <1>12, <2>0, <4>1 DEF NoneAfter
    <3>4. KeptUpTo(s, S)[at] = KeptUpTo(s, R)[to]
      BY <1>4, <1>14, <3>1, <3>2, <3>3, KeptAgree
    <3> QED
      BY <2>0, <3>4
  <2>2. CASE ~(off <= Len(s))
    <3>1. to = at /\ at <= to /\ to <= Len(s)
      BY <1>11, <1>13, <2>2
    <3>2. AlikeUpTo(s, S, R, at)
      <4>1. \A i \in 1..at : i \in 1..Len(s) /\ ~(off + n < i)
        BY <1>4, <1>11, <2>2
      <4> QED
        BY <1>12, <2>0, <4>1 DEF AlikeUpTo
    <3>3. NoneAfter(s, R, at, to)
      BY <3>1 DEF NoneAfter
    <3>4. KeptUpTo(s, S)[at] = KeptUpTo(s, R)[to]
      BY <1>4, <1>14, <3>1, <3>2, <3>3, KeptAgree
    <3> QED
      BY <2>0, <3>4
  <2> QED
    BY <2>0, <2>1, <2>2
<1>19. Stands(to)'
  <2>1. Good' \ missed' = Good \ missed'
    BY <1>10
  <2>2. parsed' = KeptUpTo(s, Good \ missed')[to]
    BY <1>11, <1>18
  <2>3. (Good \ missed)' = Good \ missed'
    BY <1>10
  <2> QED
    <3>1. parsed' = KeptUpTo(RowOrder', (Good \ missed)')[to]
      BY <1>10, <2>2, <2>3
    <3>2. parsed' = (KeptUpTo(RowOrder, Good \ missed)[to])'
      BY <3>1 DEF KeptUpTo
    <3>3. Len(blogs') = n /\ Len(RowOrder') = Len(s)
      BY <1>5, <1>10
    <3> QED
      BY <1>9, <1>10, <1>14, <1>15, <1>16, <1>17, <3>2, <3>3 DEF Stands
<1> QED
  BY <1>5, <1>8, <1>14, <1>19

LEMMA NextBlogsStep ==
    ASSUME ReadInv, NextBlogs
    PROVE  ReadInv'
<1>0. ShapeInv /\ PageInv /\ CountInv
  BY DEF ReadInv
<1>1. /\ pc = "read" /\ blogs = <<>> /\ left > 0 /\ left' = left - PageSize
      /\ UNCHANGED <<pc, attr, present, related, rows, ref, parsed, inserts, runs, grew>>
  BY DEF NextBlogs, tables
<1>2. PICK size, off : size = PageSize /\ off = rows - left
  OBVIOUS
<1>3. rows \in Nat /\ left \in Nat /\ left <= rows /\ related \subseteq Mids
  BY <1>0 DEF ShapeInv
<1>4. size \in Nat /\ size <= left /\ off \in Nat
  <2>1. size \in Nat /\ size <= left
    BY <1>2, <1>3, PageAssumption DEF PageSize
  <2> QED
    BY <1>2, <1>3, <2>1
<1>5. PICK p : p = Page(off, size)
  OBVIOUS
<1>6. p \in Seq(Mids) /\ Len(p) \in Nat
  <2>1. p \in Seq(Mids)
    BY <1>3, <1>4, <1>5, PageFacts, Zenon
  <2> QED
    BY <2>1
<1>7. PICK n \in 0..Len(p) : /\ blogs' = SubSeq(p, 1, n)
                            /\ missed' = missed \cup {p[i] : i \in (n + 1)..Len(p)}
  BY <1>2, <1>5 DEF NextBlogs, PageStart
<1>8. n \in Nat /\ n <= Len(p)
  BY <1>6
<1>9. blogs' \in Seq(Mids) /\ missed' \subseteq Mids
  <2>1. blogs' \in Seq(Mids)
    BY <1>6, <1>7, <1>8
  <2>2. \A i \in (n + 1)..Len(p) : p[i] \in Mids
    BY <1>6, <1>8
  <2>3. missed \subseteq Mids
    BY <1>0 DEF ShapeInv
  <2> QED
    BY <1>7, <2>1, <2>2, <2>3
<1>10. ShapeInv'
  <2>1. rows' \in Nat /\ left' \in 0..rows'
    BY <1>1, <1>2, <1>3, <1>4
  <2> QED
    BY <1>0, <1>1, <1>9, <2>1 DEF ShapeInv
<1>11. PageInv'
  <2> SUFFICES ASSUME ~grew PROVE PageInv'
    BY <1>1 DEF PageInv
  <2>1. PICK at \in Nat : Stands(at)
    BY <1>0, <1>1 DEF PageInv
  <2>2. rows = Cardinality(present)
    BY <1>0, <1>1 DEF PageInv
  <2>3. left' = left - size
    BY <1>1, <1>2
  <2>4. \E to \in Nat : Stands(to)'
    BY <1>0, <1>1, <1>2, <1>4, <1>5, <1>7, <1>8, <2>1, <2>3, NextBlogsStands
  <2> QED
    BY <1>1, <2>2, <2>4 DEF PageInv
<1>12. CountInv'
  BY <1>0, <1>1, CountsKept
<1> QED
  BY <1>1, <1>10, <1>11, <1>12 DEF ReadInv, ReadsEachMessageOnce, SiftInv

\* A text is counted for one representative, near it.
LEMMA CountStep ==
    ASSUME ShapeInv, CountInv, NEW m \in Mids, AddFingerPrint(attr[m].fp),
           parsed' = Append(parsed, m), UNCHANGED attr
    PROVE  /\ CountInv'
           /\ ref' \in [DOMAIN ref' -> Nat \ {0}] /\ DOMAIN ref' \subseteq Fingerprints
<1>1. PICK x, n : x = attr[m].fp /\ n = Len(parsed)
  OBVIOUS
<1>2. x \in Fingerprints
  BY <1>1 DEF ShapeInv, Attribute
<1>3. /\ n \in Nat /\ Len(parsed') = n + 1 /\ parsed'[n + 1] = m
      /\ \A j \in 1..n : parsed'[j] = parsed[j]
      /\ \A j \in 1..(n + 1) : j \in 1..n \/ j = n + 1
      /\ n + 1 \in 1..(n + 1) /\ n + 1 \notin 1..n
  <2>1. parsed \in Seq(Mids)
    BY DEF ShapeInv
  <2> QED
    BY <1>1, <2>1
<1>4. PICK a \in [1..n -> DOMAIN ref] :
          /\ \A j \in 1..n : Distance(attr[parsed[j]].fp, a[j]) <= 2
          /\ \A k \in DOMAIN ref : Cardinality({j \in 1..n : a[j] = k}) = ref[k]
  BY <1>1 DEF CountInv
<1>5. ref \in [DOMAIN ref -> Nat \ {0}] /\ DOMAIN ref \subseteq Fingerprints
  BY DEF ShapeInv
\* For whom the text is counted.
<1>6. PICK k : /\ k \in Fingerprints /\ Distance(x, k) <= 2
               /\ DOMAIN ref' = DOMAIN ref \cup {k}
               /\ ref'[k] = IF k \in DOMAIN ref THEN ref[k] + 1 ELSE 1
               /\ \A l \in DOMAIN ref : l # k => ref'[l] = ref[l]
               /\ ref' = [l \in DOMAIN ref' |-> ref'[l]]
  <2>1. Distance(x, x) <= 2
    <3>1. (x \ x) \cup (x \ x) = {}
      OBVIOUS
    <3>2. Cardinality({}) = 0
      BY FS_EmptySet
    <3>3. Distance(x, x) = 0
      BY <3>1, <3>2, Zenon DEF Distance
    <3> QED
      BY <3>3
  <2>2. CASE Keys(x, 2) = {}
    <3>1. x \notin DOMAIN ref
      BY <2>1, <2>2 DEF Keys
    <3>2. ref' = [l \in DOMAIN ref \cup {x} |-> IF l = x THEN 1 ELSE ref[l]]
      BY <1>1, <2>2 DEF AddFingerPrint
    <3> QED
      BY <1>2, <2>1, <3>1, <3>2
  <2>3. CASE Keys(x, 2) # {}
    <3>1. PICK k \in Highest(Keys(x, 2)) : ref' = [ref EXCEPT ![k] = @ + 1]
      BY <1>1, <2>3 DEF AddFingerPrint
    <3>2. k \in DOMAIN ref /\ Distance(x, k) <= 2
      BY DEF Highest, Keys
    <3>3. /\ DOMAIN ref' = DOMAIN ref /\ ref'[k] = ref[k] + 1
          /\ \A l \in DOMAIN ref : l # k => ref'[l] = ref[l]
          /\ ref' = [l \in DOMAIN ref' |-> ref'[l]]
      BY <1>5, <3>1, <3>2
    <3>4. DOMAIN ref = DOMAIN ref \cup {k} /\ k \in Fingerprints
      BY <1>5, <3>2
    <3>5. ref'[k] = IF k \in DOMAIN ref THEN ref[k] + 1 ELSE 1
      BY <3>2, <3>3
    <3> QED
      BY <3>2, <3>3, <3>4, <3>5, Zenon
  <2> QED
    BY <2>2, <2>3
<1>7. PICK b : b = [j \in 1..(n + 1) |-> IF j = n + 1 THEN k ELSE a[j]]
  OBVIOUS
<1>8. b \in [1..(n + 1) -> DOMAIN ref']
  BY <1>3, <1>4, <1>6, <1>7
<1>9. b[n + 1] = k /\ \A j \in 1..n : b[j] = a[j] /\ j \in 1..(n + 1)
  BY <1>3, <1>7
<1>10. \A j \in 1..(n + 1) : Distance(attr[parsed'[j]].fp, b[j]) <= 2
  BY <1>1, <1>3, <1>4, <1>6, <1>9
<1>11. \A l \in DOMAIN ref : IsFiniteSet({j \in 1..n : a[j] = l})
  <2>1. IsFiniteSet(1..n)
    <3>1. n \in Int /\ 1 \in Int
      BY <1>3
    <3> QED
      BY <3>1, FS_Interval
  <2>2. \A l : {j \in 1..n : a[j] = l} \in SUBSET (1..n)
    OBVIOUS
  <2> QED
    BY <2>1, <2>2, FS_Subset
<1>12. ASSUME NEW l \in DOMAIN ref'
       PROVE  Cardinality({j \in 1..(n + 1) : b[j] = l}) = ref'[l]
  <2>1. PICK X, Y : X = {j \in 1..n : a[j] = l} /\ Y = {j \in 1..(n + 1) : b[j] = l}
    OBVIOUS
  <2>2. CASE l # k
    <3>1. l \in DOMAIN ref /\ ref'[l] = ref[l]
      BY <1>6, <2>2
    <3>2. Y = X
      BY <1>3, <1>9, <2>1, <2>2
    <3> QED
      BY <1>4, <2>1, <3>1, <3>2
  <2>3. CASE l = k /\ k \in DOMAIN ref
    <3>1. Y = X \cup {n + 1} /\ n + 1 \notin X
      BY <1>3, <1>9, <2>1, <2>3
    <3>2. IsFiniteSet(X) /\ Cardinality(X) = ref[k]
      BY <1>4, <1>11, <2>1, <2>3
    <3>3. Cardinality(Y) = Cardinality(X) + 1
      BY <3>1, <3>2, FS_AddElement
    <3> QED
      BY <1>6, <2>1, <2>3, <3>2, <3>3
  <2>4. CASE l = k /\ k \notin DOMAIN ref
    <3>1. Y = {n + 1}
      BY <1>3, <1>4, <1>9, <2>1, <2>4
    <3>2. Cardinality({n + 1}) = 1
      BY FS_Singleton
    <3> QED
      BY <1>6, <2>1, <2>4, <3>1, <3>2
  <2> QED
    BY <2>2, <2>3, <2>4
<1>13. CountInv'
  <2>1. \A j \in 1..(n + 1) : Distance(attr'[parsed'[j]].fp, b[j]) <= 2
    BY <1>10
  <2>2. Len(parsed') = n + 1
    BY <1>3
  <2> QED
    BY <1>8, <1>12, <2>1, <2>2 DEF CountInv
<1>14. ref' \in [DOMAIN ref' -> Nat \ {0}] /\ DOMAIN ref' \subseteq Fingerprints
  <2>1. \A l \in DOMAIN ref' : ref'[l] \in Nat \ {0}
    <3>1. \A l \in DOMAIN ref : ref[l] \in Nat \ {0}
      BY <1>5
    <3>2. ref'[k] \in Nat \ {0}
      BY <1>6, <3>1
    <3> QED
      BY <1>6, <3>1, <3>2
  <2> QED
    BY <1>5, <1>6, <2>1
<1> QED
  BY <1>13, <1>14

LEMMA ParseBlogStep ==
    ASSUME ReadInv, ParseBlog
    PROVE  ReadInv'
<1>0. ShapeInv /\ PageInv /\ CountInv
  BY DEF ReadInv
<1>1. PICK m, p : m = Head(blogs) /\ p = Tail(blogs)
  OBVIOUS
<1>2. /\ pc = "read" /\ blogs # <<>> /\ blogs' = p
      /\ IF attr[m].parsed THEN AddFingerPrint(attr[m].fp) /\ parsed' = Append(parsed, m)
         ELSE UNCHANGED <<ref, parsed>>
      /\ UNCHANGED <<pc, attr, present, related, rows, left, missed, inserts, runs, grew>>
  BY <1>1 DEF ParseBlog, tables
<1>3. /\ rows \in Nat /\ left \in Nat /\ left <= rows
      /\ Len(blogs) \in Nat /\ Len(blogs) >= 1
      /\ m \in Mids /\ m = blogs[1]
      /\ p \in Seq(Mids) /\ Len(p) = Len(blogs) - 1
      /\ \A i \in 1..Len(p) : p[i] = blogs[i + 1]
  <2>1. blogs \in Seq(Mids) /\ rows \in Nat /\ left \in 0..rows
    BY <1>0 DEF ShapeInv
  <2>2. Len(blogs) \in Nat /\ Len(blogs) >= 1
    BY <1>2, <2>1
  <2>3. m \in Mids /\ m = blogs[1] /\ p \in Seq(Mids) /\ Len(p) = Len(blogs) - 1
    BY <1>1, <1>2, <2>1
  <2>4. \A i \in 1..Len(p) : p[i] = blogs[i + 1]
    BY <1>1, <1>2, <2>1
  <2> QED
    BY <2>1, <2>2, <2>3, <2>4
<1>4. /\ CountInv'
      /\ ref' \in [DOMAIN ref' -> Nat \ {0}] /\ DOMAIN ref' \subseteq Fingerprints
      /\ parsed' \in Seq(Mids)
  <2>1. parsed \in Seq(Mids)
    BY <1>0 DEF ShapeInv
  <2>2. CASE attr[m].parsed
    <3>1. AddFingerPrint(attr[m].fp) /\ parsed' = Append(parsed, m)
      BY <1>2, <2>2
    <3>2. parsed' \in Seq(Mids)
      BY <1>3, <2>1, <3>1
    <3> QED
      BY <1>0, <1>2, <1>3, <3>1, <3>2, CountStep
  <2>3. CASE ~attr[m].parsed
    <3>1. UNCHANGED <<attr, ref, parsed>>
      BY <1>2, <2>3
    <3> QED
      BY <1>0, <2>1, <3>1, CountsKept DEF ShapeInv
  <2> QED
    BY <2>2, <2>3
<1>5. ShapeInv'
  <2>1. rows' \in Nat /\ left' \in 0..rows'
    BY <1>2, <1>3
  <2> QED
    BY <1>0, <1>2, <1>3, <1>4, <2>1 DEF ShapeInv
<1>6. PageInv'
  <2> SUFFICES ASSUME ~grew PROVE PageInv'
    BY <1>2 DEF PageInv
  <2>1. PICK at \in Nat : Stands(at)
    BY <1>0, <1>2 DEF PageInv
  <2>2. PICK s, kept, off : s = RowOrder /\ kept = KeptUpTo(s, Good \ missed) /\ off = rows - left
    OBVIOUS
  <2>3. /\ at \in 0..Len(s) /\ at <= off /\ parsed = kept[at]
        /\ \A i \in 1..Len(blogs) :
              /\ at + i \in 1..Len(s) /\ at + i <= off
              /\ blogs[i] = s[at + i] /\ blogs[i] \notin missed
        /\ \A i \in 1..Len(s) : s[i] \in missed => i <= off
        /\ \A i \in 1..Len(s) : at + Len(blogs) < i /\ i <= off => s[i] \in missed
    BY <2>1, <2>2 DEF Stands
  <2>4. m = s[at + 1] /\ m \notin missed /\ at + 1 \in 1..Len(s) /\ at + 1 <= off
    <3>1. 1 \in 1..Len(blogs)
      BY <1>3
    <3> QED
      BY <1>3, <2>3, <3>1
  <2>5. kept[at + 1] = IF m \in Good \ missed THEN Append(kept[at], m) ELSE kept[at]
    <3>1. s \in Seq(related)
      BY <1>0, <2>2, RowFacts DEF ShapeInv
    <3>2. (at + 1) - 1 = at
      OBVIOUS
    <3>3. kept[at + 1] = IF s[at + 1] \in Good \ missed THEN Append(kept[(at + 1) - 1], s[at + 1])
                         ELSE kept[(at + 1) - 1]
      BY <2>2, <2>4, <3>1, KeptSteps
    <3> QED
      BY <2>4, <3>2, <3>3
  <2>6. parsed' = kept[at + 1]
    <3>1. m \in Good \ missed <=> attr[m].parsed
      BY <1>3, <2>4 DEF Good
    <3> QED
      BY <1>2, <2>3, <2>5, <3>1
  <2>7. \A i \in 1..Len(p) : /\ (at + 1) + i \in 1..Len(s) /\ (at + 1) + i <= off
                             /\ p[i] = s[(at + 1) + i] /\ p[i] \notin missed
    <3>1. \A i \in 1..Len(p) : i + 1 \in 1..Len(blogs) /\ at + (i + 1) = (at + 1) + i
      BY <1>3
    <3> QED
      BY <1>3, <2>3, <3>1
  <2>8. (at + 1) + Len(p) = at + Len(blogs) /\ at + 1 \in 0..Len(s) /\ at + 1 \in Nat
    BY <1>3, <2>3, <2>4
  <2>9. RowOrder' = s /\ Good' = Good /\ rows' - left' = off
    BY <1>2, <2>2, RowsKept
  <2>10. (Good \ missed)' = Good \ missed
    BY <1>2, <2>9
  <2>11. PICK to : to = at + 1
    OBVIOUS
  <2>12. Stands(to)'
    BY <1>2, <2>2, <2>3, <2>4, <2>6, <2>7, <2>8, <2>9, <2>10, <2>11 DEF Stands, KeptUpTo
  <2>13. rows' = Cardinality(present')
    BY <1>0, <1>2 DEF PageInv
  <2> QED
    BY <2>8, <2>11, <2>12, <2>13 DEF PageInv
<1> QED
  BY <1>2, <1>4, <1>5, <1>6 DEF ReadInv, ReadsEachMessageOnce, SiftInv

LEMMA SiftStep ==
    ASSUME ReadInv, Sift
    PROVE  ReadInv'
<1>0. ShapeInv /\ PageInv /\ CountInv
  BY DEF ReadInv
<1>1. /\ pc = "read" /\ blogs = <<>> /\ left = 0 /\ pc' = "create"
      /\ inserts' = Kept(parsed, {m \in Mids : Survives(m)})
      /\ UNCHANGED <<attr, present, related, rows, left, blogs, missed, ref, parsed, runs, grew>>
  BY DEF Sift, tables
<1>2. ShapeInv'
  <2>1. inserts' \in Seq(Mids)
    <3>1. parsed \in Seq(Mids)
      BY <1>0 DEF ShapeInv
    <3> QED
      BY <1>1, <3>1, KeptFacts
  <2> QED
    BY <1>0, <1>1, <2>1 DEF ShapeInv
<1>3. CountInv'
  BY <1>0, <1>1, CountsKept
<1>4. ReadsEachMessageOnce'
  <2> SUFFICES ASSUME ~grew PROVE ReadsEachMessageOnce'
    BY <1>1 DEF ReadsEachMessageOnce
  <2>1. rows = Cardinality(present) /\ \E at \in Nat : Stands(at)
    BY <1>0, <1>1 DEF PageInv
  <2>2. PICK at \in Nat : Stands(at)
    BY <2>1
  <2>3. PICK s : s = RowOrder
    OBVIOUS
  <2>4. s \in Seq(related) /\ Len(s) \in Nat /\ Len(s) <= rows - left
    <3>1. related \in SUBSET present /\ present \subseteq Mids /\ related \subseteq Mids
      BY <1>0 DEF ShapeInv
    <3>2. Cardinality(related) <= Cardinality(present) /\ Cardinality(present) \in Nat
      BY <3>1, PresentFinite, FS_Subset
    <3>3. s \in Seq(related) /\ Len(s) = Cardinality(related) /\ Cardinality(related) \in Nat
      BY <2>3, <3>1, RowFacts, RelatedFinite
    <3> QED
      BY <1>1, <2>1, <3>2, <3>3
  <2>5. /\ at \in 0..Len(s) /\ parsed = KeptUpTo(s, Good \ missed)[at]
        /\ \A i \in 1..Len(s) : at < i => s[i] \in missed
    <3>1. Len(blogs) = 0
      BY <1>1
    <3>2. /\ at \in 0..Len(s) /\ parsed = KeptUpTo(s, Good \ missed)[at]
          /\ \A i \in 1..Len(s) : at + Len(blogs) < i /\ i <= rows - left => s[i] \in missed
      BY <2>2, <2>3 DEF Stands
    <3>3. rows - left \in Int
      BY <1>0 DEF ShapeInv
    <3>4. \A i \in 1..Len(s) : at < i => at + Len(blogs) < i /\ i <= rows - left
      BY <2>4, <3>1, <3>2, <3>3
    <3> QED
      BY <3>2, <3>4
  <2>6. KeptUpTo(s, Good \ missed)[at] = KeptUpTo(s, Good \ missed)[Len(s)]
    <3>1. NoneAfter(s, Good \ missed, at, Len(s))
      BY <2>5 DEF NoneAfter
    <3>2. at \in Nat /\ at <= Len(s) /\ Len(s) <= Len(s)
      BY <2>4, <2>5
    <3>3. AlikeUpTo(s, Good \ missed, Good \ missed, at)
      BY DEF AlikeUpTo
    <3> QED
      BY <2>4, <3>1, <3>2, <3>3, KeptAgree
  <2>7. parsed = Kept(s, Good \ missed)
    BY <2>5, <2>6 DEF Kept
  <2>8. RowOrder' = s /\ Good' = Good
    BY <1>1, <2>3, RowsKept
  <2>9. parsed' = Kept(RowOrder', Good' \ missed')
    BY <1>1, <2>7, <2>8
  <2> QED
    BY <2>9 DEF ReadsEachMessageOnce, Good, Kept, KeptUpTo
<1>5. SiftInv'
  <2>1. {m \in Mids : Survives(m)'} = {m \in Mids : Survives(m)}
    BY <1>1, SurvivesKept
  <2> QED
    BY <1>1, <2>1 DEF SiftInv, Kept, KeptUpTo
<1> QED
  BY <1>1, <1>2, <1>3, <1>4, <1>5 DEF ReadInv, PageInv

LEMMA ReadStep == ReadInv /\ [Next]_vars => ReadInv'
<1> SUFFICES ASSUME ReadInv, [Next]_vars PROVE ReadInv'
  OBVIOUS
<1>0. /\ pc \in {"start", "open", "read", "create", "insert", "output", "ended"}
      /\ present \subseteq Mids /\ related \subseteq present /\ grew \in BOOLEAN /\ runs \in 1..MaxRuns
  BY DEF ReadInv, ShapeInv
<1>1. CASE CheckDuplicate
  <2>1. /\ pc = "start" /\ pc' \in {"open", "ended"}
        /\ UNCHANGED <<attr, tables, memory, runs, grew>>
    BY <1>1 DEF CheckDuplicate
  <2> QED
    BY <1>0, <2>1, MemoryKept DEF tables
<1>2. CASE CreateTable \/ InsertData
  <2>1. /\ pc' \in {"insert", "output"}
        /\ UNCHANGED <<attr, tables, memory, runs, grew>>
    BY <1>2 DEF CreateTable, InsertData
  <2> QED
    BY <1>0, <2>1, MemoryKept DEF tables
<1>3. CASE WriteOutput \/ Crash
  BY <1>3, MemoryCleared DEF WriteOutput, Crash
<1>4. CASE Grow
  <2>1. PICK m \in Mids \ related : /\ present' = present \cup {m}
                                    /\ related' \in {related, related \cup {m}}
    BY <1>4 DEF Grow
  <2>2. /\ grew' = (grew \/ pc \notin {"start", "open"})
        /\ UNCHANGED <<pc, attr, memory, runs>>
    BY <1>4 DEF Grow
  <2>3. present' \subseteq Mids /\ related' \subseteq present'
    BY <1>0, <2>1
  <2>4. grew' \in BOOLEAN
    BY <1>0, <2>2
  <2>5. pc' \in {"read", "create"} => grew'
    BY <2>2
  <2> QED
    BY <1>0, <2>2, <2>3, <2>4, <2>5, MemoryKept
<1>5. CASE Rerun
  <2>1. /\ pc = "ended" /\ pc' = "start" /\ runs < MaxRuns /\ runs' = runs + 1
        /\ grew' = FALSE
        /\ UNCHANGED <<attr, tables, memory>>
    BY <1>5 DEF Rerun
  <2>2. runs' \in 1..MaxRuns
    BY <1>0, <2>1, RunsAssumption
  <2> QED
    BY <1>0, <2>1, <2>2, MemoryKept DEF tables
<1>6. CASE UNCHANGED vars
  <2>1. UNCHANGED <<pc, attr, tables, memory, runs, grew>>
    BY <1>6 DEF vars
  <2> QED
    BY <1>0, <2>1, MemoryKept DEF tables
<1> QED
  BY <1>1, <1>2, <1>3, <1>4, <1>5, <1>6, NextTableStep, NextBlogsStep, ParseBlogStep, SiftStep
  DEF Next, Step

\* The invariant of reading, counting and sifting.
THEOREM ReadAlways == Spec => []ReadInv
BY ReadInit, ReadStep, PTL DEF Spec

FilteredInv == filtered \in [exists : BOOLEAN, rows : SUBSET Mids]

\* What the filtered table holds are messages: those of an insertion.
LEMMA FilteredStep == ReadInv /\ FilteredInv /\ [Next]_vars => FilteredInv'
<1> SUFFICES ASSUME ReadInv, FilteredInv, [Next]_vars PROVE FilteredInv'
  OBVIOUS
<1>1. CASE InsertData
  <2>1. PICK ok \in BOOLEAN : Committed(ok)
    BY <1>1 DEF InsertData
  <2>2. inserts \in Seq(Mids)
    BY DEF ReadInv, ShapeInv
  <2>3. DOMAIN inserts = 1..Len(inserts) /\ \A i \in 1..Len(inserts) : inserts[i] \in Mids
    BY <2>2
  <2>4. ToSet(inserts) \subseteq Mids
    BY <2>3 DEF ToSet
  <2> QED
    BY <2>1, <2>4 DEF Committed, FilteredInv
<1>2. CASE CreateTable
  BY <1>2 DEF CreateTable, FilteredInv
<1>3. CASE \/ CheckDuplicate \/ NextTable \/ NextBlogs \/ ParseBlog \/ Sift
           \/ WriteOutput \/ Grow \/ Crash \/ Rerun \/ UNCHANGED vars
  <2>1. filtered' = filtered
    BY <1>3 DEF CheckDuplicate, NextTable, NextBlogs, ParseBlog, Sift, WriteOutput, Grow, Crash,
                Rerun, vars
  <2> QED
    BY <2>1 DEF FilteredInv
<1> QED
  BY <1>1, <1>2, <1>3 DEF Next, Step

\* The state keeps its types: also the pages, whose sizes come from subtractions, are
\* sequences of messages, and every count is positive.
THEOREM TypeCorrect == Spec => []TypeOK
<1>1. Init => FilteredInv
  BY DEF Init, FilteredInv
<1>2. ReadInv /\ FilteredInv /\ OutputInv => TypeOK
  BY DEF ReadInv, ShapeInv, FilteredInv, OutputInv, TypeOK
<1>3. Spec => []FilteredInv
  BY <1>1, FilteredStep, ReadAlways, PTL DEF Spec
<1>4. Spec => []OutputInv
  BY OutputInit, OutputStep, PTL DEF Spec
<1> QED
  BY <1>2, <1>3, <1>4, ReadAlways, PTL

\* Whatever the size of a page and of the table, the paging of Allocator reads the
\* rows of tables that do not grow one by one in their order, but for those that a
\* refused or broken page did not deliver.
THEOREM PagingExact == Spec => []ReadsEachMessageOnce
<1>1. ReadInv => ReadsEachMessageOnce
  BY DEF ReadInv
<1> QED
  BY <1>1, ReadAlways, PTL

\* Said without the order: each message that has a relation, and a source and a length
\* that will do, is parsed once, unless its page did not deliver it, and no other.
EachParsedOnce ==
    pc = "create" /\ ~grew =>
        /\ ToSet(parsed) = {m \in related : attr[m].parsed} \ missed
        /\ \A i, j \in 1..Len(parsed) : parsed[i] = parsed[j] => i = j

\* It holds for every page size and all tables that do not grow meanwhile.
THEOREM NoneLostNoneTwice == Spec => []EachParsedOnce
<1>1. ASSUME ReadInv PROVE EachParsedOnce
  <2> SUFFICES ASSUME pc = "create", ~grew
               PROVE  /\ ToSet(parsed) = {m \in related : attr[m].parsed} \ missed
                      /\ \A i, j \in 1..Len(parsed) : parsed[i] = parsed[j] => i = j
    BY DEF EachParsedOnce
  <2>1. parsed = Kept(RowOrder, Good \ missed) /\ related \subseteq Mids
    BY <1>1 DEF ReadInv, ShapeInv, ReadsEachMessageOnce, Good
  <2>2. /\ RowOrder \in Seq(related) /\ ToSet(RowOrder) = related
        /\ \A i, j \in 1..Len(RowOrder) : RowOrder[i] = RowOrder[j] => i = j
    BY <2>1, RowFacts
  <2>3. /\ ToSet(parsed) = related \cap (Good \ missed)
        /\ \A i, j \in 1..Len(parsed) : parsed[i] = parsed[j] => i = j
    <3>1. PICK s : s = RowOrder
      OBVIOUS
    <3>2. /\ s \in Seq(related) /\ ToSet(s) = related
          /\ \A i, j \in 1..Len(s) : s[i] = s[j] => i = j
      BY <2>2, <3>1
    <3>3. /\ ToSet(Kept(s, Good \ missed)) = ToSet(s) \cap (Good \ missed)
          /\ \A i, j \in 1..Len(Kept(s, Good \ missed)) :
                Kept(s, Good \ missed)[i] = Kept(s, Good \ missed)[j] => i = j
      BY <3>2, KeptFacts
    <3>4. parsed = Kept(s, Good \ missed)
      BY <2>1, <3>1
    <3> QED
      BY <3>2, <3>3, <3>4, Zenon
  <2> QED
    BY <2>1, <2>3 DEF Good
<1> QED
  BY <1>1, ReadAlways, PTL

LEMMA UpTo ==
    ASSUME NEW n \in Nat
    PROVE  IsFiniteSet(1..n) /\ Cardinality(1..n) = n
BY FS_Interval

LEMMA SiftedFacts ==
    ASSUME ReadInv, pc = "create"
    PROVE  /\ parsed \in Seq(Mids)
           /\ \A i \in 1..Len(parsed) :
                 parsed[i] \in Mids /\ (parsed[i] \in ToSet(inserts) <=> Survives(parsed[i]))
<1>1. parsed \in Seq(Mids) /\ inserts = Kept(parsed, {m \in Mids : Survives(m)})
  BY DEF ReadInv, ShapeInv, SiftInv
<1>2. ToSet(inserts) = ToSet(parsed) \cap {m \in Mids : Survives(m)}
  BY <1>1, KeptFacts, Zenon
<1>3. \A i \in 1..Len(parsed) : parsed[i] \in Mids /\ parsed[i] \in ToSet(parsed)
  <2>1. DOMAIN parsed = 1..Len(parsed) /\ \A i \in 1..Len(parsed) : parsed[i] \in Mids
    BY <1>1
  <2> QED
    BY <2>1 DEF ToSet
<1> QED
  BY <1>1, <1>2, <1>3

\* The second pass decides on the final counts, so the same text has the same fate
\* wherever in the table it stands.
THEOREM FateByText == Spec => []SameTextSameFate
<1>1. ASSUME ReadInv PROVE SameTextSameFate
  <2> SUFFICES ASSUME pc = "create", NEW i \in 1..Len(parsed), NEW j \in 1..Len(parsed),
                      attr[parsed[i]].fp = attr[parsed[j]].fp,
                      ~attr[parsed[i]].zombie, ~attr[parsed[j]].zombie,
                      parsed[i] \in ToSet(inserts)
               PROVE  parsed[j] \in ToSet(inserts)
    BY DEF SameTextSameFate
  <2>1. Survives(parsed[i])
    BY <1>1, SiftedFacts
  <2>2. Survives(parsed[j])
    BY <2>1 DEF Survives
  <2> QED
    BY <1>1, <2>2, SiftedFacts
<1> QED
  BY <1>1, ReadAlways, PTL

\* A message that is dropped as an advertisement has at least two others like it: the
\* three texts counted for a representative next to it are not far from it.
THEOREM DroppedHaveCopies == Spec => []NoUniqueTextDropped
<1>1. ASSUME ReadInv PROVE NoUniqueTextDropped
  <2> SUFFICES ASSUME pc = "create", NEW i \in 1..Len(parsed),
                      ~attr[parsed[i]].zombie, parsed[i] \notin ToSet(inserts)
               PROVE  Cardinality({j \in 1..Len(parsed) :
                          Distance(attr[parsed[j]].fp, attr[parsed[i]].fp) <= 3}) >= 3
    BY DEF NoUniqueTextDropped
  <2>1. /\ parsed \in Seq(Mids) /\ attr \in [Mids -> Attribute]
        /\ ref \in [DOMAIN ref -> Nat \ {0}] /\ DOMAIN ref \subseteq Fingerprints
    BY <1>1 DEF ReadInv, ShapeInv
  <2>2. PICK n, x : n = Len(parsed) /\ x = attr[parsed[i]].fp
    OBVIOUS
  <2>3. n \in Nat /\ IsFiniteSet(1..n) /\ Cardinality(1..n) = n
    <3>1. n \in Nat
      BY <2>1, <2>2
    <3>2. IsFiniteSet(1..n) /\ Cardinality(1..n) = n
      BY <3>1, UpTo
    <3> QED
      BY <3>1, <3>2
  <2>4. \A j \in 1..n : attr[parsed[j]].fp \in Fingerprints
    BY <2>1, <2>2 DEF Attribute
  <2>5. x \in Fingerprints
    BY <2>2, <2>4
  <2>6. PICK a \in [1..n -> DOMAIN ref] :
            /\ \A j \in 1..n : Distance(attr[parsed[j]].fp, a[j]) <= 2
            /\ \A k \in DOMAIN ref : Cardinality({j \in 1..n : a[j] = k}) = ref[k]
    BY <1>1, <2>2 DEF ReadInv, CountInv
  <2>7. \A k \in DOMAIN ref : ref[k] \in Nat /\ ref[k] <= n
    <3>1. ASSUME NEW k \in DOMAIN ref PROVE Cardinality({j \in 1..n : a[j] = k}) <= n
      <4>1. {j \in 1..n : a[j] = k} \in SUBSET (1..n)
        OBVIOUS
      <4> QED
        BY <2>3, <4>1, FS_Subset
    <3> QED
      BY <2>1, <2>6, <3>1
  <2>8. ~(GetRefCount(x) <= 2)
    <3>1. ~Survives(parsed[i])
      BY <1>1, SiftedFacts
    <3> QED
      BY <2>2, <3>1 DEF Survives
  <2>9. PICK k \in DOMAIN ref : Distance(x, k) <= 1 /\ ref[k] >= 3
    <3>1. PICK N : N = {ref[k] : k \in Keys(x, 1)} \cup {0}
      OBVIOUS
    <3>2. N \in SUBSET Nat /\ N # {} /\ \A m \in N : m <= n
      BY <2>3, <2>7, <3>1 DEF Keys
    <3>3. Max(N) \in N
      BY <2>3, <3>2, MaxFacts
    <3>4. GetRefCount(x) = Max(N)
      BY <3>1 DEF GetRefCount
    <3>5. PICK max : max = Max(N)
      OBVIOUS
    <3>6. max \in N /\ max \in Nat /\ ~(max <= 2)
      BY <2>8, <3>2, <3>3, <3>4, <3>5, Zenon
    <3>7. max >= 3 /\ max # 0
      BY <3>6
    <3>8. PICK k \in Keys(x, 1) : ref[k] = max
      BY <3>1, <3>6, <3>7, Zenon
    <3> QED
      BY <3>7, <3>8 DEF Keys
  <2>10. PICK X, Y : /\ X = {j \in 1..n : a[j] = k}
                     /\ Y = {j \in 1..n : Distance(attr[parsed[j]].fp, x) <= 3}
    OBVIOUS
  <2>11. X \in SUBSET Y
    <3>1. ASSUME NEW j \in 1..n, a[j] = k PROVE Distance(attr[parsed[j]].fp, x) <= 3
      <4>1. PICK y : y = attr[parsed[j]].fp
        OBVIOUS
      <4>2. y \in Fingerprints /\ k \in Fingerprints /\ Distance(y, k) <= 2
        BY <2>1, <2>4, <2>6, <3>1, <4>1
      <4>3. Distance(k, x) <= 1
        BY <2>9, DistanceSymmetric
      <4>4. /\ Distance(y, x) <= Distance(y, k) + Distance(k, x)
            /\ Distance(y, x) \in Nat /\ Distance(y, k) \in Nat /\ Distance(k, x) \in Nat
        BY <2>5, <4>2, Triangle
      <4>5. Distance(y, x) <= 3
        BY <4>2, <4>3, <4>4
      <4> QED
        BY <4>1, <4>5
    <3> QED
      BY <2>10, <3>1
  <2>12. IsFiniteSet(Y) /\ Cardinality(Y) \in Nat
    <3>1. Y \in SUBSET (1..n)
      BY <2>10
    <3> QED
      BY <2>3, <3>1, FS_Subset, FS_CardinalityType
  <2>13. Cardinality(X) <= Cardinality(Y) /\ Cardinality(X) = ref[k]
    BY <2>6, <2>10, <2>11, <2>12, FS_Subset
  <2>14. Cardinality(Y) >= 3
    BY <2>7, <2>9, <2>12, <2>13
  <2> QED
    BY <2>2, <2>10, <2>14
<1> QED
  BY <1>1, ReadAlways, PTL
=============================================================================
