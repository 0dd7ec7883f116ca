------------------------ MODULE CrawlerAccessProofs ------------------------
(***************************************************************************)
(* Proofs about CrawlerAccess, for any number of applications, tokens and  *)
(* faults.                                                                 *)
(***************************************************************************)
EXTENDS CrawlerAccess, FiniteSetTheorems, TLAPS

Whole == [Apps -> Tokens]

\* The variables that count, and the places of the queries, stay in their sets.  The
\* token that an application would be granted is one of its tokens.
ShapeInv ==
    /\ scheduler \in {"setup", "wait"}
    /\ loop \in Loops
    /\ pc \in [Queries -> {"ended", "authorise", "update", "open", "close"} \cup Requesting]
    /\ token \in [Queries -> Tokens]
    /\ issued \in [Apps -> Tokens]
    /\ expired \in [Apps -> 0..MaxToken]
    /\ spent \in [Apps -> BOOLEAN]
    /\ faults \in 0..MaxFault
    /\ abandoned \in Nat /\ abandoned <= faults
    /\ \A a \in Apps : expired[a] <= issued[a] /\ (expired[a] = issued[a] => issued[a] < MaxToken)

\* The configuration is whole or, after a torn write, empty; then nothing runs.
MemoryInv ==
    /\ torn \in BOOLEAN
    /\ ~torn => memory \in Whole
    /\ torn => memory = NoApps /\ file = NoApps /\ \A q \in Queries : pc[q] = "ended"

\* A writer holds a whole configuration, the one in memory but for what overtook it.
BufferInv ==
    /\ overtaken \subseteq Apps
    /\ buffer \in [Queries -> Whole \cup {NoApps}]
    /\ \A q \in Queries : pc[q] = "close" =>
          /\ buffer[q] \in Whole
          /\ \A a \in Apps : a \in overtaken \/ buffer[q][a] = memory[a]

\* The file is whole unless it is being written, or was when the crawler died.
FileInv ==
    /\ file \in Whole \cup {NoApps}
    /\ file = NoApps => torn \/ \E q \in Queries : pc[q] = "close"

SavingInv == MemoryInv /\ BufferInv /\ FileInv /\ ConfigurationSaved

\* STOP has an entry for each authorisation under way, and one for each that raised.
StopCounts == stop = Cardinality(Authorising) + abandoned

AccessInv == ShapeInv /\ SavingInv /\ StopCounts

-----------------------------------------------------------------------------
LEMMA BoundFacts ==
    /\ AppCount \in Nat /\ AppCount >= 1 /\ MaxToken \in Nat /\ MaxToken >= 1
    /\ MaxFault \in Nat
    /\ 1 \in Apps /\ 1 \in Tokens
BY BoundsAssumption DEF Apps, Tokens

LEMMA ConfigurationFacts ==
    /\ DOMAIN NoApps = {}
    /\ NoApps \notin Whole
    /\ Whole \cup {NoApps} \subseteq Configurations
<1>1. DOMAIN NoApps = {}
  BY DEF NoApps
<1>2. NoApps \notin Whole
  BY <1>1, BoundFacts DEF Whole
<1>3. Whole \subseteq Configurations
  BY DEF Whole, Configurations
<1>4. NoApps \in [{} -> Tokens]
  BY DEF NoApps
<1>5. NoApps \in Configurations
  BY <1>4 DEF Configurations
<1> QED
  BY <1>1, <1>2, <1>3, <1>5

\* What the invariant says of the configuration in memory: there are no applications,
\* or there are all.
LEMMA KnownFacts ==
    ASSUME MemoryInv
    PROVE  /\ Known = IF torn THEN {} ELSE Apps
           /\ Apps # {}
BY BoundFacts, ConfigurationFacts DEF MemoryInv, Known, Whole

LEMMA QueriesFinite ==
    /\ IsFiniteSet(Queries)
    /\ Cardinality(Queries) \in Nat
    /\ \A S \in SUBSET Queries : /\ IsFiniteSet(S) /\ Cardinality(S) \in Nat
                                 /\ Cardinality(S) <= Cardinality(Queries)
<1>1. IsFiniteSet(Apps)
  BY BoundFacts, FS_Interval DEF Apps
<1>2. IsFiniteSet(Loops)
  <2>1. IsFiniteSet({}) /\ IsFiniteSet({} \cup {0})
    BY FS_EmptySet, FS_AddElement
  <2>2. IsFiniteSet(({} \cup {0}) \cup {1})
    BY <2>1, FS_AddElement
  <2>3. ({} \cup {0}) \cup {1} = Loops
    BY DEF Loops
  <2> QED
    BY <2>2, <2>3
<1>3. IsFiniteSet(Queries)
  BY <1>1, <1>2, FS_Product DEF Queries
<1> QED
  BY <1>3, FS_Subset, FS_CardinalityType

-----------------------------------------------------------------------------
(* The counters and the places *)

LEMMA GrantShape ==
    ASSUME ShapeInv, NEW q \in Queries
    PROVE  /\ Current(q[1]) \in Tokens
           /\ Current(q[1]) >= issued[q[1]]
           /\ Current(q[1]) > expired[q[1]]
<1>1. q[1] \in Apps
  BY DEF Queries
<1>2. issued[q[1]] \in Tokens /\ expired[q[1]] \in 0..MaxToken
  BY <1>1 DEF ShapeInv
<1>3. expired[q[1]] <= issued[q[1]]
  BY <1>1 DEF ShapeInv
<1>4. expired[q[1]] = issued[q[1]] => issued[q[1]] < MaxToken
  BY <1>1 DEF ShapeInv
<1> QED
  BY <1>2, <1>3, <1>4, BoundFacts DEF Current, Tokens

LEMMA ApplyShape ==
    ASSUME ShapeInv, NEW q \in Queries, Apply(q) \/ (Grant(q) /\ UNCHANGED <<expired, spent>>),
           UNCHANGED <<scheduler, loop, abandoned>>, faults' \in 0..MaxFault, faults <= faults'
    PROVE  ShapeInv'
<1>1. q[1] \in Apps
  BY DEF Queries
<1>2. CASE Grant(q)
  <2>1. expired' = expired
    BY <1>2 DEF Apply, Grant, Goto, api
  <2>2. spent' \in [Apps -> BOOLEAN]
    BY <1>1 DEF Apply, ShapeInv, api
  <2>3. issued' \in [Apps -> Tokens] /\ token' \in [Queries -> Tokens]
    BY <1>1, <1>2, GrantShape DEF Grant, ShapeInv
  <2>4. pc' \in [Queries -> {"ended", "authorise", "update", "open", "close"} \cup Requesting]
    BY <1>2 DEF Grant, ShapeInv
  <2>5. ASSUME NEW a \in Apps
        PROVE  expired'[a] <= issued'[a] /\ (expired'[a] = issued'[a] => issued'[a] < MaxToken)
    <3>1. CASE a = q[1]
      <4>1. issued'[a] = Current(a) /\ Current(a) > expired[a] /\ Current(a) \in Tokens
        BY <1>2, <3>1, GrantShape DEF Grant, ShapeInv
      <4>2. expired[a] \in Nat /\ issued'[a] \in Nat
        BY <4>1 DEF ShapeInv, Tokens
      <4> QED
        BY <2>1, <4>1, <4>2
    <3>2. CASE a # q[1]
      BY <1>2, <2>1, <3>2 DEF Grant, ShapeInv
    <3> QED
      BY <3>1, <3>2
  <2>6. abandoned' <= faults'
    BY DEF ShapeInv
  <2> QED
    BY <2>2, <2>1, <2>3, <2>4, <2>5, <2>6 DEF ShapeInv
<1>3. CASE Goto(q, "authorise") /\ UNCHANGED api
  BY <1>3 DEF Goto, ShapeInv, api
<1> QED
  BY <1>2, <1>3 DEF Apply

LEMMA ShapeStep == ShapeInv /\ MemoryInv /\ [Next]_vars => ShapeInv'
<1> SUFFICES ASSUME ShapeInv, MemoryInv, [Next]_vars PROVE ShapeInv'
  OBVIOUS
<1> USE BoundFacts DEF vars, api, history, Goto, End
<1>1. CASE Setup
  <2>1. loop' \in Loops
    BY <1>1 DEF Setup, ShapeInv, Loops
  <2>2. Known = Apps /\ memory \in Whole
    BY <1>1, KnownFacts DEF Setup, MemoryInv
  <2>3. \A q \in Queries : token'[q] \in Tokens
    BY <1>1, <2>2 DEF Setup, ShapeInv, Whole, Queries
  <2>4. token' \in [Queries -> Tokens]
    BY <1>1, <2>3 DEF Setup
  <2>5. pc' \in [Queries -> {"ended", "authorise", "update", "open", "close"} \cup Requesting]
    BY <1>1 DEF Setup, ShapeInv, Requesting
  <2> QED
    BY <1>1, <2>1, <2>4, <2>5 DEF Setup, ShapeInv
<1>2. CASE EndWait
  BY <1>2 DEF EndWait, ShapeInv
<1>3. ASSUME NEW q \in Queries, Refused(q) \/ OtherError(q) \/ Exchange(q)
      PROVE  ShapeInv'
  <2>1. Apply(q) \/ (Grant(q) /\ UNCHANGED <<expired, spent>>)
    BY <1>3 DEF Refused, OtherError, Exchange
  <2>2. UNCHANGED <<scheduler, loop, abandoned>> /\ faults' \in 0..MaxFault /\ faults <= faults'
    BY <1>3 DEF Refused, OtherError, Exchange, ShapeInv
  <2> QED
    BY <2>1, <2>2, ApplyShape
<1>4. ASSUME NEW q \in Queries, Answered(q) \/ Update(q) \/ Open(q) \/ Close(q) \/ Authorise(q)
      PROVE  ShapeInv'
  BY <1>4 DEF Answered, Update, Open, Close, Authorise, ShapeInv, Requesting
<1>5. ASSUME NEW q \in Queries, RequestFails(q) \/ AuthoriseFails(q) \/ NoCode(q)
      PROVE  ShapeInv'
  BY <1>5 DEF RequestFails, AuthoriseFails, NoCode, ShapeInv
<1>6. ASSUME NEW a \in Apps, Expire(a)
      PROVE  ShapeInv'
  BY <1>6 DEF Expire, ShapeInv, Tokens
<1>7. CASE Restart
  BY <1>7 DEF Restart, ShapeInv, Loops
<1>8. CASE UNCHANGED vars
  BY <1>8 DEF ShapeInv
<1> QED
  BY <1>1, <1>2, <1>3, <1>4, <1>5, <1>6, <1>7, <1>8 DEF Next, Schedule, Proceed

-----------------------------------------------------------------------------
(* The configuration *)

\* Nobody starts, or ends, to save, and nothing is saved.
LEMMA QuietSaving ==
    ASSUME SavingInv, UNCHANGED <<file, memory, buffer, torn, overtaken>>,
           \A q \in Queries : \/ pc'[q] = pc[q]
                              \/ /\ ~torn
                                 /\ {pc[q], pc'[q]} \cap {"open", "close"} = {}
    PROVE  SavingInv'
<1>1. \A q \in Queries : /\ pc'[q] = "close" <=> pc[q] = "close"
                         /\ pc'[q] = "open" <=> pc[q] = "open"
  OBVIOUS
<1>2. MemoryInv'
  BY DEF SavingInv, MemoryInv
<1>3. BufferInv'
  BY <1>1 DEF SavingInv, BufferInv
<1>4. FileInv'
  BY <1>1 DEF SavingInv, FileInv
<1>5. ConfigurationSaved'
  BY <1>1 DEF SavingInv, ConfigurationSaved, Known
<1> QED
  BY <1>2, <1>3, <1>4, <1>5 DEF SavingInv

\* The memory runs ahead of the file, whose next writer is there; the copy of a query
\* that is writing is overtaken.
LEMMA UpdateSaving ==
    ASSUME ShapeInv, SavingInv, NEW q \in Queries, Update(q)
    PROVE  SavingInv'
<1> DEFINE a == q[1]
<1>1. /\ a \in Apps /\ pc[q] = "update"
      /\ memory' = [memory EXCEPT ![a] = token[q]]
      /\ overtaken' = IF \E p \in Queries : pc[p] = "close" THEN overtaken \cup {a} ELSE overtaken
      /\ pc' = [pc EXCEPT ![q] = "open"]
      /\ UNCHANGED <<file, buffer, torn>>
  BY DEF Update, Queries
<1>2. pc'[q] = "open" /\ \A p \in Queries : pc'[p] = "close" <=> pc[p] = "close"
  BY <1>1 DEF ShapeInv
<1>3. ~torn /\ memory \in Whole
  BY <1>1 DEF SavingInv, MemoryInv
<1>4. memory' \in Whole /\ \A b \in Apps \ {a} : memory'[b] = memory[b]
  BY <1>1, <1>3 DEF Whole, ShapeInv
<1>5. MemoryInv'
  BY <1>1, <1>3, <1>4 DEF SavingInv, MemoryInv
<1>6. overtaken \subseteq overtaken' /\ overtaken' \subseteq Apps
  BY <1>1 DEF SavingInv, BufferInv
<1>7. ASSUME NEW p \in Queries, pc'[p] = "close", NEW b \in Apps
      PROVE  b \in overtaken' \/ buffer'[p][b] = memory'[b]
  BY <1>1, <1>2, <1>4, <1>6, <1>7 DEF SavingInv, BufferInv
<1>8. BufferInv'
  BY <1>1, <1>2, <1>6, <1>7 DEF SavingInv, BufferInv
<1>9. FileInv'
  BY <1>1, <1>2 DEF SavingInv, FileInv
<1>10. ConfigurationSaved'
  BY <1>2 DEF ConfigurationSaved
<1> QED
  BY <1>5, <1>8, <1>9, <1>10 DEF SavingInv

\* The file is emptied, and its writer holds the configuration in memory.
LEMMA OpenSaving ==
    ASSUME ShapeInv, SavingInv, NEW q \in Queries, Open(q)
    PROVE  SavingInv'
<1>1. /\ pc[q] = "open" /\ pc' = [pc EXCEPT ![q] = "close"]
      /\ file' = NoApps /\ buffer' = [buffer EXCEPT ![q] = memory]
      /\ UNCHANGED <<memory, torn, overtaken>>
  BY DEF Open, Goto, history
<1>2. pc'[q] = "close" /\ \A p \in Queries \ {q} : pc'[p] = pc[p]
  BY <1>1 DEF ShapeInv
<1>3. ~torn /\ memory \in Whole
  BY <1>1 DEF SavingInv, MemoryInv
<1>4. MemoryInv'
  BY <1>1, <1>3 DEF SavingInv, MemoryInv
<1>5. /\ buffer' \in [Queries -> Whole \cup {NoApps}]
      /\ buffer'[q] = memory
      /\ \A p \in Queries \ {q} : buffer'[p] = buffer[p]
  BY <1>1, <1>3 DEF SavingInv, BufferInv
<1>6. BufferInv'
  BY <1>1, <1>2, <1>3, <1>5 DEF SavingInv, BufferInv
<1>7. FileInv'
  BY <1>1, <1>2 DEF FileInv
<1>8. ConfigurationSaved'
  BY <1>2 DEF ConfigurationSaved
<1> QED
  BY <1>4, <1>6, <1>7, <1>8 DEF SavingInv

\* The writer that closes last leaves a file that agrees with the memory, but for the
\* applications that overtook it.
LEMMA CloseSaving ==
    ASSUME ShapeInv, SavingInv, NEW q \in Queries, Close(q)
    PROVE  SavingInv'
<1>1. /\ pc[q] = "close" /\ pc' = [pc EXCEPT ![q] = "ended"]
      /\ file' = buffer[q] /\ buffer' = [buffer EXCEPT ![q] = NoApps]
      /\ UNCHANGED <<memory, torn, overtaken>>
  BY DEF Close, End, history
<1>2. pc'[q] = "ended" /\ \A p \in Queries \ {q} : pc'[p] = pc[p]
  BY <1>1 DEF ShapeInv
<1>3. ~torn /\ memory \in Whole
  BY <1>1 DEF SavingInv, MemoryInv
<1>4. MemoryInv'
  BY <1>1, <1>3 DEF SavingInv, MemoryInv
<1>5. file' \in Whole /\ \A a \in Apps : a \in overtaken \/ file'[a] = memory[a]
  BY <1>1 DEF SavingInv, BufferInv
<1>6. /\ buffer' \in [Queries -> Whole \cup {NoApps}]
      /\ \A p \in Queries \ {q} : buffer'[p] = buffer[p]
  BY <1>1 DEF SavingInv, BufferInv
<1>7. BufferInv'
  BY <1>1, <1>2, <1>6 DEF SavingInv, BufferInv
<1>8. FileInv'
  BY <1>5, ConfigurationFacts DEF FileInv
<1>9. ConfigurationSaved'
  <2>1. Known' = Apps /\ DOMAIN file' = Apps
    BY <1>1, <1>3, <1>5 DEF Known, Whole
  <2> QED
    BY <1>1, <1>5, <2>1 DEF ConfigurationSaved
<1> QED
  BY <1>4, <1>7, <1>8, <1>9 DEF SavingInv

\* What the new crawler loads is what the file holds.
LEMMA RestartSaving ==
    ASSUME ShapeInv, SavingInv, Restart
    PROVE  SavingInv'
<1>1. /\ memory' = file /\ file' = file /\ torn' = (file = NoApps)
      /\ pc' = [q \in Queries |-> "ended"] /\ buffer' = [q \in Queries |-> NoApps]
      /\ overtaken' = {}
  BY DEF Restart
<1>2. MemoryInv'
  BY <1>1 DEF SavingInv, MemoryInv, FileInv
<1>3. BufferInv'
  BY <1>1 DEF BufferInv
<1>4. FileInv'
  BY <1>1 DEF SavingInv, FileInv
<1>5. ConfigurationSaved'
  BY <1>1 DEF ConfigurationSaved, Known
<1> QED
  BY <1>2, <1>3, <1>4, <1>5 DEF SavingInv

LEMMA SavingStep == ShapeInv /\ SavingInv /\ [Next]_vars => SavingInv'
<1> SUFFICES ASSUME ShapeInv, SavingInv, [Next]_vars PROVE SavingInv'
  OBVIOUS
<1>1. CASE Setup
  <2>1. ~torn
    BY <1>1, KnownFacts DEF Setup, SavingInv
  <2>2. loop' = 1 - loop /\ \A q \in Queries : q[2] = loop' => pc[q] = "ended"
    <3>1. loop' = 1 - loop
      BY <1>1 DEF Setup
    <3>2. ASSUME NEW q \in Queries, q[2] = loop'
          PROVE  pc[q] = "ended"
      <4>1. q = <<q[1], 1 - loop>> /\ q[1] \in Apps
        BY <3>1, <3>2 DEF Queries
      <4> QED
        BY <1>1, <4>1 DEF Setup
    <3> QED
      BY <3>1, <3>2
  <2>3. \A q \in Queries : \/ pc'[q] = pc[q]
                           \/ pc[q] = "ended" /\ pc'[q] = "request"
    BY <1>1, <2>2 DEF Setup
  <2>4. UNCHANGED <<file, memory, buffer, torn, overtaken>>
    BY <1>1 DEF Setup, history
  <2> QED
    BY <2>1, <2>3, <2>4, QuietSaving
<1>2. ASSUME NEW q \in Queries, Update(q)
      PROVE  SavingInv'
  BY <1>2, UpdateSaving
<1>3. ASSUME NEW q \in Queries, Open(q)
      PROVE  SavingInv'
  BY <1>3, OpenSaving
<1>4. ASSUME NEW q \in Queries, Close(q)
      PROVE  SavingInv'
  BY <1>4, CloseSaving
<1>5. ASSUME NEW q \in Queries,
             \/ Answered(q) \/ Refused(q) \/ Exchange(q) \/ Authorise(q)
             \/ RequestFails(q) \/ OtherError(q) \/ AuthoriseFails(q) \/ NoCode(q)
      PROVE  SavingInv'
  <2>1. UNCHANGED <<file, memory, buffer, torn, overtaken>>
    BY <1>5 DEF Answered, Refused, Exchange, Authorise, RequestFails, OtherError,
       AuthoriseFails, NoCode, history
  <2>2. \E place \in {"ended", "update", "authorise", "exchange"} :
            pc' = [pc EXCEPT ![q] = place]
    BY <1>5 DEF Answered, Refused, Exchange, Authorise, RequestFails, OtherError,
       AuthoriseFails, NoCode, Apply, Grant, Goto, End
  <2>3. pc[q] \in {"request", "exchange", "authorise"}
    BY <1>5 DEF Answered, Refused, Exchange, Authorise, RequestFails, OtherError,
       AuthoriseFails, NoCode, Requesting
  <2>4. ~torn
    BY <2>3 DEF SavingInv, MemoryInv
  <2> QED
    BY <2>1, <2>2, <2>3, <2>4, QuietSaving DEF ShapeInv
<1>6. ASSUME \/ EndWait \/ (\E a \in Apps : Expire(a)) \/ UNCHANGED vars
      PROVE  SavingInv'
  <2>1. UNCHANGED <<file, memory, buffer, torn, overtaken, pc>>
    BY <1>6 DEF EndWait, Expire, vars, history
  <2> QED
    BY <2>1, QuietSaving
<1>7. CASE Restart
  BY <1>7, RestartSaving
<1> QED
  BY <1>1, <1>2, <1>3, <1>4, <1>5, <1>6, <1>7 DEF Next, Schedule, Proceed

-----------------------------------------------------------------------------
(* STOP *)

LEMMA StopStep == ShapeInv /\ StopCounts /\ [Next]_vars => StopCounts'
<1> SUFFICES ASSUME ShapeInv, StopCounts, [Next]_vars PROVE StopCounts'
  OBVIOUS
<1> USE DEF StopCounts
<1>1. /\ IsFiniteSet(Authorising)
      /\ Cardinality(Authorising) \in Nat
      /\ abandoned \in Nat
  BY QueriesFinite DEF Authorising, ShapeInv
<1>2. ASSUME Authorising' = Authorising, UNCHANGED <<stop, abandoned>>
      PROVE  StopCounts'
  BY <1>2
<1>3. ASSUME NEW q \in Queries, pc[q] # "authorise", pc' = [pc EXCEPT ![q] = "authorise"],
             stop' = stop + 1, UNCHANGED abandoned
      PROVE  StopCounts'
  <2>1. Authorising' = Authorising \cup {q} /\ q \notin Authorising
    BY <1>3 DEF Authorising, ShapeInv
  <2>2. Cardinality(Authorising') = Cardinality(Authorising) + 1
    BY <1>1, <2>1, FS_AddElement
  <2> QED
    BY <1>1, <1>3, <2>2
<1>4. ASSUME NEW q \in Queries, pc[q] = "authorise",
             NEW place \in {"exchange", "ended"}, pc' = [pc EXCEPT ![q] = place],
             \/ stop' = stop - 1 /\ abandoned' = abandoned
             \/ stop' = stop /\ abandoned' = abandoned + 1
      PROVE  StopCounts'
  <2>1. Authorising' = Authorising \ {q} /\ q \in Authorising
    BY <1>4 DEF Authorising, ShapeInv
  <2>2. Cardinality(Authorising') = Cardinality(Authorising) - 1
    BY <1>1, <2>1, FS_RemoveElement
  <2>3. Cardinality(Authorising)' = Cardinality(Authorising) - 1
    BY <2>2
  <2> QED
    BY <1>1, <1>4, <2>3
<1>5. ASSUME NEW q \in Queries, pc[q] # "authorise",
             NEW place \in {"ended", "update", "open", "close"}, pc' = [pc EXCEPT ![q] = place],
             UNCHANGED <<stop, abandoned>>
      PROVE  StopCounts'
  <2>1. Authorising' = Authorising
    BY <1>5 DEF Authorising, ShapeInv
  <2> QED
    BY <1>2, <1>5, <2>1
<1>6. CASE Setup
  <2>1. loop' = 1 - loop /\ UNCHANGED <<stop, abandoned>>
    BY <1>6 DEF Setup, history
  <2>2. ASSUME NEW q \in Queries, q[2] = loop'
        PROVE  pc[q] = "ended"
    <3>1. q = <<q[1], 1 - loop>> /\ q[1] \in Apps
      BY <2>1, <2>2 DEF Queries
    <3> QED
      BY <1>6, <3>1 DEF Setup
  <2>3. \A q \in Queries : pc'[q] = "authorise" <=> pc[q] = "authorise"
    BY <1>6, <2>2 DEF Setup
  <2>4. Authorising' = Authorising
    BY <2>3 DEF Authorising
  <2> QED
    BY <1>2, <2>1, <2>4
<1>7. ASSUME NEW q \in Queries, Refused(q) \/ OtherError(q)
      PROVE  StopCounts'
  <2>1. pc[q] = "request" /\ Apply(q) /\ abandoned' = abandoned
    BY <1>7 DEF Refused, OtherError, history
  <2>2. CASE Grant(q) /\ UNCHANGED stop
    BY <1>5, <2>1, <2>2 DEF Grant
  <2>3. CASE Goto(q, "authorise") /\ stop' = stop + 1
    BY <1>3, <2>1, <2>3 DEF Goto
  <2> QED
    BY <2>1, <2>2, <2>3 DEF Apply
<1>8. ASSUME NEW q \in Queries, Authorise(q) \/ NoCode(q) \/ AuthoriseFails(q)
      PROVE  StopCounts'
  <2>1. pc[q] = "authorise" /\ \E place \in {"exchange", "ended"} : pc' = [pc EXCEPT ![q] = place]
    BY <1>8 DEF Authorise, NoCode, AuthoriseFails, Goto, End
  <2>2. \/ stop' = stop - 1 /\ abandoned' = abandoned
        \/ stop' = stop /\ abandoned' = abandoned + 1
    BY <1>8 DEF Authorise, NoCode, AuthoriseFails, history
  <2> QED
    BY <1>4, <2>1, <2>2
<1>9. ASSUME NEW q \in Queries,
             Answered(q) \/ Exchange(q) \/ Update(q) \/ Open(q) \/ Close(q) \/ RequestFails(q)
      PROVE  StopCounts'
  <2>1. /\ pc[q] # "authorise"
        /\ \E place \in {"ended", "update", "open", "close"} : pc' = [pc EXCEPT ![q] = place]
    BY <1>9 DEF Answered, Exchange, Update, Open, Close, RequestFails, Requesting, Grant,
       Goto, End
  <2>2. UNCHANGED <<stop, abandoned>>
    BY <1>9 DEF Answered, Exchange, Update, Open, Close, RequestFails, history
  <2> QED
    BY <1>5, <2>1, <2>2
<1>10. CASE Restart
  <2>1. Authorising' = {}
    BY <1>10 DEF Restart, Authorising
  <2> QED
    BY <1>10, <2>1, FS_EmptySet DEF Restart
<1>11. ASSUME EndWait \/ (\E a \in Apps : Expire(a)) \/ UNCHANGED vars
       PROVE  StopCounts'
  <2>1. UNCHANGED <<pc, stop, abandoned>>
    BY <1>11 DEF EndWait, Expire, vars, history
  <2> QED
    BY <1>2, <2>1 DEF Authorising
<1> QED
  BY <1>6, <1>7, <1>8, <1>9, <1>10, <1>11 DEF Next, Schedule, Proceed

-----------------------------------------------------------------------------
LEMMA AccessInit == Init => AccessInv
<1> SUFFICES ASSUME Init PROVE AccessInv
  OBVIOUS
<1> USE BoundFacts DEF Init
<1>1. ShapeInv
  BY DEF ShapeInv, Loops
<1>2. SavingInv
  <2>1. file \in Whole
    BY DEF Whole
  <2> QED
    BY <2>1, ConfigurationFacts DEF SavingInv, MemoryInv, BufferInv, FileInv,
       ConfigurationSaved, Known, Whole
<1>3. StopCounts
  <2>1. Authorising = {}
    BY DEF Authorising
  <2> QED
    BY <2>1, FS_EmptySet DEF StopCounts
<1> QED
  BY <1>1, <1>2, <1>3 DEF AccessInv

LEMMA AccessInvAlways == Spec => []AccessInv
<1>1. AccessInv /\ [Next]_vars => AccessInv'
  BY ShapeStep, SavingStep, StopStep DEF AccessInv, SavingInv
<1> QED
  BY <1>1, AccessInit, PTL DEF Spec

\* Every variable stays in its set: no token beyond the bound is granted, and STOP
\* holds no more entries than there are queries and faults.
THEOREM TypeCorrect == Spec => []TypeOK
<1>1. ASSUME AccessInv
      PROVE  TypeOK
  <2> USE <1>1, BoundFacts DEF AccessInv, SavingInv
  <2>1. memory \in Configurations /\ file \in Configurations
    BY ConfigurationFacts DEF MemoryInv, FileInv
  <2>2. buffer \in [Queries -> Configurations]
    BY ConfigurationFacts DEF BufferInv
  <2>3. stop \in 0..(Cardinality(Queries) + MaxFault)
    <3>1. /\ Cardinality(Authorising) \in Nat
          /\ Cardinality(Authorising) <= Cardinality(Queries)
          /\ Cardinality(Queries) \in Nat
      BY QueriesFinite DEF Authorising
    <3> QED
      BY <3>1 DEF StopCounts, ShapeInv
  <2>4. abandoned \in 0..MaxFault
    BY DEF ShapeInv
  <2> QED
    BY <2>1, <2>2, <2>3, <2>4 DEF TypeOK, ShapeInv, MemoryInv, BufferInv
<1> QED
  BY <1>1, AccessInvAlways, PTL

\* Whenever nobody is saving, the file has what the memory has, but for applications
\* updated while another query held an older copy.
THEOREM FileAgrees == Spec => []ConfigurationSaved
BY AccessInvAlways, PTL DEF AccessInv, SavingInv

\* Applications are lost by a crash inside a write and by nothing else, and then all
\* of them, whatever the order in which writers open and close the file.
THEOREM OnlyTornWritesLose == Spec => []AppsLostOnlyByTornWrite
<1>1. AccessInv => AppsLostOnlyByTornWrite
  BY KnownFacts DEF AccessInv, SavingInv, MemoryInv, FileInv, AppsLostOnlyByTornWrite
<1> QED
  BY <1>1, AccessInvAlways, PTL

\* STOP holds one entry for each authorisation under way and one for each that raised
\* since the crawler started, so that the scheduler waits for ever after one of these.
THEOREM StopExact == Spec => []StopCounts
BY AccessInvAlways, PTL DEF AccessInv
=============================================================================
