------------------------- MODULE CrawlerStoreProofs -------------------------
(***************************************************************************)
(* Proofs about CrawlerStore, for any messages, hours and users, any       *)
(* number of queries and any number of faults.                             *)
(***************************************************************************)
EXTENDS CrawlerStore, TLAPS

\* Only the query in the lock has anything in hand, and it has got the models of
\* hours that are in the mapping.
LockInv ==
    /\ lock = Nobody => done = {} /\ asked = {} /\ making = {}
    /\ asked \subseteq mapped
    /\ \A t \in failed : pc[t] = "commit"

\* What an open transaction holds: rows of hours that are in the mapping; a message
\* of the answer only after its user; a relation only after both.
PendingInv(t) ==
    /\ pc[t] \notin {"add", "commit"} => pending[t] = {}
    /\ pending[t] # {} => HoursOf(t) \subseteq mapped
    /\ \A r \in pending[t] : r.hour \in HoursOf(t)
    /\ \A m \in Message : RelationRow(m) \in pending[t] => RowsOf(m) \subseteq Visible(t)
    /\ \A m \in Message : MessageRow(m) \in pending[t] =>
                              m \in answer[t] /\ UserRow(m) \in Visible(t)

\* What the executed statements should have inserted is there, for this transaction.
DoneInv(t) ==
    /\ pc[t] = "add" => \A s \in done : Given(t, s) \subseteq Visible(t)
    /\ pc[t] = "commit" /\ t \notin failed =>
           \A m \in answer[t] : RowsOf(m) \subseteq Visible(t)

StoreInv ==
    /\ TypeOK
    /\ LockInv
    /\ \A t \in Threads : PendingInv(t) /\ DoneInv(t)
    /\ RelationsComplete
    /\ ReportedIsStored

-----------------------------------------------------------------------------
\* The rows of messages are told apart by their tables and keys.
LEMMA RowFacts ==
    ASSUME NEW m \in Message, NEW n \in Message
    PROVE  /\ RelationRow(m) = RelationRow(n) => m = n
           /\ MessageRow(m) = MessageRow(n) => m = n
           /\ UserRow(m) # MessageRow(n) /\ UserRow(m) # RelationRow(n)
           /\ MessageRow(m) # RelationRow(n)
           /\ RowsOf(m) \subseteq Rows
           /\ \A r \in RowsOf(m) : r.hour = HourOf[m] /\ r.kind \in Kinds
<1>1. ASSUME NEW k, NEW h, NEW x, NEW l, NEW i, NEW y, Row(k, h, x) = Row(l, i, y)
      PROVE  k = l /\ x = y
  <2>1. Row(k, h, x).kind = k /\ Row(k, h, x).key = x
    BY DEF Row
  <2>2. Row(l, i, y).kind = l /\ Row(l, i, y).key = y
    BY DEF Row
  <2> QED
    BY <1>1, <2>1, <2>2
<1>2. RowsOf(m) \subseteq Rows
  BY DEF Rows
<1>3. ASSUME NEW r \in RowsOf(m)
      PROVE  r.hour = HourOf[m] /\ r.kind \in Kinds
  BY <1>3 DEF RowsOf, UserRow, MessageRow, RelationRow, Row, Kinds, UserTable,
     MessageTable, RelationTable
<1> QED
  BY <1>1, <1>2, <1>3 DEF UserRow, MessageRow, RelationRow, UserTable, MessageTable,
     RelationTable

LEMMA GivenFacts ==
    ASSUME NEW t, NEW s, answer[t] \subseteq Message
    PROVE  /\ Given(t, s) \subseteq Rows
           /\ \A r \in Given(t, s) : r.hour \in HoursOf(t)
           /\ \A r \in Given(t, s) : \E m \in answer[t] : r \in RowsOf(m)
<1>1. ASSUME NEW r \in Given(t, s)
      PROVE  \E m \in answer[t] : r \in RowsOf(m)
  BY DEF Given
<1>2. ASSUME NEW r \in Given(t, s)
      PROVE  r \in Rows /\ r.hour \in HoursOf(t)
  <2>1. PICK m \in answer[t] : r \in RowsOf(m)
    BY <1>1
  <2> QED
    BY <2>1, RowFacts DEF HoursOf
<1> QED
  BY <1>1, <1>2

-----------------------------------------------------------------------------
\* The end of an addition, with or without an error.
LEMMA LeaveLock ==
    ASSUME TypeOK, NEW t \in Threads, pc[t] = "add", Unlock, Goto(t, "commit")
    PROVE  /\ pc' \in [Threads -> {"request", "lock", "add", "commit", "ended"}]
           /\ pc'[t] = "commit"
           /\ \A u \in Threads \ {t} : pc'[u] = pc[u] /\ pc[u] # "add"
           /\ lock' = Nobody /\ asked' = {} /\ making' = {} /\ done' = {}
           /\ \A u \in Threads : pc'[u] # "add" /\ lock' # u
<1>1. lock = t
  BY DEF TypeOK
<1>2. /\ pc' \in [Threads -> {"request", "lock", "add", "commit", "ended"}]
      /\ pc'[t] = "commit"
      /\ \A u \in Threads \ {t} : pc'[u] = pc[u]
  BY DEF TypeOK, Goto
<1>3. \A u \in Threads \ {t} : pc[u] # "add"
  BY <1>1 DEF TypeOK
<1>4. lock' = Nobody /\ asked' = {} /\ making' = {} /\ done' = {}
  BY DEF Unlock
<1>5. \A u \in Threads : u # Nobody
  BY DataAssumption DEF Threads, Nobody
<1> QED
  BY <1>2, <1>3, <1>4, <1>5

\* Every variable stays in its set, and the lock is with the query that is adding.
THEOREM TypeCorrect == Spec => []TypeOK
<1>1. Init => TypeOK
  BY DataAssumption DEF Init, TypeOK, Threads, Nobody
<1>2. TypeOK /\ [Next]_vars => TypeOK'
  <2> SUFFICES ASSUME TypeOK, [Next]_vars PROVE TypeOK'
    OBVIOUS
  <2> USE DataAssumption DEF TypeOK, Goto, vars, addition, database, history
  <2>1. ASSUME NEW t \in Threads, Answer(t)
        PROVE  TypeOK'
    BY <2>1 DEF Answer
  <2>2. ASSUME NEW t \in Threads, Acquire(t)
        PROVE  TypeOK'
    BY <2>2 DEF Acquire, Threads, Nobody
  <2>3. ASSUME NEW t \in Threads, GetModels(t)
        PROVE  TypeOK'
    <3>1. HoursOf(t) \subseteq Hour
      BY DEF HoursOf
    <3>2. PICK h \in HoursOf(t) \ asked : Mapped(t, h) \/ Declare(t, h) \/ DeclareAgain(t, h)
      BY <2>3 DEF GetModels
    <3>3. CASE Mapped(t, h) \/ Declare(t, h)
      BY <2>3, <3>1, <3>3 DEF GetModels, Mapped, Declare
    <3>4. CASE DeclareAgain(t, h)
      <4>1. pc[t] = "add" /\ Unlock /\ Goto(t, "commit")
        BY <2>3, <3>4 DEF GetModels, DeclareAgain, Swallow
      <4>2. /\ failed' = failed \cup {t}
            /\ UNCHANGED <<answer, registered, mapped, database, faults, stored, damaged>>
        BY <2>3, <3>4 DEF GetModels, DeclareAgain, Swallow
      <4> QED
        BY <4>1, <4>2, LeaveLock
    <3> QED
      BY <3>2, <3>3, <3>4
  <2>4. ASSUME NEW t \in Threads, CreateTable(t)
        PROVE  TypeOK'
    BY <2>4 DEF CreateTable
  <2>5. ASSUME NEW t \in Threads, EnterMapping(t)
        PROVE  TypeOK'
    BY <2>5 DEF EnterMapping
  <2>6. ASSUME NEW t \in Threads, Insert(t)
        PROVE  TypeOK'
    <3>1. PICK s \in Due(t) :
              /\ pending' = [pending EXCEPT ![t] =
                    @ \cup {r \in Given(t, s) \ rows : HasParents(r, Visible(t))}]
              /\ IF Remaining(t) = {s}
                 THEN Unlock /\ Goto(t, "commit")
                 ELSE done' = done \cup {s} /\ UNCHANGED <<pc, lock, asked, making>>
      BY <2>6 DEF Insert
    <3>2. s \in Kinds \X Hour
      BY DEF Due, Remaining, HoursOf
    <3>3. Given(t, s) \subseteq Rows
      BY GivenFacts
    <3>4. pending' \in [Threads -> SUBSET Rows]
      BY <3>1, <3>3
    <3>5. UNCHANGED <<answer, registered, mapped, created, rows, history>>
      BY <2>6 DEF Insert
    <3>6. CASE Remaining(t) = {s}
      <4>1. pc[t] = "add" /\ Unlock /\ Goto(t, "commit")
        BY <2>6, <3>1, <3>6 DEF Insert
      <4> QED
        BY <3>4, <3>5, <4>1, LeaveLock
    <3>7. CASE Remaining(t) # {s}
      BY <3>1, <3>2, <3>4, <3>5, <3>7
    <3> QED
      BY <3>6, <3>7
  <2>7. ASSUME NEW t \in Threads, Commit(t) \/ CommitFails(t)
        PROVE  TypeOK'
    BY <2>7 DEF Commit, CommitFails, End, Fault
  <2>8. ASSUME NEW t \in Threads, CreateFails(t) \/ InsertFails(t)
        PROVE  TypeOK'
    <3>1. pc[t] = "add" /\ Unlock /\ Goto(t, "commit") /\ failed' = failed \cup {t}
      BY <2>8 DEF CreateFails, InsertFails, Swallow
    <3>2. UNCHANGED <<answer, registered, mapped, created, rows, stored, damaged>>
      BY <2>8 DEF CreateFails, InsertFails
    <3>3. pending' \in {pending, [pending EXCEPT ![t] = {}]}
      BY <2>8 DEF CreateFails, InsertFails
    <3>4. faults' \in 0..MaxFault
      BY <2>8 DEF CreateFails, InsertFails, Fault
    <3>5. pending' \in [Threads -> SUBSET Rows]
      BY <3>3
    <3> QED
      BY <3>1, <3>2, <3>4, <3>5, LeaveLock
  <2>9. CASE Restart
    BY <2>9 DEF Restart, Unlock, Fault, Nobody, Threads
  <2>10. CASE UNCHANGED vars
    BY <2>10
  <2> QED
    BY <2>1, <2>2, <2>3, <2>4, <2>5, <2>6, <2>7, <2>8, <2>9, <2>10 DEF Next, Add
<1> QED
  BY <1>1, <1>2, PTL DEF Spec

-----------------------------------------------------------------------------
\* What is known of a query stays true while others go on: rows and hours are only
\* added.
LEMMA OthersKeep ==
    ASSUME NEW u \in Threads, PendingInv(u), DoneInv(u),
           pc'[u] = pc[u], answer'[u] = answer[u], pending'[u] = pending[u],
           rows \subseteq rows', mapped \subseteq mapped',
           u \in failed' <=> u \in failed,
           pc[u] = "add" => done' = done
    PROVE  PendingInv(u)' /\ DoneInv(u)'
<1>1. HoursOf(u)' = HoursOf(u) /\ \A s : Given(u, s)' = Given(u, s)
  BY DEF HoursOf, Given
<1>2. Visible(u) \subseteq Visible(u)'
  BY DEF Visible
<1>3. PendingInv(u)'
  <2>1. \A m \in Message : RelationRow(m) \in pending'[u] => RowsOf(m) \subseteq Visible(u)'
    BY <1>2 DEF PendingInv
  <2>2. \A m \in Message : MessageRow(m) \in pending'[u] =>
                               m \in answer'[u] /\ UserRow(m) \in Visible(u)'
    BY <1>2 DEF PendingInv
  <2> QED
    BY <1>1, <2>1, <2>2 DEF PendingInv
<1>4. DoneInv(u)'
  BY <1>1, <1>2 DEF DoneInv
<1> QED
  BY <1>3, <1>4

\* A query with nothing in its transaction, that is neither adding nor about to
\* commit.
LEMMA NothingPending ==
    ASSUME NEW u, pending'[u] = {}, pc'[u] \notin {"add", "commit"}
    PROVE  PendingInv(u)' /\ DoneInv(u)'
BY DEF PendingInv, DoneInv

\* A query that goes to its commit after an error.
LEMMA FailedKeeps ==
    ASSUME NEW t \in Threads, PendingInv(t), pc'[t] = "commit", t \in failed',
           answer'[t] = answer[t], pending'[t] \in {pending[t], {}},
           rows' = rows, mapped' = mapped
    PROVE  PendingInv(t)' /\ DoneInv(t)'
<1>1. HoursOf(t)' = HoursOf(t)
  BY DEF HoursOf
<1>2. CASE pending'[t] = pending[t]
  <2>1. Visible(t)' = Visible(t)
    BY <1>2 DEF Visible
  <2> QED
    BY <1>1, <1>2, <2>1 DEF PendingInv, DoneInv
<1>3. CASE pending'[t] = {}
  BY <1>3 DEF PendingInv, DoneInv
<1> QED
  BY <1>2, <1>3

\* An insertion keeps the order users, messages, relations: what the statement gives
\* is in the tables or in the transaction afterwards.
LEMMA InsertStatement ==
    ASSUME StoreInv, NEW t \in Threads, pc[t] = "add", HasModels(t), NEW s \in Due(t),
           pending' = [pending EXCEPT ![t] =
                @ \cup {r \in Given(t, s) \ rows : HasParents(r, Visible(t))}],
           UNCHANGED <<answer, mapped, rows>>
    PROVE  /\ Given(t, s) \subseteq Visible(t)'
           /\ Visible(t) \subseteq Visible(t)'
           /\ (pc' [t] \in {"add", "commit"}) => PendingInv(t)'
<1> USE DEF StoreInv, TypeOK
<1>1. pending'[t] = pending[t] \cup {r \in Given(t, s) \ rows : HasParents(r, Visible(t))}
  OBVIOUS
<1>2. Visible(t) \subseteq Visible(t)'
  BY <1>1 DEF Visible
<1>3. ASSUME NEW m \in answer[t], RelationRow(m) \in Given(t, s)
      PROVE  MessageRow(m) \in Visible(t) /\ UserRow(m) \in Visible(t)
  <2>1. s = <<RelationTable, HourOf[m]>>
    <3>1. s \in Kinds \X HoursOf(t)
      BY DEF Due, Remaining
    <3> QED
      BY <1>3, <3>1 DEF Given, RelationRow, Row
  <2>2. \A k \in {UserTable, MessageTable} : <<k, HourOf[m]>> \in done
    <3> SUFFICES ASSUME NEW k \in {UserTable, MessageTable}, <<k, HourOf[m]>> \notin done
                 PROVE  FALSE
      OBVIOUS
    <3>1. <<k, HourOf[m]>> \in Remaining(t)
      BY DEF Remaining, HoursOf, Kinds, UserTable, MessageTable
    <3>2. RelationTable <= k
      BY <2>1, <3>1 DEF Due
    <3> QED
      BY <3>2 DEF UserTable, MessageTable, RelationTable
  <2>3. /\ MessageRow(m) \in Given(t, <<MessageTable, HourOf[m]>>)
        /\ UserRow(m) \in Given(t, <<UserTable, HourOf[m]>>)
    BY DEF Given, RowsOf, MessageRow, UserRow, Row
  <2>4. DoneInv(t)
    OBVIOUS
  <2> QED
    BY <2>2, <2>3, <2>4 DEF DoneInv
<1>4. ASSUME NEW r \in Given(t, s)
      PROVE  HasParents(r, Visible(t))
  <2>1. PICK m \in answer[t] : r \in RowsOf(m)
    BY GivenFacts
  <2>2. CASE r = RelationRow(m)
    <3>1. r.hour = HourOf[m] /\ r.key = m
      BY <2>2 DEF RelationRow, Row
    <3> QED
      BY <1>3, <2>2, <3>1 DEF HasParents, MessageRow, UserRow
  <2>3. CASE r \in {UserRow(m), MessageRow(m)}
    BY <2>3 DEF HasParents, UserRow, MessageRow, Row, UserTable, MessageTable, RelationTable
  <2> QED
    BY <2>1, <2>2, <2>3 DEF RowsOf
<1>5. Given(t, s) \subseteq Visible(t)'
  BY <1>1, <1>4 DEF Visible
<1>6. ASSUME NEW m \in Message, RelationRow(m) \in Given(t, s)
      PROVE  m \in answer[t]
  BY <1>6, GivenFacts, RowFacts DEF RowsOf
<1>7. ASSUME NEW m \in Message, MessageRow(m) \in Given(t, s)
      PROVE  m \in answer[t]
  BY <1>7, GivenFacts, RowFacts DEF RowsOf
<1>8. ASSUME NEW m \in Message, RelationRow(m) \in pending'[t]
      PROVE  RowsOf(m) \subseteq Visible(t)'
  <2>1. CASE RelationRow(m) \in pending[t]
    BY <1>2, <2>1 DEF PendingInv
  <2>2. CASE RelationRow(m) \in Given(t, s)
    BY <1>2, <1>3, <1>5, <1>6, <2>2 DEF RowsOf
  <2> QED
    BY <1>1, <1>8, <2>1, <2>2
<1>9. ASSUME NEW m \in Message, MessageRow(m) \in pending'[t]
      PROVE  m \in answer'[t] /\ UserRow(m) \in Visible(t)'
  <2>1. CASE MessageRow(m) \in pending[t]
    BY <1>2, <2>1 DEF PendingInv
  <2>2. CASE MessageRow(m) \in Given(t, s)
    <3>1. m \in answer[t]
      BY <1>7, <2>2
    <3>2. s = <<MessageTable, HourOf[m]>>
      <4>1. s \in Kinds \X HoursOf(t)
        BY DEF Due, Remaining
      <4> QED
        BY <2>2, <4>1 DEF Given, MessageRow, Row
    <3>3. <<UserTable, HourOf[m]>> \in done
      <4> SUFFICES ASSUME <<UserTable, HourOf[m]>> \notin done
                   PROVE  FALSE
        OBVIOUS
      <4>1. <<UserTable, HourOf[m]>> \in Remaining(t)
        BY <3>1 DEF Remaining, HoursOf, Kinds, UserTable
      <4>2. MessageTable <= UserTable
        BY <3>2, <4>1 DEF Due
      <4> QED
        BY <4>2 DEF UserTable, MessageTable
    <3>4. UserRow(m) \in Given(t, <<UserTable, HourOf[m]>>)
      BY <3>1 DEF Given, RowsOf, UserRow, Row
    <3>5. DoneInv(t)
      OBVIOUS
    <3> QED
      BY <1>2, <3>1, <3>3, <3>4, <3>5 DEF DoneInv
  <2> QED
    BY <1>1, <1>9, <2>1, <2>2
<1>10. HoursOf(t)' = HoursOf(t) /\ HoursOf(t) \subseteq mapped'
  BY DEF HoursOf, HasModels, LockInv
<1>11. \A r \in pending'[t] : r.hour \in HoursOf(t)'
  BY <1>1, <1>10, GivenFacts DEF PendingInv
<1> QED
  BY <1>2, <1>5, <1>8, <1>9, <1>10, <1>11 DEF PendingInv

LEMMA InsertStep ==
    ASSUME StoreInv, NEW t \in Threads, Insert(t)
    PROVE  LockInv' /\ PendingInv(t)' /\ DoneInv(t)'
<1> USE DEF StoreInv, TypeOK
<1>1. PICK s \in Due(t) :
          /\ pending' = [pending EXCEPT ![t] =
                @ \cup {r \in Given(t, s) \ rows : HasParents(r, Visible(t))}]
          /\ IF Remaining(t) = {s}
             THEN Unlock /\ Goto(t, "commit")
             ELSE done' = done \cup {s} /\ UNCHANGED <<pc, lock, asked, making>>
  BY DEF Insert
<1>2. pc[t] = "add" /\ HasModels(t) /\ lock = t /\ t # Nobody
  BY DataAssumption DEF Insert, Threads, Nobody
<1>3. UNCHANGED <<answer, registered, mapped, created, rows, history>>
  BY DEF Insert
<1>4. /\ Given(t, s) \subseteq Visible(t)'
      /\ Visible(t) \subseteq Visible(t)'
      /\ pc'[t] \in {"add", "commit"} => PendingInv(t)'
  BY <1>1, <1>2, <1>3, InsertStatement
<1>5. \A r : Given(t, r)' = Given(t, r)
  BY <1>3 DEF Given
<1>6. \A r \in done \cup {s} : Given(t, r) \subseteq Visible(t)'
  BY <1>2, <1>4 DEF DoneInv
<1>7. CASE Remaining(t) = {s}
  <2>1. Unlock /\ Goto(t, "commit")
    BY <1>1, <1>7
  <2>2. pc'[t] = "commit" /\ LockInv'
    <3>1. \A u \in failed : pc'[u] = "commit"
      BY <1>2, <2>1, LeaveLock DEF LockInv
    <3> QED
      BY <1>2, <1>3, <2>1, <3>1, LeaveLock DEF LockInv, history
  <2>3. ASSUME NEW m \in answer[t], NEW r \in RowsOf(m)
        PROVE  r \in Visible(t)'
    <3>1. r.kind \in Kinds /\ r.hour = HourOf[m] /\ HourOf[m] \in HoursOf(t)
      BY RowFacts DEF HoursOf
    <3>2. r \in Given(t, <<r.kind, r.hour>>)
      BY DEF Given
    <3>3. <<r.kind, r.hour>> \in done \cup {s}
      BY <1>7, <3>1 DEF Remaining
    <3> QED
      BY <1>6, <3>2, <3>3
  <2>4. DoneInv(t)'
    BY <1>3, <2>2, <2>3 DEF DoneInv
  <2> QED
    BY <1>4, <2>2, <2>4
<1>8. CASE Remaining(t) # {s}
  <2>1. done' = done \cup {s} /\ UNCHANGED <<pc, lock, asked, making>>
    BY <1>1, <1>8
  <2>2. LockInv'
    BY <1>2, <1>3, <2>1 DEF LockInv, history
  <2>3. DoneInv(t)'
    BY <1>2, <1>5, <1>6, <2>1 DEF DoneInv
  <2> QED
    BY <1>2, <1>4, <2>1, <2>2, <2>3
<1> QED
  BY <1>7, <1>8

\* A commit makes rows of an hour only together with what they refer to.
LEMMA CommitRows ==
    ASSUME StoreInv, NEW t \in Threads, Commit(t)
    PROVE  RelationsComplete' /\ ReportedIsStored'
<1> USE DEF StoreInv, TypeOK
<1>1. rows' = Visible(t)
  BY DEF Commit, Visible
<1>2. /\ stored' = IF t \in failed THEN stored ELSE stored \cup answer[t]
      /\ damaged' = IF t \in failed THEN damaged \cup answer[t] ELSE damaged
      /\ pc[t] = "commit"
  BY DEF Commit
<1>3. rows \subseteq rows'
  BY <1>1 DEF Visible
<1>4. t \notin failed => \A m \in answer[t] : RowsOf(m) \subseteq rows'
  BY <1>1, <1>2 DEF DoneInv
<1>5. ReportedIsStored'
  BY <1>2, <1>3, <1>4 DEF ReportedIsStored
<1>6. ASSUME NEW m \in Message
      PROVE  /\ RelationRow(m) \in rows' => RowsOf(m) \subseteq rows'
             /\ MessageRow(m) \in rows' => UserRow(m) \in rows'
             /\ MessageRow(m) \in rows' /\ RelationRow(m) \notin rows' => m \in damaged'
  <2>1. RelationRow(m) \in rows' => RowsOf(m) \subseteq rows'
    BY <1>1, <1>3 DEF Visible, RelationsComplete, PendingInv
  <2>2. MessageRow(m) \in rows' => UserRow(m) \in rows'
    BY <1>1, <1>3 DEF Visible, RelationsComplete, PendingInv
  <2>3. ASSUME MessageRow(m) \in rows', RelationRow(m) \notin rows'
        PROVE  m \in damaged'
    <3>1. CASE MessageRow(m) \in rows
      BY <1>2, <1>3, <2>3, <3>1 DEF RelationsComplete
    <3>2. CASE MessageRow(m) \in pending[t]
      BY <1>2, <1>4, <2>3, <3>2 DEF PendingInv, RowsOf
    <3> QED
      BY <1>1, <2>3, <3>1, <3>2 DEF Visible
  <2> QED
    BY <2>1, <2>2, <2>3
<1> QED
  BY <1>5, <1>6 DEF RelationsComplete

LEMMA CommitStep ==
    ASSUME StoreInv, NEW t \in Threads, Commit(t) \/ CommitFails(t)
    PROVE  LockInv' /\ \A u \in Threads : PendingInv(u)' /\ DoneInv(u)'
<1> USE DEF StoreInv, TypeOK
<1>1. /\ End(t) /\ pc[t] = "commit"
      /\ pending' = [pending EXCEPT ![t] = {}]
      /\ UNCHANGED <<lock, asked, making, done, mapped>>
      /\ rows \subseteq rows'
  BY DEF Commit, CommitFails, addition
<1>2. /\ pc'[t] = "ended" /\ pending'[t] = {}
      /\ failed' = failed \ {t}
  BY <1>1 DEF End, Goto
<1>3. \A u \in Threads \ {t} :
          pc'[u] = pc[u] /\ answer'[u] = answer[u] /\ pending'[u] = pending[u]
  BY <1>1 DEF End, Goto
<1>4. LockInv'
  BY <1>1, <1>2, <1>3 DEF LockInv
<1>5. ASSUME NEW u \in Threads \ {t}
      PROVE  PendingInv(u)' /\ DoneInv(u)'
  BY <1>1, <1>2, <1>3, <1>5, OthersKeep
<1>6. PendingInv(t)' /\ DoneInv(t)'
  BY <1>2, NothingPending
<1> QED
  BY <1>4, <1>5, <1>6

\* An error during the addition.
LEMMA SwallowStep ==
    ASSUME StoreInv, NEW t \in Threads, pc[t] = "add", Swallow(t),
           pending' \in {pending, [pending EXCEPT ![t] = {}]},
           UNCHANGED <<answer, mapped, rows>>
    PROVE  LockInv' /\ \A u \in Threads : PendingInv(u)' /\ DoneInv(u)'
<1> USE DEF StoreInv, TypeOK
<1>1. Unlock /\ Goto(t, "commit") /\ failed' = failed \cup {t}
  BY DEF Swallow
<1>2. /\ pc'[t] = "commit"
      /\ \A u \in Threads \ {t} : pc'[u] = pc[u] /\ pc[u] # "add"
      /\ lock' = Nobody /\ asked' = {} /\ making' = {} /\ done' = {}
  BY <1>1, LeaveLock
<1>3. pending'[t] \in {pending[t], {}} /\ \A u \in Threads \ {t} : pending'[u] = pending[u]
  OBVIOUS
<1>4. LockInv'
  BY <1>1, <1>2 DEF LockInv
<1>5. ASSUME NEW u \in Threads \ {t}
      PROVE  PendingInv(u)' /\ DoneInv(u)'
  <2>1. /\ pc'[u] = pc[u] /\ answer'[u] = answer[u] /\ pending'[u] = pending[u]
        /\ u \in failed' <=> u \in failed
        /\ pc[u] # "add"
    BY <1>1, <1>2, <1>3
  <2> QED
    BY <2>1, OthersKeep
<1>6. PendingInv(t)' /\ DoneInv(t)'
  BY <1>1, <1>2, <1>3, FailedKeeps
<1> QED
  BY <1>4, <1>5, <1>6

-----------------------------------------------------------------------------
LEMMA StoreInvStep == StoreInv /\ TypeOK' /\ [Next]_vars => StoreInv'
<1> SUFFICES ASSUME StoreInv, TypeOK', [Next]_vars PROVE StoreInv'
  OBVIOUS
<1> DEFINE Rest == /\ LockInv' /\ \A u \in Threads : PendingInv(u)' /\ DoneInv(u)'
                   /\ RelationsComplete' /\ ReportedIsStored'
<1> SUFFICES Rest
  BY DEF StoreInv
<1> USE DEF StoreInv, TypeOK, vars, addition, database, history
<1>0. ASSUME UNCHANGED rows, UNCHANGED stored, damaged \subseteq damaged'
         PROVE  RelationsComplete' /\ ReportedIsStored'
  BY <1>0 DEF RelationsComplete, ReportedIsStored
<1>1. ASSUME NEW t \in Threads, Answer(t)
      PROVE  Rest
  <2>1. /\ pc[t] = "request" /\ Goto(t, "lock")
        /\ \A u \in Threads \ {t} : answer'[u] = answer[u]
        /\ UNCHANGED <<addition, registered, mapped, database, history>>
    BY <1>1 DEF Answer
  <2>2. pc'[t] = "lock" /\ \A u \in Threads \ {t} : pc'[u] = pc[u]
    BY <2>1 DEF Goto
  <2>3. LockInv'
    BY <2>1, <2>2 DEF LockInv
  <2>4. PendingInv(t)' /\ DoneInv(t)'
    <3>1. pending'[t] = {}
      BY <2>1 DEF PendingInv
    <3> QED
      BY <2>2, <3>1, NothingPending
  <2>5. ASSUME NEW u \in Threads \ {t}
        PROVE  PendingInv(u)' /\ DoneInv(u)'
    BY <2>1, <2>2, <2>5, OthersKeep
  <2> QED
    BY <1>0, <2>1, <2>3, <2>4, <2>5
<1>2. ASSUME NEW t \in Threads, Acquire(t)
      PROVE  Rest
  <2>1. /\ pc[t] = "lock" /\ Goto(t, "add") /\ lock = Nobody /\ lock' = t
        /\ UNCHANGED <<answer, asked, making, done, registered, mapped, database, history>>
    BY <1>2 DEF Acquire
  <2>2. pc'[t] = "add" /\ \A u \in Threads \ {t} : pc'[u] = pc[u]
    BY <2>1 DEF Goto
  <2>3. LockInv' /\ done' = {}
    BY <2>1, <2>2 DEF LockInv
  <2>4. PendingInv(t)' /\ DoneInv(t)'
    BY <2>1, <2>2, <2>3 DEF PendingInv, DoneInv
  <2>5. ASSUME NEW u \in Threads \ {t}
        PROVE  PendingInv(u)' /\ DoneInv(u)'
    BY <2>1, <2>2, <2>5, OthersKeep
  <2> QED
    BY <1>0, <2>1, <2>3, <2>4, <2>5
<1>3. ASSUME NEW t \in Threads, GetModels(t)
      PROVE  Rest
  <2>1. PICK h \in HoursOf(t) \ asked : Mapped(t, h) \/ Declare(t, h) \/ DeclareAgain(t, h)
    BY <1>3 DEF GetModels
  <2>2. pc[t] = "add" /\ lock = t /\ t # Nobody
    BY <1>3, DataAssumption DEF GetModels, Threads, Nobody
  <2>3. UNCHANGED <<answer, database, stored, damaged>>
    BY <1>3 DEF GetModels
  <2>4. CASE Mapped(t, h) \/ Declare(t, h)
    <3>1. UNCHANGED <<pc, lock, done, mapped, failed>> /\ asked' \subseteq mapped
      BY <2>4 DEF Mapped, Declare, LockInv
    <3>2. LockInv'
      BY <2>2, <3>1 DEF LockInv
    <3>3. ASSUME NEW u \in Threads
          PROVE  PendingInv(u)' /\ DoneInv(u)'
      BY <2>3, <3>1, OthersKeep
    <3> QED
      BY <1>0, <2>3, <3>2, <3>3
  <2>5. CASE DeclareAgain(t, h)
    <3>1. Swallow(t) /\ UNCHANGED mapped
      BY <2>5 DEF DeclareAgain
    <3> QED
      BY <1>0, <2>2, <2>3, <3>1, SwallowStep
  <2> QED
    BY <2>1, <2>4, <2>5
<1>4. ASSUME NEW t \in Threads, CreateTable(t) \/ EnterMapping(t)
      PROVE  Rest
  <2>1. /\ UNCHANGED <<pc, answer, lock, done, registered, rows, pending, history>>
        /\ mapped \subseteq mapped'
    BY <1>4 DEF CreateTable, EnterMapping
  <2>2. lock # Nobody
    BY <1>4, DataAssumption DEF CreateTable, EnterMapping, Threads, Nobody
  <2>3. asked' \subseteq mapped'
    BY <1>4 DEF CreateTable, EnterMapping, LockInv
  <2>4. LockInv'
    BY <2>1, <2>2, <2>3 DEF LockInv
  <2>5. ASSUME NEW u \in Threads
        PROVE  PendingInv(u)' /\ DoneInv(u)'
    BY <2>1, OthersKeep
  <2> QED
    BY <1>0, <2>1, <2>4, <2>5
<1>5. ASSUME NEW t \in Threads, Insert(t)
      PROVE  Rest
  <2>1. LockInv' /\ PendingInv(t)' /\ DoneInv(t)'
    BY <1>5, InsertStep
  <2>2. /\ UNCHANGED <<answer, mapped, rows, history>>
        /\ \A u \in Threads \ {t} :
              pc[u] # "add" /\ pc'[u] = pc[u] /\ pending'[u] = pending[u]
    BY <1>5 DEF Insert, Goto
  <2>3. ASSUME NEW u \in Threads \ {t}
        PROVE  PendingInv(u)' /\ DoneInv(u)'
    BY <2>2, <2>3, OthersKeep
  <2> QED
    BY <1>0, <2>1, <2>2, <2>3
<1>6. ASSUME NEW t \in Threads, Commit(t)
      PROVE  Rest
  BY <1>6, CommitStep, CommitRows
<1>7. ASSUME NEW t \in Threads, CommitFails(t)
      PROVE  Rest
  <2>1. UNCHANGED <<rows, stored>> /\ damaged \subseteq damaged'
    BY <1>7 DEF CommitFails
  <2> QED
    BY <1>0, <1>7, <2>1, CommitStep
<1>8. ASSUME NEW t \in Threads, CreateFails(t) \/ InsertFails(t)
      PROVE  Rest
  <2>1. /\ pc[t] = "add" /\ Swallow(t)
        /\ pending' \in {pending, [pending EXCEPT ![t] = {}]}
        /\ UNCHANGED <<answer, mapped, rows, stored, damaged>>
    BY <1>8 DEF CreateFails, InsertFails
  <2> QED
    BY <1>0, <2>1, SwallowStep
<1>9. CASE Restart
  <2>1. /\ \A u \in Threads : pc'[u] \notin {"add", "commit"} /\ pending'[u] = {}
        /\ UNCHANGED <<rows, stored, damaged>>
    BY <1>9 DEF Restart
  <2>2. LockInv'
    BY <1>9 DEF Restart, Unlock, LockInv
  <2>3. ASSUME NEW u \in Threads
        PROVE  PendingInv(u)' /\ DoneInv(u)'
    BY <2>1, NothingPending
  <2> QED
    BY <1>0, <2>1, <2>2, <2>3
<1>10. CASE UNCHANGED vars
  <2>1. LockInv'
    BY <1>10 DEF LockInv
  <2>2. ASSUME NEW u \in Threads
        PROVE  PendingInv(u)' /\ DoneInv(u)'
    BY <1>10, OthersKeep
  <2> QED
    BY <1>0, <1>10, <2>1, <2>2
<1> QED
  BY <1>1, <1>2, <1>3, <1>4, <1>5, <1>6, <1>7, <1>8, <1>9, <1>10 DEF Next, Add

LEMMA StoreInvAlways == Spec => []StoreInv
<1>1. Init => TypeOK
  BY DataAssumption DEF Init, TypeOK, Threads, Nobody
<1>2. Init => StoreInv
  BY <1>1 DEF Init, StoreInv, LockInv, PendingInv, DoneInv, RelationsComplete,
     ReportedIsStored
<1> QED
  BY <1>2, StoreInvStep, TypeCorrect, PTL DEF Spec

\* What a query reports as stored is in the tables, whatever the other queries had
\* inserted before it and whether or not their commits succeed afterwards.
THEOREM ReportsAreTrue == Spec => []ReportedIsStored
BY StoreInvAlways, PTL DEF StoreInv

\* No relation is seen without its user and message, in any order of insertions
\* and commits, after any fault.
THEOREM RelationsAlwaysComplete == Spec => []RelationsComplete
BY StoreInvAlways, PTL DEF StoreInv

\* Until the next start, no step takes an hour out of the state that a failed creation
\* of its tables has left it in, and no query with a message of it inserts anything.
THEOREM PoisonStays == Spec => PoisonIsFinal
<1>1. ASSUME StoreInv, [Next]_vars, NEW h \in Poisoned
      PROVE  \/ registered' = {}
             \/ /\ h \in Poisoned'
                /\ {r \in rows' \ rows : r.hour = h} = {}
                /\ \A t \in Threads : h \in HoursOf(t) => pending'[t] = {}
  <2> USE <1>1 DEF StoreInv, TypeOK, vars, addition, database, history
  <2>1. h \in registered /\ h \notin mapped /\ h \notin making
    BY DEF Poisoned
  <2>2. \A t \in Threads : h \in HoursOf(t) => pending[t] = {}
    BY <2>1 DEF PendingInv
  <2>3. \A t \in Threads : \A r \in pending[t] : r.hour # h
    BY <2>1 DEF PendingInv
  <2>4. CASE Restart
    BY <2>4 DEF Restart
  <2>5. ASSUME NEW t \in Threads, Insert(t)
        PROVE  /\ h \in Poisoned'
               /\ rows' = rows
               /\ \A u \in Threads : h \in HoursOf(u) => pending'[u] = {}
    <3>1. /\ UNCHANGED <<registered, mapped, rows>>
          /\ making' = {} /\ HoursOf(t) \subseteq mapped
          /\ \A u \in Threads \ {t} : pending'[u] = pending[u]
      BY <2>5 DEF Insert, HasModels, LockInv, Unlock
    <3> QED
      BY <2>1, <2>2, <3>1 DEF Poisoned
  <2>6. ASSUME NEW t \in Threads, GetModels(t)
        PROVE  h \in Poisoned' /\ rows' = rows /\ pending' = pending
    <3>1. PICK i \in HoursOf(t) : Mapped(t, i) \/ Declare(t, i) \/ DeclareAgain(t, i)
      BY <2>6 DEF GetModels
    <3>2. registered \subseteq registered' /\ mapped' = mapped /\ h \notin making'
      BY <2>1, <3>1 DEF Mapped, Declare, DeclareAgain, Swallow, Unlock
    <3> QED
      BY <2>1, <2>6, <3>2 DEF Poisoned, GetModels
  <2>7. ASSUME NEW t \in Threads,
               Answer(t) \/ Acquire(t) \/ CreateTable(t) \/ EnterMapping(t) \/ CreateFails(t)
        PROVE  h \in Poisoned' /\ rows' = rows /\ pending' = pending
    <3>1. registered' = registered /\ mapped' \subseteq mapped \cup making /\ h \notin making'
      BY <2>1, <2>7 DEF Answer, Acquire, CreateTable, EnterMapping, CreateFails, Swallow, Unlock
    <3> QED
      BY <2>1, <2>7, <3>1 DEF Poisoned, Answer, Acquire, CreateTable, EnterMapping, CreateFails
  <2>8. ASSUME NEW t \in Threads, InsertFails(t) \/ Commit(t) \/ CommitFails(t)
        PROVE  /\ h \in Poisoned'
               /\ rows' \subseteq rows \cup pending[t]
               /\ \A u \in Threads : pending'[u] \in {pending[u], {}}
    <3>1. registered' = registered /\ mapped' = mapped /\ making' \subseteq making
      BY <2>8 DEF InsertFails, Commit, CommitFails, Swallow, Unlock
    <3>2. /\ rows' \subseteq rows \cup pending[t]
          /\ \A u \in Threads : pending'[u] \in {pending[u], {}}
      BY <2>8 DEF InsertFails, Commit, CommitFails
    <3> QED
      BY <2>1, <3>1, <3>2 DEF Poisoned
  <2>9. CASE UNCHANGED vars
    BY <2>1, <2>2, <2>9 DEF Poisoned
  <2> QED
    BY <2>2, <2>3, <2>4, <2>5, <2>6, <2>7, <2>8, <2>9 DEF Next, Add
<1>2. StoreInv /\ [Next]_vars =>
         \A h \in Poisoned :
            \/ registered' = {}
            \/ /\ h \in Poisoned'
               /\ {r \in rows' \ rows : r.hour = h} = {}
               /\ \A t \in Threads : h \in HoursOf(t) => pending'[t] = {}
  BY <1>1
<1> QED
  BY <1>2, StoreInvAlways, PTL DEF Spec, PoisonIsFinal
=============================================================================
