---------------------------- MODULE CrawlerStore ----------------------------
(***************************************************************************)
(* sina_api/weibo_crawl: db_handler.py, model_manager.py, persist.py.  How *)
(* the answers of the API get into the tables.  Each query is a thread     *)
(* with a session of its own.  The addition of its answer holds a lock,    *)
(* its commit does not.                                                    *)
(*                                                                         *)
(* An hour has three tables and three model classes.  The classes are      *)
(* declared first, which registers their names for good, then the tables   *)
(* are created, and only then the hour is entered in the mapping.          *)
(*                                                                         *)
(* Of the database: a statement that meets a key of another open           *)
(* transaction waits for its end; INSERT IGNORE passes over keys that are  *)
(* there and rows whose foreign keys are not.                              *)
(***************************************************************************)
EXTENDS Integers, FiniteSets

CONSTANTS
    Message,     \* what the API may give in an answer, any number of times
    Hour,        \* the hours of the messages
    HourOf, User, UserOf,
    ThreadCount, \* bound: queries, a thread each
    MaxFault     \* bound: errors of the database, failed commits, crashes

ASSUME DataAssumption ==
    /\ HourOf \in [Message -> Hour]
    /\ UserOf \in [Message -> User]
    /\ ThreadCount \in Nat
    /\ MaxFault \in Nat

Threads == 1..ThreadCount
Nobody == 0

\* The tables of an hour, in the order of their creation and of the insertions.
Kinds == 1..3
UserTable == 1
MessageTable == 2
RelationTable == 3

Row(kind, h, key) == [kind |-> kind, hour |-> h, key |-> key]
UserRow(m) == Row(UserTable, HourOf[m], UserOf[m])
MessageRow(m) == Row(MessageTable, HourOf[m], m)
RelationRow(m) == Row(RelationTable, HourOf[m], m)
RowsOf(m) == {UserRow(m), MessageRow(m), RelationRow(m)}
Rows == UNION {RowsOf(m) : m \in Message}

VARIABLES
    pc,          \* pc[t]: where the thread of a query stands
    answer,      \* answer[t]: the messages it got
    lock,        \* who is in add_users_and_messages
    asked,       \* the hours whose models the thread in the lock has got
    making,      \* the hours whose models it is creating, one at most
    done,        \* the statements it has executed: pairs of kind and hour
    registered,  \* hours whose classes are declared (Base.metadata)
    mapped,      \* hours in ModelManager.time_models_mapping
    created,     \* created[h]: how many of the tables there are
    rows,        \* the committed rows
    pending,     \* pending[t]: the rows of its open transaction
    faults,
    failed,      \* the threads under way that met an error
    stored,      \* messages of the queries that ended without an error
    damaged      \* messages of those that did not

addition == <<lock, asked, making, done>>
database == <<created, rows, pending>>
history == <<faults, failed, stored, damaged>>
vars == <<pc, answer, addition, registered, mapped, database, history>>

HoursOf(t) == {HourOf[m] : m \in answer[t]}

\* Declared, but without a way into the mapping: each later attempt to declare the
\* classes raises.
Poisoned == registered \ (mapped \cup making)

Init ==
    /\ pc = [t \in Threads |-> "request"]
    /\ answer = [t \in Threads |-> {}]
    /\ lock = Nobody
    /\ asked = {}
    /\ making = {}
    /\ done = {}
    /\ registered = {}
    /\ mapped = {}
    /\ created = [h \in Hour |-> 0]
    /\ rows = {}
    /\ pending = [t \in Threads |-> {}]
    /\ faults = 0
    /\ failed = {}
    /\ stored = {}
    /\ damaged = {}

Goto(t, place) == pc' = [pc EXCEPT ![t] = place]

\* The thread ends; its answer is forgotten.
End(t) ==
    /\ Goto(t, "ended")
    /\ answer' = [answer EXCEPT ![t] = {}]
    /\ failed' = failed \ {t}

-----------------------------------------------------------------------------
(* query: the answer, and the lock *)

\* The queries are numbered in the order of their answers.
Answer(t) ==
    /\ pc[t] = "request"
    /\ \A s \in Threads : s < t => pc[s] # "request"
    /\ \E S \in SUBSET Message \ {{}} : answer' = [answer EXCEPT ![t] = S]
    /\ Goto(t, "lock")
    /\ UNCHANGED <<addition, registered, mapped, database, history>>

Acquire(t) ==
    /\ pc[t] = "lock"
    /\ lock = Nobody
    /\ lock' = t
    /\ Goto(t, "add")
    /\ UNCHANGED <<answer, asked, making, done, registered, mapped, database, history>>

Unlock ==
    /\ lock' = Nobody
    /\ asked' = {}
    /\ making' = {}
    /\ done' = {}

\* lock_and_unlock logs the error and returns; the caller goes on to the commit.
Swallow(t) ==
    /\ Unlock
    /\ Goto(t, "commit")
    /\ failed' = failed \cup {t}

-----------------------------------------------------------------------------
(* ModelManager.get_models, create_model_class *)

\* The hour is in the mapping.
Mapped(t, h) ==
    /\ h \in mapped
    /\ asked' = asked \cup {h}
    /\ UNCHANGED <<pc, lock, making, done, registered, mapped, failed>>

Declare(t, h) ==
    /\ h \notin mapped \cup registered
    /\ registered' = registered \cup {h}
    /\ making' = {h}
    /\ UNCHANGED <<pc, lock, asked, done, mapped, failed>>

\* "Table ... is already defined for this MetaData instance."
DeclareAgain_Skips(t, h) ==
    /\ h \in registered \ mapped
    /\ asked' = asked \cup {h}
    /\ UNCHANGED <<pc, lock, making, done, registered, mapped, failed>>
DeclareAgain(t, h) ==
    /\ h \in registered \ mapped
    /\ Swallow(t)
    /\ UNCHANGED <<registered, mapped>>

GetModels(t) ==
    /\ pc[t] = "add"
    /\ making = {}
    /\ \E h \in HoursOf(t) \ asked : Mapped(t, h) \/ Declare(t, h) \/ DeclareAgain(t, h)
    /\ UNCHANGED <<answer, database, faults, stored, damaged>>

\* table.create, if the table does not exist.
CreateTable(t) ==
    /\ pc[t] = "add"
    /\ \E h \in making :
          /\ created[h] < 3
          /\ created' = [created EXCEPT ![h] = @ + 1]
    /\ UNCHANGED <<pc, answer, addition, registered, mapped, rows, pending, history>>

EnterMapping(t) ==
    /\ pc[t] = "add"
    /\ making # {}
    /\ \A h \in making : created[h] = 3
    /\ mapped' = mapped \cup making
    /\ asked' = asked \cup making
    /\ making' = {}
    /\ UNCHANGED <<pc, answer, lock, done, registered, database, history>>

-----------------------------------------------------------------------------
(* The insertions *)

\* Users of all hours first, then messages, then relations; hours in any order.
Remaining(t) == (Kinds \X HoursOf(t)) \ done
Due_RelationsFirst(t) == {s \in Remaining(t) : \A r \in Remaining(t) : s[1] >= r[1]}
Due(t) == {s \in Remaining(t) : \A r \in Remaining(t) : s[1] <= r[1]}

Given(t, s) == {r \in UNION {RowsOf(m) : m \in answer[t]} : r.kind = s[1] /\ r.hour = s[2]}

Locked(t) == UNION {pending[u] : u \in Threads \ {t}}
Visible(t) == rows \cup pending[t]

\* A relation refers to its user and its message.
HasParents(r, T) ==
    r.kind = RelationTable =>
        /\ Row(MessageTable, r.hour, r.key) \in T
        /\ Row(UserTable, r.hour, UserOf[r.key]) \in T

HasModels(t) == making = {} /\ HoursOf(t) \subseteq asked

\* _raw_sql_insert_or_update.  The statement waits for the rows it meets; after the
\* last one the lock is released.
Insert(t) ==
    /\ pc[t] = "add"
    /\ HasModels(t)
    /\ \E s \in Due(t) :
          /\ Given(t, s) \cap Locked(t) = {}
          /\ pending' = [pending EXCEPT ![t] =
                @ \cup {r \in Given(t, s) \ rows : HasParents(r, Visible(t))}]
          /\ IF Remaining(t) = {s}
             THEN /\ Unlock
                  /\ Goto(t, "commit")
             ELSE /\ done' = done \cup {s}
                  /\ UNCHANGED <<pc, lock, asked, making>>
    /\ UNCHANGED <<answer, registered, mapped, created, rows, history>>

\* A query that ends counts its messages as stored, unless it has met an error.
Commit_Locked(t) ==
    /\ pc[t] = "commit"
    /\ lock = Nobody
    /\ rows' = rows \cup pending[t]
    /\ pending' = [pending EXCEPT ![t] = {}]
    /\ End(t)
    /\ stored' = IF t \in failed THEN stored ELSE stored \cup answer[t]
    /\ damaged' = IF t \in failed THEN damaged \cup answer[t] ELSE damaged
    /\ UNCHANGED <<addition, registered, mapped, created, faults>>
Commit(t) ==
    /\ pc[t] = "commit"
    /\ rows' = rows \cup pending[t]
    /\ pending' = [pending EXCEPT ![t] = {}]
    /\ End(t)
    /\ stored' = IF t \in failed THEN stored ELSE stored \cup answer[t]
    /\ damaged' = IF t \in failed THEN damaged \cup answer[t] ELSE damaged
    /\ UNCHANGED <<addition, registered, mapped, created, faults>>

-----------------------------------------------------------------------------
(* What goes wrong *)

Fault == faults < MaxFault /\ faults' = faults + 1

\* A table cannot be looked up or created.
CreateFails(t) ==
    /\ Fault
    /\ pc[t] = "add"
    /\ making # {}
    /\ Swallow(t)
    /\ UNCHANGED <<answer, registered, mapped, database, stored, damaged>>

\* A statement is refused, or has waited too long: it has no effect, those before
\* it stay in the transaction.  Or the transaction is gone.
InsertFails(t) ==
    /\ Fault
    /\ pc[t] = "add"
    /\ HasModels(t)
    /\ Swallow(t)
    /\ pending' \in {pending, [pending EXCEPT ![t] = {}]}
    /\ UNCHANGED <<answer, registered, mapped, created, rows, stored, damaged>>

\* IntegrityError and TimeoutError are followed by a rollback, others end the
\* thread, and its session with it.
CommitFails(t) ==
    /\ Fault
    /\ pc[t] = "commit"
    /\ pending' = [pending EXCEPT ![t] = {}]
    /\ End(t)
    /\ damaged' = damaged \cup answer[t]
    /\ UNCHANGED <<addition, registered, mapped, created, rows, stored>>

\* The crawler dies and is started again: the classes and the mapping are gone, the
\* tables stay.
Restart ==
    /\ Fault
    /\ pc' = [t \in Threads |-> IF pc[t] = "request" THEN "request" ELSE "ended"]
    /\ Unlock
    /\ registered' = {}
    /\ mapped' = {}
    /\ pending' = [t \in Threads |-> {}]
    /\ answer' = [t \in Threads |-> {}]
    /\ failed' = {}
    /\ UNCHANGED <<created, rows, stored, damaged>>

-----------------------------------------------------------------------------
Add(t) ==
    \/ Acquire(t) \/ GetModels(t) \/ CreateTable(t) \/ EnterMapping(t)
    \/ Insert(t) \/ Commit(t)

Next ==
    \/ \E t \in Threads :
          Answer(t) \/ Add(t) \/ CreateFails(t) \/ InsertFails(t) \/ CommitFails(t)
    \/ Restart

Spec == Init /\ [][Next]_vars

\* The interpreter runs every thread that can go on, the server ends its statements.
FairSpec == Spec /\ \A t \in Threads : WF_vars(Add(t))

-----------------------------------------------------------------------------
(* Properties *)

TypeOK ==
    /\ pc \in [Threads -> {"request", "lock", "add", "commit", "ended"}]
    /\ answer \in [Threads -> SUBSET Message]
    /\ lock \in Threads \cup {Nobody}
    /\ asked \subseteq Hour /\ making \subseteq Hour
    /\ registered \subseteq Hour /\ mapped \subseteq Hour
    /\ done \subseteq Kinds \X Hour
    /\ created \in [Hour -> 0..3]
    /\ rows \subseteq Rows
    /\ pending \in [Threads -> SUBSET Rows]
    /\ faults \in 0..MaxFault
    /\ failed \subseteq Threads
    /\ stored \subseteq Message /\ damaged \subseteq Message
    /\ \A t \in Threads : pc[t] = "add" <=> lock = t

\* What a query without an error reports as stored is in the tables for good, also
\* the rows that it passed over because another query, whose commit was still to
\* come and may have failed, had inserted them.
ReportedIsStored == \A m \in stored : RowsOf(m) \subseteq rows

\* The tables are never seen with a relation that lacks its user or message; a
\* message without its relation is one of a query that met an error half-way.
RelationsComplete ==
    \A m \in Message :
        /\ RelationRow(m) \in rows => RowsOf(m) \subseteq rows
        /\ MessageRow(m) \in rows => UserRow(m) \in rows
        /\ MessageRow(m) \in rows /\ RelationRow(m) \notin rows => m \in damaged

\* After an hour's tables could not be created once, nothing is added to the hour,
\* and nothing of an answer with a message of this hour to any hour, until the
\* crawler is started again, although the tables may be created without any trouble.
PoisonIsFinal ==
    [][\A h \in Poisoned :
          \/ registered' = {}
          \/ /\ h \in Poisoned'
             /\ {r \in rows' \ rows : r.hour = h} = {}
             /\ \A t \in Threads : h \in HoursOf(t) => pending'[t] = {}]_vars

\* Every query comes to its end: nobody waits for a row of a query that waits for
\* the lock.
QueriesEnd == \A t \in Threads : pc[t] # "request" ~> pc[t] = "ended"
=============================================================================
