--------------------------- MODULE CrawlerAccess ---------------------------
(***************************************************************************)
(* sina_api/weibo_crawl: run.py, bussiness.py, config.py.  The crawler     *)
(* starts one timer per application and loop; the callbacks are threads    *)
(* that ask the API for messages, ask for a new token if the answer is an  *)
(* error, and save it.  The scheduler does not wait for the threads, only  *)
(* for authorisations in a browser that it finds in STOP, so that queries  *)
(* of two loops may run at the same time.                                  *)
(*                                                                         *)
(* A token is a number.  The API refuses those up to expired[a], and gives *)
(* an application that authorises itself its newest valid token or, if     *)
(* there is none, the next one.  A code may be exchanged once.             *)
(***************************************************************************)
EXTENDS Integers, FiniteSets

CONSTANTS
    AppCount,    \* the applications in config.ini
    MaxToken,    \* bound: tokens per application
    MaxFault     \* bound: what goes wrong (an error, a crash of the crawler)

ASSUME BoundsAssumption ==
    /\ {AppCount, MaxToken} \subseteq Nat \ {0}
    /\ MaxFault \in Nat

Apps == 1..AppCount
Loops == {0, 1}      \* the parity of a loop; queries of older loops have ended
Tokens == 1..MaxToken
Queries == Apps \X Loops

\* A configuration maps the applications in it to their tokens.
Configurations == UNION {[S -> Tokens] : S \in SUBSET Apps}
NoApps == [a \in {} |-> 0]

VARIABLES
    file,        \* config.ini
    memory,      \* ConfigurationCenter._config
    scheduler,   \* "setup", "wait" (the sleep and while STOP)
    loop,        \* the parity of the loop that began last
    pc,          \* pc[q]: where the callback of a query stands
    token,       \* token[q]: access_token of its handler, 1 when it needs it no more
    buffer,      \* buffer[q]: what it has written to the open file
    stop,        \* len(STOP)
    issued,      \* the last token the API gave to each application
    expired,     \* the tokens up to this one are refused
    spent,       \* has the code in the configuration been exchanged?
    faults,      \* what went wrong so far
    abandoned,   \* authorisations that raised since the crawler started
    torn,        \* a restart fell between the opening and the closing of the file
    overtaken    \* applications updated while another query was writing

api == <<issued, expired, spent>>
history == <<faults, abandoned, torn, overtaken>>
vars == <<file, memory, scheduler, loop, pc, token, buffer, stop, api, history>>

Known == DOMAIN memory
Valid(a, t) == t > expired[a]
Current(a) == IF issued[a] > expired[a] THEN issued[a] ELSE issued[a] + 1

Authorising == {q \in Queries : pc[q] = "authorise"}

Init ==
    /\ file = [a \in Apps |-> 1]
    /\ memory = file
    /\ scheduler = "setup"
    /\ loop = 0
    /\ pc = [q \in Queries |-> "ended"]
    /\ token = [q \in Queries |-> 1]
    /\ buffer = [q \in Queries |-> NoApps]
    /\ stop = 0
    /\ issued = [a \in Apps |-> 1]
    /\ expired = [a \in Apps |-> 0]
    /\ spent \in [Apps -> BOOLEAN]
    /\ faults = 0
    /\ abandoned = 0
    /\ torn = FALSE
    /\ overtaken = {}

Goto(q, place) == pc' = [pc EXCEPT ![q] = place] /\ UNCHANGED token

\* The thread ends, and its handler with it.
End(q) ==
    /\ pc' = [pc EXCEPT ![q] = "ended"]
    /\ token' = [token EXCEPT ![q] = 1]

-----------------------------------------------------------------------------
(* The scheduler: api, Schedule.run *)

\* A handler per application, built from the configuration in memory, and the
\* timers.  Without applications the division by their number raises, and api
\* tries again after two minutes, for ever.
Setup ==
    /\ scheduler = "setup"
    /\ Known # {}
    /\ \A a \in Apps : pc[<<a, 1 - loop>>] = "ended"
    /\ loop' = 1 - loop
    /\ pc' = [q \in Queries |-> IF q[1] \in Known /\ q[2] = loop' THEN "request" ELSE pc[q]]
    /\ token' = [q \in Queries |->
                    IF q[1] \in Known /\ q[2] = loop' THEN memory[q[1]] ELSE token[q]]
    /\ scheduler' = "wait"
    /\ UNCHANGED <<file, memory, buffer, stop, api, history>>

\* time.sleep(duration) and while STOP: pass.
EndWait ==
    /\ scheduler = "wait"
    /\ stop = 0
    /\ scheduler' = "setup"
    /\ UNCHANGED <<file, memory, loop, pc, token, buffer, stop, api, history>>

-----------------------------------------------------------------------------
(* One query: PublicTimelineQuery.query, WeiboAPIHandler.apply *)

\* The first _internal_apply has its answer.
Answered(q) ==
    /\ pc[q] = "request"
    /\ Valid(q[1], token[q])
    /\ End(q)
    /\ UNCHANGED <<file, memory, scheduler, loop, buffer, stop, api, history>>

\* The API gives the newest valid token, or a new one.
Grant(q) ==
    /\ token' = [token EXCEPT ![q] = Current(q[1])]
    /\ issued' = [issued EXCEPT ![q[1]] = Current(q[1])]
    /\ pc' = [pc EXCEPT ![q] = "update"]

\* _apply_for_access_token with the code of the configuration, which is good for
\* one exchange only; after that get_code sends the user to a browser.
Apply(q) ==
    \/ /\ ~spent[q[1]]
       /\ Grant(q)
       /\ spent' = [spent EXCEPT ![q[1]] = TRUE]
       /\ UNCHANGED <<stop, expired>>
    \/ /\ spent[q[1]]
       /\ Goto(q, "authorise")
       /\ stop' = stop + 1
       /\ UNCHANGED api

Refused(q) ==
    /\ pc[q] = "request"
    /\ ~Valid(q[1], token[q])
    /\ Apply(q)
    /\ UNCHANGED <<file, memory, scheduler, loop, buffer, history>>

\* get_code: the browser has come to the redirect_uri.
Authorise_Stays(q) ==
    /\ pc[q] = "authorise"
    /\ Goto(q, "exchange")
    /\ UNCHANGED <<file, memory, scheduler, loop, buffer, stop, api, history>>
Authorise(q) ==
    /\ pc[q] = "authorise"
    /\ stop' = stop - 1
    /\ Goto(q, "exchange")
    /\ UNCHANGED <<file, memory, scheduler, loop, buffer, api, history>>

Exchange(q) ==
    /\ pc[q] = "exchange"
    /\ Grant(q)
    /\ UNCHANGED <<file, memory, scheduler, loop, buffer, stop, expired, spent, history>>

\* update_by_appid: the section in memory, then the whole file.
Update_Nothing(q) ==
    /\ pc[q] = "update"
    /\ Goto(q, "open")
    /\ UNCHANGED <<file, memory, scheduler, loop, buffer, stop, api, history>>
Update_NotSaved(q) ==
    /\ pc[q] = "update"
    /\ memory' = [memory EXCEPT ![q[1]] = token[q]]
    /\ End(q)
    /\ UNCHANGED <<file, scheduler, loop, buffer, stop, api, history>>
Update(q) ==
    /\ pc[q] = "update"
    /\ memory' = [memory EXCEPT ![q[1]] = token[q]]
    /\ overtaken' = IF \E p \in Queries : pc[p] = "close" THEN overtaken \cup {q[1]} ELSE overtaken
    /\ pc' = [pc EXCEPT ![q] = "open"]
    /\ token' = [token EXCEPT ![q] = 1]
    /\ UNCHANGED <<file, scheduler, loop, buffer, stop, api, faults, abandoned, torn>>

\* open(FILE_REL_PATH, 'w') truncates the file; _config.write(f) fills the buffer,
\* which is larger than the text, so that the file gets it when it is closed.
Open_OwnSection(q) ==
    /\ pc[q] = "open"
    /\ file' = NoApps
    /\ buffer' = [buffer EXCEPT ![q] = [a \in {q[1]} |-> memory[a]]]
    /\ Goto(q, "close")
    /\ UNCHANGED <<memory, scheduler, loop, stop, api, history>>
Open(q) ==
    /\ pc[q] = "open"
    /\ file' = NoApps
    /\ buffer' = [buffer EXCEPT ![q] = memory]
    /\ Goto(q, "close")
    /\ UNCHANGED <<memory, scheduler, loop, stop, api, history>>

\* Another query may have written the file meanwhile: what this one writes replaces
\* all of it, since codes and tokens have one length (32 characters both), and with
\* them the texts of the whole configurations.
Close(q) ==
    /\ pc[q] = "close"
    /\ file' = buffer[q]
    /\ buffer' = [buffer EXCEPT ![q] = NoApps]
    /\ End(q)
    /\ UNCHANGED <<memory, scheduler, loop, stop, api, history>>

-----------------------------------------------------------------------------
(* What goes wrong *)

Requesting == {"request", "exchange"}

\* A request that raises, or whose answer lacks a key: the thread ends.
RequestFails(q) ==
    /\ pc[q] \in Requesting
    /\ faults < MaxFault
    /\ faults' = faults + 1
    /\ End(q)
    /\ UNCHANGED <<file, memory, scheduler, loop, buffer, stop, api,
                   abandoned, torn, overtaken>>

\* An error that has nothing to do with the token, a rate limit for one.
OtherError(q) ==
    /\ pc[q] = "request"
    /\ Valid(q[1], token[q])
    /\ faults < MaxFault
    /\ faults' = faults + 1
    /\ Apply(q)
    /\ UNCHANGED <<file, memory, scheduler, loop, buffer,
                   abandoned, torn, overtaken>>

\* The browser cannot be started, or an element of the page is not found: get_code
\* raises before STOP.pop.
AuthoriseFails(q) ==
    /\ pc[q] = "authorise"
    /\ faults < MaxFault
    /\ faults' = faults + 1
    /\ abandoned' = abandoned + 1
    /\ End(q)
    /\ UNCHANGED <<file, memory, scheduler, loop, buffer, stop, api,
                   torn, overtaken>>

\* The user came to the redirect_uri without a code.
NoCode(q) ==
    /\ pc[q] = "authorise"
    /\ faults < MaxFault
    /\ faults' = faults + 1
    /\ stop' = stop - 1
    /\ End(q)
    /\ UNCHANGED <<file, memory, scheduler, loop, buffer, api,
                   abandoned, torn, overtaken>>

Expire(a) ==
    /\ issued[a] < MaxToken
    /\ ~(expired[a] = issued[a])
    /\ expired' = [expired EXCEPT ![a] = issued[a]]
    /\ UNCHANGED <<file, memory, scheduler, loop, pc, token, buffer, stop, issued, spent, history>>

\* The process dies, and api begins again with load_configuration.
Restart ==
    /\ faults < MaxFault
    /\ faults' = faults + 1
    /\ memory' = file
    /\ torn' = (file = NoApps)
    /\ scheduler' = "setup"
    /\ pc' = [q \in Queries |-> "ended"]
    /\ buffer' = [q \in Queries |-> NoApps]
    /\ stop' = 0
    /\ abandoned' = 0
    /\ overtaken' = {}
    /\ loop' = 0
    /\ token' = [q \in Queries |-> 1]
    /\ UNCHANGED <<file, api>>

-----------------------------------------------------------------------------
Schedule == Setup \/ EndWait

\* What a query does without the user and without an error.
Proceed(q) == Answered(q) \/ Refused(q) \/ Exchange(q) \/ Update(q) \/ Open(q) \/ Close(q)

Next ==
    \/ Schedule
    \/ \E q \in Queries :
          Proceed(q) \/ Authorise(q)
          \/ RequestFails(q) \/ OtherError(q) \/ AuthoriseFails(q) \/ NoCode(q)
    \/ \E a \in Apps : Expire(a)
    \/ Restart

Spec == Init /\ [][Next]_vars

\* Threads run and requests are answered.  Nothing is assumed of the user, nor of
\* the loop that waits for the page without an end.
FairSpec ==
    /\ Spec
    /\ WF_vars(Schedule)
    /\ \A q \in Queries : WF_vars(Proceed(q))

-----------------------------------------------------------------------------
(* Properties *)

TypeOK ==
    /\ file \in Configurations
    /\ memory \in Configurations
    /\ scheduler \in {"setup", "wait"}
    /\ loop \in Loops
    /\ pc \in [Queries -> {"ended", "authorise", "update", "open", "close"}
                          \cup Requesting]
    /\ token \in [Queries -> Tokens]
    /\ buffer \in [Queries -> Configurations]
    /\ stop \in 0..(Cardinality(Queries) + MaxFault)
    /\ issued \in [Apps -> Tokens]
    /\ expired \in [Apps -> 0..MaxToken]
    /\ spent \in [Apps -> BOOLEAN]
    /\ faults \in 0..MaxFault
    /\ abandoned \in 0..MaxFault
    /\ torn \in BOOLEAN
    /\ overtaken \subseteq Apps

\* The file agrees with the memory whenever nobody is saving (a crash then costs
\* nothing), unless an application was updated while another query held a copy of
\* the configuration that it had not written out (update_by_appid has no lock).
ConfigurationSaved ==
    (\A q \in Queries : pc[q] \notin {"open", "close"}) =>
        \A a \in Known : a \in overtaken \/ (a \in DOMAIN file /\ file[a] = memory[a])

\* The applications are lost exactly if the crawler died between the truncation
\* and the end of a write, in whatever order two writers open and close; then the
\* scheduler has nothing to do ever after.
AppsLostOnlyByTornWrite ==
    /\ torn <=> Known = {}
    /\ ~torn => Known = Apps
    /\ file = NoApps => torn \/ \E q \in Queries : pc[q] = "close"

\* A loop follows the other although loops overlap and authorisations come at any
\* time, unless one of them was abandoned (STOP keeps its entry), one is never
\* ended by its user, or the configuration is lost.
SchedulerGoesOn ==
    \/ []<>(scheduler = "setup") /\ []<>(scheduler = "wait")
    \/ <>[](abandoned > 0 \/ Authorising # {})
    \/ <>[]torn

\* Each application has a valid token again and again, although queries of an older
\* loop may put an old one back, with the same exceptions.
TokensRenewed ==
    \/ \A a \in Apps : []<>(a \in Known /\ Valid(a, memory[a]))
    \/ <>[](abandoned > 0 \/ Authorising # {})
    \/ <>[]torn
=============================================================================
