# TLA+ models of WeiboTopic

WeiboTopic collects messages ("microblogs") of Sina Weibo hour by hour, drops
advertisements, detects topics, clusters each topic into sub-topics and shows the
result on a web page. It is a set of programs in C++ and Python that share one
MySQL database and pass table names to each other.

## 1. Inventory

```
 API crawler ──────> Microblog<e>  UserToBlog<e>  WeiboUser<e>        (e: epoch of an hour)
                          │
 intergrate_script.py, a round every hour, rounds are threads and may overlap:
    detection of static tables (TableState) -> triples of tables
          │  run_filter       -> FilteredMicroblog<e>
          │  run_dataprocess  -> OneDayTopic_FilteredMicroblog<e>, Topic_FilteredMicroblog<e>_<id>
          ▼  interface        -> Sub_<k>_Topic_FilteredMicroblog<e>_<id>
 web front end (reads the result tables)
```

The programs interact only through the tables of the database `sina` and through
temporary files with table names, which the script gives to a program as its first
argument and reads when the program has ended.

| component (sources under `src/`) | state it keeps | operations | what makes it correct | modelled |
|---|---|---|---|---|
| integration script (`intergrate_script.py`, `Schedule` in `sina_api/weibo_crawl/bussiness.py`) | the list of static tables, one queue of names per round and stage | start of a round, grouping in triples and pairs, call of a program, end | each hour goes through all stages once; names are taken for what they are; nothing handed on before it is filled | `Pipeline` |
| detection of static tables (`sina_api/weibo_crawl/statistics.py`) | cached names, the counts of one detection | reflect, count, sleep, count again, return | each table once; hours whole and aligned; only tables that stay as they are; every hour at last | `TableState` |
| advertisement filter (`weibo_ad_filter/src`) | page cursor, parsed messages, reference counts, result table | check for duplicates, page, parse and count, sift, create, insert, output | each message read once; similar texts counted together; only repeated texts dropped; result all or nothing, announced once | `RunFilter` |
| table cursor of topic detection (`DataProcess/src/dbdao`, used in `gen_feature`, `singlepass`) | cursor, table index, table name, size | advance, next table, reset, read | three scans read the same rows; every scan ends | `TableScan` |
| features and single-pass clustering (`DataProcess/src/gen_feature`, `singlepass`) | word frequencies, co-occurrence matrix, topics | count words, compute threshold, assign word to topic, assign messages | each feature word in exactly one topic; each message in the topics it has enough words of; order of topics | `SinglePass` |
| topic store (`DataProcess/src/topic_summary`, `dbdao`) | OneDayTopic table, topic tables, output file | create, insert topic, insert batch of messages | id, name and rows of a topic belong together | `TopicStore`; its output in `Pipeline` |
| sub-topic clustering (`weibo_models/src`) | item sets, similarity map, best partition | add, prepare, single move, results | greedy agglomeration on exact similarities; best small partition returned | `ClusterMath`, `Agglomeration`, `HierarchyClustering` |
| crawler: access (`run.py`, `bussiness.py`, `config.py` in `sina_api/weibo_crawl`) | tokens, configuration in memory and file, `STOP` | start of a loop, query, authorise, save | no lost configuration; scheduler goes on; tokens renewed | `CrawlerAccess` |
| crawler: storing (`db_handler.py`, `model_manager.py`, `persist.py`, there too) | model classes and tables per hour, lock, sessions | get models, create tables, add, commit | a committed message has its user and relation; what is reported is stored; queries end | `CrawlerStore`; its effects in `TableState` |
| connection pools (`DataProcess/src/dbdao`, `weibo_ad_filter/src/db`) | free list, count | get, release, destroy | no connection with two owners; limit respected | not modelled, section 7 |
| web front end (`web`) | cache of the topics of an hour | look up, evict | at most one entry per hour, most recent first | not modelled, section 7 |
| page spider (`spider`) | queue of elements, cookies | next elements, receive, allocate | each element processed once | not modelled, section 7 |
| text processing, classifiers, coverage report | none that outlives a call | | | not modelled, section 7 |

What is hard to test in this code is listed, at its line, under `hazards` in
`PROJECT.json`. The groups are: rounds that overlap; the script meeting its own
output tables; tables that change between the statements of a detection or between
the pages of a program; swallowed database errors and ignored exit statuses;
crashes between creating a table and filling it; cursors at the boundaries of a
table; incremental data structures that could be stale; threads of the crawler
that share a configuration, a lock and rows of a table; undefined behaviour on
empty containers.

## 2. Modules and how they correspond to the code

The entry `map` of `PROJECT.json` names the lines of every definition. Names with
a suffix (`Merged_LosesRight`, `AtEnd_Strict`) are wrong variants of a definition
that stand before it; each shows that a property notices a plausible bug. They are
not part of any specification.

### HierarchyClustering (with ClusterMath, Agglomeration)

`HierarchyClustering` is the class of that name as `interface.cc` drives it.
`contents` is `item_sets_` (id to members), `similarity` is
`similarity_of_item_sets_` keyed by pairs with the smaller id first, `maxCU` and
`cached` are the fields of `StateKeeper`. `AddItem`, `Prepare`, `SingleMove`,
`GetClusterResults` are the methods; `PrepareNothing` is `Prepare` on an empty
list, where `front()` is undefined behaviour (`StateKeeper::Init`,
`cluster_related.cc:119`). If several pairs have the greatest similarity, the code
takes the first in the order of heap addresses, so the model takes any.

`ClusterMath` has the measures. A message is a set of keywords (a bitset), and the
mean vector of a set of messages is its vector of sums divided by its size, so
cosine and utility are rational up to a monotonic function: `Cosine` is the square
of the cosine as a fraction (all values are non-negative), `CategoryUtility` is
multiplied by the square of the number of messages and by `CUScale`, and
`MinusOne` is the code's initial `-1.0` in the same units. Comparisons are those
of the real numbers; of two equal values either may win, as after rounding.

`Agglomeration` is the abstract specification: a partition, the join of two most
similar parts, and a remembered candidate that is never replaced by a worse one.
It knows no ids, no map and no copies, and its measures are parameters.

### TableScan

The variables are the fields of `DBoperation` (`tableIndex`, `weibo_size`,
`table_name`) and the loop variable `count` of the callers; `times` counts how
often each scan reads each row. `ReadBatch`, `ReadNextTable`, `EndScan` are one
turn of the loop `while (true) { if (!ChangeToNextTable(count)) break;
ChangeOneTableCount(count); GetMidandText(count, ...) }` by the outcome of
`ChangeToNextTable`; `StartScan` is `SetTableIndexToZero` before the second and
third loop. `GetTablecount` swallows what the database refuses and gives 0:
`uncounted` holds the scans and tables where it did, and the size of such a table is
0 for the cursor while it has its rows. A refused read is an exception that nobody
catches (`phase = "refused"`), like the one of a negative offset (`"sqlerror"`). Its
variable `phase` says which loop runs; `ScanInit`, `ScanNext` and
`ScanSpec` have names of their own because one module proves things about both
`TableScan` and `SinglePass`.

### RunFilter

One action per part of `main` in `run_filter.cpp`: `CheckDuplicate`, `NextTable`
(counts the rows), `NextBlogs` (fetches a page), `ParseBlog` (one message: source
and length filters, `RefCount::AddFingerPrint`), `Sift` (second pass),
`CreateTable`, `InsertData` (one transaction), `WriteOutput`. The rows are counted in
the table of messages (`present`, `db/DBoperation.cpp:131`), the pages are cut from
its join with relations and users (`related`, `:146`). `DB_query` (`:46-85`) prints a
refused page or one that breaks off, and `NextBlogs` lowers the rows that are left all
the same: the page may hold any first part of its rows, and `missed` records the rest.
`Grow` is the crawler that adds a message or its relation, `Crash` a death anywhere, `Rerun` a later round that
starts the program on the same table. `CreateTable`, `InsertData` and the listing
of tables in `CheckDuplicate` can be refused by the database; the code prints the
error and goes on, and so does the model. A fingerprint is a set of bits. If
several representatives share the highest count, the code takes the first in the
order of enumeration; the model takes any. Rows come in key order, which is an
assumption about MySQL: the statement joins three tables without `ORDER BY`
(`db/DBoperation.cpp:146`).

### Pipeline

`round[r]` is a call of `intergration()`: the stage (`pc`), the step of the
program that runs, the inputs that `call_procedure` has still to take (`todo`) and
its `output_sets` (`out`). `Start` is the detection and the generator's list,
`NextTriple` takes three tables and checks their names, the actions of
`run_filter` and `run_dataprocess` change the shared database one statement at a
time, `ClassifyTopics` is the pairing of the output lines, `ClusterTopic` a call
of `interface`. `Expire` lets an hour get older than twelve hours, `Restart` kills
the script or starts it after its end. A program may crash at each database step
and a statement may be refused, up to `MaxFaults` times. `given`, `unseen`,
`refused`, `torn` are histories for the properties and guard nothing.

The crawler makes the three tables of an hour one by one (`CrawlTable`), also those
of the next hour while the last is still being filled, and an hour is quiet from
`SettleHour` on; one of its tables may be missing for good then. A detection is one
step here. It may leave out any table that the crawler or a program may be adding to
(`Changing`), with those that were not yet there when the list was read, and any that
gets too old on the way (`LeftOut`); it may be refused, after it has cached the tables
before some place (`DetectionFails`). So hours are listed in part as `TableState`
shows in detail, and `torn` holds those of which a part was cached at some time.
The tables of `interface` are left out of `tables`: their first number is the small
`<k>` of `Sub_<k>_`, which is no recent epoch, so no detection lists them.

### TableState

`_double_check_strategy` statement by statement: `Reflect`, `Measure` (one table),
`Sleep`, `Compare` (one table), `Return`. Between any two of them the crawler may
create the next table of an hour (`CreateTable`), commit the rows of an answer of
the API (`Commit`, also the partial commit after an error that `lock_and_unlock`
swallows) and time may pass (`Expire`). `metadata.reflect` lists every table of the
database, so that the programs' own tables are in the list too: `CreateOwn` and
`FillOwn` make and fill two per hour, one whose name is sorted before the crawler's
three and one that comes between them (`FilteredMicroblog`, `OneDayTopic_...`), once
the script has been given what they are made from (`given`). `CountFails` is a count
that the database refuses in either loop, `Restart` the script that is killed and
begins with an empty cache. `disturbed` remembers the hours touched or incomplete
during a detection of the present cache, and those whose tables a refused count parted.

### CrawlerAccess

One thread of the scheduler and one per query. A query is a pair of an application
and the parity of its loop: `Setup` waits until the queries of the loop before the
last have ended, which bounds the queries of an application that are alive to two,
while the code has no such bound. `Setup` builds the handlers from the
configuration in memory (`memory`) and starts the timers; `EndWait` is the sleep
and `while STOP: pass`. A timer and the request it starts are one state
(`"request"`), because both only delay the query. `Refused` is the answer with an
error: `Apply` exchanges the code of the configuration, which the API accepts once
(`spent`), or adds to `STOP` and sends the user to a browser (`Authorise`, then
`Exchange`). The second request with the new token changes nothing here and is
left out. `Update` sets the section in memory, `Open` truncates `config.ini`,
`Close` gives it the text that was buffered. That one `Close` replaces all that another
wrote is true because the texts are equally long: codes and tokens have 32 characters,
as those in `config.ini`; with values of other lengths the tail of a longer text would
stay behind a shorter one, which is not modelled. Whoever runs between these steps sees
their effect: another query may update, open and close, or the crawler may die.
Tokens are numbered; the API (external) refuses those up to `expired[a]`. Errors
(`RequestFails`, `OtherError`, `AuthoriseFails`, `NoCode`, `Restart`) share one
budget, `MaxFault`; `Expire` is bounded by the number of tokens. `abandoned`,
`torn` and `overtaken` are histories for the properties and guard nothing.

### CrawlerStore

A thread per query: the answer, the lock, `get_models` for each hour of the
answer, the creation of its tables, the insertions by kind and hour, the commit.
`registered` are the hours whose classes are declared in `Base.metadata`, `mapped`
those in `time_models_mapping`; an hour in the first and not in the second is
poisoned. `Swallow` is the `except` of `lock_and_unlock`, after which the caller
commits what it has. `pending[t]` is the open transaction of a session. A
statement that meets a row of another open transaction is not enabled until that
one ends (MySQL, external); `INSERT IGNORE` passes over keys that are there and
relations without parents. Each query in the model is one of `ThreadCount`,
answered in the order of their numbers, which loses nothing as they are alike. The
driver's reconnection is not modelled; a transaction that is gone in the middle of
an addition is (`InsertFails`).

### TopicStore

The processes of one hour, statement by statement: the look for the table
OneDayTopic and its creation, and for each topic `InsertTopic` (with its commit),
`Read` (`max(topicid)`), `CreateTable` (with the name that goes to the output),
`ReadAgain`, `InsertRows` (one batch with its commit). `flag` and `sent` are the
variables of `GetOneTopicWeiboByBatch`. A connection starts in auto-commit mode
and leaves it with its first batch; from then on it reads ids in the snapshot of
its transaction (`view`), and what a refused batch left in it (`pending`) is
committed by the next commit or `CREATE TABLE`. A topic is its size and whether it
is trash; topics below the least size are left to `SinglePass`. Any statement may
be refused once; those on the table OneDayTopic are refused whenever it is not
there, and a function that then returns nothing gives any value (`QueryRefused`,
`IDUnread`). `SelectOnetableByBatch` swallows the error of a read of messages and the
batch goes on with those it got (`ReadRefused`). A row names its process and topic in the model only, so that the
properties can say whose it is.

### SinglePass

One process, from the rows the three scans read (`reads`, with the last row of a
table possibly twice, as `TableScan` shows) to the list of topics that are stored.
Words are integers in the order of the maps; weights, limits and numbers of the
code are constants and scaled down in the run. `CountWord` and `Purge` are the
first scan, `TopicWordSort` selects the feature words, `CooccurRow` is one row of
the second scan (`Counted` is its loop over the words of a row), `Threshold` draws
at random, `Assign` places one word, `Match` and `IndexRow` are the third scan,
`ListAllTopicWeiboId` and `SortTopic` the end (`Stored` is the loop that stores).
Undefined behaviour is a choice: the purge that goes on from an erased element may
miss others (`Purge`) or die (`PurgeDies`), the first entry of an empty map is any
of `Garbage`, a mean of nothing is the fraction 0/0, which no comparison finds
above anything, as with NaN. Distances are fractions, compared exactly.
`EraseCo_ccur_matrix` and `MergeClusterList` are called by nobody.

### Composition

`Pipeline` composes what `RunFilter` and `TableState` model in detail, at the
granularity at which rounds interfere: each shared table is created and filled by
an action of its own, and a detection is one step with any of the results that
`TableState` leads to. Topic detection is composed by its interfaces: `TableScan`
gives the rows that `SinglePass` starts from, `SinglePass` the sorted topics that
`TopicStore` starts from, and the output of `TopicStore` is what `Pipeline` calls
`InsertTopic` and `CloseTopics`. `CrawlerAccess` ends where a query has its answer
and `CrawlerStore` begins there; what that does to the tables is the environment
of `TableState`. `Agglomeration` is instantiated by `HierarchyClustering` with a
refinement mapping. The `MC*` modules hold the constants of the runs.

## 3. Runs

| run | question | bounds and why they are enough |
|---|---|---|
| `hierarchy_clustering` | is the incremental clustering a greedy agglomeration that returns the large clusters of the best small partition, and does it end? | every topic of up to 4 messages over 3 keywords and of 5 over 2; the trigger (3) and the filter (30 %) are scaled so that both sides of each occur |
| `table_scan` | which rows does a scan read, do the scans agree, do they end? | 1 or 2 tables of 0 to 8 rows, 3 tables of 0, 1, 2, 4, 7 rows, batch 3: every remainder, empty and one-row tables in each place; any counts and reads refused |
| `table_scan_every` | is every message read, as the comment says? expected violation | one table, as `VirtualProjectMain.cpp` has it |
| `run_filter` | paging, counting, sifting, insertion and output over two runs | 4 messages, texts at every distance from 0 to 4, pages of 2 that arrive whole, in part or not at all, tables that are complete or still lack a message before the first page and a relation |
| `pipeline` | what overlapping rounds, one restart and faults do to an hour and its tables | 1 hour, 3 rounds, 2 topics, 1 restart, 2 faults: two rounds overlap, a third meets their tables, one fault can follow from another. `WholeHoursPass` is about the order of hours in the cache as well, for which there is the theorem `WholeHoursPassTheAssertion`; the other properties are about each hour or each list by itself |
| `pipeline_assert` | does the script's assertion hold? expected violation | 1 hour, no fault, no restart, no hour ever listed in part |
| `table_state` | does an hour stay together in the list, and is it found at last? | 1 hour, tables of up to 2 additions, both of the programs' tables, 3 detections or restarts while there is other work (one that lists the messages, one that lists the filtered table, one after a restart) and any number of detections after that. That hours in any order and number do not disturb each other is what the theorems `HoursListedWhole` and `GroupsAreTriples` add |
| `crawler_access` | what becomes of configuration, tokens and scheduler | 2 applications with 2 loops each: two writers of the file from one application or from two; 2 tokens each, so that each expires once; one fault |
| `crawler_store` | what of an answer gets stored, and does every query end? | 2 queries, 3 messages of one user in 2 hours: common rows in both orders, an hour that the other query is creating; 2 faults, so that one can follow from another |
| `topic_store` | whose messages are in a topic's table, and are topics complete? | 2 processes, 3 topics (a full batch and a rest, trash, exactly a full batch), batch 2; one fault, a read that gives any part of a batch included |
| `single_pass` | is each result of topic detection what all rows say? | hours of 1 to 4 rows of 6 texts over 5 words, tags included, the last row read once or twice; limits scaled so that a purge, a cut of the feature words, topics of one word, hours without a feature word, too small topics and both belonging thresholds occur; no count or row is refused |
| `single_pass_boundary` | is a topic of the least number of messages stored, as the comment says? expected violation | the same limits, hours of 2 rows |

The deadlock check is off throughout: the programs end, the bounded crawler and
clock of `TableState` stop, and a crawler whose user never comes waits.

What the passing runs show, besides type invariants:

* `ItemSetsPartition`, `SimilarityExact`, `SnapshotIsPartition`,
  `BestPartitionKept`, `ImplementsAgglomeration`, `Completes`: the clustering is
  right as an algorithm; what differs from its comments is the filter.
* `ScansReadTheSameRows` gives the exact number of times each row is read, and one
  exception: a scan whose count of the first table was refused passes over it without
  a word, so that words, pairs and messages may be counted over different rows.
  `FirstBatchNeverRead` states the loss: with one table of at most 1000 messages,
  topic detection sees at most one message, the last. `ScansEnd`: a run never
  hangs, and makes all its scans exactly if it can read every table after the first;
  that only an empty table there, or a refused count of one, leads to a negative
  offset is the theorem `ErrorExplained`.
* `ReadsEachMessageOnce` holds if the tables do not grow meanwhile: the rows of the
  join in their order, none twice, less the rows of pages that the database did not
  deliver, which are lost without an error. The case where they grow is in the model
  and leads to a repeated key and a failed insertion. `RepresentativesApart`, `NoUniqueTextDropped`, `SameTextSameFate`:
  what the two distances (2 when counting, 1 when asking) amount to.
  `InsertionAllOrNothing`, `OutputOnce`: the transaction and the check protect the
  result, except against a listing of tables that fails.
* `WholeHoursPass`, `AbortIsFinal`: the assertion fails only if the cache holds tables
  the programs made, or an hour was cached in part, and then for good; hours that
  are cached whole pass in any order. `GivenTwiceOnlyAfterRace`: no hour
  is given to topic detection twice, unless two rounds raced or a listing failed.
  `LostHourStaysLost`: an hour whose filter died after creating the table is never
  processed again. `TopicsOfFilledTables`, `OnlyTopicsAreClustered`: what is
  handed on is what the next stage expects, unless the database refused something
  or a program gave one line only.
* `WholeHours`, `EveryHourFound`: the double check is right for hours that no
  detection was disturbed by, their tables stand together in the list with at most
  tables the programs made for the same hour between them. `TriplesAligned`: cutting
  the list in threes gives triples only as long as none of those is listed. The
  disturbed hours are the hazard: a table that is quiet for five seconds is not a
  complete one (disagreement 4), and what a torn hour does to the rounds is in
  `Pipeline`.
* `ConfigurationSaved`: without a lock, the file can stay behind the memory only
  for an application that was updated while another query held its copy.
  `AppsLostOnlyByTornWrite`: concurrent writers never lose an application, a crash
  between truncation and close loses all, for ever. `SchedulerGoesOn`,
  `TokensRenewed`: the crawler goes on and renews its tokens, unless an
  authorisation was abandoned (`STOP` keeps its entry), its user never comes, or
  the configuration was torn.
* `ReportedIsStored`: `INSERT IGNORE` passes over a row only if it is there for
  good, since a row of an open transaction is waited for. `RelationsComplete`: no
  relation without its parents; a message without its relation comes from a
  swallowed error. `PoisonIsFinal`: one failed creation of a table loses the hour
  until the crawler is restarted, and with it the whole of each answer that has a
  message of it. `QueriesEnd`: the lock and the waits for rows do not make a
  circle, because the commit needs no lock.
* `RowsUnderTheirTopic`: a process alone, without an error, never puts a message
  under another topic; two that overlap, or a topic whose row was refused, do.
  `UndamagedTopicsComplete`: an error damages the topics that meet it and no
  other, although its rows stay in the transaction of the next.
* `FeatureWordsFrequent`: the purge loses words but never lets a rare one through.
  `CooccurrenceExact`: the matrix counts pairs of occurrences, also a row that is
  read twice. `EachWordInNearestTopic`: the single pass puts every word where it
  is nearest by what came before, for any threshold. `LargeTopicsStoredWhole`: the
  three limits on the number of messages and the sort fit together, the two that use
  `<=` deciding at the least number itself.

### Disagreements between the code and what it says

1. `cluster_related.cc:236` says "remove item_set cotains items < 3%", the code
   removes those below 10 % (`:37`, `:241`). Of eleven messages, a cluster of one (9 %) is removed. There is no run
   for it: it is one comparison.
2. `Cluster.cpp:46` says the loop visits every message; the cursor is advanced
   before the first read (`DBoperation.cpp:500-507`), so the first batch is lost.
   Run `table_scan_every`.
3. `intergrate_script.py:86` asserts that the detected triples are crawled tables;
   the detection also lists the tables that the script's own programs wrote. Run
   `pipeline_assert`.
4. `statistics.py:89` and `:93` say the loop detects stable tables; what it lists for
   good (`:96`) is a table that got no row for five seconds, which `Pipeline` and `TableState`
   allow for (`torn`, `disturbed`).
5. `VirtualProjectMain.cpp:54` says a topic with fewer than `MIN_TOPIC_MESSAGE_NUM`
   messages is not stored, as `InsterAllTopicToDatabase` has it (`<`,
   `TopicViewAndPolitics.cpp:43`); `Cluster.cpp:396` and `TopicViewAndPolitics.cpp:95`
   (`<=`) leave out those of just that number too. Run `single_pass_boundary`.

## 4. Fairness

* `HierarchyClustering!FairSpec`, `TableScan!ScanFairSpec`: weak fairness of the
  next-state action, for single-threaded loops that nothing else interrupts.
* `TableState!FairSpec`: weak fairness of the detection's steps, as the script
  detects every hour, also after one that failed or a restart. `EveryHourFound` needs
  the crawler, the programs and the faults to rest: they act during the first
  `MaxDetection` detections only. In the code it turns to the tables of
  the next hour, so those of an old hour come to rest.
* `CrawlerAccess!FairSpec`: weak fairness of the scheduler's thread and of each
  query as far as it goes without the user (`Proceed`): threads run and requests
  are answered or fail. Nothing is assumed of the user (`Authorise`), of errors,
  of expiry; `_gui_operation` waits for the page without an end.
* `CrawlerStore!FairSpec`: weak fairness of each thread (`Add`): the interpreter
  runs every thread, the server ends its statements. Weak is enough for the lock,
  as the number of queries is bounded.
* `Pipeline`, `RunFilter`, `TopicStore` and `SinglePass` have no fairness and no
  liveness property: a program called by the script may hang (`coverage.cpp:124`),
  and nothing in the script ends it.

## 5. What is proved

The proofs hold for all values of the constants that satisfy the named assumptions
in the modules; they are checked to the last leaf. The strengthened invariants were
run through TLC as well, on the instances of section 3 or smaller ones.

| property of a run | theorem |
|---|---|
| `TypeOK`, `ItemSetsPartition`, `SimilarityExact`, `SnapshotIsPartition`, `BestPartitionKept` of the clustering | `TypeCorrect`, `PartitionCorrect`, `SimilarityCorrect`, `SnapshotCorrect`, `BestIsKept` |
| `ImplementsAgglomeration` | `Refinement` |
| `TypeOK`, `FirstBatchNeverRead`, `ScansReadTheSameRows` of the table scan | `ScanTypeCorrect`, `FirstBatchLost`, `ScansAgree` |
| `FeatureWordsFrequent`, `CooccurrenceExact`, `EachWordInNearestTopic`, `LargeTopicsStoredWhole` | `FeatureWordsAreFrequent`, `CooccurrenceIsExact`, `WordsJoinNearestTopic`, `LargeTopicsAreStored` |
| `RepresentativesApart`, `ReadsEachMessageOnce`, `SameTextSameFate`, `NoUniqueTextDropped`, `OutputOnce`, `InsertionAllOrNothing` | `CountsAreSeparate`, `PagingExact`, `FateByText`, `DroppedHaveCopies`, `OutputAtMostOnce`, `InsertionAtomic` |
| `WholeHoursPass`, `AbortIsFinal`, `LostHourStaysLost`, `GivenTwiceOnlyAfterRace`, `TopicsOfFilledTables`, `OnlyTopicsAreClustered` | `WholeHoursPassTheAssertion`, `AbortStays`, `LostIsLost`, `GivenOnceUnlessRaced`, `TopicsReadFilledTables`, `TopicsAreTakenForTopics` |
| `WholeHours`, `TriplesAligned` | `HoursListedWhole`, `GroupsAreTriples` |
| `ConfigurationSaved`, `AppsLostOnlyByTornWrite` | `FileAgrees`, `OnlyTornWritesLose` |
| `ReportedIsStored`, `RelationsComplete`, `PoisonIsFinal` | `ReportsAreTrue`, `RelationsAlwaysComplete`, `PoisonStays` |
| `RowsUnderTheirTopic`, `UndamagedTopicsComplete` | `RowsUnderTheirTopicAlways`, `UndamagedTopicsAreComplete` |

**HierarchyClusteringProofs.** Assumes that inputs are sequences of non-empty sets
of a finite number of keywords, that `CUScale` is positive and divisible by each
size of a set, and that the trigger is positive. `IInv` is the type invariant,
`Loading` (before `Prepare` the ids are `0..n-1` and the sets single messages, so
the size of the list is a fresh id), `CrashedEmpty`, `ItemSetsPartition`,
`SimilarityExact` and `SnapshotIsPartition`. `Loading` makes it inductive: without
it `AddItem` could overwrite a set. The central lemma is `UpdatedSimilarityExact`:
erasing the pairs of the removed set and recomputing those of the grown one makes
an exact map exact again; pairs of other sets are untouched because their contents
are. `GreedyCorrect` (an action property) uses `SimilarityExact` to turn the
greatest entry of the map into the greatest similarity of the sets. `Refinement`
shows that the specification implements `Agglomeration`: `AbstractInit` for the
initial states, `AbstractSingleMove` for the one kind of step that changes the
mapped state, `AbstractStutter` for all others.
`BestIsKept` adds to `IInv` (in `BestInv`) that the value kept is the utility of
the snapshot, that without a snapshot it is still the initial -1.0, that the
present partition was compared if it is small enough, and that something is kept
once one set is left. It needs arithmetic: finite sums of integers are integers
(`SumIsInt`, from the recursion of `SumFunction`), so that no partition is better
than itself, and the partition of one set has utility 0 (`UtilityOfOneSet`), which
is above -1.0 for every topic.

**TopicDetectionProofs, the cursor.** Assumes a batch size and a number of scans above
zero and lists of tables that are not empty. Any count and any read may be refused.
`CursorInv` is the type invariant, with the remembered size as what the count of the
open table gave in this scan, `FirstBatchNeverRead`, `NegativeOffsetExplained` and
`CursorOK` (the index names the open table while a scan runs; the cursor is negative
only after the error).
`ScansAgree` adds `ProgressInv`: the scans before the running one and the tables
before the open one are read out, those after it are unread, and in the open table
the cursor is at the beginning of a batch with exactly the batches from the second
to this one read, or on the last row with the table read out, or the first table is passed
over (`PassedOver`). Lemma `Batches` has
the division: between two multiples of the batch size there is no third, so the
last row is read again exactly if no batch begins with it.

**TopicDetectionProofs, topic detection.** Assumes that the rows have the type of rows,
that rows with the same id are the same, and that words and limits are natural numbers,
`TagValue`, `RandSize` and `RowsPerWord` above zero. What is read is any sequence, the
purge erases any rare words besides the first, and the draw of the threshold is any.
`SinglePassInv` has the four properties and, since none of them speaks of the middle of
a scan, what each part of the program has done so far:

* `PlaceInv`: where each scan stands, and what is still empty before its part.
* `WeightInv`: the weight of a word is at most that of its occurrences so far, and
  without a purge exactly that. A word that comes again after it was erased begins
  anew, with a first occurrence that is later, so only the bound survives a purge;
  the step needs how the least element and the number of occurrences change with one
  more (`WeightUpTo`, lemmas on `PlacesUpTo`).
* `CoocInv`: the matrix is the one of the rows so far, in closed form (`MatrixOf`):
  an entry for each pair of feature words that met, with the sum over the rows of the
  products of their numbers. The loop over the words of a row is the recursive function
  in `Counted`; `RowsCounted` says that it adds the products of one row, because each
  of the n occurrences of the first word adds the number of the second.
* `TopicsInv`: the words that are assigned are the least of the feature words, which
  says what was there when a word joined. With it `EachWordInNearestTopic` is
  inductive: a topic grows at its end only and a new one comes last, so that what was
  compared with earlier words stays as it was. The sums of `Distance` are those of
  `Mean` because the matrix is exact.
* `ThrodInv`: the threshold is a fraction of integers, with a denominator that is not
  negative unless the matrix is empty, where all distances are 0. Either way no topic
  is near enough if the nearest is not (`NoneNearer`).
* `MessagesInv`: the index has for each word of a large topic the ids of the rows so
  far that have it, and the lists of the topics are those that the reference
  `MessagesWith` gives. It needs `RowsAssumption`: the code counts ids, the reference
  rows, and they agree only if an id stands for one row. `StoredIsFirst` turns the loop
  that stops at the first small topic into the largest topics of any sorted order.

**RunFilterProofs.** Assumes finitely many messages with natural numbers as ids,
finite fingerprints, pages of at least one row and at least one run. `CountsAreSeparate`: a new
representative is added only if none is within two bits (`AddKeepsApart`).
`OutputAtMostOnce` and `InsertionAtomic` come from `OutputInv`: as long as no run
was blind, a run past the check has found no table, a table that does not exist has
neither rows nor output, and between the transaction and the output nothing has
been announced. `ReadInv` is the invariant of the reading: while the tables have not
grown, `parsed` is what the filters keep of the rows of the join before the page, less
those in `missed`, and the page is a first part of the rows that follow (`PageInv`), and there is a division of the parsed texts among
the representatives, each within distance 2 of its own, whose sizes are the counts
(`CountInv`). Theorem `PagingExact` follows from the first, `DroppedHaveCopies` from
the second with `Triangle` (the distance of fingerprints is a metric): a count above
two within distance 1 is three texts within distance 3.

**PipelineProofs.** Assumes only that the bounds are natural numbers. `PipelineInv` says for each round what
its lists hold in each stage (`RoundInv`: what is still to be filtered has its
table, a line at an even place names topics unless a program gave an odd number),
for all rounds together that each walks along a prefix of the list of static tables
and a later round along one that is as long at least (`ListsInv`), that the list
consists of the triples of whole hours as long as no hour was torn and no table of the
programs' own is in it (`HoursInv`; a list of newly found tables that are sorted and
hold whole hours only is cut into these by threes), and that of the runs of run_filter on an hour one at most is past its
check, before which nothing was given (`GivenInv`). The lists are what makes it
inductive: that an abort is final needs that every later round meets the triple at
which an earlier one failed, at the same place of its own list.

**TableStateProofs.** Assumes only that the bounds are natural numbers. `TableInv`
says for each undisturbed hour where its tables are between the steps of a detection
(`HourInv`): none or all of the three are in the list, together (`GroupAt`: in order,
with at most tables of the programs for the same hour between them), and while the
second loop runs, what is cached already and what is still to be compared are one list
for which this holds (`CompareInv`). That is what makes it inductive: a table that is
not stable drops out of the middle of this list, and since it is none of the hour's
three the group stays (`DroppedWhole`). A sorted list of tables with all three has them
together (`SortedGroup`), whatever else is in it, because only tables of the same hour
can stand between. A refused count keeps a first part of the list, which has the whole
hour or nothing of it unless it is disturbed (`FirstPartWhole`). `GroupsAreTriples`
follows from `HoursListedWhole`: without a table of the programs the groups have no
gaps, and a list that consists of gapless groups is cut into them by threes
(`EveryThird`, by a least counterexample).

**CrawlerAccessProofs.** Assumes one application and one token each at least.
`AccessInv` is the bounds of tokens and faults
(`ShapeInv`), `StopCounts`, and `SavingInv`: the configuration in memory is whole
unless a torn write was read, a writer that is about to close holds what the memory
has but for applications that overtook it, and the file is empty only while somebody
writes or after a crash in a write. `ConfigurationSaved` alone is not inductive: it
says nothing of the text that a writer has buffered. `StopExact` is stated for the
proof module only: the scheduler waits for ever after an authorisation that raised.

**CrawlerStoreProofs.** Assumes that each message has an hour and a user. `StoreInv` says what an open transaction holds (`PendingInv`:
a message after its user, a relation after both, of hours in the mapping), that each
statement done has given what it should to what its transaction sees (`DoneInv`), and
that only the query in the lock has anything in hand (`LockInv`). It rests on the
waiting for rows of other open transactions: a row that `INSERT IGNORE` passes over
is committed, so it cannot be rolled back later. `PoisonStays` is an action property.

**TopicStoreProofs.** Assumes finitely many processes, topics of at least one
message and a batch of at least one row. `IDInv`: a process at a topic that met neither an overlap nor
a refusal finds the row of its topic as the last one, in the table and in the
snapshot of its transaction (`NewestInv`), rows that are inserted and not yet
committed are under their topics too (`RowsInv`), and each topic has one row at most
(`OneDayInv`). `StoreInv` adds that the names a process writes are those of ever
newer topics (`NamesInv`) and how much of each topic is there (`CompleteInv`).

Induction over data is by a least counterexample (`LeastNatural`, from the library's
well-founded order of the natural numbers), because the induction theorems of the
library take the formula as an operator, which the provers cannot instantiate. The
same way shows that a recursive function is defined (`KeepsExists`, `SumsExist`).
Definitions of the community modules that recurse over sequences are not visible to
the prover; for this reason `RunFilter` has its own `Kept` and `RowOrder` and
`SinglePass` its own `Counted` and `Stored`, written as functions. Sums over functions
are those of `SumFunction`; `SumSteps` unfolds the recursive function in its definition
over a finite set, and `SumAny` that any element may be taken out first. `Iterates`
shows that a function defined by steps over `0..n` exists.

## 6. Only model-checked

Liveness (`Completes`, `ScansEnd`, `EveryHourFound`, `SchedulerGoesOn`,
`TokensRenewed`, `QueriesEnd`), which the prover does not treat under fairness. Every
invariant and every safety property of a step that a run checks is proved.

Where `TypeOK` says what the variables hold and nothing that could go wrong it is in
no run; the theorem `TypeCorrect` of each module proves it. Proved and not in a run
are further `JoinsMostSimilar` (`GreedyCorrect`), `NegativeOffsetExplained`
(`ErrorExplained`), `EachParsedOnce` (`NoneLostNoneTwice`), `StopCounts`
(`StopExact`) and the inductive invariants.

## 7. Not modelled, and why

* Segmentation of texts, simhash features, TF-IDF, Bayes classifiers, summary and
  political or trash topics, regular expressions: functions of text and floating
  point data without shared state. Where a result matters (a fingerprint, a
  keyword set) it is an input.
* That the copy of the best partition is deep (`cluster_related.cc:133-137`): values
  in TLA+ are never shared.
* Texts of the configuration that differ in length (`CrawlerAccess`, section 2).
* The rounding of doubles in cosine and utility, beyond that equal values may
  compare either way.
* The working directory that `CWDSwitcher` changes for the whole process: the
  programs are called by absolute path.
* Programs that hang, lost database connections in the middle of a statement
  beyond a refusal or a crash.
* Connection pools: the programs that use one are single-threaded and take a few
  connections, far below its limit; its lock, limit and list are never under
  pressure. A refused connection is a crash of the program in `Pipeline`.
* Web front end: views that read the result tables. Its one state is
  `CachedModel`, a list whose hazard (`web/model.py:93`) is listed.
* Page spider: an older crawler that no other part uses.
* Coverage report, deployment scripts, deprecated crawlers, vendored libraries.

## 8. Plan

Modelled and checked: `HierarchyClustering`, `TableScan`, `RunFilter`, `Pipeline`,
`TableState`, `CrawlerAccess`, `CrawlerStore`, `TopicStore`, `SinglePass`. Proved:
every safety property of the passing runs. Left:

1. What the double check gives the script, as an abstract specification that
   `TableState` implements and `Pipeline` starts from.
2. The web cache as a small module beside `TopicStore`.
