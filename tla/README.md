# DataPlay: verification notes

TLA+ modules, TLC configurations and TLAPS proofs about the programs of this
repository. The reference is the code under `src/`; paths below without a
directory are under `src/src/dataplay/`.

`PROJECT.json` lists the components, the runs, what each definition models
(`map`), the mutants that show each property can fail, the hazards, the findings
and the theorems. `tlc -config X.cfg M` runs a check, `tlapm M.tla` a proof module.

## 1. The system

DataPlay serves open-data tables as charts, looks for correlations between them,
and lets users discover, credit and comment on charts. A deployment has

* several **master nodes**, the Go program `dataplay` behind HAProxy. Every HTTP
  request runs in a goroutine of its own. The nodes share PostgreSQL (through
  pgpool), Redis and Cassandra, and no memory;
* a **load balancer** and a **pgpool** machine, each with a small CoffeeScript HTTP API
  through which nodes register and leave;
* the batch programs **newsfetch** and **transfer**, which fill Cassandra.

The ORM (gorm) gives the database operations the meaning that matters here:
`Find` into a struct returns some matching row; `Save` inserts when the primary key
is zero and otherwise updates **every column** of the row from the struct, and
touches no row, without an error, when the row is gone; `Model(x).Update(col, v)`
writes one column. The program opens no transaction, and the schema has no unique
key beyond the serial ids. gorm is not in the repository, so this is modelled from
its use, and the parts of the map that rest on it are marked external.

| component | state it keeps | operations | interacts with |
|---|---|---|---|
| Observations and credits (`observations.go`, `user.go`, `useractivity.go`, `useradmin.go`) | tables `priv_observations`, `priv_credits`, `priv_activity`, `priv_users.reputation` | add, credit or discredit, flag, delete; list | Discoveries (who discovered the chart), Accounts (same user rows) |
| Discoveries (`tablestocharts.go`) | `priv_discovered`, `priv_credits` | view a chart or a correlated chart (which discovers it), credit or discredit it, list | Chart cache, Correlations, reputation, activity |
| Chart cache (`tablestocharts.go`, `schemastorage.go`) | process-wide maps of generated charts, columns and tables | generate on the first use, look up | Discoveries, Correlations |
| Monitoring (`monitor.go`, `main.go`) | a slice of request samples in memory; Redis sets and hashes | append at each request, flush every ten seconds, report | every HTTP handler |
| Accounts and sessions (`user.go`, `sessions.go`, `useradmin.go`) | `priv_users`, `priv_user_tokens`; sessions in Redis | register, log in, social log in, log out, reset the password, edit | reputation is a column of the same row |
| Correlations (`tablecorrelation.go` and helpers) | `priv_correlation` | background jobs pick column pairs, bucket dates, compute and save | Discoveries |
| Search (`search.go`) | `priv_searchterms` | search with paging, count terms | Political activity lists the terms |
| Tracking (`tracking.go`) | `priv_tracking` | list the last five visits; the route that records one is commented out | |
| Political activity (`politicalactivitymonitor.go`) | none; reads Cassandra | count terms day by day, rank; list popular terms | newsfetch, Search |
| News, Twitter (`news.go`, `twitter.go`) | none | read and filter | newsfetch |
| newsfetch | Cassandra tables, a restart position | extract ten urls at a time, write, resume after a failure | an extraction service |
| transfer | Cassandra | copy in monthly windows | |
| Load balancer and pgpool APIs (`tools/deployment/loadbalancer/api`, `tools/deployment/db/api`) | a JSON file of nodes; the configuration of HAProxy or pgpool | list, add, remove; replace the configuration and reload it | HAProxy, pgpool |
| Node registration scripts (`tools/deployment/app`, `tools/deployment/db`) | the life of a node | call an API until it answers | the two APIs |
| Web front end (`www-src/app/scripts`) | how many charts of the last table were shown (`services/overview.coffee`) | ask for the pages of a list; the administrator's tables | Discoveries, Chart cache, Correlations, Accounts, Observations |
| playgen, deployment scripts | | | |

### What is hard, and what must hold

* **Observations.** Handlers are sequences of separate statements: a look-up and the
  insertion it guards, a read-modify-write of the reputation, a whole-row save of a
  struct read earlier, and payments made before the writes they pay for. Any two
  requests interleave at every statement, on different nodes; any statement may fail.
  Must hold: counters never show votes nobody cast; a deleted observation stays
  deleted; nobody votes for their own observation; every point of reputation comes
  from a request that earned it; rows appear in the order the handler writes them.
  When requests do not overlap, the whole is an exact ledger.
* **Discoveries.** The same shapes, with a row created by the first viewer. Must hold:
  a chart has one discoverer; counters and credit rows agree with the votes.
* **Chart cache.** An entry is published before it is filled, and a process-wide map
  is written by several goroutines without a lock. Must hold: a request is shown what
  it asked for and the rows give, unless the entry is being filled, or was damaged by a
  failure or a race.
* **Lists and pages.** The browser asks for the next page of a list that is put
  together anew, possibly in another order, and remembers how far it got for a table
  it shows later. Must hold: pages tile an ordered list, and stay within it.
* **Activity stream.** It joins four tables that nothing keeps in step. Must hold: it
  shows the newest acts, as they were done, or says what is missing.
* **Monitoring.** One slice, appended to by every request and emptied by a ticker
  while it is ranged over. Must hold: removals stay in range, a pointer in Redis has
  its hash, and no sample stays in memory forever.
* **Accounts.** Check-then-insert and whole-row saves. Must hold: one user per
  address; no change to a row is lost unless two overlap; a reset token works once; a
  login answers the user of its session.
* **Correlations.** Check-then-save of several rows; integer date arithmetic. Must
  hold: a correlation has all its charts, once; its buckets are one stretch of days, each
  counted once, which begins where the tables do.
* **Search, political activity.** Counts that are read and written back; a sort of its
  own and the arithmetic of days. Must hold: searches that do not overlap are all
  counted; the terms shown are the highest, with every mention on its day.
* **newsfetch, transfer.** Resuming in the middle of a list; contiguous windows.
* **Node registries.** Read, change and save of a file with asynchronous calls
  between; calls that are repeated; commands started without waiting. Must hold: a
  node is listed once, and a pool is never emptied; a node that was told it is in is
  listed, and the daemon runs what the file says.

`PROJECT.json` lists each of these as a hazard at its line.

## 2. Plan

| order | modules | component | abstract specification | run bounds | theorems |
|---|---|---|---|---|---|
| 1 (done, proved) | `ObservationCredits`, `MCObservationCredits`, `ObservationLedger`, `ObservationSerial` with `MCSerial`, `ObservationCreditsProofs` | Observations and credits | `ObservationLedger` (atomic) | 3 requests, 2 users | every property of the runs, the refinement of the ledger included |
| 2 (done, proved) | `ChartDiscovery`, `MCChartDiscovery`, `DiscoveryRegister`, `DiscoverySerial` with `MCSerial`, `DiscoveryProofs` | Discoveries | `DiscoveryRegister` (atomic) | 3 requests, 1–2 charts | every property of the runs, the refinement of the register included |
| 3 (done, proved) | `Monitoring`, `MCMonitoring`, `MonitoringProofs` | Monitoring | the flush as a function of the collection (`Sent`, `Kept`) | 3 samples | every safety property; liveness is out of reach |
| 4 (done, proved) | `NodeRegistry`, `MCNodeRegistry`, `RegistryProofs` | the two APIs and the scripts that call them | membership (`MembersAreListed`) | 3 nodes, 3 calls | every property of the run |
| 5 (done, proved) | `Accounts`, `MCAccounts`, `AccountsProofs` | Accounts and sessions | the row had each call changed its own columns only (`book`) | 2 requests, of nine kinds | every property of the run |
| 6 (done, proved) | `Correlations`, `ChartCache`, `ActivityStream`, `Paging`, `AdminTable`, `NewsFetch`, `Transfer`, `SearchCount`, `PoliticalActivity`; `MCReaders`, `MCCorrelations`; `ReaderProofs`, `ScreenProofs` | the rest of the server and the batch programs | per module: the days two tables have in common; the charts of a key; the acts as they were done; the list tiled by its pages; consecutive windows; the mentions of a day | see 3.6 | every property of the run |

`DataProofs` holds what these proofs share: sums over finite sets, least and greatest
numbers, whole division, iteration, and numbers put in order.

The modules of row 6 share no state with one another, so `MCReaders` checks one of
them in each behaviour (`part`), the others staying as they are at first. `MCSerial` does
the same for the two refinements of 3.1 and 3.2; its halves have users of their own, so
that the users of each can be exchanged.

In every module the definitions marked "slip" stand next to the operator they
mis-state; no specification uses them. They are the mutants of `PROJECT.json`: each
property is violated when its slip replaces the operator.

Deadlock checking is off in every run: each behaviour ends when its requests, samples
or calls have been handled.

## 3. What is modelled

### 3.1 Observations and credits

`ObservationCredits` has one action per database statement of
`CreditObservation`, `AddObservation`, `FlagObservationHttp` and
`DeleteObservationHttp`, with `Reputation` and `AddActivity`, which they call.

| state | in the code |
|---|---|
| `table` | `priv_observations`: author, both counters, the flag, the rating |
| `reputation` | `priv_users.reputation` |
| `credits`, `activity` | the rows of `priv_credits` and `priv_activity`, each identified with the request that inserted it (one request inserts at most one) |
| `call[r]` | the parameters of request r |
| `pc[r]` | the statement r is at |
| `copy[r]`, `seen[r]` | its local `Observation`, and the reputation `Reputation` has read |
| `saved`, `paid` | history: whose whole-row save, and whose reputation update, succeeded |

| action | statement |
|---|---|
| `BeginCredit` | find the observation; none or one's own: refused (observations.go:387-402) |
| `CheckCredit` | look for the same vote (404-410) |
| `ReputationRead`, `ReputationWrite` | `Reputation`, of which every caller drops the result (user.go:573-589) |
| `AddActivity` | the insertion of useractivity.go:70-85; `AddObservation` alone stops when it fails |
| `SaveObservation` | the counters, the rating and the whole-row save (observations.go:412-426) |
| `InsertCredit` | the credit row (428-437); the look-ups for the answer follow |
| `BeginComment`, `InsertObservation` | `AddObservation` (60-138) |
| `Flag` | one column update and the read for the answer (350-384) |
| `BeginDelete`, `Delete` | find and delete; the fine follows whether or not the deletion failed (useradmin.go:214-246) |
| `NodeDies` | the node stops; the request is lost with what it has written |

A request is turned away (`refused`), ends with an error (`failed`) or is `done`. Any
statement of a request in `Faulty` may fail, and its node may die.
Abstractions: the text, the position and the date of an observation are dropped; the
rating, a function of the counters, is kept as the pair of counters it was computed
from; a row's id is the id of the request that inserted it. A statement that fails
has no effect (a statement whose acknowledgement alone is lost is not modelled). A
discoverer may be `Nobody` (uid 0), for the chart rows that have none.

`ObservationLedger` is the abstract specification: votes, comments, flags and
removals take effect at once; one vote per user, observation and direction; every
counter is the number of votes; every point is accounted for.
`ObservationSerial` gives the refinement mapping from the handlers to the ledger.
A vote takes effect at its whole-row save, a comment at its insertion, a removal at
its DELETE, and the mapped `standing` corrects the reputation for the one payment
that is ahead of, or behind, its effect.

| run | instance | what it shows |
|---|---|---|
| `observation_races` | 3 concurrent requests of any kind, the third faulty; 2 users, 1 observation | counters never overstate, a vote always leaves a trace, the rating ranks the stored counters, no self votes, rows appear in the handlers' order, the reputation is explained, a fined observation is gone, only an insertion creates a row |
| `serial` (with 3.2) | 3 requests, one at a time, no faults | the handlers implement the ledger |
| `observation_once` | 2 concurrent votes | **violation**: one user is given two credit rows for one vote |

Bounds. Every hazard listed for this component needs at most three requests: two
that race and a third that creates, deletes or flags the row they race on. Two users
are enough to have an author and another voter. One seeded observation is enough
since comments create more and nothing relates one observation to another. One
faulty request is enough to leave half of each handler done beside two whole ones.
`Workers` bounds the requests in progress: 1 makes the system serial. Users are
symmetric, and so are the requests that fail and those that do not.
No fairness is assumed: no run of this component states a liveness property, because
the code gives none (a request that fails is not tried again).

`VoteLeavesTrace`, `CountersNeverOverstate` and `RatingIsCurrent` say what survives
of `priv_observations` under stale whole-row saves. That votes can be *lost*, and
that a racing vote can undo a flag, is allowed by them and is what
`serial` excludes for requests that do not overlap.

### 3.2 Discoveries

`ChartDiscovery` has one action per statement of `GetChart`, `GetChartCorrelated`,
`Discover` and `CreditChart`. A chart is known by its relation id (`TableCharts`) or
its correlation id (`Correlated`); `table` is `priv_discovered`, and a row has the id
of the request that inserted it.

| action | statement |
|---|---|
| `BeginView` | look for the row of the chart; an error other than "not found" is ignored (tablestocharts.go:141-211) |
| `Discover` | insert the row (386-408); `GetChart` goes on with it, `GetChartCorrelated` drops it |
| `ReadCreditors` | discoverer and users who credited or discredited (218-251) |
| `FindAgain` | `GetChartCorrelated` looks for the row a second time, into a struct that may have its key (332-340) |
| `ReadOwnVote` | the viewer's own credit row (262-281) |
| `BeginCredit` | `CreditChart` looks for the row; no row is no error (78-100) |
| `ReputationRead`, `ReputationWrite`, `AddActivity` | as in 3.1 |
| `SaveDiscovered` | counters and whole-row save, which inserts a row of no chart when none was found (102-115) |
| `FindCredit`, `InsertCredit`, `UpdateCredit` | the voter's credit row: inserted when there is none; *any* error is taken for a row that is there, and an update of a struct without its key has no condition, so it turns every row (117-139) |

`Outsiders` are the users with credit rows of `discovered_id` 0, which
`CreditObservation` writes: an empty struct finds them. The rating is left out (it is
always written with the counters), and so is the cache of generated charts.

`DiscoveryRegister` is the abstract specification: the first viewer is the discoverer
for good, each vote on a discovered chart counts and pays, and a ballot holds each
voter's last direction. `DiscoverySerial` gives the refinement mapping: a vote takes
effect at its whole-row save.

| run | instance | what it shows |
|---|---|---|
| `discovery_races` | 3 concurrent requests for one table's chart, or views of a correlated one, the third faulty; 2 users | counters never overstate, credit rows are on rows that count a vote, a vote on an undiscovered chart ends in a row of its own that nothing later touches, answers list votes that were cast, a row never changes its chart or discoverer, only one's own vote turns a credit row |
| `serial` (with 3.1) | 3 requests one at a time, a table's chart and a correlated one | the handlers implement the register |
| `discovery_answer` | one first view of a correlated chart | **violation**: the answer names no discoverer and lists the wrong creditors |

Bounds. Two racing requests and a third before, between or after them reach every
hazard of the list; a second chart shares only the reputation with the first, so it
is left to the serial run. Correlated charts are viewed in both runs, and voted for in
the serial one: `CreditChart` treats the two kinds alike.
A known consequence of the race at tablestocharts.go:210 is that a chart gets two
rows; the racing properties are stated row by row, so they hold whichever row a
look-up finds, and the register excludes it when requests come one at a time.

### 3.3 Monitoring

`Monitoring` follows a sample from `StoreMonitoringData` to Redis. A Go slice is a
header (array, length) over a backing array; `arrays` and `slice` model it, so that an
append in place, an append that grows, and a removal that shifts the elements under
a range loop do what they do in the program.

| action | code |
|---|---|
| `Stamp`, `BeginAppend`, `EndAppend` | a request's sample takes its time; the append reads and stores the slice at some time between the last two (monitor.go:41-63) |
| `Tick`, `BeginLoop` | the ticker calls `FlushMonitoringData`, which connects and starts its loop over the slice as it is (70-98, 144-162) |
| `Visit` | the loop ends, skips a sample newer than the tick, breaks on its index, or takes the element, a copy (98-119) |
| `Hmset`, `Sadd` | the hash, and the pointer to it (121-131) |
| `Remove` | the element at the loop's index is taken out of the slice as it is by now, or the removal is out of range and the process panics (133-139) |
| `Astray` | the loop in memory that a race has left: it ends, goes on with anything, or dies |

Nothing in the program keeps two accesses to the slice apart, and `overlapped` records
that two have met: an append of one request with that of another, or with the part of
the flush between an answer of Redis and its next command. Until then memory is what the
accesses make of it one after the other. From then on Go promises nothing (a header is
three words, which may be of different writes, and stores may be seen in another order),
so `arrays` and `slice` are given up, and the loop may see anything (`Astray`). Nothing is
claimed then but what does not depend on memory. A command of Redis that fails may have
taken effect or not. Stamps are distinct; the report only reads.

| run | instance | what it shows |
|---|---|---|
| `monitoring` | 3 samples, Redis may fail | a pointer has its hash, races or not; until two accesses overlap, removals stay in range, an undisturbed flush sends and keeps exactly `Sent` and `Kept`, and no sample stays in memory forever |
| `monitoring_loss` | 4 samples, Redis up | **violation**: a sample leaves memory and never reaches Redis, without any overlap |

Bounds. Three samples fill arrays of capacity 1 and 2, and grow into one of 4, before,
during and after a flush; a flush has one, two or three elements, so its odd and even
cases are met. The losing append of the violation needs a fourth. Fairness (`FairSpec`):
goroutines are scheduled, so each step of an append or a flush that stays enabled is
taken (weak fairness); the ticker calls again every ten seconds, and a Redis that is
asked again and again answers at last (strong fairness of the successful part of
`BeginLoop`, `Hmset` and `Sadd`). Without the latter nothing would ever leave memory, and
the code claims no more.

### 3.4 Node registries

`NodeRegistry` models the load balancer's and pgpool's APIs, which are one program
but for the last node and for restart against reload (`api` says which it is), and the
scripts that call them. A script repeats its curl until it exits with success, which
any HTTP answer is, errors included.

| state | in the code |
|---|---|
| `phase`, `waiting` | how far a node's scripts are, and the call curl waits for |
| `call`, `pc`, `list` | a request, how far its handler is, and its `file.data` |
| `firstRun`, `jobs` | `isFirstRun`; the shell commands started and not ended |
| `file`, `conf`, `etc`, `running` | the JSON file, the rendered configuration, the one in /etc, the one the daemon has loaded |
| `clean`, `inOrder` | history: no overlap, failure or repetition so far; no reload before its replacement |

| action | code |
|---|---|
| `Join`, `Leave`, `ConnectionBreaks` | `inform_loadbalancer`, `inform_pgpool` and curl |
| `Read` | read the file, refuse or change the list, start to save (loadbalancer/api/app.coffee:79-101, 111-135; db/api/app.coffee:74-94, 104-126) |
| `Save`, `Fail` | the promise of the save: start `compileTemplate` and answer, or status 500 |
| `Compile` | the configuration is written, then replacement and reload (or restart) are started together (24-53; 27-60) |
| `Replace`, `Reload` | the commands end, in any order |
| `ApiRestarts` | the process dies and pm2 starts it again |

The reading and writing of a file is one step each (json-file-plus and fs are not in
the repository); the backups are left out, since nothing reads them; the two lists of
HAProxy are one list of endpoints, since an endpoint belongs to one of them.

| run | instance | what it shows |
|---|---|---|
| `registry_races` | 3 nodes, 3 calls, both APIs | no node is listed twice; pgpool's list is never emptied; where calls do not overlap and nothing fails, the file agrees with what the nodes were told and the live configuration follows it, and the daemon too if no reload overtook a replacement |

Bounds. Two overlapping calls and one before or after them reach every hazard; three
nodes let the last node of pgpool be refused while another joins. That overlapping
calls lose an acknowledged change, and that a reload may come before its
replacement, is what the code does; the properties name these cases.

### 3.5 Accounts and sessions

`Accounts` has one action per statement of the handlers that create a user, open and
close sessions, and change a row of `priv_users`.

| state | in the code |
|---|---|
| `users`, `tokens`, `socials` | `priv_users` (name, address, password and how it is hashed, reputation), `priv_users_tokens`, `priv_users_social` |
| `sessions` | the keys of Redis: a uid, or 0 after a log out |
| `call`, `pc`, `who`, `copy`, `answer` | the parameters of a request, its statement, its `User` struct, the uid it answers |
| `book`, `overlapped`, `excused`, `contested` | history: the rows had every call changed only its own columns; the users, addresses and tokens on which calls have overlapped |

| action | code (user.go unless said otherwise) |
|---|---|
| `BeginLogin`, `CountMD5`, `UpgradePassword` | `HandleLogin`: bcrypt, then the MD5 of old accounts, which is replaced |
| `BeginSocial`, `CreateSocialUser`, `RecallUser`, `SaveSocial` | `HandleSocialLogin`: find by address, else insert, find again, note the network |
| `BeginRegister`, `CheckAddress`, `InsertUser` | `HandleRegister`: two look-ups and the insertion they guard |
| `SetSession`; `BeginLogout`, `ClearSession` | sessions.go |
| `BeginForgot`, `IssueToken`; `BeginReset`, `CheckToken`, `SavePassword`, `SpendToken` | the reset of a password; the token is marked after the row is saved |
| `BeginEdit`, `LoadOwnRow`, `BeginAdminEdit`, `StoreRow` | `UpdateUserDetails` and `EditUserHttp` (useradmin.go): whole-row saves |
| `BeginPay`, `PayReputation` | `Reputation`, called by the votes of 3.1 and 3.2 |

Abstractions: a password is the word and how it is hashed; the avatar, the user type
and the enabled flag are dropped, since they are written with the other columns.

| run | instance | what it shows |
|---|---|---|
| `accounts_races` | 2 concurrent requests of any of the nine kinds, both may fail; 2 names, addresses, words | two accounts share an address only after an edit or a simultaneous creation; no change is lost unless a write falls between another's read and write; a reset token changes one password; the uid of an answer is that of its session, but for a first social login whose address is shared or has been changed |

Bounds. Each hazard of the list is a race of two requests, or a failure half-way in
one and then another: two faulty requests cover both. Two names, addresses and words
are enough to collide and to differ. A third request would add no pair of
statements; the one statement that three requests falsify was found by its proof (section 4).
No liveness is stated: nothing is tried again.

### 3.6 Lists, jobs and batch programs

Nine components that share no state with one another. Each module defines its
initial states and steps (`CacheInit`, `CacheNext` and so on); `MCReaders` runs one
of them in each behaviour, in the run `readers`. `MCCorrelations` runs the correlations
alone, for the two findings about their buckets.

| module | code | state | steps | property |
|---|---|---|---|---|
| `Correlations` | tablecorrelation.go, tablecorrelationhelpers.go | days of each table; a job's tables, method and statement; saved rows | `Generate`, `LookUp`, `CalculateCoefficient`, `SaveCorrelation` (one row a step), `JobFails` | `CorrelationsAreWhole`: all the charts of a pair or triple, once, unless a job failed half-way or two looked it up at once; `DatesAreCounted`: a coefficient counts one stretch of days, each once, from the first that the tables have in common, and to the last of more than eleven; the row and the plot name it |
| `ChartCache` | tablestocharts.go:59, 141-205, 412-476, 659-944 | the map, a request's keys, the rows its query still has | `Ask`, `Check`, `QueryFails`, `Put` (an empty entry), `Fill`, `Finish` (the rows gave no chart), `RowsEnd`, `Panic`, `Collect`, `Crash` (two writers of the map) | `ChartsAreShown`: a request is shown what it asked for and the rows give (`ChartsOfKey`), unless the entry is being filled, is damaged, or is the same bubble with y and z exchanged |
| `ActivityStream` | useractivity.go | four tables, at the level of whole requests | the six acts that write them | `StreamIsNewest`: the newest acts, as done, and what may be missing |
| `Paging` | tablestocharts.go:480-650, the two controllers and the service of the browser | the list of each table, what the open page shows, offset and count, `kept` | `OpenTable`, `ShowMore`, `Answer`, `Refuse`, `Panicked`, `LateAnswer`, `Grow` | `PagesTile`: pages show every correlated chart once, in order, never past the end; what a start from more than the limit skips |
| `AdminTable` | useradmin.go:54-96, 163-246; the two controllers of the administrator, controllers/admin in the browser | the rows and their flags, the page's number, order and filter, the rows in the browser, requests under way | `ReadList`, `ReadCount`, `ListFails`, `Carry`; `ChangePage`, `SetFilter`, `OrderBy`, `Submit`, `Submitted`, `ShowPage`, `ShowError`; `Change` (others) | `PageIsTrue`: a page that met no other request is the page of the list, empty only if the list or the first page's request was, and without what was deleted; with `PagesTile` it is the run's `PagesAreTrue` |
| `NewsFetch` | src/src/newsfetch/extraction.go, main.go | position, escapes of each url, the answer, the rows | `Extract`, `ExtractFails`, `InsertRow`, `NextBatch`, `FetchDies`, `FetchEnds` | `ArticlesAreFetched` |
| `Transfer` | src/src/transfer/main.go | the window, the next query, the new rows | `CopyResponses`, `CopyKeywords`, `CopyEntities` | `RowsAreCopied`: no day falls between windows; both are the run's `NewsArrives` |
| `SearchCount` | search.go, politicalactivitymonitor.go | `priv_searchterms`, a search's statement and struct | `Search`, `FindFails` (repeated five times), `FindTerm`, `SaveTerm`, `PopularPoliticalActivity` | `SearchesAreCounted`: never too many, all of them and in one row where searches of a term do not overlap |
| `PoliticalActivity` | politicalactivitymonitor.go | the terms found so far, `n` of the sort | `AskActivity`, `ScanKeywords`, `ScanEntities`, `CalcPAVals`, `RankPA` (one pass a step) | `ActivityIsRanked`: the highest terms in order, every mention on its day |

| run | instance | what it shows |
|---|---|---|
| `readers` | the nine modules, one in each behaviour, with the bounds below | the properties above |
| `correlation_buckets` | 1 job, 2 tables over twenty days | **violation**: eleven buckets, of at most ten |
| `correlation_days` | 1 job, 2 tables with four days in common | **violation**: the last of them is in no bucket |

What `ChartsOfKey` says that rows give is what the tests of `GenerateChartData` let
through: no column chart of more than 50 values (tablestocharts.go:931), no bubble, pie or
year with a negative whole number (771, 811, 858), and none without two values on either
axis. Such a key keeps its empty entry for good, and whoever asks for the chart is
refused; every request for it is, so this is no race. The returns at 785 and 830 are
for a column that comes twice in a row of values. A table has no two columns of one name
(`ColumnsDiffer`), so they are never taken.

Bounds, and why they are enough:

* **Correlations**: 2 jobs, 3 tables, series of days for each case of the intersection and
  the buckets (ten days, eleven buckets, a period within another, an overlap, none, two
  days only). A third job can only repeat what the second did.
* **ChartCache**: a date and three number columns, one of them with negative numbers, in
  a table of more than 50 rows over two years, of which one has a row that gives
  charts: every kind of chart is made and left out. 2 requests, one of which may fail;
  5 charts asked for one by one; 1 damaged entry.
* **ActivityStream**: 2 people, 4 acts and streams of 2, so that the oldest act is
  left out. Requests are taken one at a time, as 3.1 and 3.2 treat the races.
* **Paging**: lists of 0, 2 and 5 with pages of 3 and a limit of 4 in place of 30: a
  list shorter than a page, one longer than the limit, and none; 3 openings, so that
  what is kept from one table meets another, and a page that was left answers late.
* **AdminTable**: up to 3 rows in pages of 2, so that a deletion or the filter empties the
  second page; 2 clicks, 2 requests at a time, and one failed query or change by others.
  An edit of a user is a request like a deletion; what it changes is in `Accounts`.
* **NewsFetch**: 5 urls in batches of 2, so that the last is short; 5 batches sent, so
  two are repeated; one failed insertion.
* **Transfer**: all 58 windows of the program, rows at the ends of windows and of
  Februaries, a limit of 2.
* **SearchCount**: 3 searches of 2 terms, one with a second page of titles; one search may
  fail, at each of the five look-ups.
* **PoliticalActivity**: 2 days and mentions about the ends of each; every order and
  tie of three values, a term listed twice, and no term.

Tables and jobs are symmetric. No fairness is assumed: a job or request that fails is
not tried again, and the batch programs stop.

## 4. What is proved

Each theorem holds for every value of the constants that meets the named assumptions
of its module; TLC evaluates those on every run. Where a theorem states a property of
a run, the run shows it on a small instance and the theorem in general. Of the 30
invariants and 9 other properties of the passing runs, the theorems state all but one
(see the end of this section).

`ObservationCreditsProofs` holds for any sets of users, observations and requests,
any bound on the requests in progress, and any set of faulty requests.
It rests on the named assumptions of `ObservationCredits`: there is a user, `Nobody`
is not one, requests are finite and not seeded observations, `NoRow` is not a row.

| theorem | property | inductive invariant |
|---|---|---|
| `TypeCorrectness` | `TypeOK` | `TypeInv`: with `Stages`, which ties the control point of a request to its kind and to its having a copy (without it `copy[r].uid` has no type) |
| `NobodyVotesForThemselves` | `NoSelfVotes` | `AuthorInv`: the author in a stored row and in every copy of it agree (`RowsAreInserted`, `Copies`), so the test at the start of a vote still holds when the vote is saved |
| `CountersAreWithinVotes` | `CountersNeverOverstate` | `CountersInv`: the bound holds of the local copies too, and a request past its copy but not saved has not been counted, so a stale copy plus one vote stays within the saved votes |
| `VotesLeaveTrace` | `VoteLeavesTrace` | `TraceInv`: the votes saved on a row that is there leave its counters positive, whichever copy is written last |
| `RatingsAreCurrent` | `RatingIsCurrent` | the same equality for stored rows and copies |
| `DeletedStaysDeleted` | `OnlyInsertCreates` | an action property, from `TypeInv` |
| `FinedOnlyWhenGone` | `FinedObservationIsGone` | `GoneInv`: a deletion that is not faulty and past its DELETE has no row, and none comes back; faulty ones are left out, since `DeleteObservationHttp` fines even if its DELETE failed |
| `WritesKeepTheirOrder` | `WritesInOrder` | `OrderInv`: a request at its credit row has saved the counters, and a comment about to be inserted has its activity |
| `ReputationsAddUp` | `ReputationIsExplained` | `ReputationInv`: not only each stored reputation but also each value a request has read is the sum of some paid requests' points, so that a stale write-back loses points and invents none. Sums are taken over a finite set in an arbitrary order; `DataProofs` shows that they do not depend on it (`AnyFirst`, `SumFacts`) |
| `HandlersImplementLedger` | `ImplementsLedger` | `SerialInv`: with one request at a time and no faults, a copy is the row that is stored, a vote past its look-up was never cast, and the reputation read is the one stored. Each statement is then a step of the ledger or none: the save of a vote, the insertion of a comment, the flag's update and the DELETE are its steps, and `LedgerStanding` carries the one payment that is ahead or behind |

`DiscoveryProofs` holds for any sets of users, charts and requests, any bound on the
requests in progress, any set of faulty requests and any `Outsiders`. It rests on the
named assumptions of `ChartDiscovery`: there is a user, `Nobody` is not one, requests
are finite, and the ids of tables' charts, correlated charts and requests are distinct
from one another and from `Zero`. Its proofs go through `StepKinds`, which says of a
step what it reads and writes (`Reads`, `Inserts`, `Saves`, `FindsCredit`,
`WritesCredit`, `TurnsCredits`, or none of them), so that each invariant is proved by
seven cases instead of thirteen actions.

| theorem | property | inductive invariant |
|---|---|---|
| `TypeCorrectness` | `TypeOK` | `TypeInv`: with `Stages` (which handler a step is of, a discoverer to pay, an id to credit, a found credit row that is there) |
| `DiscoveriesStay` | `DiscoveryIsForGood` | `RowInv`: a request's own row is not there before it inserts it, and a struct with an id agrees with its row on chart and discoverer, so that a stale save rewrites what is there |
| `CountersAreWithinVotes` | `CountersNeverOverstate` | `CountersInv`: the bound holds of the structs too; a vote whose save is done stays with its row (`VotesStay`) |
| `CreditRowsAreCounted` | `CreditsAreCounted` | `CreditInv`: a credit row is of the row and the user of the saved vote that inserted it, and every saved row counts some vote |
| `OrphansKeepTheirVote` | `OrphansHaveOneVote` | `CreditInv`: only the vote that inserted a row of no chart has it in its struct |
| `OwnVotesTurn` | `OnlyOwnVoteTurns` | an action property, from `CreditInv` (a vote that has not failed updates the row it has found) and `NotYet` (no credit row is inserted twice) |
| `ViewsAnswerTruly` | `AnswersAreEarned` | `RowsAreEarned` (every credit row stands for a vote on its row) and `ViewsAreEarned` |
| `HandlersImplementRegister` | `ImplementsRegister` | `SerialInv`: alone, a request's struct is the stored row or empty because there is none; a chart has one row, with a discoverer (`OneRow`), and a user one credit row for it (`OneCredit`). The step at which a vote counts is its whole-row save; its ballot appears at once in the mapping (`BallotRows`), although the credit row is written two statements later. As in 3.1, `Serially` has besides that an empty slot is no entry (`NoRowIsNoEntry`, which `MCSerial` assumes) |

`MonitoringProofs` holds for any finite set of samples, with and without failures of
Redis.

| theorem | property | inductive invariant |
|---|---|---|
| `TypeCorrectness` | `TypeOK` | `TypeInv`: `Typed`, `Loop` and `Headers`. A header's length is bounded only because every cell it shows was written by a finished append (`Shown`) |
| `NoPanicApart` | `RemovalsInRange` | `ApartInv`: until two accesses overlap the loop's index is within the slice from the visit of an element to its removal |
| `FlushesEveryOther` | `UndisturbedFlush` | `FlushInv`: after r removals the backing array is that of `ShiftedBy(r)` (each removal has moved the tail by one under the loop), every odd element before is in Redis, and the slice is r shorter, or nil because the last removal was at its end |
| `PointersHaveHashes` | `IndexedHasHash` | `Loop`: a command that adds the pointer follows the one that wrote the hash |

`RegistryProofs` holds for any finite set of nodes and any set of calls, for both APIs.

| theorem | property | inductive invariant |
|---|---|---|
| `RegistryTypes` | `TypeOK` | `TypeInv`: a list is no longer than the nodes because it has no duplicates (`Distinct`) |
| `ListsHaveNoDuplicates` | `NoDuplicates` | `Distinct`: also of the lists that handlers hold, however old |
| `PoolsKeepANode` | `NeverEmptied` | `KeptOne`: what a pool's handler is about to save has a node, whatever has been saved since |
| `MembersMatchTheFile` | `MembersAreListed` | `CleanRun`: while calls do not overlap, fail or repeat, the list read is the file, curl waits for the call that is handled, and phases agree with the list (`Members`) |
| `ConfigurationCatchesUp` | `ConfigurationFollows` | `Following`: file, rendered, live and loaded configuration differ only where a call is on its way between them |

`AccountsProofs` holds for any sets of names, addresses, words and requests, any bound
on the requests in progress, and any set of faulty ones. Beside typed bounds it assumes
that `None` is none of the other values (`EmptyIsEmpty`, `NoneIsNoToken`) and that names and
addresses differ.

| theorem | property | inductive invariant |
|---|---|---|
| `TypeCorrectness` | `TypeOK`, in no run | `TypeInv`: a uid is free for every request that may still insert a user, because there are no more users than requests past that point |
| `AddressesStayApart` | `AddressesAreUnique` | `UniqueInv`: at an address that a request is about to insert there is still nobody, unless it was created or given meanwhile (`Fresh`) |
| `RowsAddUp` | `RowsAreExplained` | `ExplainedInv`: the row a request has read is the stored one unless a write has fallen between (`Current`) |
| `ATokenSetsOnePassword` | `TokensAreSpentOnce` | `SpentInv`: for an uncontested token at most one request is past the password, and then the token is marked and nobody is about to mark it again (`Spent`) |
| `AnswersStandForSessions` | `AnswersMatchSessions` | `MatchInv`: from the look-up of a first social login on, the user it answers is that of its session, or has another address, or shares it (`Answering`) |

The last one corrected the model. The property used to excuse only addresses that two
users share; its proof failed at an edit, and three requests show why: a social login
inserts a user, an edit takes the address away from it, another login inserts a second
user there, and the first then opens the session of the second. With two requests the
case does not arise. `AnswersMatchSessions` now names it.

`ReaderProofs` is about five of the nine components of 3.6. Their modules define
specifications of their own (`SearchSpec`, `CorrelationsSpec`, `FetchSpec`,
`TransferSpec`, `CacheSpec`); the lemma `PartsBehave` shows that the specification
of `MCReaders`, which the run checks, implies each of them.

| theorem | property | inductive invariant, and what it rests on |
|---|---|---|
| `SearchesCount` (from `SearchCounts`) | `SearchesAreCounted` | `SearchInv`: the counts stored and the counts held are each within the searches of the term; where none overlap there is one row, which counts the searches past their save (`ApartInv`). For any terms and finite set of searches; an absent row is none (`NoTermIsNoTerm`) |
| `CorrelationsWhole` (from `CorrelationsKeepOrder`) | `CorrelationsAreWhole` | `WholeInv`: the charts of a job are a prefix of those of its method (`OrderInv`), and under an uncontested key one job at most has saved or may still save (`AloneInv`). For any tables and any number of jobs |
| `DatesCounted` | `DatesAreCounted` | `CalculatedInv`: who saves, or has saved, had something to calculate, with the days that are there now. The rest is arithmetic: `StepsFit` (ten steps of the rounded-up size reach the end of a period, however long), `BucketsTile` and `TilesCount` (the buckets cover one stretch of days, each of them once), `Intersection` and `PeriodIsCommon` (the cases of `GetIntersect` give the common days but for `Overlong`). For any series of days |
| `ChartsShown` | `ChartsAreShown` | `CacheInv`: an undamaged entry lacks only what one of the requests that fill it still has to add, although each of them may have emptied it (`FilledInv`), and what a request is through with is there (`ThroughInv`). For any columns with one of dates at most, which alone is named like one (`OneColumnOfDates`), and of different names (`ColumnsDiffer`), and for any rows: what they give is `ChartsOfKey`, of which the proof uses nothing else than that it is the same at every request. `KeysAreListed` has the keys of the requests among the keys of the map |
| `ArticlesFetched` | `ArticlesAreFetched` | `FetchInv`: how far the rows of the batch at hand are written, table by table (`WrittenInv`), and that the batches before it are sent (`SentInv`). `FetchIsBounded`: `Targets` is a list of tables |
| `RowsCopied` | `RowsAreCopied` | `CopiedInv`: the rows of all windows gone through, and of the tables done in the present one, are copied. `RowsAreTyped`: tables and dates of the old rows |
| `NewsIsComplete` | `NewsArrives` | the last two, as parts of the run |

`ScreenProofs` is about the other four, from `StreamSpec`, `PagingSpec`, `AdminSpec` and
`ActivitySpec`, which `ScreensBehave` derives from the specification of `MCReaders`.

| theorem | property | inductive invariant, and what it rests on |
|---|---|---|
| `StreamShowsNewest` | `StreamIsNewest` | `StreamInv`: the four tables tell what was done, however often. Every act has left one activity (`ActivitiesAreActs`), and a vote stands for the acts that cast and turned it: it has the direction of the last and the time of the first (`VotesAreActs`, `Stands`). What `Happened` and `Instigated` collect is then compared with the acts entry by entry, and `NewestExist` shows that a cut at the limit is a cut at the newest. For any people, charts and lengths of a stream; `StreamsAreBounded` has charts apart from the numbers of rows |
| `PagesTileTheLists` | `PagesTile` | `PagesInv`: a first request is under way or has brought nothing, and a later one asks for no more than is left (`PageStages`), so that a page begins where the one before ended. A list that grows has each of its charts once still (`ChartIsPut`); the charts shown add up by `SumOfOnesMore`. For any lists, any length of a page, and any number of answers on their way; `PagesAreBounded`: a step is at most the most that is shown at once |
| `AdministratorSeesThePage` | `PageIsTrue` | `AdminInv`: a request that met no other is the only one, asks for the page that is open, and has found nothing that was deleted (`CleanInv`); what was deleted does not come back (`GoneInv`); and the tables of users only grow, so that no page of theirs begins past the end (`UsersInv`). That a page is the part of the ordered list from its offset is `RowsAreSorted` and `PageIsCut`. For any table, any page length and any number of requests |
| `PagesAreShown` | `PagesAreTrue` | the last two, as parts of the run |
| `TermsAreRanked` | `ActivityIsRanked` | `RankInv`: how far a request has come, and what its list then is. After each scan it has every term once that is counted at all, with its mentions of each day (`Tally`): `WithRow` and `WithRows` are folds, `FoldsExist` and `FoldGoesUp` give what they have counted after each row and entry, and `TableIsCounted` compares that with the sets of `MentionsOn`; `DayOfMention` has the day of the rounded times, which begins half an hour after midnight. Each pass of the sort keeps the terms, and leaves what comes after its last exchange where it belongs (`PassSorts`), which is why `RankPA` may begin the next pass with that place as its end; a pass without an exchange leaves the list in order, and a cut of it shows the highest (`FirstAreHighest`). For any tables, vocabularies, days and limits; `ActivityIsTyped` has numbers for dates and frequencies |

Some definitions were changed for these proofs. `PageEnd` had a CASE whose guards
overlap, where TLA+ leaves open which one is taken; it now has the order of the tests in
the code. `Sorted` of `AdminTable` used `SetToSortSeq`, which TLC computes but whose
definition the prover cannot unfold; it is now the sequence of the rows found in which
each comes before the next. `Scan` of `PoliticalActivity` is a set of places for the same
reason (it was a `SelectSeq`), and its `monitor` is a pair also before a request is made
and after one failed, where it was a word: the provers cannot tell a word from a pair.

Only model-checked:

* **Liveness** (`EverySampleLeaves`) and ENABLED are out of the prover's reach.
* The violation runs refute what they state, on one behaviour each.

## 5. Findings

* A user can hold two credit rows in one direction on one observation, and its
  author is paid twice: the look-up at observations.go:404 and the insertion at 434
  are separate statements. The message at observations.go:409 says "You can
  Credit/Discredit observation only once."
* The first view of a correlated chart answers with no discoverer, and with the
  creditors of `discovered_id` 0: `GetChartCorrelated` drops the row that `Discover`
  returns (tablestocharts.go:300). The fields of `PatternInfo` (32-35) are the
  discoverer and the creditors of the chart.
* A sample can leave memory without reaching Redis: `FlushMonitoringData` removes by
  the loop's index elements of a slice that has moved, and resets the slice when its
  number of old samples is even (monitor.go:133-136). The comment at monitor.go:17-18
  says the data is stored into Redis.
* A correlation over twenty days, or another multiple of ten from there on, has eleven
  buckets: `CreateBuckets` adds one for the last day after ten that fill the rest
  (tablecorrelationhelpers.go:144-158). The comment at 136 says "no more than 10 buckets".
* The last day of a common period of at most ten days is not counted: its buckets are a
  day long, open at their end, and get no extra one (tablecorrelationhelpers.go:143-145,
  183). The comment at 162 says "sum dated values that fall on or between relevant
  dates". `DatesAreCounted` names the other days that are not common ones: of tables that
  begin on one day, the later end is taken (tablecorrelation.go:310-314, `Overlong`),
  where the comment at 291 speaks of "the intersect".

Met while modelling, and stated by no doc or test: `DeleteObservationHttp` charges the
spam penalty whether or not the observation was flagged (useradmin.go:243); a credit
look-up that fails makes `CreditChart` update every credit row (tablestocharts.go:131);
appends that race can make the flush's removal panic; after an error on a later page the
users' controller calls `updateObservations`, which it does not have (users.coffee:64),
and the table stays empty.

## 6. What is not modelled

* **Tracking**: the route that records a visit is commented out (main.go:155-157), so
  that the table never changes.
* **Formulas of the coefficients** (correlationforumlae.go): floating-point arithmetic.
  A coefficient is zero, which is not saved, or it is not.
* **Values of a chart**: `ChartCache` keeps which charts an entry has and whether they
  have all their values. The reduction to a thumbnail (`reduce`) is left out. Which charts
  are left out for their values is decided by parameters: whether there are more than 50
  rows (`Long`), which columns vary (`Varied`) or have negative numbers (`Negative`), and
  the years that have rows (`Years`) and rows that give charts (`Mixed`).
* **The maps of schemastorage.go**: written once for each key with what a query
  gives; only the crash that a race on such a map causes is modelled (`Crash`).
* **Matching**: which tables a search finds is SQL; a term is known by how many titles
  and columns it matches. `BuildDataDictionary` is called by a test only; the list of
  top discoverers is one query over the rows of `ChartDiscovery`.
* **Ties in the order of correlated charts**: the list is ordered by the coefficient,
  which the charts of one correlation share, and SQL does not say in which order rows of
  one coefficient come. `Paging` has them in one order while nothing is added, which is
  more than SQL promises.
* **Lists that are single queries**: observations, the home page, discovered charts.
* **News and Twitter readers**: read-only queries with text filters. **DailyKimono**: a
  download into files before `newsfetch` begins. **playgen**: a connection helper.
* **The other views of the front end**: they send one request at a time, and what they
  can send is the input of the models.
* **The provisioning part of the scripts**: I/O on one machine.
* Inside what is modelled: a statement whose acknowledgement alone is lost, in the
  modules of the server (3.1, 3.2, 3.5); the backups of the node registries.
