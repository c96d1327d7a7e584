# TLA+ models of ROCm Optiq

This directory holds TLA+ modules for the concurrent core of ROCm Optiq, the
configurations that model-check them with TLC, and theorems about them checked by
TLAPS. The reference is the code: a definition is translated from the lines that
`PROJECT.json` ("map") names for it.

## 1. The system

Optiq opens a GPU trace (an SQLite database), and draws its timeline, tables and
graphs. It can also start the profiler that records a trace, here or on a remote host.

    View        one UI thread, one frame after another; polls futures with timeout 0
     |             ^
     | C API       | futures (rocprofvis_controller_future_t)
     v             |
    Controller  JobSystem: a queue and hardware_concurrency() worker threads,
     |          segment caches, arrays, memory manager with an LRU thread
     |             ^
     | C API       | database futures (RocProfVis::DataModel::Future)
     v             |
    Model       a thread per query, SQLite connections, slices, tables

A request of the View becomes a controller `Future` that owns a `Job`. A worker runs
the job's function, which may issue database queries; each of those is a database
future, *chained* to the controller future so that a cancellation can find it. The
answers are copied into caches of the controller, which several jobs share and one
background thread evicts.

### 1.1 Components

| Component | State it keeps | Operations | Talks to | Status |
|---|---|---|---|---|
| **Segment cache of a track** (`Track`, `SegmentTimeline`, `Segment`, the array ownership and LRU thread of `MemoryManager`) | segments and their entries, a *valid* and a *processed* bit per segment, which arrays reference which segments, arrays in use | fetch an interval (wait, claim, query, insert, publish, settle, walk), enter and cancel ownership, evict | jobs of the job system, database futures | `SegmentCache`, `SegmentClaims` |
| **Job system and futures** (`JobSystem`, `Job`, `Future`) | queue, terminate flag, result per job, who sleeps on what | issue, take, execute, cancel, wait, free, destroy | every caller of the controller's C API | `JobSystem`, `JobPromise` |
| **Database futures and query threads** (`DataModel::Future`, `SqliteDatabase::Sqlite3Exec`, `QueryManager::ExecuteQueriesAsync`) | dependents of a future, sub-futures, interrupt flags, promise | start, chain, interrupt, step, fan out, wait, free | job functions, `Future::Cancel`, SQLite | `ChainedQueries` |
| **Profiler process** (`ProfilerProcessController`, `LocalProfilerExecutor`, `ProfilerSessionBase`, `AppMonitor`) | state, pid, exit codes, the process, the monitor job and its future | launch, monitor, cancel, free | View, job system, kernel | `ProfilerSession` |
| **SQLite connection pool** (`SqliteDatabase`) | available and used connections | get, wait at the limit, release | query threads | in `ChainedQueries` |
| **Table processor** (`TableProcessor`, `PackedTable`, `SystemTable`) | the merged table, the tracks and the query it stands for, filter, groups, sort, expiry timer | check, save, reuse or query and merge, filter, group, sort, export, expire | table jobs, exports, timer thread | `TableCache` |
| **Data provider, track items, event queue, tab teardown** (`DataProvider`, `TrackItem`, `TimelineView`, `AppWindow`) | requests in flight, chunks an item waits for, raw data, events between two frames, resources of a closed tab | request, supersede, cancel, poll, store, report, release, free, detach | controller futures, timeline model | `TrackRequests` |
| **Remote connections, SSH sessions, monitor, remote workflow** (`SshClient`, `SshBridge`, `SshSession`, `AppMonitor`, `RemoteTraceOrchestrator`, file browser and prompts) | status, questions and answers on the bridge, the operation in flight, its teardown, the phase of the workflow, the directory shown, the list of connections | connect, authenticate, execute, download, browse, ask, answer, cancel, poll, reap, destroy, free | job system, server, user | `RemoteSession`, `SshConnections` |
| Profiler launch over SSH | phase | one step per frame | profiler session, SSH session | not modelled |
| Memory manager pools | bit maps of pool pages, size limit | allocate, free, configure | `Event`, `Sample`, `Segment` | planned: `MemoryPool` |
| Data model slices | slices per track, completion | add, complete, wait, remove | slice queries | not modelled |
| Level-of-detail graphs | a segment timeline per level | fetch, generate a level out of the finer one | segment cache | planned: `GraphCache` |
| Traces, summary, topology, search | none between jobs | job bodies | all of the above | not modelled |
| Compute trace, PC sampling, roofline | tables and plots | bulk transformation | database futures | not modelled |
| Query factory, builders, schema versions | none | SQL text | query threads | not modelled: no state |
| Views, widgets, settings | layout, preferences | draw | everything, on one thread | not modelled |
| Application shell, logging | none | I/O | - | not modelled: pure I/O |

### 1.2 What is hard here, and what makes each part correct

*Segment cache.* Several jobs fetch overlapping intervals of one track; each claims
what is missing and waits for what another one is fetching. Any of them may be
cancelled between two tests of its flag, any query may fail, and the LRU thread may
destroy segments at the same time. Correct means: no segment is loaded by two jobs at
once; a segment marked valid has been loaded; a fetch hands over everything in its
interval; a caller always gets an answer; what an array points to stays.

*Job system.* Every future may be polled, waited for, cancelled and freed by its owner
while a worker takes, runs and resolves its job, and the pool may be destroyed with
jobs still queued. Correct means: a job runs at most once and never after it was
dropped, no result changes, no wake-up is lost, nothing runs on a freed future.

*Database futures.* A cancellation walks the dependents of a future while the job
chains new ones, waits, removes and frees them, and the threads of the queries read
their interrupt flag without a lock. Correct means: no freed future is touched, a job
that reports Success has all its rows, nothing is leaked, and the job ends.

*Profiler process.* The UI thread and the monitor job both run `Cancel` and
`IsRunning` on fields that nothing guards. Correct means: no final state before the
process is gone, no signal to another process, and closing a session always ends.

*Connection pool.* Statements of one file share a few connections, and an interruption
names a connection. Correct means: a statement that waits for a connection gets one,
and no interruption stops the statement of somebody else.

*Table processor.* Requests keep what they can of the table of the request before, and
two decisions are taken before the lock. Correct means: an answer is the one a processor
without memory would give; row numbers and groups are those of the rows that are there;
an idle table goes away, but never under a reader.

*Requests of a track.* Requests are superseded, cancelled, answered and reported in
different frames, and a request keeps only an id of eight bits of its round. Correct
means: an item waits for its own requests and nothing else; stale ones do not run on;
what is drawn is one interval at one level of detail, in the end the one on the screen.

*Remote session.* A worker, the frame loop and the user share one status word, one
pending question and one list of entries. Correct means: an answer goes to its question;
a phase follows a phase that is over; the connection outlives whoever uses it, and
freeing one session takes no connection from another; nothing waits for ever except for
the user.

`PROJECT.json` ("hazards") lists each of these at its line, with the properties that
cover it or the reason why none does.

## 2. Plan

Done, in this order:

1. `SegmentCache` with its abstract specification `SegmentClaims`, and proofs: the
   largest shared state of the program, read and written by the most threads.
2. `JobSystem` with its abstract specification `JobPromise`, and proofs.
3. `ChainedQueries`: the way of a cancellation from the View into SQLite, with the
   connections the statements share, and proofs.
4. `ProfilerSession`, and proofs.
5. `TableCache`: table processor, expiry, export, interrupted statements, and proofs.
6. `TrackRequests`: data provider, track item, events and teardown, and proofs.
7. `RemoteSession`: SSH session, bridge, monitor, workflow and browser, and proofs.
8. `SshConnections`: the connections several sessions share.

Every safety property that a passing run checks is a theorem, the one of `SshConnections`
excepted. Next:

- proofs: `SocketsAreKept`, from an invariant that says that a socket in use belongs to one
  connection; abstract specifications for the parts that have none yet, and their
  refinement: a table processor without a memory for `TableCache`, one request at a time for
  `TrackRequests`; `CacheImplementsClaims` for a timeline that is initialised twice, with an
  abstract claim that may be lost;
- `GraphCache`: levels of detail over the claims of `SegmentCache`;
- `MemoryPool`: its bookkeeping is worth a proof for every number of pages;
- the launch of a profiler over SSH: the phase machine of `RemoteSession` over
  `ProfilerSession`.

## 3. Modules

Conventions. A step is what one thread does inside one critical section, or between two
reads of data that another thread may change; `pc` is where a thread is. `MCx` extends `x`
and defines the constants a `.cfg` cannot write; `x_proofs` extends `x` and holds its
theorems; `NaturalsLemmas` are facts about numbers that several of them cite. An operator
`FMutant` is a plausible wrong form of `F`, kept beside it to show that the properties
notice the difference; no specification uses it.

### 3.1 SegmentCache

| Variables | Code |
|---|---|
| `inits` | calls of `SegmentTimeline::Init`; 0 is `m_segment_duration == 0` |
| `valid`, `processed` | `m_valid_segments`, `m_processed_segments` |
| `present`, `content` | keys of `m_segments`, entries of each `Segment` |
| `lruKnown`, `lru` | `m_lru_array` and the references its entries keep |
| `inUse`, `configured` | `m_lru_inuse_lookup`, `m_lru_configured` |
| `evPc`, `evLock`, `evTodo` | the thread in `ManageLRU` |
| `pc`, `req`, `claimed`, `run`, `query`, `todo`, `result`, `walk`, `held`, `got`, `cancelled` | locals of `Track::FetchSegments`, `FetchFromDataModel` and the walk, the array being filled, the future's flag |

`Begin` .. `EndWalk` follow `Track::FetchSegments` (rocprofvis_controller_track.cpp)
from the call to the return; `Evict...` follow `MemoryManager::ManageLRU`. Two points
decide the results: a range is one maximal run of missing segments, split into
`Queries` queries whose last result wins, and a walk holds the mutex shared while the
other steps hold it exclusively. `SegmentClaims` is what the protocol promises to
jobs: claims are taken all at once when free and given back run by run.

Left out: counter tracks (`Sample`), the levels of detail, the content of an event
beyond its interval. The database is the fixed set `Events`.

### 3.2 JobSystem

`queue` is `m_jobs`, `shutdown` is the progress of `~JobSystem`, `worker` and `job`
the loop of each thread, `result` is `Job::m_result`, `caller` what the owner of the
future does (`asleep` is `Job::Wait` on its condition variable). Waiting threads run
again only after a notification, so a lost one shows as a liveness violation; spurious
wake-ups would only add behaviours in which a thread tests its predicate again.
`Issue` and `EndIssue`, `Finish` and `Notify`, `Drain` and `WakeWorkers` are two steps
each because the code releases the mutex in between. `JobPromise` maps `result` and
the queue to one value per job (`Promised`).

Assumed: one caller uses a future at a time (the View's futures, and later the cleanup
thread that took them over), and `~JobSystem` runs at exit, when no job is issued any
more. Not modelled: progress counters and messages of a future.

### 3.3 ChainedQueries

One controller future, its job and one `Future::Cancel`. `dependents` is `m_db_futures`,
`subs` is `m_sub_futures`, `thread[f]` is where the thread of database future `f` is (`<<q,
0>>` is query `q`, `<<q, s>>` its sub-query `s`), `interrupted` is `m_interrupt_status`,
`stopped` says that `sqlite3_interrupt` reached a statement being stepped, `rows` counts
what the callback took. A *plan* is what the job issues: `queries` slices
(`Track::FetchFromDataModel`), or one query with `subs` statements (`SystemTable::Fetch`):
no fetch issues several queries that fan out, which `PlansAssumption` says. The mutex of the
controller future is held over the whole loop of `Cancel` (`ControllerLocked`), that of a
database future while it is being interrupted (`Locked`).

`conn[f]` is the connection a statement was lent: a thread waits while all `Limit` of them
are in use, links its future to the connection while it steps, and gives it back
(`GetConnection`, `LinkDatabase`, `ReleaseConnection`). `Future::Cancel` interrupts what
is linked, so a connection that was handed on must not carry the interruption along.

The thread of a sub-query may fail to start (`FailLaunch`): its future is deleted, the later
ones are not issued, and the query fails once the others have ended. An interruption that
meets a statement before its first row may be lost, or stop `sqlite3_prepare_v2` or the first
`sqlite3_step`.

Assumed: the threads of the queries themselves start; statements end by themselves or by
interruption (failures of their own are in `SegmentCache`); waits have no finite timeout; one
`Cancel` per job; opening a connection does not fail.

### 3.4 ProfilerSession

`state`, `exitCode` are those of `ProfilerProcessController`; `pid`, `running`, `code`
those of the POSIX `LocalProfilerExecutor`; `child`, `status`, `signals` the process;
`job`, `active`, `cancelled` the monitor job and its future; `session` the handles the
View keeps. `pc["ui"]` and `pc["monitor"]` are the two threads; `in[t]` says on behalf
of what a thread is in `Cancel` or `IsRunning`, and `AfterCancel`, `Yes` and `No` where
it goes on. Every use of `m_process_id` is a step, and reads it anew, since nothing
guards it. `kill`, `waitpid` and the process are external.

Assumed: no other child processes (the SSH and Windows executors are not modelled, nor
is the output that is captured), so `waitpid(-1)` finds none; the drain at exit of the
program is left out.

### 3.5 TableCache

A request becomes statements before it reaches the processor (`BuildCompoundQuery`). A track
of 50 000 records and more (`Large`) is cut into slices, as many as there are `Threads` for
each track, whose length is rounded down; a slice or track in whose range the histogram
counts nothing (`Buckets`, `IsEmptyRange`) has no statement. A request without statements is
refused: a fetch answers that there are no rows, an export fails (`Refuse`). What the
processor remembers is made of the statements that are left: `tracks` (`m_tracks`) are their
tracks, `current` (`m_current_queries`) the statements. `Verdicts` is `IsCurrentQuery`, which
compares the text of *one* statement, of a track both requests have; none in common counts
as current.

`merged` are the rows of `m_merged_table`; `twice` the rows it holds more than once; `view` is
what is derived from the rows: row numbers of the filter, groups, order, with the texts they
were derived for, one memory of the sort command (`m_sort_column`) serving groups and rows.
`timer` and `acting` are the expiry thread, between its two mutexes. Fetching jobs hold the
mutex of the trace's table from the check to the answer, exports hold none: `Check` and `Save`
are steps before the processor's mutex, `Reuse`, `Begin` and `Finish...` are under it.

Three variables record what has happened. `filled` is the last request that worked on the
table, `overlapped` the requests that another one or the timer came between, and `dirty`
says that rows may not be those of `m_tracks`. `AnswerIsExact` compares an answer with what a
processor without memory would give for the tracks and the window asked for, however they
were cut. It excuses, by these variables, a table in which a request failed or was
interrupted; a request that was overlapped; one that moved to other tracks and another window
at once (`OtherWindow`); an export without rows, under groups that an older request left
(`StillOwn`); and of the order of rows only a sort column that groups have too
(`SortsAlone`). `EveryAnswerIsExact` excuses none of these, and each refutes it (section 5).
Neither holds for a window that does not divide by the number of its slices: the windows of
`table_base` do, and the theorem assumes it (`WellCut`).

Left out: pages (an answer stands for all of them and the count), the threads of the
filter (tables below 10 000 rows use one), the arithmetic of an aggregation, the event
search, which never reuses its table.

### 3.6 TrackRequests

`phase` is the part of a frame the UI thread is in: dispatch events, poll futures, update
items, render. `view` and `asked` are the interval looked at and the last one asked for,
`settled` the loading timer, `near` the distance test that releases a track. `state`,
`queue`, `pending`, `cancelled`, `group` are the `TrackItem`; `future`, `stop`, `wanted`,
`events` the `DataProvider`; `raw` the `RawTrackData` with its chunks; `cleanup` the
detached thread of a closed tab. A request is a pair of group and chunk
(`MakeTrackDataRequestId`).

An answer is Success, Cancelled or Failed. A cancelled one leaves nothing, or a `Hole` where
data of its group is present. A failed one leaves an empty chunk in any case, a `Gap`, and
nobody asks for it again: `Graph::Fetch` and `Timeline::AsyncFetch` only assert against such
results (`graph.cpp:697-699`, `timeline.cpp:47`), and a failed `FetchFromDataModel` is mostly
masked by the walk that follows (`track.cpp:191`). The properties take a `Gap` for a failure
that was reported.

`orphaned` and `dropped` record two things the code does. `ReleaseData` cancels requests
of a track that scrolls away and nothing replaces them: if the track comes back before
they are reported, chunks that were cancelled become holes, or data of an older interval
stays, and `RequestDataIfEmpty` sees a complete track. The comments at
`timeline_view.cpp:2015-2018` and `data_provider.cpp:3912-3913` describe the guard against
this, which holds only while no data of the group exists. `ReadyIsWhole` and `ViewIsShown`
excuse it; without the excuse TLC finds it. `FreeRequests` (`trace_view.cpp:561`) frees
requests without telling the items, which stay in *Requesting* until the cleanup's
`on_complete` removes the tab (`appwindow.cpp:1099-1101`).

Assumed or abstracted: one track; `OutOfRange` counts as Success with nothing in it; zooming
and panning are choices among distinct intervals; the items of a chart and its raw data are
one; the provider is loaded; a job that fails is one answer, `Failed`; the request the
cleanup itself issues is left out. The states `kTimeout` and `kError` are never set, and the
test for newer data is never true since nothing calls `SetDataRequestTimePoint`: neither is
modelled. `GroupIds` is 8 in the run and 256 in the code: more than the moves a behaviour
has. With as many moves as ids `GroupsDoNotMix` is violated, as it would be after 256 calls
of `RequestData` while an old request is still not drained, or the data of one still there
(section 6).

### 3.7 RemoteSession

One session, from the start of a trace workflow or of a browser to the end of its last
worker. Variables are grouped by the class that keeps them: orchestrator and owner,
`SshSession`, `AppMonitor`, `SshBridge`, and `job[o]`, where the worker of operation `o`
is. `count` numbers the operations; `mon[o]` is what the monitor does with `o`: it polls
it, has ended it because of its status, is cancelling it, or has reaped it. `heir` is the
operation whose teardown frees the connection (`AppendTeardown`).

A frame is `Reap`* ; `Check` and `Read`, the two reads of the status in `Poll` and
`Update`; `Dispatch` of the status event; `Pull` by the browser; and one step of the user.
Steps of a worker are cut where another thread can see or change the bridge. What the
server answers is a choice of outcomes.

`stale` records that a terminal status was taken for that of the next operation: it is
latched until `SshBridge::Reset`, "used for connection reuse" (`bridge.h:32-33`), but nothing
calls that, so a poll before the job has set its first status ends the new operation,
whose worker then runs beside the next phase. `torn` records a listing that was completed
between the two reads of `Poll`: the operation ends without the entries having been read,
and the browser stays busy. Both are excuses in the properties, named there, and so is
`Unseen`, a question nobody draws (`remote_prompt`).

An operation that the session takes for ended is not waited for by the destructor. That
happens by a stale status, and also by a terminal status that the operation's own job shows
before it is through (`ShowsItsEnd`): an error that is saved or a cancellation that is seen
before the job is done with the connection, a download whose sizes agree, a failed command
that closes its channel. `ConnectionOutlivesWorker` speaks of the other workers and names both
cases; `FreedAfterTheWorker` makes no exception and is violated (section 5).

What else the model contains, and no property judges: a failed scp is *Completed* for a
moment (`ssh_client.cpp:1035`), a command that is silent for ten seconds counts as a failure
of the network and then ends *Completed*, and `Reconnect` always ends cancelled because
`Disconnect` cancels the bridge.

Left out: operations that cannot be started, the drain of five seconds at exit, several
sessions at once (section 3.8 has their connections), uploads, output and progress, entries
of a listing (the operation they belong to stands for them).

### 3.8 SshConnections

The connections of several sessions side by side. `m_connections` is the list of `SshClient`;
`m_session`, `m_socket`, `m_connected`, `cancelled` are fields of each `SshConnection` and its
bridge; `allocated` and `open` the session pointers and sockets that the system has given
out, and gives out again once they are returned; `owner` and `job` the session of a connection
and its operation. `Work` is what a worker does to pointer and socket on every path of
connect, and of an operation on a connection that is made (which keeps it, drops it, or
reconnects); `Close` is the destructor of a session, `Reap` the monitor that frees the
connection of an operation that was in flight.

`DeleteConnection` erases the *first* connection whose pointer and socket equal those of the
one to free (`Same`). `Disconnect` returns the session and leaves the pointer as it is, so a
connection that was dropped may have the pointer of a later one. `SocketsAreKept` says that
a connection that has a socket is nevertheless never taken for another. Those without a socket
may be: then a session loses its connection to another one, what its worker does is undefined,
and the model ends (`Intact`).

Left out: a status that ends an operation early (`RemoteSession` has it), and what libssh2 is
asked about a session that `Reconnect` has returned.

## 4. Runs

| Run | Shows | Bounds |
|---|---|---|
| `segment_base` | two jobs over overlapping intervals, cancelled at any step: exclusive claims, valid means loaded, a fetch is complete, `SegmentClaims` is implemented | 2 jobs, 2 segments of 2 ticks, 3 calls, 2 events (one across both segments), 3 intervals |
| `segment_failures` | the same with failing queries, eviction, a cold timeline, an empty range, an event beyond the track's end: held segments, no eviction under a walk, every call returns | 2 jobs, 2 queries a range, 2 calls, 2 events |
| `segment_refetch` | *violation* of `ValidMeansLoaded` | 4 calls, eviction |
| `jobs_base` | one holder per pending job, no function on a freed future, `JobPromise` is implemented, jobs resolve, waiters return, shutdown ends | 3 jobs, 2 workers |
| `chained_base` | a cancellation at any step: no freed future and no statement of another future is interrupted, Success is complete, one query at most escapes, nothing is left, the job ends | 3 slices, or 3 sub-queries, whose threads may fail to start; 2 rows a statement, 2 connections |
| `profiler_base` | no final state and no resolved future before the process is reaped; a cancelled process ends; a closed session is freed | one session, exit codes 0 and 1 |
| `table_base` | an answer is exact unless a failure or an overlap explains it; filter and groups are those of the rows; an idle table is dropped | a fetching job and an export, 2 rows, 2 windows that overlap and one without rows, 3 tracks of which two share a row and one is cut in halves, 2 filters and 2 groups, one of each in error |
| `table_window` | *violation* of `EveryAnswerIsExact` | one job, 2 rows, 2 windows, no failure |
| `track_base` | an item waits for its requests, superseded ones are cancelled, groups do not mix, a ready track is whole, the interval at rest is shown, a closed tab ends; answers are Success, Cancelled or Failed | 2 intervals of 2 and 1 chunks, 5 moves, 8 group ids |
| `remote_base` | connection, answers, phases and browser; a session is freed, a workflow moves on, a browser does not stay busy; no deadlock | 4 operations, 2 questions |
| `remote_prompt` | *violation* of `QuestionIsDrawn` | as above |
| `connections_base` | freeing a session never takes a connection that has a socket from another | 3 sessions, 3 pointers, 3 sockets, each set symmetric |

Each configuration below ends with a counterexample too; `PROJECT.json` does not list them.
They show what the excuse or the hypothesis of a property is for, on the smallest instance
that does:

| Configuration | Violates | What happens |
|---|---|---|
| `SegmentCache_instant` | `ValidMeansLoaded` | a segment whose only event has no duration is valid without it |
| `ChainedQueries_fanout` | `InterruptReachesSubs` | a query interrupted before its sub-queries are registered starts them all |
| `TableCache_cancelled` | `EveryAnswerIsExact` | a request is answered from the rows of one that was interrupted |
| `TableCache_cut` | `EveryAnswerIsExact` | a window of 8 in 3 slices: the last sample is in none |
| `TableCache_sort` | `EveryAnswerIsExact` | rows are not sorted after the groups were, by a column of that name |
| `TableCache_export` | `EveryAnswerIsExact` | a fetch changes the table between the request of an export and its file |
| `TableCache_groups` | `EveryAnswerIsExact` | an export without rows writes the groups of the request before |
| `RemoteSession_teardown` | `FreedAfterTheWorker` | a connection is freed under a worker that has shown its end |
| `SshConnections_foreign` | `WorkersKeepTheirConnection` | a session loses its connection, which has no socket yet, to another |
| `SshConnections_leak` | `FreedAreDisconnected` | a connect is cancelled, and its connection freed with the socket open |

*Why these bounds.* Two segments are the fewest where a request can need both, a range can
be split by a segment that is already valid or claimed, and an event can spill over. Two
jobs are what a wait, a claim and a stolen segment take; three calls let one job come back
after the other has changed the cache, and four are needed to see a segment created by a
spill, evicted and refetched. Three jobs on two workers let one wait while both workers run.
Two rows let an interruption fall before, between and after them; three queries let it hit
the first, a middle and the last one of a list; two connections for three statements let one
wait and inherit a connection. The exit codes only matter as zero or not. Two table rows let
a request keep one and lose the other, and a stream track that shares a row with a queue
track lets it be found twice; the windows overlap by a bucket, so that a track has rows in
one slice and not in another. Two intervals with different numbers of chunks let a chunk of
one be missing, or in excess, in the other; five moves are a zoom, a scroll away and back,
another zoom and one more. A remote trace is at most connect, authenticate, execute and
download: four operations, or two navigations of the browser. Two questions let the second
come before the first was seen to be answered. Three connections let a socket number or a
pointer be given out again while a third connection stands before the one to free; three
sockets and pointers let all have one. `Check` meets a stale status at most once in a
behaviour: this bound is in its guard. Time is not bounded.

The events of `segment_base` have a duration: `FetchIsComplete` and `ValidMeansLoaded` rest
on it. The histogram counts no event without one, so that a range with only such events is
taken for empty and marked valid unread (`SegmentCache_instant`); and `BuildSliceQuery`
compares strictly, so that one on the boundary of two slices is in neither. The runs with
eviction use events in the last segment only, to stay small; what they check of eviction is
proved for all events (section 6).

*Deadlock* is checked for `RemoteSession`, where frames never stop. The other models may
stop: callers may stop calling, and a finished job, a freed session, a joined pool, a closed
tab or a connection lost to another session is the end of a behaviour. What must not block
for ever is a liveness property there.

*Fairness* (`FairSpec`):

- `SegmentCache`: weak for each job and for the LRU thread. The system schedules
  threads, queries answer, a free mutex is obtained. Callers owe nothing.
- `JobSystem`: weak for each worker (a job function returns), for the end of a call
  that was begun, and for `~JobSystem` once it runs.
- `ChainedQueries`: weak for the job, every statement, the fan-out, and a begun
  `Cancel`; nothing makes anybody call `Cancel`.
- `ProfilerSession`: weak for calls in progress, for `AppMonitor::Update` (every
  frame), for the worker that takes the job (`JobsResolve` of `JobSystem`), for the
  monitor job, and for the end of a process that was sent SIGKILL. A process that was
  only sent SIGTERM may run for ever.
- `TableCache`: weak for the steps of a request that was made and for the timer thread;
  nobody has to ask.
- `TrackRequests`: weak for frames, for the loading timer, for each job (`JobsResolve`)
  and for the cleanup thread. Frames of a tab are drawn while it is selected: a tab in
  the background stands still.
- `RemoteSession`: weak for frames and for each worker: the network answers or a wait for
  the socket ends after ten seconds, and a remote command does not print for ever. Nothing
  is assumed of the user.
- `SshConnections`: none, its property is one of safety.

## 5. Findings

- `segment_refetch`: eviction ignores the processed bit, so rows inserted by a fetch
  that is still going on can be destroyed, and the segment is then marked valid.
- `table_window`: `BuildCompoundQuery` leaves out the tracks without rows in the window, and
  `IsCurrentQuery` compares one statement of a track that both requests have. A request that
  moves to a window where none of its old tracks has rows counts as current, and rows of the
  old window that a new track shares stay in the answer.
- `remote_prompt`: the request for a dialog is built once per stay in *AuthRequest*; a
  question that follows another between two polls is never drawn, and its worker waits.

Those of the configurations that are not runs:

- `SegmentCache_instant`: the histogram, which counts no event without duration, decides
  whether a range is read at all.
- `ChainedQueries_fanout`: `ExecuteQueriesAsync` does not ask whether its parent is
  interrupted, although `query_manager.cpp:908-911` registers the sub-queries so that a
  cancellation reaches them.
- `TableCache_cancelled`: an interrupted statement ends with Success, so the rows it had are
  stored as those of its tracks, and the next request for them is answered from those.
- `TableCache_cut`: a slice is (end - start) / divider long, rounded down: up to divider - 1 ns
  at the end of the window are in no statement.
- `TableCache_sort`: `m_sort_column` is one memory for groups and rows.
- `TableCache_export`: `ExportTableCSV` writes the file without the mutex of the processor, and
  exports do not hold the table mutex of the trace.
- `TableCache_groups`: a request without rows leaves the groups of the one before.
- `RemoteSession_teardown`: a terminal status ends an operation for its session while the job
  still uses the connection; the destructor then finds nothing in flight.
- `SshConnections_foreign`, `SshConnections_leak`: connections without a socket are all equal
  to `DeleteConnection`, and one that was never marked connected is freed without being
  disconnected, although `rocprofvis_controller.h:346-347` speaks of disconnecting it.

The models contain more that no document speaks against, so no property is about it. In
`SegmentCache`, the result of a range is that of its last query. In `JobSystem`,
`Job::Execute` notifies after it released the mutex, when a polling owner may have freed
the future and with it the job. In `ProfilerSession`, `Cancel` tests `m_process_id` and
uses it after the monitor may have reaped the process; a `waitpid` that fails returns -1,
equal to the cleared id, and the unwritten status counts as exit code 0; Cancelled,
Completed and Failed may overwrite each other. In `TableCache`, a table of samples whose
selection grows holds the rows it had twice. Section 3 names those of `TableCache`,
`TrackRequests` and `RemoteSession`, where a property excuses them by name.

## 6. Proofs

All theorems hold for every value of the constants that satisfies the module's
assumptions. They are `ConstantsAssumption`, `CodesAssumption`, `PlansAssumption`,
`TableAssumption`, `TrackAssumption`, `RemoteAssumption` and `ConnectionsAssumption`, which TLC
evaluates on every run. What they ask beyond types: a plan with sub-queries has one query
(`SystemTable::Fetch` issues one, `table_system.cpp:58-84`); a window and a row end no earlier
than they start; `None` is no element of the sets it is added to. A hypothesis
that only one theorem needs is in its statement.

`SegmentCache_proofs`. `ClaimsExclusive` is not inductive: nothing in it says that a job
about to publish still holds what it gives back. `ClaimsInv` adds `TypeOK` and
`ClaimsByPhase` (claims are held between Claim and the last Publish only, a run is part of
them, no claim before the first Init). From it follow `ClaimsAreExclusive`, `TypeCorrect`
and `CacheImplementsClaims`; the last is stated for a timeline that was initialised before
(a second Init would clear bits that are in use). `CancellationIsFinal` (of
`CancellationSurvives`, which no run checks) and `OwnershipProtects` are action properties
of single steps with their own small invariants; the latter needs every array to enter
ownership, as those of `Graph` do and those of `Track::Fetch` do not. `SweepsExcludeWalks`
needs a timeline the LRU already knows (`~ColdLRU`): one that enters `m_lru_array` between
`LockTimelines` and the snapshot is swept without its lock. `GrantsAreExclusive` is about
`SegmentClaims` alone.

`ValidMeansLoaded` and `FetchIsComplete` speak of the end of a fetch; `LoadInv` says what is
filed on the way. For each job: the rows of the slices read so far are in the slots they
touch, or in the rows being inserted (`RowsFiled`); a run whose slices are all read is
loaded (`RunLoaded`); the segments a fetch needed and does not hold are valid, or it waits
for them (`RestLoaded`); the walk has passed only what it handed over (`WalkFinds`). The
step from slices to runs is arithmetic: `SlicesCover` says that the slices of
`BuildSliceQuery`, whose bounds are truncated divisions, cover a run without a gap, for
every number of slices (`Quotient`, `TimesMonotonic`). Eviction and failing queries are
excluded because they do break the property (`segment_refetch`; the result of a range is
that of its last query). The two other hypotheses are needed too. Every event has a duration
(`EventsLast`): the histogram takes a range with no other event for empty, and an instant
that two slices share is in neither (`SegmentCache_instant`). An interval of no length on
the boundary of a segment needs no segment, so nothing is loaded for it: `FetchIsWhole`
assumes `start < end`.

`JobSystem_proofs`. The inductive invariant is `TypeOK`, `OneHolder` and `OwnerInv`
(the job of an owned future exists, a freed one has resolved). It gives
`PendingHasOneHolder`, `JobsRunOnLiveFutures`, `SystemImplementsPromise` and
`ResultsAreFinal`.

`ChainedQueries_proofs`. One inductive invariant carries all five properties, because each
needs to know where the others are. `StartedInv` and `DependentsInv` say which queries are
started, chained and freed when the job is at `at`; `FanInv` says the same of the sub-queries
of one query, which its own thread starts and reaps, and that one which has told Success has
launched them all. With them `CancelInv`, that what the
loop of `Cancel` still has to interrupt is among the dependents, and what it is interrupting
among the sub-futures, gives `InterruptsOnlyLive`: both are removed under the mutex that the
loop holds. `ConnInv` says that a connection is lent to one statement at a time and that only
a statement being stepped is stopped, hence `StopsNoOther` although connections are handed
on. `QuietInv`: before a cancellation, a statement that has ended has all its rows; hence
`SuccessHasEveryRow`. `EscapeInv`: two queries that the loop has missed are the same, the one
that was started and not yet chained; hence `OneEscapes`, by the lemma that a set whose
elements are equal has at most one. `EndsWithNothingLeft` follows from the place of the job.

`ProfilerSession_proofs`. `FinalMeansOver` alone says nothing of a thread that is about
to publish. `OverInv` says what each thread has learnt at the labels before that: past
its waits the process has been reaped, and no step of the other thread undoes that.
`LaunchInv` ties the labels of the monitor to the launch. `FinalStatesAreFinal` and
`FuturesResolveLate` follow. The type
invariants of these modules are proved and not repeated in a run; the
exclusive claims of `SegmentCache` are proved for failing queries and eviction too.

`TrackRequests_proofs`. `TypeInv` adds to the types that a request in flight has the view
it was issued for. `ItemAwaitsItsRequests` and `SupersededAreCancelled` hold only for an
open tab, and are not inductive: the cleanup of a closed one frees requests, and a flag
that asks for cancellation only once says nothing of the requests it covered. The
invariant `RequestInv` adds `CleanupAfterClose` (no cleanup runs beside an open tab),
`CancelledAreStopped` (once the flag is set every request in flight was cancelled) and
`QueueIsLatest` (what waits to be issued has the last group). It gives
`ItemKnowsItsRequests` and `OnlyLatestRuns`, for any number of groups: the wrap of the id
breaks `GroupsDoNotMix` and `ReadyIsWhole` only.

For those two the argument is about time. The age of a group is the number of `RequestData`
since it was the last one. A deferred request makes what is in flight and what is held older
by one, and needs an interval that was not asked for, thus a move of the user; data that is
requested again because it is not complete is released first. So nothing that is held is
older than the moves made (`AgeInv`), and with fewer moves than ids (`NoWrap`) a new group
differs from every group that is held: a chunk meets data of its own interval only
(`BatchInv`, `GroupsStayApart`). The hypothesis cannot be weaker: with as many moves as ids
TLC finds a mixture. `ReadyTracksAreWhole` adds what an item that is not `orphaned` waits for:
the chunks of the last interval asked for, none of them cancelled, the others of that
interval being stored without a hole (`LoadingInv`), or nothing (`ShownInv`).

`TableCache_proofs`. `ViewFollowsTable` holds between requests; the stages of a request
(filter, group, sort) each keep what the ones before have made (`Follows`, `Ordered`), and
what drops rows drops the view (`ViewInv`, `WorkInv`). `AnswersAreExact` needs the relation
of three memories that are written at different times: `TableInv` (a table that is not dirty
is that of the last request that worked on it, or empty), `CurrentInv` (a request that
nobody overlaps has compared itself with that one, although `Check` and `Save` run without
the mutex) and `ExportInv` (an export that nobody overlaps finds the table as its request
left it). It has three hypotheses, and needs each. `HasOps`, tables of events: the
statements of all tracks run again when the selection grows, and only tables of events lose
the duplicates of rows that were kept; in a table of samples such rows are shown twice.
`StatementsFindAll`: the statements of a request find every row of its tracks and its
window, which a window that does not divide, a row without duration, or one that ends where
a window begins can break (`TableCache_cut`). `TextsTellWindows`: requests with different
windows share no statement, or else one of the slices may be taken for that of another
request. The two last are `WellCut`; `PlainAnswersAreExact` derives them from the data
(`PlainRequests`): no track is cut, every event has a duration, and none ends where a window
begins.

`RemoteSession_proofs`. The workflow bounds the operations (`PhaseInv`: how many a phase
has begun), which the types need. `PolledInv` says that the monitor polls the active
operation only, and that a session that is not running has none; `TeardownInv` that what
a destructor leaves in flight is the one that frees the connection. Nothing a worker does
touches these (`WorkStep`). The third part is about what ends
an operation before its job: as long as no status was stale, the operation that a status has
ended is through, or its own job has shown its end (`EndedInv`). `ConnectionIsSafe` follows: a
connection that was freed is used by nobody but a worker whose operation was ended by a stale
status or by its own job, through one of the early ends that `ShowsItsEnd` lists.

A second invariant, `Flow`, follows what goes through the connection. `AnswersAreFitting`
rests on there being one operation that asks, the second (`KindInv`), on the withdrawal of a
question with the wake-up of its worker, and on what is drawn being the pending question
(`QuestionInv`): `built` alone does not say so, since `remote_prompt` shows it out of date.
`PhasesEarned` needs that operations follow one another as long as no status was stale
(`ThroughInv`), and that the workflow goes on from a connection that was made
(`ConnectInv`). `BrowserLists` needs where the entries are between the worker and the browser
(`ListingInv`): on the bridge, taken by a poll, or in the view.

Model-checked only: every liveness property (fairness and ENABLED are out of TLAPS' reach):
`FetchReturns`, `JobsResolve`, `WaitersReturn`, `ShutdownEnds`, `JobEnds`, `CancelEnds`,
both `CloseEnds`, `IdleTableIsDropped`, `ViewIsShown`, `ConnectionIsFreed`,
`WorkflowMovesOn`, `BrowserIsFreed`; and all of `SshConnections`. No module uses a RECURSIVE
operator.

## 7. Not modelled

- Data model slices: two requests share a slice only in the analysis of a track, and the
  view asks for that once at a time; the slice of every other query is its own and is the
  answer of that query in `SegmentCache`.
- Memory manager pools, levels of detail, the launch over SSH: planned (section 2).
- Bodies of jobs that only call the parts above (summary, topology, search, compute, PC
  sampling, roofline): sequential, and what they do when cancelled is `ChainedQueries`.
- Texts of SQL statements, schema tables, drawing, settings, logging, process start: no
  state that another component reads, or pure I/O.
- Vendored libraries. SQLite, libssh2, the kernel's processes are modelled as the code
  uses them, where it does.

## 8. Running it

    tlc -workers 2 -config SegmentCache_base.cfg MCSegmentCache
    tlapm SegmentCache_proofs.tla

`PROJECT.json` lists each run with its module and configuration.
