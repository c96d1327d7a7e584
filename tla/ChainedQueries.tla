--------------------------- MODULE ChainedQueries ---------------------------
(***************************************************************************)
(* A controller job that waits for database queries, and the cancellation  *)
(* that chases them: the controller Future and its dependent database      *)
(* futures, the thread of every query, and the sub-futures a table query   *)
(* fans out to.  The job is Track::FetchFromDataModel when no query has    *)
(* sub-futures, and SystemTable::Fetch when its one query fans out.  The   *)
(* statements share the connections of the database file.                  *)
(*                                                                         *)
(* Future::Cancel holds the mutex of the controller Future over its whole  *)
(* loop, and the mutex of a database future while it interrupts it.  A     *)
(* query thread reads its interrupt flag without any of them.  Queries     *)
(* that fail by themselves are in SegmentCache; here they are interrupted. *)
(* The thread of a sub-query may fail to start, the one of a query does    *)
(* not: its job would leave the future behind (track.cpp:283).             *)
(***************************************************************************)
EXTENDS Integers, FiniteSets

CONSTANTS
    Plans,  \* what the job may issue: [queries, subs], subs of each query
    Rows,   \* rows each statement yields
    Limit   \* connections for statements: hardware_concurrency() in the code

ASSUME PlansAssumption ==
    /\ Plans \subseteq [queries : Nat \ {0}, subs : Nat]
    /\ \A p \in Plans : p.subs > 0 => p.queries = 1  \* a table fetch issues one query
    /\ Rows \in Nat
    /\ Limit \in Nat \ {0}

VARIABLES
    plan,
    \* --- the controller Future and its job
    cancelled,    \* m_cancelled
    dependents,   \* m_db_futures
    pc, at,       \* at: the query being started, or waited for
    result,
    \* --- database futures: <<q, 0>> is query q, <<q, s>> its sub-future s
    thread,       \* where the thread of the future is
    interrupted,  \* m_interrupt_status
    stopped,      \* sqlite3_interrupt has reached its running statement
    conn,         \* the connection it was given, or 0
    rows,         \* rows its callback has taken
    status,       \* the value its promise gets
    subs,         \* m_sub_futures of each query
    \* --- Future::Cancel
    cpc,          \* where it is
    todo,         \* dependents its loop has not finished
    inside,       \* futures to interrupt before the next dependent
    target        \* the future whose statement it has just interrupted

job    == <<dependents, pc, at, result>>
db     == <<thread, interrupted, stopped, conn, rows, status, subs>>
cancel == <<cancelled, cpc, todo, inside, target>>
vars   == <<plan, job, db, cancel>>

Futures == UNION { {<<q, s>> : q \in 1 .. p.queries, s \in 0 .. p.subs} : p \in Plans }
Top(q)  == <<q, 0>>
None    == <<0, 0>>
Subs(q) == {<<q, s>> : s \in 1 .. plan.subs}
Fans    == plan.subs > 0

\* A future whose thread runs a statement itself.
Leaf(f) == f[2] > 0 \/ ~Fans

\* The order in which futures were added to a list.
First(F) == CHOOSE f \in F : \A g \in F : f[1] < g[1] \/ (f[1] = g[1] /\ f[2] <= g[2])

\* Mutant: the mutex of the controller Future is not kept while a query is interrupted.
ControllerLockedMutant == cpc = "loop"

\* The mutex of the controller Future, and of a database future.
ControllerLocked == cpc \in {"loop", "inside"}
Locked(f)        == cpc = "inside" /\ (f = target \/ f = First(todo))

Init ==
    /\ plan \in Plans
    /\ cancelled = FALSE /\ dependents = {}
    /\ pc = "start" /\ at = 1 /\ result = "OutOfRange"
    /\ thread = [f \in Futures |-> "none"]
    /\ interrupted = [f \in Futures |-> FALSE]
    /\ stopped = [f \in Futures |-> FALSE]
    /\ conn = [f \in Futures |-> 0]
    /\ rows = [f \in Futures |-> 0]
    /\ status = [f \in Futures |-> "Success"]
    /\ subs = [q \in {f[1] : f \in Futures} |-> {}]
    /\ cpc = "idle" /\ todo = {} /\ inside = {} /\ target = None

-----------------------------------------------------------------------------
(* The job.                                                                *)

\* Mutant: the cancel flag is not tested between two queries.
MayStartMutant(q) == q \in 1 .. plan.queries

\* The test before each query; a table fetch does not repeat it.
MayStart(q) == q \in 1 .. plan.queries /\ (Fans \/ ~cancelled)

StartQuery ==
    /\ pc = "start" /\ MayStart(at)
    /\ thread' = [thread EXCEPT ![Top(at)] = IF Fans THEN "spawn" ELSE "started"]
    /\ pc' = "chain"
    /\ UNCHANGED <<plan, dependents, at, result, interrupted, stopped, conn, rows, status, subs,
                   cancel>>

\* AddDependentFuture, after the query was started.
Chain ==
    /\ pc = "chain" /\ ~ControllerLocked
    /\ dependents' = dependents \cup {Top(at)}
    /\ at' = at + 1
    /\ pc' = "start"
    /\ UNCHANGED <<plan, result, db, cancel>>

StartWaiting ==
    /\ pc = "start" /\ ~MayStart(at)
    /\ at' = 1
    /\ pc' = "wait"
    /\ UNCHANGED <<plan, dependents, result, db, cancel>>

\* The queries that were started.
Started(q) == q \in 1 .. plan.queries /\ thread[Top(q)] # "none"

\* rocprofvis_db_future_wait joins the thread and resets the future.
Await ==
    /\ pc = "wait" /\ Started(at) /\ thread[Top(at)] = "set"
    /\ result' = IF status[Top(at)] = "Success" THEN "Success" ELSE "Failed"
    /\ interrupted' = [interrupted EXCEPT ![Top(at)] = FALSE]
    /\ pc' = "remove"
    /\ UNCHANGED <<plan, dependents, at, thread, stopped, conn, rows, status, subs, cancel>>

\* RemoveDependentFuture.
Remove ==
    /\ pc = "remove" /\ ~ControllerLocked
    /\ dependents' = dependents \ {Top(at)}
    /\ pc' = "free"
    /\ UNCHANGED <<plan, at, result, db, cancel>>

\* rocprofvis_db_future_free.
Free ==
    /\ pc = "free"
    /\ thread' = [thread EXCEPT ![Top(at)] = "freed"]
    /\ at' = at + 1
    /\ pc' = "wait"
    /\ UNCHANGED <<plan, dependents, result, interrupted, stopped, conn, rows, status, subs,
                   cancel>>

\* Mutant: the answers that were read decide.
OutcomeMutant == result

\* The result of the job: a cancellation wins over what the queries returned.
Outcome == IF cancelled THEN "Cancelled" ELSE result

\* Mutant: a cancelled job leaves its other queries behind.
NothingToAwaitMutant == ~Started(at) \/ cancelled

\* Every query that was started has been waited for.
NothingToAwait == ~Started(at)

Return ==
    /\ pc = "wait" /\ NothingToAwait
    /\ result' = Outcome
    /\ pc' = "done"
    /\ UNCHANGED <<plan, dependents, at, db, cancel>>

JobStep == StartQuery \/ Chain \/ StartWaiting \/ Await \/ Remove \/ Free \/ Return

-----------------------------------------------------------------------------
(* The thread of a statement: SqliteDatabase::Sqlite3Exec.                 *)

Running(f) == thread[f] \in {"linked", "active"}

\* Mutant: the connection goes back before the future has let it go.
HoldingMutant == {"connected", "linked", "active"}

\* From GetConnection to ReleaseConnection.
Holding == {"connected", "linked", "active", "ending", "unlinked"}

FreeConnections == {c \in 1 .. Limit : \A f \in Futures : thread[f] \in Holding => conn[f] # c}

\* GetConnection: one that is available, or a new one up to the limit.
Connect(f) ==
    /\ Leaf(f) /\ thread[f] = "started" /\ FreeConnections # {}
    /\ conn' = [conn EXCEPT ![f] = CHOOSE c \in FreeConnections : TRUE]
    /\ thread' = [thread EXCEPT ![f] = "connected"]
    /\ UNCHANGED <<plan, job, interrupted, stopped, rows, status, subs, cancel>>

\* LinkDatabase: an interruption can reach the connection from here on.
Link(f) ==
    /\ thread[f] = "connected" /\ ~Locked(f)
    /\ thread' = [thread EXCEPT ![f] = "linked"]
    /\ UNCHANGED <<plan, job, interrupted, stopped, conn, rows, status, subs, cancel>>

\* sqlite3_step returns a row and the callback takes it.
TakeRow(f) ==
    /\ Running(f) /\ ~stopped[f] /\ rows[f] < Rows
    /\ ~interrupted[f]
    /\ rows' = [rows EXCEPT ![f] = @ + 1]
    /\ thread' = [thread EXCEPT ![f] = "active"]
    /\ UNCHANGED <<plan, job, interrupted, stopped, conn, status, subs, cancel>>

\* The callback refuses a row because the future is interrupted.
RefuseRow(f) ==
    /\ Running(f) /\ ~stopped[f] /\ rows[f] < Rows
    /\ interrupted[f]
    /\ status' = [status EXCEPT ![f] = "Failed"]
    /\ thread' = [thread EXCEPT ![f] = "ending"]
    /\ UNCHANGED <<plan, job, interrupted, stopped, conn, rows, subs, cancel>>

\* sqlite3_step returns no row, at the end or because of sqlite3_interrupt: the
\* return code stays the one of the last callback, or of sqlite3_prepare_v2, which an
\* interruption before the first row may have failed.
EndRows(f) ==
    /\ Running(f) /\ (stopped[f] \/ rows[f] = Rows)
    /\ thread' = [thread EXCEPT ![f] = "ending"]
    /\ \/ UNCHANGED status
       \/ /\ thread[f] = "linked" /\ stopped[f]
          /\ status' = [status EXCEPT ![f] = "Failed"]
    /\ UNCHANGED <<plan, job, interrupted, stopped, conn, rows, subs, cancel>>

\* Mutant: a refused row leaves without a value for the promise.
AnswersMutant(f) == status[f] = "Success"

\* The threads that fulfil their promise.
Answers(f) == f \in Futures

\* LinkDatabase(nullptr).
Unlink(f) ==
    /\ thread[f] = "ending" /\ ~Locked(f)
    /\ thread' = [thread EXCEPT ![f] = "unlinked"]
    /\ UNCHANGED <<plan, job, interrupted, stopped, conn, rows, status, subs, cancel>>

\* ReleaseConnection and SetPromise.
Disconnect(f) ==
    /\ thread[f] = "unlinked" /\ Answers(f)
    /\ conn' = [conn EXCEPT ![f] = 0]
    /\ thread' = [thread EXCEPT ![f] = "set"]
    /\ UNCHANGED <<plan, job, interrupted, stopped, rows, status, subs, cancel>>

LeafStep(f) == Connect(f) \/ Link(f) \/ TakeRow(f) \/ RefuseRow(f) \/ EndRows(f)
               \/ Unlink(f) \/ Disconnect(f)

-----------------------------------------------------------------------------
(* The thread of a query that fans out: QueryManager::ExecuteQueriesAsync. *)

\* AddSubFuture; nothing asks whether the query was interrupted meanwhile.
Register(q) ==
    LET new == {f \in Subs(q) : thread[f] = "none"} IN
    /\ Fans /\ thread[Top(q)] = "spawn" /\ ~Locked(Top(q)) /\ new # {}
    /\ \A f \in Subs(q) : thread[f] # "registered"
    /\ subs' = [subs EXCEPT ![q] = @ \cup {First(new)}]
    /\ thread' = [thread EXCEPT ![First(new)] = "registered"]
    /\ UNCHANGED <<plan, job, interrupted, stopped, conn, rows, status, cancel>>

\* SetWorker, and after the last one the first wait.
Launch(q) == \E f \in Subs(q) :
    /\ thread[f] = "registered"
    /\ thread' = [thread EXCEPT ![f] = "started",
                                ![Top(q)] = IF f[2] = plan.subs THEN "reap" ELSE @]
    /\ UNCHANGED <<plan, job, interrupted, stopped, conn, rows, status, subs, cancel>>

\* The thread of a sub-query does not start: its future is deleted, and the queries
\* after it are not issued.
FailLaunch(q) == \E f \in Subs(q) :
    /\ thread[f] = "registered" /\ ~Locked(Top(q))
    /\ subs' = [subs EXCEPT ![q] = @ \ {f}]
    /\ thread' = [thread EXCEPT ![f] = "freed", ![Top(q)] = "reap"]
    /\ status' = [status EXCEPT ![Top(q)] = "Failed"]
    /\ UNCHANGED <<plan, job, interrupted, stopped, conn, rows, cancel>>

\* WaitAndDeleteSubFuture, in the order of the queries.
Reap(q) ==
    /\ thread[Top(q)] = "reap" /\ subs[q] # {} /\ ~Locked(Top(q))
    /\ LET f == First(subs[q]) IN
       /\ thread[f] = "set"
       /\ subs' = [subs EXCEPT ![q] = @ \ {f}]
       /\ thread' = [thread EXCEPT ![f] = "freed"]
       /\ status' = [status EXCEPT ![Top(q)] = IF status[f] = "Success" THEN @ ELSE "Failed"]
    /\ UNCHANGED <<plan, job, interrupted, stopped, conn, rows, cancel>>

\* QueryManager::ExecuteQuery fulfils the promise.
Deliver(q) ==
    /\ thread[Top(q)] = "reap" /\ subs[q] = {}
    /\ thread' = [thread EXCEPT ![Top(q)] = "set"]
    /\ UNCHANGED <<plan, job, interrupted, stopped, conn, rows, status, subs, cancel>>

FanStep(q) == Register(q) \/ Launch(q) \/ FailLaunch(q) \/ Reap(q) \/ Deliver(q)

-----------------------------------------------------------------------------
(* Future::Cancel, on the thread of the caller.                            *)

\* m_cancelled is set before the mutex is taken.
CancelFlag ==
    /\ cpc = "idle"
    /\ cancelled' = TRUE
    /\ cpc' = "flagged"
    /\ UNCHANGED <<plan, job, db, todo, inside, target>>

CancelLock ==
    /\ cpc = "flagged"
    /\ todo' = dependents
    /\ cpc' = "loop"
    /\ UNCHANGED <<plan, job, db, cancelled, inside, target>>

\* SetInterrupted takes the mutex of the next dependent.
CancelNext ==
    /\ cpc = "loop" /\ todo # {}
    /\ inside' = subs[First(todo)[1]] \cup {First(todo)}
    /\ cpc' = "inside"
    /\ UNCHANGED <<plan, job, db, cancelled, todo, target>>

Linked(f) == thread[f] \in {"linked", "active", "ending"}

\* InterruptQuery, sub-futures first: it stops the statement that is being stepped on
\* the connection of the future.  Before the first row it may come too early, be lost,
\* or meet sqlite3_prepare_v2 or the first sqlite3_step.
CancelStatement ==
    LET own  == First(todo)
        next == IF inside = {own} THEN own ELSE First(inside \ {own})
        on   == {f \in Futures : Linked(next) /\ conn[f] = conn[next]}
    IN  /\ cpc = "inside" /\ target = None
        /\ \E early \in SUBSET {f \in on : thread[f] = "linked"} :
              stopped' = [f \in Futures |->
                            \/ stopped[f]
                            \/ f \in early
                            \/ f \in on /\ thread[f] = "active"]
        /\ target' = next
        /\ UNCHANGED <<plan, job, thread, interrupted, conn, rows, status, subs, cancelled, cpc,
                       todo, inside>>

\* Then the flag is raised; the mutex goes with the last one, the dependent itself.
CancelRaise ==
    /\ cpc = "inside" /\ target # None
    /\ interrupted' = [interrupted EXCEPT ![target] = TRUE]
    /\ inside' = inside \ {target}
    /\ target' = None
    /\ todo' = IF target = First(todo) THEN todo \ {target} ELSE todo
    /\ cpc' = IF target = First(todo) THEN "loop" ELSE "inside"
    /\ UNCHANGED <<plan, job, thread, stopped, conn, rows, status, subs, cancelled>>

CancelEnd ==
    /\ cpc = "loop" /\ todo = {}
    /\ cpc' = "done"
    /\ UNCHANGED <<plan, job, db, cancelled, todo, inside, target>>

CancelStep == CancelLock \/ CancelNext \/ CancelStatement \/ CancelRaise \/ CancelEnd

Next ==
    \/ JobStep \/ CancelFlag \/ CancelStep
    \/ \E f \in Futures : LeafStep(f)
    \/ \E q \in 1 .. plan.queries : FanStep(q)

Spec == Init /\ [][Next]_vars

\* Threads that can run do, and a Cancel that has begun goes on.
FairSpec ==
    /\ Spec
    /\ WF_vars(JobStep) /\ WF_vars(CancelStep)
    /\ \A f \in Futures : WF_vars(LeafStep(f))
    /\ WF_vars(\E q \in 1 .. plan.queries : FanStep(q))

-----------------------------------------------------------------------------
TypeOK ==
    /\ plan \in Plans
    /\ cancelled \in BOOLEAN
    /\ dependents \subseteq Futures
    /\ pc \in {"start", "chain", "wait", "remove", "free", "done"}
    /\ at \in Nat \ {0}
    /\ result \in {"OutOfRange", "Success", "Failed", "Cancelled"}
    /\ thread \in [Futures -> {"none", "registered", "started", "connected", "linked",
                               "active", "ending", "unlinked", "spawn", "reap", "set", "freed"}]
    /\ interrupted \in [Futures -> BOOLEAN] /\ stopped \in [Futures -> BOOLEAN]
    /\ conn \in [Futures -> 0 .. Limit]
    /\ rows \in [Futures -> 0 .. Rows]
    /\ status \in [Futures -> {"Success", "Failed"}]
    /\ subs \in [{f[1] : f \in Futures} -> SUBSET Futures]
    /\ cpc \in {"idle", "flagged", "loop", "inside", "done"}
    /\ todo \subseteq Futures /\ inside \subseteq Futures
    /\ target \in Futures \cup {None}

\* Future::Cancel never calls SetInterrupted on a database future that was freed:
\* not on a dependent, not on a sub-future it has entered.
InterruptsLiveFutures ==
    \A f \in todo \cup inside : thread[f] # "freed"

\* An interruption stops the statement of the future it is about and no other, although
\* connections go from one to the next (SqliteDatabase::ReleaseConnection, LinkDatabase).
StopsOnlyItsOwn ==
    \A f \in Futures : Running(f) /\ stopped[f] => interrupted[f] \/ target = f

\* A job that reports Success has every row of every statement, although an
\* interrupted statement ends with Success and the rows it had.
SuccessIsComplete ==
    pc = "done" /\ result = "Success" =>
        \A q \in 1 .. plan.queries : \A f \in {Top(q)} \cup Subs(q) :
            Leaf(f) => rows[f] = Rows

\* Queries that go on as if nobody had cancelled the job.
Escaped == { q \in 1 .. plan.queries :
               /\ thread[Top(q)] \notin {"none", "set", "freed"}
               /\ ~interrupted[Top(q)] }

\* A cancellation misses at most the query that was started but not yet chained.
AtMostOneEscapes == cpc = "done" => Cardinality(Escaped) <= 1

\* A job ends with no dependent left and every future it allocated freed.
NothingLeft ==
    pc = "done" =>
        /\ dependents = {}
        /\ \A f \in Futures : thread[f] \in {"none", "freed"}

\* Whatever is interrupted and when, the job ends.
JobEnds == <>(pc = "done")

\* An interrupted query has every one of its statements interrupted.
InterruptReachesSubs ==
    cpc = "done" =>
        \A q \in 1 .. plan.queries : \A f \in Subs(q) :
            interrupted[Top(q)] /\ Running(f) => interrupted[f]
=============================================================================
