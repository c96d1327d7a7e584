----------------------------- MODULE JobSystem -----------------------------
(***************************************************************************)
(* The pool of worker threads of the controller (JobSystem, Job) and the   *)
(* wait, cancel and free operations of the controller future that owns a   *)
(* job.  Each future is used by one caller at a time: the UI thread, then  *)
(* possibly the thread that cleans up after a closed tab.                  *)
(*                                                                         *)
(* A step is what a thread does in one critical section.  A thread asleep  *)
(* on a condition variable runs again only after a notification.           *)
(***************************************************************************)
EXTENDS Integers, Sequences

Seqs == INSTANCE SequencesExt

CONSTANTS
    Jobs,     \* jobs; a job names the controller future that owns it
    Workers,  \* threads of the pool (hardware_concurrency)
    Results,  \* what a JobFunction can return
    NoJob     \* a worker between two jobs

ASSUME ConstantsAssumption ==
    /\ NoJob \notin Jobs
    /\ "Cancelled" \in Results
    /\ Results \cap {"none", "Pending", "queued", "running"} = {}

VARIABLES
    queue,     \* m_jobs
    shutdown,  \* where ~JobSystem is; m_terminate holds unless "no"
    worker,    \* what each worker thread does
    job,       \* the job a worker took from the queue
    result,    \* m_result of each job; "none" before it exists
    caller     \* what the owner of the future does

vars == <<queue, shutdown, worker, job, result, caller>>

Terminating == shutdown # "no"

Sleeping == { w \in Workers : worker[w] = "asleep" }

Queued(j) == \E i \in DOMAIN queue : queue[i] = j

Init ==
    /\ queue = <<>>
    /\ shutdown = "no"
    /\ worker = [w \in Workers |-> "ready"]
    /\ job = [w \in Workers |-> NoJob]
    /\ result = [j \in Jobs |-> "none"]
    /\ caller = [j \in Jobs |-> "none"]

-----------------------------------------------------------------------------
(* The owner of the future.                                                *)

\* IssueJob up to the release of the queue mutex.
Issue(j) ==
    /\ caller[j] = "none" /\ ~Terminating
    /\ result' = [result EXCEPT ![j] = "Pending"]
    /\ queue' = Append(queue, j)
    /\ caller' = [caller EXCEPT ![j] = "issuing"]
    /\ UNCHANGED <<shutdown, worker, job>>

\* Mutant: the workers are not notified.
WokenByIssueMutant(S) == {{}}

\* notify_one: one thread asleep wakes up, if there is any.
WokenByIssue(S) == IF S = {} THEN {{}} ELSE { {w} : w \in S }

\* The end of IssueJob and Future::Set.
EndIssue(j) ==
    /\ caller[j] = "issuing"
    /\ \E woken \in WokenByIssue(Sleeping) :
        worker' = [w \in Workers |-> IF w \in woken THEN "ready" ELSE worker[w]]
    /\ caller' = [caller EXCEPT ![j] = "owner"]
    /\ UNCHANGED <<queue, shutdown, job, result>>

\* future_wait with a timeout of 0 succeeds: the result is read, the future freed.
Poll(j) ==
    /\ caller[j] = "owner" /\ result[j] # "Pending"
    /\ caller' = [caller EXCEPT ![j] = "freed"]
    /\ UNCHANGED <<queue, shutdown, worker, job, result>>

\* future_wait without a timeout: the job is pending, the caller goes to sleep.
Block(j) ==
    /\ caller[j] = "owner" /\ result[j] = "Pending"
    /\ caller' = [caller EXCEPT ![j] = "asleep"]
    /\ UNCHANGED <<queue, shutdown, worker, job, result>>

\* The caller was notified and the predicate holds: the future is freed.
Return(j) ==
    /\ caller[j] = "awake" /\ result[j] # "Pending"
    /\ caller' = [caller EXCEPT ![j] = "freed"]
    /\ UNCHANGED <<queue, shutdown, worker, job, result>>

\* notify_all of the job's condition variable.
Notified(S) == [j \in Jobs |-> IF j \in S /\ caller[j] = "asleep" THEN "awake" ELSE caller[j]]

\* Mutant: a job that a worker has taken is resolved as well.
CancellableMutant(j) == result[j] = "Pending"

\* CancelJob finds the job in m_jobs; otherwise it returns kRocProfVisResultNotSupported.
Cancellable(j) == Queued(j)

\* std::find and erase
Erased(j) ==
    IF Queued(j) THEN Seqs!RemoveAt(queue, CHOOSE i \in DOMAIN queue : queue[i] = j)
    ELSE queue

\* Future::Cancel on a job that waits: Job::Cancel, and the job leaves the queue.
Cancel(j) ==
    /\ caller[j] = "owner" /\ Cancellable(j)
    /\ queue' = Erased(j)
    /\ result' = [result EXCEPT ![j] = "Cancelled"]
    /\ caller' = Notified({j})
    /\ UNCHANGED <<shutdown, worker, job>>

-----------------------------------------------------------------------------
(* A worker thread.                                                        *)

\* Mutant: the job is not erased from the queue.
DequeuedMutant(q) == q

\* m_jobs.erase(m_jobs.begin())
Dequeued(q) == Tail(q)

Take(w) ==
    /\ worker[w] = "ready" /\ queue # <<>>
    /\ job' = [job EXCEPT ![w] = Head(queue)]
    /\ queue' = Dequeued(queue)
    /\ worker' = [worker EXCEPT ![w] = "running"]
    /\ UNCHANGED <<shutdown, result, caller>>

Sleep(w) ==
    /\ worker[w] = "ready" /\ queue = <<>> /\ ~Terminating
    /\ worker' = [worker EXCEPT ![w] = "asleep"]
    /\ UNCHANGED <<queue, shutdown, job, result, caller>>

Exit(w) ==
    /\ worker[w] = "ready" /\ queue = <<>> /\ Terminating
    /\ worker' = [worker EXCEPT ![w] = "exited"]
    /\ UNCHANGED <<queue, shutdown, job, result, caller>>

\* The JobFunction returns and Job::Execute stores what it returned.
Finish(w) ==
    /\ worker[w] = "running"
    /\ \E r \in Results : result' = [result EXCEPT ![job[w]] = r]
    /\ worker' = [worker EXCEPT ![w] = "notifying"]
    /\ UNCHANGED <<queue, shutdown, job, caller>>

\* Job::Execute notifies after it has released the mutex of the job.
Notify(w) ==
    /\ worker[w] = "notifying"
    /\ caller' = Notified({job[w]})
    /\ worker' = [worker EXCEPT ![w] = "ready"]
    /\ job' = [job EXCEPT ![w] = NoJob]
    /\ UNCHANGED <<queue, shutdown, result>>

-----------------------------------------------------------------------------
(* ~JobSystem, when the program exits.                                     *)

\* Mutant: the queue is cleared without resolving the jobs.
DroppedMutant == {}

\* The jobs that are cancelled because they have not started.
Dropped == { j \in Jobs : Queued(j) }

Drain ==
    /\ shutdown = "no"
    /\ result' = [j \in Jobs |-> IF j \in Dropped THEN "Cancelled" ELSE result[j]]
    /\ caller' = Notified(Dropped)
    /\ queue' = <<>>
    /\ shutdown' = "drained"
    /\ UNCHANGED <<worker, job>>

\* Mutant: only one worker is told to stop.
WokenByShutdownMutant(S) == IF S = {} THEN {} ELSE { CHOOSE w \in S : TRUE }

\* notify_all
WokenByShutdown(S) == S

WakeWorkers ==
    /\ shutdown = "drained"
    /\ worker' = [w \in Workers |-> IF w \in WokenByShutdown(Sleeping) THEN "ready"
                                                                      ELSE worker[w]]
    /\ shutdown' = "joining"
    /\ UNCHANGED <<queue, job, result, caller>>

Join ==
    /\ shutdown = "joining" /\ \A w \in Workers : worker[w] = "exited"
    /\ shutdown' = "joined"
    /\ UNCHANGED <<queue, worker, job, result, caller>>

-----------------------------------------------------------------------------
WorkerStep(w) == Take(w) \/ Sleep(w) \/ Exit(w) \/ Finish(w) \/ Notify(w)

CallerStep(j) ==
    Issue(j) \/ EndIssue(j) \/ Poll(j) \/ Block(j) \/ Return(j) \/ Cancel(j)

Next ==
    \/ \E j \in Jobs : CallerStep(j)
    \/ \E w \in Workers : WorkerStep(w)
    \/ Drain \/ WakeWorkers \/ Join

Spec == Init /\ [][Next]_vars

(***************************************************************************)
(* Fairness: a thread that can run does, in particular a JobFunction       *)
(* returns.  Nothing is assumed of when a caller issues, polls, waits or   *)
(* cancels, nor that the program exits.                                    *)
(***************************************************************************)
FairSpec ==
    /\ Spec
    /\ \A w \in Workers : WF_vars(WorkerStep(w))
    /\ \A j \in Jobs : WF_vars(EndIssue(j)) /\ WF_vars(Return(j))
    /\ WF_vars(WakeWorkers) /\ WF_vars(Join)

-----------------------------------------------------------------------------
(* Properties.                                                             *)

\* Every variable has its type.
TypeOK ==
    /\ queue \in Seq(Jobs)
    /\ shutdown \in {"no", "drained", "joining", "joined"}
    /\ worker \in [Workers -> {"ready", "asleep", "running", "notifying", "exited"}]
    /\ job \in [Workers -> Jobs \cup {NoJob}]
    /\ result \in [Jobs -> Results \cup {"none", "Pending"}]
    /\ caller \in [Jobs -> {"none", "issuing", "owner", "asleep", "awake", "freed"}]

Runs(w, j) == worker[w] = "running" /\ job[w] = j

\* A pending job is held by the queue or by one worker, never by both or by two,
\* and a resolved one by none: it cannot be run a second time, or after it was
\* cancelled (job_system.cpp:84-103, 168-187).
OneHolder ==
    /\ \A j \in Jobs :
        (result[j] = "Pending") <=> (Queued(j) \/ \E w \in Workers : Runs(w, j))
    /\ \A i, k \in DOMAIN queue : queue[i] = queue[k] => i = k
    /\ \A w \in Workers : worker[w] = "running" => job[w] \in Jobs /\ ~Queued(job[w])
    /\ \A v, w \in Workers : Runs(v, job[w]) /\ Runs(w, job[w]) => v = w

\* The future a JobFunction was given is not freed while the function runs
\* (DataProvider frees it as soon as a wait succeeds).
RunsOnLiveFuture ==
    \A w \in Workers : worker[w] = "running" => caller[job[w]] # "freed"

\* A job that was issued resolves, whatever its owner does afterwards.
JobsResolve == \A j \in Jobs : result[j] = "Pending" ~> result[j] # "Pending"

\* A caller blocked in future_wait returns, also when its job is dropped at exit.
WaitersReturn == \A j \in Jobs : caller[j] = "asleep" ~> caller[j] = "freed"

\* ~JobSystem returns: every worker notices m_terminate.
ShutdownEnds == shutdown = "drained" ~> shutdown = "joined"

-----------------------------------------------------------------------------
(* Refinement: the result of a job is the promise of JobPromise.           *)

Promised ==
    [j \in Jobs |->
        IF result[j] # "Pending" THEN result[j]
        ELSE IF Queued(j) THEN "queued" ELSE "running"]

Promise == INSTANCE JobPromise WITH promise <- Promised

ImplementsPromise == Promise!Spec
=============================================================================
