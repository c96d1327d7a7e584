-------------------------- MODULE ProfilerSession --------------------------
(***************************************************************************)
(* One run of the profiler on this machine: ProfilerProcessController, the *)
(* POSIX LocalProfilerExecutor it owns, the monitor job that polls it, and *)
(* the thread of the View that launches, cancels and frees the session.    *)
(*                                                                         *)
(* Both threads run LocalProfilerExecutor::Cancel and IsRunning.  Nothing  *)
(* guards m_process_id, m_is_running and m_exit_code, so every use of      *)
(* m_process_id is a step of its own and reads it anew.  The process and   *)
(* the calls kill and waitpid are external.  The Windows and the SSH       *)
(* executor, the captured output and the shutdown of the program are not   *)
(* modelled.                                                               *)
(***************************************************************************)
EXTENDS Integers

CONSTANT Codes     \* exit codes the profiler may end with by itself

ASSUME CodesAssumption == Codes \subseteq Nat /\ 0 \in Codes

VARIABLES
    state,         \* m_state
    exitCode,      \* m_exit_code of the controller
    pid,           \* m_process_id: "child", or "none" for -1
    running,       \* m_is_running
    code,          \* m_exit_code of the executor
    child, status, \* the process and what it ended with
    signals,       \* the signals it was sent
    job,           \* the monitor job
    active,        \* m_job_active
    cancelled,     \* m_cancelled of the bound future
    session,       \* the handles of the View
    pc, in,        \* where each thread is, and on behalf of what
    got            \* what its last waitpid returned

executor   == <<pid, running, code>>
process    == <<child, status, signals>>
controller == <<state, exitCode>>
future     == <<job, active, cancelled>>
threads    == <<pc, in, got>>
vars       == <<controller, executor, process, future, session, threads>>

Threads == {"ui", "monitor"}

Init ==
    /\ state = "Idle" /\ exitCode = -1
    /\ pid = "none" /\ running = FALSE /\ code = 0
    /\ child = "none" /\ status = 0 /\ signals = {}
    /\ job = "none" /\ active = FALSE /\ cancelled = FALSE
    /\ session = "open"
    /\ pc = [t \in Threads |-> IF t = "ui" THEN "idle" ELSE "off"]
    /\ in = [t \in Threads |-> "none"]
    /\ got = [t \in Threads |-> "none"]

Goto(t, label) == pc' = [pc EXCEPT ![t] = label]
Call(t, label, why) == Goto(t, label) /\ in' = [in EXCEPT ![t] = why]

-----------------------------------------------------------------------------
(* The process.                                                            *)

\* It ends by itself, by SIGTERM if it does not handle it, or by SIGKILL.
ChildExits ==
    /\ child = "alive"
    /\ \/ "KILL" \notin signals /\ status' \in Codes
       \/ "TERM" \in signals /\ status' = 128 + 15
       \/ "KILL" \in signals /\ status' = 128 + 9
    /\ child' = "zombie"
    /\ UNCHANGED <<controller, executor, signals, future, session, threads>>

\* waitpid(m_process_id): with -1 there is no other child to wait for.
Waitpid(t) ==
    /\ got' = [got EXCEPT ![t] = IF child = "alive" THEN "0"
                                 ELSE IF child = "zombie" THEN "child" ELSE "none"]
    /\ child' = IF child = "zombie" THEN "reaped" ELSE child

-----------------------------------------------------------------------------
(* LocalProfilerExecutor::Cancel, within ProfilerProcessController::Cancel. *)

AfterCancel(t) ==
    CASE in[t] = "monitor"  -> "drain"
      [] in[t] = "release"  -> "join"
      [] in[t] = "executor" -> "close"
      [] OTHER              -> "bound"

CancelState(t) ==
    /\ pc[t] = "cancel"
    /\ Goto(t, IF state = "Running" THEN "ended?" ELSE AfterCancel(t))
    /\ UNCHANGED <<controller, executor, process, future, session, in, got>>

CancelPid(t) ==
    /\ pc[t] = "ended?"
    /\ Goto(t, IF pid = "child" THEN "term" ELSE AfterCancel(t))
    /\ UNCHANGED <<controller, executor, process, future, session, in, got>>

\* kill fails when the pid is that of no process any more.
Terminate(t) ==
    /\ pc[t] = "term"
    /\ IF pid = "child" /\ child = "reaped"
       THEN /\ pid' = "none" /\ running' = FALSE
            /\ Goto(t, AfterCancel(t))
            /\ UNCHANGED signals
       ELSE /\ signals' = IF pid = "child" THEN signals \cup {"TERM"} ELSE signals
            /\ Goto(t, "grace")
            /\ UNCHANGED <<pid, running>>
    /\ UNCHANGED <<controller, code, child, status, future, session, in, got>>

\* Mutant: a process that ignores SIGTERM is left to it.
EscalatesMutant(t) == FALSE

\* SIGKILL, when the grace period has not ended the process.
Escalates(t) == got'[t] = "0"

GraceEnds(t) ==
    /\ pc[t] = "grace"
    /\ Waitpid(t)
    /\ Goto(t, IF got'[t] # "0" THEN "match" ELSE IF Escalates(t) THEN "kill" ELSE "reap")
    /\ UNCHANGED <<controller, executor, status, signals, future, session, in>>

Kill(t) ==
    /\ pc[t] = "kill"
    /\ signals' = IF pid = "child" THEN signals \cup {"KILL"} ELSE signals
    /\ Goto(t, "reap")
    /\ UNCHANGED <<controller, executor, child, status, future, session, in, got>>

\* Mutant: Cancel does not wait for the process it has killed.
ReapsMutant(t) == TRUE

\* waitpid without WNOHANG returns when the process has ended.
Reaps(t) == child # "alive"

Reap(t) ==
    /\ pc[t] = "reap" /\ Reaps(t)
    /\ Waitpid(t)
    /\ Goto(t, "match")
    /\ UNCHANGED <<controller, executor, status, signals, future, session, in>>

\* result == m_process_id: both are -1 when the other thread has reaped and
\* forgotten the process, and the untouched status then reads as exit code 0.
Matches(t)   == got[t] = pid
MatchedCode  == [t \in Threads |-> IF got[t] = "child" THEN status ELSE 0]

CancelMatch(t) ==
    /\ pc[t] = "match"
    /\ code' = IF Matches(t) THEN MatchedCode[t] ELSE 1
    /\ Goto(t, "forget")
    /\ UNCHANGED <<controller, pid, running, process, future, session, in, got>>

CancelForget(t) ==
    /\ pc[t] = "forget"
    /\ pid' = "none" /\ running' = FALSE
    /\ Goto(t, IF in[t] = "executor" THEN "close" ELSE "cancelled")
    /\ UNCHANGED <<controller, code, process, future, session, in, got>>

SetCancelled(t) ==
    /\ pc[t] = "cancelled"
    /\ state' = "Cancelled"
    /\ Goto(t, AfterCancel(t))
    /\ UNCHANGED <<exitCode, executor, process, future, session, in, got>>

CancelStep(t) ==
    \/ CancelState(t) \/ CancelPid(t) \/ Terminate(t) \/ GraceEnds(t) \/ Kill(t) \/ Reap(t)
    \/ CancelMatch(t) \/ CancelForget(t) \/ SetCancelled(t)

-----------------------------------------------------------------------------
(* LocalProfilerExecutor::IsRunning.                                       *)

Yes(t) == CASE in[t] = "update" -> "loop" [] in[t] = "drain" -> "drain" [] OTHER -> "ended?"
No(t)  == CASE in[t] = "update" -> "exit" [] in[t] = "drain" -> "resolve" [] OTHER -> "close"

IsRunning(t) ==
    /\ pc[t] = "running?"
    /\ Goto(t, IF running /\ pid = "child" THEN "poll" ELSE No(t))
    /\ UNCHANGED <<controller, executor, process, future, session, in, got>>

Poll(t) ==
    /\ pc[t] = "poll"
    /\ Waitpid(t)
    /\ Goto(t, "same?")
    /\ UNCHANGED <<controller, executor, status, signals, future, session, in>>

PollMatch(t) ==
    /\ pc[t] = "same?"
    /\ code' = IF Matches(t) THEN MatchedCode[t] ELSE code
    /\ Goto(t, IF Matches(t) THEN "reaped" ELSE Yes(t))
    /\ UNCHANGED <<controller, pid, running, process, future, session, in, got>>

PollForget(t) ==
    /\ pc[t] = "reaped"
    /\ pid' = "none" /\ running' = FALSE
    /\ Goto(t, No(t))
    /\ UNCHANGED <<controller, code, process, future, session, in, got>>

PollStep(t) == IsRunning(t) \/ Poll(t) \/ PollMatch(t) \/ PollForget(t)

-----------------------------------------------------------------------------
(* The monitor job: ProfilerProcessController::ExecuteJob.                 *)

StartJob ==
    /\ job = "queued"
    /\ job' = "running"
    /\ Goto("monitor", "loop")
    /\ UNCHANGED <<controller, executor, process, active, cancelled, session, in, got>>

Loop ==
    /\ pc["monitor"] = "loop"
    /\ IF state # "Running" THEN Goto("monitor", "drain") /\ UNCHANGED in
       ELSE IF cancelled THEN Call("monitor", "cancel", "monitor")
       ELSE Goto("monitor", "update") /\ UNCHANGED in
    /\ UNCHANGED <<controller, executor, process, future, session, got>>

UpdateState ==
    /\ pc["monitor"] = "update"
    /\ IF state = "Running" THEN Call("monitor", "running?", "update")
       ELSE Goto("monitor", "loop") /\ UNCHANGED in
    /\ UNCHANGED <<controller, executor, process, future, session, got>>

ReadExitCode ==
    /\ pc["monitor"] = "exit"
    /\ exitCode' = code
    /\ Goto("monitor", "settle")
    /\ UNCHANGED <<state, executor, process, future, session, in, got>>

SetState ==
    /\ pc["monitor"] = "settle"
    /\ state' = IF exitCode = 0 THEN "Completed" ELSE "Failed"
    /\ Goto("monitor", "loop")
    /\ UNCHANGED <<exitCode, executor, process, future, session, in, got>>

Drain ==
    /\ pc["monitor"] = "drain"
    /\ Call("monitor", "running?", "drain")
    /\ UNCHANGED <<controller, executor, process, future, session, got>>

Resolve ==
    /\ pc["monitor"] = "resolve"
    /\ job' = "resolved"
    /\ Goto("monitor", "off")
    /\ UNCHANGED <<controller, executor, process, active, cancelled, session, in, got>>

MonitorStep ==
    \/ Loop \/ UpdateState \/ ReadExitCode \/ SetState \/ Drain \/ Resolve
    \/ CancelStep("monitor") \/ PollStep("monitor")

-----------------------------------------------------------------------------
(* The thread of the View.                                                 *)

Free == pc["ui"] = "idle"

\* LaunchAsync: a tool, directory or process that cannot be had ends the session.
LaunchFails ==
    /\ Free /\ session = "open" /\ state = "Idle"
    /\ state' = "Failed"
    /\ UNCHANGED <<exitCode, executor, process, future, session, threads>>

\* fork, Running, BeginMonitorJob, IssueJob.
Launch ==
    /\ Free /\ session = "open" /\ state = "Idle"
    /\ child' = "alive" /\ pid' = "child" /\ running' = TRUE
    /\ state' = "Running"
    /\ job' = "queued" /\ active' = TRUE
    /\ UNCHANGED <<exitCode, code, status, signals, cancelled, session, threads>>

\* rocprofvis_profiler_cancel, from the button.
PressCancel ==
    /\ Free /\ session = "open"
    /\ Call("ui", "cancel", "button")
    /\ UNCHANGED <<controller, executor, process, future, session, got>>

\* Then Future::Cancel: a job that is still queued resolves without being run.
CancelFuture ==
    /\ pc["ui"] = "bound"
    /\ job' = IF job = "queued" THEN "resolved" ELSE job
    /\ cancelled' = (cancelled \/ job # "none")
    /\ Goto("ui", "idle")
    /\ UNCHANGED <<controller, executor, process, active, session, in, got>>

\* FreeProfilerObjects, while the job runs: AddTeardownOp cancels at once.
Close ==
    /\ Free /\ session = "open" /\ job \in {"queued", "running"}
    /\ session' = "closing"
    /\ Call("ui", "cancel", "teardown")
    /\ UNCHANGED <<controller, executor, process, future, got>>

\* Mutant: the session is freed before its future.
ActiveAfterFreeMutant == active

\* rocprofvis_controller_future_free destroys the job: EndMonitorJob.
ActiveAfterFree == FALSE

\* Both are freed once the future has resolved, by Close or by AppMonitor::Update;
\* the destructor of the controller cancels first.
Release ==
    /\ Free /\ session \in {"open", "closing"} /\ job \in {"none", "resolved"}
    /\ session' = "released"
    /\ active' = ActiveAfterFree
    /\ Call("ui", "cancel", "release")
    /\ UNCHANGED <<controller, executor, process, job, cancelled, got>>

\* The destructor waits until no monitor job is left, then destroys the executor.
Join ==
    /\ pc["ui"] = "join" /\ ~active
    /\ Call("ui", "running?", "executor")
    /\ UNCHANGED <<controller, executor, process, future, session, got>>

CloseHandles ==
    /\ pc["ui"] = "close"
    /\ session' = "freed"
    /\ Goto("ui", "off")
    /\ UNCHANGED <<controller, executor, process, future, in, got>>

UIStep == CancelStep("ui") \/ PollStep("ui") \/ CancelFuture \/ Join \/ CloseHandles
Reclaim == session = "closing" /\ Release

Next ==
    \/ LaunchFails \/ Launch \/ PressCancel \/ Close \/ Release \/ UIStep
    \/ StartJob \/ MonitorStep \/ ChildExits

Spec == Init /\ [][Next]_vars

\* Calls that were begun go on, AppMonitor is polled every frame, a worker takes
\* the job, and a process that was sent SIGKILL ends; the View need not do more.
FairSpec ==
    /\ Spec
    /\ WF_vars(UIStep) /\ WF_vars(Reclaim) /\ WF_vars(StartJob) /\ WF_vars(MonitorStep)
    /\ WF_vars("KILL" \in signals /\ ChildExits)

-----------------------------------------------------------------------------
Labels == {"idle", "off", "cancel", "ended?", "term", "grace", "kill", "reap", "match", "forget",
           "cancelled", "bound", "join", "close", "running?", "poll", "same?", "reaped",
           "loop", "update", "exit", "settle", "drain", "resolve"}

TypeOK ==
    /\ state \in {"Idle", "Running", "Completed", "Failed", "Cancelled"}
    /\ exitCode \in Codes \cup {-1, 0, 1, 128 + 15, 128 + 9}
    /\ pid \in {"child", "none"} /\ running \in BOOLEAN
    /\ code \in Codes \cup {0, 1, 128 + 15, 128 + 9}
    /\ child \in {"none", "alive", "zombie", "reaped"}
    /\ status \in Codes \cup {0, 128 + 15, 128 + 9}
    /\ signals \subseteq {"TERM", "KILL"}
    /\ job \in {"none", "queued", "running", "resolved"}
    /\ active \in BOOLEAN /\ cancelled \in BOOLEAN
    /\ session \in {"open", "closing", "released", "freed"}
    /\ pc \in [Threads -> Labels]
    /\ in \in [Threads -> {"none", "button", "teardown", "release", "executor", "monitor",
                           "update", "drain"}]
    /\ got \in [Threads -> {"0", "child", "none"}]

Over == child \in {"none", "reaped"}

\* The state the View shows as final is not published while the process is still
\* there: the trace it then opens is complete.
FinalMeansOver == state \in {"Completed", "Failed", "Cancelled"} => Over

\* The future of a session does not resolve while its process is still there.
ResolvedMeansOver == job = "resolved" => Over

\* A process that is cancelled while it runs is ended, and the caller returns.
CancelEnds == pc["ui"] = "ended?" ~> Over /\ pc["ui"] \in {"idle", "off"}

\* Closing a running session ends with everything freed, even when the profiler
\* ignores SIGTERM.
CloseEnds == session = "closing" ~> session = "freed"
=============================================================================
