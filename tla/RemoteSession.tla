--------------------------- MODULE RemoteSession ---------------------------
(***************************************************************************)
(* A remote trace over SSH: the workflow of a RemoteTraceOrchestrator, the *)
(* SshSession it owns, the AppMonitor that polls and reaps operations, the *)
(* SshBridge through which worker and view talk, and the jobs of SshClient *)
(* that connect, authenticate, execute, download and browse.               *)
(*                                                                         *)
(* The view repeats a frame: the monitor reaps and polls, events are       *)
(* dispatched, dialogs are drawn.  Workers run jobs in between.  This is   *)
(* one session until its worker is done.  Others share the monitor's map   *)
(* with it, which keeps operations apart, and the connections of           *)
(* SshClient, which are not always told apart: SshConnections has them.    *)
(* What the network answers is a choice; the arguments of an operation are *)
(* accepted.  "Working" stands for the statuses nobody tells apart.        *)
(***************************************************************************)
EXTENDS Integers

CONSTANTS
    MaxOps,     \* bound: operations of the session
    MaxAsks,    \* bound: questions the server has for the user
    None

Ops   == 1 .. MaxOps
Kinds == {"Connect", "Authenticate", "Execute", "Download", "Browse"}

\* None is no operation, question, kind or status.
ASSUME RemoteAssumption ==
    /\ MaxOps \in Nat /\ MaxOps >= 4 /\ MaxAsks \in Nat
    /\ None \notin Int /\ None \notin {"HostKey", "Prompt"} \X Int
    /\ None \notin Kinds /\ None \notin {"Completed", "Failed"}

VARIABLES
    frame,      \* of the view's thread: "poll", "read", "dispatch", "render"
    \* --- RemoteTraceOrchestrator, and the browser or dialog that owns it
    session,    \* "none", "live", "gone"
    task, wants,  \* m_task; the parts of a trace workflow m_uri asks for
    phase, running, authenticated,
    event,      \* the terminal status the monitor has queued, or None
    busy,       \* m_browser_busy
    view,       \* m_last_directory_state: the operation it lists, 0 if empty
    \* --- SshSession
    active,     \* m_active_operation, or None
    built,      \* m_auth_request_built: the question it was set for, or 0
    shown,      \* the request with its m_updated set, or None
    listing,    \* m_directory with its m_updated set: like view, or None
    \* --- AppMonitor
    count,      \* operations begun
    kind,       \* of each of them, or None
    mon,        \* "none", "polled", "ended" by its status, "cancelling", "reaped"
    heir,       \* the operation whose teardown frees the connection, or None
    \* --- SshBridge, SshConnection and the job of each operation
    status, pending, answer, asked, cancelled, entries,
    connected, freed, job,
    \* --- history
    stale,      \* the status of an operation was taken for that of the next one
    torn        \* a listing was completed between the two reads of Poll

owner   == <<session, task, wants, phase, running, authenticated>>
browser == <<busy, view>>
ssh     == <<active, built, shown, listing>>
monitor == <<count, kind, mon, heir>>
bridge  == <<status, pending, answer, asked, cancelled, entries>>
line    == <<connected, freed>>
history == <<stale, torn>>
vars    == <<frame, event, owner, browser, ssh, monitor, bridge, line, job, history>>

Init ==
    /\ frame = "poll" /\ event = None
    /\ session = "none" /\ task = "Browsing" /\ wants = {}
    /\ phase = "Idle" /\ running = FALSE /\ authenticated = FALSE
    /\ busy = FALSE /\ view = 0
    /\ active = None /\ built = 0 /\ shown = None /\ listing = None
    /\ count = 0 /\ kind = [o \in Ops |-> None] /\ mon = [o \in Ops |-> "none"] /\ heir = None
    /\ status = "Idle" /\ pending = None /\ answer = None /\ asked = 0
    /\ cancelled = FALSE /\ entries = 0
    /\ connected = FALSE /\ freed = FALSE /\ job = [o \in Ops |-> "none"]
    /\ stale = FALSE /\ torn = FALSE

-----------------------------------------------------------------------------
(* The job of an operation.  The steps are cut where another thread can    *)
(* see or change the bridge.                                               *)

Resolved(o) == job[o] = "resolved"

\* The worker may still use the connection: SetStatus is its last call on it.
Working(o) == job[o] \in {"running", "asking", "methods", "rounds", "rejected",
                          "closing", "exited", "succeeding", "failing"}

Step(o, pc, st) ==
    /\ job' = [job EXCEPT ![o] = pc] /\ status' = st
    /\ UNCHANGED <<frame, event, owner, browser, ssh, monitor, freed, history>>

\* A step that changes nothing but the status.
Goes(o, pc, st) ==
    /\ Step(o, pc, st)
    /\ UNCHANGED <<pending, answer, asked, cancelled, entries, connected>>

\* SaveError; IsCancelRequested ends like this too.
Error(o) == Goes(o, "failing", "Failed")

CancelRequested(o) == cancelled /\ Error(o)

\* SaveError and Disconnect, which cancels the bridge: a Reconnect ends like this as well.
ErrorDisconnects(o) ==
    /\ Step(o, "failing", "Failed") /\ connected' = FALSE /\ cancelled' = TRUE
    /\ UNCHANGED <<pending, answer, asked, entries>>

\* Mutant: a job does not announce itself.
BegunMutant == status

\* The status every operation sets first.
Begun == "Working"

\* A transfer or a listing clears what the last one left on the bridge.
Begin(o) ==
    /\ job[o] = "queued" /\ Step(o, "running", Begun)
    /\ entries' = IF kind[o] \in {"Download", "Browse"} THEN 0 ELSE entries
    /\ UNCHANGED <<pending, answer, asked, cancelled, connected>>

Connect(o) ==
    /\ kind[o] = "Connect" /\ job[o] = "running"
    /\ \/ CancelRequested(o)
       \/ ~cancelled /\ (Error(o) \/ ErrorDisconnects(o))
       \/ /\ ~cancelled /\ Step(o, "succeeding", status) /\ connected' = TRUE
          /\ UNCHANGED <<pending, answer, asked, cancelled, entries>>

\* AskHostKey and AskPrompts: the worker waits.
Ask(o, what) ==
    /\ asked < MaxAsks /\ Step(o, "asking", "AuthRequest")
    /\ asked' = asked + 1 /\ pending' = <<what, asked'>> /\ answer' = None
    /\ UNCHANGED <<cancelled, entries, connected>>

HostKeyCheck(o) ==
    /\ kind[o] = "Authenticate" /\ job[o] = "running"
    /\ Goes(o, "methods", status) \/ Ask(o, "HostKey") \/ ErrorDisconnects(o)

\* Mutant: only an answer ends the wait.
AwakeMutant == answer # None

\* What the worker waits for.
Awake == answer # None \/ cancelled

\* Where a worker goes on: cancelled, rejected, trusted or answered.
AfterAnswer ==
    IF cancelled \/ answer[2] = "Reject" THEN "rejected"
    ELSE IF pending[1] = "HostKey" THEN "methods" ELSE "rounds"

Woken(o) ==
    /\ job[o] = "asking" /\ Awake
    /\ Step(o, AfterAnswer, "Working") /\ pending' = None /\ answer' = None
    /\ UNCHANGED <<asked, cancelled, entries, connected>>

Rejected(o) == job[o] = "rejected" /\ ErrorDisconnects(o)

\* The methods the server lists, in turn: keys and agent, password, keyboard-interactive.
TryMethods(o) ==
    /\ job[o] = "methods"
    /\ \/ CancelRequested(o)
       \/ /\ ~cancelled
          /\ Goes(o, "succeeding", status) \/ Ask(o, "Prompt") \/ Error(o) \/ ErrorDisconnects(o)

\* After an answer, without a test for cancellation: the next round, another method or the end.
NextRound(o) ==
    /\ job[o] = "rounds"
    /\ \/ Goes(o, "succeeding", status) \/ Goes(o, "methods", status)
       \/ Ask(o, "Prompt") \/ Error(o) \/ ErrorDisconnects(o)

\* ExecuteCommand: a cancelled or broken command leaves the loop like a finished one.
Execute(o) ==
    /\ kind[o] = "Execute" /\ job[o] = "running"
    /\ \/ CancelRequested(o) \/ Error(o)
       \/ connected /\ Goes(o, "closing", "Failed")
       \/ connected /\ ~cancelled /\ Goes(o, "closing", status)

\* AddStdOut of the exit code.
CloseChannel(o) == job[o] = "closing" /\ Goes(o, "exited", "Working")

Exited(o) ==
    /\ job[o] = "exited"
    /\ CancelRequested(o) \/ (~cancelled /\ Goes(o, "succeeding", status))

\* SetFileStat makes the status Completed when the file is up to date, and after a
\* failed scp, where both sizes are 0.
DownloadFile(o) ==
    /\ kind[o] = "Download" /\ job[o] = "running"
    /\ \/ CancelRequested(o) \/ Error(o)
       \/ /\ ~cancelled /\ connected
          /\ \/ Goes(o, "succeeding", status) \/ Goes(o, "succeeding", "Completed")
             \/ Goes(o, "failing", "Completed")

BrowseRemoteDirectory(o) ==
    /\ kind[o] = "Browse" /\ job[o] = "running"
    /\ \/ CancelRequested(o) \/ Error(o)
       \/ /\ ~cancelled /\ connected /\ Step(o, "succeeding", status) /\ entries' = o
          /\ UNCHANGED <<pending, answer, asked, cancelled, connected>>

\* The status a job ends with, and then its future.
SetStatus(o) ==
    \/ job[o] = "succeeding" /\ Goes(o, "done", "Completed")
    \/ job[o] = "failing" /\ Goes(o, "done", "Failed")

Resolve(o) == job[o] = "done" /\ Goes(o, "resolved", status)

Work(o) ==
    \/ Begin(o) \/ Connect(o) \/ HostKeyCheck(o) \/ Woken(o) \/ Rejected(o)
    \/ TryMethods(o) \/ NextRound(o) \/ Execute(o) \/ CloseChannel(o) \/ Exited(o)
    \/ DownloadFile(o) \/ BrowseRemoteDirectory(o) \/ SetStatus(o) \/ Resolve(o)

-----------------------------------------------------------------------------
(* SshSession and AppMonitor.                                              *)

\* BeginOperation: the job is queued, the monitor polls it from the next frame on.
BeginOperation(k) ==
    /\ count' = count + 1 /\ active' = count'
    /\ kind' = [kind EXCEPT ![count'] = k]
    /\ mon' = [mon EXCEPT ![count'] = "polled"]
    /\ job' = [job EXCEPT ![count'] = "queued"]
    /\ UNCHANGED <<heir, cancelled, freed>>

\* Mutant: the destructor frees the connection whatever is in flight.
HandedOverMutant == FALSE

\* AppendTeardown: the operation in flight will free the connection.
HandedOver == active # None

\* The destructor of the session.  RemoveOperation cancels the operation in flight: the
\* bridge, and the job if it is still queued.
Destroyed ==
    /\ active' = None /\ built' = 0 /\ shown' = None /\ listing' = None
    /\ IF active = None
       THEN UNCHANGED <<mon, cancelled, job>>
       ELSE /\ mon' = [mon EXCEPT ![active] = IF Resolved(active) THEN "reaped" ELSE "cancelling"]
            /\ cancelled' = (cancelled \/ ~Resolved(active))
            /\ job' = [job EXCEPT ![active] = IF @ = "queued" THEN "resolved" ELSE @]
    /\ heir' = IF HandedOver THEN active ELSE None
    /\ freed' = IF HandedOver THEN Resolved(active) ELSE TRUE
    /\ UNCHANGED <<count, kind>>

\* An operation that was cancelled, or ended before its future was resolved.
Reap(o) ==
    /\ frame = "poll" /\ mon[o] \in {"ended", "cancelling"} /\ Resolved(o)
    /\ mon' = [mon EXCEPT ![o] = "reaped"]
    /\ freed' = (freed \/ heir = o)
    /\ UNCHANGED <<frame, event, owner, browser, ssh, count, kind, heir, bridge, connected, job,
                   history>>

Polls == frame = "poll" /\ \A o \in Ops : Resolved(o) => mon[o] \notin {"ended", "cancelling"}

NothingToPoll ==
    /\ Polls /\ active = None /\ frame' = "render"
    /\ UNCHANGED <<event, owner, browser, ssh, monitor, bridge, line, job, history>>

\* Mutant: the request is built whenever AuthRequest is read.
BuildsMutant == TRUE

\* Once per AuthRequest.
Builds == built = 0

\* CheckAuthentication.
CheckAuthentication ==
    IF status = "AuthRequest"
    THEN /\ shown' = IF Builds THEN pending ELSE shown
         /\ built' = IF Builds THEN asked ELSE built
    ELSE /\ shown' = shown
         /\ built' = IF status \in {"Completed", "Failed"} THEN built ELSE 0

\* Mutant: a failure does not end an operation.
TerminalMutant == status = "Completed"

\* is_terminal_fn.
Terminal == status \in {"Completed", "Failed"}

\* Mutant: the entries are taken as they arrive.
ListsMutant == status # "Failed"

\* CheckBrowsing reads the entries in one pass once browsing completes.
Lists == status = "Completed"

\* The status the operation before has left, which the job has yet to replace.
Latched == Terminal /\ job[active] = "queued"

\* The Check* of the active operation: the first of the two reads of Poll.  Bound: it finds
\* a status of the operation before only once.
Check ==
    /\ Polls /\ active # None /\ frame' = "read"
    /\ Latched => ~stale
    /\ stale' = (stale \/ Latched)
    /\ IF kind[active] = "Authenticate" THEN CheckAuthentication ELSE UNCHANGED <<shown, built>>
    /\ IF kind[active] = "Browse" /\ Lists
       THEN listing' = entries /\ entries' = 0
       ELSE UNCHANGED <<listing, entries>>
    /\ UNCHANGED <<event, owner, browser, active, monitor, status, pending, answer, asked,
                   cancelled, line, job, torn>>

\* The second read: the status that is reported, and that ends the operation.
Read ==
    /\ frame = "read"
    /\ IF Terminal
       THEN /\ frame' = "dispatch" /\ event' = status /\ active' = None
            /\ mon' = [mon EXCEPT ![active] = IF Resolved(active) THEN "reaped" ELSE "ended"]
            /\ stale' = (stale \/ Latched)
            /\ torn' = (torn \/ (kind[active] = "Browse" /\ status = "Completed" /\ listing = None))
       ELSE frame' = "render" /\ UNCHANGED <<event, active, mon, stale, torn>>
    /\ UNCHANGED <<owner, browser, built, shown, listing, count, kind, heir, bridge, line, job>>

-----------------------------------------------------------------------------
(* RemoteTraceOrchestrator.                                                *)

Ends(ph) ==
    /\ phase' = ph /\ running' = FALSE
    /\ UNCHANGED <<active, monitor, cancelled, freed, job, listing>>

Starts(ph, k) ==
    /\ phase' = ph /\ running' = TRUE
    /\ BeginOperation(k)
    /\ listing' = IF k = "Browse" THEN None ELSE listing

AdvanceAfterExecute ==
    IF "result" \in wants THEN Starts("Downloading", "Download") ELSE Ends("Done")

AdvanceAfterAuthenticate ==
    IF task = "Browsing" THEN Starts("Browsing", "Browse")
    ELSE IF "command" \in wants THEN Starts("Executing", "Execute")
    ELSE AdvanceAfterExecute

\* OnRemoteStatus.  A dead connection is not reused.
Dispatch ==
    /\ frame = "dispatch" /\ frame' = "render" /\ event' = None
    /\ authenticated' = (event = "Completed" /\ (authenticated \/ phase = "Authenticating"))
    /\ IF event = "Failed" THEN Ends("Failed")
       ELSE IF phase = "Connecting" THEN Starts("Authenticating", "Authenticate")
       ELSE IF phase = "Authenticating" THEN AdvanceAfterAuthenticate
       ELSE IF phase = "Executing" THEN AdvanceAfterExecute
       ELSE Ends("Done")
    /\ UNCHANGED <<session, task, wants, browser, built, shown, status, pending, answer, asked,
                   entries, connected, history>>

-----------------------------------------------------------------------------
(* What is drawn, and the user.                                            *)

\* Mutant: the browser waits for a listing only.
PullsMutant == session = "live" /\ task = "Browsing" /\ listing # None

\* The browser takes a listing, or shows a failure.
Pulls == session = "live" /\ task = "Browsing" /\ (listing # None \/ (busy /\ phase = "Failed"))

Pull ==
    /\ frame = "render" /\ Pulls
    /\ busy' = FALSE /\ listing' = None
    /\ view' = IF listing # None THEN listing ELSE view
    /\ UNCHANGED <<frame, event, owner, active, built, shown, monitor, bridge, line, job, history>>

Drawn == frame = "render" /\ ~Pulls /\ frame' = "poll"

Idle ==
    /\ Drawn
    /\ UNCHANGED <<event, owner, browser, ssh, monitor, bridge, line, job, history>>

\* Start, from the trace dialog, and StartBrowsing, from the browser.
Open(t, w) ==
    /\ Drawn /\ session = "none" /\ session' = "live"
    /\ task' = t /\ wants' = w /\ busy' = (t = "Browsing")
    /\ Starts("Connecting", "Connect")
    /\ UNCHANGED <<event, authenticated, view, built, shown, status, pending, answer, asked,
                   entries, connected, history>>

\* NavigateBrowserTo and BrowsePath, on an authenticated session.
BrowsePath ==
    /\ Drawn /\ session = "live" /\ task = "Browsing" /\ ~busy /\ ~running
    /\ authenticated /\ count < MaxOps
    /\ busy' = TRUE
    /\ Starts("Browsing", "Browse")
    /\ UNCHANGED <<event, session, task, wants, authenticated, view, built, shown, status,
                   pending, answer, asked, entries, connected, history>>

\* The browser is closed, or a path is picked; or an owner whose workflow is over starts
\* another one, with a session of its own.
Close ==
    /\ Drawn /\ session = "live" /\ (task = "Browsing" \/ ~running)
    /\ session' = "gone" /\ phase' = "Idle" /\ running' = FALSE /\ authenticated' = FALSE
    /\ busy' = FALSE /\ torn' = FALSE
    /\ Destroyed
    /\ UNCHANGED <<event, task, wants, view, status, pending, answer, asked, entries,
                   connected, stale>>

\* A button of the modal.  Only an answer to a question of the kind that is pending
\* is kept.
Answer(d) ==
    /\ Drawn /\ shown # None /\ shown' = None
    /\ d = "Reject" => shown[1] = "HostKey"
    /\ answer' = IF pending # None /\ pending[1] = shown[1] THEN <<shown, d>> ELSE answer
    /\ UNCHANGED <<event, owner, browser, active, built, listing, monitor, status, pending, asked,
                   cancelled, entries, line, job, history>>

\* The Cancel button of the prompt.
CancelRequest ==
    /\ Drawn /\ shown # None /\ shown[1] = "Prompt" /\ shown' = None
    /\ cancelled' = TRUE
    /\ UNCHANGED <<event, owner, browser, active, built, listing, monitor, status, pending, answer,
                   asked, entries, line, job, history>>

Frame == (\E o \in Ops : Reap(o)) \/ NothingToPoll \/ Check \/ Read \/ Dispatch \/ Pull \/ Idle

User ==
    \/ \E w \in SUBSET {"command", "result"} : Open("Executing", w)
    \/ Open("Browsing", {}) \/ BrowsePath \/ Close
    \/ (\E d \in {"Submit", "Reject"} : Answer(d)) \/ CancelRequest

Next == Frame \/ User \/ \E o \in Ops : Work(o)

Spec == Init /\ [][Next]_vars

\* The view draws frames, and the jobs run: nothing is assumed of the user.
FairSpec == Spec /\ WF_vars(Frame) /\ \A o \in Ops : WF_vars(Work(o))

-----------------------------------------------------------------------------
(* Properties.                                                             *)

Questions == {"HostKey", "Prompt"} \X (1 .. MaxAsks)

JobStates == {"none", "queued", "running", "asking", "methods", "rounds", "rejected", "closing",
              "exited", "succeeding", "failing", "done", "resolved"}

\* The values the code gives its variables.
TypeOK ==
    /\ frame \in {"poll", "read", "dispatch", "render"}
    /\ session \in {"none", "live", "gone"}
    /\ task \in {"Executing", "Browsing"} /\ wants \subseteq {"command", "result"}
    /\ phase \in {"Idle", "Connecting", "Authenticating", "Executing", "Downloading",
                  "Browsing", "Done", "Failed"}
    /\ running \in BOOLEAN /\ authenticated \in BOOLEAN
    /\ event \in {None, "Completed", "Failed"}
    /\ busy \in BOOLEAN /\ view \in 0 .. MaxOps
    /\ active \in Ops \cup {None} /\ built \in 0 .. MaxAsks
    /\ shown \in Questions \cup {None} /\ listing \in (0 .. MaxOps) \cup {None}
    /\ count \in 0 .. MaxOps /\ kind \in [Ops -> Kinds \cup {None}]
    /\ mon \in [Ops -> {"none", "polled", "ended", "cancelling", "reaped"}]
    /\ heir \in Ops \cup {None}
    /\ status \in {"Idle", "Working", "AuthRequest", "Completed", "Failed"}
    /\ pending \in Questions \cup {None}
    /\ answer \in (Questions \X {"Submit", "Reject"}) \cup {None} /\ asked \in 0 .. MaxAsks
    /\ cancelled \in BOOLEAN /\ entries \in 0 .. MaxOps
    /\ connected \in BOOLEAN /\ freed \in BOOLEAN /\ job \in [Ops -> JobStates]
    /\ stale \in BOOLEAN /\ torn \in BOOLEAN

\* The jobs that have shown a terminal status although they go on: SaveError and
\* IsCancelRequested, SetFileStat of a download, and a command that has failed, whose channel
\* is closed afterwards.
ShowsItsEnd(o) ==
    \/ job[o] = "failing"
    \/ kind[o] = "Download" /\ job[o] = "succeeding"
    \/ kind[o] = "Execute" /\ job[o] \in {"closing", "exited", "succeeding"}

\* The connection is freed when no worker uses it any more, whenever the session goes: the
\* operation in flight takes it along (~SshSession, AppendTeardown, ReapOperation).  Not so
\* for an operation that was ended by the terminal status its own job shows too early, or by
\* a stale one: no teardown waits for that job.
ConnectionOutlivesWorker ==
    \A o \in Ops : freed /\ Working(o) => mon[o] = "ended" /\ (stale \/ ShowsItsEnd(o))

\* The connection is freed only after the future of the last operation is resolved, as the
\* destructor of the session says.
FreedAfterTheWorker == \A o \in Ops : freed => ~Working(o)

\* What the user answers is given to the question it was asked with, however many the server
\* asks and whenever they are drawn (CheckAuthentication, Submit*, AskPrompts, AskHostKey).
AnswersFit == answer # None => answer[1] = pending

\* Apart from a stale status, a completed operation is one whose job is through: the
\* orchestrator goes on to the next phase on nothing less.  A download says so by itself
\* (SetFileStat), even where it has failed.
PhasesAreEarned ==
    [][frame = "read" /\ event' = "Completed" /\ ~stale'
       => kind[active] = "Download" \/ ~Working(active)]_vars

\* Once a navigation has ended well, the browser lists the directory of the last one and not
\* a part of it or an older one (CheckBrowsing, ConsumeIfUpdated).
BrowserListsTheLast ==
    task = "Browsing" /\ phase = "Done" /\ listing = None /\ ~busy /\ ~stale => view = count

\* A question that nobody draws: CheckAuthentication takes it for the one it has built
\* already, or it is asked by a job the monitor no longer polls, after a stale status.
Unseen == pending # None /\ (built \notin {0, asked} \/ \E o \in Ops : job[o] = "asking" /\ o # active)

\* The connection of a session that is gone is freed in the end, also when the operation in
\* flight waits for the user: Cancel wakes it, and the monitor reaps it.
ConnectionIsFreed == session = "gone" ~> freed

\* A workflow goes on to its end or to a dialog that waits for the user, whatever fails on
\* the way; an unseen question is the exception.
WorkflowMovesOn == running ~> ~running \/ shown # None \/ Unseen

\* The browser does not stay busy: it shows a listing, an error or a dialog.  The exception,
\* beside an unseen question, is a listing completed between the two reads of Poll.
BrowserIsFreed == busy ~> ~busy \/ torn \/ shown # None \/ Unseen

\* A question of the server is drawn, or withdrawn, as appwindow.cpp promises before
\* RenderSshAuthModals.  A stale status aside, after which nobody polls for it.
QuestionIsDrawn == pending # None ~> pending = None \/ shown # None \/ stale
=============================================================================
