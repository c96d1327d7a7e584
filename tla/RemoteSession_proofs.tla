----------------------- MODULE RemoteSession_proofs -----------------------
(***************************************************************************)
(* Proofs about RemoteSession: its type invariant, that the connection of  *)
(* a session outlives the workers that use it, and what flows through it:  *)
(* questions and answers, the phases of the workflow, listings.            *)
(*                                                                         *)
(* Types need a little of the workflow: no phase begins an operation that  *)
(* does not exist.  The other half of the invariant says who tracks an     *)
(* operation: the monitor polls the active one only, and what a destructor *)
(* leaves in flight is the one that frees the connection.                  *)
(***************************************************************************)
EXTENDS RemoteSession, TLAPS

\* The operations begun have a job and an entry in the monitor.
BegunInv ==
    /\ \A o \in Ops : (o <= count) <=> job[o] # "none"
    /\ \A o \in Ops : (o <= count) <=> mon[o] # "none"
    /\ session = "none" => count = 0

\* How many operations the workflow has begun by phase.
PhaseInv ==
    /\ phase = "Connecting" => count = 1
    /\ phase = "Authenticating" => count = 2
    /\ phase = "Executing" => count = 3

\* The monitor polls the active operation; only a running workflow of a live session has one.
PolledInv ==
    /\ \A o \in Ops : mon[o] = "polled" <=> active = o
    /\ active # None => running /\ session = "live"
    /\ frame = "read" => active # None
    /\ frame = "dispatch" => active = None /\ session = "live"

\* Only an operation in flight at the destruction of the session is cancelled, and it frees.
TeardownInv ==
    /\ \A o \in Ops : mon[o] = "reaped" => Resolved(o)
    /\ \A o \in Ops : mon[o] = "cancelling" => heir = o
    /\ heir # None => session = "gone"
    /\ freed => session = "gone" /\ (heir # None => Resolved(heir))
    /\ session # "live" => phase = "Idle"

Tracked == BegunInv /\ PhaseInv /\ PolledInv /\ TeardownInv

IInv == TypeOK /\ Tracked

-----------------------------------------------------------------------------
(* Initially.                                                              *)

LEMMA InvInit == Init => IInv
<1> SUFFICES ASSUME Init PROVE IInv  OBVIOUS
<1>1. TypeOK
  <2>1. /\ kind \in [Ops -> Kinds \cup {None}] /\ job \in [Ops -> JobStates]
        /\ mon \in [Ops -> {"none", "polled", "ended", "cancelling", "reaped"}]
    BY DEF Init, JobStates
  <2>2. 0 \in 0 .. MaxOps /\ 0 \in 0 .. MaxAsks  BY RemoteAssumption
  <2>3. QED  BY <2>1, <2>2 DEF Init, TypeOK
<1>2. BegunInv
  <2>1. \A o \in Ops : ~(o <= 0)  BY RemoteAssumption DEF Ops
  <2>2. count = 0 /\ \A o \in Ops : job[o] = "none" /\ mon[o] = "none"  BY DEF Init
  <2>3. QED  BY <2>1, <2>2 DEF BegunInv
<1>3. PhaseInv  BY DEF Init, PhaseInv
<1>4. PolledInv
  <2>1. None \notin Ops  BY RemoteAssumption DEF Ops
  <2>2. active = None /\ frame = "poll" /\ \A o \in Ops : mon[o] = "none"  BY DEF Init
  <2>3. QED  BY <2>1, <2>2 DEF PolledInv
<1>5. TeardownInv  BY DEF Init, TeardownInv
<1>6. QED  BY <1>1, <1>2, <1>3, <1>4, <1>5 DEF IInv, Tracked

-----------------------------------------------------------------------------
(* A step of a worker.                                                     *)

\* A step of a worker moves its job on, and touches nothing but the bridge.
LEMMA WorkStep ==
    ASSUME TypeOK, NEW o \in Ops, Work(o)
    PROVE  \E pc \in JobStates \ {"none"}, st \in {"Idle", "Working", "AuthRequest", "Completed", "Failed"} :
              job[o] \notin {"none", "resolved"} /\ Step(o, pc, st)
<1> DEFINE Moves == \E pc \in JobStates \ {"none"},
                       st \in {"Idle", "Working", "AuthRequest", "Completed", "Failed"} :
                       job[o] \notin {"none", "resolved"} /\ Step(o, pc, st)
<1> USE DEF JobStates, Goes
<1>0. status \in {"Idle", "Working", "AuthRequest", "Completed", "Failed"}  BY DEF TypeOK
<1>1. CASE Begin(o)           BY <1>1 DEF Begin, Begun
<1>2. CASE Connect(o)
  BY <1>0, <1>2 DEF Connect, CancelRequested, Error, ErrorDisconnects
<1>3. CASE HostKeyCheck(o)    BY <1>0, <1>3 DEF HostKeyCheck, Ask, ErrorDisconnects
<1>4. CASE Woken(o)
  <2>1. AfterAnswer \in {"rejected", "methods", "rounds"}  BY DEF AfterAnswer
  <2>2. QED  BY <1>4, <2>1 DEF Woken
<1>5. CASE Rejected(o)        BY <1>5 DEF Rejected, ErrorDisconnects
<1>6. CASE TryMethods(o)
  BY <1>0, <1>6 DEF TryMethods, CancelRequested, Error, ErrorDisconnects, Ask
<1>7. CASE NextRound(o)       BY <1>0, <1>7 DEF NextRound, Error, ErrorDisconnects, Ask
<1>8. CASE Execute(o)         BY <1>0, <1>8 DEF Execute, CancelRequested, Error
<1>9. CASE CloseChannel(o)    BY <1>9 DEF CloseChannel
<1>10. CASE Exited(o)         BY <1>0, <1>10 DEF Exited, CancelRequested, Error
<1>11. CASE DownloadFile(o)   BY <1>0, <1>11 DEF DownloadFile, CancelRequested, Error
<1>12. CASE BrowseRemoteDirectory(o)
  BY <1>0, <1>12 DEF BrowseRemoteDirectory, CancelRequested, Error
<1>13. CASE SetStatus(o)      BY <1>13 DEF SetStatus
<1>14. CASE Resolve(o)        BY <1>0, <1>14 DEF Resolve
<1>15. QED
  BY <1>1, <1>2, <1>3, <1>4, <1>5, <1>6, <1>7, <1>8, <1>9, <1>10, <1>11, <1>12, <1>13, <1>14,
     Work(o) DEF Work

\* What a worker writes on the bridge.
LEMMA WorkBridge ==
    ASSUME TypeOK, NEW o \in Ops, Work(o)
    PROVE  /\ pending' \in Questions \cup {None} /\ asked' \in 0 .. MaxAsks
           /\ answer' \in {answer, None}
           /\ cancelled' \in BOOLEAN /\ entries' \in 0 .. MaxOps /\ connected' \in BOOLEAN
<1> DEFINE Kept == UNCHANGED <<pending, answer, asked, cancelled, entries, connected>>
           Bridge == /\ pending' \in Questions \cup {None} /\ asked' \in 0 .. MaxAsks
                     /\ answer' \in {answer, None}
                     /\ cancelled' \in BOOLEAN /\ entries' \in 0 .. MaxOps
                     /\ connected' \in BOOLEAN
<1>1. Kept => Bridge  BY DEF TypeOK
<1>2. ASSUME NEW what \in {"HostKey", "Prompt"}, Ask(o, what)  PROVE Bridge
  <2>1. asked' \in 1 .. MaxAsks  BY <1>2, RemoteAssumption DEF Ask, TypeOK
  <2>2. QED  BY <1>2, <2>1 DEF Ask, TypeOK, Questions
<1>3. ErrorDisconnects(o) => Bridge  BY DEF ErrorDisconnects, TypeOK
<1>4. CASE Begin(o)
  BY <1>4, RemoteAssumption DEF Begin, TypeOK
<1>5. CASE Connect(o)
  BY <1>1, <1>3, <1>5 DEF Connect, CancelRequested, Error, Goes, TypeOK
<1>6. CASE HostKeyCheck(o)  BY <1>1, <1>2, <1>3, <1>6 DEF HostKeyCheck, Goes
<1>7. CASE Woken(o)         BY <1>7 DEF Woken, TypeOK
<1>8. CASE Rejected(o)      BY <1>3, <1>8 DEF Rejected
<1>9. CASE TryMethods(o)
  BY <1>1, <1>2, <1>3, <1>9 DEF TryMethods, CancelRequested, Error, Goes
<1>10. CASE NextRound(o)    BY <1>1, <1>2, <1>3, <1>10 DEF NextRound, Error, Goes
<1>11. CASE Execute(o)      BY <1>1, <1>11 DEF Execute, CancelRequested, Error, Goes
<1>12. CASE CloseChannel(o) BY <1>1, <1>12 DEF CloseChannel, Goes
<1>13. CASE Exited(o)       BY <1>1, <1>13 DEF Exited, CancelRequested, Error, Goes
<1>14. CASE DownloadFile(o) BY <1>1, <1>14 DEF DownloadFile, CancelRequested, Error, Goes
<1>15. CASE BrowseRemoteDirectory(o)
  BY <1>1, <1>15, RemoteAssumption
  DEF BrowseRemoteDirectory, CancelRequested, Error, Goes, TypeOK, Ops
<1>16. CASE SetStatus(o)    BY <1>1, <1>16 DEF SetStatus, Goes
<1>17. CASE Resolve(o)      BY <1>1, <1>17 DEF Resolve, Goes
<1>18. QED
  BY <1>4, <1>5, <1>6, <1>7, <1>8, <1>9, <1>10, <1>11, <1>12, <1>13, <1>14, <1>15, <1>16, <1>17,
     Work(o) DEF Work

LEMMA InvWork ==
    ASSUME IInv, NEW o \in Ops, Work(o)
    PROVE  IInv'
<1>1. PICK pc \in JobStates \ {"none"}, st \in {"Idle", "Working", "AuthRequest", "Completed", "Failed"} :
          job[o] \notin {"none", "resolved"} /\ Step(o, pc, st)
  BY WorkStep DEF IInv
<1>2. job' = [job EXCEPT ![o] = pc] /\ UNCHANGED <<session, phase, running, frame, active, count, mon, heir, freed>>
  BY <1>1 DEF Step, owner, ssh, monitor
<1>3. TypeOK'
  BY <1>1, <1>2, WorkBridge
  DEF IInv, TypeOK, Step, owner, browser, ssh, monitor, history
<1>4. job \in [Ops -> JobStates]  BY DEF IInv, TypeOK
<1>5. \A p \in Ops : (job'[p] # "none" <=> job[p] # "none") /\ (Resolved(p) => Resolved(p)')
  BY <1>1, <1>2, <1>4 DEF Resolved
<1>6. heir \in Ops \cup {None}  BY DEF IInv, TypeOK
<1>7. BegunInv' /\ PhaseInv' /\ PolledInv'
  BY <1>2, <1>5 DEF IInv, Tracked, BegunInv, PhaseInv, PolledInv
<1>8. TeardownInv'
  BY <1>2, <1>5, <1>6 DEF IInv, Tracked, TeardownInv
<1>9. QED  BY <1>3, <1>7, <1>8 DEF IInv, Tracked

-----------------------------------------------------------------------------
(* Steps of the view that begin an operation.                              *)

\* One more operation, while the session is live or about to be and none is active.
LEMMA BeginKeeps ==
    ASSUME IInv, active = None, count < MaxOps, session # "gone",
           NEW k \in Kinds, NEW ph \in {"Connecting", "Authenticating", "Executing", "Downloading", "Browsing"},
           Starts(ph, k), session' = "live", frame' \notin {"read", "dispatch"},
           ph = "Connecting" => count = 0, ph = "Authenticating" => count = 1,
           ph = "Executing" => count = 2
    PROVE  /\ Tracked'
           /\ phase' = ph /\ running' = TRUE /\ active' \in Ops /\ count' \in 0 .. MaxOps
           /\ kind' \in [Ops -> Kinds \cup {None}]
           /\ mon' \in [Ops -> {"none", "polled", "ended", "cancelling", "reaped"}]
           /\ job' \in [Ops -> JobStates] /\ listing' \in (0 .. MaxOps) \cup {None}
           /\ UNCHANGED <<heir, cancelled, freed>>
<1>1. count' = count + 1 /\ active' = count' /\ count' \in Ops /\ count \in 0 .. MaxOps
  BY RemoteAssumption DEF IInv, TypeOK, Starts, BeginOperation, Ops
<1>2. /\ phase' = ph /\ running' = TRUE
      /\ kind' = [kind EXCEPT ![count'] = k] /\ mon' = [mon EXCEPT ![count'] = "polled"]
      /\ job' = [job EXCEPT ![count'] = "queued"]
      /\ UNCHANGED <<heir, cancelled, freed>> /\ listing' \in {listing, None}
  BY DEF Starts, BeginOperation
<1>3. /\ kind \in [Ops -> Kinds \cup {None}]
      /\ mon \in [Ops -> {"none", "polled", "ended", "cancelling", "reaped"}]
      /\ job \in [Ops -> JobStates] /\ listing \in (0 .. MaxOps) \cup {None}
      /\ heir \in Ops \cup {None}
  BY DEF IInv, TypeOK
<1>4. mon[count'] = "none" /\ job[count'] = "none"
  BY <1>1, RemoteAssumption DEF IInv, Tracked, BegunInv, Ops
<1>5. BegunInv'
  BY <1>1, <1>2, <1>3, RemoteAssumption DEF IInv, Tracked, BegunInv, Ops
<1>6. PhaseInv'
  BY <1>1, <1>2 DEF PhaseInv
<1>7. PolledInv'
  BY <1>1, <1>2, <1>3, RemoteAssumption DEF IInv, Tracked, PolledInv, Ops
<1>8. TeardownInv'
  <2>1. heir = None /\ ~freed  BY DEF IInv, Tracked, TeardownInv
  <2>2. \A o \in Ops : mon'[o] = "reaped" => Resolved(o)'
    BY <1>1, <1>2, <1>3, <1>4 DEF IInv, Tracked, TeardownInv, Resolved
  <2>3. \A o \in Ops : mon'[o] # "cancelling"
    BY <1>1, <1>2, <1>3, <2>1, RemoteAssumption DEF IInv, Tracked, TeardownInv, Ops
  <2>4. QED  BY <1>2, <2>1, <2>2, <2>3 DEF TeardownInv
<1>9. QED
  BY <1>1, <1>2, <1>3, <1>5, <1>6, <1>7, <1>8 DEF Tracked, JobStates, Ops

LEMMA InvDispatch == IInv /\ Dispatch => IInv'
<1> SUFFICES ASSUME IInv, Dispatch PROVE IInv'  OBVIOUS
<1>1. active = None /\ session = "live" /\ count \in 0 .. MaxOps /\ frame' = "render"
  BY DEF IInv, TypeOK, Tracked, PolledInv, Dispatch
<1>a. authenticated' \in BOOLEAN
  <2>1. authenticated' = (event = "Completed" /\ (authenticated \/ phase = "Authenticating"))
    BY DEF Dispatch
  <2>2. QED  BY <2>1, Zenon
<1>b. /\ event' = None
      /\ UNCHANGED <<session, task, wants, busy, view, built, shown, status, pending, answer, asked,
                     entries, connected, stale, torn>>
  BY DEF Dispatch, browser, history
<1>2. ASSUME NEW ph \in {"Done", "Failed"}, Ends(ph) PROVE IInv'
  <2>1. Tracked'
    BY <1>1, <1>b, <1>2
    DEF IInv, Tracked, BegunInv, PhaseInv, PolledInv, TeardownInv, Ends, monitor, Resolved
  <2>2. TypeOK'
    <3>1. phase' = ph /\ running' = FALSE
          /\ UNCHANGED <<active, count, kind, mon, heir, cancelled, freed, job, listing>>
      BY <1>2 DEF Ends, monitor
    <3>2. /\ status' \in {"Idle", "Working", "AuthRequest", "Completed", "Failed"}
          /\ pending' \in Questions \cup {None} /\ asked' \in 0 .. MaxAsks
          /\ answer' \in (Questions \X {"Submit", "Reject"}) \cup {None}
          /\ cancelled' \in BOOLEAN /\ entries' \in 0 .. MaxOps
          /\ connected' \in BOOLEAN /\ freed' \in BOOLEAN /\ job' \in [Ops -> JobStates]
          /\ stale' \in BOOLEAN /\ torn' \in BOOLEAN
      BY <1>1, <1>a, <1>b, <3>1 DEF IInv, TypeOK
    <3>3. /\ active' \in Ops \cup {None} /\ built' \in 0 .. MaxAsks
          /\ shown' \in Questions \cup {None} /\ listing' \in (0 .. MaxOps) \cup {None}
          /\ count' \in 0 .. MaxOps /\ kind' \in [Ops -> Kinds \cup {None}]
          /\ mon' \in [Ops -> {"none", "polled", "ended", "cancelling", "reaped"}]
          /\ heir' \in Ops \cup {None}
      BY <1>1, <1>a, <1>b, <3>1 DEF IInv, TypeOK
    <3>4. /\ frame' \in {"poll", "read", "dispatch", "render"}
          /\ session' \in {"none", "live", "gone"}
          /\ task' \in {"Executing", "Browsing"} /\ wants' \subseteq {"command", "result"}
          /\ phase' \in {"Idle", "Connecting", "Authenticating", "Executing", "Downloading",
                         "Browsing", "Done", "Failed"}
          /\ running' \in BOOLEAN /\ authenticated' \in BOOLEAN
          /\ event' \in {None, "Completed", "Failed"}
          /\ busy' \in BOOLEAN /\ view' \in 0 .. MaxOps
      BY <1>1, <1>a, <1>b, <3>1 DEF IInv, TypeOK
    <3>5. QED  BY <3>2, <3>3, <3>4 DEF TypeOK
  <2>3. QED  BY <2>1, <2>2 DEF IInv
<1>3. ASSUME NEW k \in Kinds,
             NEW ph \in {"Connecting", "Authenticating", "Executing", "Downloading", "Browsing"},
             Starts(ph, k), count < MaxOps, ph # "Connecting",
             ph = "Authenticating" => count = 1, ph = "Executing" => count = 2
      PROVE  IInv'
  <2>1. /\ Tracked'
        /\ phase' = ph /\ running' = TRUE /\ active' \in Ops /\ count' \in 0 .. MaxOps
        /\ kind' \in [Ops -> Kinds \cup {None}]
        /\ mon' \in [Ops -> {"none", "polled", "ended", "cancelling", "reaped"}]
        /\ job' \in [Ops -> JobStates] /\ listing' \in (0 .. MaxOps) \cup {None}
        /\ UNCHANGED <<heir, cancelled, freed>>
    BY <1>1, <1>b, <1>3, BeginKeeps
  <2>2. TypeOK'
    BY <1>1, <1>a, <1>b, <2>1 DEF IInv, TypeOK
  <2>3. QED  BY <2>1, <2>2 DEF IInv
<1>4. ASSUME AdvanceAfterExecute, count < MaxOps PROVE IInv'
  BY <1>2, <1>3, <1>4 DEF AdvanceAfterExecute, Kinds
<1>5. ASSUME AdvanceAfterAuthenticate, count = 2 PROVE IInv'
  BY <1>3, <1>4, <1>5, RemoteAssumption DEF AdvanceAfterAuthenticate, Kinds
<1>6. CASE event = "Failed"  BY <1>2, <1>6 DEF Dispatch
<1>7. CASE event # "Failed" /\ phase = "Connecting"
  BY <1>3, <1>7, RemoteAssumption DEF Dispatch, IInv, Tracked, PhaseInv, Kinds
<1>8. CASE event # "Failed" /\ phase = "Authenticating"
  BY <1>5, <1>8 DEF Dispatch, IInv, Tracked, PhaseInv
<1>9. CASE event # "Failed" /\ phase = "Executing"
  BY <1>4, <1>9, RemoteAssumption DEF Dispatch, IInv, Tracked, PhaseInv
<1>10. CASE event # "Failed" /\ phase \notin {"Connecting", "Authenticating", "Executing"}
  BY <1>2, <1>10 DEF Dispatch
<1>11. QED  BY <1>6, <1>7, <1>8, <1>9, <1>10

LEMMA InvOpen ==
    ASSUME IInv, NEW t \in {"Executing", "Browsing"}, NEW w \in SUBSET {"command", "result"},
           Open(t, w)
    PROVE  IInv'
<1>1. active = None /\ count = 0 /\ session' = "live" /\ frame' = "poll" /\ session = "none"
      /\ Starts("Connecting", "Connect")
  BY DEF IInv, Tracked, PolledInv, BegunInv, Open, Drawn
<1>2. /\ Tracked'
      /\ phase' = "Connecting" /\ running' = TRUE /\ active' \in Ops /\ count' \in 0 .. MaxOps
      /\ kind' \in [Ops -> Kinds \cup {None}]
      /\ mon' \in [Ops -> {"none", "polled", "ended", "cancelling", "reaped"}]
      /\ job' \in [Ops -> JobStates] /\ listing' \in (0 .. MaxOps) \cup {None}
      /\ UNCHANGED <<heir, cancelled, freed>>
  <2>1. "Connect" \in Kinds  BY DEF Kinds
  <2>2. count < MaxOps  BY <1>1, RemoteAssumption
  <2>3. session # "gone"  BY <1>1
  <2>4. QED  BY <1>1, <2>1, <2>2, <2>3, BeginKeeps
<1>3. TypeOK'
  BY <1>1, <1>2 DEF IInv, TypeOK, Open, history
<1>4. QED  BY <1>2, <1>3 DEF IInv

LEMMA InvBrowsePath == IInv /\ BrowsePath => IInv'
<1> SUFFICES ASSUME IInv, BrowsePath PROVE IInv'  OBVIOUS
<1>1. active = None /\ count < MaxOps /\ session' = "live" /\ frame' = "poll" /\ session = "live"
      /\ Starts("Browsing", "Browse")
  BY DEF IInv, Tracked, PolledInv, BrowsePath, Drawn
<1>2. /\ Tracked'
      /\ phase' = "Browsing" /\ running' = TRUE /\ active' \in Ops /\ count' \in 0 .. MaxOps
      /\ kind' \in [Ops -> Kinds \cup {None}]
      /\ mon' \in [Ops -> {"none", "polled", "ended", "cancelling", "reaped"}]
      /\ job' \in [Ops -> JobStates] /\ listing' \in (0 .. MaxOps) \cup {None}
      /\ UNCHANGED <<heir, cancelled, freed>>
  <2>1. "Browse" \in Kinds  BY DEF Kinds
  <2>2. QED  BY <1>1, <2>1, BeginKeeps
<1>3. TypeOK'
  BY <1>1, <1>2 DEF IInv, TypeOK, BrowsePath, history
<1>4. QED  BY <1>2, <1>3 DEF IInv

-----------------------------------------------------------------------------
(* The monitor, and the end of the session.                                *)

LEMMA InvReap ==
    ASSUME IInv, NEW o \in Ops, Reap(o)
    PROVE  IInv'
<1>1. /\ mon' = [mon EXCEPT ![o] = "reaped"] /\ freed' = (freed \/ heir = o)
      /\ Resolved(o) /\ mon[o] \in {"ended", "cancelling"} /\ frame = "poll"
      /\ UNCHANGED <<frame, session, phase, running, active, count, heir, job>>
  BY DEF Reap, owner, ssh
<1>2. mon \in [Ops -> {"none", "polled", "ended", "cancelling", "reaped"}]  BY DEF IInv, TypeOK
<1>3. TypeOK'
  <2>1. freed' \in BOOLEAN  BY <1>1, Zenon
  <2>2. QED
    BY <1>1, <1>2, <2>1 DEF IInv, TypeOK, Reap, owner, browser, ssh, bridge, history
<1>4. BegunInv'
  BY <1>1, <1>2 DEF IInv, Tracked, BegunInv
<1>5. PhaseInv' /\ PolledInv'
  BY <1>1, <1>2 DEF IInv, Tracked, PhaseInv, PolledInv
<1>6. TeardownInv'
  <2>1. \A p \in Ops : Resolved(p)' <=> Resolved(p)  BY <1>1 DEF Resolved
  <2>2. \A p \in Ops : mon'[p] = "reaped" => Resolved(p)'
    BY <1>1, <1>2, <2>1 DEF IInv, Tracked, TeardownInv
  <2>3. \A p \in Ops : mon'[p] = "cancelling" => heir' = p
    BY <1>1, <1>2 DEF IInv, Tracked, TeardownInv
  <2>4. freed' => session' = "gone" /\ (heir' # None => Resolved(heir)')
    <3>1. CASE freed
      BY <1>1, <3>1 DEF IInv, Tracked, TeardownInv, Resolved
    <3>2. CASE heir = o
      BY <1>1, <2>1, <3>2, RemoteAssumption DEF IInv, Tracked, TeardownInv, Ops, Resolved
    <3>3. QED  BY <1>1, <3>1, <3>2
  <2>5. QED  BY <1>1, <2>2, <2>3, <2>4 DEF IInv, Tracked, TeardownInv, Resolved
<1>7. QED  BY <1>3, <1>4, <1>5, <1>6 DEF IInv, Tracked

LEMMA InvClose == IInv /\ Close => IInv'
<1> SUFFICES ASSUME IInv, Close PROVE IInv'  OBVIOUS
<1> USE RemoteAssumption
<1>1. /\ session = "live" /\ session' = "gone" /\ phase' = "Idle" /\ frame' = "poll"
      /\ active' = None /\ count' = count /\ running' = FALSE
  BY DEF Close, Destroyed, Drawn
<1>a. /\ authenticated' = FALSE /\ busy' = FALSE /\ torn' = FALSE
      /\ built' = 0 /\ shown' = None /\ listing' = None /\ kind' = kind
      /\ UNCHANGED <<event, task, wants, view, status, pending, answer, asked, entries, connected,
                     stale>>
  BY DEF Close, Destroyed
<1>2. /\ heir = None /\ ~freed /\ \A o \in Ops : mon[o] # "cancelling"
      /\ \A o \in Ops : mon[o] = "polled" <=> active = o
      /\ \A o \in Ops : mon[o] = "reaped" => Resolved(o)
      /\ \A o \in Ops : (o <= count) <=> job[o] # "none"
      /\ \A o \in Ops : (o <= count) <=> mon[o] # "none"
  BY <1>1 DEF IInv, Tracked, TeardownInv, PolledInv, BegunInv, Ops
<1>3. /\ mon \in [Ops -> {"none", "polled", "ended", "cancelling", "reaped"}]
      /\ job \in [Ops -> JobStates] /\ active \in Ops \cup {None}
  BY DEF IInv, TypeOK
<1>4. CASE active = None
  <2>1. UNCHANGED <<mon, cancelled, job>> /\ heir' = None /\ freed' = TRUE
    BY <1>4 DEF Close, Destroyed, HandedOver
  <2>2. TypeOK'
    <3>1. 0 \in 0 .. MaxAsks  OBVIOUS
    <3>2. QED  BY <1>1, <1>a, <2>1, <3>1 DEF IInv, TypeOK
  <2>3. Tracked'
    BY <1>1, <1>2, <1>4, <2>1
    DEF Tracked, BegunInv, PhaseInv, PolledInv, TeardownInv, Resolved, Ops
  <2>4. QED  BY <2>2, <2>3 DEF IInv
<1>5. CASE active # None
  <2>0. active \in Ops  BY <1>3, <1>5
  <2>1. /\ mon' = [mon EXCEPT ![active] = IF Resolved(active) THEN "reaped" ELSE "cancelling"]
        /\ cancelled' = (cancelled \/ ~Resolved(active))
        /\ job' = [job EXCEPT ![active] = IF @ = "queued" THEN "resolved" ELSE @]
        /\ heir' = active /\ freed' = Resolved(active)
    BY <1>5 DEF Close, Destroyed, HandedOver
  <2>2. TypeOK'
    <3>1. cancelled' \in BOOLEAN  BY <2>1, Zenon
    <3>2. freed' \in BOOLEAN      BY <2>1, Zenon DEF Resolved
    <3>3. mon' \in [Ops -> {"none", "polled", "ended", "cancelling", "reaped"}]
      BY <1>3, <2>1
    <3>4. job' \in [Ops -> JobStates]
      BY <1>3, <2>0, <2>1 DEF JobStates
    <3>5. 0 \in 0 .. MaxAsks /\ heir' \in Ops  BY <2>0, <2>1
    <3>6. QED
      BY <1>1, <1>a, <3>1, <3>2, <3>3, <3>4, <3>5 DEF IInv, TypeOK
  <2>3. \A o \in Ops : (Resolved(o) => Resolved(o)') /\ (job'[o] # "none" <=> job[o] # "none")
    BY <1>3, <2>0, <2>1 DEF Resolved
  <2>4. BegunInv'
    BY <1>1, <1>2, <1>3, <2>0, <2>1, <2>3 DEF BegunInv
  <2>5. PhaseInv' /\ PolledInv'
    BY <1>1, <1>2, <1>3, <2>0, <2>1 DEF PhaseInv, PolledInv, Ops
  <2>6. TeardownInv'
    <3>1. \A o \in Ops : mon'[o] = "reaped" => Resolved(o)'
      BY <1>2, <1>3, <2>0, <2>1, <2>3
    <3>2. \A o \in Ops : mon'[o] = "cancelling" => heir' = o
      BY <1>2, <1>3, <2>0, <2>1
    <3>3. freed' => Resolved(heir)'
      BY <2>0, <2>1, <2>3 DEF Resolved
    <3>4. QED  BY <1>1, <3>1, <3>2, <3>3 DEF TeardownInv
  <2>7. QED  BY <2>2, <2>4, <2>5, <2>6 DEF IInv, Tracked
<1>6. QED  BY <1>4, <1>5

LEMMA InvRead == IInv /\ Read => IInv'
<1> SUFFICES ASSUME IInv, Read PROVE IInv'  OBVIOUS
<1> USE RemoteAssumption
<1>1. /\ UNCHANGED <<session, phase, running, count, heir, job, freed>>
      /\ active \in Ops /\ session = "live" /\ running
  BY DEF IInv, TypeOK, Tracked, PolledInv, Read, owner, line
<1>2. mon \in [Ops -> {"none", "polled", "ended", "cancelling", "reaped"}]  BY DEF IInv, TypeOK
<1>3. CASE Terminal
  <2>1. /\ frame' = "dispatch" /\ event' = status /\ active' = None
        /\ mon' = [mon EXCEPT ![active] = IF Resolved(active) THEN "reaped" ELSE "ended"]
        /\ stale' = (stale \/ Latched)
        /\ torn' = (torn \/ (kind[active] = "Browse" /\ status = "Completed" /\ listing = None))
    BY <1>3 DEF Read
  <2>2. TypeOK'
    <3>1. stale' \in BOOLEAN /\ torn' \in BOOLEAN  BY <2>1, Zenon
    <3>2. event' \in {"Completed", "Failed"}  BY <1>3, <2>1 DEF Terminal
    <3>3. mon' \in [Ops -> {"none", "polled", "ended", "cancelling", "reaped"}]  BY <1>2, <2>1
    <3>4. QED
      BY <2>1, <3>1, <3>2, <3>3 DEF IInv, TypeOK, Read, owner, browser, bridge, line
  <2>3. \A p \in Ops : Resolved(p)' <=> Resolved(p)  BY <1>1 DEF Resolved
  <2>4. BegunInv' /\ PhaseInv'
    <3>1. \A p \in Ops : mon'[p] # "none" <=> mon[p] # "none"
      BY <1>1, <1>2, <2>1 DEF IInv, Tracked, PolledInv
    <3>2. QED  BY <1>1, <3>1 DEF IInv, Tracked, BegunInv, PhaseInv
  <2>5. PolledInv'
    BY <1>1, <1>2, <2>1 DEF IInv, Tracked, PolledInv, Ops
  <2>6. TeardownInv'
    BY <1>1, <1>2, <2>1, <2>3 DEF IInv, Tracked, TeardownInv
  <2>7. QED  BY <2>2, <2>4, <2>5, <2>6 DEF IInv, Tracked
<1>4. CASE ~Terminal
  <2>1. frame' = "render" /\ UNCHANGED <<event, active, mon, stale, torn>>
    BY <1>4 DEF Read
  <2>2. TypeOK'
    BY <2>1 DEF IInv, TypeOK, Read, owner, browser, bridge, line
  <2>3. Tracked'
    BY <1>1, <2>1
    DEF IInv, Tracked, BegunInv, PhaseInv, PolledInv, TeardownInv, Resolved
  <2>4. QED  BY <2>2, <2>3 DEF IInv
<1>5. QED  BY <1>3, <1>4

-----------------------------------------------------------------------------
(* The other steps of a frame, and the user.                               *)

\* Steps that change nothing of what Tracked speaks of, but go on within the frame.
LEMMA TrackedKeeps ==
    ASSUME Tracked, UNCHANGED <<session, phase, running, active, count, mon, heir, job, freed>>,
           frame' = "read" => active # None, frame' # "dispatch"
    PROVE  Tracked'
BY DEF Tracked, BegunInv, PhaseInv, PolledInv, TeardownInv, Resolved

LEMMA InvCheck == IInv /\ Check => IInv'
<1> SUFFICES ASSUME IInv, Check PROVE IInv'  OBVIOUS
<1>1. stale' \in BOOLEAN
  <2>1. stale' = (stale \/ Latched)  BY DEF Check
  <2>2. QED  BY <2>1, Zenon
<1>2. shown' \in Questions \cup {None} /\ built' \in 0 .. MaxAsks
  BY RemoteAssumption DEF IInv, TypeOK, Check, CheckAuthentication
<1>3. listing' \in (0 .. MaxOps) \cup {None} /\ entries' \in 0 .. MaxOps
  BY RemoteAssumption DEF IInv, TypeOK, Check
<1>4. TypeOK'
  BY <1>1, <1>2, <1>3 DEF IInv, TypeOK, Check, owner, browser, monitor, line
<1>5. Tracked'
  BY TrackedKeeps DEF IInv, Check, owner, monitor, line
<1>6. QED  BY <1>4, <1>5 DEF IInv

LEMMA InvUser ==
    ASSUME IInv,
           NothingToPoll \/ Pull \/ Idle \/ CancelRequest \/ \E d \in {"Submit", "Reject"} : Answer(d)
    PROVE  IInv'
<1> USE DEF owner, browser, ssh, monitor, bridge, line, history, Drawn
<1>1. CASE NothingToPoll
  <2>1. TypeOK'   BY <1>1 DEF IInv, TypeOK, NothingToPoll
  <2>2. Tracked'  BY <1>1, TrackedKeeps DEF IInv, NothingToPoll
  <2>3. QED  BY <2>1, <2>2 DEF IInv
<1>2. CASE Pull
  <2>1. TypeOK'
    <3>1. view' \in 0 .. MaxOps  BY <1>2 DEF IInv, TypeOK, Pull
    <3>2. busy' = FALSE /\ listing' = None  BY <1>2 DEF Pull
    <3>3. /\ status' \in {"Idle", "Working", "AuthRequest", "Completed", "Failed"}
          /\ pending' \in Questions \cup {None} /\ asked' \in 0 .. MaxAsks
          /\ answer' \in (Questions \X {"Submit", "Reject"}) \cup {None}
          /\ cancelled' \in BOOLEAN /\ entries' \in 0 .. MaxOps
          /\ connected' \in BOOLEAN /\ freed' \in BOOLEAN /\ job' \in [Ops -> JobStates]
          /\ stale' \in BOOLEAN /\ torn' \in BOOLEAN
      BY <1>2, <3>1, <3>2 DEF IInv, TypeOK, Pull
    <3>4. /\ active' \in Ops \cup {None} /\ built' \in 0 .. MaxAsks
          /\ shown' \in Questions \cup {None} /\ listing' \in (0 .. MaxOps) \cup {None}
          /\ count' \in 0 .. MaxOps /\ kind' \in [Ops -> Kinds \cup {None}]
          /\ mon' \in [Ops -> {"none", "polled", "ended", "cancelling", "reaped"}]
          /\ heir' \in Ops \cup {None}
      BY <1>2, <3>1, <3>2 DEF IInv, TypeOK, Pull
    <3>5. /\ frame' \in {"poll", "read", "dispatch", "render"}
          /\ session' \in {"none", "live", "gone"}
          /\ task' \in {"Executing", "Browsing"} /\ wants' \subseteq {"command", "result"}
          /\ phase' \in {"Idle", "Connecting", "Authenticating", "Executing", "Downloading",
                         "Browsing", "Done", "Failed"}
          /\ running' \in BOOLEAN /\ authenticated' \in BOOLEAN
          /\ event' \in {None, "Completed", "Failed"}
          /\ busy' \in BOOLEAN /\ view' \in 0 .. MaxOps
      BY <1>2, <3>1, <3>2 DEF IInv, TypeOK, Pull
    <3>6. QED  BY <3>3, <3>4, <3>5 DEF TypeOK
  <2>2. Tracked'  BY <1>2, TrackedKeeps DEF IInv, Pull
  <2>3. QED  BY <2>1, <2>2 DEF IInv
<1>3. CASE Idle
  <2>1. TypeOK'   BY <1>3 DEF IInv, TypeOK, Idle
  <2>2. Tracked'  BY <1>3, TrackedKeeps DEF IInv, Idle
  <2>3. QED  BY <2>1, <2>2 DEF IInv
<1>4. CASE CancelRequest
  <2>1. TypeOK'   BY <1>4 DEF IInv, TypeOK, CancelRequest
  <2>2. Tracked'  BY <1>4, TrackedKeeps DEF IInv, CancelRequest
  <2>3. QED  BY <2>1, <2>2 DEF IInv
<1>5. ASSUME NEW d \in {"Submit", "Reject"}, Answer(d) PROVE IInv'
  <2>1. TypeOK'
    <3>1. answer' \in (Questions \X {"Submit", "Reject"}) \cup {None}
      BY <1>5 DEF IInv, TypeOK, Answer
    <3>2. QED  BY <1>5, <3>1 DEF IInv, TypeOK, Answer
  <2>2. Tracked'  BY <1>5, TrackedKeeps DEF IInv, Answer
  <2>3. QED  BY <2>1, <2>2 DEF IInv
<1>6. QED  BY <1>1, <1>2, <1>3, <1>4, <1>5

-----------------------------------------------------------------------------
LEMMA InvNext == IInv /\ [Next]_vars => IInv'
<1> SUFFICES ASSUME IInv, [Next]_vars PROVE IInv'  OBVIOUS
<1>1. CASE Frame
  BY <1>1, InvReap, InvCheck, InvRead, InvDispatch, InvUser DEF Frame
<1>2. CASE User
  <2>1. ASSUME NEW w \in SUBSET {"command", "result"}, Open("Executing", w) PROVE IInv'
    BY <2>1, InvOpen
  <2>2. CASE Open("Browsing", {})
    <3>1. {} \in SUBSET {"command", "result"}  OBVIOUS
    <3>2. QED  BY <2>2, <3>1, InvOpen
  <2>3. QED  BY <1>2, <2>1, <2>2, InvBrowsePath, InvClose, InvUser DEF User
<1>3. CASE \E o \in Ops : Work(o)  BY <1>3, InvWork
<1>4. CASE UNCHANGED vars
  <2> USE DEF vars, owner, browser, ssh, monitor, bridge, line, history
  <2>1. TypeOK'  BY <1>4 DEF IInv, TypeOK
  <2>2. Tracked'
    BY <1>4 DEF IInv, Tracked, BegunInv, PhaseInv, PolledInv, TeardownInv, Resolved
  <2>3. QED  BY <2>1, <2>2 DEF IInv
<1>5. QED  BY <1>1, <1>2, <1>3, <1>4 DEF Next

LEMMA InvHolds == Spec => []IInv
BY InvInit, InvNext, PTL DEF Spec

\* Every variable of the session, the monitor and the bridge keeps its type, for any number
\* of operations and questions: no phase begins an operation beyond the last.
THEOREM TypeCorrect == Spec => []TypeOK
<1>1. IInv => TypeOK  BY DEF IInv
<1>2. QED  BY <1>1, InvHolds, PTL

-----------------------------------------------------------------------------
(* What the operations of a workflow have in common.                       *)

\* The phases of a workflow with an operation in flight, and a job that is through with
\* its work but may still have to resolve its future.
Underway == {"Connecting", "Authenticating", "Executing", "Downloading", "Browsing"}
Through  == {"done", "resolved"}

\* The operations of a session, in order: one connects, the second authenticates, and
\* only that one asks.
KindInv ==
    /\ \A o \in Ops : (o <= count) <=> kind[o] # None
    /\ count >= 1 => kind[1] = "Connect"
    /\ \A o \in Ops : kind[o] = "Authenticate" => o = 2
    /\ \A o \in Ops : job[o] \in {"asking", "methods", "rounds", "rejected"} => kind[o] = "Authenticate"
    /\ \A o \in Ops : job[o] \in {"closing", "exited"} => kind[o] = "Execute"
    /\ active # None => active = count
    /\ phase = "Authenticating" => kind[count] = "Authenticate"
    /\ phase = "Browsing" => kind[count] = "Browse"
    /\ phase = "Downloading" <=> (running /\ kind[count] = "Download")
    /\ running <=> phase \in Underway
    /\ frame = "dispatch" => running
    /\ event # None <=> frame = "dispatch"
    /\ task = "Browsing" => phase \notin {"Executing", "Downloading"}
    /\ session = "none" => status = "Idle" /\ ~cancelled /\ pending = None /\ answer = None
                           /\ shown = None /\ listing = None /\ built = 0

\* The workflow goes on from a connection that is made, whatever is stale later.
ConnectInv ==
    /\ authenticated => count >= 2
    /\ count >= 2 => job[1] \in Through
    /\ count = 1 => /\ status = "Completed" => job[1] \in Through
                    /\ session = "live" /\ cancelled => status = "Failed" /\ job[1] \in {"failing"} \cup Through
                    /\ frame = "dispatch" /\ event = "Completed" => status = "Completed"
                    /\ built = 0

\* A question is answered once, and what is drawn is the question that is pending.
QuestionInv ==
    /\ pending # None <=> job[2] = "asking"
    /\ pending # None => asked # 0
    /\ answer # None => pending # None /\ answer[1] = pending
    /\ shown # None => active = 2 /\ pending = shown /\ answer = None /\ ~cancelled /\ built # 0
    /\ count <= 2 => (status = "AuthRequest" <=> job[2] = "asking")
    /\ active = 2 /\ job[2] = "asking" /\ (answer # None \/ cancelled) => built # 0
    /\ active = 2 /\ job[2] \in {"queued", "running", "methods", "rounds"} => ~cancelled

\* Apart from a stale status the operations run one after the other.
ThroughInv ==
    ~stale =>
        /\ \A o \in Ops : o < count => job[o] \in Through
        /\ active # None /\ status = "Completed" /\ kind[active] # "Download" =>
              job[active] \in {"queued"} \cup Through
        /\ frame = "dispatch" /\ event = "Completed" /\ phase # "Downloading" =>
              job[count] \in Through
        /\ session = "live" /\ task = "Browsing" /\ authenticated /\ ~running =>
              job[count] \in Through

\* Where the entries of the last listing are on their way to the browser.
ListingInv ==
    ~stale /\ task = "Browsing" =>
        /\ phase \in {"Connecting", "Authenticating"} => listing = None /\ busy
        /\ phase = "Browsing" =>
              /\ busy /\ listing \in {None, count}
              /\ job[count] = "succeeding" => entries = count
              /\ listing = None /\ status = "Completed" /\ job[count] \in Through => entries = count
              /\ listing # None /\ frame # "dispatch" =>
                    frame = "read" /\ status = "Completed" /\ job[count] \in Through
        /\ phase = "Done" => listing = count \/ (listing = None /\ (busy \/ view = count))

Flow == KindInv /\ ConnectInv /\ QuestionInv /\ ThroughInv /\ ListingInv

FullInv == IInv /\ Flow

-----------------------------------------------------------------------------
(* A step of a worker.                                                     *)

\* What a worker leaves alone, and what its job may become.
LEMMA WorkLeaves ==
    ASSUME FullInv, NEW o \in Ops, Work(o)
    PROVE  /\ o <= count /\ count \in Nat /\ session # "none" /\ 1 \in Ops /\ 2 \in Ops
           /\ job[o] \notin {"none", "resolved"} /\ job'[o] # "none"
           /\ \A p \in Ops : p # o => job'[p] = job[p]
           /\ kind[o] \in Kinds
           /\ UNCHANGED <<frame, event, session, task, wants, phase, running, authenticated, busy,
                          view, active, built, shown, listing, count, kind, mon, heir, freed,
                          stale, torn>>
<1>1. PICK pc \in JobStates \ {"none"}, st \in {"Idle", "Working", "AuthRequest", "Completed", "Failed"} :
          job[o] \notin {"none", "resolved"} /\ Step(o, pc, st)
  BY WorkStep DEF FullInv, Flow, IInv
<1>2. job \in [Ops -> JobStates] /\ count \in 0 .. MaxOps /\ kind \in [Ops -> Kinds \cup {None}]
  BY DEF FullInv, Flow, IInv, TypeOK
<1>3. o <= count /\ count \in Nat /\ session # "none" /\ 1 \in Ops /\ 2 \in Ops
  BY <1>1, <1>2, RemoteAssumption DEF FullInv, Flow, IInv, Tracked, BegunInv, Ops
<1>4. kind[o] \in Kinds  BY <1>2, <1>3 DEF FullInv, Flow, KindInv
<1>5. job'[o] = pc /\ \A p \in Ops : p # o => job'[p] = job[p]  BY <1>1, <1>2 DEF Step
<1>6. QED
  BY <1>1, <1>3, <1>4, <1>5 DEF Step, owner, browser, ssh, monitor, history

\* Only the job of an authentication asks.
LEMMA WorkKind ==
    ASSUME FullInv, NEW o \in Ops, Work(o)
    PROVE  KindInv'
<1>1. /\ o <= count /\ count \in Nat /\ session # "none" /\ 1 \in Ops /\ 2 \in Ops
      /\ \A p \in Ops : p # o => job'[p] = job[p]
      /\ UNCHANGED <<frame, event, session, task, phase, running, active, count, kind, built>>
  BY WorkLeaves
<1>2. /\ job'[o] \in {"asking", "methods", "rounds", "rejected"} => kind[o] = "Authenticate"
      /\ job'[o] \in {"closing", "exited"} => kind[o] = "Execute"
  <2>1. job \in [Ops -> JobStates] /\ KindInv  BY DEF FullInv, Flow, IInv, TypeOK
  <2> USE DEF Goes, Step, Ask, Error, CancelRequested, ErrorDisconnects, KindInv
  <2>2. CASE Begin(o) \/ Connect(o)  BY <2>1, <2>2 DEF Begin, Connect
  <2>3. CASE HostKeyCheck(o) \/ Woken(o) \/ Rejected(o) \/ TryMethods(o) \/ NextRound(o)
    <3>1. AfterAnswer \in {"rejected", "methods", "rounds"}  BY DEF AfterAnswer
    <3>2. kind[o] = "Authenticate"
      BY <2>1, <2>3 DEF HostKeyCheck, Woken, Rejected, TryMethods, NextRound
    <3>3. job'[o] \notin {"closing", "exited"}
      BY <2>1, <2>3, <3>1 DEF HostKeyCheck, Woken, Rejected, TryMethods, NextRound
    <3>4. QED  BY <3>2, <3>3
  <2>4. CASE Execute(o)  BY <2>1, <2>4 DEF Execute
  <2>5. CASE CloseChannel(o) \/ Exited(o)
    <3>1. kind[o] = "Execute"  BY <2>1, <2>5 DEF CloseChannel, Exited
    <3>2. job'[o] \in {"exited", "failing", "succeeding"}
      BY <2>1, <2>5 DEF CloseChannel, Exited
    <3>3. QED  BY <3>1, <3>2
  <2>6. CASE DownloadFile(o) \/ BrowseRemoteDirectory(o) \/ SetStatus(o) \/ Resolve(o)
    BY <2>1, <2>6 DEF DownloadFile, BrowseRemoteDirectory, SetStatus, Resolve
  <2>7. QED  BY <2>2, <2>3, <2>4, <2>5, <2>6 DEF Work
<1>3. KindInv  BY DEF FullInv, Flow
<1>4. QED  BY <1>1, <1>2, <1>3 DEF KindInv

\* The connection stays made, and questions and answers stay together.
LEMMA WorkConnect ==
    ASSUME FullInv, NEW o \in Ops, Work(o)
    PROVE  ConnectInv'
<1>1. /\ o <= count /\ count \in Nat /\ session # "none" /\ 1 \in Ops /\ 2 \in Ops
      /\ job[o] \notin {"none", "resolved"}
      /\ \A p \in Ops : p # o => job'[p] = job[p]
      /\ UNCHANGED <<frame, event, session, authenticated, active, count, kind, built>>
  BY WorkLeaves
<1>2. job \in [Ops -> JobStates]  BY DEF FullInv, Flow, IInv, TypeOK
<1>3. ConnectInv /\ KindInv  BY DEF FullInv, Flow
<1>4. CASE o # 1
  <2>1. count >= 2 /\ job'[1] = job[1]  BY <1>1, <1>4 DEF Ops
  <2>2. QED  BY <1>1, <1>3, <2>1 DEF ConnectInv
<1>5. CASE o = 1 /\ count >= 2
  <2>1. job[1] = "done"  BY <1>1, <1>3, <1>5 DEF ConnectInv, Through
  <2>2. job'[1] = "resolved"
    BY <1>2, <1>5, <2>1 DEF Work, Begin, Connect, HostKeyCheck, Woken, Rejected, TryMethods, NextRound,
       Execute, CloseChannel, Exited, DownloadFile, BrowseRemoteDirectory, SetStatus, Resolve,
       Goes, Step
  <2>3. QED  BY <1>1, <1>3, <1>5, <2>2 DEF ConnectInv, Through
<1>6. CASE o = 1 /\ count = 1
  <2>1. kind[1] = "Connect" /\ job[1] \notin {"asking", "methods", "rounds", "rejected"}
    BY <1>1, <1>3, <1>6 DEF KindInv
  <2>2. \/ Begin(1) \/ Connect(1) \/ Execute(1) \/ CloseChannel(1) \/ Exited(1)
        \/ SetStatus(1) \/ Resolve(1)
    BY <1>6, <2>1 DEF Work, HostKeyCheck, Woken, Rejected, TryMethods, NextRound,
       DownloadFile, BrowseRemoteDirectory
  <2>3. QED
    BY <1>1, <1>2, <1>3, <1>6, <2>1, <2>2
    DEF Begin, Begun, Connect, Execute, CloseChannel, Exited, SetStatus, Resolve, Goes, Step, Error,
        CancelRequested, ErrorDisconnects, ConnectInv, Through
<1>7. QED  BY <1>1, <1>4, <1>5, <1>6

\* A worker that is through only resolves its future.
LEMMA ThroughResolves ==
    ASSUME FullInv, NEW o \in Ops, Work(o), job[o] \in Through
    PROVE  /\ job'[o] = "resolved"
           /\ UNCHANGED <<status, pending, answer, asked, cancelled, entries, connected>>
<1>1. job[o] = "done"  BY WorkLeaves DEF Through
<1>2. Resolve(o)
  BY <1>1 DEF Work, Begin, Connect, HostKeyCheck, Woken, Rejected, TryMethods, NextRound,
     Execute, CloseChannel, Exited, DownloadFile, BrowseRemoteDirectory, SetStatus
<1>3. job \in [Ops -> JobStates]  BY DEF FullInv, Flow, IInv, TypeOK
<1>4. QED  BY <1>2, <1>3 DEF Resolve, Goes, Step

\* A worker that does not authenticate asks nothing.
LEMMA OthersDoNotAsk ==
    ASSUME FullInv, NEW o \in Ops, Work(o), o # 2
    PROVE  UNCHANGED <<pending, answer, asked>> /\ (status' = "AuthRequest" => status = "AuthRequest")
<1>1. kind[o] # "Authenticate" /\ job[o] \notin {"asking", "methods", "rounds", "rejected"}
  BY DEF FullInv, Flow, KindInv
<1>2. ~(HostKeyCheck(o) \/ Woken(o) \/ Rejected(o) \/ TryMethods(o) \/ NextRound(o))
  BY <1>1 DEF HostKeyCheck, Woken, Rejected, TryMethods, NextRound
<1> USE DEF Goes, Step, Error, CancelRequested, ErrorDisconnects
<1>3. CASE Begin(o) \/ Connect(o)  BY <1>3 DEF Begin, Begun, Connect
<1>4. CASE Execute(o) \/ CloseChannel(o) \/ Exited(o)  BY <1>4 DEF Execute, CloseChannel, Exited
<1>5. CASE DownloadFile(o) \/ BrowseRemoteDirectory(o) \/ SetStatus(o) \/ Resolve(o)
  BY <1>5 DEF DownloadFile, BrowseRemoteDirectory, SetStatus, Resolve
<1>6. QED  BY <1>2, <1>3, <1>4, <1>5 DEF Work

LEMMA WorkQuestion ==
    ASSUME FullInv, NEW o \in Ops, Work(o)
    PROVE  QuestionInv'
<1>1. /\ o <= count /\ count \in Nat /\ session # "none" /\ 1 \in Ops /\ 2 \in Ops
      /\ job[o] \notin {"none", "resolved"}
      /\ \A p \in Ops : p # o => job'[p] = job[p]
      /\ UNCHANGED <<active, count, built, shown>>
  BY WorkLeaves
<1>2. /\ job \in [Ops -> JobStates] /\ asked \in 0 .. MaxAsks
      /\ None \notin {"HostKey", "Prompt"} \X Int /\ None # 2
  BY RemoteAssumption DEF FullInv, Flow, IInv, TypeOK
<1>3. QuestionInv /\ KindInv /\ ConnectInv /\ BegunInv  BY DEF FullInv, Flow, IInv, Tracked
<1>4. CASE o # 2
  <2>1. UNCHANGED <<pending, answer, asked>> /\ (status' = "AuthRequest" => status = "AuthRequest")
    BY <1>4, OthersDoNotAsk
  <2>2. job'[2] = job[2]  BY <1>1, <1>4
  <2>3. CASE count >= 3
    <3>1. active # 2 /\ shown = None  BY <1>2, <1>3, <2>3 DEF KindInv, QuestionInv
    <3>2. QED  BY <1>1, <1>2, <1>3, <2>1, <2>2, <2>3, <3>1 DEF QuestionInv
  <2>4. CASE count = 1
    <3>1. job[2] = "none" /\ active # 2
      BY <1>1, <1>3, <2>4, RemoteAssumption DEF BegunInv, KindInv, Ops
    <3>2. pending = None /\ shown = None /\ status # "AuthRequest"
      BY <1>3, <2>4, <3>1 DEF QuestionInv
    <3>3. QED  BY <1>1, <1>3, <2>1, <2>2, <3>1, <3>2 DEF QuestionInv
  <2>5. CASE count = 2
    <3>1. o = 1 /\ job[o] \in Through  BY <1>1, <1>3, <1>4, <2>5 DEF ConnectInv, Ops
    <3>2. UNCHANGED <<status, pending, answer, asked, cancelled>>  BY <3>1, ThroughResolves
    <3>3. QED  BY <1>1, <1>3, <2>2, <3>2 DEF QuestionInv
  <2>6. QED  BY <1>1, <2>3, <2>4, <2>5 DEF Ops
<1>5. CASE o = 2
  <2> USE DEF Goes, Step, Error, CancelRequested, ErrorDisconnects, QuestionInv
  <2>1. ASSUME NEW what \in {"HostKey", "Prompt"}, Ask(2, what),
               job[2] \in {"running", "methods", "rounds"}
        PROVE  QuestionInv'
    <3>1. pending' = <<what, asked'>> /\ asked' = asked + 1 /\ answer' = None /\ status' = "AuthRequest"
          /\ job'[2] = "asking" /\ cancelled' = cancelled
      BY <1>2, <2>1, <1>1 DEF Ask
    <3>2. pending' # None  BY <1>2, <3>1
    <3>3. shown = None  BY <1>3, <2>1
    <3>4. active = 2 => ~cancelled  BY <1>3, <2>1
    <3>5. asked' # 0  BY <1>2, <3>1
    <3>6. QED  BY <1>1, <3>1, <3>2, <3>3, <3>4, <3>5
  <2>2. CASE Begin(2) \/ Connect(2)
    BY <1>1, <1>2, <1>3, <2>2 DEF Begin, Begun, Connect
  <2>3. CASE HostKeyCheck(2)
    <3>1. CASE Goes(2, "methods", status) \/ ErrorDisconnects(2)
      BY <1>1, <1>2, <1>3, <2>3, <3>1 DEF HostKeyCheck
    <3>2. QED  BY <2>1, <2>3, <3>1 DEF HostKeyCheck
  <2>4. CASE Woken(2)
    <3>1. shown = None  BY <1>3, <2>4 DEF Woken, Awake
    <3>2. AfterAnswer \in {"rejected", "methods", "rounds"} /\ (AfterAnswer # "rejected" => ~cancelled)
      BY DEF AfterAnswer
    <3>3. /\ job'[2] = AfterAnswer /\ pending' = None /\ answer' = None /\ status' = "Working"
          /\ UNCHANGED <<asked, cancelled>>
      BY <1>1, <1>2, <2>4 DEF Woken
    <3>4. QED  BY <1>1, <1>3, <3>1, <3>2, <3>3
  <2>5. CASE Rejected(2)
    BY <1>1, <1>2, <1>3, <2>5 DEF Rejected
  <2>6. CASE TryMethods(2) \/ NextRound(2)
    <3>1. CASE Ask(2, "Prompt")  BY <2>1, <2>6, <3>1 DEF TryMethods, NextRound
    <3>2. CASE ~Ask(2, "Prompt")
      BY <1>1, <1>2, <1>3, <2>6, <3>2 DEF TryMethods, NextRound
    <3>3. QED  BY <3>1, <3>2
  <2>7. CASE Execute(2) \/ CloseChannel(2) \/ Exited(2)
    BY <1>1, <1>2, <1>3, <2>7 DEF Execute, CloseChannel, Exited
  <2>8. CASE DownloadFile(2) \/ BrowseRemoteDirectory(2)
    BY <1>1, <1>2, <1>3, <2>8 DEF DownloadFile, BrowseRemoteDirectory
  <2>9. CASE SetStatus(2) \/ Resolve(2)
    BY <1>1, <1>2, <1>3, <2>9 DEF SetStatus, Resolve
  <2>10. QED
    BY <1>5, <2>2, <2>3, <2>4, <2>5, <2>6, <2>7, <2>8, <2>9 DEF Work
<1>6. QED  BY <1>4, <1>5

\* A worker ends its operation in turn.
LEMMA WorkThrough ==
    ASSUME FullInv, NEW o \in Ops, Work(o)
    PROVE  ThroughInv'
<1>1. /\ o <= count /\ count \in Nat
      /\ job[o] \notin {"none", "resolved"}
      /\ \A p \in Ops : p # o => job'[p] = job[p]
      /\ UNCHANGED <<frame, event, session, task, phase, running, authenticated, active, count,
                     kind, stale>>
  BY WorkLeaves
<1>2. job \in [Ops -> JobStates]  BY DEF FullInv, Flow, IInv, TypeOK
<1>3. ThroughInv /\ KindInv  BY DEF FullInv, Flow
<1>4. job[o] \in Through => job'[o] \in Through /\ UNCHANGED status
  BY ThroughResolves DEF Through
<1>5. \A p \in Ops : job[p] \in Through => job'[p] \in Through
  BY <1>1, <1>4
<1>6. SUFFICES ASSUME ~stale, active # None, status' = "Completed", kind[active] # "Download"
               PROVE  job'[active] \in {"queued"} \cup Through
  <2>1. count = 0 \/ count \in Ops
    BY RemoteAssumption DEF FullInv, Flow, IInv, TypeOK, Ops
  <2>2. count \in Ops  BY <1>1, <2>1 DEF Ops
  <2>3. QED  BY <1>1, <1>3, <1>5, <2>2 DEF ThroughInv
<1>7. active = count /\ active \in Ops  BY <1>3, <1>6 DEF KindInv, FullInv, IInv, TypeOK
<1>8. CASE job[o] \in Through
  BY <1>1, <1>3, <1>4, <1>5, <1>6, <1>7, <1>8 DEF ThroughInv
<1>9. CASE job[o] \notin Through
  <2>1. o = active  BY <1>1, <1>3, <1>6, <1>7, <1>9 DEF ThroughInv, Ops
  <2>2. kind[o] # "Download"  BY <1>6, <2>1
  <2>3. status = "Completed" => job[o] = "queued"
    BY <1>3, <1>6, <1>9, <2>1 DEF ThroughInv
  <2> USE DEF Goes, Step, Error, CancelRequested, ErrorDisconnects, Ask
  <2>4. CASE Begin(o) \/ Connect(o)  BY <1>2, <1>6, <2>1, <2>3, <2>4 DEF Begin, Begun, Connect
  <2>5. CASE HostKeyCheck(o) \/ Woken(o) \/ Rejected(o) \/ TryMethods(o) \/ NextRound(o)
    BY <1>6, <2>3, <2>5 DEF HostKeyCheck, Woken, Rejected, TryMethods, NextRound
  <2>6. CASE Execute(o) \/ CloseChannel(o) \/ Exited(o)
    BY <1>6, <2>3, <2>6 DEF Execute, CloseChannel, Exited
  <2>7. CASE DownloadFile(o) \/ BrowseRemoteDirectory(o)
    BY <1>6, <2>2, <2>3, <2>7 DEF DownloadFile, BrowseRemoteDirectory
  <2>8. CASE SetStatus(o) \/ Resolve(o)
    BY <1>2, <1>6, <1>9, <2>1, <2>8 DEF SetStatus, Resolve, Through
  <2>9. QED  BY <2>4, <2>5, <2>6, <2>7, <2>8 DEF Work
<1>10. QED  BY <1>8, <1>9

\* A listing is on the bridge when its worker is about to say so.
LEMMA WorkListing ==
    ASSUME FullInv, NEW o \in Ops, Work(o)
    PROVE  ListingInv'
<1>1. /\ o <= count /\ count \in Nat
      /\ job[o] \notin {"none", "resolved"}
      /\ \A p \in Ops : p # o => job'[p] = job[p]
      /\ UNCHANGED <<frame, task, phase, running, busy, view, active, count, kind, listing, stale>>
  BY WorkLeaves
<1>2. job \in [Ops -> JobStates] /\ count \in Ops
  BY <1>1, RemoteAssumption DEF FullInv, Flow, IInv, TypeOK, Ops
<1>3. ThroughInv /\ KindInv /\ ListingInv  BY DEF FullInv, Flow
<1>4. SUFFICES ASSUME ~stale, task = "Browsing", phase = "Browsing"
               PROVE  /\ job'[count] = "succeeding" => entries' = count
                      /\ listing = None /\ status' = "Completed" /\ job'[count] \in Through
                            => entries' = count
                      /\ listing # None /\ frame # "dispatch" =>
                            frame = "read" /\ status' = "Completed" /\ job'[count] \in Through
  BY <1>1, <1>3 DEF ListingInv
<1>5. CASE job[o] \in Through
  <2>1. job'[o] \in Through /\ UNCHANGED <<status, entries>>
    BY <1>5, ThroughResolves DEF Through
  <2>2. job'[count] \in Through <=> job[count] \in Through  BY <1>1, <1>2, <1>5, <2>1
  <2>3. job'[count] = "succeeding" <=> job[count] = "succeeding"
    BY <1>1, <1>2, <1>5, <2>1 DEF Through
  <2>4. QED  BY <1>3, <1>4, <2>1, <2>2, <2>3 DEF ListingInv
<1>6. CASE job[o] \notin Through
  <2>1. o = count /\ kind[o] = "Browse"
    BY <1>1, <1>2, <1>3, <1>4, <1>6 DEF ThroughInv, KindInv, Ops
  <2>2. listing # None => frame = "dispatch"
    BY <1>3, <1>4, <1>6, <2>1 DEF ListingInv
  <2>3. job[o] = "succeeding" => entries = o  BY <1>3, <1>4, <2>1 DEF ListingInv
  <2>4. job[o] \notin {"asking", "methods", "rounds", "rejected", "closing", "exited"}
    BY <1>3, <2>1 DEF KindInv
  <2>5. /\ job'[o] = "succeeding" => entries' = o
        /\ status' = "Completed" /\ job'[o] \in Through => entries' = o
    <3> USE DEF Goes, Step, Error, CancelRequested, ErrorDisconnects, Ask, Through
    <3>1. CASE Begin(o) \/ Connect(o)  BY <1>2, <2>1, <3>1 DEF Begin, Begun, Connect
    <3>2. CASE HostKeyCheck(o) \/ Woken(o) \/ Rejected(o) \/ TryMethods(o) \/ NextRound(o)
      BY <2>1, <2>4, <3>2 DEF HostKeyCheck, Woken, Rejected, TryMethods, NextRound
    <3>3. CASE Execute(o) \/ CloseChannel(o)
      BY <2>1, <2>4, <3>3 DEF Execute, CloseChannel
    <3>4. CASE Exited(o)  BY <2>4, <3>4 DEF Exited
    <3>5. CASE DownloadFile(o) \/ BrowseRemoteDirectory(o)
      BY <1>2, <2>1, <3>5 DEF DownloadFile, BrowseRemoteDirectory
    <3>6. CASE SetStatus(o) \/ Resolve(o)
      BY <1>2, <1>6, <2>3, <3>6 DEF SetStatus, Resolve
    <3>7. QED  BY <3>1, <3>2, <3>3, <3>4, <3>5, <3>6 DEF Work
  <2>6. QED  BY <2>1, <2>2, <2>5
<1>7. QED  BY <1>5, <1>6

LEMMA FlowWork ==
    ASSUME FullInv, NEW o \in Ops, Work(o)
    PROVE  Flow'
BY WorkKind, WorkConnect, WorkQuestion, WorkThrough, WorkListing DEF Flow

-----------------------------------------------------------------------------
(* The steps of a frame.                                                   *)

\* Steps that only go on to the next part of a frame.
LEMMA FlowKeeps ==
    ASSUME Flow,
           UNCHANGED <<event, session, task, phase, running, authenticated, busy, view, active, built,
                       shown, listing, count, kind, status, pending, answer, asked, cancelled,
                       entries, job, stale>>,
           frame \in {"poll", "render"}, frame' \in {"poll", "render"}
    PROVE  Flow'
<1>1. KindInv'  BY DEF Flow, KindInv
<1>2. ConnectInv' /\ QuestionInv' /\ ThroughInv'  BY DEF Flow, ConnectInv, QuestionInv, ThroughInv
<1>3. ListingInv'  BY DEF Flow, ListingInv
<1>4. QED  BY <1>1, <1>2, <1>3 DEF Flow

\* The first read: questions are built for the operation that authenticates, entries are
\* taken once the operation that browses is through.
LEMMA FlowCheck == FullInv /\ Check => Flow'
<1> SUFFICES ASSUME FullInv, Check PROVE Flow'  OBVIOUS
<1>1. /\ Flow /\ IInv /\ active \in Ops /\ active = count /\ frame = "poll" /\ frame' = "read"
      /\ active # None /\ running /\ session = "live"
      /\ UNCHANGED <<event, session, task, phase, running, authenticated, busy, view, active,
                     count, kind, status, pending, answer, asked, cancelled, job>>
  BY RemoteAssumption DEF FullInv, Flow, IInv, TypeOK, Tracked, PolledInv, KindInv, Check, Polls, owner, browser,
     monitor
<1>2. event = None /\ event' = None /\ None \notin Int  BY <1>1, RemoteAssumption DEF Flow, KindInv
<1>3. KindInv'
  BY <1>1, <1>2 DEF Flow, KindInv
<1>4. kind[active] # "Authenticate" => UNCHANGED <<built, shown>>  BY DEF Check
<1>5. ConnectInv'
  BY <1>1, <1>4 DEF Flow, KindInv, ConnectInv
<1>6. QuestionInv'
  <2>1. CASE kind[active] = "Authenticate" /\ status = "AuthRequest"
    <3>1. active = 2 /\ count = 2  BY <1>1, <2>1 DEF Flow, KindInv
    <3>2. job[2] = "asking" /\ pending # None  BY <1>1, <2>1, <3>1 DEF Flow, QuestionInv
    <3>3. /\ shown' = IF built = 0 THEN pending ELSE shown
          /\ built' = IF built = 0 THEN asked ELSE built
      BY <2>1 DEF Check, CheckAuthentication, Builds
    <3>4. built' # 0  BY <1>1, <3>2, <3>3 DEF Flow, QuestionInv
    <3>5. built = 0 => answer = None /\ ~cancelled  BY <1>1, <3>1, <3>2 DEF Flow, QuestionInv
    <3>6. QED  BY <1>1, <3>1, <3>2, <3>3, <3>4, <3>5 DEF Flow, QuestionInv
  <2>2. CASE kind[active] = "Authenticate" /\ status # "AuthRequest"
    <3>1. active = 2 /\ count = 2  BY <1>1, <2>2 DEF Flow, KindInv
    <3>2. job[2] # "asking" /\ shown = None  BY <1>1, <2>2, <3>1, <1>2 DEF Flow, QuestionInv
    <3>3. shown' = shown  BY <2>2 DEF Check, CheckAuthentication
    <3>4. QED  BY <1>1, <3>1, <3>2, <3>3 DEF Flow, QuestionInv
  <2>3. CASE kind[active] # "Authenticate"
    BY <1>1, <1>4, <2>3 DEF Flow, QuestionInv
  <2>4. QED  BY <2>1, <2>2, <2>3
<1>7. stale' = (stale \/ Latched)  BY DEF Check
<1>8. ThroughInv'
  BY <1>1, <1>7 DEF Flow, ThroughInv
<1>9. ListingInv'
  <2>1. SUFFICES ASSUME ~stale, ~Latched, task = "Browsing" PROVE ListingInv'
    BY <1>1, <1>7 DEF ListingInv
  <2>2. phase # "Done"  BY <1>1 DEF Flow, KindInv, Underway
  <2>3. CASE phase \in {"Connecting", "Authenticating"}
    <3>1. kind[count] # "Browse"
      BY <1>1, <2>3, RemoteAssumption DEF Flow, KindInv, IInv, Tracked, PhaseInv
    <3>2. UNCHANGED <<listing, entries>>  BY <1>1, <3>1 DEF Check
    <3>3. QED  BY <1>1, <2>1, <2>3, <3>2 DEF Flow, ListingInv
  <2>4. CASE phase = "Browsing"
    <3>1. kind[active] = "Browse" /\ listing = None /\ busy
      BY <1>1, <2>1, <2>4 DEF Flow, KindInv, ListingInv
    <3>2. CASE status = "Completed"
      <4>1. listing' = entries /\ entries' = 0  BY <3>1, <3>2 DEF Check, Lists
      <4>2. job[active] \in Through
        BY <1>1, <2>1, <3>1, <3>2 DEF Flow, ThroughInv, Latched, Terminal
      <4>3. entries = count  BY <1>1, <2>1, <2>4, <3>1, <3>2, <4>2 DEF Flow, ListingInv
      <4>4. listing' # None  BY <1>1, <1>2, <4>1, <4>3 DEF Ops
      <4>5. QED  BY <1>1, <2>4, <3>1, <3>2, <4>1, <4>2, <4>3, <4>4 DEF ListingInv, Through
    <3>3. CASE status # "Completed"
      <4>1. UNCHANGED <<listing, entries>>  BY <3>3 DEF Check, Lists
      <4>2. QED  BY <1>1, <2>1, <2>4, <3>1, <3>3, <4>1 DEF Flow, ListingInv
    <3>4. QED  BY <3>2, <3>3
  <2>5. QED  BY <1>1, <2>2, <2>3, <2>4 DEF ListingInv
<1>10. QED  BY <1>3, <1>5, <1>6, <1>8, <1>9 DEF Flow

\* The second read: an operation that ends without a stale status is through.
LEMMA FlowRead == FullInv /\ Read => Flow'
<1> SUFFICES ASSUME FullInv, Read PROVE Flow'  OBVIOUS
<1>1. /\ Flow /\ IInv /\ active \in Ops /\ active = count /\ frame = "read"
      /\ active # None /\ running /\ session = "live"
      /\ UNCHANGED <<session, task, phase, running, authenticated, busy, view, built, shown, listing,
                     count, kind, status, pending, answer, asked, cancelled, entries, job>>
  BY RemoteAssumption DEF FullInv, Flow, IInv, TypeOK, Tracked, PolledInv, KindInv, Read, owner, browser, bridge
<1>2. CASE Terminal
  <2>1. frame' = "dispatch" /\ event' = status /\ active' = None /\ stale' = (stale \/ Latched)
    BY <1>2 DEF Read
  <2>2. KindInv'
    <3>1. event' # None  BY <1>2, <2>1, RemoteAssumption DEF Terminal
    <3>2. QED  BY <1>1, <2>1, <3>1 DEF Flow, KindInv
  <2>3. ConnectInv'  BY <1>1, <2>1 DEF Flow, ConnectInv
  <2>4. QuestionInv'
    <3>1. shown = None
      BY <1>1, <1>2 DEF Flow, QuestionInv, Terminal
    <3>2. None # 2  BY RemoteAssumption
    <3>3. QED  BY <1>1, <2>1, <3>1, <3>2 DEF Flow, QuestionInv
  <2>5. ThroughInv'
    <3>1. SUFFICES ASSUME ~stale, ~Latched, status = "Completed", phase # "Downloading"
                   PROVE  job[count] \in Through
      BY <1>1, <2>1 DEF Flow, ThroughInv
    <3>2. kind[active] # "Download"  BY <1>1, <3>1 DEF Flow, KindInv
    <3>3. QED  BY <1>1, <3>1, <3>2 DEF Flow, ThroughInv, Latched, Terminal
  <2>6. ListingInv'  BY <1>1, <2>1 DEF Flow, ListingInv
  <2>7. QED  BY <2>2, <2>3, <2>4, <2>5, <2>6 DEF Flow
<1>3. CASE ~Terminal
  <2>1. frame' = "render" /\ UNCHANGED <<event, active, stale>>  BY <1>3 DEF Read
  <2>2. KindInv'  BY <1>1, <2>1 DEF Flow, KindInv
  <2>3. ConnectInv' /\ QuestionInv' /\ ThroughInv'
    BY <1>1, <2>1 DEF Flow, ConnectInv, QuestionInv, ThroughInv
  <2>4. ListingInv'  BY <1>1, <1>3, <2>1 DEF Flow, ListingInv, Terminal
  <2>5. QED  BY <2>2, <2>3, <2>4 DEF Flow
<1>4. QED  BY <1>2, <1>3

\* Steps of the view that have the workflow where it is: the monitor reaps or has nothing
\* to poll, a frame without an event.
LEMMA FlowIdle ==
    ASSUME FullInv, (\E o \in Ops : Reap(o)) \/ NothingToPoll \/ Idle
    PROVE  Flow'
<1>1. Flow  BY DEF FullInv
<1>2. UNCHANGED <<event, session, task, phase, running, authenticated, busy, view, active, built,
                  shown, listing, count, kind, status, pending, answer, asked, cancelled,
                  entries, job, stale>>
  BY DEF Reap, NothingToPoll, Idle, owner, browser, ssh, monitor, bridge, history
<1>3. frame \in {"poll", "render"} /\ frame' \in {"poll", "render"}
  BY DEF Reap, NothingToPoll, Idle, Polls, Drawn
<1>4. QED  BY <1>1, <1>2, <1>3, FlowKeeps

\* The browser takes what the last operation has listed.
LEMMA FlowPull == FullInv /\ Pull => Flow'
<1> SUFFICES ASSUME FullInv, Pull PROVE Flow'  OBVIOUS
<1>1. /\ Flow /\ frame = "render" /\ session = "live" /\ task = "Browsing"
      /\ listing # None \/ phase = "Failed"
      /\ busy' = FALSE /\ listing' = None /\ view' = IF listing # None THEN listing ELSE view
      /\ UNCHANGED <<frame, event, session, task, phase, running, authenticated, active, built,
                     shown, count, kind, status, pending, answer, asked, cancelled, entries,
                     job, stale>>
  BY DEF FullInv, Pull, Pulls, owner, monitor, bridge, history
<1>2. KindInv'  BY <1>1 DEF Flow, KindInv
<1>3. ConnectInv' /\ QuestionInv' /\ ThroughInv'
  BY <1>1 DEF Flow, ConnectInv, QuestionInv, ThroughInv
<1>4. ListingInv'
  <2>1. ~stale => phase \notin {"Connecting", "Authenticating", "Browsing"}
    BY <1>1 DEF Flow, ListingInv
  <2>2. QED  BY <1>1, <2>1 DEF Flow, ListingInv
<1>5. QED  BY <1>2, <1>3, <1>4 DEF Flow

\* An answer is given to the question that is drawn, and that is the pending one.
LEMMA FlowAnswer ==
    ASSUME FullInv, NEW d \in {"Submit", "Reject"}, Answer(d)
    PROVE  Flow'
<1>1. /\ Flow /\ shown # None /\ shown' = None /\ frame = "render" /\ frame' = "poll"
      /\ answer' = IF pending # None /\ pending[1] = shown[1] THEN <<shown, d>> ELSE answer
      /\ UNCHANGED <<event, session, task, phase, running, authenticated, busy, view, active, built,
                     listing, count, kind, status, pending, asked, cancelled, entries, job, stale>>
  BY DEF FullInv, Answer, Drawn, owner, browser, monitor, history
<1>2. active = 2 /\ pending = shown /\ built # 0 /\ answer' = <<shown, d>>
  BY <1>1 DEF Flow, QuestionInv
<1>3. session # "none"  BY <1>1 DEF Flow, KindInv
<1>4. KindInv'  BY <1>1, <1>3 DEF Flow, KindInv
<1>5. ConnectInv' /\ ThroughInv'  BY <1>1 DEF Flow, ConnectInv, ThroughInv
<1>6. QuestionInv'  BY <1>1, <1>2 DEF Flow, QuestionInv
<1>7. ListingInv'  BY <1>1 DEF Flow, ListingInv
<1>8. QED  BY <1>4, <1>5, <1>6, <1>7 DEF Flow

\* Cancel wakes the worker that waits: the one that authenticates.
LEMMA FlowCancelRequest == FullInv /\ CancelRequest => Flow'
<1> SUFFICES ASSUME FullInv, CancelRequest PROVE Flow'  OBVIOUS
<1>1. /\ Flow /\ shown # None /\ shown' = None /\ frame = "render" /\ frame' = "poll"
      /\ cancelled' = TRUE
      /\ UNCHANGED <<event, session, task, phase, running, authenticated, busy, view, active, built,
                     listing, count, kind, status, pending, answer, asked, entries, job, stale>>
  BY DEF FullInv, CancelRequest, Drawn, owner, browser, monitor, history
<1>2. active = 2 /\ pending = shown /\ built # 0 /\ job[2] = "asking"
  BY <1>1 DEF Flow, QuestionInv
<1>3. session # "none" /\ count = 2
  BY <1>1, <1>2, RemoteAssumption DEF Flow, KindInv
<1>4. KindInv'  BY <1>1, <1>3 DEF Flow, KindInv
<1>5. ConnectInv' /\ ThroughInv'  BY <1>1, <1>3 DEF Flow, ConnectInv, ThroughInv
<1>6. QuestionInv'  BY <1>1, <1>2 DEF Flow, QuestionInv
<1>7. ListingInv'  BY <1>1 DEF Flow, ListingInv
<1>8. QED  BY <1>4, <1>5, <1>6, <1>7 DEF Flow

\* The session goes, and leaves an operation that nobody asks about any more.
LEMMA FlowClose == FullInv /\ Close => Flow'
<1> SUFFICES ASSUME FullInv, Close PROVE Flow'  OBVIOUS
<1>1. /\ Flow /\ frame = "render" /\ frame' = "poll" /\ session' = "gone" /\ phase' = "Idle"
      /\ running' = FALSE /\ authenticated' = FALSE /\ busy' = FALSE
      /\ active' = None /\ built' = 0 /\ shown' = None /\ listing' = None
      /\ UNCHANGED <<event, task, view, count, kind, status, pending, answer, asked, entries, stale>>
  BY DEF FullInv, Close, Drawn, Destroyed
<1>2. \A p \in Ops : job'[p] = job[p] \/ (job[p] = "queued" /\ job'[p] = "resolved")
  BY DEF Close, Destroyed, FullInv, IInv, TypeOK
<1>3. /\ None # 2 /\ count \in Nat /\ 1 \in Ops /\ 2 \in Ops /\ (count >= 1 => count \in Ops)
  BY RemoteAssumption DEF FullInv, IInv, TypeOK, Ops
<1>4. KindInv'
  BY <1>1, <1>2, RemoteAssumption DEF Flow, KindInv, Underway
<1>5. ConnectInv'  BY <1>1, <1>2, <1>3 DEF Flow, ConnectInv, Through
<1>6. QuestionInv'  BY <1>1, <1>2, <1>3 DEF Flow, QuestionInv
<1>7. ThroughInv'  BY <1>1, <1>2 DEF Flow, ThroughInv, Through
<1>8. ListingInv'  BY <1>1 DEF Flow, ListingInv
<1>9. QED  BY <1>4, <1>5, <1>6, <1>7, <1>8 DEF Flow

-----------------------------------------------------------------------------
(* The steps that begin an operation, and those that end a workflow.       *)

\* An operation is begun: it is the last one, queued, and the active one.
LEMMA Begins ==
    ASSUME FullInv, NEW k \in Kinds, BeginOperation(k), active = None, count < MaxOps
    PROVE  /\ count' = count + 1 /\ active' = count' /\ count' \in Ops /\ count \in Nat
           /\ kind'[count'] = k /\ job'[count'] = "queued" /\ job[count'] = "none"
           /\ \A p \in Ops : p # count' => kind'[p] = kind[p] /\ job'[p] = job[p]
           /\ shown = None /\ UNCHANGED cancelled
<1>1. count' = count + 1 /\ count' \in Ops /\ count \in Nat
  BY RemoteAssumption DEF BeginOperation, FullInv, IInv, TypeOK, Ops
<1>2. job[count'] = "none"  BY <1>1 DEF FullInv, IInv, Tracked, BegunInv
<1>3. active # 2  BY RemoteAssumption
<1>4. shown = None  BY <1>3 DEF FullInv, Flow, QuestionInv
<1>5. QED  BY <1>1, <1>2, <1>4 DEF BeginOperation, FullInv, IInv, TypeOK

\* The kinds stay in order when the next operation is begun.
LEMMA BeginsKind ==
    ASSUME FullInv, NEW k \in Kinds, BeginOperation(k), active = None, count < MaxOps,
           k = "Connect" <=> count = 0, k = "Authenticate" <=> count = 1,
           frame' # "dispatch", event' = None, running', session' # "none",
           phase' = "Authenticating" => k = "Authenticate", phase' = "Browsing" => k = "Browse",
           phase' = "Downloading" <=> k = "Download", phase' \in Underway,
           task' = "Browsing" => phase' \notin {"Executing", "Downloading"}
    PROVE  KindInv'
<1>1. /\ count' = count + 1 /\ active' = count' /\ count' \in Ops /\ count \in Nat
      /\ kind'[count'] = k /\ job'[count'] = "queued"
      /\ \A p \in Ops : p # count' => kind'[p] = kind[p] /\ job'[p] = job[p]
  BY Begins
<1>2. 1 \in Ops /\ \A o \in Ops : o <= count' <=> (o <= count \/ o = count')
  BY <1>1, RemoteAssumption DEF Ops
<1>3. KindInv /\ k # None  BY RemoteAssumption DEF FullInv, Flow
<1>4. \A o \in Ops : (o <= count') <=> kind'[o] # None
  BY <1>1, <1>2, <1>3 DEF KindInv
<1>5. kind'[1] = "Connect"
  BY <1>1, <1>2, <1>3 DEF KindInv
<1>6. \A o \in Ops : kind'[o] = "Authenticate" => o = 2  BY <1>1, <1>3 DEF KindInv
<1>7. /\ \A o \in Ops : job'[o] \in {"asking", "methods", "rounds", "rejected"} => kind'[o] = "Authenticate"
      /\ \A o \in Ops : job'[o] \in {"closing", "exited"} => kind'[o] = "Execute"
  BY <1>1, <1>3 DEF KindInv
<1>8. QED  BY <1>1, <1>4, <1>5, <1>6, <1>7 DEF KindInv

\* After the authentication the next operation begins when the one before is through.
LEMMA LaterBegins ==
    ASSUME FullInv, NEW k \in {"Execute", "Download", "Browse"}, BeginOperation(k),
           active = None, count >= 2, count < MaxOps,
           ~stale => job[count] \in Through,
           frame' # "dispatch", event' = None, running', session' # "none",
           \/ phase' = "Executing" /\ k = "Execute"
           \/ phase' = "Downloading" /\ k = "Download"
           \/ phase' = "Browsing" /\ k = "Browse",
           task' # "Browsing" \/ (phase' = "Browsing" /\ (~stale => busy') /\ listing' = None),
           UNCHANGED <<built, shown, status, pending, answer, asked, stale>>
    PROVE  Flow'
<1>1. /\ count' = count + 1 /\ active' = count' /\ count' \in Ops /\ count \in Nat
      /\ kind'[count'] = k /\ job'[count'] = "queued"
      /\ \A p \in Ops : p # count' => kind'[p] = kind[p] /\ job'[p] = job[p]
      /\ shown = None /\ UNCHANGED cancelled
  BY Begins DEF Kinds
<1>2. 1 \in Ops /\ 2 \in Ops  BY RemoteAssumption DEF Ops
<1>3. job'[1] = job[1] /\ job'[2] = job[2]  BY <1>1, <1>2
<1>4. Flow  BY DEF FullInv
<1>5. KindInv'  BY BeginsKind, <1>1 DEF Kinds, Underway
<1>6. ConnectInv'  BY <1>1, <1>3, <1>4 DEF Flow, ConnectInv
<1>7. QuestionInv'  BY <1>1, <1>3, <1>4 DEF Flow, QuestionInv
<1>8. ThroughInv'
  <2>1. ASSUME ~stale, NEW o \in Ops, o < count'  PROVE job'[o] \in Through
    <3>1. o < count \/ o = count  BY <1>1, <2>1 DEF Ops
    <3>2. job'[o] = job[o]  BY <1>1, <2>1
    <3>3. QED  BY <1>4, <2>1, <3>1, <3>2 DEF Flow, ThroughInv
  <2>2. QED  BY <1>1, <2>1 DEF ThroughInv
<1>9. ListingInv'
  BY <1>1 DEF ListingInv, Through
<1>10. QED  BY <1>5, <1>6, <1>7, <1>8, <1>9 DEF Flow

\* The first operation: a new session connects.
LEMMA FlowOpen ==
    ASSUME FullInv, NEW t \in {"Executing", "Browsing"}, NEW w \in SUBSET {"command", "result"},
           Open(t, w)
    PROVE  Flow'
<1>1. /\ Flow /\ session = "none" /\ session' = "live" /\ task' = t /\ busy' = (t = "Browsing")
      /\ phase' = "Connecting" /\ running' = TRUE /\ BeginOperation("Connect")
      /\ listing' = listing /\ frame = "render" /\ frame' = "poll"
      /\ UNCHANGED <<event, authenticated, view, built, shown, status, pending, answer, asked,
                     entries, stale>>
  BY DEF FullInv, Open, Starts, Drawn, history
<1>2. count = 0 /\ active = None /\ count < MaxOps
  BY <1>1, RemoteAssumption DEF FullInv, IInv, Tracked, BegunInv, PolledInv
<1>3. /\ count' = 1 /\ active' = 1 /\ kind'[1] = "Connect" /\ job'[1] = "queued"
      /\ \A p \in Ops : p # 1 => kind'[p] = kind[p] /\ job'[p] = job[p]
      /\ UNCHANGED cancelled
  BY <1>1, <1>2, Begins DEF Kinds
<1>4. /\ status = "Idle" /\ ~cancelled /\ pending = None /\ answer = None
      /\ shown = None /\ listing = None /\ built = 0
  BY <1>1 DEF Flow, KindInv
<1>5. event = None  BY <1>1 DEF Flow, KindInv
<1>6. KindInv'  BY <1>1, <1>2, <1>5, BeginsKind DEF Kinds, Underway
<1>7. ConnectInv'  BY <1>1, <1>2, <1>3, <1>4 DEF Flow, ConnectInv
<1>8. QuestionInv'
  <2>1. 2 \in Ops  BY RemoteAssumption DEF Ops
  <2>2. job[2] = "none"  BY <2>1, <1>2 DEF FullInv, IInv, Tracked, BegunInv, Ops
  <2>3. job'[2] = "none"  BY <2>1, <2>2, <1>3
  <2>4. QED  BY <1>1, <1>3, <1>4, <2>3 DEF QuestionInv
<1>9. ThroughInv'  BY <1>1, <1>3 DEF ThroughInv, Ops
<1>10. ListingInv'  BY <1>1, <1>4 DEF ListingInv
<1>11. QED  BY <1>6, <1>7, <1>8, <1>9, <1>10 DEF Flow

\* A navigation on an authenticated session.
LEMMA FlowBrowsePath == FullInv /\ BrowsePath => Flow'
<1> SUFFICES ASSUME FullInv, BrowsePath PROVE Flow'  OBVIOUS
<1>1. /\ Flow /\ session = "live" /\ task = "Browsing" /\ ~running /\ authenticated
      /\ count < MaxOps /\ busy' = TRUE /\ phase' = "Browsing" /\ running' = TRUE
      /\ BeginOperation("Browse") /\ listing' = None /\ frame = "render" /\ frame' = "poll"
      /\ UNCHANGED <<event, session, task, built, shown, status, pending, answer, asked, stale>>
  BY DEF FullInv, BrowsePath, Starts, Drawn, history
<1>2. active = None /\ event = None
  BY <1>1 DEF FullInv, IInv, Tracked, PolledInv, Flow, KindInv
<1>3. count >= 2 /\ (~stale => job[count] \in Through)
  BY <1>1 DEF Flow, ConnectInv, ThroughInv
<1>4. QED  BY <1>1, <1>2, <1>3, LaterBegins

\* A workflow ends: with a failure, or with its last operation through.
LEMMA FlowEnds ==
    ASSUME FullInv, Dispatch, NEW ph \in {"Done", "Failed"}, Ends(ph),
           event = "Failed" => ph = "Failed",
           ph = "Done" /\ task = "Browsing" => phase = "Browsing"
    PROVE  Flow'
<1>1. /\ Flow /\ frame = "dispatch" /\ frame' = "render" /\ event' = None
      /\ authenticated' = (event = "Completed" /\ (authenticated \/ phase = "Authenticating"))
      /\ phase' = ph /\ running' = FALSE
      /\ UNCHANGED <<session, task, busy, view, active, built, shown, listing, count, kind, status,
                     pending, answer, asked, cancelled, entries, job, stale>>
  BY DEF FullInv, Dispatch, Ends, browser, monitor, history
<1>2. active = None /\ session = "live"
  BY <1>1 DEF FullInv, IInv, Tracked, PolledInv
<1>3. KindInv'  BY <1>1, <1>2 DEF Flow, KindInv, Underway
<1>4. ConnectInv'
  <2>1. authenticated' => count >= 2
    <3>1. phase = "Authenticating" => count >= 2
      BY DEF FullInv, IInv, Tracked, PhaseInv
    <3>2. authenticated' => authenticated \/ phase = "Authenticating"
      <4>1. authenticated' <=> (event = "Completed" /\ (authenticated \/ phase = "Authenticating"))
        BY <1>1, Zenon
      <4>2. QED  BY <4>1
    <3>3. QED  BY <1>1, <3>1, <3>2 DEF Flow, ConnectInv
  <2>2. QED  BY <1>1, <2>1 DEF Flow, ConnectInv
<1>5. QuestionInv'  BY <1>1 DEF Flow, QuestionInv
<1>6. ThroughInv'
  <2>1. SUFFICES ASSUME ~stale, task = "Browsing", authenticated'  PROVE job[count] \in Through
    BY <1>1, <1>2 DEF Flow, ThroughInv
  <2>2. event = "Completed" /\ phase # "Downloading"
    BY <1>1, <2>1 DEF Flow, KindInv
  <2>3. QED  BY <1>1, <2>1, <2>2 DEF Flow, ThroughInv
<1>7. ListingInv'
  BY <1>1 DEF Flow, ListingInv
<1>8. QED  BY <1>3, <1>4, <1>5, <1>6, <1>7 DEF Flow

\* The orchestrator goes on to the next phase on the status of the last operation.
LEMMA FlowDispatch == FullInv /\ Dispatch => Flow'
<1> SUFFICES ASSUME FullInv, Dispatch PROVE Flow'  OBVIOUS
<1>1. /\ Flow /\ frame = "dispatch" /\ frame' = "render" /\ event' = None
      /\ authenticated' = (event = "Completed" /\ (authenticated \/ phase = "Authenticating"))
      /\ UNCHANGED <<session, task, busy, view, built, shown, status, pending, answer, asked,
                     entries, stale>>
  BY DEF FullInv, Dispatch, browser, history
<1>2. active = None /\ session = "live" /\ phase \in Underway /\ event \in {"Completed", "Failed"}
      /\ running
  BY <1>1 DEF Flow, KindInv, FullInv, IInv, TypeOK, Tracked, PolledInv
<1>3. CASE event = "Failed"
  <2>1. Ends("Failed")  BY <1>3 DEF Dispatch
  <2>2. QED  BY <2>1, FlowEnds
<1>4. CASE event = "Completed" /\ phase = "Connecting"
  <2>1. Starts("Authenticating", "Authenticate")  BY <1>4 DEF Dispatch
  <2>2. /\ BeginOperation("Authenticate") /\ phase' = "Authenticating" /\ running' = TRUE
        /\ listing' = listing
    BY <2>1 DEF Starts
  <2>3. count = 1 /\ count < MaxOps
    BY <1>4, RemoteAssumption DEF FullInv, IInv, Tracked, PhaseInv
  <2>4. /\ count' = 2 /\ active' = 2 /\ kind'[2] = "Authenticate" /\ job'[2] = "queued"
        /\ job[2] = "none" /\ \A p \in Ops : p # 2 => job'[p] = job[p]
        /\ shown = None /\ UNCHANGED cancelled
    BY <1>2, <2>2, <2>3, Begins DEF Kinds
  <2>5. status = "Completed" /\ job[1] \in Through /\ ~cancelled
    BY <1>1, <1>2, <1>4, <2>3 DEF Flow, ConnectInv
  <2>6. 1 \in Ops /\ 2 \in Ops  BY RemoteAssumption DEF Ops
  <2>7. pending = None /\ answer = None  BY <1>1, <2>4 DEF Flow, QuestionInv
  <2>8. KindInv'  BY <1>1, <1>2, <2>2, <2>3, BeginsKind DEF Kinds, Underway
  <2>9. ConnectInv'  BY <1>1, <2>4, <2>5, <2>6 DEF ConnectInv
  <2>10. QuestionInv'  BY <1>1, <2>4, <2>5, <2>7 DEF QuestionInv
  <2>11. ThroughInv'
    <3>1. \A o \in Ops : o < 2 => o = 1  BY DEF Ops
    <3>2. QED  BY <1>1, <2>2, <2>4, <2>5, <2>6, <3>1 DEF ThroughInv
  <2>12. ListingInv'
    BY <1>1, <1>4, <2>2 DEF Flow, ListingInv
  <2>13. QED  BY <2>8, <2>9, <2>10, <2>11, <2>12 DEF Flow
<1>5. CASE event = "Completed" /\ phase \in {"Authenticating", "Executing"}
  <2>1. count \in {2, 3} /\ count < MaxOps
    BY <1>5, RemoteAssumption DEF FullInv, IInv, Tracked, PhaseInv
  <2>2. ~stale => job[count] \in Through  BY <1>1, <1>5 DEF Flow, ThroughInv
  <2>3. /\ active = None /\ session' # "none" /\ frame' # "dispatch" /\ event' = None /\ count >= 2
        /\ count < MaxOps
        /\ UNCHANGED <<built, shown, status, pending, answer, asked, stale>>
    BY <1>1, <1>2, <2>1
  <2>4. task = "Browsing" => phase = "Authenticating"  BY <1>1, <1>5 DEF Flow, KindInv
  <2>5. CASE phase = "Authenticating" /\ task = "Browsing"
    <3>1. Starts("Browsing", "Browse")
      BY <1>5, <2>5 DEF Dispatch, AdvanceAfterAuthenticate
    <3>2. BeginOperation("Browse") /\ phase' = "Browsing" /\ running' /\ listing' = None
      BY <3>1 DEF Starts
    <3>3. ~stale => busy'  BY <1>1, <2>5 DEF Flow, ListingInv
    <3>4. QED  BY <2>2, <2>3, <3>2, <3>3, LaterBegins
  <2>6. CASE phase = "Authenticating" /\ task # "Browsing" /\ "command" \in wants
    <3>1. Starts("Executing", "Execute")
      BY <1>5, <2>6 DEF Dispatch, AdvanceAfterAuthenticate
    <3>2. BeginOperation("Execute") /\ phase' = "Executing" /\ running'  BY <3>1 DEF Starts
    <3>3. task' # "Browsing"  BY <1>1, <2>6
    <3>4. QED  BY <2>2, <2>3, <3>2, <3>3, LaterBegins
  <2>7. CASE task # "Browsing" /\ (phase = "Executing" \/ "command" \notin wants)
    <3>1. AdvanceAfterExecute
      BY <1>5, <2>7 DEF Dispatch, AdvanceAfterAuthenticate
    <3>2. CASE "result" \in wants
      <4>1. Starts("Downloading", "Download")  BY <3>1, <3>2 DEF AdvanceAfterExecute
      <4>2. BeginOperation("Download") /\ phase' = "Downloading" /\ running'  BY <4>1 DEF Starts
      <4>3. task' # "Browsing"  BY <1>1, <2>7
      <4>4. QED  BY <2>2, <2>3, <4>2, <4>3, LaterBegins
    <3>3. CASE "result" \notin wants
      <4>1. Ends("Done")  BY <3>1, <3>3 DEF AdvanceAfterExecute
      <4>2. QED  BY <1>5, <2>7, <4>1, FlowEnds
    <3>4. QED  BY <3>2, <3>3
  <2>8. QED  BY <1>5, <2>4, <2>5, <2>6, <2>7
<1>6. CASE event = "Completed" /\ phase \in {"Downloading", "Browsing"}
  <2>1. Ends("Done")  BY <1>6 DEF Dispatch
  <2>2. task = "Browsing" => phase = "Browsing"  BY <1>1, <1>6 DEF Flow, KindInv
  <2>3. QED  BY <1>6, <2>1, <2>2, FlowEnds
<1>7. QED  BY <1>2, <1>3, <1>4, <1>5, <1>6 DEF Underway

-----------------------------------------------------------------------------
(* All steps, and the theorems.                                            *)

LEMMA FlowInit == Init => Flow
<1> SUFFICES ASSUME Init PROVE Flow  OBVIOUS
<1>1. /\ count = 0 /\ active = None /\ frame = "poll" /\ event = None /\ session = "none"
      /\ phase = "Idle" /\ ~running /\ ~authenticated /\ shown = None /\ listing = None
      /\ built = 0 /\ status = "Idle" /\ pending = None /\ answer = None /\ ~cancelled
      /\ \A o \in Ops : kind[o] = None /\ job[o] = "none" /\ ~(o <= 0)
  BY DEF Init, Ops
<1>2. 2 \in Ops /\ None # 2 /\ None \notin Kinds  BY RemoteAssumption DEF Ops
<1>3. KindInv  BY <1>1, <1>2 DEF KindInv, Underway, Kinds
<1>4. ConnectInv  BY <1>1 DEF ConnectInv
<1>5. QuestionInv  BY <1>1, <1>2 DEF QuestionInv
<1>6. ThroughInv  BY <1>1, <1>2 DEF ThroughInv, Ops
<1>7. ListingInv  BY <1>1 DEF ListingInv
<1>8. QED  BY <1>3, <1>4, <1>5, <1>6, <1>7 DEF Flow

LEMMA FlowNext == FullInv /\ [Next]_vars => Flow'
<1> SUFFICES ASSUME FullInv, [Next]_vars PROVE Flow'  OBVIOUS
<1>1. CASE UNCHANGED vars
  <2>1. UNCHANGED <<frame, event, session, task, phase, running, authenticated, busy, view, active,
                    built, shown, listing, count, kind, status, pending, answer, asked, cancelled,
                    entries, job, stale>>
    BY <1>1 DEF vars, owner, browser, ssh, monitor, bridge, history
  <2>2. Flow  BY DEF FullInv
  <2>3. KindInv'  BY <2>1, <2>2 DEF Flow, KindInv
  <2>4. ConnectInv' /\ QuestionInv'  BY <2>1, <2>2 DEF Flow, ConnectInv, QuestionInv
  <2>5. ThroughInv' /\ ListingInv'  BY <2>1, <2>2 DEF Flow, ThroughInv, ListingInv
  <2>6. QED  BY <2>3, <2>4, <2>5 DEF Flow
<1>2. CASE \E o \in Ops : Work(o)  BY <1>2, FlowWork
<1>3. CASE (\E o \in Ops : Reap(o)) \/ NothingToPoll \/ Idle  BY <1>3, FlowIdle
<1>4. CASE Check \/ Read  BY <1>4, FlowCheck, FlowRead
<1>5. CASE Dispatch \/ Pull  BY <1>5, FlowDispatch, FlowPull
<1>6. CASE User
  <2>1. ASSUME NEW w \in SUBSET {"command", "result"}, Open("Executing", w)  PROVE Flow'
    BY <2>1, FlowOpen
  <2>2. CASE Open("Browsing", {})  BY <2>2, FlowOpen
  <2>3. CASE BrowsePath \/ Close  BY <2>3, FlowBrowsePath, FlowClose
  <2>4. CASE (\E d \in {"Submit", "Reject"} : Answer(d)) \/ CancelRequest
    BY <2>4, FlowAnswer, FlowCancelRequest
  <2>5. QED  BY <1>6, <2>1, <2>2, <2>3, <2>4 DEF User
<1>7. QED  BY <1>1, <1>2, <1>3, <1>4, <1>5, <1>6 DEF Next, Frame

LEMMA FullHolds == Spec => []FullInv
<1>1. Init => FullInv  BY InvInit, FlowInit DEF FullInv
<1>2. FullInv /\ [Next]_vars => FullInv'  BY InvNext, FlowNext DEF FullInv
<1>3. QED  BY <1>1, <1>2, PTL DEF Spec

-----------------------------------------------------------------------------
(* What ends an operation before its job.                                  *)

\* Apart from a stale status, an operation is ended by its own job: one that is through with
\* its work, or one that has shown a terminal status too early.
EndedInv ==
    ~stale =>
        /\ \A o \in Ops : mon[o] = "ended" => job[o] \in Through \/ ShowsItsEnd(o)
        /\ active # None /\ Terminal => job[active] \in {"queued"} \cup Through \/ ShowsItsEnd(active)

\* A job that has shown its end gets through without another way.
LEMMA ShownEnds ==
    ASSUME FullInv, NEW o \in Ops, Work(o), ShowsItsEnd(o)
    PROVE  job'[o] \in Through \/ ShowsItsEnd(o)'
<1>1. job \in [Ops -> JobStates] /\ kind' = kind
  BY WorkLeaves DEF FullInv, IInv, TypeOK
<1>2. job[o] \in {"failing", "succeeding", "closing", "exited"}
  BY DEF ShowsItsEnd
<1>3. CASE job[o] \in {"failing", "succeeding"}
  <2>1. SetStatus(o)
    BY <1>3 DEF Work, Begin, Connect, HostKeyCheck, Woken, Rejected, TryMethods, NextRound, Execute,
       CloseChannel, Exited, DownloadFile, BrowseRemoteDirectory, Resolve
  <2>2. job'[o] = "done"  BY <1>1, <2>1 DEF SetStatus, Goes, Step
  <2>3. QED  BY <2>2 DEF Through
<1>4. CASE job[o] \in {"closing", "exited"}
  <2>1. CloseChannel(o) \/ Exited(o)
    BY <1>4 DEF Work, Begin, Connect, HostKeyCheck, Woken, Rejected, TryMethods, NextRound, Execute,
       DownloadFile, BrowseRemoteDirectory, SetStatus, Resolve
  <2>2. job'[o] \in {"exited", "failing", "succeeding"}
    BY <1>1, <2>1 DEF CloseChannel, Exited, CancelRequested, Error, Goes, Step
  <2>3. kind[o] = "Execute"  BY <1>4 DEF FullInv, Flow, KindInv
  <2>4. QED  BY <1>1, <2>2, <2>3 DEF ShowsItsEnd
<1>5. QED  BY <1>2, <1>3, <1>4

\* Whoever writes a terminal status is through, or has shown its end with it.
LEMMA WorkShows ==
    ASSUME FullInv, NEW o \in Ops, Work(o), Terminal',
           Terminal => job[o] = "queued"
    PROVE  job'[o] \in Through \/ ShowsItsEnd(o)'
<1>1. job \in [Ops -> JobStates] /\ kind' = kind
  BY WorkLeaves DEF FullInv, IInv, TypeOK
<1> USE DEF Goes, Step, Error, CancelRequested, ErrorDisconnects, Ask, Terminal
<1>2. job'[o] = "failing" => ShowsItsEnd(o)'  BY DEF ShowsItsEnd
<1>3. CASE Begin(o) \/ Connect(o)
  BY <1>1, <1>2, <1>3 DEF Begin, Begun, Connect
<1>4. CASE HostKeyCheck(o) \/ Woken(o) \/ Rejected(o) \/ TryMethods(o) \/ NextRound(o)
  BY <1>1, <1>2, <1>4 DEF HostKeyCheck, Woken, Rejected, TryMethods, NextRound
<1>5. CASE Execute(o)
  <2>1. CASE job'[o] = "failing"  BY <1>2, <2>1
  <2>2. CASE job'[o] # "failing"
    <3>1. kind[o] = "Execute" /\ job'[o] = "closing"  BY <1>1, <1>5, <2>2 DEF Execute
    <3>2. QED  BY <1>1, <3>1 DEF ShowsItsEnd
  <2>3. QED  BY <2>1, <2>2
<1>6. CASE CloseChannel(o) \/ Exited(o)
  BY <1>1, <1>2, <1>6 DEF CloseChannel, Exited
<1>7. CASE DownloadFile(o)
  <2>1. CASE job'[o] = "failing"  BY <1>2, <2>1
  <2>2. CASE job'[o] # "failing"
    <3>1. kind[o] = "Download" /\ job'[o] = "succeeding"  BY <1>1, <1>7, <2>2 DEF DownloadFile
    <3>2. QED  BY <1>1, <3>1 DEF ShowsItsEnd
  <2>3. QED  BY <2>1, <2>2
<1>8. CASE BrowseRemoteDirectory(o)
  BY <1>1, <1>2, <1>8 DEF BrowseRemoteDirectory
<1>9. CASE SetStatus(o) \/ Resolve(o)
  BY <1>1, <1>9 DEF SetStatus, Resolve, Through
<1>10. QED
  BY <1>3, <1>4, <1>5, <1>6, <1>7, <1>8, <1>9 DEF Work

LEMMA EndedWork ==
    ASSUME FullInv, EndedInv, NEW o \in Ops, Work(o)
    PROVE  EndedInv'
<1>1. /\ o <= count /\ count \in Nat
      /\ \A p \in Ops : p # o => job'[p] = job[p]
      /\ UNCHANGED <<active, count, kind, mon, stale>>
  BY WorkLeaves
<1>2. SUFFICES ASSUME ~stale PROVE EndedInv'  BY <1>1 DEF EndedInv
<1>3. job[o] \in Through => job'[o] \in Through /\ UNCHANGED status
  BY ThroughResolves DEF Through
<1>4. \A p \in Ops : job[p] \in Through \/ ShowsItsEnd(p) => job'[p] \in Through \/ ShowsItsEnd(p)'
  BY <1>1, <1>3, ShownEnds DEF ShowsItsEnd
<1>5. \A p \in Ops : mon'[p] = "ended" => job'[p] \in Through \/ ShowsItsEnd(p)'
  BY <1>1, <1>2, <1>4 DEF EndedInv
<1>6. ASSUME active # None, Terminal'
      PROVE  job'[active] \in {"queued"} \cup Through \/ ShowsItsEnd(active)'
  <2>1. active = count /\ active \in Ops  BY <1>6 DEF FullInv, Flow, KindInv, IInv, TypeOK
  <2>2. CASE job[o] \in Through
    <3>1. Terminal  BY <1>3, <1>6, <2>2 DEF Terminal
    <3>2. job[active] = "queued" => o # active  BY <2>2 DEF Through
    <3>3. QED  BY <1>1, <1>2, <1>4, <1>6, <2>1, <3>1, <3>2 DEF EndedInv
  <2>3. CASE job[o] \notin Through
    <3>1. o = active  BY <1>1, <1>2, <2>1, <2>3 DEF FullInv, Flow, ThroughInv, Ops
    <3>a. active' = o  BY <1>1, <3>1
    <3>2. CASE ShowsItsEnd(o)
      <4>1. job'[o] \in Through \/ ShowsItsEnd(o)'  BY <1>4, <3>2
      <4>2. QED  BY <3>1, <3>a, <4>1 DEF ShowsItsEnd
    <3>3. CASE ~ShowsItsEnd(o)
      <4>1. Terminal => job[o] = "queued"  BY <1>2, <1>6, <2>3, <3>1, <3>3 DEF EndedInv
      <4>2. job'[o] \in Through \/ ShowsItsEnd(o)'  BY <1>6, <4>1, WorkShows
      <4>3. QED  BY <3>1, <3>a, <4>2 DEF ShowsItsEnd
    <3>4. QED  BY <3>2, <3>3
  <2>4. QED  BY <2>2, <2>3
<1>7. QED  BY <1>1, <1>5, <1>6 DEF EndedInv

\* Steps that leave operations and their jobs as they are.
LEMMA EndedKeeps ==
    ASSUME EndedInv, UNCHANGED <<active, kind, mon, status, job>>, stale => stale'
    PROVE  EndedInv'
BY DEF EndedInv, ShowsItsEnd, Terminal

\* A new operation is queued.
LEMMA EndedBegins ==
    ASSUME FullInv, EndedInv, NEW k \in Kinds, BeginOperation(k), active = None, count < MaxOps,
           UNCHANGED stale
    PROVE  EndedInv'
<1>1. /\ active' = count' /\ count' \in Ops /\ job'[count'] = "queued"
      /\ \A p \in Ops : p # count' => kind'[p] = kind[p] /\ job'[p] = job[p]
  BY Begins
<1>2. mon' = [mon EXCEPT ![count'] = "polled"]  BY DEF BeginOperation
<1>3. mon \in [Ops -> {"none", "polled", "ended", "cancelling", "reaped"}]
  BY DEF FullInv, IInv, TypeOK
<1>4. \A p \in Ops : mon'[p] = "ended" => p # count' /\ mon[p] = "ended"  BY <1>1, <1>2, <1>3
<1>5. QED  BY <1>1, <1>4 DEF EndedInv, ShowsItsEnd

LEMMA EndedRead == FullInv /\ EndedInv /\ Read => EndedInv'
<1> SUFFICES ASSUME FullInv, EndedInv, Read PROVE EndedInv'  OBVIOUS
<1>1. active \in Ops /\ mon \in [Ops -> {"none", "polled", "ended", "cancelling", "reaped"}]
  BY DEF FullInv, IInv, TypeOK, Tracked, PolledInv, Read
<1>2. UNCHANGED <<kind, status, job>>  BY DEF Read, bridge
<1>3. CASE ~Terminal
  BY <1>2, <1>3, EndedKeeps DEF Read
<1>4. CASE Terminal
  <2>1. /\ active' = None /\ stale' = (stale \/ Latched)
        /\ mon' = [mon EXCEPT ![active] = IF Resolved(active) THEN "reaped" ELSE "ended"]
    BY <1>4 DEF Read
  <2>2. SUFFICES ASSUME ~stale, ~Latched PROVE EndedInv'  BY <2>1 DEF EndedInv
  <2>3. active # None  BY <1>1, RemoteAssumption DEF Ops
  <2>4. job[active] \in Through \/ ShowsItsEnd(active)
    BY <1>4, <2>2, <2>3 DEF EndedInv, Latched
  <2>5. \A p \in Ops : p # active => mon'[p] = mon[p]  BY <1>1, <2>1
  <2>6. \A p \in Ops : mon'[p] = "ended" => job[p] \in Through \/ ShowsItsEnd(p)
    BY <2>2, <2>4, <2>5 DEF EndedInv
  <2>7. QED  BY <1>2, <2>1, <2>6 DEF EndedInv, ShowsItsEnd
<1>5. QED  BY <1>3, <1>4

LEMMA EndedClose == FullInv /\ EndedInv /\ Close => EndedInv'
<1> SUFFICES ASSUME FullInv, EndedInv, Close PROVE EndedInv'  OBVIOUS
<1>1. active' = None /\ UNCHANGED <<kind, stale>>  BY DEF Close, Destroyed
<1>2. /\ mon \in [Ops -> {"none", "polled", "ended", "cancelling", "reaped"}]
      /\ job \in [Ops -> JobStates]
  BY DEF FullInv, IInv, TypeOK
<1>3. ASSUME NEW p \in Ops, mon'[p] = "ended"  PROVE mon[p] = "ended" /\ job'[p] = job[p]
  <2>1. CASE active = None  BY <1>3, <2>1 DEF Close, Destroyed
  <2>2. CASE active # None
    <3>1. /\ mon' = [mon EXCEPT ![active] = IF Resolved(active) THEN "reaped" ELSE "cancelling"]
          /\ job' = [job EXCEPT ![active] = IF @ = "queued" THEN "resolved" ELSE @]
      BY <2>2 DEF Close, Destroyed
    <3>2. p # active  BY <1>2, <1>3, <3>1
    <3>3. QED  BY <1>2, <1>3, <3>1, <3>2
  <2>3. QED  BY <2>1, <2>2
<1>4. QED  BY <1>1, <1>3 DEF EndedInv, ShowsItsEnd

LEMMA EndedDispatch == FullInv /\ EndedInv /\ Dispatch => EndedInv'
<1> SUFFICES ASSUME FullInv, EndedInv, Dispatch PROVE EndedInv'  OBVIOUS
<1>1. active = None /\ UNCHANGED <<status, stale>>
  BY DEF FullInv, IInv, Tracked, PolledInv, Dispatch, history
<1>2. ASSUME NEW ph \in {"Done", "Failed"}, Ends(ph)  PROVE EndedInv'
  BY <1>1, <1>2, EndedKeeps DEF Ends, monitor
<1>3. ASSUME NEW ph, NEW k \in Kinds, Starts(ph, k), count < MaxOps  PROVE EndedInv'
  <2>1. BeginOperation(k)  BY <1>3 DEF Starts
  <2>2. QED  BY <1>1, <1>3, <2>1, EndedBegins
<1>4. ASSUME AdvanceAfterExecute, count < MaxOps  PROVE EndedInv'
  BY <1>2, <1>3, <1>4 DEF AdvanceAfterExecute, Kinds
<1>5. /\ phase = "Connecting" => count < MaxOps
      /\ phase = "Authenticating" => count < MaxOps
      /\ phase = "Executing" => count < MaxOps
  BY RemoteAssumption DEF FullInv, IInv, Tracked, PhaseInv
<1>6. CASE event = "Failed"  BY <1>2, <1>6 DEF Dispatch
<1>7. CASE event # "Failed" /\ phase = "Connecting"
  <2>1. Starts("Authenticating", "Authenticate")  BY <1>7 DEF Dispatch
  <2>2. QED  BY <1>3, <1>5, <1>7, <2>1 DEF Kinds
<1>8. CASE event # "Failed" /\ phase = "Authenticating"
  <2>1. AdvanceAfterAuthenticate  BY <1>8 DEF Dispatch
  <2>2. QED  BY <1>3, <1>4, <1>5, <1>8, <2>1 DEF AdvanceAfterAuthenticate, Kinds
<1>9. CASE event # "Failed" /\ phase = "Executing"
  BY <1>4, <1>5, <1>9 DEF Dispatch
<1>10. CASE event # "Failed" /\ phase \notin {"Connecting", "Authenticating", "Executing"}
  BY <1>2, <1>10 DEF Dispatch
<1>11. QED  BY <1>6, <1>7, <1>8, <1>9, <1>10

LEMMA EndedNext == FullInv /\ EndedInv /\ [Next]_vars => EndedInv'
<1> SUFFICES ASSUME FullInv, EndedInv, [Next]_vars PROVE EndedInv'  OBVIOUS
<1> USE DEF owner, browser, ssh, monitor, bridge, line, history
<1>1. CASE UNCHANGED vars  BY <1>1, EndedKeeps DEF vars
<1>2. CASE \E o \in Ops : Work(o)  BY <1>2, EndedWork
<1>3. ASSUME NEW o \in Ops, Reap(o)  PROVE EndedInv'
  <2>1. /\ mon' = [mon EXCEPT ![o] = "reaped"]
        /\ UNCHANGED <<active, kind, status, job, stale>>
    BY <1>3 DEF Reap
  <2>2. mon \in [Ops -> {"none", "polled", "ended", "cancelling", "reaped"}]
    BY DEF FullInv, IInv, TypeOK
  <2>3. \A p \in Ops : mon'[p] = "ended" => mon[p] = "ended"  BY <2>1, <2>2
  <2>4. QED  BY <2>1, <2>3 DEF EndedInv, ShowsItsEnd, Terminal
<1>4. CASE NothingToPoll \/ Idle \/ Pull
  BY <1>4, EndedKeeps DEF NothingToPoll, Idle, Pull
<1>5. CASE Check
  BY <1>5, EndedKeeps DEF Check
<1>6. CASE Read \/ Dispatch \/ Close  BY <1>6, EndedRead, EndedDispatch, EndedClose
<1>7. ASSUME NEW t, NEW w, Open(t, w)  PROVE EndedInv'
  <2>1. BeginOperation("Connect") /\ session = "none" /\ UNCHANGED stale
    BY <1>7 DEF Open, Starts
  <2>2. active = None /\ count < MaxOps
    BY <2>1, RemoteAssumption DEF FullInv, IInv, Tracked, BegunInv, PolledInv
  <2>3. QED  BY <2>1, <2>2, EndedBegins DEF Kinds
<1>8. CASE BrowsePath
  <2>1. BeginOperation("Browse") /\ ~running /\ count < MaxOps /\ UNCHANGED stale
    BY <1>8 DEF BrowsePath, Starts
  <2>2. active = None  BY <2>1 DEF FullInv, IInv, Tracked, PolledInv
  <2>3. QED  BY <2>1, <2>2, EndedBegins DEF Kinds
<1>9. CASE CancelRequest \/ \E d \in {"Submit", "Reject"} : Answer(d)
  BY <1>9, EndedKeeps DEF CancelRequest, Answer
<1>10. QED
  BY <1>1, <1>2, <1>3, <1>4, <1>5, <1>6, <1>7, <1>8, <1>9 DEF Next, Frame, User

\* The connection is freed when no worker uses it any more (~SshSession, AppendTeardown,
\* ReapOperation).  What is excepted is an operation that was ended before its job, and the
\* theorem says by what: by a stale status, or by the terminal status that its own job shows
\* too early and that it is still working past (SaveError and IsCancelRequested, SetFileStat
\* of a download, a command that has failed).
THEOREM ConnectionIsSafe == Spec => []ConnectionOutlivesWorker
<1>1. Init => EndedInv
  BY DEF Init, EndedInv
<1>2. FullInv /\ EndedInv /\ [Next]_vars => EndedInv'  BY EndedNext
<1>3. FullInv /\ EndedInv => ConnectionOutlivesWorker
  <2> SUFFICES ASSUME FullInv, EndedInv, NEW o \in Ops, freed, Working(o)
               PROVE  mon[o] = "ended" /\ (stale \/ ShowsItsEnd(o))
    BY DEF ConnectionOutlivesWorker
  <2>1. IInv /\ job[o] \notin {"none", "done", "resolved"}  BY DEF Working, FullInv
  <2>2. mon[o] \notin {"none", "reaped"}
    BY <2>1 DEF IInv, Tracked, BegunInv, TeardownInv, Resolved
  <2>3. mon[o] # "polled"
    BY <2>1, RemoteAssumption DEF IInv, Tracked, PolledInv, TeardownInv, Ops
  <2>4. mon[o] # "cancelling"
    BY <2>1, RemoteAssumption DEF IInv, Tracked, TeardownInv, Resolved, Ops
  <2>5. mon[o] = "ended"  BY <2>1, <2>2, <2>3, <2>4 DEF IInv, TypeOK
  <2>6. QED  BY <2>1, <2>5 DEF EndedInv, Through
<1>4. QED  BY <1>1, <1>2, <1>3, FullHolds, PTL DEF Spec

\* What the user answers is given to the question it was asked with, for any number of
\* questions and operations (AskHostKey, AskPrompts, CheckAuthentication, Submit*): the
\* request that is drawn is always the one the bridge waits for, because only the second
\* operation asks and every wake-up withdraws the question.
THEOREM AnswersAreFitting == Spec => []AnswersFit
<1>1. FullInv => AnswersFit  BY DEF FullInv, Flow, QuestionInv, AnswersFit
<1>2. QED  BY <1>1, FullHolds, PTL

\* The orchestrator advances only on an operation whose worker has ended, a download and a
\* status that was left over by the operation before excepted (Poll, OnRemoteStatus).
THEOREM PhasesEarned == Spec => PhasesAreEarned
<1>1. ASSUME FullInv, FullInv', [Next]_vars, frame = "read", event' = "Completed", ~stale'
      PROVE  kind[active] = "Download" \/ ~Working(active)
  <2>1. frame' = "dispatch" /\ event = None /\ event' # event
    BY <1>1, RemoteAssumption DEF FullInv, Flow, KindInv
  <2>2. Read
    <3>1. ~UNCHANGED vars  BY <2>1, <1>1 DEF vars
    <3>2. ~User
      BY <1>1 DEF User, Open, BrowsePath, Close, Answer, CancelRequest, Drawn
    <3>3. ~(\E o \in Ops : Work(o))
      BY <2>1, WorkLeaves, <1>1
    <3>4. ~((\E o \in Ops : Reap(o)) \/ NothingToPoll \/ Check \/ Dispatch \/ Pull \/ Idle)
      BY <1>1 DEF Reap, NothingToPoll, Check, Polls, Dispatch, Pull, Idle, Drawn
    <3>5. QED  BY <1>1, <3>1, <3>2, <3>3, <3>4 DEF Next, Frame
  <2>3. Terminal /\ event' = status /\ stale' = (stale \/ Latched)
    BY <2>1, <2>2 DEF Read
  <2>4. status = "Completed" /\ ~stale /\ job[active] # "queued" /\ active # None
    BY <1>1, <2>3 DEF Latched, FullInv, IInv, Tracked, PolledInv
  <2>5. kind[active] = "Download" \/ job[active] \in Through
    BY <1>1, <2>4 DEF FullInv, Flow, ThroughInv
  <2>6. QED  BY <2>5 DEF Working, Through
<1>2. FullInv /\ FullInv' /\ [Next]_vars
         => [frame = "read" /\ event' = "Completed" /\ ~stale'
             => kind[active] = "Download" \/ ~Working(active)]_vars
  BY <1>1
<1>3. QED  BY <1>2, FullHolds, PTL DEF Spec, PhasesAreEarned

\* After a navigation the browser lists what the last operation has listed, for any number of
\* navigations (BrowseRemoteDirectory, CheckBrowsing, ConsumeIfUpdated).
THEOREM BrowserLists == Spec => []BrowserListsTheLast
<1>1. FullInv => BrowserListsTheLast
  <2>1. ASSUME FullInv, phase = "Done"  PROVE count \in Nat /\ count # None
    BY <2>1, RemoteAssumption DEF FullInv, IInv, TypeOK
  <2>2. QED  BY <2>1 DEF FullInv, Flow, ListingInv, BrowserListsTheLast
<1>2. QED  BY <1>1, FullHolds, PTL

=============================================================================
