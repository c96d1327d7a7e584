---------------------- MODULE ProfilerSession_proofs ----------------------
(***************************************************************************)
(* Proofs about ProfilerSession: its type invariant, and that neither a    *)
(* final state nor a resolved future is seen before the process is over.   *)
(*                                                                         *)
(* The inductive invariant says what each thread has learnt about the      *)
(* process at the labels where it is about to publish it; nothing the      *)
(* other thread does can make the process come back.                       *)
(***************************************************************************)
EXTENDS ProfilerSession, TLAPS

\* Before the launch there is no process; only a running job has a thread.
LaunchInv ==
    /\ state = "Idle" => child = "none" /\ job = "none"
    /\ pc["monitor"] # "off" => job = "running"

\* The labels a thread reaches only when the process is over.
OverInv ==
    /\ pid = "none" \/ ~running => Over
    /\ \A t \in Threads :
        /\ pc[t] \in {"match", "forget", "cancelled", "reaped"} => Over
        /\ pc[t] = "same?" /\ got[t] # "0" => Over
    /\ pc["monitor"] \in {"exit", "settle", "resolve"} => Over
    /\ pc["ui"] = "bound" /\ job # "none" => Over
    /\ FinalMeansOver /\ ResolvedMeansOver

IInv == TypeOK /\ LaunchInv /\ OverInv

-----------------------------------------------------------------------------
\* Every label an operation may return to is one.
LEMMA ReturnLabels ==
    ASSUME NEW t \in Threads
    PROVE  AfterCancel(t) \in Labels /\ Yes(t) \in Labels /\ No(t) \in Labels
BY DEF AfterCancel, Yes, No, Labels

\* Where each operation returns to, by what it was called for.
LEMMA Returns ==
    ASSUME NEW t \in Threads
    PROVE  /\ AfterCancel(t) \in {"drain", "join", "close", "bound"}
           /\ Yes(t) \in {"loop", "drain", "ended?"}
           /\ No(t) \in {"exit", "resolve", "close"}
BY DEF AfterCancel, Yes, No

-----------------------------------------------------------------------------
(* Type correctness.                                                       *)

LEMMA TypeInit == Init => TypeOK
BY CodesAssumption DEF Init, TypeOK, Threads, Labels

\* One step of either thread within Cancel.
LEMMA TypeCancel ==
    ASSUME TypeOK, NEW t \in Threads, CancelStep(t)
    PROVE  TypeOK'
<1> USE DEF TypeOK, Labels, Goto, Call, controller, executor, process, future, threads
<1>0. AfterCancel(t) \in Labels  BY ReturnLabels
<1>1. CASE CancelState(t)
  BY <1>0, <1>1 DEF CancelState
<1>2. CASE CancelPid(t)
  BY <1>0, <1>2 DEF CancelPid
<1>3. CASE Terminate(t)
  <2>1. running' \in BOOLEAN
    <3>1. running' = FALSE \/ running' = running  BY <1>3, Zenon DEF Terminate
    <3>2. QED  BY <3>1, Zenon DEF TypeOK
  <2>2. pid' \in {"none", pid}  BY <1>3, Zenon DEF Terminate
  <2>3. signals' \in {signals, signals \cup {"TERM"}}  BY <1>3, Zenon DEF Terminate
  <2>4. pc' \in [Threads -> Labels]
    <3>1. Goto(t, AfterCancel(t)) \/ Goto(t, "grace")  BY <1>3, Zenon DEF Terminate
    <3>2. QED  BY <1>0, <3>1 DEF Goto, TypeOK, Labels
  <2>5. UNCHANGED <<controller, code, child, status, future, session, in, got>>
    BY <1>3, Zenon DEF Terminate
  <2>6. QED
    BY <2>1, <2>2, <2>3, <2>4, <2>5 DEF TypeOK, controller, future
<1>4. CASE GraceEnds(t)
  BY <1>0, <1>4 DEF GraceEnds, Waitpid, Escalates
<1>5. CASE Kill(t)
  BY <1>0, <1>5 DEF Kill
<1>6. CASE Reap(t)
  BY <1>0, <1>6 DEF Reap, Waitpid, Reaps
<1>7. CASE CancelMatch(t)
  BY <1>0, <1>7 DEF CancelMatch, MatchedCode, Matches
<1>8. CASE CancelForget(t)
  <2>1. running' \in BOOLEAN  BY <1>8 DEF CancelForget, TypeOK
  <2>2. QED
    BY <1>0, <1>8, <2>1 DEF CancelForget
<1>9. CASE SetCancelled(t)
  BY <1>0, <1>9 DEF SetCancelled
<1>10. QED  BY <1>1, <1>2, <1>3, <1>4, <1>5, <1>6, <1>7, <1>8, <1>9, CancelStep(t) DEF CancelStep

\* One step of either thread within IsRunning.
LEMMA TypePoll ==
    ASSUME TypeOK, NEW t \in Threads, PollStep(t)
    PROVE  TypeOK'
<1> USE DEF TypeOK, Labels, Goto, Call, controller, executor, process, future, threads
<1>0. Yes(t) \in Labels /\ No(t) \in Labels  BY ReturnLabels
<1>1. CASE IsRunning(t)
  BY <1>0, <1>1 DEF IsRunning
<1>2. CASE Poll(t)
  BY <1>0, <1>2 DEF Poll, Waitpid
<1>3. CASE PollMatch(t)
  BY <1>0, <1>3 DEF PollMatch, MatchedCode, Matches
<1>4. CASE PollForget(t)
  <2>1. running' \in BOOLEAN  BY <1>4 DEF PollForget, TypeOK
  <2>2. QED
    BY <1>0, <1>4, <2>1 DEF PollForget
<1>5. QED  BY <1>1, <1>2, <1>3, <1>4, PollStep(t) DEF PollStep

\* Any step: the View, the monitor job, the process.
LEMMA TypeNext == TypeOK /\ [Next]_vars => TypeOK'
<1> SUFFICES ASSUME TypeOK, [Next]_vars PROVE TypeOK'  OBVIOUS
<1> USE DEF TypeOK, Threads, Labels, Goto, Call, controller, executor, process, future, threads
<1>a. CASE \E t \in Threads : CancelStep(t)  BY <1>a, TypeCancel
<1>b. CASE \E t \in Threads : PollStep(t)    BY <1>b, TypePoll
<1>1. CASE LaunchFails
  BY <1>1 DEF LaunchFails
<1>2. CASE Launch
  BY <1>2 DEF Launch
<1>3. CASE PressCancel
  BY <1>3 DEF PressCancel
<1>4. CASE Close
  BY <1>4 DEF Close
<1>5. CASE Release
  <2>1. active' \in BOOLEAN  BY <1>5 DEF Release, ActiveAfterFree
  <2>2. QED
    BY <1>5, <2>1 DEF Release
<1>6. CASE CancelFuture
  BY <1>6 DEF CancelFuture
<1>7. CASE Join
  BY <1>7 DEF Join
<1>8. CASE CloseHandles
  BY <1>8 DEF CloseHandles
<1>9. CASE StartJob
  BY <1>9 DEF StartJob
<1>10. CASE Loop
  BY <1>10 DEF Loop
<1>11. CASE UpdateState
  BY <1>11 DEF UpdateState
<1>12. CASE ReadExitCode
  BY <1>12 DEF ReadExitCode
<1>13. CASE SetState
  BY <1>13 DEF SetState
<1>14. CASE Drain
  BY <1>14 DEF Drain
<1>15. CASE Resolve
  BY <1>15 DEF Resolve
<1>16. CASE ChildExits
  BY <1>16 DEF ChildExits
<1>17. CASE UNCHANGED vars
  BY <1>17 DEF vars
<1>18. QED
  BY <1>a, <1>b, <1>1, <1>2, <1>3, <1>4, <1>5, <1>6, <1>7, <1>8, <1>9, <1>10, <1>11,
     <1>12, <1>13, <1>14, <1>15, <1>16, <1>17
     DEF Next, UIStep, MonitorStep, Threads

\* Every reachable state is well typed: the labels, the exit codes and the
\* signals are those the code knows.
THEOREM TypeCorrect == Spec => []TypeOK
<1>1. QED  BY TypeInit, TypeNext, PTL DEF Spec

-----------------------------------------------------------------------------
(* What a thread publishes about the process is so.                        *)

LEMMA OverInit == Init => LaunchInv /\ OverInv
BY DEF Init, LaunchInv, OverInv, Over, FinalMeansOver, ResolvedMeansOver, Threads

\* Cancel passes its waits only with the process reaped.
LEMMA OverCancel ==
    ASSUME IInv, NEW t \in Threads, CancelStep(t)
    PROVE  LaunchInv' /\ OverInv'
<1> USE DEF IInv, TypeOK, LaunchInv, OverInv, Over, FinalMeansOver, ResolvedMeansOver, Goto, Call,
         Threads, controller, executor, process, future, threads
<1>0. AfterCancel(t) \in {"drain", "join", "close", "bound"}  BY Returns
<1>1. CASE CancelState(t)
  BY <1>0, <1>1 DEF CancelState
<1>2. CASE CancelPid(t)
  BY <1>0, <1>2 DEF CancelPid
<1>3. CASE Terminate(t)
  BY <1>0, <1>3 DEF Terminate
<1>4. CASE GraceEnds(t)
  BY <1>0, <1>4 DEF GraceEnds, Waitpid, Escalates
<1>5. CASE Kill(t)
  BY <1>0, <1>5 DEF Kill
<1>6. CASE Reap(t)
  BY <1>0, <1>6 DEF Reap, Waitpid, Reaps
<1>7. CASE CancelMatch(t)
  BY <1>0, <1>7 DEF CancelMatch
<1>8. CASE CancelForget(t)
  BY <1>0, <1>8 DEF CancelForget
<1>9. CASE SetCancelled(t)
  BY <1>0, <1>9 DEF SetCancelled
<1>10. QED  BY <1>1, <1>2, <1>3, <1>4, <1>5, <1>6, <1>7, <1>8, <1>9, CancelStep(t) DEF CancelStep

\* IsRunning answers no only with the process reaped.
LEMMA OverPoll ==
    ASSUME IInv, NEW t \in Threads, PollStep(t)
    PROVE  LaunchInv' /\ OverInv'
<1> USE DEF IInv, TypeOK, LaunchInv, OverInv, Over, FinalMeansOver, ResolvedMeansOver, Goto, Call,
         Threads, controller, executor, process, future, threads
<1>0. Yes(t) \in {"loop", "drain", "ended?"} /\ No(t) \in {"exit", "resolve", "close"}
  BY Returns
<1>1. CASE IsRunning(t)
  BY <1>0, <1>1 DEF IsRunning
<1>2. CASE Poll(t)
  BY <1>0, <1>2 DEF Poll, Waitpid
<1>3. CASE PollMatch(t)
  BY <1>0, <1>3 DEF PollMatch, Matches
<1>4. CASE PollForget(t)
  BY <1>0, <1>4 DEF PollForget
<1>5. QED  BY <1>1, <1>2, <1>3, <1>4, PollStep(t) DEF PollStep

\* Any other step keeps what was learnt.
LEMMA OverNext == IInv /\ [Next]_vars => LaunchInv' /\ OverInv'
<1> SUFFICES ASSUME IInv, [Next]_vars PROVE LaunchInv' /\ OverInv'  OBVIOUS
<1>a. CASE \E t \in Threads : CancelStep(t)  BY <1>a, OverCancel
<1>b. CASE \E t \in Threads : PollStep(t)    BY <1>b, OverPoll
<1> USE DEF IInv, TypeOK, LaunchInv, OverInv, Over, FinalMeansOver, ResolvedMeansOver, Goto, Call,
         Threads, controller, executor, process, future, threads
<1>1. CASE LaunchFails
  BY <1>1 DEF LaunchFails
<1>2. CASE Launch
  BY <1>2 DEF Launch, Free
<1>3. CASE PressCancel
  BY <1>3 DEF PressCancel
<1>4. CASE Close
  BY <1>4 DEF Close
<1>5. CASE Release
  BY <1>5 DEF Release
<1>6. CASE CancelFuture
  BY <1>6 DEF CancelFuture
<1>7. CASE Join
  BY <1>7 DEF Join
<1>8. CASE CloseHandles
  BY <1>8 DEF CloseHandles
<1>9. CASE StartJob
  BY <1>9 DEF StartJob
<1>10. CASE Loop
  BY <1>10 DEF Loop
<1>11. CASE UpdateState
  BY <1>11 DEF UpdateState
<1>12. CASE ReadExitCode
  BY <1>12 DEF ReadExitCode
<1>13. CASE SetState
  BY <1>13 DEF SetState
<1>14. CASE Drain
  BY <1>14 DEF Drain
<1>15. CASE Resolve
  BY <1>15 DEF Resolve
<1>16. CASE ChildExits
  BY <1>16 DEF ChildExits
<1>17. CASE UNCHANGED vars
  BY <1>17 DEF vars
<1>18. QED
  BY <1>a, <1>b, <1>1, <1>2, <1>3, <1>4, <1>5, <1>6, <1>7, <1>8, <1>9, <1>10, <1>11,
     <1>12, <1>13, <1>14, <1>15, <1>16, <1>17
     DEF Next, UIStep, MonitorStep, Threads

\* The strengthening that FinalMeansOver and ResolvedMeansOver need.
LEMMA Inductive == Spec => []IInv
<1>1. Init => IInv  BY TypeInit, OverInit DEF IInv
<1>2. IInv /\ [Next]_vars => IInv'  BY TypeNext, OverNext DEF IInv
<1>3. QED  BY <1>1, <1>2, PTL DEF Spec

\* However Cancel and the monitor interleave on the unguarded fields of the
\* executor, a final state is published only when the process has been reaped.
THEOREM FinalStatesAreFinal == Spec => []FinalMeansOver
<1>1. IInv => FinalMeansOver  BY DEF IInv, OverInv
<1>2. QED  BY <1>1, Inductive, PTL

\* The future of the session resolves only when the process has been reaped, also
\* when its job is cancelled before a worker takes it.
THEOREM FuturesResolveLate == Spec => []ResolvedMeansOver
<1>1. IInv => ResolvedMeansOver  BY DEF IInv, OverInv
<1>2. QED  BY <1>1, Inductive, PTL
=============================================================================
