----------------------------- MODULE JobPromise -----------------------------
(***************************************************************************)
(* What the job system promises to the owner of a controller future: a job *)
(* that was issued is run at most once, it is dropped only while it waits, *)
(* and the result it resolves to never changes.  JobSystem implements this *)
(* specification.                                                          *)
(***************************************************************************)
CONSTANTS
    Jobs,     \* jobs, one per controller future
    Results   \* what a JobFunction can return

VARIABLE promise  \* promise[j]: where job j is, or the result it resolved to

Init == promise = [j \in Jobs |-> "none"]

Issue(j) ==
    /\ promise[j] = "none"
    /\ promise' = [promise EXCEPT ![j] = "queued"]

Start(j) ==
    /\ promise[j] = "queued"
    /\ promise' = [promise EXCEPT ![j] = "running"]

Finish(j) ==
    /\ promise[j] = "running"
    /\ \E r \in Results : promise' = [promise EXCEPT ![j] = r]

\* One job is cancelled, or all that wait when the system shuts down.
Drop(S) ==
    /\ \A j \in S : promise[j] = "queued"
    /\ promise' = [j \in Jobs |-> IF j \in S THEN "Cancelled" ELSE promise[j]]

Next ==
    \/ \E j \in Jobs : Issue(j) \/ Start(j) \/ Finish(j)
    \/ \E S \in SUBSET Jobs : Drop(S)

Spec == Init /\ [][Next]_promise

\* The result a future resolved to never changes.
ResultIsFinal ==
    [][\A j \in Jobs : promise[j] \in Results => promise'[j] = promise[j]]_promise
=============================================================================
