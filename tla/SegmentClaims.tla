--------------------------- MODULE SegmentClaims ---------------------------
(***************************************************************************)
(* What the fetch protocol of a segment timeline promises to the jobs that *)
(* use it, whatever the jobs load and however eviction interferes: a       *)
(* segment is being fetched by at most one job at a time, a job takes all  *)
(* the segments it needs in one step, and it gives them back run by run.   *)
(* SegmentCache implements this specification.                             *)
(***************************************************************************)
CONSTANTS
    Jobs,  \* jobs that may fetch concurrently
    Segs   \* segments of the timeline

VARIABLE claim  \* claim[j]: the segments job j is fetching

Init == claim = [j \in Jobs |-> {}]

Free(S) == \A j \in Jobs : claim[j] \cap S = {}

Acquire(j, S) ==
    /\ claim[j] = {}
    /\ Free(S)
    /\ claim' = [claim EXCEPT ![j] = S]

Release(j, S) ==
    /\ S \subseteq claim[j]
    /\ claim' = [claim EXCEPT ![j] = @ \ S]

Next ==
    \E j \in Jobs, S \in SUBSET Segs : Acquire(j, S) \/ Release(j, S)

Spec == Init /\ [][Next]_claim

\* A segment is never fetched by two jobs at once.
Exclusive == \A i, j \in Jobs : i # j => claim[i] \cap claim[j] = {}
=============================================================================
