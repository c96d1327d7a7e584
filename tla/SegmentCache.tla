---------------------------- MODULE SegmentCache ----------------------------
(***************************************************************************)
(* The segment cache of one track: the jobs that run Track::FetchSegments, *)
(* the timeline they share (SegmentTimeline), and the thread that evicts   *)
(* its segments (MemoryManager::ManageLRU).  Time is counted in ticks from *)
(* the first timestamp of the track; a segment lasts SegDur ticks.         *)
(*                                                                         *)
(* A step is what a thread does while it holds the timeline mutex, or      *)
(* between two tests of the future's cancel flag.  The mutex is held for   *)
(* longer than a step only by a walk (shared) and by a sweep (exclusive).  *)
(***************************************************************************)
EXTENDS Integers, FiniteSets

CONSTANTS
    Jobs,        \* concurrent calls of Track::FetchSegments; a job names its array
    Pinned,      \* the jobs that enter array ownership first (Graph::GenerateLOD)
    SegDur,      \* ticks in a segment (kSegmentDuration)
    TrackEnd,    \* last timestamp of the track
    Events,      \* the rows of the database: [start, end]
    Requests,    \* the intervals asked for, clamped to the track: [start, end]
    Queries,     \* queries a range is split into (num_threads)
    MayFail,     \* database queries may fail
    MayEvict,    \* the memory limit may be exceeded
    ColdStart,   \* the timeline is not initialised yet
    ColdLRU,     \* no segment of this timeline was ever referenced by the LRU
    MaxFetches   \* bound on the calls made in a behaviour

Interval == [start : 0 .. TrackEnd, end : 0 .. TrackEnd]

ASSUME ConstantsAssumption ==
    /\ Pinned \subseteq Jobs
    /\ SegDur \in Nat \ {0} /\ TrackEnd \in Nat \ {0}
    /\ Events \subseteq [start : Nat, end : Nat]
    /\ \A e \in Events : e.start <= e.end   \* others are skipped (track.cpp:331)
    /\ Requests \subseteq Interval
    /\ Queries \in Nat \ {0}
    /\ MayFail \in BOOLEAN /\ MayEvict \in BOOLEAN
    /\ ColdStart \in BOOLEAN /\ ColdLRU \in BOOLEAN
    /\ MaxFetches \in Nat

VARIABLES
    \* --- SegmentTimeline
    inits,      \* how many times SegmentTimeline::Init ran; 0: duration is 0
    valid,      \* m_valid_segments
    processed,  \* m_processed_segments: segments being fetched
    present,    \* keys of m_segments
    content,    \* entries of each segment
    \* --- MemoryManager
    lruKnown,   \* the timeline is a key of m_lru_array
    lru,        \* the arrays that reference a segment; {}: not in the LRU
    inUse,      \* m_lru_inuse_lookup
    configured, \* m_lru_configured
    evPc,       \* where ManageLRU is
    evLock,     \* outcome of LockTimelines: "none", "held", "failed"
    evTodo,     \* segments the sweep has not visited
    \* --- the jobs
    pc, req, claimed, run, query, todo, result, walk, held, got, cancelled,
    fetches     \* calls made so far

timeline == <<inits, valid, processed, present, content>>
memory   == <<lruKnown, lru, inUse, configured>>
evictor  == <<evPc, evLock, evTodo>>
jobs     == <<pc, req, claimed, run, query, todo, result, walk, held, got,
              cancelled, fetches>>
vars == <<timeline, memory, evictor, jobs>>

-----------------------------------------------------------------------------
(* Geometry of the timeline.                                               *)

CeilDiv(a, b) == (a + b - 1) \div b

NumSegs == CeilDiv(TrackEnd, SegDur)
Segs    == 0 .. NumSegs - 1   \* segments that have a valid and a processed bit
Slots   == 0 .. NumSegs       \* keys m_segments can have: TrackEnd may open one more

\* [start_index, end_index) of Track::FetchSegments.
Needed(r) == { i \in Segs : r.start \div SegDur <= i /\ i < CeilDiv(r.end, SegDur) }

\* fetch_ranges.front(): the first maximal run of consecutive segments of S.
FirstRun(S) == { i \in S : \A k \in S : \A m \in k .. i : m \in S }

\* The part of a run that query q of Queries reads: rows with start < hi, end > lo.
\* The bounds are computed on doubles and truncated.
Part(R, q) ==
    LET lo    == CHOOSE i \in R : \A k \in R : i <= k
        width == Cardinality(R) * SegDur
    IN  [start |-> lo * SegDur + ((q - 1) * width) \div Queries,
         end   |-> lo * SegDur + (q * width) \div Queries]

\* Mutant: the condition counters use, on the start of the row alone.
RowsMutant(p) == { e \in Events : p.start <= e.start /\ e.start <= p.end }

\* BuildSliceQuery: a part that covers the track has no time condition.
Rows(p) ==
    IF p.start = 0 /\ p.end >= TrackEnd
    THEN Events
    ELSE { e \in Events : e.start < p.end /\ e.end > p.start }

\* GetNumberOfEventsForTimeRange may be 0.  The buckets reach past the range, so they
\* may count more; an event without duration is in none of them (overlap_end >
\* overlap_start), and one that ends where the range starts may be in one before it.
HistogramEmpty(R) ==
    \A e \in Events : e.start < e.end =>
        \A i \in R : e.start > (i + 1) * SegDur \/ e.end <= i * SegDur

\* The segments Track::SetObject files an event under.
SlotsOf(e) == e.start \div SegDur .. e.end \div SegDur

OnTrack(e) == e.end <= TrackEnd

\* GetMaxTimestamp() >= t
ReachesTo(s, t) == \E e \in content[s] : e.end >= t

\* lower .. upper of SegmentTimeline::FetchSegments.
WalkSet(r) ==
    { s \in present :
        /\ s * SegDur <= r.end
        /\ \E f \in present : f <= s /\ ReachesTo(f, r.start) }

\* The test of Segment::Fetch, and the entries it emits.
Overlaps(s, r) == s * SegDur <= r.end /\ ((s + 1) * SegDur >= r.start \/ ReachesTo(s, r.start))
Emitted(s, r)  == { e \in content[s] : e.start <= r.end /\ e.end >= r.start }

-----------------------------------------------------------------------------
NoRequest == [start |-> 0, end |-> 0]

Results == {"OutOfRange", "Success", "Cancelled", "UnknownError"}

Init ==
    /\ inits = IF ColdStart THEN 0 ELSE 1
    /\ valid = {} /\ processed = {} /\ present = {}
    /\ content = [s \in Slots |-> {}]
    /\ lruKnown = ~ColdLRU
    /\ lru = [s \in Slots |-> {}]
    /\ inUse = {}
    /\ configured = TRUE
    /\ evPc = "idle" /\ evLock = "none" /\ evTodo = {}
    /\ pc = [j \in Jobs |-> "idle"]
    /\ req = [j \in Jobs |-> NoRequest]
    /\ claimed = [j \in Jobs |-> {}]
    /\ run = [j \in Jobs |-> {}]
    /\ query = [j \in Jobs |-> 0]
    /\ todo = [j \in Jobs |-> {}]
    /\ result = [j \in Jobs |-> "OutOfRange"]
    /\ walk = [j \in Jobs |-> {}]
    /\ held = [j \in Jobs |-> {}]
    /\ got = [j \in Jobs |-> {}]
    /\ cancelled = [j \in Jobs |-> FALSE]
    /\ fetches = 0

Goto(j, label) == pc' = [pc EXCEPT ![j] = label]

Walkers      == { j \in Jobs : pc[j] = "walk" }
SharedFree   == evLock # "held"
ExclusiveFree == SharedFree /\ Walkers = {}

-----------------------------------------------------------------------------
(* Track::FetchSegments.                                                   *)

\* The call: Graph::GenerateLOD registers its array first; the segment duration
\* is read without the mutex to decide whether the timeline needs Init.
Begin(j) ==
    /\ pc[j] = "idle" /\ fetches < MaxFetches
    /\ \E r \in Requests : req' = [req EXCEPT ![j] = r]
    /\ inUse' = IF j \in Pinned THEN inUse \cup {j} ELSE inUse
    /\ Goto(j, IF inits = 0 THEN "init" ELSE "claim")
    /\ fetches' = fetches + 1
    /\ UNCHANGED <<timeline, lruKnown, lru, configured, evictor, claimed, run, query,
                   todo, result, walk, held, got, cancelled>>

\* SegmentTimeline::Init: both bit sets are filled with zeros.
InitTimeline(j) ==
    /\ pc[j] = "init" /\ ExclusiveFree
    /\ inits' = inits + 1
    /\ valid' = {} /\ processed' = {}
    /\ Goto(j, "claim")
    /\ UNCHANGED <<present, content, memory, evictor, req, claimed, run, query, todo,
                   result, walk, held, got, cancelled, fetches>>

\* Mutant: only the first needed segment is waited for.
SegmentsFreeMutant(j) == req[j].start \div SegDur \notin processed

\* The predicate of both waits on m_cv: no needed segment is being fetched.
SegmentsFree(j) == Needed(req[j]) \cap processed = {}

\* Wait, then claim the missing segments under the same lock.
Claim(j) ==
    LET missing == Needed(req[j]) \ valid IN
    /\ pc[j] = "claim" /\ ExclusiveFree
    /\ SegmentsFree(j)
    /\ processed' = processed \cup missing
    /\ claimed' = [claimed EXCEPT ![j] = missing]
    /\ Goto(j, IF missing = {} THEN "settle" ELSE "range")
    /\ UNCHANGED <<inits, valid, present, content, memory, evictor, req, run, query,
                   todo, result, walk, held, got, cancelled, fetches>>

\* The next range, when the future was cancelled before it.
SkipRange(j) ==
    /\ pc[j] = "range" /\ cancelled[j]
    /\ run' = [run EXCEPT ![j] = FirstRun(claimed[j])]
    /\ result' = [result EXCEPT ![j] = "Cancelled"]
    /\ Goto(j, "publish")
    /\ UNCHANGED <<timeline, memory, evictor, req, claimed, query, todo, walk, held,
                   got, cancelled, fetches>>

\* FetchFromDataModel returns at once when the histogram shows no event.
SkipEmptyRange(j) ==
    LET R == FirstRun(claimed[j]) IN
    /\ pc[j] = "range" /\ ~cancelled[j]
    /\ HistogramEmpty(R)
    /\ run' = [run EXCEPT ![j] = R]
    /\ result' = [result EXCEPT ![j] = "Success"]
    /\ Goto(j, "publish")
    /\ UNCHANGED <<timeline, memory, evictor, req, claimed, query, todo, walk, held,
                   got, cancelled, fetches>>

\* FetchFromDataModel issues its queries.
StartRange(j) ==
    /\ pc[j] = "range" /\ ~cancelled[j]
    /\ run' = [run EXCEPT ![j] = FirstRun(claimed[j])]
    /\ query' = [query EXCEPT ![j] = 0]
    /\ result' = [result EXCEPT ![j] = "OutOfRange"]
    /\ Goto(j, "query")
    /\ UNCHANGED <<timeline, memory, evictor, req, claimed, todo, walk, held, got,
                   cancelled, fetches>>

\* The next query has answered with its rows.
ReadQuery(j) ==
    LET q == query[j] + 1 IN
    /\ pc[j] = "query" /\ q <= Queries
    /\ query' = [query EXCEPT ![j] = q]
    /\ todo' = [todo EXCEPT ![j] = Rows(Part(run[j], q))]
    /\ Goto(j, "fill")
    /\ UNCHANGED <<timeline, memory, evictor, req, claimed, run, result, walk, held, got,
                   cancelled, fetches>>

\* The next query has failed: its slice is skipped and the next one still read.
FailQuery(j) ==
    /\ pc[j] = "query" /\ query[j] < Queries /\ MayFail
    /\ query' = [query EXCEPT ![j] = @ + 1]
    /\ result' = [result EXCEPT ![j] = "UnknownError"]
    /\ UNCHANGED <<timeline, memory, evictor, pc, req, claimed, run, todo, walk, held, got,
                   cancelled, fetches>>

\* One row: Track::SetObject files the event under every segment it touches.
InsertEvent(j) ==
    /\ pc[j] = "fill" /\ ~cancelled[j] /\ ExclusiveFree
    /\ \E e \in todo[j] :
        /\ todo' = [todo EXCEPT ![j] = @ \ {e}]
        /\ \/ /\ OnTrack(e)
              /\ present' = present \cup SlotsOf(e)
              /\ content' = [s \in Slots |-> IF s \in SlotsOf(e) THEN content[s] \cup {e}
                                                                 ELSE content[s]]
              /\ result' = [result EXCEPT ![j] = "Success"]
           \/ /\ ~OnTrack(e)
              /\ result' = [result EXCEPT ![j] = "OutOfRange"]
              /\ UNCHANGED <<present, content>>
    /\ UNCHANGED <<inits, valid, processed, memory, evictor, pc, req, claimed, run, query,
                   walk, held, got, cancelled, fetches>>

\* The rows of a query are exhausted, or abandoned because of a cancellation.
EndQuery(j) ==
    /\ pc[j] = "fill" /\ (todo[j] = {} \/ cancelled[j])
    /\ todo' = [todo EXCEPT ![j] = {}]
    /\ Goto(j, "query")
    /\ UNCHANGED <<timeline, memory, evictor, req, claimed, run, query, result, walk, held,
                   got, cancelled, fetches>>

\* FetchFromDataModel returns; a cancellation wins over any other result.
EndRange(j) ==
    /\ pc[j] = "query" /\ query[j] = Queries
    /\ result' = [result EXCEPT ![j] = IF cancelled[j] THEN "Cancelled" ELSE @]
    /\ Goto(j, "publish")
    /\ UNCHANGED <<timeline, memory, evictor, req, claimed, run, query, todo, walk, held,
                   got, cancelled, fetches>>

\* Mutant: a range that was not read keeps its processed bits.
GivenBackMutant(j) == IF result[j] = "Success" THEN run[j] ELSE {}

\* The segments whose processed bit is cleared.
GivenBack(j) == run[j]

\* Mutant: only an error of the database leaves the range invalid.
LoadedMutant(j) == result[j] # "UnknownError"

\* The test of SetValid.
Loaded(j) == result[j] = "Success"

\* The range is given back, valid only if it was read without error.
Publish(j) ==
    /\ pc[j] = "publish" /\ ExclusiveFree
    /\ processed' = processed \ GivenBack(j)
    /\ valid' = IF Loaded(j) THEN valid \cup run[j] ELSE valid \ run[j]
    /\ claimed' = [claimed EXCEPT ![j] = @ \ run[j]]
    /\ run' = [run EXCEPT ![j] = {}]
    /\ Goto(j, IF claimed[j] \subseteq run[j] THEN "settle" ELSE "range")
    /\ UNCHANGED <<inits, present, content, memory, evictor, req, query, todo, result,
                   walk, held, got, cancelled, fetches>>

\* A cancelled fetch is not walked: its segments were never populated.
AfterSettle(j) == IF result[j] = "Cancelled" THEN "done" ELSE "lock"

\* Wait again until no needed segment is being fetched.
Settle(j) ==
    /\ pc[j] = "settle" /\ ExclusiveFree
    /\ SegmentsFree(j)
    /\ Goto(j, AfterSettle(j))
    /\ UNCHANGED <<timeline, memory, evictor, req, claimed, run, query, todo, result, walk,
                   held, got, cancelled, fetches>>

\* SegmentTimeline::FetchSegments takes the mutex shared and finds its bounds.
StartWalk(j) ==
    /\ pc[j] = "lock" /\ SharedFree
    /\ walk' = [walk EXCEPT ![j] = WalkSet(req[j])]
    /\ result' = [result EXCEPT ![j] = "OutOfRange"]
    /\ Goto(j, "walk")
    /\ UNCHANGED <<timeline, memory, evictor, req, claimed, run, query, todo, held, got,
                   cancelled, fetches>>

\* One segment, in order: Segment::Fetch references it in the LRU and emits its
\* entries; a segment outside the interval is passed over.
WalkSegment(j) ==
    /\ pc[j] = "walk" /\ ~cancelled[j]
    /\ \E s \in walk[j] :
        LET seen == { k \in {s} : Overlaps(k, req[j]) } IN
        /\ \A k \in walk[j] : s <= k
        /\ walk' = [walk EXCEPT ![j] = @ \ {s}]
        /\ lruKnown' = (lruKnown \/ seen # {})
        /\ lru' = [k \in Slots |-> IF k \in seen THEN lru[k] \cup {j} ELSE lru[k]]
        /\ held' = [held EXCEPT ![j] = @ \cup seen]
        /\ got' = [got EXCEPT ![j] = @ \cup UNION { Emitted(k, req[j]) : k \in seen }]
    /\ result' = [result EXCEPT ![j] = "Success"]
    /\ UNCHANGED <<timeline, inUse, configured, evictor, pc, req, claimed, run, query, todo,
                   cancelled, fetches>>

EndWalk(j) ==
    /\ pc[j] = "walk" /\ (walk[j] = {} \/ cancelled[j])
    /\ result' = [result EXCEPT ![j] = IF walk[j] # {} THEN "Cancelled" ELSE @]
    /\ walk' = [walk EXCEPT ![j] = {}]
    /\ Goto(j, "done")
    /\ UNCHANGED <<timeline, memory, evictor, req, claimed, run, query, todo, held, got,
                   cancelled, fetches>>

\* Future::Cancel, as far as the job sees it.
Cancel(j) ==
    /\ pc[j] # "idle" /\ pc[j] # "done" /\ ~cancelled[j]
    /\ cancelled' = [cancelled EXCEPT ![j] = TRUE]
    /\ UNCHANGED <<timeline, memory, evictor, pc, req, claimed, run, query, todo, result,
                   walk, held, got, fetches>>

\* The array is given up: CancelArrayOwnership wakes the evictor if it was owned.
FreeArray(j) ==
    /\ pc[j] = "done"
    /\ inUse' = inUse \ {j}
    /\ configured' = (configured \/ j \in inUse)
    /\ Goto(j, "idle")
    /\ req' = [req EXCEPT ![j] = NoRequest]
    /\ query' = [query EXCEPT ![j] = 0]
    /\ result' = [result EXCEPT ![j] = "OutOfRange"]
    /\ held' = [held EXCEPT ![j] = {}]
    /\ got' = [got EXCEPT ![j] = {}]
    /\ cancelled' = [cancelled EXCEPT ![j] = FALSE]
    /\ UNCHANGED <<timeline, lruKnown, lru, evictor, claimed, run, todo, walk, fetches>>

-----------------------------------------------------------------------------
(* MemoryManager::ManageLRU.                                               *)

\* The wait ends: reconfigured, and (the environment's choice) over the limit.
EvictWake ==
    /\ MayEvict /\ evPc = "idle" /\ configured
    /\ evPc' = "lock"
    /\ UNCHANGED <<timeline, memory, evLock, evTodo, jobs>>

\* Mutant: try_lock_shared, which a walk does not exclude.
LockOutcomesMutant == IF lruKnown THEN {"held", "failed"} ELSE {"none"}

\* try_lock fails under a walk, and may fail because of a short critical section.
LockOutcomes ==
    IF ~lruKnown THEN {"none"}
    ELSE IF Walkers = {} THEN {"held", "failed"} ELSE {"failed"}

\* LockTimelines: try_lock on the timelines m_lru_array has at this moment.
EvictLock ==
    /\ evPc = "lock"
    /\ evLock' \in LockOutcomes
    /\ evPc' = "snapshot"
    /\ UNCHANGED <<timeline, memory, evTodo, jobs>>

\* sorted_entries: the timelines m_lru_array has now, but those known as locked
\* by someone else.  One that appeared after LockTimelines is swept unlocked.
EvictSnapshot ==
    /\ evPc = "snapshot"
    /\ configured' = FALSE
    /\ evTodo' = IF lruKnown /\ evLock # "failed" THEN { s \in Slots : lru[s] # {} } ELSE {}
    /\ evPc' = "sweep"
    /\ UNCHANGED <<timeline, lruKnown, lru, inUse, evLock, jobs>>

\* Mutant: every array that references the segment has to be owned.
CheckInUseMutant(s) == lru[s] # {} /\ lru[s] \subseteq inUse

\* One owned array among those that reference the segment is enough.
CheckInUse(s) == lru[s] \cap inUse # {}

\* The segment is kept.
EvictKeep(s) ==
    /\ evPc = "sweep" /\ s \in evTodo
    /\ CheckInUse(s)
    /\ evTodo' = evTodo \ {s}
    /\ UNCHANGED <<timeline, memory, evPc, evLock, jobs>>

\* The LRU entry is erased and SegmentTimeline::Remove destroys the segment.
EvictRemove(s) ==
    /\ evPc = "sweep" /\ s \in evTodo
    /\ ~CheckInUse(s)
    /\ evTodo' = evTodo \ {s}
    /\ lru' = [lru EXCEPT ![s] = {}]
    /\ valid' = valid \ {s}
    /\ present' = present \ {s}
    /\ content' = [content EXCEPT ![s] = {}]
    /\ UNCHANGED <<inits, processed, lruKnown, inUse, configured, evPc, evLock, jobs>>

\* UnlockTimelines.
EvictUnlock ==
    /\ evPc = "sweep" /\ evTodo = {}
    /\ evPc' = "idle" /\ evLock' = "none"
    /\ UNCHANGED <<timeline, memory, evTodo, jobs>>

-----------------------------------------------------------------------------
\* What a worker thread does once the job is called.
JobStep(j) ==
    \/ InitTimeline(j) \/ Claim(j)
    \/ SkipRange(j) \/ SkipEmptyRange(j) \/ StartRange(j)
    \/ ReadQuery(j) \/ FailQuery(j) \/ InsertEvent(j) \/ EndQuery(j) \/ EndRange(j)
    \/ Publish(j) \/ Settle(j)
    \/ StartWalk(j) \/ WalkSegment(j) \/ EndWalk(j)

EvictStep ==
    \/ EvictWake \/ EvictLock \/ EvictSnapshot \/ EvictUnlock
    \/ \E s \in Slots : EvictKeep(s) \/ EvictRemove(s)

Next ==
    \/ \E j \in Jobs : Begin(j) \/ JobStep(j) \/ Cancel(j) \/ FreeArray(j)
    \/ EvictStep

Spec == Init /\ [][Next]_vars

(***************************************************************************)
(* Fairness: the operating system runs the worker threads and the LRU      *)
(* thread, database queries answer, and a mutex that stays free is         *)
(* obtained.  Nothing is assumed of the callers (Begin, Cancel, FreeArray).*)
(***************************************************************************)
FairSpec == Spec /\ (\A j \in Jobs : WF_vars(JobStep(j))) /\ WF_vars(EvictStep)

-----------------------------------------------------------------------------
(* Properties.                                                             *)

Labels == {"idle", "init", "claim", "range", "query", "fill", "publish", "settle",
           "lock", "walk", "done"}

\* Every variable has its type.
TypeOK ==
    /\ inits \in Nat
    /\ valid \subseteq Segs /\ processed \subseteq Segs /\ present \subseteq Slots
    /\ content \in [Slots -> SUBSET Events]
    /\ lruKnown \in BOOLEAN /\ configured \in BOOLEAN
    /\ lru \in [Slots -> SUBSET Jobs]
    /\ inUse \subseteq Jobs
    /\ evPc \in {"idle", "lock", "snapshot", "sweep"}
    /\ evLock \in {"none", "held", "failed"}
    /\ evTodo \subseteq Slots
    /\ pc \in [Jobs -> Labels]
    /\ req \in [Jobs -> Interval]
    /\ claimed \in [Jobs -> SUBSET Segs] /\ run \in [Jobs -> SUBSET Segs]
    /\ query \in [Jobs -> 0 .. Queries]
    /\ todo \in [Jobs -> SUBSET Events]
    /\ result \in [Jobs -> Results]
    /\ walk \in [Jobs -> SUBSET Slots] /\ held \in [Jobs -> SUBSET Slots]
    /\ got \in [Jobs -> SUBSET Events]
    /\ cancelled \in [Jobs -> BOOLEAN]
    /\ fetches \in Nat

\* Unless two first calls raced through Init (track.cpp:84 reads the duration
\* without the mutex), the processed bits are exactly the segments claimed by
\* running jobs, no segment is claimed twice, and a claimed segment is not valid.
ClaimsExclusive ==
    inits <= 1 =>
        /\ processed = UNION { claimed[j] : j \in Jobs }
        /\ \A i, j \in Jobs : i # j => claimed[i] \cap claimed[j] = {}
        /\ valid \cap processed = {}

\* What the exclusive claims rest on: no job claims before the first Init, claims
\* are held between Claim and the last Publish only, and a run is claimed.
ClaimsByPhase ==
    /\ inits = 0 => \A j \in Jobs : pc[j] \in {"idle", "init"}
    /\ \A j \in Jobs :
        /\ pc[j] \notin {"range", "query", "fill", "publish"} => claimed[j] = {}
        /\ pc[j] \notin {"query", "fill", "publish"} => run[j] = {}
        /\ run[j] \subseteq claimed[j]

\* The inductive invariant behind ClaimsExclusive.
ClaimsInv == TypeOK /\ ClaimsByPhase /\ ClaimsExclusive

\* A segment whose bit in m_valid_segments is set has been loaded from the model:
\* it holds every event of the track that starts in it.
ValidMeansLoaded ==
    \A s \in valid, e \in Events :
        e.start \div SegDur = s /\ OnTrack(e) => e \in content[s]

\* A fetch that was not cancelled and whose queries did not fail hands over every
\* event of the track that overlaps the interval asked for.
FetchIsComplete ==
    \A j \in Jobs :
        pc[j] = "done" /\ result[j] # "Cancelled" =>
            { e \in Events : OnTrack(e) /\ e.start < req[j].end /\ e.end > req[j].start }
                \subseteq got[j]

\* The segments an array holds entries of are not evicted before the array is
\* freed (what EnterArrayOwnership is for).
HeldSegmentsStay ==
    [][\A j \in Jobs : pc'[j] # "idle" => held[j] \cap (present \ present') = {}]_vars

\* No segment is destroyed while a walk is on its way through the segments.
NoEvictionUnderWalk ==
    [][Walkers # {} => present \subseteq present']_vars

\* A cancellation survives to the end of the call: no later range and no walk
\* replaces the result (track.cpp:185).
CancellationSurvives ==
    [][\A j \in Jobs : result[j] = "Cancelled" /\ pc'[j] # "idle" => result'[j] = "Cancelled"]_vars

\* Every call returns, whatever the other jobs, the database and the evictor do.
FetchReturns == \A j \in Jobs : pc[j] = "claim" ~> pc[j] = "done"

-----------------------------------------------------------------------------
(* Refinement: the claims of the jobs are those of SegmentClaims.          *)
Claims == INSTANCE SegmentClaims WITH claim <- claimed

ImplementsClaims == Claims!Spec
=============================================================================
