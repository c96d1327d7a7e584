------------------------ MODULE SegmentCache_proofs ------------------------
(***************************************************************************)
(* Proofs about SegmentCache: its type invariant, the exclusive claims of  *)
(* the fetch protocol, the refinement of SegmentClaims, cancellation,      *)
(* ownership and eviction, and what is loaded: a valid segment is, and a   *)
(* fetch hands over all of its interval.                                   *)
(***************************************************************************)
EXTENDS SegmentCache, NaturalsLemmas, FiniteSetTheorems, TLAPS

\* Division by a positive constant is monotonic: a time on the track falls in a slot.
LEMMA SlotOfTime ==
    ASSUME NEW t \in Nat, t <= TrackEnd
    PROVE  t \div SegDur \in Slots
<1> USE ConstantsAssumption
<1> DEFINE q == t \div SegDur
           n == (TrackEnd + SegDur - 1) \div SegDur
<1>1. q \in Int /\ n \in Int  OBVIOUS
<1>2. q * SegDur <= t /\ t < q * SegDur + SegDur  OBVIOUS
<1>3. n * SegDur <= TrackEnd + SegDur - 1 /\ TrackEnd + SegDur - 1 < n * SegDur + SegDur
  OBVIOUS
<1> HIDE DEF q, n
<1>4. q >= 0
  <2>1. SUFFICES ASSUME q <= -1 PROVE FALSE  BY <1>1
  <2>2. (q + 1) * SegDur <= 0  BY <2>1, <1>1
  <2>3. QED  BY <2>2, <1>1, <1>2
<1>5. q <= n
  <2>1. SUFFICES ASSUME n + 1 <= q PROVE FALSE  BY <1>1
  <2>2. (n + 1) * SegDur <= q * SegDur  BY <2>1, <1>1
  <2>3. QED  BY <2>2, <1>1, <1>2, <1>3
<1>6. QED  BY <1>1, <1>4, <1>5 DEF Slots, NumSegs, CeilDiv, q, n

\* An event of the track is filed under slots the timeline may have.
LEMMA SlotsOfInSlots ==
    ASSUME NEW e \in Events, OnTrack(e)
    PROVE  SlotsOf(e) \subseteq Slots
<1> USE ConstantsAssumption
<1>1. e.start \in Nat /\ e.end \in Nat /\ e.start <= e.end  OBVIOUS
<1>2. e.start \div SegDur \in Slots  BY <1>1, SlotOfTime DEF OnTrack
<1>3. e.end \div SegDur \in Slots  BY <1>1, SlotOfTime DEF OnTrack
<1>4. NumSegs \in Int  BY DEF NumSegs, CeilDiv
<1>5. QED  BY <1>2, <1>3, <1>4 DEF SlotsOf, Slots

-----------------------------------------------------------------------------
(* Type correctness.                                                       *)

LEMMA InitType == Init => TypeOK
<1> USE ConstantsAssumption
<1>1. NoRequest \in Interval  BY DEF NoRequest, Interval
<1>2. QED
  BY <1>1 DEF Init, TypeOK, Labels, Results

\* Every step of a job keeps the types, the shape of each action being the same.
LEMMA JobStepType ==
    ASSUME TypeOK, NEW j \in Jobs, JobStep(j)
    PROVE  TypeOK'
<1> USE ConstantsAssumption DEF TypeOK, Labels, Results, Goto, timeline, memory, evictor
<1>1. CASE InitTimeline(j)  BY <1>1 DEF InitTimeline
<1>2. CASE Claim(j)
  <2>1. Needed(req[j]) \subseteq Segs  BY DEF Needed
  <2>2. QED  BY <1>2, <2>1 DEF Claim
<1>3. CASE SkipRange(j)  BY <1>3 DEF SkipRange, FirstRun
<1>4. CASE SkipEmptyRange(j)  BY <1>4 DEF SkipEmptyRange, FirstRun
<1>5. CASE StartRange(j)  BY <1>5 DEF StartRange, FirstRun
<1>6. CASE ReadQuery(j)
  <2>1. Rows(Part(run[j], query[j] + 1)) \subseteq Events  BY DEF Rows
  <2>2. QED  BY <1>6, <2>1 DEF ReadQuery
<1>7. CASE FailQuery(j)  BY <1>7 DEF FailQuery
<1>8. CASE InsertEvent(j)
  <2>1. PICK e \in todo[j] :
          /\ todo' = [todo EXCEPT ![j] = @ \ {e}]
          /\ \/ /\ OnTrack(e)
                /\ present' = present \cup SlotsOf(e)
                /\ content' = [s \in Slots |-> IF s \in SlotsOf(e) THEN content[s] \cup {e}
                                                                   ELSE content[s]]
                /\ result' = [result EXCEPT ![j] = "Success"]
             \/ /\ ~OnTrack(e)
                /\ result' = [result EXCEPT ![j] = "OutOfRange"]
                /\ UNCHANGED <<present, content>>
    BY <1>8 DEF InsertEvent
  <2>2. e \in Events  OBVIOUS
  <2>3. OnTrack(e) => SlotsOf(e) \subseteq Slots  BY <2>2, SlotsOfInSlots
  <2>4. present' \subseteq Slots /\ content' \in [Slots -> SUBSET Events]
    BY <2>1, <2>2, <2>3
  <2>5. result' \in [Jobs -> Results] /\ todo' \in [Jobs -> SUBSET Events]
    BY <2>1
  <2>6. QED  BY <1>8, <2>4, <2>5 DEF InsertEvent
<1>9. CASE EndQuery(j)  BY <1>9 DEF EndQuery
<1>10. CASE EndRange(j)  BY <1>10 DEF EndRange
<1>11. CASE Publish(j)  BY <1>11 DEF Publish, GivenBack, Loaded
<1>12. CASE Settle(j)  BY <1>12 DEF Settle, AfterSettle
<1>13. CASE StartWalk(j)
  <2>1. WalkSet(req[j]) \subseteq Slots  BY DEF WalkSet
  <2>2. QED  BY <1>13, <2>1 DEF StartWalk
<1>14. CASE WalkSegment(j)
  <2>1. PICK s \in walk[j] :
          LET seen == { k \in {s} : Overlaps(k, req[j]) } IN
            /\ walk' = [walk EXCEPT ![j] = @ \ {s}]
            /\ lruKnown' = (lruKnown \/ seen # {})
            /\ lru' = [k \in Slots |-> IF k \in seen THEN lru[k] \cup {j} ELSE lru[k]]
            /\ held' = [held EXCEPT ![j] = @ \cup seen]
            /\ got' = [got EXCEPT ![j] = @ \cup UNION { Emitted(k, req[j]) : k \in seen }]
    BY <1>14 DEF WalkSegment
  <2> DEFINE seen == { k \in {s} : Overlaps(k, req[j]) }
  <2>2. seen \subseteq Slots  OBVIOUS
  <2>3. UNION { Emitted(k, req[j]) : k \in seen } \subseteq Events
    BY <2>2 DEF Emitted
  <2>4. walk' \in [Jobs -> SUBSET Slots] /\ lruKnown' \in BOOLEAN
    BY <2>1
  <2>5. lru' \in [Slots -> SUBSET Jobs]  BY <2>1
  <2>6. held' \in [Jobs -> SUBSET Slots]  BY <2>1, <2>2
  <2>7. got' \in [Jobs -> SUBSET Events]  BY <2>1, <2>3
  <2> HIDE DEF seen
  <2>8. QED  BY <1>14, <2>4, <2>5, <2>6, <2>7 DEF WalkSegment
<1>15. CASE EndWalk(j)  BY <1>15 DEF EndWalk
<1>16. QED
  BY <1>1, <1>2, <1>3, <1>4, <1>5, <1>6, <1>7, <1>8, <1>9, <1>10, <1>11, <1>12, <1>13,
     <1>14, <1>15 DEF JobStep

\* The callers and the evictor keep the types too.
LEMMA NextType == TypeOK /\ [Next]_vars => TypeOK'
<1> USE ConstantsAssumption
<1> SUFFICES ASSUME TypeOK, [Next]_vars PROVE TypeOK'
  OBVIOUS
<1>1. ASSUME NEW j \in Jobs, Begin(j) PROVE TypeOK'
  BY <1>1 DEF Begin, TypeOK, Labels, Goto, timeline, evictor
<1>2. ASSUME NEW j \in Jobs, JobStep(j) PROVE TypeOK'
  BY <1>2, JobStepType
<1>3. ASSUME NEW j \in Jobs, Cancel(j) PROVE TypeOK'
  BY <1>3 DEF Cancel, TypeOK, timeline, memory, evictor
<1>4. ASSUME NEW j \in Jobs, FreeArray(j) PROVE TypeOK'
  <2>1. NoRequest \in Interval  BY DEF NoRequest, Interval
  <2>2. QED
    BY <1>4, <2>1 DEF FreeArray, TypeOK, Labels, Results, Goto, timeline, evictor
<1>5. CASE EvictWake \/ EvictLock \/ EvictSnapshot \/ EvictUnlock
  BY <1>5 DEF EvictWake, EvictLock, LockOutcomes, EvictSnapshot, EvictUnlock, TypeOK,
     timeline, memory, jobs
<1>6. ASSUME NEW s \in Slots, EvictKeep(s) \/ EvictRemove(s) PROVE TypeOK'
  BY <1>6 DEF EvictKeep, EvictRemove, TypeOK, timeline, memory, jobs
<1>7. CASE UNCHANGED vars
  BY <1>7 DEF vars, timeline, memory, evictor, jobs, TypeOK
<1>8. QED
  BY <1>1, <1>2, <1>3, <1>4, <1>5, <1>6, <1>7 DEF Next, EvictStep

\* Every reachable state of the segment cache is well typed: no bit outside the
\* timeline is set, no segment is keyed beyond the slot that ends the track.
THEOREM TypeCorrect == Spec => []TypeOK
<1>1. Init => TypeOK  BY InitType
<1>2. TypeOK /\ [Next]_vars => TypeOK'  BY NextType
<1>3. QED  BY <1>1, <1>2, PTL DEF Spec

-----------------------------------------------------------------------------
(* Exclusive claims.  ClaimsInv adds to ClaimsExclusive when claims are    *)
(* held: it is inductive, ClaimsExclusive alone is not.                    *)

LEMMA InitClaims == Init => ClaimsInv
<1> SUFFICES ASSUME Init PROVE ClaimsInv
  OBVIOUS
<1>1. TypeOK  BY InitType
<1>2. ClaimsByPhase  BY DEF Init, ClaimsByPhase
<1>3. UNION { claimed[j] : j \in Jobs } = {}  BY DEF Init
<1>4. ClaimsExclusive  BY <1>3 DEF Init, ClaimsExclusive
<1>5. QED  BY <1>1, <1>2, <1>4 DEF ClaimsInv

\* A step that leaves alone what the claims are made of.
LEMMA ClaimsUntouched ==
    ASSUME ClaimsInv, UNCHANGED <<inits, processed, claimed>>, valid' \subseteq valid
    PROVE  ClaimsExclusive'
BY DEF ClaimsInv, ClaimsExclusive

\* Claim: the segments taken are neither valid nor claimed by anyone.
LEMMA ClaimKeepsExclusive ==
    ASSUME ClaimsInv, NEW j \in Jobs, Claim(j)
    PROVE  ClaimsExclusive'
<1> DEFINE missing == Needed(req[j]) \ valid
<1>1. SUFFICES ASSUME inits <= 1
               PROVE  /\ processed' = UNION { claimed'[k] : k \in Jobs }
                      /\ \A i, k \in Jobs : i # k => claimed'[i] \cap claimed'[k] = {}
                      /\ valid' \cap processed' = {}
  BY DEF Claim, ClaimsExclusive
<1>2. /\ processed = UNION { claimed[k] : k \in Jobs }
      /\ \A i, k \in Jobs : i # k => claimed[i] \cap claimed[k] = {}
      /\ valid \cap processed = {}
  BY <1>1 DEF ClaimsInv, ClaimsExclusive
<1>3. claimed[j] = {}  BY DEF Claim, ClaimsInv, ClaimsByPhase
<1>4. missing \cap processed = {}  BY DEF Claim, SegmentsFree
<1>5. /\ processed' = processed \cup missing
      /\ claimed' = [claimed EXCEPT ![j] = missing]
      /\ valid' = valid
  BY DEF Claim
<1>6. claimed'[j] = missing /\ \A k \in Jobs : k # j => claimed'[k] = claimed[k]
  BY <1>5 DEF ClaimsInv, TypeOK
<1> HIDE DEF missing
<1>7. processed' = UNION { claimed'[k] : k \in Jobs }
  BY <1>2, <1>3, <1>5, <1>6
<1>8. \A i, k \in Jobs : i # k => claimed'[i] \cap claimed'[k] = {}
  <2>1. \A k \in Jobs : claimed[k] \cap missing = {}  BY <1>2, <1>4
  <2>2. QED  BY <1>2, <1>6, <2>1
<1>9. valid' \cap processed' = {}
  BY <1>2, <1>5 DEF missing
<1>10. QED  BY <1>7, <1>8, <1>9

\* Publish: the run given back belonged to this job alone.
LEMMA PublishKeepsExclusive ==
    ASSUME ClaimsInv, NEW j \in Jobs, Publish(j)
    PROVE  ClaimsExclusive'
<1>1. SUFFICES ASSUME inits <= 1
               PROVE  /\ processed' = UNION { claimed'[k] : k \in Jobs }
                      /\ \A i, k \in Jobs : i # k => claimed'[i] \cap claimed'[k] = {}
                      /\ valid' \cap processed' = {}
  BY DEF Publish, ClaimsExclusive
<1>2. /\ processed = UNION { claimed[k] : k \in Jobs }
      /\ \A i, k \in Jobs : i # k => claimed[i] \cap claimed[k] = {}
      /\ valid \cap processed = {}
  BY <1>1 DEF ClaimsInv, ClaimsExclusive
<1>3. run[j] \subseteq claimed[j]  BY DEF ClaimsInv, ClaimsByPhase
<1>4. /\ processed' = processed \ run[j]
      /\ claimed' = [claimed EXCEPT ![j] = @ \ run[j]]
      /\ valid' \subseteq valid \cup run[j]
  BY DEF Publish, GivenBack
<1>5. claimed'[j] = claimed[j] \ run[j] /\ \A k \in Jobs : k # j => claimed'[k] = claimed[k]
  BY <1>4 DEF ClaimsInv, TypeOK
<1>6. \A k \in Jobs : claimed'[k] = claimed[k] \ run[j]
  BY <1>2, <1>3, <1>5
<1>7. QED  BY <1>2, <1>4, <1>6

\* The second Init of a race leaves the region the invariant speaks of.
LEMMA InitTimelineKeepsExclusive ==
    ASSUME ClaimsInv, NEW j \in Jobs, InitTimeline(j)
    PROVE  ClaimsExclusive'
<1>1. SUFFICES ASSUME inits = 0 PROVE ClaimsExclusive'
  BY DEF ClaimsInv, TypeOK, InitTimeline, ClaimsExclusive
<1>2. \A k \in Jobs : claimed[k] = {}
  BY <1>1 DEF ClaimsInv, ClaimsByPhase
<1>3. UNION { claimed[k] : k \in Jobs } = {}  BY <1>2
<1>4. processed' = {} /\ valid' = {} /\ claimed' = claimed  BY DEF InitTimeline
<1>5. QED  BY <1>2, <1>3, <1>4 DEF ClaimsExclusive

\* The phases of the jobs, one step of a worker at a time.
LEMMA JobStepPhases ==
    ASSUME ClaimsInv, NEW j \in Jobs, JobStep(j)
    PROVE  ClaimsByPhase'
<1> USE DEF ClaimsInv, ClaimsByPhase, TypeOK, Goto, timeline
<1>1. CASE InitTimeline(j)  BY <1>1 DEF InitTimeline
<1>2. CASE Claim(j)  BY <1>2 DEF Claim
<1>3. CASE SkipRange(j)  BY <1>3 DEF SkipRange, FirstRun
<1>4. CASE SkipEmptyRange(j)  BY <1>4 DEF SkipEmptyRange, FirstRun
<1>5. CASE StartRange(j)  BY <1>5 DEF StartRange, FirstRun
<1>6. CASE ReadQuery(j)  BY <1>6 DEF ReadQuery
<1>7. CASE FailQuery(j)  BY <1>7 DEF FailQuery
<1>8. CASE InsertEvent(j)  BY <1>8 DEF InsertEvent
<1>9. CASE EndQuery(j)  BY <1>9 DEF EndQuery
<1>10. CASE EndRange(j)  BY <1>10 DEF EndRange
<1>11. CASE Publish(j)  BY <1>11 DEF Publish
<1>12. CASE Settle(j)  BY <1>12 DEF Settle, AfterSettle
<1>13. CASE StartWalk(j)  BY <1>13 DEF StartWalk
<1>14. CASE WalkSegment(j)  BY <1>14 DEF WalkSegment
<1>15. CASE EndWalk(j)  BY <1>15 DEF EndWalk
<1>16. QED
  BY <1>1, <1>2, <1>3, <1>4, <1>5, <1>6, <1>7, <1>8, <1>9, <1>10, <1>11, <1>12, <1>13,
     <1>14, <1>15 DEF JobStep

LEMMA JobStepClaims ==
    ASSUME ClaimsInv, NEW j \in Jobs, JobStep(j)
    PROVE  ClaimsInv'
<1>1. TypeOK'  BY JobStepType DEF ClaimsInv
<1>2. ClaimsByPhase'  BY JobStepPhases
<1>3. ClaimsExclusive'
  <2>1. CASE InitTimeline(j)  BY <2>1, InitTimelineKeepsExclusive
  <2>2. CASE Claim(j)  BY <2>2, ClaimKeepsExclusive
  <2>3. CASE Publish(j)  BY <2>3, PublishKeepsExclusive
  <2>4. CASE SkipRange(j) \/ SkipEmptyRange(j) \/ StartRange(j)
    BY <2>4, ClaimsUntouched DEF SkipRange, SkipEmptyRange, StartRange, timeline
  <2>5. CASE ReadQuery(j) \/ FailQuery(j) \/ InsertEvent(j) \/ EndQuery(j) \/ EndRange(j)
    BY <2>5, ClaimsUntouched
    DEF ReadQuery, FailQuery, InsertEvent, EndQuery, EndRange, timeline
  <2>6. CASE Settle(j) \/ StartWalk(j) \/ WalkSegment(j) \/ EndWalk(j)
    BY <2>6, ClaimsUntouched DEF Settle, StartWalk, WalkSegment, EndWalk, timeline
  <2>7. QED  BY <2>1, <2>2, <2>3, <2>4, <2>5, <2>6 DEF JobStep
<1>4. QED  BY <1>1, <1>2, <1>3 DEF ClaimsInv

LEMMA NextClaims == ClaimsInv /\ [Next]_vars => ClaimsInv'
<1> SUFFICES ASSUME ClaimsInv, [Next]_vars PROVE ClaimsInv'
  OBVIOUS
<1>1. TypeOK'  BY NextType DEF ClaimsInv
<1>2. ASSUME NEW j \in Jobs, JobStep(j) PROVE ClaimsInv'
  BY <1>2, JobStepClaims
<1>3. ASSUME NEW j \in Jobs, Begin(j) \/ Cancel(j) \/ FreeArray(j)
      PROVE  ClaimsByPhase' /\ ClaimsExclusive'
  <2>1. ClaimsExclusive'
    BY <1>3, ClaimsUntouched DEF Begin, Cancel, FreeArray, timeline
  <2>2. ClaimsByPhase'
    BY <1>3 DEF Begin, Cancel, FreeArray, timeline, ClaimsInv, ClaimsByPhase, TypeOK, Goto
  <2>3. QED  BY <2>1, <2>2
<1>4. ASSUME EvictStep PROVE ClaimsByPhase' /\ ClaimsExclusive'
  <2>1. UNCHANGED <<inits, processed, claimed, pc, run>> /\ valid' \subseteq valid
    BY <1>4 DEF EvictStep, EvictWake, EvictLock, EvictSnapshot, EvictUnlock, EvictKeep,
       EvictRemove, timeline, jobs
  <2>2. QED  BY <2>1, ClaimsUntouched DEF ClaimsInv, ClaimsByPhase
<1>5. ASSUME UNCHANGED vars PROVE ClaimsByPhase' /\ ClaimsExclusive'
  <2>1. UNCHANGED <<inits, processed, claimed, pc, run, valid>>
    BY <1>5 DEF vars, timeline, jobs
  <2>2. QED  BY <2>1, ClaimsUntouched DEF ClaimsInv, ClaimsByPhase
<1>6. QED  BY <1>1, <1>2, <1>3, <1>4, <1>5 DEF Next, ClaimsInv

\* No segment of a track is fetched by two jobs at once and the processed bits are
\* exactly the segments the running jobs have claimed, for any number of jobs, any
\* trace, any failures, cancellations and evictions, unless two first calls raced
\* through SegmentTimeline::Init.
THEOREM ClaimsAreExclusive == Spec => []ClaimsExclusive
<1>1. Init => ClaimsInv  BY InitClaims
<1>2. ClaimsInv /\ [Next]_vars => ClaimsInv'  BY NextClaims
<1>3. ClaimsInv => ClaimsExclusive  BY DEF ClaimsInv
<1>4. QED  BY <1>1, <1>2, <1>3, PTL DEF Spec

-----------------------------------------------------------------------------
(* Refinement of SegmentClaims, for a timeline that is already initialised *)
(* (a cold one may be initialised twice, which forgets claims).            *)

\* A warm timeline is never initialised again.
Warm == inits = 1 /\ \A j \in Jobs : pc[j] # "init"

WarmInv == ClaimsInv /\ Warm

LEMMA InitWarm == ~ColdStart /\ Init => WarmInv
BY InitClaims DEF Init, Warm, WarmInv

LEMMA NextWarm == WarmInv /\ [Next]_vars => WarmInv'
<1> SUFFICES ASSUME WarmInv, [Next]_vars PROVE Warm'
  BY NextClaims DEF WarmInv
<1> USE DEF WarmInv, Warm, ClaimsInv, TypeOK, Goto
<1>1. ASSUME NEW j \in Jobs, Begin(j) \/ Cancel(j) \/ FreeArray(j) PROVE Warm'
  BY <1>1 DEF Begin, Cancel, FreeArray, timeline
<1>2. ASSUME NEW j \in Jobs, JobStep(j) PROVE Warm'
  <2>1. CASE InitTimeline(j)  BY <2>1 DEF InitTimeline
  <2>2. CASE Claim(j) \/ Publish(j)  BY <2>2 DEF Claim, Publish
  <2>3. CASE SkipRange(j) \/ SkipEmptyRange(j) \/ StartRange(j)
    BY <2>3 DEF SkipRange, SkipEmptyRange, StartRange, timeline
  <2>4. CASE ReadQuery(j) \/ FailQuery(j) \/ EndQuery(j) \/ EndRange(j)
    BY <2>4 DEF ReadQuery, FailQuery, EndQuery, EndRange, timeline
  <2>5. CASE InsertEvent(j)  BY <2>5 DEF InsertEvent
  <2>6. CASE Settle(j) \/ StartWalk(j) \/ WalkSegment(j) \/ EndWalk(j)
    BY <2>6 DEF Settle, AfterSettle, StartWalk, WalkSegment, EndWalk, timeline
  <2>7. QED  BY <1>2, <2>1, <2>2, <2>3, <2>4, <2>5, <2>6 DEF JobStep
<1>3. CASE EvictStep
  BY <1>3 DEF EvictStep, EvictWake, EvictLock, EvictSnapshot, EvictUnlock, EvictKeep,
     EvictRemove, timeline, jobs
<1>4. CASE UNCHANGED vars  BY <1>4 DEF vars, timeline, jobs
<1>5. QED  BY <1>1, <1>2, <1>3, <1>4 DEF Next

\* Claim acquires, Publish releases, every other step stutters.
LEMMA StepImplementsClaims == WarmInv /\ [Next]_vars => [Claims!Next]_claimed
<1> SUFFICES ASSUME WarmInv, [Next]_vars, claimed' # claimed PROVE Claims!Next
  OBVIOUS
<1>1. PICK j \in Jobs : Claim(j) \/ Publish(j)
  BY DEF Next, JobStep, Begin, InitTimeline, SkipRange, SkipEmptyRange, StartRange, ReadQuery,
     FailQuery, InsertEvent, EndQuery, EndRange, Settle, StartWalk, WalkSegment, EndWalk,
     Cancel, FreeArray, EvictStep, EvictWake, EvictLock, EvictSnapshot, EvictUnlock,
     EvictKeep, EvictRemove, vars, jobs
<1>2. CASE Claim(j)
  <2> DEFINE missing == Needed(req[j]) \ valid
  <2>1. missing \in SUBSET Segs  BY DEF Needed
  <2>2. claimed[j] = {}  BY <1>2 DEF Claim, WarmInv, ClaimsInv, ClaimsByPhase
  <2>3. processed = UNION { claimed[k] : k \in Jobs }
    BY DEF WarmInv, Warm, ClaimsInv, ClaimsExclusive
  <2>4. missing \cap processed = {}  BY <1>2 DEF Claim, SegmentsFree
  <2>5. Claims!Free(missing)  BY <2>3, <2>4 DEF Claims!Free
  <2>6. claimed' = [claimed EXCEPT ![j] = missing]  BY <1>2 DEF Claim
  <2> HIDE DEF missing
  <2>7. Claims!Acquire(j, missing)  BY <2>2, <2>5, <2>6 DEF Claims!Acquire
  <2>8. QED  BY <2>1, <2>7 DEF Claims!Next
<1>3. CASE Publish(j)
  <2>1. run[j] \in SUBSET Segs /\ run[j] \subseteq claimed[j]
    BY DEF WarmInv, ClaimsInv, TypeOK, ClaimsByPhase
  <2>2. Claims!Release(j, run[j])  BY <1>3, <2>1 DEF Publish, Claims!Release
  <2>3. QED  BY <2>1, <2>2 DEF Claims!Next
<1>4. QED  BY <1>1, <1>2, <1>3

\* The fetch protocol of a warm timeline implements SegmentClaims: whatever the jobs
\* load and however they are cancelled, the claims behave as exclusive grants.
THEOREM CacheImplementsClaims ==
    ASSUME ~ColdStart
    PROVE  Spec => ImplementsClaims
<1>1. Init => WarmInv  BY InitWarm
<1>2. WarmInv /\ [Next]_vars => WarmInv'  BY NextWarm
<1>3. Init => Claims!Init  BY DEF Init, Claims!Init
<1>4. WarmInv /\ [Next]_vars => [Claims!Next]_claimed  BY StepImplementsClaims
<1>5. QED  BY <1>1, <1>2, <1>3, <1>4, PTL DEF Spec, ImplementsClaims, Claims!Spec

-----------------------------------------------------------------------------
(* Cancellation.                                                           *)

\* The result says "Cancelled" only once the future is cancelled, and never in the
\* phases whose next steps set another result.
CancelInv ==
    \A j \in Jobs :
        /\ result[j] = "Cancelled" => cancelled[j]
        /\ pc[j] \in {"query", "fill", "lock"} => result[j] # "Cancelled"

LEMMA JobStepCancel ==
    ASSUME TypeOK, CancelInv, NEW j \in Jobs, JobStep(j)
    PROVE  /\ CancelInv'
           /\ \A k \in Jobs : result[k] = "Cancelled" => result'[k] = "Cancelled"
<1> USE DEF CancelInv, TypeOK, Goto
<1>1. CASE InitTimeline(j) \/ Claim(j) \/ Publish(j)
  BY <1>1 DEF InitTimeline, Claim, Publish
<1>2. CASE SkipRange(j)  BY <1>2 DEF SkipRange
<1>3. CASE SkipEmptyRange(j)  BY <1>3 DEF SkipEmptyRange
<1>4. CASE StartRange(j)  BY <1>4 DEF StartRange
<1>5. CASE ReadQuery(j)  BY <1>5 DEF ReadQuery
<1>6. CASE FailQuery(j)  BY <1>6 DEF FailQuery
<1>7. CASE InsertEvent(j)
  <2>1. result' \in { [result EXCEPT ![j] = "Success"], [result EXCEPT ![j] = "OutOfRange"] }
    BY <1>7 DEF InsertEvent
  <2>2. UNCHANGED <<pc, cancelled>> /\ ~cancelled[j]  BY <1>7 DEF InsertEvent
  <2>3. QED  BY <2>1, <2>2
<1>8. CASE EndQuery(j)  BY <1>8 DEF EndQuery
<1>9. CASE EndRange(j)  BY <1>9 DEF EndRange
<1>10. CASE Settle(j)  BY <1>10 DEF Settle, AfterSettle
<1>11. CASE StartWalk(j)  BY <1>11 DEF StartWalk
<1>12. CASE WalkSegment(j)
  <2>1. UNCHANGED <<pc, cancelled>> /\ result' = [result EXCEPT ![j] = "Success"]
    BY <1>12 DEF WalkSegment
  <2>2. pc[j] = "walk" /\ ~cancelled[j]  BY <1>12 DEF WalkSegment
  <2>3. QED  BY <2>1, <2>2
<1>13. CASE EndWalk(j)  BY <1>13 DEF EndWalk
<1>14. QED
  BY <1>1, <1>2, <1>3, <1>4, <1>5, <1>6, <1>7, <1>8, <1>9, <1>10, <1>11, <1>12, <1>13
  DEF JobStep

LEMMA NextCancel ==
    TypeOK /\ CancelInv /\ [Next]_vars =>
        /\ CancelInv'
        /\ \A j \in Jobs : result[j] = "Cancelled" /\ pc'[j] # "idle" => result'[j] = "Cancelled"
<1> SUFFICES ASSUME TypeOK, CancelInv, [Next]_vars
             PROVE  /\ CancelInv'
                    /\ \A j \in Jobs : result[j] = "Cancelled" /\ pc'[j] # "idle"
                                          => result'[j] = "Cancelled"
  OBVIOUS
<1>1. ASSUME NEW j \in Jobs, Begin(j) PROVE CancelInv' /\ UNCHANGED result
  BY <1>1 DEF Begin, CancelInv, TypeOK, Goto
<1>2. ASSUME NEW j \in Jobs, Cancel(j) PROVE CancelInv' /\ UNCHANGED result
  BY <1>2 DEF Cancel, CancelInv, TypeOK
<1>3. ASSUME NEW j \in Jobs, FreeArray(j)
      PROVE  /\ CancelInv' /\ pc'[j] = "idle"
             /\ \A k \in Jobs : k # j => result'[k] = result[k]
  BY <1>3 DEF FreeArray, CancelInv, TypeOK, Goto
<1>4. CASE EvictStep
  <2>1. UNCHANGED <<pc, result, cancelled>>
    BY <1>4 DEF EvictStep, EvictWake, EvictLock, EvictSnapshot, EvictUnlock, EvictKeep,
       EvictRemove, jobs
  <2>2. QED  BY <2>1 DEF CancelInv
<1>5. CASE UNCHANGED vars
  <2>1. UNCHANGED <<pc, result, cancelled>>  BY <1>5 DEF vars, jobs
  <2>2. QED  BY <2>1 DEF CancelInv
<1>6. QED  BY <1>1, <1>2, <1>3, <1>4, <1>5, JobStepCancel DEF Next

\* A cancelled fetch ends as cancelled: no later range and no walk replaces the result.
THEOREM CancellationIsFinal == Spec => CancellationSurvives
<1>1. Init => CancelInv  BY DEF Init, CancelInv
<1>2. TypeOK /\ CancelInv /\ [Next]_vars => CancelInv'  BY NextCancel
<1>3. TypeOK /\ CancelInv /\ [Next]_vars =>
        [\A j \in Jobs : result[j] = "Cancelled" /\ pc'[j] # "idle"
                            => result'[j] = "Cancelled"]_vars
  BY NextCancel
<1>4. QED  BY <1>1, <1>2, <1>3, TypeCorrect, PTL DEF Spec, CancellationSurvives

-----------------------------------------------------------------------------
(* Eviction.                                                               *)

\* An array that is being filled or read is owned, and the LRU knows it for every
\* segment whose entries it holds.
HoldInv ==
    \A j \in Jobs :
        /\ pc[j] = "idle" => held[j] = {}
        /\ pc[j] # "idle" => j \in inUse
        /\ \A s \in held[j] : j \in lru[s]

\* What HoldInv is made of, when a step leaves it alone.
LEMMA HoldUntouched ==
    ASSUME HoldInv, UNCHANGED <<held, inUse, lru>>,
           \A j \in Jobs : pc'[j] = "idle" <=> pc[j] = "idle"
    PROVE  HoldInv'
BY DEF HoldInv

LEMMA JobStepHold ==
    ASSUME TypeOK, HoldInv, NEW j \in Jobs, JobStep(j)
    PROVE  HoldInv' /\ UNCHANGED inUse /\ present \subseteq present'
<1> USE DEF TypeOK, Goto
<1>1. CASE WalkSegment(j)
  <2>1. PICK s \in walk[j] :
          LET seen == { k \in {s} : Overlaps(k, req[j]) } IN
            /\ lru' = [k \in Slots |-> IF k \in seen THEN lru[k] \cup {j} ELSE lru[k]]
            /\ held' = [held EXCEPT ![j] = @ \cup seen]
    BY <1>1 DEF WalkSegment
  <2> DEFINE seen == { k \in {s} : Overlaps(k, req[j]) }
  <2>2. seen \subseteq Slots  OBVIOUS
  <2>3. /\ lru' = [k \in Slots |-> IF k \in seen THEN lru[k] \cup {j} ELSE lru[k]]
        /\ held' = [held EXCEPT ![j] = @ \cup seen]
    BY <2>1
  <2> HIDE DEF seen
  <2>4. UNCHANGED <<pc, inUse, present>> /\ pc[j] = "walk"
    BY <1>1 DEF WalkSegment, timeline
  <2>5. \A k \in Slots : lru[k] \subseteq lru'[k]  BY <2>3
  <2>6. \A k \in seen : j \in lru'[k]  BY <2>2, <2>3
  <2>7. ASSUME NEW i \in Jobs, NEW k \in held'[i] PROVE i \in lru'[k]
    <3>1. k \in held[i] \/ (i = j /\ k \in seen)  BY <2>3, <2>7
    <3>2. CASE k \in held[i]
      <4>1. k \in Slots /\ i \in lru[k]  BY <3>2 DEF HoldInv
      <4>2. QED  BY <4>1, <2>5
    <3>3. QED  BY <3>1, <3>2, <2>6
  <2>8. \A i \in Jobs : pc'[i] = "idle" => held'[i] = {}
    BY <2>3, <2>4 DEF HoldInv
  <2>9. QED  BY <2>4, <2>7, <2>8 DEF HoldInv
<1>2. CASE InitTimeline(j) \/ Claim(j) \/ Publish(j)
  BY <1>2, HoldUntouched DEF InitTimeline, Claim, Publish, memory
<1>3. CASE SkipRange(j) \/ SkipEmptyRange(j) \/ StartRange(j)
  BY <1>3, HoldUntouched DEF SkipRange, SkipEmptyRange, StartRange, memory, timeline
<1>4. CASE ReadQuery(j) \/ FailQuery(j) \/ EndQuery(j) \/ EndRange(j)
  BY <1>4, HoldUntouched DEF ReadQuery, FailQuery, EndQuery, EndRange, memory, timeline
<1>5. CASE InsertEvent(j)
  BY <1>5, HoldUntouched DEF InsertEvent, memory
<1>6. CASE Settle(j) \/ StartWalk(j) \/ EndWalk(j)
  BY <1>6, HoldUntouched DEF Settle, AfterSettle, StartWalk, EndWalk, memory, timeline
<1>7. QED  BY <1>1, <1>2, <1>3, <1>4, <1>5, <1>6 DEF JobStep

LEMMA NextHold ==
    ASSUME Pinned = Jobs
    PROVE  TypeOK /\ HoldInv /\ [Next]_vars =>
             /\ HoldInv'
             /\ \A j \in Jobs : pc'[j] # "idle" => held[j] \cap (present \ present') = {}
<1> SUFFICES ASSUME TypeOK, HoldInv, [Next]_vars
             PROVE  /\ HoldInv'
                    /\ \A j \in Jobs : pc'[j] # "idle" => held[j] \cap (present \ present') = {}
  OBVIOUS
<1>1. ASSUME NEW j \in Jobs, Begin(j) PROVE HoldInv' /\ UNCHANGED present
  BY <1>1 DEF Begin, HoldInv, TypeOK, Goto, timeline
<1>2. ASSUME NEW j \in Jobs, Cancel(j) PROVE HoldInv' /\ UNCHANGED present
  BY <1>2, HoldUntouched DEF Cancel, memory, timeline
<1>3. ASSUME NEW j \in Jobs, FreeArray(j) PROVE HoldInv' /\ UNCHANGED present
  BY <1>3 DEF FreeArray, HoldInv, TypeOK, Goto, timeline
<1>4. CASE EvictWake \/ EvictLock \/ EvictSnapshot \/ EvictUnlock
  <2>1. UNCHANGED <<pc, held, inUse, lru, present>>
    BY <1>4 DEF EvictWake, EvictLock, EvictSnapshot, EvictUnlock, memory, jobs, timeline
  <2>2. QED  BY <2>1, HoldUntouched
<1>5. ASSUME NEW s \in Slots, EvictKeep(s) PROVE HoldInv' /\ UNCHANGED present
  BY <1>5, HoldUntouched DEF EvictKeep, memory, jobs, timeline
<1>6. ASSUME NEW s \in Slots, EvictRemove(s)
      PROVE  HoldInv' /\ present' = present \ {s} /\ \A j \in Jobs : s \notin held[j]
  <2>1. \A j \in Jobs : s \notin held[j]
    BY <1>6 DEF EvictRemove, CheckInUse, HoldInv
  <2>2. UNCHANGED <<pc, held, inUse>> /\ present' = present \ {s}
    BY <1>6 DEF EvictRemove, jobs
  <2>3. lru' = [lru EXCEPT ![s] = {}]  BY <1>6 DEF EvictRemove
  <2>4. HoldInv'  BY <2>1, <2>2, <2>3 DEF HoldInv, TypeOK
  <2>5. QED  BY <2>1, <2>2, <2>4
<1>7. CASE UNCHANGED vars
  BY <1>7, HoldUntouched DEF vars, jobs, memory, timeline
<1>8. QED
  BY <1>1, <1>2, <1>3, <1>4, <1>5, <1>6, <1>7, JobStepHold DEF Next, EvictStep

\* When every array enters ownership before it is filled, no segment an array holds
\* entries of is evicted before the array is freed, a cold LRU included.
THEOREM OwnershipProtects ==
    ASSUME Pinned = Jobs
    PROVE  Spec => HeldSegmentsStay
<1>1. Init => HoldInv  BY DEF Init, HoldInv
<1>2. TypeOK /\ HoldInv /\ [Next]_vars => HoldInv'  BY NextHold
<1>3. TypeOK /\ HoldInv /\ [Next]_vars =>
        [\A j \in Jobs : pc'[j] # "idle" => held[j] \cap (present \ present') = {}]_vars
  BY NextHold
<1>4. QED  BY <1>1, <1>2, <1>3, TypeCorrect, PTL DEF Spec, HeldSegmentsStay

\* A timeline the LRU knows is swept under its exclusive lock only.
SweepInv ==
    /\ lruKnown
    /\ evLock = "held" => Walkers = {}
    /\ evPc # "sweep" => evTodo = {}
    /\ evPc \in {"snapshot", "sweep"} => evLock # "none"
    /\ evTodo # {} => evLock = "held"

LEMMA JobStepSweep ==
    ASSUME TypeOK, SweepInv, NEW j \in Jobs, JobStep(j)
    PROVE  SweepInv' /\ present \subseteq present'
<1> USE DEF TypeOK, Goto, SweepInv, Walkers
<1>1. CASE InitTimeline(j) \/ Claim(j) \/ Publish(j)
  <2>1. CASE InitTimeline(j)  BY <2>1 DEF InitTimeline, memory, evictor
  <2>2. CASE Claim(j)  BY <2>2 DEF Claim, memory, evictor
  <2>3. CASE Publish(j)  BY <2>3 DEF Publish, memory, evictor
  <2>4. QED  BY <1>1, <2>1, <2>2, <2>3
<1>2. CASE SkipRange(j) \/ SkipEmptyRange(j) \/ StartRange(j)
  <2>1. CASE SkipRange(j)  BY <2>1 DEF SkipRange, memory, evictor, timeline
  <2>2. CASE SkipEmptyRange(j)  BY <2>2 DEF SkipEmptyRange, memory, evictor, timeline
  <2>3. CASE StartRange(j)  BY <2>3 DEF StartRange, memory, evictor, timeline
  <2>4. QED  BY <1>2, <2>1, <2>2, <2>3
<1>3. CASE ReadQuery(j) \/ FailQuery(j) \/ EndQuery(j) \/ EndRange(j)
  <2>1. CASE ReadQuery(j)  BY <2>1 DEF ReadQuery, memory, evictor, timeline
  <2>2. CASE FailQuery(j)  BY <2>2 DEF FailQuery, memory, evictor, timeline
  <2>3. CASE EndQuery(j)  BY <2>3 DEF EndQuery, memory, evictor, timeline
  <2>4. CASE EndRange(j)  BY <2>4 DEF EndRange, memory, evictor, timeline
  <2>5. QED  BY <1>3, <2>1, <2>2, <2>3, <2>4
<1>4. CASE InsertEvent(j)
  BY <1>4 DEF InsertEvent, memory, evictor
<1>5. CASE Settle(j)
  BY <1>5 DEF Settle, AfterSettle, memory, evictor, timeline
<1>6. CASE StartWalk(j)
  BY <1>6 DEF StartWalk, SharedFree, memory, evictor, timeline
<1>7. CASE WalkSegment(j)
  <2>1. UNCHANGED <<pc, evPc, evLock, evTodo, present>> /\ lruKnown'
    BY <1>7 DEF WalkSegment, evictor, timeline
  <2>2. QED  BY <2>1
<1>8. CASE EndWalk(j)
  BY <1>8 DEF EndWalk, memory, evictor, timeline
<1>9. QED  BY <1>1, <1>2, <1>3, <1>4, <1>5, <1>6, <1>7, <1>8 DEF JobStep

LEMMA NextSweep ==
    TypeOK /\ SweepInv /\ [Next]_vars =>
        SweepInv' /\ (Walkers # {} => present \subseteq present')
<1> SUFFICES ASSUME TypeOK, SweepInv, [Next]_vars
             PROVE  SweepInv' /\ (Walkers # {} => present \subseteq present')
  OBVIOUS
<1> USE DEF TypeOK, SweepInv, Walkers
<1>1. ASSUME NEW j \in Jobs, Begin(j) \/ Cancel(j) \/ FreeArray(j)
      PROVE  SweepInv' /\ UNCHANGED present
  <2>1. UNCHANGED <<lruKnown, evPc, evLock, evTodo, present>>
    BY <1>1 DEF Begin, Cancel, FreeArray, memory, evictor, timeline
  <2>2. \A k \in Jobs : pc'[k] = "walk" => pc[k] = "walk"
    BY <1>1 DEF Begin, Cancel, FreeArray, Goto
  <2>3. QED  BY <2>1, <2>2
<1>2. CASE EvictWake  BY <1>2 DEF EvictWake, memory, jobs, timeline
<1>3. CASE EvictLock  BY <1>3 DEF EvictLock, LockOutcomes, memory, jobs, timeline
<1>4. CASE EvictSnapshot  BY <1>4 DEF EvictSnapshot, jobs, timeline
<1>5. CASE EvictUnlock  BY <1>5 DEF EvictUnlock, memory, jobs, timeline
<1>6. ASSUME NEW s \in Slots, EvictKeep(s) PROVE SweepInv' /\ UNCHANGED present
  BY <1>6 DEF EvictKeep, memory, jobs, timeline
<1>7. ASSUME NEW s \in Slots, EvictRemove(s) PROVE SweepInv' /\ Walkers = {}
  BY <1>7 DEF EvictRemove, jobs
<1>8. CASE UNCHANGED vars
  BY <1>8 DEF vars, jobs, evictor, memory, timeline
<1>9. QED
  BY <1>1, <1>2, <1>3, <1>4, <1>5, <1>6, <1>7, <1>8, JobStepSweep DEF Next, EvictStep

\* On a timeline the LRU already knows, a walk never loses the segment it stands on.
\* (A timeline that enters m_lru_array between LockTimelines and the snapshot is
\* swept without its lock, hence the assumption.)
THEOREM SweepsExcludeWalks ==
    ASSUME ~ColdLRU
    PROVE  Spec => NoEvictionUnderWalk
<1>1. Init => SweepInv  BY DEF Init, SweepInv
<1>2. TypeOK /\ SweepInv /\ [Next]_vars => SweepInv'  BY NextSweep
<1>3. TypeOK /\ SweepInv /\ [Next]_vars => [Walkers # {} => present \subseteq present']_vars
  BY NextSweep
<1>4. QED  BY <1>1, <1>2, <1>3, TypeCorrect, PTL DEF Spec, NoEvictionUnderWalk

-----------------------------------------------------------------------------
(* What SegmentClaims promises follows from its specification alone.       *)

ClaimsWellTyped == claimed \in [Jobs -> SUBSET Segs]

\* SegmentClaims keeps the claims of different jobs apart.
THEOREM GrantsAreExclusive == Claims!Spec => []Claims!Exclusive
<1> DEFINE I == ClaimsWellTyped /\ Claims!Exclusive
<1>1. Claims!Init => I
  BY DEF Claims!Init, Claims!Exclusive, ClaimsWellTyped
<1>2. I /\ [Claims!Next]_claimed => I'
  <2> SUFFICES ASSUME I, [Claims!Next]_claimed PROVE I'
    OBVIOUS
  <2> USE DEF ClaimsWellTyped, Claims!Exclusive
  <2>1. ASSUME NEW j \in Jobs, NEW S \in SUBSET Segs, Claims!Acquire(j, S) PROVE I'
    BY <2>1 DEF Claims!Acquire, Claims!Free
  <2>2. ASSUME NEW j \in Jobs, NEW S \in SUBSET Segs, Claims!Release(j, S) PROVE I'
    BY <2>2 DEF Claims!Release
  <2>3. CASE UNCHANGED claimed  BY <2>3
  <2>4. QED  BY <2>1, <2>2, <2>3 DEF Claims!Next
<1>3. QED  BY <1>1, <1>2, PTL DEF Claims!Spec
-----------------------------------------------------------------------------
(* What is loaded.  Nothing is evicted and no query fails here: a segment  *)
(* that is evicted between its rows and its publication is valid and empty *)
(* (the run SegmentCache_refetch shows it).                                *)

\* Every event has a duration: a range with no other event is taken for empty, and two
\* slices leave out an event at the instant they share.
EventsLast == \A e \in Events : e.start < e.end

\* The event is in every segment it touches.
Filed(e) == \A s \in SlotsOf(e) : e \in content[s]

\* Every event that overlaps the time of the segment is filed.
Touches(e, s) == e.start < (s + 1) * SegDur /\ e.end > s * SegDur
LoadedSeg(s)  == \A e \in Events : OnTrack(e) /\ Touches(e, s) => Filed(e)

\* What an interval asks for.
Wanted(r) == { e \in Events : OnTrack(e) /\ e.start < r.end /\ e.end > r.start }

Contiguous(R) == \A i, k \in R : \A m \in i .. k : m \in R

\* What the runs, the rows and the requests of the jobs are made of.
RunShape(j) ==
    /\ Contiguous(run[j])
    /\ pc[j] # "fill" => todo[j] = {}
    /\ pc[j] # "idle" => req[j] \in Requests

\* The rows of the slices read so far are filed, but those still to insert.
RowsFiled(j) ==
    pc[j] \in {"query", "fill"} /\ ~cancelled[j] =>
        \A q \in 1 .. query[j] : \A e \in Rows(Part(run[j], q)) :
            OnTrack(e) /\ e \notin todo[j] => Filed(e)

\* A range that was read to its end is loaded, whatever its result.
RunLoaded(j) ==
    pc[j] = "publish" /\ result[j] # "Cancelled" => \A s \in run[j] : LoadedSeg(s)

\* So are the needed segments that the job did not claim, or gave back.
RestLoaded(j) ==
    pc[j] \in {"range", "query", "fill", "publish", "settle", "lock"} /\ result[j] # "Cancelled" =>
        \A s \in Needed(req[j]) \ claimed[j] : LoadedSeg(s)

\* A walk has an event, or still has a segment to visit that will emit it.
WalkFinds(j) ==
    pc[j] = "walk" /\ req[j].start < req[j].end =>
        \A e \in Wanted(req[j]) :
            e \in got[j] \/ \E s \in walk[j] : Overlaps(s, req[j]) /\ e \in content[s]

FetchFinds(j) ==
    pc[j] = "done" /\ result[j] # "Cancelled" /\ req[j].start < req[j].end =>
        Wanted(req[j]) \subseteq got[j]

JobLoads(j) ==
    RunShape(j) /\ RowsFiled(j) /\ RunLoaded(j) /\ RestLoaded(j) /\ WalkFinds(j) /\ FetchFinds(j)

FilledPresent == \A s \in Slots : content[s] # {} => s \in present

LoadInv ==
    /\ evPc = "idle"
    /\ FilledPresent
    /\ \A s \in valid : LoadedSeg(s)
    /\ \A j \in Jobs : JobLoads(j)

\* The inductive invariant of what is loaded.
LoadingInv == ClaimsInv /\ CancelInv /\ LoadInv

LEMMA FirstRunContiguous ==
    ASSUME NEW S \in SUBSET Segs
    PROVE  Contiguous(FirstRun(S))
<1>1. SUFFICES ASSUME NEW i \in FirstRun(S), NEW k \in FirstRun(S), NEW m \in i .. k
               PROVE  m \in FirstRun(S)
  BY DEF Contiguous
<1>2. i \in S /\ k \in S /\ i \in Int /\ k \in Int /\ m \in Int  BY DEF FirstRun, Segs
<1>3. m \in S  BY <1>2 DEF FirstRun
<1>4. ASSUME NEW l \in S, NEW x \in l .. m PROVE x \in S
  <2>1. l \in Int /\ x \in Int  BY DEF Segs
  <2>2. x \in l .. k  BY <1>2, <2>1
  <2>3. QED  BY <2>2 DEF FirstRun
<1>5. QED  BY <1>3, <1>4 DEF FirstRun

\* A run is an interval, and its width is that of its segments.
LEMMA RunInterval ==
    ASSUME NEW R \in SUBSET Segs, R # {}, Contiguous(R)
    PROVE  \E lo, hi \in Segs :
             /\ lo <= hi /\ R = lo .. hi
             /\ lo = CHOOSE i \in R : \A k \in R : i <= k
             /\ Cardinality(R) = hi - lo + 1
<1>1. NumSegs \in Int /\ Segs \subseteq Nat
  BY ConstantsAssumption DEF NumSegs, CeilDiv, Segs
<1>2. PICK lo \in R : \A k \in R : lo <= k  BY <1>1, LeastNumber
<1>3. NumSegs \in Nat /\ R \in SUBSET (0 .. NumSegs)  BY <1>1 DEF Segs
<1>4. PICK hi \in R : \A k \in R : k <= hi  BY <1>3, GreatestNumber
<1>5. lo \in Nat /\ hi \in Nat /\ lo <= hi  BY <1>1, <1>2
<1>6. R = lo .. hi
  <2>1. \A m \in lo .. hi : m \in R  BY <1>2, <1>4 DEF Contiguous
  <2>2. \A m \in R : m \in Nat /\ lo <= m /\ m <= hi  BY <1>1, <1>2, <1>4
  <2>3. R \subseteq lo .. hi
    <3>1. SUFFICES ASSUME NEW m \in R PROVE m \in lo .. hi  OBVIOUS
    <3>2. m \in Nat /\ lo <= m /\ m <= hi  BY <2>2
    <3>3. QED  BY <1>5, <3>2
  <2>4. lo .. hi \subseteq R  BY <2>1
  <2>5. QED  BY <2>3, <2>4
<1>7. (CHOOSE i \in R : \A k \in R : i <= k) = lo
  <2> DEFINE c == CHOOSE i \in R : \A k \in R : i <= k
  <2>1. c \in R /\ \A k \in R : c <= k  BY <1>2
  <2> HIDE DEF c
  <2>2. c <= lo /\ lo <= c /\ c \in Nat  BY <1>1, <1>2, <2>1
  <2>3. c = lo  BY <1>5, <2>2
  <2>4. QED  BY <2>3 DEF c
<1>8. Cardinality(R) = hi - lo + 1  BY <1>5, <1>6, FS_Interval
<1>9. QED  BY <1>1, <1>5, <1>6, <1>7, <1>8

\* The slices of a run leave out no event that touches one of its segments.
LEMMA SlicesCover ==
    ASSUME EventsLast, NEW R \in SUBSET Segs, Contiguous(R), NEW s \in R,
           NEW e \in Events, Touches(e, s)
    PROVE  \E q \in 1 .. Queries : e \in Rows(Part(R, q))
<1> USE ConstantsAssumption
<1>1. PICK lo \in Segs, hi \in Segs :
             /\ lo <= hi /\ R = lo .. hi
             /\ lo = CHOOSE i \in R : \A k \in R : i <= k
             /\ Cardinality(R) = hi - lo + 1
  BY RunInterval
<1>2. Segs \subseteq Nat /\ NumSegs \in Int  BY DEF Segs, NumSegs, CeilDiv
<1>3. lo \in Nat /\ hi \in Nat /\ s \in Nat /\ lo <= s /\ s <= hi /\ hi - lo + 1 \in 1 .. NumSegs
  <2>1. lo \in Nat /\ hi \in Nat /\ s \in Nat /\ lo <= s /\ s <= hi
    <3>1. lo \in Nat /\ hi \in Nat  BY <1>2
    <3>2. s \in lo .. hi  BY <1>1
    <3>3. QED  BY <3>1, <3>2
  <2>2. NumSegs \in Int /\ hi <= NumSegs - 1  BY <1>2 DEF Segs
  <2> HIDE DEF NumSegs
  <2>3. hi - lo + 1 \in 1 .. NumSegs  BY <1>1, <2>1, <2>2
  <2>4. QED  BY <2>1, <2>3
<1>4. e.start \in Nat /\ e.end \in Nat /\ e.start <= e.end  OBVIOUS
<1> DEFINE n == hi - lo + 1
           width == n * SegDur
           b(q) == lo * SegDur + (q * width) \div Queries
           base == s * SegDur
           u == IF e.start >= base THEN e.start ELSE base
<1>5. width \in Nat /\ base \in Nat /\ lo * SegDur \in Nat  BY <1>3
<1>6. /\ u \in Nat /\ base <= u /\ u < base + SegDur
      /\ e.start <= u /\ (u = e.start \/ (u < e.end))
      /\ u <= e.end /\ (u = e.end => e.start = e.end)
  <2>1. e.start < (s + 1) * SegDur /\ e.end > base  BY DEF Touches
  <2>2. (s + 1) * SegDur = base + SegDur  BY <1>3
  <2> HIDE DEF base
  <2>3. QED  BY <1>4, <1>5, <2>1, <2>2
<1>7. lo * SegDur <= base  BY <1>3, TimesMonotonic
<1>8. base + SegDur <= lo * SegDur + width
  <2>1. (s + 1) * SegDur <= (hi + 1) * SegDur  BY <1>3, TimesMonotonic
  <2>2. (s + 1) * SegDur = base + SegDur  BY <1>3
  <2>3. (hi + 1) * SegDur = lo * SegDur + width  BY <1>3
  <2>4. QED  BY <2>1, <2>2, <2>3
<1>9. \A q \in Nat : q * width \in Nat /\ (q * width) \div Queries \in Nat
  <2>1. TAKE q \in Nat
  <2>2. q * width \in Nat  BY <1>5
  <2>3. QED  BY <2>2, Quotient
<1>10. b(0) = lo * SegDur
  <2>1. 0 * width = 0  BY <1>5
  <2>2. 0 \div Queries = 0  BY QuotientIs
  <2>3. QED  BY <1>5, <2>1, <2>2
<1>11. b(Queries) = lo * SegDur + width
  <2>1. Queries * width \in Nat /\ width * Queries <= Queries * width
        /\ Queries * width < (width + 1) * Queries
    BY <1>5
  <2>2. (Queries * width) \div Queries = width  BY <1>5, <2>1, QuotientIs
  <2>3. QED  BY <2>2
<1> DEFINE above == { q \in Nat : u < b(q) }
<1> HIDE DEF width, base, u
<1>12. \A q \in Nat : b(q) \in Nat  BY <1>5, <1>9
<1> HIDE DEF b
<1>13. Queries \in above
  <2>1. b(Queries) \in Nat  BY <1>12
  <2>2. QED  BY <1>5, <1>6, <1>8, <1>11, <2>1
<1>14. above \in SUBSET Nat /\ above # {}  BY <1>13
<1>15. 0 \notin above  BY <1>5, <1>6, <1>7, <1>10
<1> HIDE DEF above
<1>16. PICK q \in above : \A k \in above : q <= k  BY <1>14, LeastNumber
<1>17. q \in 1 .. Queries /\ q - 1 \in Nat /\ q - 1 \notin above
  BY <1>13, <1>14, <1>15, <1>16
<1>18. u < b(q) /\ b(q - 1) <= u
  <2>1. b(q) \in Nat /\ b(q - 1) \in Nat  BY <1>12, <1>17
  <2>2. QED  BY <1>6, <1>16, <1>17, <2>1 DEF above
<1>19. e.start < b(q) /\ e.end > b(q - 1)
  <2>1. b(q) \in Nat /\ b(q - 1) \in Nat  BY <1>12, <1>17
  <2>2. e.start < b(q)  BY <1>4, <1>6, <1>18, <2>1
  <2>3. CASE u < e.end  BY <1>4, <1>6, <1>18, <2>1, <2>3
  <2>4. CASE u = e.end
    <3>1. e.start = e.end  BY <1>6, <2>4
    <3>2. QED  BY <1>4, <3>1 DEF EventsLast
  <2>5. QED  BY <1>4, <1>6, <2>2, <2>3, <2>4
<1>20. Part(R, q) = [start |-> b(q - 1), end |-> b(q)]
  BY <1>1 DEF Part, b, width
<1>21. e \in Rows(Part(R, q))  BY <1>19, <1>20 DEF Rows
<1>22. QED  BY <1>17, <1>21

\* A range without events in its buckets has nothing to load.
LEMMA EmptyIsLoaded ==
    ASSUME EventsLast, NEW R \in SUBSET Segs, HistogramEmpty(R), NEW s \in R
    PROVE  LoadedSeg(s)
<1>1. SUFFICES ASSUME NEW e \in Events, Touches(e, s) PROVE FALSE
  BY DEF LoadedSeg
<1>2. e.start > (s + 1) * SegDur \/ e.end <= s * SegDur  BY DEF HistogramEmpty, EventsLast
<1>3. e.start \in Nat /\ e.end \in Nat /\ (s + 1) * SegDur \in Int /\ s * SegDur \in Int
  <2>1. s \in Int /\ SegDur \in Int  BY ConstantsAssumption DEF Segs
  <2>2. QED  BY <2>1, ConstantsAssumption
<1>4. QED  BY <1>1, <1>2, <1>3 DEF Touches

\* A time before t is in a segment below the quotient of t, rounded up.
LEMMA BelowCeil ==
    ASSUME NEW t \in Nat, NEW u \in Nat, u < t, NEW s \in Nat, s * SegDur <= u
    PROVE  s < CeilDiv(t, SegDur)
<1> USE ConstantsAssumption
<1> DEFINE c == (t + SegDur - 1) \div SegDur
<1>1. t + SegDur - 1 \in Nat  OBVIOUS
<1>2. c \in Nat /\ t + SegDur - 1 < (c + 1) * SegDur  BY <1>1, Quotient
<1> HIDE DEF c
<1>3. SUFFICES ASSUME c <= s PROVE FALSE  BY <1>2 DEF CeilDiv, c
<1>4. (c + 1) * SegDur <= (s + 1) * SegDur  BY <1>2, <1>3, TimesMonotonic
<1>5. (s + 1) * SegDur = s * SegDur + SegDur  OBVIOUS
<1>6. s * SegDur \in Nat /\ (c + 1) * SegDur \in Nat  BY <1>2
<1>7. QED  BY <1>2, <1>4, <1>5, <1>6

\* A smaller time is in a segment that is not higher.
LEMMA SegmentsInOrder ==
    ASSUME NEW t \in Nat, NEW u \in Nat, t <= u
    PROVE  t \div SegDur <= u \div SegDur
<1> USE ConstantsAssumption
<1> DEFINE a == t \div SegDur
           b == u \div SegDur
<1>1. a \in Nat /\ a * SegDur <= t  BY Quotient
<1>2. b \in Nat /\ u < (b + 1) * SegDur  BY Quotient
<1> HIDE DEF a, b
<1>3. SUFFICES ASSUME b + 1 <= a PROVE FALSE  BY <1>1, <1>2 DEF a, b
<1>4. (b + 1) * SegDur <= a * SegDur  BY <1>1, <1>2, <1>3, TimesMonotonic
<1>5. (b + 1) * SegDur \in Nat /\ a * SegDur \in Nat  BY <1>1, <1>2
<1>6. QED  BY <1>1, <1>2, <1>4, <1>5

\* An event that an interval asks for is in a segment that the interval needs.
LEMMA WantedSegment ==
    ASSUME EventsLast, NEW r \in Interval, r.start < r.end, NEW e \in Wanted(r)
    PROVE  \E s \in Needed(r) :
             /\ Touches(e, s) /\ s \in SlotsOf(e)
             /\ s * SegDur <= r.end /\ (s + 1) * SegDur >= r.start
<1> USE ConstantsAssumption
<1>1. /\ r.start \in Nat /\ r.end \in Nat /\ r.end <= TrackEnd
      /\ e \in Events /\ e.start \in Nat /\ e.end \in Nat /\ e.start <= e.end
      /\ e.start < r.end /\ e.end > r.start
  BY DEF Interval, Wanted
<1> DEFINE u == IF e.start >= r.start THEN e.start ELSE r.start
           s == u \div SegDur
<1>2. /\ u \in Nat /\ e.start <= u /\ u <= e.end /\ r.start <= u /\ u < r.end
      /\ (u = e.end => e.start = e.end)
  BY <1>1
<1> HIDE DEF u
<1>3. s \in Nat /\ s * SegDur <= u /\ u < (s + 1) * SegDur  BY <1>2, Quotient
<1>4. e.start \div SegDur <= s /\ s <= e.end \div SegDur /\ r.start \div SegDur <= s
  BY <1>1, <1>2, SegmentsInOrder
<1>5. e.start \div SegDur \in Nat /\ e.end \div SegDur \in Nat  BY <1>1, Quotient
<1> HIDE DEF s
<1>6. s < CeilDiv(r.end, SegDur)  BY <1>1, <1>2, <1>3, BelowCeil
<1>7. s < NumSegs
  <2>1. u < TrackEnd  BY <1>1, <1>2
  <2>2. QED  BY <1>2, <1>3, <2>1, BelowCeil DEF NumSegs
<1>8. s \in Segs
  <2>1. NumSegs \in Int  BY DEF NumSegs, CeilDiv
  <2>2. QED  BY <1>3, <1>7, <2>1 DEF Segs
<1>9. s \in Needed(r)  BY <1>4, <1>6, <1>8 DEF Needed
<1>10. s \in SlotsOf(e)  BY <1>3, <1>4, <1>5 DEF SlotsOf
<1>11. s * SegDur \in Nat /\ (s + 1) * SegDur \in Nat  BY <1>3
<1>12. e.end # s * SegDur
  <2>1. SUFFICES ASSUME e.end = s * SegDur PROVE FALSE  OBVIOUS
  <2>2. e.start = e.end  BY <1>1, <1>2, <1>3, <2>1
  <2>3. QED  BY <1>1, <2>2 DEF EventsLast
<1>13. Touches(e, s)  BY <1>1, <1>2, <1>3, <1>11, <1>12 DEF Touches
<1>14. s * SegDur <= r.end /\ (s + 1) * SegDur >= r.start  BY <1>1, <1>2, <1>3, <1>11
<1>15. QED  BY <1>9, <1>10, <1>13, <1>14

ContentGrows == \A s \in Slots : content[s] \subseteq content'[s]

\* What was filed, loaded or found stays so while nothing is evicted.
LEMMA GrowKept ==
    ASSUME ContentGrows
    PROVE  /\ \A e \in Events : OnTrack(e) /\ Filed(e) => Filed(e)'
           /\ \A s \in Segs : LoadedSeg(s) => LoadedSeg(s)'
           /\ \A s \in Slots, r \in Interval : Overlaps(s, r) => Overlaps(s, r)'
<1>1. ASSUME NEW e \in Events, OnTrack(e), Filed(e) PROVE Filed(e)'
  BY <1>1, SlotsOfInSlots DEF ContentGrows, Filed
<1>2. ASSUME NEW s \in Segs, LoadedSeg(s) PROVE LoadedSeg(s)'
  BY <1>1, <1>2 DEF LoadedSeg
<1>3. ASSUME NEW s \in Slots, NEW r \in Interval, Overlaps(s, r) PROVE Overlaps(s, r)'
  BY <1>3 DEF ContentGrows, Overlaps, ReachesTo
<1>4. QED  BY <1>1, <1>2, <1>3

\* Nothing of another job changes.
OthersStill(j) ==
    \A k \in Jobs \ {j} :
        /\ pc'[k] = pc[k] /\ req'[k] = req[k] /\ claimed'[k] = claimed[k] /\ run'[k] = run[k]
        /\ query'[k] = query[k] /\ todo'[k] = todo[k] /\ result'[k] = result[k]
        /\ walk'[k] = walk[k] /\ got'[k] = got[k] /\ cancelled'[k] = cancelled[k]

\* A job whose variables stay as they are keeps what it loaded and found.
LEMMA JobKept ==
    ASSUME TypeOK, ContentGrows, NEW k \in Jobs, JobLoads(k),
           pc'[k] = pc[k], req'[k] = req[k], claimed'[k] = claimed[k], run'[k] = run[k],
           query'[k] = query[k], todo'[k] = todo[k], result'[k] = result[k],
           walk'[k] = walk[k], got'[k] = got[k], cancelled[k] => cancelled'[k]
    PROVE  JobLoads(k)'
<1>1. /\ \A e \in Events : OnTrack(e) /\ Filed(e) => Filed(e)'
      /\ \A s \in Segs : LoadedSeg(s) => LoadedSeg(s)'
      /\ \A s \in Slots, r \in Interval : Overlaps(s, r) => Overlaps(s, r)'
  BY GrowKept
<1>2. run[k] \subseteq Segs /\ Needed(req[k]) \subseteq Segs /\ walk[k] \subseteq Slots
      /\ req[k] \in Interval
  BY DEF TypeOK, Needed
<1>3. RunShape(k)'  BY DEF JobLoads, RunShape
<1>4. RowsFiled(k)'
  <2>1. SUFFICES ASSUME pc[k] \in {"query", "fill"}, ~cancelled[k], NEW q \in 1 .. query[k],
                        NEW e \in Rows(Part(run[k], q)), OnTrack(e), e \notin todo[k]
                 PROVE  Filed(e)'
    BY DEF RowsFiled
  <2>2. Filed(e)  BY <2>1 DEF JobLoads, RowsFiled
  <2>3. e \in Events  BY DEF Rows
  <2>4. QED  BY <1>1, <2>1, <2>2, <2>3
<1>5. RunLoaded(k)'  BY <1>1, <1>2 DEF JobLoads, RunLoaded
<1>6. RestLoaded(k)'
  <2>1. \A s \in Needed(req[k]) \ claimed[k] : s \in Segs  BY <1>2
  <2>2. QED  BY <1>1, <2>1 DEF JobLoads, RestLoaded
<1>7. WalkFinds(k)'
  <2>1. SUFFICES ASSUME pc[k] = "walk", req[k].start < req[k].end, NEW e \in Wanted(req[k]),
                        e \notin got[k]
                 PROVE  \E s \in walk[k] : Overlaps(s, req[k])' /\ e \in content'[s]
    BY DEF WalkFinds
  <2>2. PICK s \in walk[k] : Overlaps(s, req[k]) /\ e \in content[s]
    BY <2>1 DEF JobLoads, WalkFinds
  <2>3. s \in Slots  BY <1>2
  <2>4. e \in content'[s]  BY <2>2, <2>3 DEF ContentGrows
  <2>5. Overlaps(s, req[k])'  BY <1>1, <1>2, <2>2, <2>3
  <2>6. QED  BY <2>4, <2>5
<1>8. FetchFinds(k)'  BY DEF JobLoads, FetchFinds
<1>9. QED  BY <1>3, <1>4, <1>5, <1>6, <1>7, <1>8 DEF JobLoads

LEMMA JobStepOthers ==
    ASSUME TypeOK, NEW j \in Jobs, JobStep(j)
    PROVE  OthersStill(j)
<1> USE DEF TypeOK, Goto, OthersStill
<1>1. CASE InitTimeline(j) \/ Claim(j) \/ Publish(j)
  BY <1>1 DEF InitTimeline, Claim, Publish
<1>2. CASE SkipRange(j) \/ SkipEmptyRange(j) \/ StartRange(j)
  BY <1>2 DEF SkipRange, SkipEmptyRange, StartRange
<1>3. CASE ReadQuery(j) \/ FailQuery(j) \/ EndQuery(j) \/ EndRange(j)
  BY <1>3 DEF ReadQuery, FailQuery, EndQuery, EndRange
<1>4. CASE InsertEvent(j)  BY <1>4 DEF InsertEvent
<1>5. CASE Settle(j) \/ StartWalk(j) \/ EndWalk(j)
  BY <1>5 DEF Settle, StartWalk, EndWalk
<1>6. CASE WalkSegment(j)
  <2>1. PICK w, g :
          walk' = [walk EXCEPT ![j] = w] /\ got' = [got EXCEPT ![j] = g]
    BY <1>6 DEF WalkSegment
  <2>2. UNCHANGED <<pc, req, claimed, run, query, todo, cancelled>>
        /\ result' = [result EXCEPT ![j] = "Success"]
    BY <1>6 DEF WalkSegment
  <2>3. QED  BY <2>1, <2>2
<1>7. QED  BY <1>1, <1>2, <1>3, <1>4, <1>5, <1>6 DEF JobStep

LEMMA JobStepGrows ==
    ASSUME TypeOK, NEW j \in Jobs, JobStep(j)
    PROVE  ContentGrows
<1>1. CASE InsertEvent(j)  BY <1>1 DEF InsertEvent, ContentGrows, TypeOK
<1>2. CASE ~InsertEvent(j)
  <2>1. UNCHANGED content
    BY <1>2 DEF JobStep, InitTimeline, Claim, SkipRange, SkipEmptyRange, StartRange, ReadQuery,
       FailQuery, EndQuery, EndRange, Publish, Settle, StartWalk, WalkSegment, EndWalk, timeline
  <2>2. QED  BY <2>1 DEF ContentGrows
<1>3. QED  BY <1>1, <1>2

\* The claims, the range and the request of a job between two publications.
LEMMA FetchLoads ==
    ASSUME EventsLast, ~MayFail, ClaimsInv, CancelInv, LoadInv, NEW j \in Jobs,
           \/ InitTimeline(j) \/ Claim(j) \/ SkipRange(j) \/ SkipEmptyRange(j) \/ StartRange(j)
           \/ ReadQuery(j) \/ FailQuery(j) \/ EndQuery(j) \/ EndRange(j)
    PROVE  JobLoads(j)' /\ UNCHANGED <<content, present, evPc>> /\ valid' \subseteq valid
<1> USE DEF Goto
<1>1. UNCHANGED <<content, present, evPc>> /\ valid' \subseteq valid
  BY DEF InitTimeline, Claim, SkipRange, SkipEmptyRange, StartRange, ReadQuery, FailQuery,
     EndQuery, EndRange, timeline, evictor
<1>2. TypeOK /\ JobLoads(j) /\ \A s \in valid : LoadedSeg(s)  BY DEF ClaimsInv, LoadInv
<1>3. ContentGrows  BY <1>1 DEF ContentGrows
<1>4. /\ \A e \in Events : OnTrack(e) /\ Filed(e) => Filed(e)'
      /\ \A s \in Segs : LoadedSeg(s) => LoadedSeg(s)'
  BY <1>3, GrowKept
<1>5. /\ run[j] \subseteq Segs /\ claimed[j] \subseteq Segs /\ valid \subseteq Segs
      /\ \A r : Needed(r) \subseteq Segs
  BY <1>2 DEF TypeOK, Needed
<1>6. RunShape(j) /\ RowsFiled(j) /\ RestLoaded(j)  BY <1>2 DEF JobLoads
<1>7. FirstRun(claimed[j]) \subseteq Segs /\ Contiguous(FirstRun(claimed[j]))
  BY <1>5, FirstRunContiguous DEF FirstRun
<1>8. ASSUME RunShape(j)', RowsFiled(j)', RunLoaded(j)', RestLoaded(j)',
             pc'[j] \notin {"walk", "done"}
      PROVE  JobLoads(j)'
  BY <1>8 DEF JobLoads, WalkFinds, FetchFinds
<1>9. ASSUME pc[j] \in {"range", "query", "fill"}, result[j] # "Cancelled",
             UNCHANGED <<req, claimed>>
      PROVE  RestLoaded(j)'
  <2>1. \A s \in Needed(req[j]) \ claimed[j] : LoadedSeg(s)  BY <1>6, <1>9 DEF RestLoaded
  <2>2. \A s \in Needed(req[j]) \ claimed[j] : LoadedSeg(s)'  BY <1>4, <1>5, <2>1
  <2>3. QED  BY <1>9, <2>2 DEF RestLoaded
<1>10. CASE InitTimeline(j)
  <2>1. pc'[j] = "claim" /\ UNCHANGED <<req, run, todo>> /\ pc[j] = "init"
    BY <1>2, <1>10 DEF InitTimeline, TypeOK
  <2>2. RunShape(j)'  BY <1>6, <2>1 DEF RunShape
  <2>3. QED  BY <1>1, <1>8, <2>1, <2>2 DEF RowsFiled, RunLoaded, RestLoaded
<1>11. CASE Claim(j)
  <2> DEFINE missing == Needed(req[j]) \ valid
  <2>1. /\ pc'[j] \in {"settle", "range"} /\ pc[j] = "claim" /\ UNCHANGED <<req, run, todo>>
        /\ claimed'[j] = missing
    BY <1>2, <1>11 DEF Claim, TypeOK
  <2>2. RunShape(j)'  BY <1>6, <2>1 DEF RunShape
  <2>3. \A s \in Needed(req[j]) \ missing : LoadedSeg(s)'  BY <1>2, <1>4, <1>5
  <2>4. RestLoaded(j)'  BY <2>1, <2>3 DEF RestLoaded
  <2>5. QED  BY <1>1, <1>8, <2>1, <2>2, <2>4 DEF RowsFiled, RunLoaded
<1>12. CASE SkipRange(j)
  <2>1. /\ pc'[j] = "publish" /\ pc[j] = "range" /\ UNCHANGED <<req, todo>>
        /\ run'[j] = FirstRun(claimed[j]) /\ result'[j] = "Cancelled"
    BY <1>2, <1>12 DEF SkipRange, TypeOK
  <2>2. RunShape(j)'  BY <1>6, <1>7, <2>1 DEF RunShape, Contiguous
  <2>3. QED  BY <1>1, <1>8, <2>1, <2>2 DEF RowsFiled, RunLoaded, RestLoaded
<1>13. CASE SkipEmptyRange(j)
  <2>1. /\ pc'[j] = "publish" /\ pc[j] = "range" /\ UNCHANGED <<req, claimed, todo>>
        /\ run'[j] = FirstRun(claimed[j]) /\ ~cancelled[j]
        /\ HistogramEmpty(FirstRun(claimed[j]))
    BY <1>2, <1>13 DEF SkipEmptyRange, TypeOK
  <2>2. RunShape(j)'  BY <1>6, <1>7, <2>1 DEF RunShape, Contiguous
  <2>3. \A s \in FirstRun(claimed[j]) : LoadedSeg(s)'  BY <1>4, <1>7, <2>1, EmptyIsLoaded
  <2>4. RunLoaded(j)'  BY <2>1, <2>3 DEF RunLoaded
  <2>5. result[j] # "Cancelled"  BY <2>1 DEF CancelInv
  <2>6. QED  BY <1>1, <1>8, <1>9, <2>1, <2>2, <2>4, <2>5 DEF RowsFiled
<1>14. CASE StartRange(j)
  <2>1. /\ pc'[j] = "query" /\ pc[j] = "range" /\ UNCHANGED <<req, claimed, todo>>
        /\ run'[j] = FirstRun(claimed[j]) /\ ~cancelled[j] /\ query'[j] = 0
    BY <1>2, <1>14 DEF StartRange, TypeOK
  <2>2. RunShape(j)'  BY <1>6, <1>7, <2>1 DEF RunShape, Contiguous
  <2>3. RowsFiled(j)'  BY <2>1 DEF RowsFiled
  <2>4. result[j] # "Cancelled"  BY <2>1 DEF CancelInv
  <2>5. QED  BY <1>1, <1>8, <1>9, <2>1, <2>2, <2>3, <2>4 DEF RunLoaded
<1>15. CASE ReadQuery(j)
  <2> DEFINE q == query[j] + 1
  <2>1. /\ pc'[j] = "fill" /\ pc[j] = "query" /\ UNCHANGED <<req, claimed, run, cancelled>>
        /\ query'[j] = q /\ todo'[j] = Rows(Part(run[j], q)) /\ query[j] \in Nat
    BY <1>2, <1>15, ConstantsAssumption DEF ReadQuery, TypeOK
  <2>2. RunShape(j)'  BY <1>6, <2>1 DEF RunShape
  <2>3. RowsFiled(j)'
    <3>1. SUFFICES ASSUME ~cancelled[j], NEW p \in 1 .. q, NEW e \in Rows(Part(run[j], p)),
                          OnTrack(e), e \notin Rows(Part(run[j], q))
                   PROVE  Filed(e)'
      BY <2>1 DEF RowsFiled
    <3>2. p \in 1 .. query[j]  BY <2>1, <3>1
    <3>3. e \notin todo[j] /\ e \in Events  BY <1>6, <2>1 DEF RunShape, Rows
    <3>4. Filed(e)  BY <1>6, <2>1, <3>1, <3>2, <3>3 DEF RowsFiled
    <3>5. QED  BY <1>4, <3>1, <3>3, <3>4
  <2>4. result[j] # "Cancelled"  BY <2>1 DEF CancelInv
  <2>5. QED  BY <1>1, <1>8, <1>9, <2>1, <2>2, <2>3, <2>4 DEF RunLoaded
<1>16. CASE FailQuery(j)  BY <1>16 DEF FailQuery
<1>17. CASE EndQuery(j)
  <2>1. /\ pc'[j] = "query" /\ pc[j] = "fill" /\ UNCHANGED <<req, claimed, run, query, cancelled>>
        /\ todo'[j] = {} /\ (todo[j] = {} \/ cancelled[j])
    BY <1>2, <1>17 DEF EndQuery, TypeOK
  <2>2. RunShape(j)'  BY <1>6, <2>1 DEF RunShape
  <2>3. RowsFiled(j)'
    <3>1. SUFFICES ASSUME ~cancelled[j], NEW p \in 1 .. query[j],
                          NEW e \in Rows(Part(run[j], p)), OnTrack(e)
                   PROVE  Filed(e)'
      BY <2>1 DEF RowsFiled
    <3>2. e \notin todo[j] /\ e \in Events  BY <2>1, <3>1 DEF Rows
    <3>3. Filed(e)  BY <1>6, <2>1, <3>1, <3>2 DEF RowsFiled
    <3>4. QED  BY <1>4, <3>1, <3>2, <3>3
  <2>4. result[j] # "Cancelled"  BY <2>1 DEF CancelInv
  <2>5. QED  BY <1>1, <1>8, <1>9, <2>1, <2>2, <2>3, <2>4 DEF RunLoaded
<1>18. CASE EndRange(j)
  <2>1. /\ pc'[j] = "publish" /\ pc[j] = "query" /\ query[j] = Queries
        /\ UNCHANGED <<req, claimed, run, todo>> /\ (cancelled[j] => result'[j] = "Cancelled")
    BY <1>2, <1>18 DEF EndRange, TypeOK
  <2>2. RunShape(j)'  BY <1>6, <2>1 DEF RunShape
  <2>3. ASSUME ~cancelled[j], NEW s \in run[j] PROVE LoadedSeg(s)'
    <3>1. SUFFICES ASSUME NEW e \in Events, OnTrack(e), Touches(e, s) PROVE Filed(e)
      BY <1>4, <1>5, <2>3 DEF LoadedSeg
    <3>2. Contiguous(run[j]) /\ todo[j] = {}  BY <1>6, <2>1 DEF RunShape
    <3>3. PICK q \in 1 .. Queries : e \in Rows(Part(run[j], q))
      BY <1>5, <3>1, <3>2, SlicesCover
    <3>4. QED  BY <1>6, <2>1, <2>3, <3>1, <3>2, <3>3 DEF RowsFiled
  <2>4. RunLoaded(j)'  BY <2>1, <2>3 DEF RunLoaded
  <2>5. result[j] # "Cancelled"  BY <2>1 DEF CancelInv
  <2>6. QED  BY <1>1, <1>8, <1>9, <2>1, <2>2, <2>4, <2>5 DEF RowsFiled
<1>19. QED
  BY <1>1, <1>10, <1>11, <1>12, <1>13, <1>14, <1>15, <1>16, <1>17, <1>18

\* One row: the event is filed under every segment it touches.
LEMMA InsertLoads ==
    ASSUME ClaimsInv, CancelInv, LoadInv, NEW j \in Jobs, InsertEvent(j)
    PROVE  JobLoads(j)' /\ FilledPresent' /\ UNCHANGED <<valid, evPc>>
<1>1. TypeOK /\ JobLoads(j) /\ FilledPresent  BY DEF ClaimsInv, LoadInv
<1>2. ContentGrows  BY <1>1, JobStepGrows DEF JobStep
<1>3. /\ \A e \in Events : OnTrack(e) /\ Filed(e) => Filed(e)'
      /\ \A s \in Segs : LoadedSeg(s) => LoadedSeg(s)'
  BY <1>2, GrowKept
<1>4. /\ pc[j] = "fill" /\ ~cancelled[j]
      /\ UNCHANGED <<pc, req, claimed, run, query, cancelled, valid, evPc>>
  BY DEF InsertEvent, evictor
<1>5. result[j] # "Cancelled"  BY <1>4 DEF CancelInv
<1>6. PICK e \in todo[j] :
        /\ todo' = [todo EXCEPT ![j] = @ \ {e}]
        /\ \/ /\ OnTrack(e)
              /\ present' = present \cup SlotsOf(e)
              /\ content' = [s \in Slots |-> IF s \in SlotsOf(e) THEN content[s] \cup {e}
                                                                 ELSE content[s]]
           \/ /\ ~OnTrack(e)
              /\ UNCHANGED <<present, content>>
  BY DEF InsertEvent
<1>7. e \in Events /\ todo'[j] = todo[j] \ {e}  BY <1>1, <1>6 DEF TypeOK
<1>8. OnTrack(e) => Filed(e)'
  <2>1. SUFFICES ASSUME OnTrack(e), NEW s \in SlotsOf(e) PROVE e \in content'[s]
    BY DEF Filed
  <2>2. s \in Slots  BY <1>7, <2>1, SlotsOfInSlots
  <2>3. QED  BY <1>6, <2>1, <2>2
<1>9. RunShape(j)'  BY <1>1, <1>4 DEF JobLoads, RunShape
<1>10. RowsFiled(j)'
  <2>1. SUFFICES ASSUME NEW q \in 1 .. query[j], NEW f \in Rows(Part(run[j], q)), OnTrack(f),
                        f \notin todo'[j]
                 PROVE  Filed(f)'
    BY <1>4 DEF RowsFiled
  <2>2. CASE f = e  BY <1>8, <2>1, <2>2
  <2>3. CASE f # e
    <3>1. f \notin todo[j] /\ f \in Events  BY <1>7, <2>1, <2>3 DEF Rows
    <3>2. Filed(f)  BY <1>1, <1>4, <2>1, <3>1 DEF JobLoads, RowsFiled
    <3>3. QED  BY <1>3, <2>1, <3>1, <3>2
  <2>4. QED  BY <2>2, <2>3
<1>11. RestLoaded(j)'
  <2>1. \A s \in Needed(req[j]) \ claimed[j] : s \in Segs /\ LoadedSeg(s)
    BY <1>1, <1>4, <1>5 DEF JobLoads, RestLoaded, Needed
  <2>2. \A s \in Needed(req[j]) \ claimed[j] : LoadedSeg(s)'  BY <1>3, <2>1
  <2>3. QED  BY <1>4, <2>2 DEF RestLoaded
<1>12. JobLoads(j)'
  BY <1>4, <1>9, <1>10, <1>11 DEF JobLoads, RunLoaded, WalkFinds, FetchFinds
<1>13. FilledPresent'
  <2>1. CASE OnTrack(e)
    <3>1. SUFFICES ASSUME NEW s \in Slots, content'[s] # {} PROVE s \in present'
      BY DEF FilledPresent
    <3>2. s \in SlotsOf(e) \/ content[s] # {}  BY <1>6, <2>1, <3>1
    <3>3. QED  BY <1>1, <1>6, <2>1, <3>2 DEF FilledPresent
  <2>2. CASE ~OnTrack(e)  BY <1>1, <1>6, <2>2 DEF FilledPresent
  <2>3. QED  BY <2>1, <2>2
<1>14. QED  BY <1>4, <1>12, <1>13

\* The run given back is loaded if it is made valid; the walk may start once every
\* needed segment is.
LEMMA PublishLoads ==
    ASSUME ClaimsInv, CancelInv, LoadInv, NEW j \in Jobs, Publish(j) \/ Settle(j)
    PROVE  /\ JobLoads(j)' /\ UNCHANGED <<content, present, evPc>>
           /\ \A s \in valid' : LoadedSeg(s)
<1>1. TypeOK /\ JobLoads(j) /\ \A s \in valid : LoadedSeg(s)  BY DEF ClaimsInv, LoadInv
<1>2. UNCHANGED <<content, present, evPc>>  BY DEF Publish, Settle, timeline, evictor
<1>3. ContentGrows  BY <1>2 DEF ContentGrows
<1>4. \A s \in Segs : LoadedSeg(s) => LoadedSeg(s)'  BY <1>3, GrowKept
<1>5. \A r : Needed(r) \subseteq Segs  BY DEF Needed
<1>6. CASE Publish(j)
  <2>1. /\ pc[j] = "publish" /\ pc'[j] \in {"settle", "range"}
        /\ UNCHANGED <<req, todo, result>>
        /\ claimed'[j] = claimed[j] \ run[j] /\ run'[j] = {}
        /\ valid' \subseteq valid \cup run[j]
        /\ result[j] # "Success" => valid' \subseteq valid
    BY <1>1, <1>6 DEF Publish, Loaded, TypeOK, Goto
  <2>2. result[j] # "Cancelled" => \A s \in run[j] : LoadedSeg(s)
    BY <1>1, <2>1 DEF JobLoads, RunLoaded
  <2>3. \A s \in valid' : LoadedSeg(s)  BY <1>1, <2>1, <2>2
  <2>4. RunShape(j)'  BY <1>1, <2>1 DEF JobLoads, RunShape, Contiguous
  <2>5. RestLoaded(j)'
    <3>1. SUFFICES ASSUME result[j] # "Cancelled", NEW s \in Needed(req[j]) \ (claimed[j] \ run[j])
                   PROVE  LoadedSeg(s)'
      BY <2>1 DEF RestLoaded
    <3>2. CASE s \in run[j]  BY <1>4, <1>5, <2>2, <3>1, <3>2
    <3>3. CASE s \notin run[j]
      <4>1. LoadedSeg(s)  BY <1>1, <2>1, <3>1, <3>3 DEF JobLoads, RestLoaded
      <4>2. QED  BY <1>4, <1>5, <3>1, <4>1
    <3>4. QED  BY <3>2, <3>3
  <2>6. JobLoads(j)'
    BY <2>1, <2>4, <2>5 DEF JobLoads, RowsFiled, RunLoaded, WalkFinds, FetchFinds
  <2>7. QED  BY <1>2, <2>3, <2>6
<1>7. CASE Settle(j)
  <2>1. /\ pc[j] = "settle" /\ pc'[j] \in {"lock", "done"}
        /\ pc'[j] = "done" => result[j] = "Cancelled"
        /\ UNCHANGED <<req, todo, result, claimed, run, valid>>
    BY <1>1, <1>7 DEF Settle, AfterSettle, TypeOK, Goto, timeline
  <2>2. RunShape(j)'  BY <1>1, <2>1 DEF JobLoads, RunShape
  <2>3. RestLoaded(j)'
    <3>1. SUFFICES ASSUME result[j] # "Cancelled", NEW s \in Needed(req[j]) \ claimed[j]
                   PROVE  LoadedSeg(s)'
      BY <2>1 DEF RestLoaded
    <3>2. LoadedSeg(s)  BY <1>1, <2>1, <3>1 DEF JobLoads, RestLoaded
    <3>3. QED  BY <1>4, <1>5, <3>1, <3>2
  <2>4. JobLoads(j)'
    BY <2>1, <2>2, <2>3 DEF JobLoads, RowsFiled, RunLoaded, WalkFinds, FetchFinds
  <2>5. QED  BY <1>1, <1>2, <2>1, <2>4
<1>8. QED  BY <1>6, <1>7

\* The walk starts on every segment that holds an event it looks for.
LEMMA StartFinds ==
    ASSUME EventsLast, ClaimsInv, CancelInv, LoadInv, NEW j \in Jobs, StartWalk(j),
           req[j].start < req[j].end, NEW e \in Wanted(req[j])
    PROVE  \E s \in WalkSet(req[j]) : Overlaps(s, req[j]) /\ e \in content[s]
<1> DEFINE r == req[j]
<1>1. pc[j] = "lock" /\ r \in Interval  BY DEF StartWalk, ClaimsInv, TypeOK
<1>2. claimed[j] = {} /\ result[j] # "Cancelled"
  BY <1>1 DEF ClaimsInv, ClaimsByPhase, CancelInv
<1>3. \A s \in Needed(r) : LoadedSeg(s)
  BY <1>1, <1>2 DEF LoadInv, JobLoads, RestLoaded
<1>4. PICK s \in Needed(r) : /\ Touches(e, s) /\ s \in SlotsOf(e)
                             /\ s * SegDur <= r.end /\ (s + 1) * SegDur >= r.start
  BY <1>1, WantedSegment
<1>5. e \in Events /\ OnTrack(e) /\ e.end > r.start  BY DEF Wanted
<1>6. e \in content[s]  BY <1>3, <1>4, <1>5 DEF LoadedSeg, Filed
<1>7. s \in Slots /\ s \in Nat
  <2>1. NumSegs \in Int /\ s \in Segs  BY ConstantsAssumption DEF NumSegs, CeilDiv, Needed
  <2> HIDE DEF NumSegs
  <2>2. QED  BY <2>1 DEF Segs, Slots
<1>8. s \in present  BY <1>6, <1>7 DEF LoadInv, FilledPresent
<1>9. ReachesTo(s, r.start)
  <2>1. e.end >= r.start  BY <1>1, <1>5, ConstantsAssumption DEF Interval
  <2>2. QED  BY <1>6, <2>1 DEF ReachesTo
<1>10. s \in WalkSet(r)  BY <1>4, <1>7, <1>8, <1>9 DEF WalkSet
<1>11. Overlaps(s, r)  BY <1>4 DEF Overlaps
<1>12. QED  BY <1>6, <1>10, <1>11

\* The walk emits what it looks for before it leaves a segment.
LEMMA WalkLoads ==
    ASSUME EventsLast, ClaimsInv, CancelInv, LoadInv, NEW j \in Jobs,
           StartWalk(j) \/ WalkSegment(j) \/ EndWalk(j)
    PROVE  JobLoads(j)' /\ UNCHANGED <<content, present, evPc, valid>>
<1>1. TypeOK /\ JobLoads(j)  BY DEF ClaimsInv, LoadInv
<1>2. /\ UNCHANGED <<content, present, evPc, valid>>
      /\ UNCHANGED <<req, claimed, run, query, todo, cancelled>>
  BY DEF StartWalk, WalkSegment, EndWalk, timeline, evictor
<1>3. /\ pc[j] \in {"lock", "walk"} /\ pc'[j] \in {"walk", "done"}
  BY <1>1 DEF StartWalk, WalkSegment, EndWalk, TypeOK, Goto
<1>4. RunShape(j)'  BY <1>1, <1>2, <1>3 DEF JobLoads, RunShape
<1>5. ASSUME WalkFinds(j)', FetchFinds(j)' PROVE JobLoads(j)'
  BY <1>3, <1>4, <1>5 DEF JobLoads, RowsFiled, RunLoaded, RestLoaded
<1>6. \A s : Overlaps(s, req[j]) => Overlaps(s, req[j])'
  BY <1>2 DEF Overlaps, ReachesTo
<1>7. CASE StartWalk(j)
  <2>1. pc'[j] = "walk" /\ walk'[j] = WalkSet(req[j])
    BY <1>1, <1>7 DEF StartWalk, TypeOK, Goto
  <2>2. WalkFinds(j)'
    <3>1. SUFFICES ASSUME req[j].start < req[j].end, NEW e \in Wanted(req[j])
                   PROVE  \E s \in WalkSet(req[j]) : Overlaps(s, req[j])' /\ e \in content[s]
      BY <1>2, <2>1 DEF WalkFinds
    <3>2. QED  BY <1>6, <1>7, <3>1, StartFinds
  <2>3. QED  BY <1>2, <1>5, <2>1, <2>2 DEF FetchFinds
<1>8. CASE WalkSegment(j)
  <2>1. PICK s \in walk[j] :
          LET seen == { k \in {s} : Overlaps(k, req[j]) } IN
            /\ walk' = [walk EXCEPT ![j] = @ \ {s}]
            /\ got' = [got EXCEPT ![j] = @ \cup UNION { Emitted(k, req[j]) : k \in seen }]
    BY <1>8 DEF WalkSegment
  <2>2. /\ walk'[j] = walk[j] \ {s} /\ got[j] \subseteq got'[j]
        /\ Overlaps(s, req[j]) => Emitted(s, req[j]) \subseteq got'[j]
    BY <1>1, <2>1 DEF TypeOK
  <2>3. pc'[j] = "walk" /\ pc[j] = "walk"  BY <1>8 DEF WalkSegment
  <2>4. WalkFinds(j)'
    <3>1. SUFFICES ASSUME req[j].start < req[j].end, NEW e \in Wanted(req[j]), e \notin got'[j]
                   PROVE  \E k \in walk'[j] : Overlaps(k, req[j])' /\ e \in content[k]
      BY <1>2, <2>3 DEF WalkFinds
    <3>2. PICK k \in walk[j] : Overlaps(k, req[j]) /\ e \in content[k]
      BY <1>1, <2>2, <2>3, <3>1 DEF JobLoads, WalkFinds
    <3>3. k # s
      <4>1. SUFFICES ASSUME k = s PROVE FALSE  OBVIOUS
      <4>2. e.start <= req[j].end /\ e.end >= req[j].start
        BY <1>1, ConstantsAssumption DEF Wanted, TypeOK, Interval
      <4>3. e \in Emitted(s, req[j])  BY <3>2, <4>1, <4>2 DEF Emitted
      <4>4. QED  BY <2>2, <3>1, <3>2, <4>1, <4>3
    <3>4. QED  BY <1>6, <2>2, <3>2, <3>3
  <2>5. QED  BY <1>2, <1>5, <2>3, <2>4 DEF FetchFinds
<1>9. CASE EndWalk(j)
  <2>1. /\ pc[j] = "walk" /\ pc'[j] = "done" /\ UNCHANGED got
        /\ walk[j] # {} => result'[j] = "Cancelled"
    BY <1>1, <1>9 DEF EndWalk, TypeOK, Goto
  <2>2. FetchFinds(j)'
    <3>1. SUFFICES ASSUME walk[j] = {}, req[j].start < req[j].end
                   PROVE  Wanted(req[j]) \subseteq got[j]
      BY <1>2, <2>1 DEF FetchFinds
    <3>2. QED  BY <1>1, <2>1, <3>1 DEF JobLoads, WalkFinds
  <2>3. QED  BY <1>2, <1>5, <2>1, <2>2 DEF WalkFinds
<1>10. QED  BY <1>7, <1>8, <1>9

LEMMA InitLoads == Init => LoadingInv
<1> SUFFICES ASSUME Init PROVE LoadingInv
  OBVIOUS
<1>1. ClaimsInv  BY InitClaims
<1>2. CancelInv  BY DEF Init, CancelInv
<1>3. \A j \in Jobs : JobLoads(j)
  BY DEF Init, JobLoads, RunShape, Contiguous, RowsFiled, RunLoaded, RestLoaded, WalkFinds,
     FetchFinds
<1>4. LoadInv  BY <1>3 DEF Init, LoadInv, FilledPresent
<1>5. QED  BY <1>1, <1>2, <1>4 DEF LoadingInv

\* A step of one job keeps what the others have loaded.
LEMMA OthersLoad ==
    ASSUME TypeOK, LoadInv, NEW j \in Jobs, ContentGrows, OthersStill(j), JobLoads(j)'
    PROVE  \A k \in Jobs : JobLoads(k)'
<1>1. SUFFICES ASSUME NEW k \in Jobs, k # j PROVE JobLoads(k)'
  OBVIOUS
<1>2. JobLoads(k)  BY DEF LoadInv
<1>3. QED  BY <1>1, <1>2, JobKept DEF OthersStill

LEMMA JobStepLoads ==
    ASSUME EventsLast, ~MayFail, LoadingInv, NEW j \in Jobs, JobStep(j)
    PROVE  LoadInv'
<1>1. ClaimsInv /\ CancelInv /\ LoadInv /\ TypeOK  BY DEF LoadingInv, ClaimsInv
<1>2. ContentGrows /\ OthersStill(j)  BY <1>1, JobStepGrows, JobStepOthers
<1>3. \A s \in Segs : LoadedSeg(s) => LoadedSeg(s)'  BY <1>2, GrowKept
<1>4. /\ JobLoads(j)' /\ FilledPresent' /\ evPc' = "idle"
      /\ \A s \in valid' : LoadedSeg(s)
  <2>1. CASE \/ InitTimeline(j) \/ Claim(j) \/ SkipRange(j) \/ SkipEmptyRange(j) \/ StartRange(j)
             \/ ReadQuery(j) \/ FailQuery(j) \/ EndQuery(j) \/ EndRange(j)
    <3>1. JobLoads(j)' /\ UNCHANGED <<content, present, evPc>> /\ valid' \subseteq valid
      BY <1>1, <2>1, FetchLoads
    <3>2. QED  BY <1>1, <3>1 DEF LoadInv, FilledPresent
  <2>2. CASE InsertEvent(j)
    <3>1. JobLoads(j)' /\ FilledPresent' /\ UNCHANGED <<valid, evPc>>
      BY <1>1, <2>2, InsertLoads
    <3>2. QED  BY <1>1, <3>1 DEF LoadInv
  <2>3. CASE Publish(j) \/ Settle(j)
    <3>1. /\ JobLoads(j)' /\ UNCHANGED <<content, present, evPc>>
          /\ \A s \in valid' : LoadedSeg(s)
      BY <1>1, <2>3, PublishLoads
    <3>2. QED  BY <1>1, <3>1 DEF LoadInv, FilledPresent
  <2>4. CASE StartWalk(j) \/ WalkSegment(j) \/ EndWalk(j)
    <3>1. JobLoads(j)' /\ UNCHANGED <<content, present, evPc, valid>>
      BY <1>1, <2>4, WalkLoads
    <3>2. QED  BY <1>1, <3>1 DEF LoadInv, FilledPresent
  <2>5. QED  BY <2>1, <2>2, <2>3, <2>4 DEF JobStep
<1>5. valid' \subseteq Segs  BY <1>1, JobStepType DEF TypeOK
<1>6. \A s \in valid' : LoadedSeg(s)'  BY <1>3, <1>4, <1>5
<1>7. \A k \in Jobs : JobLoads(k)'  BY <1>1, <1>2, <1>4, OthersLoad
<1>8. QED  BY <1>4, <1>6, <1>7 DEF LoadInv

\* The callers load nothing, and nothing is evicted.
LEMMA NextLoads ==
    ASSUME EventsLast, ~MayFail, ~MayEvict
    PROVE  LoadingInv /\ [Next]_vars => LoadingInv'
<1> SUFFICES ASSUME LoadingInv, [Next]_vars PROVE LoadInv'
  BY NextClaims, NextCancel DEF LoadingInv, ClaimsInv
<1>1. TypeOK /\ LoadInv  BY DEF LoadingInv, ClaimsInv
<1>2. ASSUME UNCHANGED <<content, present, evPc, valid>>, NEW j \in Jobs, OthersStill(j),
             JobLoads(j)'
      PROVE  LoadInv'
  <2>1. ContentGrows  BY <1>2 DEF ContentGrows
  <2>2. \A k \in Jobs : JobLoads(k)'  BY <1>1, <1>2, <2>1, OthersLoad
  <2>3. \A s \in valid' : LoadedSeg(s)'
    BY <1>1, <1>2 DEF LoadInv, LoadedSeg, Filed
  <2>4. QED  BY <1>1, <1>2, <2>2, <2>3 DEF LoadInv, FilledPresent
<1>3. ASSUME NEW j \in Jobs, Begin(j) PROVE LoadInv'
  <2>1. UNCHANGED <<content, present, evPc, valid>> /\ OthersStill(j)
    BY <1>1, <1>3 DEF Begin, OthersStill, TypeOK, Goto, timeline, evictor
  <2>2. /\ pc[j] = "idle" /\ pc'[j] \in {"init", "claim"} /\ req'[j] \in Requests
        /\ UNCHANGED <<run, todo>>
    BY <1>1, <1>3 DEF Begin, TypeOK, Goto
  <2>3. JobLoads(j)'
    BY <1>1, <2>2
    DEF LoadInv, JobLoads, RunShape, RowsFiled, RunLoaded, RestLoaded, WalkFinds, FetchFinds
  <2>4. QED  BY <1>2, <2>1, <2>3
<1>4. ASSUME NEW j \in Jobs, JobStep(j) PROVE LoadInv'
  BY <1>4, JobStepLoads
<1>5. ASSUME NEW j \in Jobs, Cancel(j) PROVE LoadInv'
  <2>1. /\ UNCHANGED <<content, present, evPc, valid>>
        /\ UNCHANGED <<pc, req, claimed, run, query, todo, result, walk, got>>
        /\ \A k \in Jobs : (cancelled[k] => cancelled'[k]) /\ (k # j => cancelled'[k] = cancelled[k])
    BY <1>1, <1>5 DEF Cancel, TypeOK, timeline, evictor
  <2>2. OthersStill(j)  BY <2>1 DEF OthersStill
  <2>3. ContentGrows  BY <2>1 DEF ContentGrows
  <2>4. JobLoads(j)'  BY <1>1, <2>1, <2>3, JobKept DEF LoadInv
  <2>5. QED  BY <1>2, <2>1, <2>2, <2>4
<1>6. ASSUME NEW j \in Jobs, FreeArray(j) PROVE LoadInv'
  <2>1. UNCHANGED <<content, present, evPc, valid>> /\ OthersStill(j)
    BY <1>1, <1>6 DEF FreeArray, OthersStill, TypeOK, Goto, timeline, evictor
  <2>2. pc[j] = "done" /\ pc'[j] = "idle" /\ UNCHANGED <<run, todo>>
    BY <1>1, <1>6 DEF FreeArray, TypeOK, Goto
  <2>3. JobLoads(j)'
    BY <1>1, <2>2
    DEF LoadInv, JobLoads, RunShape, RowsFiled, RunLoaded, RestLoaded, WalkFinds, FetchFinds
  <2>4. QED  BY <1>2, <2>1, <2>3
<1>7. ~EvictStep
  BY <1>1 DEF LoadInv, EvictStep, EvictWake, EvictLock, EvictSnapshot, EvictUnlock, EvictKeep,
     EvictRemove
<1>8. CASE UNCHANGED vars
  <2>1. UNCHANGED <<content, present, evPc, valid>>
        /\ UNCHANGED <<pc, req, claimed, run, query, todo, result, walk, got, cancelled>>
    BY <1>8 DEF vars, timeline, evictor, jobs
  <2>2. ContentGrows  BY <2>1 DEF ContentGrows
  <2>3. \A k \in Jobs : JobLoads(k)'  BY <1>1, <2>1, <2>2, JobKept DEF LoadInv
  <2>4. \A s \in valid' : LoadedSeg(s)'  BY <1>1, <2>1 DEF LoadInv, LoadedSeg, Filed
  <2>5. QED  BY <1>1, <2>1, <2>3, <2>4 DEF LoadInv, FilledPresent
<1>9. QED  BY <1>3, <1>4, <1>5, <1>6, <1>7, <1>8 DEF Next

\* A segment marked valid holds every event of the track that starts in it, for any
\* number of jobs that claim, read, cancel and publish in any order, for any trace, any
\* length of segment and any number of slices, a timeline initialised twice included.
\* It rests on the slices covering the run without a gap (SlicesCover), and on every
\* event having a duration (EventsLast): the histogram does not count one that has none
\* (EmptyIsLoaded), and the run SegmentCache_instant shows a segment valid without it.
THEOREM ValidIsLoaded ==
    ASSUME EventsLast, ~MayFail, ~MayEvict
    PROVE  Spec => []ValidMeansLoaded
<1>1. Init => LoadingInv  BY InitLoads
<1>2. LoadingInv /\ [Next]_vars => LoadingInv'  BY NextLoads
<1>3. LoadingInv => ValidMeansLoaded
  <2> SUFFICES ASSUME LoadingInv, NEW s \in valid, NEW e \in Events,
                      e.start \div SegDur = s, OnTrack(e)
               PROVE  e \in content[s]
    BY DEF ValidMeansLoaded
  <2>1. LoadedSeg(s) /\ s \in Segs  BY DEF LoadingInv, LoadInv, ClaimsInv, TypeOK
  <2>2. e.start \in Nat /\ e.end \in Nat /\ e.start <= e.end  BY ConstantsAssumption
  <2>3. s \in Nat /\ s * SegDur <= e.start /\ e.start < (s + 1) * SegDur
    BY <2>2, Quotient, ConstantsAssumption
  <2>4. s * SegDur \in Nat  BY <2>3, ConstantsAssumption
  <2>5. s \in SlotsOf(e)
    <3>1. s <= e.end \div SegDur  BY <2>2, SegmentsInOrder
    <3>2. e.end \div SegDur \in Nat  BY <2>2, Quotient, ConstantsAssumption
    <3>3. QED  BY <2>3, <3>1, <3>2 DEF SlotsOf
  <2>6. e.end > s * SegDur
    <3>1. SUFFICES ASSUME e.end = s * SegDur PROVE FALSE  BY <2>2, <2>3, <2>4
    <3>2. e.start = e.end  BY <2>2, <2>3, <2>4, <3>1
    <3>3. QED  BY <2>2, <3>2 DEF EventsLast
  <2>7. QED  BY <2>1, <2>3, <2>5, <2>6 DEF LoadedSeg, Touches, Filed
<1>4. QED  BY <1>1, <1>2, <1>3, PTL DEF Spec

\* A fetch that was not cancelled hands over every event of the track that overlaps
\* its interval, for any number of concurrent fetches that share segments: whether it
\* loaded a segment, found it valid, or waited for another job to load it, over events
\* that all have a duration.
THEOREM FetchIsWhole ==
    ASSUME EventsLast, ~MayFail, ~MayEvict, \A r \in Requests : r.start < r.end
    PROVE  Spec => []FetchIsComplete
<1>1. Init => LoadingInv  BY InitLoads
<1>2. LoadingInv /\ [Next]_vars => LoadingInv'  BY NextLoads
<1>3. LoadingInv => FetchIsComplete
  <2> SUFFICES ASSUME LoadingInv, NEW j \in Jobs, pc[j] = "done", result[j] # "Cancelled"
               PROVE  Wanted(req[j]) \subseteq got[j]
    BY DEF FetchIsComplete, Wanted
  <2>1. JobLoads(j)  BY DEF LoadingInv, LoadInv
  <2>2. req[j] \in Requests  BY <2>1 DEF JobLoads, RunShape
  <2>3. QED  BY <2>1, <2>2 DEF JobLoads, FetchFinds
<1>4. QED  BY <1>1, <1>2, <1>3, PTL DEF Spec

=============================================================================
