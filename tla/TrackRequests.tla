--------------------------- MODULE TrackRequests ---------------------------
(***************************************************************************)
(* One track of the timeline: what the user looks at, the chunk requests   *)
(* its TrackItem has in flight, the DataProvider that polls their futures, *)
(* the events that report them, the raw data of the TimelineModel, and the *)
(* cleanup that follows the closing of the tab.                            *)
(*                                                                         *)
(* The view's thread repeats a frame: events are dispatched, futures are   *)
(* polled, items are updated, tracks are rendered.  Jobs resolve futures   *)
(* in between.  A request of another track has another id and never meets  *)
(* these.  OutOfRange is the answer of a part of the track without events: *)
(* it counts as Success, for a chunk with nothing in it.  Failed stands    *)
(* for the codes that Graph::Fetch and Timeline::AsyncFetch only assert    *)
(* against: the provider makes an empty chunk of them as well.             *)
(***************************************************************************)
EXTENDS Integers, FiniteSets

CONSTANTS
    Views,       \* intervals the user can look at
    ChunkCount,  \* the chunks RequestData cuts each of them into
    GroupIds,    \* group ids before the counter wraps: 2^8 in the code
    MaxMoves,    \* bound: what the user does
    None,
    Hole,        \* the empty chunk of a request that was cancelled
    Gap          \* and of one that failed

ChunksOf(v) == 0 .. (ChunkCount[v] - 1)
Chunks == UNION { ChunksOf(v) : v \in Views }
Groups == 0 .. (GroupIds - 1)
Ids    == Groups \X Chunks     \* MakeTrackDataRequestId

Deferrals == [view : Views, group : Groups]
RawData   == [view : Views, group : Groups,
              chunks : UNION { [D -> Views \cup {Hole, Gap}] : D \in SUBSET Chunks }]

ASSUME TrackAssumption ==
    /\ ChunkCount \in [Views -> Nat \ {0}]
    /\ GroupIds \in Nat \ {0}
    /\ MaxMoves \in Nat
    /\ None \notin Views /\ Hole \notin Views /\ Gap \notin Views /\ Hole # Gap
    /\ None \notin Deferrals /\ None \notin RawData

VARIABLES
    phase,     \* of the frame: "events", "poll", "update", "render"; "closed"
    \* --- TimelineView
    view, asked,  \* what is looked at, and at the last IsRequestDataNeeded
    settled,      \* m_loading_timer has expired
    near,         \* the track is within m_unload_track_distance
    moves,
    \* --- TrackItem
    state, queue, pending, cancelled, group,
    \* --- DataProvider, its futures and the events it adds
    future,    \* of each request: "none", "working", "Success", "Cancelled", "Failed"
    stop,      \* the futures that were cancelled
    wanted,    \* custom_params of each request: the view it is a chunk of
    events,
    raw,       \* TimelineModel: None, or its view, its group, its chunks
    cleanup,   \* of the detached requests: "none", "cancel", "wait", "done"
    \* --- history
    orphaned,  \* ReleaseData has cancelled requests that nothing replaced
    dropped    \* FreeRequests has freed requests whose item still waits

user     == <<view, asked, settled, near, moves>>
item     == <<state, queue, pending, cancelled, group>>
provider == <<future, stop, wanted, events, raw>>
history  == <<orphaned, dropped>>
vars     == <<phase, user, item, provider, cleanup, history>>

Init ==
    /\ phase = "events"
    /\ view \in Views /\ asked = view
    /\ settled = FALSE /\ near \in BOOLEAN /\ moves = 0
    /\ state = "Idle" /\ queue = None /\ pending = {} /\ cancelled = FALSE /\ group = 0
    /\ future = [r \in Ids |-> "none"]
    /\ stop = {} /\ wanted = [r \in Ids |-> None] /\ events = {} /\ raw = None
    /\ cleanup = "none" /\ orphaned = FALSE /\ dropped = FALSE

-----------------------------------------------------------------------------
(* The data of a track.                                                    *)

InFlight(r) == future[r] # "none"
Resolved(r) == future[r] \in {"Success", "Cancelled", "Failed"}

AllDataReady(d) == d # None /\ Cardinality(DOMAIN d.chunks) = ChunkCount[d.view]

\* RawTrackData of a request that finds none of its group.
Empty(r) == [view |-> wanted[r], group |-> r[1], chunks |-> [c \in {} |-> Hole]]

\* If the group id matches, the existing data is reused.
SameGroup(r) == raw # None /\ raw.group = r[1]

\* AddChunk refuses a chunk it has.
AddChunk(d, c, data) ==
    IF c \in DOMAIN d.chunks THEN d
    ELSE [view |-> d.view, group |-> d.group,
          chunks |-> [i \in DOMAIN d.chunks \cup {c} |->
                         IF i = c THEN data ELSE d.chunks[i]]]

\* What a response has for its chunk: what was wanted, or nothing.
Answer(r) == CASE future[r] = "Success"   -> wanted[r]
               [] future[r] = "Cancelled" -> Hole
               [] OTHER                   -> Gap

\* CreateRawEventData and CreateRawSampleData: data of another group is replaced,
\* whatever its age (nothing sets its request time); a cancelled request that finds
\* no data of its group leaves none, one that does adds an empty chunk.
Stored(r) ==
    IF ~SameGroup(r) /\ future[r] = "Cancelled" THEN None
    ELSE AddChunk(IF SameGroup(r) THEN raw ELSE Empty(r), r[2], Answer(r))

-----------------------------------------------------------------------------
(* TrackItem.                                                              *)

\* CancelPendingRequests: once, until the pending requests have drained.
CancelPending ==
    /\ stop' = IF cancelled THEN stop ELSE stop \cup { r \in pending : InFlight(r) }
    /\ cancelled' = (cancelled \/ pending # {})

\* FetchHelper, with the queue of one RequestData.  FetchTrack refuses the id of a
\* request that is in flight.
Fetch(v, g) ==
    LET issued == { r \in { <<g, c>> : c \in ChunksOf(v) } : ~InFlight(r) } IN
    /\ future' = [r \in Ids |-> IF r \in issued THEN "working" ELSE future[r]]
    /\ wanted' = [r \in Ids |-> IF r \in issued THEN v ELSE wanted[r]]
    /\ stop' = stop \ issued
    /\ pending' = pending \cup issued
    /\ state' = IF issued # {} THEN "Requesting" ELSE state
    /\ queue' = None

\* Mutant: the counter is not incremented.
NextGroupMutant == group

\* The number of a RequestData is a uint8.
NextGroup == (group + 1) % GroupIds

\* Mutant: the flag survives the requests it is about.
StillCancelledMutant(drained) == cancelled

\* The last response of a group makes the next one cancellable.
StillCancelled(drained) == cancelled /\ ~drained

-----------------------------------------------------------------------------
(* The user.                                                               *)

\* Zooming, panning and most ways of scrolling restart m_loading_timer.
MoveView(v) ==
    /\ phase = "render" /\ moves < MaxMoves /\ v # view
    /\ view' = v /\ settled' \in {settled, FALSE} /\ moves' = moves + 1
    /\ UNCHANGED <<phase, asked, near, item, provider, cleanup, history>>

\* The track scrolls away from the view, or back.
Scroll ==
    /\ phase = "render" /\ moves < MaxMoves
    /\ near' = ~near /\ settled' \in {settled, FALSE} /\ moves' = moves + 1
    /\ UNCHANGED <<phase, view, asked, item, provider, cleanup, history>>

TimerExpires ==
    /\ ~settled /\ settled' = TRUE
    /\ UNCHANGED <<phase, view, asked, near, moves, item, provider, cleanup, history>>

-----------------------------------------------------------------------------
(* A frame of the view's thread.                                           *)

\* HandleTrackDataChanged for every event: the last one makes the item idle.
Dispatch ==
    LET drained == events # {} /\ pending \ events = {} IN
    /\ phase = "events" /\ phase' = "poll"
    /\ pending' = pending \ events /\ events' = {}
    /\ state' = IF drained THEN "Idle" ELSE state
    /\ cancelled' = StillCancelled(drained)
    /\ UNCHANGED <<user, queue, group, future, stop, wanted, raw, cleanup, history>>

\* Mutant: a response that leaves no data is not reported.
ReportedMutant(r) == IF Stored(r) = None THEN {} ELSE {r}

\* m_track_data_ready_callback is called whatever became of the request.
Reported(r) == {r}

\* HandleRequests and ProcessGraphRequest.
Process(r) ==
    /\ phase = "poll" /\ Resolved(r)
    /\ future' = [future EXCEPT ![r] = "none"] /\ stop' = stop \ {r}
    /\ raw' = Stored(r)
    /\ events' = events \cup Reported(r)
    /\ UNCHANGED <<phase, user, item, wanted, cleanup, history>>

Polled ==
    /\ phase = "poll" /\ phase' = "update" /\ \A r \in Ids : ~Resolved(r)
    /\ UNCHANGED <<user, item, provider, cleanup, history>>

\* TrackItem::Update issues what was deferred.
Update ==
    /\ phase = "update" /\ phase' = "render"
    /\ IF state = "Idle" /\ queue # None
       THEN Fetch(queue.view, queue.group)
       ELSE UNCHANGED <<future, wanted, stop, pending, state, queue>>
    /\ UNCHANGED <<user, cancelled, group, events, raw, cleanup, history>>

\* IsRequestDataNeeded remembers what it was asked for.
Rendered ==
    /\ phase = "render" /\ phase' = "events"
    /\ asked' = IF settled THEN view ELSE asked
    /\ UNCHANGED <<view, settled, near, moves, events, cleanup, dropped>>

\* Mutant: a track with some of its chunks counts as loaded.
MissesDataMutant == state = "Idle" /\ raw = None

\* RequestDataIfEmpty.
MissesData == state = "Idle" /\ ~AllDataReady(raw)
IsRequestDataNeeded == settled /\ near /\ (view # asked \/ MissesData)

\* RequestData of an idle item; what it holds in part is released first.
Request ==
    /\ Rendered /\ IsRequestDataNeeded /\ state = "Idle"
    /\ Fetch(view, NextGroup) /\ group' = NextGroup
    /\ raw' = IF MissesData THEN None ELSE raw
    /\ orphaned' = FALSE
    /\ UNCHANGED cancelled

\* Mutant: the request that has to wait is not kept.
DeferredMutant == None

\* What m_request_queue is overwritten with.
Deferred == [view |-> view, group |-> NextGroup]

\* RequestData of an item that waits: the chunks in flight are cancelled, the new
\* ones are issued when the old ones have drained.
Defer ==
    /\ Rendered /\ IsRequestDataNeeded /\ state = "Requesting"
    /\ queue' = Deferred /\ group' = NextGroup
    /\ CancelPending
    /\ orphaned' = FALSE
    /\ UNCHANGED <<state, pending, future, wanted, raw>>

\* RenderEmptyTrack and ReleaseData.
Release ==
    /\ Rendered /\ ~near /\ (raw # None \/ pending # {})
    /\ raw' = None /\ queue' = None
    /\ CancelPending
    /\ orphaned' = (orphaned \/ pending # {})
    /\ UNCHANGED <<state, pending, group, future, wanted>>

\* A track that needs nothing.
Draw ==
    /\ Rendered /\ ~IsRequestDataNeeded
    /\ near \/ (raw = None /\ pending = {})
    /\ UNCHANGED <<item, future, stop, wanted, raw, orphaned>>

\* TraceView::CleanupDatabase: FreeRequests cancels, waits and frees on the view's
\* thread, and no event tells the items.  Its own request is left out.
FreeRequests ==
    /\ phase = "render" /\ ~dropped
    /\ future' = [r \in Ids |-> "none"] /\ stop' = {}
    /\ dropped' = TRUE
    /\ UNCHANGED <<phase, user, item, wanted, events, raw, cleanup, orphaned>>

\* HandleTabClosed: the items are destroyed, the requests go to a thread of their own.
Close ==
    /\ phase = "events" /\ phase' = "closed" /\ cleanup' = "cancel"
    /\ queue' = None /\ pending' = {} /\ events' = {} /\ raw' = None
    /\ UNCHANGED <<user, state, cancelled, group, future, stop, wanted, history>>

-----------------------------------------------------------------------------
(* The job of a request, and CleanupDetachedResources.                     *)

\* A job that is cancelled may still have its result, and any job may fail.
Finish(r) ==
    /\ future[r] = "working"
    /\ \E res \in {"Success", "Failed"} \cup (IF r \in stop THEN {"Cancelled"} ELSE {}) :
           future' = [future EXCEPT ![r] = res]
    /\ UNCHANGED <<phase, user, item, stop, wanted, events, raw, cleanup, history>>

CancelDetached ==
    /\ cleanup = "cancel" /\ cleanup' = "wait"
    /\ stop' = { r \in Ids : InFlight(r) }
    /\ UNCHANGED <<phase, user, item, future, wanted, events, raw, history>>

\* Mutant: only what ended well is waited for and freed.
WaitEndsMutant(r) == future[r] = "Success"

\* future_wait without a timeout.
WaitEnds(r) == Resolved(r)

FreeDetached(r) ==
    /\ cleanup = "wait" /\ WaitEnds(r)
    /\ future' = [future EXCEPT ![r] = "none"] /\ stop' = stop \ {r}
    /\ UNCHANGED <<phase, user, item, wanted, events, raw, cleanup, history>>

FreeController ==
    /\ cleanup = "wait" /\ cleanup' = "done" /\ \A r \in Ids : ~InFlight(r)
    /\ UNCHANGED <<phase, user, item, provider, history>>

Frame == Dispatch \/ (\E r \in Ids : Process(r)) \/ Polled \/ Update
         \/ Request \/ Defer \/ Release \/ Draw
Cleanup == CancelDetached \/ (\E r \in Ids : FreeDetached(r)) \/ FreeController

Next ==
    \/ \E v \in Views : MoveView(v)
    \/ Scroll \/ TimerExpires \/ FreeRequests \/ Close
    \/ Frame \/ Cleanup
    \/ \E r \in Ids : Finish(r)

Spec == Init /\ [][Next]_vars

\* Frames follow each other, the jobs of the pool end, the cleanup thread runs.
FairSpec ==
    /\ Spec /\ WF_vars(Frame) /\ WF_vars(Cleanup) /\ WF_vars(TimerExpires)
    /\ \A r \in Ids : WF_vars(Finish(r))

-----------------------------------------------------------------------------

TypeOK ==
    /\ phase \in {"events", "poll", "update", "render", "closed"}
    /\ view \in Views /\ asked \in Views /\ settled \in BOOLEAN /\ near \in BOOLEAN
    /\ moves \in 0 .. MaxMoves
    /\ state \in {"Idle", "Requesting"}
    /\ queue \in Deferrals \cup {None}
    /\ pending \subseteq Ids /\ cancelled \in BOOLEAN /\ group \in Groups
    /\ future \in [Ids -> {"none", "working", "Success", "Cancelled", "Failed"}]
    /\ stop \subseteq Ids /\ wanted \in [Ids -> Views \cup {None}] /\ events \subseteq Ids
    /\ raw \in RawData \cup {None}
    /\ cleanup \in {"none", "cancel", "wait", "done"}
    /\ orphaned \in BOOLEAN /\ dropped \in BOOLEAN

Open == phase # "closed"

\* A request is known to its track until its event was handled, and to nobody else:
\* the item waits for exactly the requests that are in flight or have been reported
\* (DataProvider::HandleRequests, TrackItem::HandleTrackDataChanged).  FreeRequests
\* is the exception, after which it waits for requests that are gone.
ItemAwaitsItsRequests ==
    Open =>
        /\ { r \in Ids : InFlight(r) } \cap events = {}
        /\ { r \in Ids : InFlight(r) } \cup events \subseteq pending
        /\ ~dropped => pending \subseteq { r \in Ids : InFlight(r) } \cup events
        /\ state = "Idle" <=> pending = {}

\* Only the chunks of the last RequestData run on: every other request in flight has
\* been cancelled (TrackItem::RequestData and CancelPendingRequests, which asks once).
SupersededAreCancelled ==
    Open => \A r \in Ids : InFlight(r) /\ r \notin stop => r[1] = group /\ queue = None

\* The chunks of two requests never end up in one RawTrackData: what is drawn is one
\* interval, at one level of detail (CreateRawEventData, the group id).
GroupsDoNotMix ==
    raw # None =>
        /\ DOMAIN raw.chunks \subseteq ChunksOf(raw.view)
        /\ \A c \in DOMAIN raw.chunks : raw.chunks[c] \in {raw.view, Hole, Gap}

\* All of an interval, but for the chunks whose job has failed, which nobody asks for
\* again.
IsWhole(v) ==
    /\ AllDataReady(raw) /\ raw.view = v
    /\ \A c \in DOMAIN raw.chunks : raw.chunks[c] \in {v, Gap}

\* When the user rests, a near track ends up with the whole data of what is looked
\* at, and a far one with none, unless the requests it was left with when it scrolled
\* away were never replaced (`orphaned'), or a database cleanup freed them.
ViewIsShown ==
    <>[](Open /\ ~dropped => IF near THEN AllDataReady(raw) /\ (orphaned \/ IsWhole(view))
                              ELSE raw = None)

\* The cleanup of a closed tab ends: no request is left that nobody waits for.
CloseEnds == phase = "closed" ~> cleanup = "done" /\ \A r \in Ids : ~InFlight(r)

\* A track that RequestDataIfEmpty leaves alone holds the whole data of the view, but for
\* the chunks whose job has failed, and not holes where a cancelled request found data of
\* its group and added a chunk to it (CreateRawEventData).  ReleaseData breaks this: with
\* `orphaned' requests the holes stay.
ReadyIsWhole ==
    Open /\ near /\ settled /\ view = asked /\ state = "Idle" /\ queue = None
         /\ AllDataReady(raw) /\ ~orphaned
        => IsWhole(view)

=============================================================================
