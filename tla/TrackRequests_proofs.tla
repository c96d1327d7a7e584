----------------------- MODULE TrackRequests_proofs -----------------------
(***************************************************************************)
(* Proofs about TrackRequests: its type invariant, that an item waits for  *)
(* exactly its requests and lets only the last of them run on, and that    *)
(* the data it ends up with is whole and of one group.                     *)
(***************************************************************************)
EXTENDS TrackRequests, TLAPS

-----------------------------------------------------------------------------
(* Types.                                                                  *)

\* A request in flight has the view it was issued for.
WantedIsView == \A r \in Ids : InFlight(r) => wanted[r] \in Views

TypeInv == TypeOK /\ WantedIsView

\* The counter of the groups stays in its range when it wraps.
LEMMA GroupWraps ==
    ASSUME group \in Groups
    PROVE  NextGroup \in Groups
<1>1. GroupIds \in Nat /\ GroupIds > 0 /\ group \in Nat  BY TrackAssumption DEF Groups
<1>2. (group + 1) % GroupIds \in 0 .. (GroupIds - 1)  BY <1>1
<1>3. QED  BY <1>2 DEF NextGroup, Groups

\* The requests of a RequestData are requests.
LEMMA ChunkIds ==
    ASSUME NEW v \in Views, NEW g \in Groups, NEW c \in ChunksOf(v)
    PROVE  <<g, c>> \in Ids
<1>1. c \in Chunks  BY DEF Chunks
<1>2. QED  BY <1>1 DEF Ids

LEMMA InitType == Init => TypeInv
<1> SUFFICES ASSUME Init PROVE TypeInv  OBVIOUS
<1>1. 0 \in Groups /\ 0 \in 0 .. MaxMoves  BY TrackAssumption DEF Groups
<1>2. QED  BY <1>1 DEF Init, TypeInv, TypeOK, WantedIsView, InFlight

\* What a fetch changes keeps its type, whoever asks for it.
LEMMA FetchType ==
    ASSUME TypeInv, NEW v \in Views, NEW g \in Groups, Fetch(v, g)
    PROVE  /\ future' \in [Ids -> {"none", "working", "Success", "Cancelled", "Failed"}]
           /\ wanted' \in [Ids -> Views \cup {None}]
           /\ stop' \subseteq Ids /\ pending' \subseteq Ids
           /\ state' \in {"Idle", "Requesting"} /\ queue' = None
           /\ WantedIsView'
<1> DEFINE asked_ == { <<g, c>> : c \in ChunksOf(v) }
           issued == { r \in asked_ : ~InFlight(r) }
<1>1. issued \subseteq Ids  BY ChunkIds
<1>2. /\ future' = [r \in Ids |-> IF r \in issued THEN "working" ELSE future[r]]
      /\ wanted' = [r \in Ids |-> IF r \in issued THEN v ELSE wanted[r]]
      /\ stop' = stop \ issued
      /\ pending' = pending \cup issued
      /\ state' = IF issued # {} THEN "Requesting" ELSE state
      /\ queue' = None
  BY DEF Fetch
<1> HIDE DEF issued
<1>3. WantedIsView'
  <2>1. SUFFICES ASSUME NEW r \in Ids, future'[r] # "none" PROVE wanted'[r] \in Views
    BY DEF WantedIsView, InFlight
  <2>2. CASE r \in issued  BY <1>2, <2>2
  <2>3. CASE r \notin issued
    BY <1>2, <2>1, <2>3 DEF TypeInv, WantedIsView, InFlight
  <2>4. QED  BY <2>2, <2>3
<1>4. QED  BY <1>1, <1>2, <1>3 DEF TypeInv, TypeOK

\* The data of a request that finds none of its group, and a chunk more of it.
LEMMA EmptyType ==
    ASSUME NEW r \in Ids, wanted[r] \in Views
    PROVE  Empty(r) \in RawData
<1>1. r[1] \in Groups  BY DEF Ids
<1>2. [c \in {} |-> Hole] \in [{} -> Views \cup {Hole, Gap}]  OBVIOUS
<1>3. [c \in {} |-> Hole] \in UNION { [D -> Views \cup {Hole, Gap}] : D \in SUBSET Chunks }
  BY <1>2
<1>4. QED  BY <1>1, <1>3 DEF Empty, RawData

LEMMA AddsType ==
    ASSUME NEW d \in RawData, NEW c \in Chunks, NEW x \in Views \cup {Hole, Gap}
    PROVE  AddChunk(d, c, x) \in RawData
<1>1. PICK D \in SUBSET Chunks : d.chunks \in [D -> Views \cup {Hole, Gap}]  BY DEF RawData
<1> DEFINE E == D \cup {c}
           f == [i \in E |-> IF i = c THEN x ELSE d.chunks[i]]
<1>2. DOMAIN d.chunks = D  BY <1>1
<1>3. f \in [E -> Views \cup {Hole, Gap}]  BY <1>1
<1>4. E \in SUBSET Chunks  OBVIOUS
<1>5. f \in UNION { [X -> Views \cup {Hole, Gap}] : X \in SUBSET Chunks }  BY <1>3, <1>4
<1> HIDE DEF f
<1>6. [view |-> d.view, group |-> d.group, chunks |-> f] \in RawData  BY <1>5 DEF RawData
<1>7. AddChunk(d, c, x) =
        IF c \in D THEN d ELSE [view |-> d.view, group |-> d.group, chunks |-> f]
  BY <1>2 DEF AddChunk, f
<1>8. QED  BY <1>6, <1>7

\* Storing a response leaves well-formed data, or none.
LEMMA StoredType ==
    ASSUME TypeInv, NEW r \in Ids, Resolved(r)
    PROVE  Stored(r) \in RawData \cup {None}
<1>1. wanted[r] \in Views
  BY DEF Resolved, InFlight, TypeInv, WantedIsView
<1>2. r[2] \in Chunks  BY DEF Ids
<1> DEFINE d == IF SameGroup(r) THEN raw ELSE Empty(r)
           data == Answer(r)
<1>3. d \in RawData  BY <1>1, EmptyType DEF SameGroup, TypeInv, TypeOK
<1>4. data \in Views \cup {Hole, Gap}  BY <1>1 DEF Answer
<1> HIDE DEF d, data
<1>5. AddChunk(d, r[2], data) \in RawData  BY <1>2, <1>3, <1>4, AddsType
<1>6. QED  BY <1>5 DEF Stored, d, data

\* Cancelling the pending requests keeps the types.
LEMMA CancelType ==
    ASSUME TypeOK, CancelPending
    PROVE  stop' \subseteq Ids /\ cancelled' \in BOOLEAN
<1>1. stop' \subseteq Ids  BY DEF TypeOK, CancelPending
<1>2. cancelled' \in BOOLEAN  BY DEF TypeOK, CancelPending
<1>3. QED  BY <1>1, <1>2

-----------------------------------------------------------------------------
LEMMA UserType ==
    ASSUME TypeInv, (\E v \in Views : MoveView(v)) \/ Scroll \/ TimerExpires
                    \/ FreeRequests \/ Close
    PROVE  TypeInv'
<1> USE TrackAssumption DEF TypeInv, TypeOK, item, provider, history, user
<1>1. ASSUME NEW v \in Views, MoveView(v) PROVE TypeInv'
  <2>1. settled' \in BOOLEAN  BY <1>1, Zenon DEF MoveView
  <2>2. moves' \in 0 .. MaxMoves  BY <1>1 DEF MoveView
  <2>3. QED  BY <1>1, <2>1, <2>2 DEF MoveView, WantedIsView, InFlight
<1>2. CASE Scroll
  <2>1. settled' \in BOOLEAN  BY <1>2, Zenon DEF Scroll
  <2>2. moves' \in 0 .. MaxMoves  BY <1>2 DEF Scroll
  <2>3. near' \in BOOLEAN  BY <1>2, Zenon DEF Scroll
  <2>4. QED  BY <1>2, <2>1, <2>2, <2>3 DEF Scroll, WantedIsView, InFlight
<1>3. CASE TimerExpires  BY <1>3 DEF TimerExpires, WantedIsView, InFlight
<1>4. CASE FreeRequests  BY <1>4 DEF FreeRequests, WantedIsView, InFlight
<1>5. CASE Close  BY <1>5 DEF Close, WantedIsView, InFlight
<1>6. QED  BY <1>1, <1>2, <1>3, <1>4, <1>5

LEMMA FrameType ==
    ASSUME TypeInv, Frame
    PROVE  TypeInv'
<1> USE DEF TypeInv, TypeOK, item, provider, history, user
<1>1. CASE Dispatch
  <2>1. cancelled' \in BOOLEAN  BY <1>1 DEF Dispatch, StillCancelled
  <2>2. QED  BY <1>1, <2>1 DEF Dispatch, WantedIsView, InFlight
<1>2. ASSUME NEW r \in Ids, Process(r) PROVE TypeInv'
  <2>1. raw' \in RawData \cup {None}  BY <1>2, StoredType DEF Process
  <2>2. WantedIsView'  BY <1>2 DEF Process, WantedIsView, InFlight
  <2>3. QED  BY <1>2, <2>1, <2>2 DEF Process, Reported
<1>3. CASE Polled  BY <1>3 DEF Polled, WantedIsView, InFlight
<1>4. CASE Update
  <2>1. CASE state = "Idle" /\ queue # None
    <3>1. queue.view \in Views /\ queue.group \in Groups  BY <2>1 DEF Deferrals
    <3>2. Fetch(queue.view, queue.group)  BY <1>4, <2>1 DEF Update
    <3>3. QED  BY <1>4, <3>1, <3>2, FetchType DEF Update
  <2>2. CASE ~(state = "Idle" /\ queue # None)
    BY <1>4, <2>2 DEF Update, WantedIsView, InFlight
  <2>3. QED  BY <2>1, <2>2
<1>5. CASE Request
  <2>1. NextGroup \in Groups  BY GroupWraps
  <2>2. Fetch(view, NextGroup)  BY <1>5 DEF Request
  <2>3. raw' \in RawData \cup {None}  BY <1>5 DEF Request
  <2>4. QED  BY <1>5, <2>1, <2>2, <2>3, FetchType DEF Request, Rendered
<1>6. CASE Defer
  <2>1. NextGroup \in Groups  BY GroupWraps
  <2>2. stop' \subseteq Ids /\ cancelled' \in BOOLEAN  BY <1>6, CancelType DEF Defer
  <2>3. Deferred \in Deferrals  BY <2>1 DEF Deferred, Deferrals
  <2>4. QED
    BY <1>6, <2>1, <2>2, <2>3 DEF Defer, Rendered, WantedIsView, InFlight
<1>7. CASE Release
  <2>1. stop' \subseteq Ids /\ cancelled' \in BOOLEAN  BY <1>7, CancelType DEF Release
  <2>2. orphaned' \in BOOLEAN  BY <1>7 DEF Release
  <2>3. QED  BY <1>7, <2>1, <2>2 DEF Release, Rendered, WantedIsView, InFlight
<1>8. CASE Draw  BY <1>8 DEF Draw, Rendered, WantedIsView, InFlight
<1>9. QED  BY <1>1, <1>2, <1>3, <1>4, <1>5, <1>6, <1>7, <1>8 DEF Frame

LEMMA CleanupType ==
    ASSUME TypeInv, Cleanup \/ \E r \in Ids : Finish(r)
    PROVE  TypeInv'
<1> USE DEF TypeInv, TypeOK, item, provider, history, user
<1>1. CASE CancelDetached  BY <1>1 DEF CancelDetached, WantedIsView, InFlight
<1>2. ASSUME NEW r \in Ids, FreeDetached(r) PROVE TypeInv'
  BY <1>2 DEF FreeDetached, WantedIsView, InFlight
<1>3. CASE FreeController  BY <1>3 DEF FreeController, WantedIsView, InFlight
<1>4. ASSUME NEW r \in Ids, Finish(r) PROVE TypeInv'
  <2>1. PICK res \in {"Success", "Failed", "Cancelled"} : future' = [future EXCEPT ![r] = res]
    BY <1>4 DEF Finish
  <2>2. WantedIsView'  BY <1>4, <2>1 DEF Finish, WantedIsView, InFlight
  <2>3. QED  BY <1>4, <2>1, <2>2 DEF Finish
<1>5. QED  BY <1>1, <1>2, <1>3, <1>4 DEF Cleanup

\* Every reachable state is well typed, and a request in flight knows its view: what is
\* stored for it has one (DataProvider::ProcessGraphRequest, custom_params).
THEOREM TypeCorrect == Spec => []TypeInv
<1>1. Init => TypeInv  BY InitType
<1>2. TypeInv /\ [Next]_vars => TypeInv'
  <2> SUFFICES ASSUME TypeInv, [Next]_vars PROVE TypeInv'  OBVIOUS
  <2>1. CASE Next  BY <2>1, UserType, FrameType, CleanupType DEF Next
  <2>2. CASE UNCHANGED vars
    BY <2>2 DEF vars, user, item, provider, history, TypeInv, TypeOK, WantedIsView, InFlight
  <2>3. QED  BY <2>1, <2>2
<1>3. QED  BY <1>1, <1>2, PTL DEF Spec

-----------------------------------------------------------------------------
(* The item and its requests.                                              *)

\* The cleanup of detached requests starts with the closing of the tab.
CleanupAfterClose == cleanup # "none" => phase = "closed"

\* CancelPendingRequests may be skipped while the flag is set: what it would cancel is
\* cancelled, and a flag that outlived its requests would spare the next ones.
CancelledAreStopped ==
    /\ cancelled => \A r \in Ids : InFlight(r) => r \in stop
    /\ pending = {} => ~cancelled

\* What waits in the queue is the last RequestData.
QueueIsLatest == queue # None => queue.group = group

RequestInv ==
    /\ CleanupAfterClose
    /\ ItemAwaitsItsRequests
    /\ SupersededAreCancelled
    /\ Open => CancelledAreStopped /\ QueueIsLatest

LEMMA InitRequest == Init => RequestInv
BY DEF Init, RequestInv, CleanupAfterClose, ItemAwaitsItsRequests, SupersededAreCancelled,
       CancelledAreStopped, QueueIsLatest, InFlight

\* The invariants are about these variables only.
LEMMA SameRequests ==
    ASSUME RequestInv,
           UNCHANGED <<state, queue, pending, cancelled, group, stop, events, dropped>>,
           Open' => Open, CleanupAfterClose',
           \A r \in Ids : InFlight(r)' <=> InFlight(r)
    PROVE  RequestInv'
<1>1. ItemAwaitsItsRequests'  BY DEF RequestInv, ItemAwaitsItsRequests
<1>2. SupersededAreCancelled'  BY DEF RequestInv, SupersededAreCancelled
<1>3. Open' => CancelledAreStopped'  BY DEF RequestInv, CancelledAreStopped
<1>4. Open' => QueueIsLatest'  BY DEF RequestInv, QueueIsLatest
<1>5. QED  BY <1>1, <1>2, <1>3, <1>4 DEF RequestInv

\* An idle item has nothing in flight, no event on its way, and was not cancelled.
LEMMA IdleHasNone ==
    ASSUME RequestInv, Open, state = "Idle"
    PROVE  /\ pending = {} /\ events = {} /\ ~cancelled
           /\ \A r \in Ids : ~InFlight(r)
<1>1. pending = {}  BY DEF RequestInv, ItemAwaitsItsRequests
<1>2. \A r \in Ids : ~InFlight(r)  BY <1>1 DEF RequestInv, ItemAwaitsItsRequests
<1>3. events = {}  BY <1>1 DEF RequestInv, ItemAwaitsItsRequests
<1>4. ~cancelled  BY <1>1 DEF RequestInv, CancelledAreStopped
<1>5. QED  BY <1>1, <1>2, <1>3, <1>4

\* A fetch of an idle item starts over with the requests of one group.
LEMMA FetchStartsOver ==
    ASSUME TypeInv, RequestInv, Open, state = "Idle",
           NEW v \in Views, NEW g \in Groups, Fetch(v, g),
           group' = g, UNCHANGED <<cancelled, events, dropped>>, CleanupAfterClose'
    PROVE  RequestInv'
<1> DEFINE asked_ == { <<g, c>> : c \in ChunksOf(v) }
           issued == { r \in asked_ : ~InFlight(r) }
<1>1. /\ pending = {} /\ events = {} /\ ~cancelled
      /\ \A r \in Ids : ~InFlight(r)
  BY IdleHasNone
<1>2. /\ future' = [r \in Ids |-> IF r \in issued THEN "working" ELSE future[r]]
      /\ stop' = stop \ issued
      /\ pending' = pending \cup issued
      /\ state' = IF issued # {} THEN "Requesting" ELSE state
      /\ queue' = None
  BY DEF Fetch
<1>3. issued \subseteq Ids /\ \A r \in issued : r[1] = g  BY ChunkIds
<1> HIDE DEF issued
<1>4. \A r \in Ids : InFlight(r)' <=> r \in issued
  BY <1>1, <1>2 DEF InFlight
<1>5. pending' = issued /\ events' = {}  BY <1>1, <1>2
<1>6. state' = "Idle" <=> pending' = {}  BY <1>2, <1>5
<1>7. ItemAwaitsItsRequests'  BY <1>3, <1>4, <1>5, <1>6 DEF ItemAwaitsItsRequests
<1>8. SupersededAreCancelled'  BY <1>2, <1>3, <1>4 DEF SupersededAreCancelled
<1>9. CancelledAreStopped' /\ QueueIsLatest'
  BY <1>1, <1>2 DEF CancelledAreStopped, QueueIsLatest
<1>10. QED  BY <1>7, <1>8, <1>9 DEF RequestInv

\* After CancelPendingRequests nothing in flight runs on.
LEMMA CancelStopsAll ==
    ASSUME TypeOK, RequestInv, Open, CancelPending, UNCHANGED <<future, pending>>
    PROVE  /\ \A r \in Ids : InFlight(r)' => r \in stop'
           /\ pending' = {} => ~cancelled'
<1>1. ASSUME NEW r \in Ids, InFlight(r) PROVE r \in stop'
  <2>1. r \in pending  BY <1>1 DEF RequestInv, ItemAwaitsItsRequests
  <2>2. CASE cancelled
    BY <1>1, <2>2 DEF CancelPending, RequestInv, CancelledAreStopped
  <2>3. CASE ~cancelled  BY <1>1, <2>1, <2>3 DEF CancelPending
  <2>4. QED  BY <2>2, <2>3
<1>2. ASSUME pending = {} PROVE ~cancelled'
  <2>1. ~cancelled  BY <1>2 DEF RequestInv, CancelledAreStopped
  <2>2. QED  BY <1>2, <2>1, Zenon DEF CancelPending
<1>3. QED  BY <1>1, <1>2 DEF InFlight

-----------------------------------------------------------------------------
\* The events of the last requests make the item idle and clear the flag.
LEMMA DispatchRequest ==
    ASSUME TypeInv, RequestInv, Dispatch
    PROVE  RequestInv'
<1> USE DEF user
<1> DEFINE drained == events # {} /\ pending \ events = {}
<1>1. /\ phase = "events" /\ phase' = "poll"
      /\ pending' = pending \ events /\ events' = {}
      /\ state' = IF drained THEN "Idle" ELSE state
      /\ UNCHANGED <<queue, group, future, stop, cleanup, dropped>>
  BY DEF Dispatch, history
<1>2. Open /\ CleanupAfterClose'  BY <1>1 DEF Open, RequestInv, CleanupAfterClose
<1>3. cancelled' => cancelled /\ ~drained
  BY Zenon DEF Dispatch, StillCancelled
<1>4. \A r \in Ids : InFlight(r)' <=> InFlight(r)  BY <1>1 DEF InFlight
<1>5. ItemAwaitsItsRequests'
  <2>1. state' = "Idle" <=> pending' = {}
    BY <1>1, <1>2 DEF RequestInv, ItemAwaitsItsRequests
  <2>2. \A r \in Ids : InFlight(r) => r \in pending \ events
    BY <1>2 DEF RequestInv, ItemAwaitsItsRequests
  <2>3. ~dropped => pending \ events \subseteq { r \in Ids : InFlight(r) }
    BY <1>2 DEF RequestInv, ItemAwaitsItsRequests
  <2>4. QED  BY <1>1, <1>4, <2>1, <2>2, <2>3 DEF ItemAwaitsItsRequests
<1>6. SupersededAreCancelled'
  BY <1>1, <1>2, <1>4 DEF RequestInv, SupersededAreCancelled
<1>7. CancelledAreStopped'
  <2>1. cancelled' => \A r \in Ids : InFlight(r)' => r \in stop'
    BY <1>1, <1>2, <1>3, <1>4 DEF RequestInv, CancelledAreStopped
  <2>2. ASSUME pending' = {}, cancelled' PROVE FALSE
    <3>1. events = {}  BY <1>1, <1>3, <2>2
    <3>2. pending = {}  BY <1>1, <2>2, <3>1
    <3>3. QED  BY <1>2, <1>3, <2>2, <3>2 DEF RequestInv, CancelledAreStopped
  <2>3. QED  BY <2>1, <2>2 DEF CancelledAreStopped
<1>8. QueueIsLatest'  BY <1>1, <1>2 DEF RequestInv, QueueIsLatest
<1>9. QED  BY <1>2, <1>5, <1>6, <1>7, <1>8 DEF RequestInv

\* A response that was processed is an event before it is forgotten.
LEMMA ProcessRequest ==
    ASSUME TypeInv, RequestInv, NEW r \in Ids, Process(r)
    PROVE  RequestInv'
<1>1. /\ phase = "poll" /\ Resolved(r)
      /\ future' = [future EXCEPT ![r] = "none"] /\ stop' = stop \ {r}
      /\ events' = events \cup {r}
      /\ UNCHANGED <<phase, state, queue, pending, cancelled, group, cleanup, dropped>>
  BY DEF Process, Reported, item, history
<1>2. Open /\ CleanupAfterClose'  BY <1>1 DEF Open, RequestInv, CleanupAfterClose
<1>3. InFlight(r)  BY <1>1 DEF Resolved, InFlight
<1>4. \A s \in Ids : InFlight(s)' <=> InFlight(s) /\ s # r
  BY <1>1 DEF InFlight, TypeInv, TypeOK
<1>5. ItemAwaitsItsRequests'
  BY <1>1, <1>2, <1>3, <1>4 DEF RequestInv, ItemAwaitsItsRequests
<1>6. SupersededAreCancelled'
  BY <1>1, <1>2, <1>4 DEF RequestInv, SupersededAreCancelled
<1>7. CancelledAreStopped'
  BY <1>1, <1>2, <1>4 DEF RequestInv, CancelledAreStopped
<1>8. QueueIsLatest'  BY <1>1, <1>2 DEF RequestInv, QueueIsLatest
<1>9. QED  BY <1>2, <1>5, <1>6, <1>7, <1>8 DEF RequestInv

\* What is rendered asks for data, defers the question, or gives the data up.
LEMMA RenderRequest ==
    ASSUME TypeInv, RequestInv, Request \/ Defer \/ Release \/ Draw
    PROVE  RequestInv'
<1>1. /\ phase = "render" /\ phase' = "events"
      /\ UNCHANGED <<events, cleanup, dropped>>
  BY DEF Request, Defer, Release, Draw, Rendered
<1>2. Open /\ CleanupAfterClose'  BY <1>1 DEF Open, RequestInv, CleanupAfterClose
<1>3. CASE Request
  <2>1. NextGroup \in Groups /\ view \in Views  BY GroupWraps DEF TypeInv, TypeOK
  <2>2. state = "Idle" /\ Fetch(view, NextGroup) /\ group' = NextGroup /\ UNCHANGED cancelled
    BY <1>3 DEF Request
  <2>3. QED  BY <1>1, <1>2, <2>1, <2>2, FetchStartsOver
<1>4. CASE Defer
  <2>1. /\ CancelPending /\ UNCHANGED <<state, pending, future>>
        /\ queue' = Deferred /\ group' = NextGroup
    BY <1>4 DEF Defer
  <2>2. /\ \A r \in Ids : InFlight(r)' => r \in stop'
        /\ pending' = {} => ~cancelled'
    BY <1>2, <2>1, CancelStopsAll DEF TypeInv
  <2>3. ItemAwaitsItsRequests'
    BY <1>1, <1>2, <2>1 DEF RequestInv, ItemAwaitsItsRequests, InFlight
  <2>4. SupersededAreCancelled'  BY <2>2 DEF SupersededAreCancelled
  <2>5. CancelledAreStopped'  BY <2>2 DEF CancelledAreStopped
  <2>6. QueueIsLatest'  BY <2>1 DEF QueueIsLatest, Deferred
  <2>7. QED  BY <1>2, <2>3, <2>4, <2>5, <2>6 DEF RequestInv
<1>5. CASE Release
  <2>1. CancelPending /\ UNCHANGED <<state, pending, group, future>> /\ queue' = None
    BY <1>5 DEF Release
  <2>2. /\ \A r \in Ids : InFlight(r)' => r \in stop'
        /\ pending' = {} => ~cancelled'
    BY <1>2, <2>1, CancelStopsAll DEF TypeInv
  <2>3. ItemAwaitsItsRequests'
    BY <1>1, <1>2, <2>1 DEF RequestInv, ItemAwaitsItsRequests, InFlight
  <2>4. SupersededAreCancelled'  BY <2>2 DEF SupersededAreCancelled
  <2>5. CancelledAreStopped'  BY <2>2 DEF CancelledAreStopped
  <2>6. QueueIsLatest'  BY <2>1 DEF QueueIsLatest
  <2>7. QED  BY <1>2, <2>3, <2>4, <2>5, <2>6 DEF RequestInv
<1>6. CASE Draw
  <2>1. UNCHANGED <<state, queue, pending, cancelled, group, future, stop>>
    BY <1>6 DEF Draw, item
  <2>2. QED  BY <1>1, <1>2, <2>1, SameRequests DEF InFlight
<1>7. QED  BY <1>3, <1>4, <1>5, <1>6

LEMMA FrameRequest ==
    ASSUME TypeInv, RequestInv, Frame
    PROVE  RequestInv'
<1>1. CASE Polled
  <2>1. /\ UNCHANGED <<state, queue, pending, cancelled, group, future, stop, events,
                       cleanup, dropped>>
        /\ phase = "poll" /\ phase' = "update"
    BY <1>1 DEF Polled, item, provider, history
  <2>2. Open /\ CleanupAfterClose'  BY <2>1 DEF Open, RequestInv, CleanupAfterClose
  <2>3. QED  BY <2>1, <2>2, SameRequests DEF InFlight
<1>2. CASE Update
  <2>1. /\ phase = "update" /\ phase' = "render"
        /\ UNCHANGED <<cancelled, group, events, cleanup, dropped>>
    BY <1>2 DEF Update, history
  <2>2. Open /\ CleanupAfterClose'  BY <2>1 DEF Open, RequestInv, CleanupAfterClose
  <2>3. CASE state = "Idle" /\ queue # None
    <3>1. queue.view \in Views /\ queue.group \in Groups  BY <2>3 DEF TypeInv, TypeOK, Deferrals
    <3>2. queue.group = group  BY <2>2, <2>3 DEF RequestInv, QueueIsLatest
    <3>3. Fetch(queue.view, queue.group)  BY <1>2, <2>3 DEF Update
    <3>4. QED  BY <2>1, <2>2, <2>3, <3>1, <3>2, <3>3, FetchStartsOver
  <2>4. CASE ~(state = "Idle" /\ queue # None)
    <3>1. UNCHANGED <<future, stop, pending, state, queue>>  BY <1>2, <2>4 DEF Update
    <3>2. QED  BY <2>1, <2>2, <3>1, SameRequests DEF InFlight
  <2>5. QED  BY <2>3, <2>4
<1>3. QED  BY <1>1, <1>2, DispatchRequest, ProcessRequest, RenderRequest DEF Frame

LEMMA UserRequest ==
    ASSUME TypeInv, RequestInv,
           (\E v \in Views : MoveView(v)) \/ Scroll \/ TimerExpires \/ FreeRequests \/ Close
    PROVE  RequestInv'
<1>1. CASE (\E v \in Views : MoveView(v)) \/ Scroll \/ TimerExpires
  <2>1. UNCHANGED <<state, queue, pending, cancelled, group, future, stop, events, dropped,
                    phase, cleanup>>
    BY <1>1 DEF MoveView, Scroll, TimerExpires, item, provider, history
  <2>2. CleanupAfterClose' /\ (Open' => Open)
    BY <2>1 DEF RequestInv, CleanupAfterClose, Open
  <2>3. QED  BY <2>1, <2>2, SameRequests DEF InFlight
<1>2. CASE FreeRequests
  <2>1. /\ phase = "render" /\ dropped' = TRUE
        /\ future' = [r \in Ids |-> "none"]
        /\ UNCHANGED <<phase, state, queue, pending, cancelled, group, events, cleanup>>
    BY <1>2 DEF FreeRequests, item
  <2>2. Open /\ CleanupAfterClose'  BY <2>1 DEF Open, RequestInv, CleanupAfterClose
  <2>3. \A r \in Ids : ~InFlight(r)'  BY <2>1 DEF InFlight
  <2>4. ItemAwaitsItsRequests'
    BY <2>1, <2>2, <2>3 DEF RequestInv, ItemAwaitsItsRequests
  <2>5. SupersededAreCancelled'  BY <2>3 DEF SupersededAreCancelled
  <2>6. CancelledAreStopped' /\ QueueIsLatest'
    BY <2>1, <2>2, <2>3 DEF RequestInv, CancelledAreStopped, QueueIsLatest
  <2>7. QED  BY <2>2, <2>4, <2>5, <2>6 DEF RequestInv
<1>3. CASE Close
  BY <1>3 DEF Close, RequestInv, CleanupAfterClose, ItemAwaitsItsRequests,
              SupersededAreCancelled, Open
<1>4. QED  BY <1>1, <1>2, <1>3

LEMMA CleanupRequest ==
    ASSUME TypeInv, RequestInv, Cleanup \/ \E r \in Ids : Finish(r)
    PROVE  RequestInv'
<1>1. CASE Cleanup
  <2>1. cleanup # "none" /\ UNCHANGED phase
    BY <1>1 DEF Cleanup, CancelDetached, FreeDetached, FreeController
  <2>2. ~Open /\ ~Open'  BY <2>1 DEF RequestInv, CleanupAfterClose, Open
  <2>3. CleanupAfterClose'  BY <2>2 DEF CleanupAfterClose, Open
  <2>4. QED
    BY <2>2, <2>3 DEF RequestInv, ItemAwaitsItsRequests, SupersededAreCancelled
<1>2. ASSUME NEW r \in Ids, Finish(r) PROVE RequestInv'
  <2>1. PICK res \in {"Success", "Failed", "Cancelled"} : future' = [future EXCEPT ![r] = res]
    BY <1>2 DEF Finish
  <2>2. /\ future[r] = "working"
        /\ UNCHANGED <<phase, state, queue, pending, cancelled, group, stop, events, cleanup,
                       dropped>>
    BY <1>2 DEF Finish, item, history
  <2>3. \A s \in Ids : InFlight(s)' <=> InFlight(s)
    BY <2>1, <2>2 DEF InFlight, TypeInv, TypeOK
  <2>4. CleanupAfterClose' /\ (Open' => Open)
    BY <2>2 DEF RequestInv, CleanupAfterClose, Open
  <2>5. QED  BY <2>2, <2>3, <2>4, SameRequests
<1>3. QED  BY <1>1, <1>2

\* The invariant behind the two theorems below.
LEMMA RequestsInductive == Spec => []RequestInv
<1>1. Init => RequestInv  BY InitRequest
<1>2. TypeInv /\ RequestInv /\ [Next]_vars => RequestInv'
  <2> SUFFICES ASSUME TypeInv, RequestInv, [Next]_vars PROVE RequestInv'  OBVIOUS
  <2>1. CASE Next  BY <2>1, UserRequest, FrameRequest, CleanupRequest DEF Next
  <2>2. CASE UNCHANGED vars
    <3>1. UNCHANGED <<state, queue, pending, cancelled, group, future, stop, events, dropped,
                      phase, cleanup>>
      BY <2>2 DEF vars, item, provider, history
    <3>2. CleanupAfterClose' /\ (Open' => Open)
      BY <3>1 DEF RequestInv, CleanupAfterClose, Open
    <3>3. QED  BY <3>1, <3>2, SameRequests DEF InFlight
  <2>3. QED  BY <2>1, <2>2
<1>3. QED  BY <1>1, <1>2, TypeCorrect, PTL DEF Spec

\* Whatever the user does and however the jobs end, the item of an open tab waits for
\* exactly the requests it has in flight or has not been told of, for any views, chunks
\* and number of groups: the wrap of the uint8 does not matter here.
THEOREM ItemKnowsItsRequests == Spec => []ItemAwaitsItsRequests
<1>1. RequestInv => ItemAwaitsItsRequests  BY DEF RequestInv
<1>2. QED  BY <1>1, RequestsInductive, PTL

\* Whatever was superseded or released has been cancelled: only the chunks of the last
\* RequestData run on.
THEOREM OnlyLatestRuns == Spec => []SupersededAreCancelled
<1>1. RequestInv => SupersededAreCancelled  BY DEF RequestInv
<1>2. QED  BY <1>1, RequestsInductive, PTL

-----------------------------------------------------------------------------
(* What is stored.  A group id comes back when the counter has wrapped; up *)
(* to then the age of a group tells how many RequestData came after it.    *)

\* The calls of RequestData since group g was the last one.
Age(g) == IF g <= group THEN group - g ELSE group - g + GroupIds

\* The moves after which an interval was asked for.
AskedMoves == IF view = asked THEN moves ELSE moves - 1

\* A group whose requests are in flight, or whose data is held, is younger than the wrap;
\* one that was deferred is not the last.
Young(g) == Age(g) <= AskedMoves /\ (queue # None => Age(g) > 0)

AgeInv ==
    /\ AskedMoves >= 0
    /\ raw # None => Young(raw.group)
    /\ \A r \in Ids : InFlight(r) => Young(r[1])

\* What is in flight was issued by one RequestData, and meets no data but its own.
BatchInv ==
    \A r \in Ids : InFlight(r) =>
        /\ r[2] \in ChunksOf(wanted[r])
        /\ \A s \in Ids : InFlight(s) => s[1] = r[1] /\ wanted[s] = wanted[r]
        /\ raw # None /\ raw.group = r[1] => raw.view = wanted[r]

MixInv == (Open => AgeInv /\ BatchInv) /\ (~Open => raw = None) /\ GroupsDoNotMix

\* The track holds the chunks C of view v or gaps in their place, and nothing else.
Holds(v, C) ==
    /\ raw # None /\ raw.view = v /\ DOMAIN raw.chunks = C
    /\ \A c \in C : raw.chunks[c] \in {v, Gap}

\* The chunks of the last RequestData that were not stored yet.
Missing == { c \in ChunksOf(asked) : <<group, c>> \in pending \ events }

\* The requests the item waits for are those of the last RequestData, for the view asked
\* for, and run on; the others of that view are stored, or have left a gap, but no hole.
LoadingInv ==
    /\ ~cancelled
    /\ \A r \in pending : r[1] = group /\ r[2] \in ChunksOf(asked)
    /\ \A r \in Ids : InFlight(r) => r \notin stop /\ wanted[r] = asked
    /\ \/ Missing = ChunksOf(asked) /\ (raw # None => raw.group # group)
       \/ raw.group = group /\ Holds(asked, ChunksOf(asked) \ Missing)

\* An item that was not left with cancelled requests is loading, or has loaded, what was
\* last asked for.
ShownInv ==
    queue = None /\ ~orphaned =>
        IF pending = {} THEN raw = None \/ Holds(asked, ChunksOf(asked)) ELSE LoadingInv

\* What waits in the queue is what was last asked for, and has to wait.
DeferredInv == queue # None => queue.view = asked /\ (phase = "render" => pending # {})

\* A job ends as cancelled only if it was.
CancelledOnDemand == \A r \in Ids : future[r] = "Cancelled" => r \in stop

WholeInv == Open => ShownInv /\ DeferredInv /\ CancelledOnDemand

-----------------------------------------------------------------------------
(* The age of a group.                                                     *)

\* Fewer moves than groups: the counter does not come back to a group that is held.
NoWrap == MaxMoves < GroupIds

LEMMA NextGroupIs ==
    ASSUME group \in Groups
    PROVE  NextGroup = IF group + 1 = GroupIds THEN 0 ELSE group + 1
<1>1. GroupIds \in Nat /\ GroupIds > 0 /\ group \in Nat /\ group < GroupIds
  BY TrackAssumption DEF Groups
<1>2. CASE group + 1 = GroupIds
  <2>1. GroupIds % GroupIds = 0  BY <1>1
  <2>2. QED  BY <1>2, <2>1 DEF NextGroup
<1>3. CASE group + 1 # GroupIds
  <2>1. group + 1 \in 0 .. GroupIds - 1  BY <1>1, <1>3
  <2>2. (group + 1) % GroupIds = group + 1  BY <1>1, <2>1
  <2>3. QED  BY <1>3, <2>2 DEF NextGroup
<1>4. QED  BY <1>2, <1>3

\* The last group has the age 0, and no other one.
LEMMA Ages ==
    ASSUME group \in Groups, NEW g \in Groups
    PROVE  Age(g) \in 0 .. (GroupIds - 1) /\ (Age(g) = 0 <=> g = group)
BY TrackAssumption DEF Age, Groups

\* A RequestData makes every group older by one, until the counter wraps.
LEMMA Older ==
    ASSUME group \in Groups, NEW g \in Groups, group' = NextGroup, Age(g) + 1 < GroupIds
    PROVE  Age(g)' = Age(g) + 1
<1>1. GroupIds \in Nat /\ GroupIds > 0 /\ group \in Nat /\ group < GroupIds
      /\ g \in Nat /\ g < GroupIds
  BY TrackAssumption DEF Groups
<1>2. group' = IF group + 1 = GroupIds THEN 0 ELSE group + 1  BY NextGroupIs
<1>3. QED  BY <1>1, <1>2 DEF Age

\* Rendering brings what was asked for up to date.
LEMMA RenderedAsks ==
    ASSUME TypeInv, Rendered
    PROVE  /\ phase = "render" /\ phase' = "events" /\ Open /\ Open'
           /\ AskedMoves' >= AskedMoves
           /\ UNCHANGED <<view, moves, events, dropped>>
<1>1. /\ phase = "render" /\ phase' = "events"
      /\ asked' = IF settled THEN view ELSE asked
      /\ UNCHANGED <<view, moves, events, dropped>>
  BY DEF Rendered
<1>2. moves \in Nat  BY TrackAssumption DEF TypeInv, TypeOK
<1>3. AskedMoves' >= AskedMoves  BY <1>1, <1>2 DEF AskedMoves
<1>4. QED  BY <1>1, <1>3 DEF Open

\* What an idle item fetches is all that is in flight.
LEMMA FetchIsAll ==
    ASSUME TypeInv, RequestInv, Open, state = "Idle",
           NEW v \in Views, NEW g \in Groups, Fetch(v, g)
    PROVE  /\ pending' = { <<g, c>> : c \in ChunksOf(v) }
           /\ \A r \in Ids : InFlight(r)' <=> r[1] = g /\ r[2] \in ChunksOf(v)
           /\ \A r \in Ids : InFlight(r)' =>
                 future'[r] = "working" /\ wanted'[r] = v /\ r \notin stop'
           /\ pending' # {} /\ queue' = None
<1> DEFINE issued == { <<g, c>> : c \in ChunksOf(v) }
<1>1. pending = {} /\ events = {} /\ \A r \in Ids : ~InFlight(r)  BY IdleHasNone
<1>2. issued \subseteq Ids  BY ChunkIds
<1>3. { r \in issued : ~InFlight(r) } = issued  BY <1>1, <1>2
<1>4. /\ future' = [r \in Ids |-> IF r \in issued THEN "working" ELSE future[r]]
      /\ wanted' = [r \in Ids |-> IF r \in issued THEN v ELSE wanted[r]]
      /\ stop' = stop \ issued /\ pending' = pending \cup issued /\ queue' = None
  BY <1>3 DEF Fetch
<1>5. \A r \in Ids : r \in issued <=> r[1] = g /\ r[2] \in ChunksOf(v)  BY DEF Ids
<1>6. <<g, 0>> \in issued  BY TrackAssumption DEF ChunksOf
<1> HIDE DEF issued
<1>7. \A r \in Ids : InFlight(r)' <=> r \in issued  BY <1>1, <1>4 DEF InFlight
<1>8. pending' = issued  BY <1>1, <1>4
<1>9. QED  BY <1>4, <1>5, <1>6, <1>7, <1>8 DEF issued

-----------------------------------------------------------------------------
(* Data of one group.                                                      *)

LEMMA InitMix == Init => MixInv
<1> SUFFICES ASSUME Init PROVE MixInv  OBVIOUS
<1>1. AskedMoves >= 0  BY DEF Init, AskedMoves
<1>2. QED
  BY <1>1 DEF Init, MixInv, AgeInv, BatchInv, GroupsDoNotMix, InFlight, Open

\* Steps that start and store nothing.
LEMMA SameMix ==
    ASSUME TypeInv, MixInv, Open' <=> Open,
           UNCHANGED <<queue, group, raw, wanted>>,
           Open => AskedMoves' >= AskedMoves /\ AskedMoves' \in Int,
           \A r \in Ids : Open' /\ InFlight(r)' => InFlight(r)
    PROVE  MixInv'
<1>1. GroupsDoNotMix'  BY DEF MixInv, GroupsDoNotMix
<1>2. ASSUME Open' PROVE AgeInv'
  <2>1. Open /\ AgeInv  BY <1>2 DEF MixInv
  <2>2. AskedMoves \in Int  BY TrackAssumption DEF TypeInv, TypeOK, AskedMoves
  <2>3. ASSUME NEW g \in Groups, Young(g) PROVE Young(g)'
    <3>1. Age(g)' = Age(g) /\ Age(g) \in Int
      BY Ages DEF TypeInv, TypeOK, Age
    <3>2. QED  BY <2>1, <2>2, <2>3, <3>1 DEF Young
  <2>4. raw # None => raw.group \in Groups  BY DEF TypeInv, TypeOK, RawData
  <2>5. \A r \in Ids : r[1] \in Groups  BY DEF Ids
  <2>6. (raw # None => Young(raw.group))'
    <3>1. SUFFICES ASSUME raw # None PROVE Young(raw.group)'  OBVIOUS
    <3>2. PICK g \in Groups : g = raw.group /\ Young(g)  BY <2>1, <2>4, <3>1 DEF AgeInv
    <3>3. Young(g)'  BY <2>3, <3>2
    <3>4. QED  BY <3>2, <3>3 DEF Young, Age
  <2>7. \A r \in Ids : InFlight(r)' => Young(r[1])'
    BY <1>2, <2>1, <2>3, <2>5 DEF AgeInv
  <2>8. QED  BY <2>1, <2>2, <2>6, <2>7 DEF AgeInv
<1>3. ASSUME Open' PROVE BatchInv'  BY <1>3 DEF MixInv, BatchInv
<1>4. ~Open' => raw' = None  BY DEF MixInv
<1>5. QED  BY <1>1, <1>2, <1>3, <1>4 DEF MixInv

\* A fetch of an idle item meets data of its own group nowhere.
LEMMA FetchMix ==
    ASSUME TypeInv, RequestInv, MixInv, Open, Open', state = "Idle",
           NEW v \in Views, NEW g \in Groups, Fetch(v, g), group' = g,
           raw' \in {None, raw}, (raw # None => Young(raw.group) /\ raw.group # group)',
           AskedMoves' >= 0
    PROVE  MixInv'
<1>1. /\ \A r \in Ids : InFlight(r)' <=> r[1] = g /\ r[2] \in ChunksOf(v)
      /\ \A r \in Ids : InFlight(r)' => wanted'[r] = v
      /\ queue' = None
  BY FetchIsAll
<1>2. Age(group)' = 0
  <2>1. g \in Nat /\ g <= g /\ g - g = 0  BY TrackAssumption DEF Groups
  <2>2. QED  BY <2>1 DEF Age
<1>3. ASSUME NEW r \in Ids, InFlight(r)' PROVE Young(r[1])'
  <2>1. r[1] = group'  BY <1>1, <1>3
  <2>2. QED  BY <1>1, <1>2, <2>1 DEF Young, Age
<1>4. AgeInv'  BY <1>3 DEF AgeInv
<1>5. BatchInv'  BY <1>1 DEF BatchInv
<1>6. GroupsDoNotMix'  BY DEF MixInv, GroupsDoNotMix
<1>7. QED  BY <1>4, <1>5, <1>6 DEF MixInv

\* An item is asked again for another interval than the last: that takes a move.
LEMMA AskedAgain ==
    ASSUME TypeInv, MixInv, Rendered, IsRequestDataNeeded, ~MissesData
    PROVE  AskedMoves' = AskedMoves + 1 /\ AskedMoves' <= MaxMoves /\ AskedMoves \in Nat
<1>1. /\ view # asked /\ asked' = view /\ UNCHANGED <<view, moves>>
  BY DEF Rendered, IsRequestDataNeeded
<1>2. moves \in 0 .. MaxMoves /\ MaxMoves \in Nat  BY TrackAssumption DEF TypeInv, TypeOK
<1>3. AskedMoves >= 0  BY RenderedAsks DEF MixInv, AgeInv
<1>4. AskedMoves = moves - 1 /\ AskedMoves' = moves  BY <1>1 DEF AskedMoves
<1>5. QED  BY <1>2, <1>3, <1>4

\* What is held gets older, by less than a turn of the counter.
LEMMA Overtaken ==
    ASSUME TypeInv, MixInv, NoWrap, Rendered, IsRequestDataNeeded, ~MissesData,
           NEW g \in Groups, Young(g), group' = NextGroup
    PROVE  Young(g)' /\ g # group' /\ Age(g)' > 0
<1>1. AskedMoves' = AskedMoves + 1 /\ AskedMoves' <= MaxMoves /\ AskedMoves \in Nat
  BY AskedAgain
<1>2. MaxMoves < GroupIds /\ MaxMoves \in Nat /\ GroupIds \in Nat  BY TrackAssumption DEF NoWrap
<1>3. group \in Groups  BY DEF TypeInv, TypeOK
<1>4. Age(g) <= AskedMoves /\ Age(g) \in Nat  BY <1>3, Ages DEF Young
<1>5. Age(g) + 1 < GroupIds  BY <1>1, <1>2, <1>4
<1>6. Age(g)' = Age(g) + 1  BY <1>3, <1>5, Older
<1>7. Young(g)' /\ Age(g)' > 0  BY <1>1, <1>4, <1>6 DEF Young
<1>8. g # group'
  <2>1. group' \in Groups  BY <1>3, GroupWraps
  <2>2. SUFFICES ASSUME g = group' PROVE FALSE  OBVIOUS
  <2>3. g \in Nat  BY TrackAssumption DEF Groups
  <2>4. Age(g)' = 0  BY <2>2, <2>3 DEF Age
  <2>5. QED  BY <1>7, <2>4
<1>9. QED  BY <1>7, <1>8

LEMMA RequestMix ==
    ASSUME TypeInv, RequestInv, MixInv, NoWrap, Request
    PROVE  MixInv'
<1>1. /\ Rendered /\ IsRequestDataNeeded /\ state = "Idle"
      /\ Fetch(view, NextGroup) /\ group' = NextGroup
      /\ raw' = IF MissesData THEN None ELSE raw
  BY DEF Request
<1>2. Open /\ Open' /\ AskedMoves' >= AskedMoves  BY <1>1, RenderedAsks
<1>3. view \in Views /\ NextGroup \in Groups  BY GroupWraps DEF TypeInv, TypeOK
<1>4. AskedMoves' >= 0
  <2>1. AskedMoves >= 0 /\ AskedMoves \in Int
    BY <1>2, TrackAssumption DEF MixInv, AgeInv, AskedMoves, TypeInv, TypeOK
  <2>2. AskedMoves' \in Int
    BY <1>1, TrackAssumption DEF Rendered, AskedMoves, TypeInv, TypeOK
  <2>3. QED  BY <1>2, <2>1, <2>2
<1>5. (raw # None => Young(raw.group) /\ raw.group # group)'
  <2>1. SUFFICES ASSUME raw' # None PROVE (Young(raw.group) /\ raw.group # group)'  OBVIOUS
  <2>2. ~MissesData /\ raw' = raw /\ raw # None  BY <1>1, <2>1
  <2>3. PICK g \in Groups : g = raw.group /\ Young(g)
    BY <1>2, <2>2 DEF MixInv, AgeInv, TypeInv, TypeOK, RawData
  <2>4. Young(g)' /\ g # group'  BY <1>1, <2>2, <2>3, Overtaken
  <2>5. QED  BY <2>2, <2>3, <2>4 DEF Young, Age
<1>6. QED  BY <1>1, <1>2, <1>3, <1>4, <1>5, FetchMix

LEMMA DeferMix ==
    ASSUME TypeInv, RequestInv, MixInv, NoWrap, Defer
    PROVE  MixInv'
<1>1. /\ Rendered /\ IsRequestDataNeeded /\ state = "Requesting" /\ group' = NextGroup
      /\ UNCHANGED <<future, wanted, raw>>
  BY DEF Defer
<1>2. ~MissesData  BY <1>1 DEF MissesData
<1>3. Open /\ Open'  BY <1>1, RenderedAsks
<1>4. AskedMoves' = AskedMoves + 1 /\ AskedMoves \in Nat  BY <1>1, <1>2, AskedAgain
<1>5. AgeInv  BY <1>3 DEF MixInv
<1>6. (raw # None => Young(raw.group))'
  <2>1. SUFFICES ASSUME raw # None PROVE Young(raw.group)'  BY <1>1
  <2>2. PICK g \in Groups : g = raw.group /\ Young(g)
    BY <1>5, <2>1 DEF AgeInv, TypeInv, TypeOK, RawData
  <2>3. Young(g)'  BY <1>1, <1>2, <2>2, Overtaken
  <2>4. QED  BY <1>1, <2>2, <2>3 DEF Young, Age
<1>7. ASSUME NEW r \in Ids, InFlight(r)' PROVE Young(r[1])'
  <2>1. InFlight(r) /\ r[1] \in Groups  BY <1>1, <1>7 DEF InFlight, Ids
  <2>2. Young(r[1])  BY <1>5, <2>1 DEF AgeInv
  <2>3. QED  BY <1>1, <1>2, <2>1, <2>2, Overtaken
<1>8. AgeInv'  BY <1>4, <1>6, <1>7 DEF AgeInv
<1>9. BatchInv'  BY <1>1, <1>3 DEF MixInv, BatchInv, InFlight
<1>10. GroupsDoNotMix'  BY <1>1 DEF MixInv, GroupsDoNotMix
<1>11. QED  BY <1>3, <1>8, <1>9, <1>10 DEF MixInv

\* A chunk is added to the others, which stay.
LEMMA Adds ==
    ASSUME NEW d, NEW c, NEW x
    PROVE  /\ AddChunk(d, c, x).view = d.view /\ AddChunk(d, c, x).group = d.group
           /\ DOMAIN AddChunk(d, c, x).chunks = DOMAIN d.chunks \cup {c}
           /\ \A i \in DOMAIN d.chunks : AddChunk(d, c, x).chunks[i] = d.chunks[i]
           /\ c \notin DOMAIN d.chunks => AddChunk(d, c, x).chunks[c] = x
<1>1. CASE c \in DOMAIN d.chunks
  <2>1. AddChunk(d, c, x) = d  BY <1>1 DEF AddChunk
  <2>2. DOMAIN d.chunks = DOMAIN d.chunks \cup {c}  BY <1>1
  <2>3. QED  BY <1>1, <2>1, <2>2
<1>2. CASE c \notin DOMAIN d.chunks  BY <1>2 DEF AddChunk
<1>3. QED  BY <1>1, <1>2

\* What a response leaves is of its group and its view.
LEMMA StoresItsOwn ==
    ASSUME TypeInv, MixInv, Open, NEW r \in Ids, Resolved(r), Stored(r) # None
    PROVE  /\ Stored(r).view = wanted[r] /\ Stored(r).group = r[1]
           /\ DOMAIN Stored(r).chunks \subseteq ChunksOf(wanted[r])
           /\ \A c \in DOMAIN Stored(r).chunks : Stored(r).chunks[c] \in {wanted[r], Hole, Gap}
<1>1. InFlight(r)  BY DEF Resolved, InFlight
<1>2. /\ r[2] \in ChunksOf(wanted[r])
      /\ raw # None /\ raw.group = r[1] => raw.view = wanted[r]
  BY <1>1 DEF MixInv, BatchInv
<1> DEFINE d == IF SameGroup(r) THEN raw ELSE Empty(r)
           x == Answer(r)
<1>3. Stored(r) = AddChunk(d, r[2], x)  BY DEF Stored
<1>4. /\ d.view = wanted[r] /\ d.group = r[1]
      /\ DOMAIN d.chunks \subseteq ChunksOf(wanted[r])
      /\ \A c \in DOMAIN d.chunks : d.chunks[c] \in {wanted[r], Hole, Gap}
  <2>1. CASE SameGroup(r)
    <3>1. raw # None /\ raw.group = r[1] /\ raw.view = wanted[r] /\ d = raw
      BY <1>2, <2>1 DEF SameGroup
    <3>2. QED  BY <3>1 DEF MixInv, GroupsDoNotMix
  <2>2. CASE ~SameGroup(r)
    <3>1. d.view = wanted[r] /\ d.group = r[1] /\ DOMAIN d.chunks = {}
      BY <2>2 DEF Empty
    <3>2. QED  BY <3>1
  <2>3. QED  BY <2>1, <2>2
<1>5. x \in {wanted[r], Hole, Gap}  BY DEF Answer
<1> HIDE DEF d, x
<1>6. QED  BY <1>2, <1>3, <1>4, <1>5, Adds

LEMMA ProcessMix ==
    ASSUME TypeInv, MixInv, NEW r \in Ids, Process(r)
    PROVE  MixInv'
<1>1. /\ phase = "poll" /\ Resolved(r) /\ raw' = Stored(r)
      /\ future' = [future EXCEPT ![r] = "none"]
      /\ UNCHANGED <<phase, view, asked, moves, queue, group, wanted>>
  BY DEF Process, user, item
<1>2. Open /\ Open' /\ AskedMoves' = AskedMoves  BY <1>1 DEF Open, AskedMoves
<1>3. InFlight(r) /\ AgeInv /\ BatchInv  BY <1>1, <1>2 DEF Resolved, InFlight, MixInv
<1>4. \A s \in Ids : InFlight(s)' => InFlight(s)
  BY <1>1 DEF InFlight, TypeInv, TypeOK
<1>5. ASSUME NEW g \in Groups, Young(g) PROVE Young(g)'
  <2>1. Age(g)' = Age(g)  BY <1>1 DEF Age
  <2>2. QED  BY <1>1, <1>2, <1>5, <2>1 DEF Young
<1>6. ASSUME raw' # None
      PROVE  /\ raw'.view = wanted[r] /\ raw'.group = r[1]
             /\ DOMAIN raw'.chunks \subseteq ChunksOf(wanted[r])
             /\ \A c \in DOMAIN raw'.chunks : raw'.chunks[c] \in {wanted[r], Hole, Gap}
  BY <1>1, <1>2, <1>6, StoresItsOwn
<1>7. (raw # None => Young(raw.group))'
  <2>1. SUFFICES ASSUME raw' # None PROVE Young(raw.group)'  OBVIOUS
  <2>2. r[1] \in Groups /\ Young(r[1])  BY <1>3 DEF AgeInv, Ids
  <2>3. Young(r[1])'  BY <1>5, <2>2
  <2>4. QED  BY <1>6, <2>1, <2>3 DEF Young, Age
<1>8. \A s \in Ids : InFlight(s)' => Young(s[1])'
  BY <1>3, <1>4, <1>5 DEF AgeInv, Ids
<1>9. AgeInv'  BY <1>2, <1>3, <1>7, <1>8 DEF AgeInv
<1>10. BatchInv'
  <2>1. ASSUME NEW s \in Ids, InFlight(s)' PROVE InFlight(s) /\ s[1] = r[1] /\ wanted[s] = wanted[r]
    BY <1>3, <1>4, <2>1 DEF BatchInv
  <2>2. QED  BY <1>1, <1>3, <1>4, <1>6, <2>1 DEF BatchInv
<1>11. GroupsDoNotMix'  BY <1>6 DEF GroupsDoNotMix
<1>12. QED  BY <1>2, <1>9, <1>10, <1>11 DEF MixInv

LEMMA UpdateMix ==
    ASSUME TypeInv, RequestInv, MixInv, Update
    PROVE  MixInv'
<1>1. /\ phase = "update" /\ phase' = "render"
      /\ UNCHANGED <<view, asked, moves, group, raw>>
  BY DEF Update, user
<1>2. Open /\ Open' /\ AskedMoves' = AskedMoves  BY <1>1 DEF Open, AskedMoves
<1>3. AskedMoves >= 0 /\ AskedMoves \in Int
  BY <1>2, TrackAssumption DEF MixInv, AgeInv, AskedMoves, TypeInv, TypeOK
<1>4. CASE state = "Idle" /\ queue # None
  <2>1. /\ queue.view \in Views /\ queue.group \in Groups /\ queue.group = group
        /\ Fetch(queue.view, queue.group)
    BY <1>2, <1>4 DEF TypeInv, TypeOK, Deferrals, RequestInv, QueueIsLatest, Update
  <2>2. (raw # None => Young(raw.group) /\ raw.group # group)'
    <3>1. SUFFICES ASSUME raw # None PROVE (Young(raw.group) /\ raw.group # group)'  BY <1>1
    <3>2. PICK g \in Groups : g = raw.group /\ Young(g)
      BY <1>2, <3>1 DEF MixInv, AgeInv, TypeInv, TypeOK, RawData
    <3>3. g # group /\ Age(g) > 0
      BY <1>4, <3>2, Ages DEF Young, TypeInv, TypeOK
    <3>4. Young(g)'
      <4>1. Age(g)' = Age(g)  BY <1>1 DEF Age
      <4>2. QED  BY <1>2, <3>2, <3>3, <4>1 DEF Young
    <3>5. QED  BY <1>1, <3>2, <3>3, <3>4 DEF Young, Age
  <2>3. QED  BY <1>1, <1>2, <1>3, <1>4, <2>1, <2>2, FetchMix
<1>5. CASE ~(state = "Idle" /\ queue # None)
  <2>1. UNCHANGED <<future, wanted, queue>>  BY <1>5 DEF Update
  <2>2. QED  BY <1>1, <1>2, <1>3, <2>1, SameMix DEF InFlight
<1>6. QED  BY <1>4, <1>5

LEMMA ReleaseMix ==
    ASSUME TypeInv, MixInv, Release
    PROVE  MixInv'
<1>1. Rendered /\ raw' = None /\ queue' = None /\ UNCHANGED <<group, future, wanted>>
  BY DEF Release
<1>2. Open /\ Open' /\ AskedMoves' >= AskedMoves  BY <1>1, RenderedAsks
<1>3. AskedMoves >= 0 /\ AskedMoves \in Int /\ AskedMoves' \in Int
  BY <1>1, <1>2, TrackAssumption DEF Rendered, MixInv, AgeInv, AskedMoves, TypeInv, TypeOK
<1>4. ASSUME NEW r \in Ids, InFlight(r)' PROVE Young(r[1])'
  <2>1. InFlight(r) /\ r[1] \in Groups  BY <1>1, <1>4 DEF InFlight, Ids
  <2>2. Young(r[1])  BY <1>2, <2>1 DEF MixInv, AgeInv
  <2>3. Age(r[1])' = Age(r[1]) /\ Age(r[1]) \in Int
    BY <1>1, <2>1, Ages DEF Age, TypeInv, TypeOK
  <2>4. QED  BY <1>1, <1>2, <1>3, <2>2, <2>3 DEF Young
<1>5. AgeInv'  BY <1>1, <1>2, <1>3, <1>4 DEF AgeInv
<1>6. BatchInv'  BY <1>1, <1>2 DEF MixInv, BatchInv, InFlight
<1>7. QED  BY <1>1, <1>2, <1>5, <1>6 DEF MixInv, GroupsDoNotMix

LEMMA MixNext ==
    ASSUME TypeInv, RequestInv, MixInv, NoWrap, [Next]_vars
    PROVE  MixInv'
<1> DEFINE Still == UNCHANGED <<view, asked, moves, queue, group, raw, wanted>>
<1>0. moves \in Nat  BY TrackAssumption DEF TypeInv, TypeOK
<1>1. ASSUME NEW v \in Views, MoveView(v) PROVE MixInv'
  <2>1. /\ moves' = moves + 1 /\ AskedMoves' >= AskedMoves /\ AskedMoves' \in Int
        /\ UNCHANGED <<phase, queue, group, raw, wanted, future>>
    BY <1>1, <1>0 DEF MoveView, AskedMoves, item, provider
  <2>2. QED  BY <2>1, SameMix DEF Open, InFlight
<1>2. CASE Scroll
  <2>1. /\ moves' = moves + 1 /\ AskedMoves' >= AskedMoves /\ AskedMoves' \in Int
        /\ UNCHANGED <<phase, queue, group, raw, wanted, future>>
    BY <1>2, <1>0 DEF Scroll, AskedMoves, item, provider
  <2>2. QED  BY <2>1, SameMix DEF Open, InFlight
<1>3. ASSUME Still, Open' <=> Open, \A r \in Ids : Open' /\ InFlight(r)' => InFlight(r)
      PROVE  MixInv'
  <2>1. AskedMoves' >= AskedMoves /\ AskedMoves' \in Int  BY <1>3, <1>0 DEF AskedMoves
  <2>2. QED  BY <1>3, <2>1, SameMix
<1>4. CASE TimerExpires \/ Polled \/ FreeRequests \/ Dispatch
  <2>1. Still /\ (Open' <=> Open)
    BY <1>4 DEF TimerExpires, Polled, FreeRequests, Dispatch, Open, item, provider, user
  <2>2. \A r \in Ids : InFlight(r)' => InFlight(r)
    BY <1>4 DEF TimerExpires, Polled, FreeRequests, Dispatch, InFlight, provider
  <2>3. QED  BY <1>3, <2>1, <2>2
<1>5. CASE Cleanup
  <2>1. Still /\ cleanup # "none" /\ UNCHANGED phase
    BY <1>5 DEF Cleanup, CancelDetached, FreeDetached, FreeController, item, provider, user
  <2>2. ~Open /\ ~Open'  BY <2>1 DEF RequestInv, CleanupAfterClose, Open
  <2>3. QED  BY <1>3, <2>1, <2>2
<1>6. ASSUME NEW r \in Ids, Finish(r) PROVE MixInv'
  <2>1. Still /\ UNCHANGED phase  BY <1>6 DEF Finish, item, user
  <2>2. \A s \in Ids : InFlight(s)' => InFlight(s)
    BY <1>6 DEF Finish, InFlight, TypeInv, TypeOK
  <2>3. QED  BY <1>3, <2>1, <2>2 DEF Open
<1>7. CASE Close
  <2>1. raw' = None /\ ~Open'  BY <1>7 DEF Close, Open
  <2>2. QED  BY <2>1 DEF MixInv, GroupsDoNotMix
<1>8. CASE Draw
  <2>1. Rendered /\ UNCHANGED <<queue, group, raw, wanted, future>>  BY <1>8 DEF Draw, item
  <2>2. AskedMoves' \in Int  BY <2>1, <1>0 DEF Rendered, AskedMoves
  <2>3. QED  BY <2>1, <2>2, RenderedAsks, SameMix DEF InFlight
<1>9. CASE UNCHANGED vars
  <2>1. Still /\ UNCHANGED <<phase, future>>  BY <1>9 DEF vars, item, provider, user
  <2>2. QED  BY <1>3, <2>1 DEF Open, InFlight
<1>10. QED
  BY <1>1, <1>2, <1>4, <1>5, <1>6, <1>7, <1>8, <1>9,
     RequestMix, DeferMix, UpdateMix, ReleaseMix, ProcessMix DEF Next, Frame

LEMMA MixHolds == NoWrap => (Spec => []MixInv)
<1> SUFFICES ASSUME NoWrap PROVE Spec => []MixInv  OBVIOUS
<1>1. Init => MixInv  BY InitMix
<1>2. TypeInv /\ RequestInv /\ MixInv /\ [Next]_vars => MixInv'  BY MixNext
<1>3. QED  BY <1>1, <1>2, TypeCorrect, RequestsInductive, PTL DEF Spec

\* The chunks of two requests never end up in one RawTrackData (CreateRawEventData), for any
\* views, chunks, jobs and number of groups, as long as the user has made fewer moves than
\* there are groups: only then can the uint8 have come back to a group that is still held.
THEOREM GroupsStayApart == NoWrap => (Spec => []GroupsDoNotMix)
<1> SUFFICES ASSUME NoWrap PROVE Spec => []GroupsDoNotMix  OBVIOUS
<1>1. MixInv => GroupsDoNotMix  BY DEF MixInv
<1>2. QED  BY <1>1, MixHolds, PTL


-----------------------------------------------------------------------------
(* Whole data.                                                             *)

LEMMA InitWhole == Init => WholeInv
BY DEF Init, WholeInv, ShownInv, DeferredInv, CancelledOnDemand

\* Steps that leave the last RequestData and its data as they are.
LEMMA SameShown ==
    ASSUME ShownInv,
           UNCHANGED <<asked, queue, pending, cancelled, group, events, raw, orphaned>>,
           \A r \in Ids : InFlight(r)' =>
               InFlight(r) /\ wanted'[r] = wanted[r] /\ (r \in stop' => r \in stop)
    PROVE  ShownInv'
<1>1. SUFFICES ASSUME queue = None, ~orphaned
               PROVE  (IF pending = {} THEN raw = None \/ Holds(asked, ChunksOf(asked))
                       ELSE LoadingInv)'
  BY DEF ShownInv
<1>2. Holds(asked, ChunksOf(asked))' <=> Holds(asked, ChunksOf(asked))  BY DEF Holds
<1>3. CASE pending = {}  BY <1>1, <1>2, <1>3 DEF ShownInv
<1>4. CASE pending # {}
  <2>1. LoadingInv  BY <1>1, <1>4 DEF ShownInv
  <2>2. Missing' = Missing  BY DEF Missing
  <2>3. Holds(asked, ChunksOf(asked) \ Missing)' <=> Holds(asked, ChunksOf(asked) \ Missing)
    BY <2>2 DEF Holds
  <2>4. LoadingInv'  BY <2>1, <2>2, <2>3 DEF LoadingInv
  <2>5. QED  BY <1>4, <2>4
<1>5. QED  BY <1>3, <1>4

\* A fetch of an idle item is the last RequestData, and misses all its chunks.
LEMMA FetchWhole ==
    ASSUME TypeInv, RequestInv, WholeInv, Open, state = "Idle",
           NEW v \in Views, NEW g \in Groups, Fetch(v, g),
           v = asked', g = group', UNCHANGED <<cancelled, events>>,
           (raw # None => raw.group # group)'
    PROVE  WholeInv'
<1>1. /\ pending' = { <<g, c>> : c \in ChunksOf(v) }
      /\ \A r \in Ids : InFlight(r)' =>
            future'[r] = "working" /\ wanted'[r] = v /\ r \notin stop'
      /\ pending' # {} /\ queue' = None
  BY FetchIsAll
<1>2. events' = {} /\ ~cancelled'  BY IdleHasNone
<1>3. Missing' = ChunksOf(asked')  BY <1>1, <1>2 DEF Missing
<1>4. LoadingInv'  BY <1>1, <1>2, <1>3 DEF LoadingInv
<1>5. ShownInv'  BY <1>1, <1>4 DEF ShownInv
<1>6. CancelledOnDemand'  BY <1>1 DEF CancelledOnDemand, InFlight
<1>7. QED  BY <1>1, <1>5, <1>6 DEF WholeInv, DeferredInv

LEMMA DispatchWhole ==
    ASSUME TypeInv, RequestInv, WholeInv, Dispatch
    PROVE  WholeInv'
<1>1. /\ phase = "events" /\ phase' = "poll"
      /\ pending' = pending \ events /\ events' = {}
      /\ UNCHANGED <<asked, queue, group, future, stop, wanted, raw, orphaned>>
  BY DEF Dispatch, user, history
<1>2. Open  BY <1>1 DEF Open
<1>3. cancelled' => cancelled  BY DEF Dispatch, StillCancelled
<1>4. ShownInv'
  <2>1. SUFFICES ASSUME queue = None, ~orphaned
                 PROVE  (IF pending = {} THEN raw = None \/ Holds(asked, ChunksOf(asked))
                         ELSE LoadingInv)'
    BY <1>1 DEF ShownInv
  <2>2. Missing' = Missing  BY <1>1 DEF Missing
  <2>3. \A C : Holds(asked, C)' <=> Holds(asked, C)  BY <1>1 DEF Holds
  <2>4. CASE pending = {}
    BY <1>1, <1>2, <2>1, <2>3, <2>4 DEF WholeInv, ShownInv, Holds
  <2>5. CASE pending # {}
    <3>1. LoadingInv  BY <1>2, <2>1, <2>5 DEF WholeInv, ShownInv
    <3>2. CASE pending' = {}
      <4>1. Missing = {}  BY <1>1, <3>2 DEF Missing
      <4>2. 0 \in ChunksOf(asked)
        BY TrackAssumption DEF TypeInv, TypeOK, ChunksOf
      <4>3. Holds(asked, ChunksOf(asked))  BY <3>1, <4>1, <4>2 DEF LoadingInv
      <4>4. QED  BY <1>1, <3>2, <4>3 DEF Holds
    <3>3. CASE pending' # {}
      <4>1. \A r \in Ids : InFlight(r)' => InFlight(r)  BY <1>1 DEF InFlight
      <4>2. Holds(asked, ChunksOf(asked) \ Missing)' <=> Holds(asked, ChunksOf(asked) \ Missing)
        BY <1>1, <2>2 DEF Holds
      <4>3. LoadingInv'  BY <1>1, <1>3, <2>2, <3>1, <4>1, <4>2 DEF LoadingInv
      <4>4. QED  BY <3>3, <4>3
    <3>4. QED  BY <3>2, <3>3
  <2>6. QED  BY <2>4, <2>5
<1>5. DeferredInv'  BY <1>1, <1>2 DEF WholeInv, DeferredInv
<1>6. CancelledOnDemand'  BY <1>1, <1>2 DEF WholeInv, CancelledOnDemand
<1>7. QED  BY <1>4, <1>5, <1>6 DEF WholeInv

\* A chunk of the last RequestData is stored beside the others of its view.
LEMMA StoresWhole ==
    ASSUME TypeInv, LoadingInv, NEW r \in Ids, Resolved(r), future[r] # "Cancelled",
           wanted[r] = asked, r \in pending \ events
    PROVE  /\ Stored(r) # None /\ Stored(r).view = asked /\ Stored(r).group = group
           /\ DOMAIN Stored(r).chunks = (ChunksOf(asked) \ Missing) \cup {r[2]}
           /\ \A c \in DOMAIN Stored(r).chunks : Stored(r).chunks[c] \in {asked, Gap}
<1>1. r[1] = group /\ r[2] \in ChunksOf(asked) /\ r = <<group, r[2]>>
  BY DEF LoadingInv, Ids
<1>2. r[2] \in Missing  BY <1>1 DEF Missing
<1> DEFINE d == IF SameGroup(r) THEN raw ELSE Empty(r)
           x == Answer(r)
<1>3. x \in {asked, Gap}  BY DEF Answer
<1>4. Stored(r) = AddChunk(d, r[2], x)  BY DEF Stored
<1> HIDE DEF x
<1>5. Stored(r) # None
  <2>1. r[1] \in Groups /\ r[2] \in Chunks /\ asked \in Views
    BY DEF Ids, TypeInv, TypeOK
  <2>2. d \in RawData  BY <2>1, EmptyType DEF SameGroup, TypeInv, TypeOK
  <2> HIDE DEF d
  <2>3. AddChunk(d, r[2], x) \in RawData  BY <1>3, <2>1, <2>2, AddsType
  <2>4. QED  BY <1>4, <2>3, TrackAssumption
<1>6. /\ d.view = asked /\ d.group = group /\ DOMAIN d.chunks = ChunksOf(asked) \ Missing
      /\ \A c \in DOMAIN d.chunks : d.chunks[c] \in {asked, Gap}
  <2>1. CASE SameGroup(r)
    <3>1. raw # None /\ raw.group = group /\ d = raw  BY <1>1, <2>1 DEF SameGroup
    <3>2. Holds(asked, ChunksOf(asked) \ Missing)  BY <3>1 DEF LoadingInv
    <3>3. QED  BY <3>1, <3>2 DEF Holds
  <2>2. CASE ~SameGroup(r)
    <3>1. d.view = asked /\ d.group = group /\ DOMAIN d.chunks = {}
      BY <1>1, <2>2 DEF Empty
    <3>2. Missing = ChunksOf(asked)
      BY <1>1, <2>2 DEF LoadingInv, SameGroup, Holds
    <3>3. QED  BY <3>1, <3>2
  <2>3. QED  BY <2>1, <2>2
<1> HIDE DEF d
<1>7. r[2] \notin DOMAIN d.chunks  BY <1>2, <1>6
<1>8. QED  BY <1>3, <1>4, <1>5, <1>6, <1>7, Adds

LEMMA ProcessWhole ==
    ASSUME TypeInv, RequestInv, WholeInv, NEW r \in Ids, Process(r)
    PROVE  WholeInv'
<1>1. /\ phase = "poll" /\ phase' = "poll" /\ Resolved(r) /\ raw' = Stored(r)
      /\ future' = [future EXCEPT ![r] = "none"] /\ stop' = stop \ {r}
      /\ events' = events \cup {r}
      /\ UNCHANGED <<asked, queue, pending, cancelled, group, wanted, orphaned>>
  BY DEF Process, Reported, user, item, history
<1>2. Open /\ InFlight(r)  BY <1>1 DEF Open, Resolved, InFlight
<1>3. \A s \in Ids : InFlight(s)' => InFlight(s) /\ s # r
  BY <1>1 DEF InFlight, TypeInv, TypeOK
<1>4. r \in pending \ events  BY <1>2 DEF RequestInv, ItemAwaitsItsRequests
<1>5. ShownInv'
  <2>1. SUFFICES ASSUME queue = None, ~orphaned PROVE LoadingInv'
    BY <1>1, <1>4 DEF ShownInv
  <2>2. LoadingInv  BY <1>2, <1>4, <2>1 DEF WholeInv, ShownInv
  <2>3. r \notin stop /\ wanted[r] = asked /\ r[1] = group /\ r[2] \in ChunksOf(asked)
    BY <1>2, <1>4, <2>2 DEF LoadingInv
  <2>4. future[r] # "Cancelled"
    BY <1>1, <1>2, <2>3 DEF WholeInv, CancelledOnDemand, Resolved
  <2>5. Missing' = Missing \ {r[2]}
    <3>1. r = <<group, r[2]>>  BY <2>3 DEF Ids
    <3>2. \A c : <<group, c>> = r <=> c = r[2]  BY <3>1
    <3>3. QED  BY <1>1, <3>2 DEF Missing
  <2>6. ChunksOf(asked) \ (Missing \ {r[2]}) = (ChunksOf(asked) \ Missing) \cup {r[2]}
    BY <2>3
  <2>7. raw'.group = group' /\ Holds(asked, ChunksOf(asked) \ Missing)'
    BY <1>1, <1>4, <2>2, <2>3, <2>4, <2>5, <2>6, StoresWhole DEF Holds
  <2>8. \A s \in Ids : InFlight(s)' => s \notin stop' /\ wanted'[s] = asked'
    BY <1>1, <1>3, <2>2 DEF LoadingInv
  <2>9. QED  BY <1>1, <2>2, <2>7, <2>8 DEF LoadingInv
<1>6. DeferredInv'  BY <1>1, <1>2 DEF WholeInv, DeferredInv
<1>7. CancelledOnDemand'
  BY <1>1, <1>2 DEF WholeInv, CancelledOnDemand, TypeInv, TypeOK
<1>8. QED  BY <1>5, <1>6, <1>7 DEF WholeInv

LEMMA UpdateWhole ==
    ASSUME TypeInv, RequestInv, MixInv, WholeInv, Update
    PROVE  WholeInv'
<1>1. /\ phase = "update" /\ phase' = "render"
      /\ UNCHANGED <<asked, cancelled, group, events, raw, orphaned>>
  BY DEF Update, user, history
<1>2. Open  BY <1>1 DEF Open
<1>3. CASE state = "Idle" /\ queue # None
  <2>1. /\ queue.view \in Views /\ queue.group \in Groups /\ queue.group = group
        /\ queue.view = asked /\ Fetch(queue.view, queue.group)
    BY <1>2, <1>3 DEF TypeInv, TypeOK, Deferrals, RequestInv, QueueIsLatest, Update,
                      WholeInv, DeferredInv
  <2>2. (raw # None => raw.group # group)'
    <3>1. SUFFICES ASSUME raw # None, raw.group = group PROVE FALSE  BY <1>1
    <3>2. Young(group)  BY <1>2, <3>1 DEF MixInv, AgeInv
    <3>3. group \in Groups  BY DEF TypeInv, TypeOK
    <3>4. Age(group) = 0  BY <3>3, Ages
    <3>5. QED  BY <1>3, <3>2, <3>4 DEF Young
  <2>3. QED  BY <1>1, <1>2, <1>3, <2>1, <2>2, FetchWhole
<1>4. CASE ~(state = "Idle" /\ queue # None)
  <2>1. UNCHANGED <<future, wanted, stop, pending, queue>>  BY <1>4 DEF Update
  <2>2. ShownInv'
    <3>1. ShownInv  BY <1>2 DEF WholeInv
    <3>2. QED  BY <1>1, <2>1, <3>1, SameShown DEF InFlight
  <2>3. DeferredInv'
    BY <1>1, <1>2, <1>4, <2>1 DEF WholeInv, DeferredInv, RequestInv, ItemAwaitsItsRequests,
                                  TypeInv, TypeOK
  <2>4. CancelledOnDemand'  BY <1>2, <2>1 DEF WholeInv, CancelledOnDemand
  <2>5. QED  BY <2>2, <2>3, <2>4 DEF WholeInv
<1>5. QED  BY <1>3, <1>4

LEMMA RenderWhole ==
    ASSUME TypeInv, RequestInv, MixInv, WholeInv, NoWrap, Request \/ Defer \/ Release \/ Draw
    PROVE  WholeInv'
<1>1. Rendered  BY DEF Request, Defer, Release, Draw
<1>2. /\ Open /\ phase = "render" /\ phase' = "events"
      /\ asked' = IF settled THEN view ELSE asked
      /\ UNCHANGED <<view, events>>
  BY <1>1, RenderedAsks DEF Rendered
<1>3. ShownInv /\ DeferredInv /\ CancelledOnDemand  BY <1>2 DEF WholeInv
<1>4. CASE Request
  <2>1. /\ IsRequestDataNeeded /\ state = "Idle" /\ Fetch(view, NextGroup)
        /\ group' = NextGroup /\ UNCHANGED cancelled
        /\ raw' = IF MissesData THEN None ELSE raw
    BY <1>4 DEF Request
  <2>2. view = asked' /\ view \in Views /\ NextGroup \in Groups
    BY <1>2, <2>1, GroupWraps DEF IsRequestDataNeeded, TypeInv, TypeOK
  <2>3. (raw # None => raw.group # group)'
    <3>1. SUFFICES ASSUME raw' # None PROVE raw'.group # group'  OBVIOUS
    <3>2. ~MissesData /\ raw' = raw /\ raw # None  BY <2>1, <3>1
    <3>3. PICK g \in Groups : g = raw.group /\ Young(g)
      BY <1>2, <3>2 DEF MixInv, AgeInv, TypeInv, TypeOK, RawData
    <3>4. QED  BY <1>1, <2>1, <3>2, <3>3, Overtaken
  <2>4. QED  BY <1>2, <2>1, <2>2, <2>3, FetchWhole
<1>5. CASE Defer
  <2>1. /\ IsRequestDataNeeded /\ queue' = Deferred /\ CancelPending
        /\ UNCHANGED <<pending, future>>
    BY <1>5 DEF Defer
  <2>2. queue' # None
    <3>1. Deferred \in Deferrals
      BY GroupWraps DEF Deferred, Deferrals, TypeInv, TypeOK
    <3>2. QED  BY <2>1, <3>1, TrackAssumption
  <2>3. queue'.view = asked'  BY <1>2, <2>1 DEF Deferred, IsRequestDataNeeded
  <2>4. CancelledOnDemand'  BY <1>3, <2>1 DEF CancelledOnDemand, CancelPending
  <2>5. QED  BY <1>2, <2>2, <2>3, <2>4 DEF WholeInv, ShownInv, DeferredInv
<1>6. CASE Release
  <2>1. /\ raw' = None /\ queue' = None /\ CancelPending
        /\ orphaned' = (orphaned \/ pending # {})
        /\ UNCHANGED <<pending, future>>
    BY <1>6 DEF Release
  <2>2. CancelledOnDemand'  BY <1>3, <2>1 DEF CancelledOnDemand, CancelPending
  <2>3. ShownInv'  BY <2>1, Zenon DEF ShownInv
  <2>4. QED  BY <2>1, <2>2, <2>3 DEF WholeInv, DeferredInv
<1>7. CASE Draw
  <2>1. /\ ~IsRequestDataNeeded /\ (near \/ (raw = None /\ pending = {}))
        /\ UNCHANGED <<queue, pending, cancelled, group, future, stop, wanted, raw, orphaned>>
    BY <1>7 DEF Draw, item
  <2>2. CancelledOnDemand'  BY <1>3, <2>1 DEF CancelledOnDemand
  <2>3. CASE near
    <3>1. asked' = asked  BY <1>2, <2>1, <2>3 DEF IsRequestDataNeeded
    <3>2. ShownInv'  BY <1>2, <1>3, <2>1, <3>1, SameShown DEF InFlight
    <3>3. DeferredInv'  BY <1>2, <1>3, <2>1, <3>1 DEF DeferredInv
    <3>4. QED  BY <2>2, <3>2, <3>3 DEF WholeInv
  <2>4. CASE raw = None /\ pending = {}
    <3>1. queue = None  BY <1>2, <1>3, <2>4 DEF DeferredInv
    <3>2. QED  BY <2>1, <2>2, <2>4, <3>1 DEF WholeInv, ShownInv, DeferredInv
  <2>5. QED  BY <2>1, <2>3, <2>4
<1>8. QED  BY <1>4, <1>5, <1>6, <1>7

LEMMA WholeNext ==
    ASSUME TypeInv, RequestInv, MixInv, WholeInv, NoWrap, [Next]_vars
    PROVE  WholeInv'
<1> DEFINE Still == UNCHANGED <<asked, queue, pending, cancelled, group, events, raw, orphaned>>
<1>1. ASSUME Still, Open' => Open, Open' => CancelledOnDemand',
             phase' = "render" => phase = "render",
             \A r \in Ids : InFlight(r)' =>
                 InFlight(r) /\ wanted'[r] = wanted[r] /\ (r \in stop' => r \in stop)
      PROVE  WholeInv'
  <2>1. SUFFICES ASSUME Open' PROVE ShownInv' /\ DeferredInv'  BY <1>1 DEF WholeInv
  <2>2. ShownInv /\ DeferredInv  BY <1>1, <2>1 DEF WholeInv
  <2>3. ShownInv'  BY <1>1, <2>2, SameShown
  <2>4. DeferredInv'  BY <1>1, <2>2 DEF DeferredInv
  <2>5. QED  BY <2>3, <2>4
<1>2. CASE (\E v \in Views : MoveView(v)) \/ Scroll \/ TimerExpires \/ Polled
  <2>1. Still /\ UNCHANGED <<future, stop, wanted>> /\ (Open' => Open)
        /\ (phase' = "render" => phase = "render")
    BY <1>2 DEF MoveView, Scroll, TimerExpires, Polled, item, provider, history, user, Open
  <2>2. Open' => CancelledOnDemand'  BY <2>1 DEF WholeInv, CancelledOnDemand
  <2>3. QED  BY <1>1, <2>1, <2>2 DEF InFlight
<1>3. CASE FreeRequests
  <2>1. /\ Still /\ phase' = phase /\ future' = [r \in Ids |-> "none"]
    BY <1>3 DEF FreeRequests, item, user
  <2>2. CancelledOnDemand' /\ \A r \in Ids : ~InFlight(r)'
    BY <2>1 DEF CancelledOnDemand, InFlight
  <2>3. QED  BY <1>1, <2>1, <2>2 DEF Open
<1>4. ASSUME NEW r \in Ids, Finish(r) PROVE WholeInv'
  <2>1. PICK res \in {"Success", "Failed"} \cup (IF r \in stop THEN {"Cancelled"} ELSE {}) :
            future' = [future EXCEPT ![r] = res]
    BY <1>4 DEF Finish
  <2>2. future[r] = "working" /\ Still /\ UNCHANGED <<phase, stop, wanted>>
    BY <1>4 DEF Finish, item, user, history
  <2>3. res = "Cancelled" => r \in stop  OBVIOUS
  <2>4. \A s \in Ids : InFlight(s)' => InFlight(s)
    BY <2>1, <2>2 DEF InFlight, TypeInv, TypeOK
  <2>5. Open => CancelledOnDemand'
    BY <2>1, <2>2, <2>3 DEF WholeInv, CancelledOnDemand, TypeInv, TypeOK
  <2>6. QED  BY <1>1, <2>2, <2>4, <2>5 DEF Open
<1>5. CASE Close  BY <1>5 DEF Close, WholeInv, Open
<1>6. CASE Cleanup
  <2>1. cleanup # "none" /\ UNCHANGED phase
    BY <1>6 DEF Cleanup, CancelDetached, FreeDetached, FreeController, item, provider, user
  <2>2. ~Open'  BY <2>1 DEF RequestInv, CleanupAfterClose, Open
  <2>3. QED  BY <2>2 DEF WholeInv
<1>7. CASE UNCHANGED vars
  <2>1. Still /\ UNCHANGED <<phase, future, stop, wanted>>
    BY <1>7 DEF vars, item, provider, user, history
  <2>2. Open' => CancelledOnDemand'  BY <2>1 DEF WholeInv, CancelledOnDemand, Open
  <2>3. QED  BY <1>1, <2>1, <2>2 DEF InFlight, Open
<1>8. QED
  BY <1>2, <1>3, <1>4, <1>5, <1>6, <1>7, DispatchWhole, ProcessWhole, UpdateWhole, RenderWhole
  DEF Next, Frame

\* A near track that the item is done with has the whole data of what is looked at, without
\* holes and but for the chunks whose job has failed (RequestDataIfEmpty, CreateRawEventData),
\* unless ReleaseData has cancelled requests that nothing replaced: for any views, chunks and
\* number of groups, as long as the user has made fewer moves than there are groups.
THEOREM ReadyTracksAreWhole == NoWrap => (Spec => []ReadyIsWhole)
<1> SUFFICES ASSUME NoWrap PROVE Spec => []ReadyIsWhole  OBVIOUS
<1>1. Init => WholeInv  BY InitWhole
<1>2. TypeInv /\ RequestInv /\ MixInv /\ WholeInv /\ [Next]_vars => WholeInv'  BY WholeNext
<1>3. RequestInv /\ WholeInv => ReadyIsWhole
  <2>1. SUFFICES ASSUME RequestInv, WholeInv, Open, view = asked, state = "Idle", queue = None,
                        AllDataReady(raw), ~orphaned
                 PROVE  IsWhole(view)
    BY DEF ReadyIsWhole
  <2>2. pending = {} /\ raw # None  BY <2>1, IdleHasNone DEF AllDataReady
  <2>3. Holds(asked, ChunksOf(asked))  BY <2>1, <2>2 DEF WholeInv, ShownInv
  <2>4. QED  BY <2>1, <2>3 DEF Holds, IsWhole
<1>4. QED  BY <1>1, <1>2, <1>3, TypeCorrect, RequestsInductive, MixHolds, PTL DEF Spec

=============================================================================
