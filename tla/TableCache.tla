----------------------------- MODULE TableCache -----------------------------
(***************************************************************************)
(* The merged table that a TableProcessor keeps between two requests of    *)
(* one kind of table.  A request names tracks and a time window and is     *)
(* written as statements: the window of a long track is cut into slices,   *)
(* and a slice the histogram has nothing for is left out.  Only what is    *)
(* left is compared, saved and run.  The processor keeps the rows of       *)
(* tracks that stay, queries all of them again, merges, and derives the    *)
(* filtered, grouped and sorted view that the answer shows.  A timer drops *)
(* the rows when nobody asks.                                              *)
(*                                                                         *)
(* Fetching jobs hold the table mutex of the trace; exports hold nothing.  *)
(* IsCurrentQuery and SaveCurrentQuery run before the processor's mutex is *)
(* taken, and ExportToCSV reads the table after it was released.           *)
(*                                                                         *)
(* An answer stands for all its pages and for the count.  A row is an      *)
(* event or a sample: its queue track, its stream track, its times.  One   *)
(* database, whose times are relative to its start.  Filters are evaluated *)
(* by one thread (fewer than 10 000 rows).                                 *)
(***************************************************************************)
EXTENDS Integers, FiniteSets

CONSTANTS
    Clients,    \* jobs that may have a request in flight
    Exporters,  \* those of them that export
    Rows,       \* [queue, stream, start, end]
    Asks,       \* what each of them may ask: [tracks, window, filter, group, sort]
    Large,      \* tracks of 50 000 records and more, those of memory operations excepted
    Threads,    \* of the machine
    Bucket,     \* length of a bucket of the histogram
    Filters,    \* filter expressions
    Broken,     \* filters that raise an error on a row
    Passes,     \* the rows each filter lets through
    BadGroups,  \* group commands that name no column
    HasOps,     \* the rows are events: the sample table has no operation
    MayFail,    \* statements may fail or be interrupted
    None

Requests == UNION { Asks[c] : c \in Clients }
Sorts(grouped) == { q.sort : q \in { p \in Requests : (p.group # None) = grouped } }

ASSUME TableAssumption ==
    /\ Exporters \subseteq Clients
    /\ \A q \in Requests :
          /\ q.filter \in Filters \cup {None}
          /\ q.window \in [from : Nat, to : Nat] /\ q.window.from <= q.window.to
    /\ \A r \in Rows : r.start \in Nat /\ r.end \in Nat /\ r.start <= r.end
    /\ Threads \in Nat /\ Bucket \in Nat \ {0}
    /\ None \notin Filters /\ None \notin BadGroups
    /\ Broken \subseteq Filters
    /\ Passes \in [Filters -> SUBSET Rows]
    /\ HasOps \in BOOLEAN /\ MayFail \in BOOLEAN

VARIABLES
    \* --- TableProcessor
    tracks,    \* m_tracks
    current,   \* m_current_queries: the statements of the request saved last
    merged,    \* rows of m_merged_table
    twice,     \* those of them it holds more than once
    view,      \* what is derived from them, see Init
    timer, acting,
    \* --- requests
    pc, req, updated, answer,
    \* --- history
    filled,    \* tracks and window of the last request that worked on the table
    overlapped,\* clients another one or the timer got in the way of
    dirty      \* the table may not be the one of m_tracks

shared  == <<tracks, current, merged, twice, view>>
clock   == <<timer, acting>>
clients == <<pc, req, updated, answer>>
history == <<filled, overlapped, dirty>>
vars    == <<shared, clock, clients, history>>

Nothing == [tracks |-> {}, window |-> None]
NoAnswer == [ok |-> FALSE, ran |-> FALSE, exact |-> FALSE, rows |-> {}, twice |-> {}, order |-> None]

Init ==
    /\ tracks = {} /\ current = {} /\ merged = {} /\ twice = {}
    /\ view = [filter |-> None, lookup |-> {},             \* m_last_filter_str, m_filter_lookup
               group |-> None, agg |-> {}, aggOrder |-> None, \* m_last_group_str, m_aggregation
               order |-> None, sort |-> None]   \* the sort array, and m_sort_column
    /\ timer = "off" /\ acting = FALSE
    /\ pc = [c \in Clients |-> "idle"]
    /\ req = [c \in Clients |-> None]
    /\ updated = [c \in Clients |-> FALSE]
    /\ answer = [c \in Clients |-> NoAnswer]
    /\ filled = Nothing /\ overlapped = {} /\ dirty = FALSE

-----------------------------------------------------------------------------
(* BuildCompoundQuery: the statements of a request.                        *)

IsOn(r, t) == r.queue = t \/ r.stream = t

\* The buckets a row is counted in: a sample in the one of its time, an event in those it
\* spends time in.
Buckets(r) ==
    IF ~HasOps THEN {r.start \div Bucket}
    ELSE IF r.start < r.end THEN (r.start \div Bucket) .. ((r.end - 1) \div Bucket)
    ELSE {}

IsEmptyRange(t, from, to) ==
    \A r \in Rows : IsOn(r, t) => Buckets(r) \cap ((from \div Bucket) .. (to \div Bucket)) = {}

\* A long track is read by as many statements as there are threads for each track.
Divider(q, t) ==
    IF t \in Large /\ Threads > Cardinality(q.tracks) THEN Threads \div Cardinality(q.tracks) ELSE 1

Slice(q, t, j) ==
    LET step == (q.window.to - q.window.from) \div Divider(q, t) IN
    [track |-> t, from |-> q.window.from + step * j, to |-> q.window.from + step * j + step,
     last |-> j = Divider(q, t) - 1]

Slices(q) == UNION { { Slice(q, t, j) : j \in 0 .. Divider(q, t) - 1 } : t \in q.tracks }

Statements(q) == { s \in Slices(q) : ~IsEmptyRange(s.track, s.from, s.to) }

\* The tracks of the statements: not all those of the request.
Tracks(q) == { s.track : s \in Statements(q) }

\* What a statement finds, and what all of a request do.
Found(s) ==
    { r \in Rows : IsOn(r, s.track) /\ r.end >= s.from /\ (r.start < s.to \/ (s.last /\ r.start = s.to)) }

Yield(q) == UNION { Found(s) : s \in Statements(q) }

\* PackedTable::RemoveRowsForSetOfTracks.
Goes(r, selected, removed) ==
    \/ r.queue \in removed /\ r.stream \notin selected
    \/ r.stream \in removed /\ r.queue \notin selected

Kept(R, selected, removed) == { r \in R : ~Goes(r, selected, removed) }

-----------------------------------------------------------------------------
(* ProcessCompoundQuery.                                                   *)

\* A table that was built again has no filter, group or sort yet.
Invalidated(v, again) ==
    IF again THEN [v EXCEPT !.filter = None, !.group = None, !.sort = None] ELSE v

\* A group command that names no column of the table yields no groups.
Aggregated(R, group) == IF group \in BadGroups THEN {} ELSE R

\* A change of the filter makes the groups stale.
Regroups(v, q) == q.filter # v.filter

Filtering(v, R, q) ==
    [v EXCEPT !.filter = q.filter,
              !.group  = IF Regroups(v, q) THEN None ELSE @,
              !.lookup = IF q.filter \in {None} \cup Broken /\ Regroups(v, q) THEN {}
                         ELSE IF Regroups(v, q) THEN R \cap Passes[q.filter] ELSE @]

\* An evaluation that failed shows every row; the filter is remembered all the same.
IsFiltered(v, q) == q.filter # None /\ (Regroups(v, q) => q.filter \notin Broken)

Grouping(v, S, q) ==
    IF q.group = None THEN [v EXCEPT !.group = None, !.agg = {}, !.aggOrder = None]
    ELSE IF q.group = v.group THEN v
    ELSE [v EXCEPT !.group = q.group, !.agg = Aggregated(S, q.group), !.aggOrder = None,
                    !.sort = None]

Sorting(v, q) ==
    IF q.sort \in {None, v.sort} THEN v
    ELSE IF q.group # None THEN [v EXCEPT !.aggOrder = q.sort, !.sort = q.sort]
    ELSE [v EXCEPT !.order = q.sort, !.sort = q.sort]

\* The rows a request selects, and the view it leaves behind.
Selected(v, R, q)  == IF IsFiltered(v, q) THEN Filtering(v, R, q).lookup ELSE R
Processed(v, R, q) == Sorting(Grouping(Filtering(v, R, q), Selected(v, R, q), q), q)

\* What is shown, from the view before and after.
Shown(v, R, q) ==
    LET new == Processed(v, R, q) IN
    IF q.group # None THEN [rows |-> new.agg, order |-> new.aggOrder]
    ELSE [rows |-> Selected(v, R, q), order |-> new.order]

-----------------------------------------------------------------------------
(* A request: QueryManager::ExecuteQuery.                                  *)

Waiting(c)  == pc[c] \in {"checked", "saved"}
LockFree    == \A c \in Clients : pc[c] # "running"
HoldsTable(c) == c \notin Exporters /\ pc[c] # "idle"

\* Statements whose track has one in the request before.
Compared(q) == { s \in Statements(q) : \E p \in current : p.track = s.track }

\* Mutant: a new window over the same tracks counts as current.
VerdictsMutant(q) == {TRUE}

\* TableProcessor::IsCurrentQuery looks for the text of one statement, of a track both have;
\* which one is up to the order of an unordered map.
Verdicts(q) == IF Compared(q) = {} THEN {TRUE} ELSE { (s \in current) : s \in Compared(q) }

\* A job begins: fetches hold the table mutex.
Starts(c, q) ==
    /\ pc[c] = "idle" /\ (c \in Exporters \/ \A d \in Clients : ~HoldsTable(d))
    /\ req' = [req EXCEPT ![c] = q]

\* IsCurrentQuery, without the mutex.
Check(c) ==
    /\ \E q \in Asks[c] :
        /\ Starts(c, q) /\ Statements(q) # {}
        /\ \E v \in Verdicts(q) : updated' = [updated EXCEPT ![c] = ~v]
    /\ pc' = [pc EXCEPT ![c] = "checked"]
    /\ overlapped' = LET others == { d \in Clients : Waiting(d) } IN
                     IF others = {} THEN overlapped ELSE overlapped \cup others \cup {c}
    /\ UNCHANGED <<shared, clock, answer, filled, dirty>>

\* A request without statements does not reach the processor: a fetch answers that there
\* are no rows, an export fails (NotSupported).
Refuse(c) ==
    /\ \E q \in Asks[c] : Starts(c, q) /\ Statements(q) = {}
    /\ answer' = [answer EXCEPT ![c] =
          IF c \in Exporters THEN NoAnswer ELSE [NoAnswer EXCEPT !.ok = TRUE, !.ran = TRUE, !.exact = TRUE]]
    /\ pc' = [pc EXCEPT ![c] = "ending"]
    /\ UNCHANGED <<shared, clock, updated, history>>

\* SaveCurrentQuery, without the mutex; then the timer is paused.
Save(c) ==
    /\ pc[c] = "checked"
    /\ current' = Statements(req[c])
    /\ timer' = "paused"
    /\ pc' = [pc EXCEPT ![c] = "saved"]
    /\ UNCHANGED <<tracks, merged, twice, view, acting, req, updated, answer, history>>

\* The table is about to change under exports that have not written yet.
Disturbs(c) == overlapped \cup { d \in Clients \ {c} : pc[d] \in {"answered", "writing"} }

\* Rows of another window stay when no track is in both requests.
OtherWindow(q) == Tracks(filled) \cap Tracks(q) = {} /\ filled.window # q.window

Works(c) == filled' = [tracks |-> req[c].tracks, window |-> req[c].window]

Answers(c, v, R, ran) ==
    answer' = [answer EXCEPT ![c] =
        [ok |-> TRUE, ran |-> ran, exact |-> ~dirty', twice |-> twice',
         rows |-> Shown(v, R, req[c]).rows, order |-> Shown(v, R, req[c]).order]]

\* The rows and the tracks are the ones that are asked for.
Reuse(c) ==
    /\ pc[c] = "saved" /\ LockFree
    /\ ~updated[c] /\ tracks = Tracks(req[c])
    /\ view' = Processed(view, merged, req[c])
    /\ Works(c)
    /\ dirty' = (dirty \/ c \in overlapped)
    /\ overlapped' = Disturbs(c)
    /\ pc' = [pc EXCEPT ![c] = "answered"]
    /\ UNCHANGED <<tracks, current, merged, twice, clock, req, updated>>
    /\ Answers(c, view, merged, TRUE)

\* Otherwise rows that nobody asks for go, and the statements of all tracks run,
\* with the mutex held.
Begin(c) ==
    LET T    == Tracks(req[c])
        kept == IF updated[c] THEN {} ELSE Kept(merged, T, tracks \ T)
    IN  /\ pc[c] = "saved" /\ LockFree
        /\ updated[c] \/ tracks # T
        /\ merged' = kept
        /\ twice' = twice \cap kept
        /\ Works(c)
        /\ dirty' = (c \in overlapped \/ (kept # {} /\ (dirty \/ OtherWindow(req[c]))))
        /\ overlapped' = Disturbs(c)
        /\ pc' = [pc EXCEPT ![c] = "running"]
        /\ UNCHANGED <<tracks, current, view, clock, req, updated, answer>>

Rebuilt == Invalidated([view EXCEPT !.order = None], TRUE)

\* Merge, RemoveDuplicates unless the first row has no operation, and the view.  A
\* table without rows is a success that leaves nothing current.
MergeIn(c, new, ran) ==
    /\ merged' = merged \cup new
    /\ twice' = IF HasOps THEN {} ELSE twice \cup (merged \cap new)
    /\ tracks' = IF merged' = {} THEN {} ELSE Tracks(req[c])
    /\ view' = IF merged' = {} THEN [view EXCEPT !.order = None]
               ELSE Processed(Rebuilt, merged', req[c])
    /\ overlapped' = Disturbs(c)
    /\ pc' = [pc EXCEPT ![c] = "answered"]
    /\ UNCHANGED <<current, clock, req, updated, filled>>
    /\ Answers(c, Rebuilt, merged', ran)

Finish(c) ==
    /\ pc[c] = "running"
    /\ dirty' = dirty
    /\ MergeIn(c, Yield(req[c]), TRUE)

\* A statement that sqlite3_interrupt has stopped ends with Success and some rows.
FinishInterrupted(c) ==
    /\ pc[c] = "running" /\ MayFail
    /\ \E some \in SUBSET Yield(req[c]) :
        /\ some # Yield(req[c])
        /\ dirty' = TRUE
        /\ MergeIn(c, some, FALSE)

\* A statement that failed, or refused a row: the rows of other requests stay.
FinishFailed(c) ==
    /\ pc[c] = "running" /\ MayFail
    /\ tracks' = {}
    /\ view' = [view EXCEPT !.order = None]
    /\ dirty' = (merged # {})
    /\ overlapped' = Disturbs(c)
    /\ pc' = [pc EXCEPT ![c] = "answered"]
    /\ UNCHANGED <<current, merged, twice, clock, req, updated, answer, filled>>

\* Mutant: a request that failed returns before it starts the timer again.
RestartsMutant(c) == answer[c].ok

\* Every request that paused the timer.
Restarts(c) == pc[c] = "answered"

\* The timer counts from here, and an export goes on to ExportToCSV.
Restart(c) ==
    /\ pc[c] = "answered"
    /\ timer' = IF Restarts(c) THEN "armed" ELSE timer
    /\ pc' = [pc EXCEPT ![c] = IF c \in Exporters /\ answer[c].ok THEN "writing" ELSE "ending"]
    /\ UNCHANGED <<shared, acting, req, updated, answer, history>>

\* Nobody has changed the table since, and a request that found no rows has not left the
\* groups of the one before.
StillOwn(c) == c \notin overlapped /\ (tracks # {} \/ view.group = None)

\* ExportToCSV, without the mutex: what the table and its view are by now.
Write(c) ==
    /\ pc[c] = "writing"
    /\ answer' = [answer EXCEPT
          ![c].exact = @ /\ StillOwn(c),
          ![c].rows  = IF view.group # None THEN view.agg
                       ELSE IF view.filter # None THEN merged \cap view.lookup ELSE merged,
          ![c].order = IF view.group # None THEN view.aggOrder ELSE view.order,
          ![c].twice = twice]
    /\ pc' = [pc EXCEPT ![c] = "ending"]
    /\ UNCHANGED <<shared, clock, req, updated, history>>

\* The promise is set and the answer goes to the caller.
End(c) ==
    /\ pc[c] = "ending"
    /\ pc' = [pc EXCEPT ![c] = "idle"]
    /\ req' = [req EXCEPT ![c] = None]
    /\ updated' = [updated EXCEPT ![c] = FALSE]
    /\ answer' = [answer EXCEPT ![c] = NoAnswer]
    /\ overlapped' = overlapped \ {c}
    /\ UNCHANGED <<shared, clock, filled, dirty>>

-----------------------------------------------------------------------------
(* RestartableTimer: it leaves its own mutex before it takes the table's.  *)

Expire ==
    /\ timer = "armed" /\ ~acting
    /\ timer' = "off" /\ acting' = TRUE
    /\ UNCHANGED <<shared, clients, history>>

\* Mutant: the rows go and the tracks stay.
ForgottenMutant == tracks

\* m_tracks after the timer has acted.
Forgotten == {}

Drop ==
    /\ acting /\ LockFree
    /\ merged' = {} /\ twice' = {}
    /\ tracks' = Forgotten
    /\ acting' = FALSE
    /\ dirty' = FALSE
    /\ overlapped' = overlapped \cup { d \in Clients : pc[d] \in {"answered", "writing"} }
    /\ UNCHANGED <<current, view, timer, clients, filled>>

ClientStep(c) ==
    \/ Save(c) \/ Reuse(c) \/ Begin(c)
    \/ Finish(c) \/ FinishInterrupted(c) \/ FinishFailed(c)
    \/ Restart(c) \/ Write(c) \/ End(c)

Next == \/ \E c \in Clients : Check(c) \/ Refuse(c) \/ ClientStep(c)
        \/ Expire \/ Drop

Spec == Init /\ [][Next]_vars

\* Requests end, and a timer that is armed acts; nobody has to ask again.
FairSpec ==
    /\ Spec
    /\ \A c \in Clients : WF_vars(ClientStep(c))
    /\ WF_vars(Expire) /\ WF_vars(Drop)

-----------------------------------------------------------------------------
\* What a request asks for, whatever the processor remembers and however it is cut.
RowsOf(T, w)   == { r \in Rows : r.end >= w.from /\ r.start <= w.to /\ \E t \in T : IsOn(r, t) }
Filtered(R, f) == IF f = None THEN R ELSE R \cap Passes[f]
Asked(q)       == Aggregated(Filtered(RowsOf(q.tracks, q.window), q.filter), q.group)

\* The rows, each of them once, and their order are the ones that were asked for.
HasRows(a, q)  == a.rows = Asked(q) /\ a.twice = {}
HasOrder(a, q) == q.sort # None /\ a.rows # {} => a.order = q.sort

\* One memory of the sort command serves groups and rows: a sort of the groups by a column
\* that is also one of the rows is taken for a sort of the rows.
SortsAlone(q) == q.group = None => q.sort \notin Sorts(TRUE)

\* An answer is the one of a processor that remembers nothing, although rows are kept,
\* dropped by the timer, merged and filtered in the table of the requests before.  It
\* may not be when a request failed or was interrupted, when another request or the
\* timer came between its check and its answer, when a request moved to other
\* tracks and another window at once, or when an export found no rows under groups of
\* another: those are what dirty, overlapped and exact record.
AnswerIsExact ==
    \A c \in Clients :
        answer[c].ok /\ answer[c].exact /\ req[c].filter \notin Broken =>
            /\ HasRows(answer[c], req[c])
            /\ SortsAlone(req[c]) => HasOrder(answer[c], req[c])

\* Whatever has failed or overlapped, the filter's row numbers and the groups are
\* those of the rows that are in the table, never of a table before it.
ViewFollowsTable ==
    LockFree /\ tracks # {} /\ view.filter \notin Broken =>
        /\ view.filter # None => view.lookup = Filtered(merged, view.filter)
        /\ view.group # None => view.agg = Aggregated(Filtered(merged, view.filter), view.group)

\* When requests cease, the rows do not stay in memory.
IdleTableIsDropped ==
    (<>[](\A c \in Clients : pc[c] = "idle")) => <>[](merged = {})

\* Every answer to a request that was not itself interrupted has the rows, of the tracks
\* and of the window, that were asked for, in the order that was asked for.
EveryAnswerIsExact ==
    \A c \in Clients :
        answer[c].ran /\ req[c].filter \notin Broken =>
            HasRows(answer[c], req[c]) /\ HasOrder(answer[c], req[c])
=============================================================================
