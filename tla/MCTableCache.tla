---------------------------- MODULE MCTableCache ----------------------------
(* Two queue tracks and a stream track that shares rows with one of them.  Each *)
(* question about a request has the smallest traces and requests that raise it. *)
EXTENDS TableCache

CONSTANTS q1, q2, s1, fetch, export

Row(q, s, a, b)    == [queue |-> q, stream |-> s, start |-> a, end |-> b]
Window(a, b)       == [from |-> a, to |-> b]
Ask(T, w, f, g, s) == [tracks |-> T, window |-> w, filter |-> f, group |-> g, sort |-> s]

MCFilters == {"short", "bad"}
MCPasses  == [f \in MCFilters |-> { r \in Rows : r.queue = q2 }]

\* Windows that overlap: the first row is in both, the second one in the first of them, but
\* in a bucket of both.  Four threads cut q1 in halves: in the first window its first half is
\* empty, in the second one both find its row.
MCRows == { Row(q1, s1, 6, 10), Row(q2, None, 3, 4) }

w1 == Window(0, 8)
w2 == Window(5, 13)

Plain   == { Ask({s1}, w1, None, None, "start") }
Narrow  == { Ask({q1, q2}, w2, None, None, "start") }
Nowhere == { Ask({q2}, Window(9, 12), None, None, None) }
Grouped == { Ask({q1, q2}, w1, "bad", "name", None), Ask({q1, q2}, w1, "short", "name", "count"),
             Ask({q1, q2}, w1, None, "none", "count") }

MCAsks == [c \in Clients |-> IF c = export THEN Narrow ELSE Plain \cup Grouped \cup Nowhere]

\* One job, one window, and tracks that share no rows.
MCReselect == [c \in Clients |-> { Ask(T, w1, None, None, None) : T \in { {q1}, {q2}, {q1, q2} } }]

\* From a queue in one window to its stream in another, where the stream has another row.
MCScrollRows == { Row(q1, s1, 1, 3), Row(q2, s1, 9, 11) }
MCScroll == [c \in Clients |->
    { Ask({q1}, Window(0, 4), None, None, None), Ask({q1, s1}, Window(8, 12), None, None, None) }]

\* A counter whose last sample is at the end of the trace, cut by three threads.
MCLastSample == { Row(q1, None, t, t) : t \in 0 .. 8 }
MCWhole == [c \in Clients |-> { Ask({q1}, w1, None, None, None), Ask({q1}, Window(0, 6), None, None, None) }]

\* Groups and rows that are sorted by the same column.
MCByName == [c \in Clients |->
    { Ask({q1, q2}, w1, None, g, s) : g \in {None, "name"}, s \in {None, "name"} }]

\* An export of one track, a fetch of another.
MCTwoTracks == [c \in Clients |->
    { Ask({IF c = export THEN q1 ELSE q2}, w1, None, None, None) }]

\* An export of groups, then of a window between two rows of a bucket.
MCGap == [c \in Clients |->
    { Ask({q1}, w1, None, "name", None), Ask({q1}, Window(4, 5), None, None, None) }]
=============================================================================
