--------------------------- MODULE MCSegmentCache ---------------------------
(***************************************************************************)
(* Small instances of SegmentCache: two segments of two ticks, events      *)
(* inside one segment, across both, and beyond the end of the track.       *)
(***************************************************************************)
EXTENDS SegmentCache

Ev(a, b)  == [start |-> a, end |-> b]

MCEvents   == { Ev(0, 1), Ev(1, 3) }
MCRequests == { Ev(0, 2), Ev(1, 4), Ev(2, 4) }

\* Nothing in the first segment, and an end the track does not know of.
MCStrayEvents == { Ev(3, 3), Ev(3, 9) }

\* One event without duration, alone in its segment.
MCInstant == { Ev(0, 1), Ev(3, 3) }
=============================================================================
