-------------------------- MODULE MCTrackRequests --------------------------
(* Two intervals, one of them cut into two chunks. *)
EXTENDS TrackRequests

CONSTANTS wide, narrow

MCChunkCount == [v \in Views |-> IF v = wide THEN 2 ELSE 1]
=============================================================================
