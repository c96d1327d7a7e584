---------------------------- MODULE MCJobSystem ----------------------------
(* Two workers and three futures: one job can wait while both workers run. *)
EXTENDS JobSystem

MCResults == {"Success", "Cancelled"}
=============================================================================
