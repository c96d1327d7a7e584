------------------------- MODULE MCProfilerSession -------------------------
(***************************************************************************)
(* Small instances of ProfilerSession.                                     *)
(***************************************************************************)
EXTENDS ProfilerSession
=============================================================================
