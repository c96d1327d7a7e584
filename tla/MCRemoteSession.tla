-------------------------- MODULE MCRemoteSession --------------------------
(* A session of four operations, and two questions of the server. *)
EXTENDS RemoteSession
=============================================================================
