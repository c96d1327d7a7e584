------------------------- MODULE MCSshConnections -------------------------
(* Connections, pointers and sockets are interchangeable. *)
EXTENDS SshConnections, TLC

Symmetry == Permutations(Conns) \cup Permutations(Pointers) \cup Permutations(Sockets)
=============================================================================
