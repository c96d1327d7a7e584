-------------------------- MODULE MCChainedQueries --------------------------
(* A job of three slices, and one of a query that fans out to three statements. *)
EXTENDS ChainedQueries

Slices == [queries |-> 3, subs |-> 0]
Table  == [queries |-> 1, subs |-> 3]

MCPlans == {Slices, Table}
=============================================================================
