---------------------------- MODULE MCQueryPath ----------------------------
(***************************************************************************)
(* QueryPath for TLC: the first change of the database is one of its rows, *)
(* the second drops its tables.                                            *)
(***************************************************************************)
EXTENDS QueryPath

CONSTANT d0

MCDdl == [v \in Versions |-> IF v < 2 THEN d0 ELSE None]
=============================================================================
