--------------------------- MODULE MCResultCache ---------------------------
(***************************************************************************)
(* ResultCache for TLC: what its small sets of callers and keys have in    *)
(* common.                                                                 *)
(***************************************************************************)
EXTENDS ResultCache, TLC

\* Callers are alike, and so are keys and values: nothing compares them.
Symmetry == Permutations(Threads) \cup Permutations(Keys) \cup Permutations(Values)
=============================================================================
