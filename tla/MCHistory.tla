----------------------------- MODULE MCHistory -----------------------------
(***************************************************************************)
(* History for TLC.                                                        *)
(***************************************************************************)
EXTENDS History, TLC

\* Writers are alike, and so are readers.
Symmetry == Permutations(Writers) \cup Permutations(Readers)
=============================================================================
