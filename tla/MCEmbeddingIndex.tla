-------------------------- MODULE MCEmbeddingIndex --------------------------
(***************************************************************************)
(* Two threads of one process and one of another.                          *)
(***************************************************************************)
EXTENDS EmbeddingIndex, TLC

CONSTANTS c1, c2, c3, x, y, a, b

MCProcessOf == c1 :> x @@ c2 :> x @@ c3 :> y

Symmetry == Permutations({c1, c2}) \cup Permutations(Tables) \cup Permutations(Columns)
              \cup Permutations(Models)
=============================================================================
