------------------------------ MODULE Sorting ------------------------------
(***************************************************************************)
(* Sorting and filtering, by places: what a sort or a filter of the code   *)
(* leaves, in terms an order or a set of places is enough for.             *)
(***************************************************************************)
EXTENDS Integers, Sequences, FiniteSets

\* How many elements of S come before x; R is the set of pairs in order.
Rank(S, R, x) == Cardinality({y \in S : <<y, x>> \in R})

\* The elements of S in order.
Ordering(S, R) == [k \in 1 .. Cardinality(S) |-> CHOOSE x \in S : Rank(S, R, x) = k - 1]

Rising(S) == {p \in S \X S : p[1] < p[2]}

\* The elements of a sequence at some of its places.
Picked(s, places) ==
  LET at == Ordering(places, Rising(places)) IN [k \in DOMAIN at |-> s[at[k]]]

(***************************************************************************)
(* Best first: the stable sorts of resolve.rs and agent.rs.                *)
(***************************************************************************)

\* Mutant: of two places as good the later is ahead.
LaterFirst(scores, j) ==
  {i \in DOMAIN scores : scores[i] > scores[j] \/ (scores[i] = scores[j] /\ i > j)}

\* The places that go before j: by falling score, those with the same score
\* in order.
PlacesAhead(scores, j) ==
  {i \in DOMAIN scores : scores[i] > scores[j] \/ (scores[i] = scores[j] /\ i < j)}

Ranking(scores) ==
  [k \in DOMAIN scores |->
     CHOOSE j \in DOMAIN scores : Cardinality(PlacesAhead(scores, j)) = k - 1]

\* A sequence by rising keys, one for each place; those of one key in order.
SortedBy(s, keys) ==
  LET by == Ranking([i \in DOMAIN s |-> -keys[i]]) IN [k \in DOMAIN s |-> s[by[k]]]
=============================================================================
