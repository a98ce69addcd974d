------------------------ MODULE EmbeddingIndexProofs ------------------------
(***************************************************************************)
(* Proofs about the embedding index, for any callers, processes, tables,   *)
(* columns and models: it is type-correct, an index never has vectors that *)
(* were stored under the names of two models, calls are ranked by one      *)
(* vector a column and none that was stored under another name, and a call *)
(* that has stored leaves the file warm for the next.                      *)
(*                                                                         *)
(* What a call has loaded and fetched is of its model, or of none, from    *)
(* the moment it names that model until it names another one, which is     *)
(* when it has nothing: Own.  An index is written from that, and ranked by *)
(* it.  That no column has two vectors, one with a name and one without,   *)
(* is because only columns without one are fetched: OneEach.  That the     *)
(* ranking is of the columns the call was about needs that these do not    *)
(* change after it was ranked: OpenCalls.                                  *)
(***************************************************************************)
EXTENDS EmbeddingIndex, TLAPS

\* The vectors of a call are of its model, if anybody said of which.
Own ==
  \A p \in Callers : \A v \in known[p] \cup fresh[p] : v.model \in {call[p].model, Unnamed}

\* No column of a table has two vectors.
IsOneEach(vectors) ==
  \A u, v \in vectors : u.table = v.table /\ u.column = v.column => u = v

OneEach ==
  /\ file \in Index => IsOneEach(file.vectors)
  /\ \A p \in Callers : IsOneEach(known[p] \cup fresh[p])

\* A call that is not ranked yet is not taken for one that is, and has fetched
\* nothing before it has loaded.
OpenCalls ==
  \A p \in Callers :
    /\ pc[p] \in {"inspect", "load", "query", "fetch"} => outcome[p] # "ranked"
    /\ pc[p] \in {"inspect", "load"} => fresh[p] = {}

\* What the ranking of a call is to be.
IsFullRanking(vectors, c) ==
  /\ vectors \subseteq [table : {c.table}, column : c.pool, model : {c.model, Unnamed}]
  /\ \A name \in c.pool : \E v \in vectors : v.column = name
  /\ \A u, v \in vectors : u.column = v.column => u = v

RankedInFull ==
  \A p \in Callers : outcome[p] = "ranked" => IsFullRanking(used[p], call[p])

IndexInv == TypeOK /\ Own /\ OneEach /\ OpenCalls /\ NoMixedModels /\ RankedInFull

(***************************************************************************)
(* Types.                                                                  *)
(***************************************************************************)

\* What a call takes from the file are vectors.
LEMMA UsableVectors ==
  ASSUME TypeOK, NEW m \in Models
  PROVE  Usable(m) \in SUBSET Vectors
<1>1. CASE file \in Index
  BY <1>1 DEF Usable, Index
<1>2. CASE file \notin Index
  BY <1>2 DEF Usable
<1> QED BY <1>1, <1>2

\* What a call writes is an index.
LEMMA MergedIndex ==
  ASSUME TypeOK, NEW p \in Callers
  PROVE  Merged(p) \in Index
BY DEF TypeOK, Merged, Index

LEMMA FilesStayTyped ==
  ASSUME TypeOK, NEW p \in Callers
  PROVE  /\ Written(p) \subseteq Index \cup {Missing, Torn} \cup Callers
         /\ Abandoned(p) \subseteq Index \cup {Missing, Torn} \cup Callers
BY MergedIndex DEF TypeOK, Written, Abandoned

\* What was left is an index of one model or of none, with a vector a column, if any.
LEMMA InheritedIndex ==
  ASSUME NEW C \in SUBSET Columns, NEW f \in Inherited(C)
  PROVE  /\ f \in Index \cup {Missing, Torn}
         /\ f \in Index => (\A v \in f.vectors : v.model = f.model) /\ IsOneEach(f.vectors)
<1>1. CASE f \in {Missing, Torn}
  BY <1>1, FilesAssumption
<1>2. CASE f \notin {Missing, Torn}
  <2>1. PICK m \in Models \cup {Unnamed}, T \in SUBSET Tables :
          f = [model |-> m, vectors |-> [table : T, column : C, model : {m}]]
    BY <1>2 DEF Inherited
  <2>2. [table : T, column : C, model : {m}] \subseteq Vectors
    BY DEF Vectors
  <2>3. IsOneEach([table : T, column : C, model : {m}])
    BY DEF IsOneEach
  <2> QED BY <2>1, <2>2, <2>3 DEF Index
<1> QED BY <1>1, <1>2

\* The initial states are type-correct.
LEMMA TypesHoldInitially == Init => TypeOK
<1> SUFFICES ASSUME Init PROVE TypeOK
  OBVIOUS
<1>1. /\ columns \in [Tables -> SUBSET Columns]
      /\ file \in Index \cup {Missing, Torn} \cup Callers
  <2>1. PICK C \in SUBSET Columns :
          columns = [t \in Tables |-> C] /\ file \in Inherited(C)
    BY DEF Init
  <2> QED BY <2>1, InheritedIndex
<1>2. call \in [Callers -> [table : Tables, model : Models, pool : SUBSET Columns]]
  <2>1. PICK t \in Tables, m \in Models :
          call = [p \in Callers |-> [table |-> t, model |-> m, pool |-> {}]]
    BY DEF Init
  <2> QED BY <2>1
<1> QED BY <1>1, <1>2, BoundsAssumption DEF Init, TypeOK

\* Every step preserves the types.
LEMMA TypesPreserved == TypeOK /\ [Next]_vars => TypeOK'
<1> SUFFICES ASSUME TypeOK, [Next]_vars PROVE TypeOK'
  OBVIOUS
<1> USE DEF TypeOK
<1>1. ASSUME NEW p \in Callers, Resolve(p) PROVE TypeOK'
  <2>1. PICK t \in Tables, m \in Models :
          call' = [call EXCEPT ![p] = [table |-> t, model |-> m, pool |-> columns[t]]]
    BY <1>1 DEF Resolve
  <2>2. call' \in [Callers -> [table : Tables, model : Models, pool : SUBSET Columns]]
    BY <2>1
  <2> QED BY <1>1, <2>2, BoundsAssumption DEF Resolve, world
<1>2. ASSUME NEW p \in Callers, Inspect(p) PROVE TypeOK'
  <2>1. call' = [call EXCEPT ![p].pool = call[p].pool \cup columns[call[p].table]]
    BY <1>2 DEF Inspect
  <2>2. call' \in [Callers -> [table : Tables, model : Models, pool : SUBSET Columns]]
    BY <2>1
  <2> QED BY <1>2, <2>2 DEF Inspect, world
<1>3. ASSUME NEW p \in Callers, Load(p) PROVE TypeOK'
  <2>1. Usable(call[p].model) \in SUBSET Vectors
    BY UsableVectors
  <2> QED BY <1>3, <2>1 DEF Load, world, request
<1>4. ASSUME NEW p \in Callers, EmbedQuery(p) PROVE TypeOK'
  BY <1>4 DEF EmbedQuery, world, request
<1>5. ASSUME NEW p \in Callers, Embed(p) PROVE TypeOK'
  <2>1. PICK c \in Needed(p) :
          fresh' = [fresh EXCEPT ![p] = @ \cup
            {[table |-> call[p].table, column |-> c, model |-> call[p].model]}]
    BY <1>5 DEF Embed
  <2>2. c \in Columns
    BY DEF Needed
  <2>3. fresh' \in [Callers -> SUBSET Vectors]
    BY <2>1, <2>2 DEF Vectors
  <2> QED BY <1>5, <2>3 DEF Embed, world, request
<1>6. ASSUME NEW p \in Callers, EmbedFails(p) PROVE TypeOK'
  BY <1>6 DEF EmbedFails, world, request
<1>7. ASSUME NEW p \in Callers, Rank(p) PROVE TypeOK'
  <2>1. Ranking(p) \in SUBSET Vectors
    BY DEF Ranking
  <2> QED BY <1>7, <2>1 DEF Rank, world, request
<1>8. ASSUME NEW p \in Callers, Truncate(p) PROVE TypeOK'
  BY <1>8 DEF Truncate, world, request
<1>9. ASSUME NEW p \in Callers, Write(p) PROVE TypeOK'
  <2>1. file' \in Index \cup {Missing, Torn} \cup Callers
    BY <1>9, FilesStayTyped DEF Write
  <2> QED BY <1>9, <2>1 DEF Write, world, request
<1>10. ASSUME NEW p \in Callers, StoreFails(p) PROVE TypeOK'
  <2>1. file' \in Index \cup {Missing, Torn} \cup Callers
    BY <1>10, FilesStayTyped DEF StoreFails
  <2> QED BY <1>10, <2>1 DEF StoreFails, world, request
<1>11. ASSUME NEW t \in Tables, Refresh(t) PROVE TypeOK'
  BY <1>11, BoundsAssumption DEF Refresh, request
<1>12. ASSUME NEW x \in Processes, Die(x) PROVE TypeOK'
  <2>1. file' \in Index \cup {Missing, Torn} \cup Callers
    BY <1>12, FilesStayTyped DEF Die, Of
  <2> QED BY <1>12, <2>1 DEF Die, Of, world, request
<1>13. ASSUME UNCHANGED vars PROVE TypeOK'
  BY <1>13 DEF vars
<1> QED
  BY <1>1, <1>2, <1>3, <1>4, <1>5, <1>6, <1>7, <1>8, <1>9, <1>10, <1>11, <1>12, <1>13
     DEF Next, Proceed, Rest

\* The embedding index is type-correct.
THEOREM TypeCorrect == Spec => []TypeOK
BY TypesHoldInitially, TypesPreserved, PTL DEF Spec

(***************************************************************************)
(* Models.                                                                 *)
(***************************************************************************)

\* The invariant holds in the initial states.
LEMMA IndexHoldsInitially == Init => IndexInv
<1> SUFFICES ASSUME Init PROVE IndexInv
  OBVIOUS
<1>1. Own /\ OpenCalls /\ RankedInFull
  BY DEF Init, Own, OpenCalls, RankedInFull
<1>2. NoMixedModels /\ OneEach
  BY InheritedIndex DEF Init, NoMixedModels, OneEach, IsOneEach
<1> QED BY <1>1, <1>2, TypesHoldInitially DEF IndexInv

\* What a call takes from the file is of the model it asks for, or of none.
LEMMA UsableOfModel ==
  ASSUME NoMixedModels, NEW m, NEW v \in Usable(m)
  PROVE  v.model \in {m, Unnamed}
BY DEF Usable, NoMixedModels

\* A step leaves the vectors of every call with the model of that call.
LEMMA OwnPreserved == IndexInv /\ [Next]_vars => Own'
<1> SUFFICES ASSUME IndexInv, [Next]_vars, NEW q \in Callers,
                    NEW v \in (known[q] \cup fresh[q])'
             PROVE  v.model \in {call'[q].model, Unnamed}
  BY DEF Own
<1> USE DEF IndexInv, TypeOK, Own
<1>1. ASSUME NEW p \in Callers, Resolve(p) PROVE v.model \in {call'[q].model, Unnamed}
  <2>1. CASE q = p
    BY <1>1, <2>1 DEF Resolve
  <2>2. CASE q # p
    <3>1. known'[q] = known[q] /\ fresh'[q] = fresh[q]
      BY <1>1, <2>2 DEF Resolve
    <3>2. call'[q] = call[q]
      BY <1>1, <2>2 DEF Resolve
    <3> QED BY <3>1, <3>2
  <2> QED BY <2>1, <2>2
<1>2. ASSUME NEW p \in Callers, Inspect(p) PROVE v.model \in {call'[q].model, Unnamed}
  <2>1. call'[q].model = call[q].model
    BY <1>2 DEF Inspect
  <2> QED BY <1>2, <2>1 DEF Inspect
<1>3. ASSUME NEW p \in Callers, Load(p) PROVE v.model \in {call'[q].model, Unnamed}
  <2>1. \A u \in Usable(call[p].model) : u.model \in {call[p].model, Unnamed}
    BY UsableOfModel
  <2> QED BY <1>3, <2>1 DEF Load, request
<1>4. ASSUME NEW p \in Callers, Embed(p) PROVE v.model \in {call'[q].model, Unnamed}
  BY <1>4 DEF Embed, request
<1>5. ASSUME NEW p \in Callers, EmbedFails(p) PROVE v.model \in {call'[q].model, Unnamed}
  BY <1>5 DEF EmbedFails, request
<1>6. ASSUME NEW p \in Callers,
             EmbedQuery(p) \/ Rank(p) \/ Truncate(p) \/ Write(p) \/ StoreFails(p)
      PROVE v.model \in {call'[q].model, Unnamed}
  BY <1>6 DEF EmbedQuery, Rank, Truncate, Write, StoreFails, request
<1>7. ASSUME NEW t \in Tables, Refresh(t) PROVE v.model \in {call'[q].model, Unnamed}
  BY <1>7 DEF Refresh, request
<1>8. ASSUME NEW x \in Processes, Die(x) PROVE v.model \in {call'[q].model, Unnamed}
  BY <1>8 DEF Die, request
<1>9. ASSUME UNCHANGED vars PROVE v.model \in {call'[q].model, Unnamed}
  BY <1>9 DEF vars
<1> QED
  BY <1>1, <1>2, <1>3, <1>4, <1>5, <1>6, <1>7, <1>8, <1>9 DEF Next, Proceed, Rest

\* A step leaves no column with two vectors: what is fetched is of a column that
\* has none.
LEMMA OneEachPreserved == IndexInv /\ [Next]_vars => OneEach'
<1> SUFFICES ASSUME IndexInv, [Next]_vars PROVE OneEach'
  OBVIOUS
<1> USE DEF IndexInv
<1> DEFINE OfCalls == \A q \in Callers : IsOneEach(known'[q] \cup fresh'[q])
           OfFile == file' \in Index => IsOneEach(file'.vectors)
<1>1. ASSUME file' = file \/ file' \in {Torn} \cup Callers PROVE OfFile
  BY <1>1, FilesAssumption DEF OneEach
<1>2. ASSUME \A q \in Callers : /\ known'[q] \in {known[q], {}}
                               /\ fresh'[q] \in {fresh[q], {}}
      PROVE  OfCalls
  BY <1>2 DEF OneEach, IsOneEach
<1>3. ASSUME NEW p \in Callers, Resolve(p) \/ Inspect(p) \/ EmbedQuery(p) \/ EmbedFails(p) \/ Rank(p)
      PROVE  OneEach'
  <2>1. OfFile
    BY <1>1, <1>3 DEF Resolve, Inspect, EmbedQuery, EmbedFails, Rank
  <2>2. OfCalls
    BY <1>2, <1>3 DEF Resolve, Inspect, EmbedQuery, EmbedFails, Rank, TypeOK
  <2> QED BY <2>1, <2>2 DEF OneEach
<1>4. ASSUME NEW p \in Callers, Load(p) PROVE OneEach'
  <2>1. OfFile
    BY <1>1, <1>4 DEF Load
  <2>2. IsOneEach(Usable(call[p].model))
    BY DEF Usable, OneEach, IsOneEach
  <2>3. pc[p] = "load" /\ fresh' = fresh /\ known' = [known EXCEPT ![p] = Usable(call[p].model)]
    BY <1>4 DEF Load
  <2>4. fresh[p] = {}
    BY <2>3 DEF OpenCalls
  <2>5. OfCalls
    BY <2>2, <2>3, <2>4 DEF OneEach, TypeOK
  <2> QED BY <2>1, <2>5 DEF OneEach
<1>5. ASSUME NEW p \in Callers, Embed(p) PROVE OneEach'
  <2>1. OfFile
    BY <1>1, <1>5 DEF Embed
  <2>2. PICK c \in Needed(p) :
          fresh' = [fresh EXCEPT ![p] = @ \cup
            {[table |-> call[p].table, column |-> c, model |-> call[p].model]}]
    BY <1>5 DEF Embed
  <2>3. known' = known
    BY <1>5 DEF Embed
  <2>4. \A v \in known[p] \cup fresh[p] : ~(v.table = call[p].table /\ v.column = c)
    BY DEF Needed
  <2>5. IsOneEach(known'[p] \cup fresh'[p])
    BY <2>2, <2>3, <2>4 DEF OneEach, IsOneEach, TypeOK
  <2>6. \A q \in Callers \ {p} : known'[q] = known[q] /\ fresh'[q] = fresh[q]
    BY <2>2, <2>3 DEF TypeOK
  <2> QED BY <2>1, <2>5, <2>6 DEF OneEach
<1>6. ASSUME NEW p \in Callers, Truncate(p) \/ Write(p) \/ StoreFails(p) PROVE OneEach'
  <2>1. OfCalls
    BY <1>2, <1>6 DEF Truncate, Write, StoreFails
  <2>2. CASE file' = Merged(p)
    <3>1. OfFile
      BY <2>2 DEF Merged, OneEach
    <3> QED BY <2>1, <3>1 DEF OneEach
  <2>3. CASE file' # Merged(p)
    <3>1. file' = file \/ file' \in {Torn} \cup Callers
      BY <1>6, <2>3 DEF Truncate, Write, StoreFails, Written, Abandoned
    <3> QED BY <1>1, <2>1, <3>1 DEF OneEach
  <2> QED BY <2>2, <2>3
<1>7. ASSUME NEW t \in Tables, Refresh(t) PROVE OneEach'
  BY <1>1, <1>2, <1>7 DEF Refresh, OneEach
<1>8. ASSUME NEW x \in Processes, Die(x) PROVE OneEach'
  <2>1. OfFile
    BY <1>1, <1>8 DEF Die, Abandoned
  <2>2. OfCalls
    BY <1>2, <1>8 DEF Die
  <2> QED BY <2>1, <2>2 DEF OneEach
<1>9. ASSUME UNCHANGED vars PROVE OneEach'
  BY <1>9 DEF vars, OneEach
<1> QED
  BY <1>3, <1>4, <1>5, <1>6, <1>7, <1>8, <1>9 DEF Next, Proceed, Rest

\* A step leaves the file with an index of one model, if any.
LEMMA FilePreserved == IndexInv /\ [Next]_vars => NoMixedModels'
<1> SUFFICES ASSUME IndexInv, [Next]_vars PROVE NoMixedModels'
  OBVIOUS
<1> USE DEF IndexInv
<1>1. CASE file' = file
  BY <1>1 DEF NoMixedModels
<1>2. ASSUME NEW p \in Callers, Truncate(p) PROVE NoMixedModels'
  BY <1>2, FilesAssumption DEF Truncate, NoMixedModels
<1>3. ASSUME NEW p \in Callers, Write(p) PROVE NoMixedModels'
  <2>1. CASE file' = Merged(p)
    BY <2>1 DEF Merged, Own, NoMixedModels
  <2>2. CASE file' = Torn
    BY <2>2, FilesAssumption DEF NoMixedModels
  <2> QED BY <1>3, <2>1, <2>2 DEF Write, Written
<1>4. ASSUME NEW p \in Callers, file' \in Abandoned(p) PROVE NoMixedModels'
  BY <1>1, <1>4, FilesAssumption DEF Abandoned, NoMixedModels
<1>5. ASSUME NEW p \in Callers, StoreFails(p) PROVE NoMixedModels'
  BY <1>1, <1>4, <1>5 DEF StoreFails
<1>6. ASSUME NEW x \in Processes, Die(x) PROVE NoMixedModels'
  BY <1>1, <1>4, <1>6 DEF Die, Of
<1> QED
  BY <1>1, <1>2, <1>3, <1>5, <1>6
     DEF Next, Proceed, Rest, vars, Resolve, Inspect, Load, EmbedQuery, Embed, EmbedFails,
         Rank, Refresh

\* A call that is ranked has one vector for each column of its pool, of its model
\* or of none, and no other.
LEMMA RankingIsFull ==
  ASSUME TypeOK, Own, OneEach, NEW p \in Callers, Needed(p) = {}
  PROVE  IsFullRanking(Ranking(p), call[p])
<1>1. ASSUME NEW v \in Ranking(p)
      PROVE  v \in [table : {call[p].table}, column : call[p].pool,
                   model : {call[p].model, Unnamed}]
  <2>1. v \in known[p] \cup fresh[p] /\ v.table = call[p].table /\ v.column \in call[p].pool
    BY DEF Ranking
  <2>2. v \in Vectors /\ v.model \in {call[p].model, Unnamed}
    BY <2>1 DEF TypeOK, Own
  <2> QED BY <2>1, <2>2 DEF Vectors
<1>2. ASSUME NEW c \in call[p].pool PROVE \E v \in Ranking(p) : v.column = c
  BY DEF Needed, Ranking
<1>3. ASSUME NEW u \in Ranking(p), NEW v \in Ranking(p), u.column = v.column PROVE u = v
  BY <1>3 DEF Ranking, OneEach, IsOneEach
<1> QED BY <1>1, <1>2, <1>3 DEF IsFullRanking

\* A step leaves what is ranked, and what is not yet, as it should be.
LEMMA RankedPreserved == IndexInv /\ [Next]_vars => OpenCalls' /\ RankedInFull'
<1> SUFFICES ASSUME IndexInv, [Next]_vars PROVE OpenCalls' /\ RankedInFull'
  OBVIOUS
<1> USE DEF IndexInv, TypeOK, OpenCalls, RankedInFull
<1>1. ASSUME NEW p \in Callers, Resolve(p) PROVE OpenCalls' /\ RankedInFull'
  <2>1. \A q \in Callers \ {p} : call'[q] = call[q]
    BY <1>1 DEF Resolve
  <2> QED BY <1>1, <2>1 DEF Resolve
<1>2. ASSUME NEW p \in Callers, Inspect(p) PROVE OpenCalls' /\ RankedInFull'
  <2>1. \A q \in Callers \ {p} : call'[q] = call[q]
    BY <1>2 DEF Inspect
  <2>2. outcome'[p] # "ranked"
    BY <1>2 DEF Inspect
  <2> QED BY <1>2, <2>1, <2>2 DEF Inspect
<1>3. ASSUME NEW p \in Callers, Rank(p) PROVE OpenCalls' /\ RankedInFull'
  <2>1. IsFullRanking(Ranking(p), call[p])
    BY <1>3, RankingIsFull DEF Rank
  <2> QED BY <1>3, <2>1 DEF Rank, request
<1>4. ASSUME NEW p \in Callers, Load(p) \/ EmbedQuery(p) \/ Embed(p) \/ EmbedFails(p)
      PROVE OpenCalls' /\ RankedInFull'
  BY <1>4 DEF Load, EmbedQuery, Embed, EmbedFails, request
<1>5. ASSUME NEW p \in Callers, Truncate(p) \/ Write(p) \/ StoreFails(p)
      PROVE OpenCalls' /\ RankedInFull'
  BY <1>5 DEF Truncate, Write, StoreFails, request
<1>6. ASSUME NEW t \in Tables, Refresh(t) PROVE OpenCalls' /\ RankedInFull'
  BY <1>6 DEF Refresh, request
<1>7. ASSUME NEW x \in Processes, Die(x) PROVE OpenCalls' /\ RankedInFull'
  BY <1>7 DEF Die, request
<1>8. ASSUME UNCHANGED vars PROVE OpenCalls' /\ RankedInFull'
  BY <1>8 DEF vars
<1> QED
  BY <1>1, <1>2, <1>3, <1>4, <1>5, <1>6, <1>7, <1>8 DEF Next, Proceed, Rest

\* What holds initially and is preserved holds always.
LEMMA IndexAlways == Spec => []IndexInv
<1>1. IndexInv /\ [Next]_vars => IndexInv'
  BY TypesPreserved, OwnPreserved, OneEachPreserved, FilePreserved, RankedPreserved
     DEF IndexInv
<1> QED BY IndexHoldsInitially, <1>1, PTL DEF Spec

\* However many calls and processes share the file, and wherever they stop, an
\* index has no vectors that were stored under the names of two models.
THEOREM ModelsStayApart == Spec => []NoMixedModels
<1>1. IndexInv => NoMixedModels
  BY DEF IndexInv
<1> QED BY IndexAlways, <1>1, PTL

\* Every ranking is by exactly one vector for each column, none of which was
\* stored under the name of another model than the call named.
THEOREM RankingsAreSound == Spec => []RankedByItsModel
<1>1. IndexInv => RankedByItsModel
  BY DEF IndexInv, RankedInFull, IsFullRanking, RankedByItsModel
<1> QED BY IndexAlways, <1>1, PTL

(***************************************************************************)
(* What the next call finds.  As long as no other call's write has run     *)
(* into this one, the file is what this one has loaded, is its own, or is  *)
(* what it has stored.                                                     *)
(***************************************************************************)
Quiet(p) == \A q \in Callers \ {p} : pc[q] # "write"

HasLoaded(p) ==
  /\ file \in Index /\ file.model \in {call[p].model, Unnamed}
  /\ known[p] \subseteq file.vectors

Settled(p) == pc[p] = "idle" /\ outcome[p] = "ranked" /\ stored[p]

Undisturbed(p) ==
  /\ pc[p] \in {"query", "fetch", "truncate"} =>
       Quiet(p) /\ (known[p] # {} => HasLoaded(p))
  /\ pc[p] = "write" => Quiet(p) /\ file = p
  /\ Settled(p) => Quiet(p) /\ HasLoaded(p) /\ used[p] \subseteq file.vectors

\* A call under way has stored nothing and looks columns up; one that stores
\* has ranked.
UnderWay(p) ==
  /\ pc[p] # "idle" => ~stored[p]
  /\ pc[p] \in {"load", "query", "fetch"} => call[p].pool # {}
  /\ pc[p] \in {"truncate", "write"} => used[p] \subseteq known[p] \cup fresh[p]

WarmInv ==
  /\ IndexInv
  /\ \A p \in Callers : UnderWay(p) /\ (~touched[p] => Undisturbed(p))

LEMMA InitWarm == Init => WarmInv
<1>1. Init => \A p \in Callers : UnderWay(p) /\ (~touched[p] => Undisturbed(p))
  BY DEF Init, UnderWay, Undisturbed, Settled
<1>2. QED
  BY <1>1, IndexHoldsInitially DEF WarmInv

\* A step of p other than a write leaves every other call as it was.
LEMMA OthersUndisturbed ==
  ASSUME WarmInv, NEW p \in Callers, NEW q \in Callers \ {p}, ~touched[q],
         file' = file, pc'[p] # "write",
         \A r \in Callers \ {p} : pc'[r] = pc[r],
         call'[q] = call[q], known'[q] = known[q], used'[q] = used[q],
         outcome'[q] = outcome[q], stored'[q] = stored[q]
  PROVE  Undisturbed(q)'
BY DEF WarmInv, Undisturbed, Quiet, HasLoaded, Settled

LEMMA CallWarm ==
  ASSUME WarmInv, NEW p \in Callers, Resolve(p) \/ Proceed(p), IndexInv'
  PROVE  \A q \in Callers : UnderWay(q)' /\ (~touched'[q] => Undisturbed(q)')
<1> USE DEF WarmInv, IndexInv
<1>1. CASE Resolve(p)
  <2>1. /\ file' = file /\ touched' = touched
        /\ pc' = [pc EXCEPT ![p] = "inspect"] /\ stored' = [stored EXCEPT ![p] = FALSE]
        /\ known' = [known EXCEPT ![p] = {}] /\ fresh' = [fresh EXCEPT ![p] = {}]
        /\ used' = [used EXCEPT ![p] = {}] /\ outcome' = [outcome EXCEPT ![p] = "none"]
        /\ \A q \in Callers \ {p} : call'[q] = call[q]
    BY <1>1 DEF Resolve
  <2>2. UnderWay(p)' /\ Undisturbed(p)'
    BY <2>1 DEF UnderWay, Undisturbed, Settled, TypeOK
  <2>3. ASSUME NEW q \in Callers \ {p}
        PROVE  UnderWay(q)' /\ (~touched'[q] => Undisturbed(q)')
    <3>1. /\ pc'[p] = "inspect" /\ \A r \in Callers \ {p} : pc'[r] = pc[r]
          /\ call'[q] = call[q] /\ known'[q] = known[q] /\ fresh'[q] = fresh[q]
          /\ used'[q] = used[q] /\ outcome'[q] = outcome[q] /\ stored'[q] = stored[q]
      BY <2>1 DEF TypeOK
    <3>2. UnderWay(q)'
      BY <3>1 DEF UnderWay
    <3>3. QED
      BY <2>1, <3>1, <3>2, OthersUndisturbed
  <2>4. QED
    BY <2>2, <2>3
<1>2. CASE Inspect(p)
  <2> DEFINE pool == call[p].pool \cup columns[call[p].table]
  <2>1. /\ UNCHANGED <<file, known, fresh, used, stored, touched>>
        /\ call' = [call EXCEPT ![p].pool = pool]
        /\ pc' = [pc EXCEPT ![p] = IF pool = {} THEN "idle" ELSE "load"]
        /\ outcome' = [outcome EXCEPT ![p] = IF pool = {} THEN "lexical" ELSE @]
        /\ pc[p] = "inspect"
    BY <1>2 DEF Inspect
  <2>2. call'[p].pool = pool /\ \A q \in Callers \ {p} : call'[q] = call[q]
    BY <2>1 DEF TypeOK
  <2> HIDE DEF pool
  <2>3. UnderWay(p)' /\ Undisturbed(p)'
    BY <2>1, <2>2 DEF UnderWay, Undisturbed, Settled, TypeOK
  <2>4. ASSUME NEW q \in Callers \ {p}
        PROVE  UnderWay(q)' /\ (~touched'[q] => Undisturbed(q)')
    BY <2>1, <2>2, OthersUndisturbed DEF UnderWay, TypeOK
  <2>5. QED
    BY <2>3, <2>4
<1>3. CASE Load(p)
  <2>1. /\ UNCHANGED <<file, call, fresh, used, outcome, stored>>
        /\ known' = [known EXCEPT ![p] = Usable(call[p].model)]
        /\ touched' = [touched EXCEPT ![p] = \E q \in Callers : pc[q] = "write"]
        /\ pc' = [pc EXCEPT ![p] = "query"] /\ pc[p] = "load"
    BY <1>3 DEF Load, request
  <2>2. UnderWay(p)'
    BY <2>1 DEF UnderWay, TypeOK
  <2>3. ASSUME ~touched'[p]
        PROVE  Undisturbed(p)'
    BY <2>1, <2>3 DEF Undisturbed, Quiet, HasLoaded, Settled, Usable, TypeOK
  <2>4. ASSUME NEW q \in Callers \ {p}
        PROVE  UnderWay(q)' /\ (~touched'[q] => Undisturbed(q)')
    <3>1. /\ pc'[p] = "query" /\ \A r \in Callers \ {p} : pc'[r] = pc[r]
          /\ known'[q] = known[q] /\ touched'[q] = touched[q]
      BY <2>1 DEF TypeOK
    <3>2. UnderWay(q)'
      BY <2>1, <3>1 DEF UnderWay
    <3>3. QED
      BY <2>1, <3>1, <3>2, OthersUndisturbed
  <2>5. QED
    BY <2>2, <2>3, <2>4
<1>4. CASE EmbedQuery(p) \/ Embed(p) \/ EmbedFails(p)
  <2>1. /\ UNCHANGED <<file, call, used, stored, touched>>
        /\ \/ pc'[p] = "fetch" /\ known'[p] = known[p]
           \/ pc'[p] = "idle" /\ outcome'[p] = "lexical"
        /\ pc[p] \in {"query", "fetch"}
        /\ \A q \in Callers \ {p} :
             /\ pc'[q] = pc[q] /\ known'[q] = known[q] /\ fresh'[q] = fresh[q]
             /\ outcome'[q] = outcome[q]
    BY <1>4 DEF EmbedQuery, Embed, EmbedFails, Needed, request, TypeOK
  <2>2. UnderWay(p)'
    BY <2>1 DEF UnderWay
  <2>3. ASSUME ~touched[p]
        PROVE  Undisturbed(p)'
    BY <2>1, <2>3 DEF Undisturbed, Quiet, HasLoaded, Settled
  <2>4. ASSUME NEW q \in Callers \ {p}
        PROVE  UnderWay(q)' /\ (~touched'[q] => Undisturbed(q)')
    BY <2>1, OthersUndisturbed DEF UnderWay
  <2>5. QED
    BY <2>1, <2>2, <2>3, <2>4
<1>5. CASE Rank(p)
  <2>1. /\ UNCHANGED <<file, call, known, fresh, touched>>
        /\ used' = [used EXCEPT ![p] = Ranking(p)]
        /\ outcome' = [outcome EXCEPT ![p] = "ranked"]
        /\ pc' = [pc EXCEPT ![p] = IF fresh[p] = {} THEN "idle" ELSE "truncate"]
        /\ stored' = [stored EXCEPT ![p] = fresh[p] = {}]
        /\ pc[p] = "fetch" /\ Needed(p) = {}
    BY <1>5 DEF Rank, request
  <2>2. Ranking(p) \subseteq known[p] \cup fresh[p]
    BY DEF Ranking
  <2>3. UnderWay(p)'
    BY <2>1, <2>2 DEF UnderWay, TypeOK
  <2>4. known[p] # {} \/ fresh[p] # {}
    BY <2>1 DEF UnderWay, Needed
  <2>5. ASSUME ~touched[p]
        PROVE  Undisturbed(p)'
    <3>1. Quiet(p) /\ (known[p] # {} => HasLoaded(p))
      BY <2>1, <2>5 DEF Undisturbed
    <3>2. Quiet(p)'
      BY <2>1, <3>1 DEF Quiet, TypeOK
    <3>3. HasLoaded(p)' <=> HasLoaded(p)
      BY <2>1 DEF HasLoaded
    <3>4. CASE fresh[p] = {}
      BY <2>1, <2>2, <2>4, <3>1, <3>2, <3>3, <3>4 DEF Undisturbed, HasLoaded, TypeOK
    <3>5. CASE fresh[p] # {}
      BY <2>1, <3>1, <3>2, <3>3, <3>5 DEF Undisturbed, Settled, TypeOK
    <3>6. QED
      BY <3>4, <3>5
  <2>6. ASSUME NEW q \in Callers \ {p}
        PROVE  UnderWay(q)' /\ (~touched'[q] => Undisturbed(q)')
    BY <2>1, OthersUndisturbed DEF UnderWay, TypeOK
  <2>7. QED
    BY <2>1, <2>3, <2>5, <2>6
<1>6. CASE Truncate(p)
  <2>1. /\ UNCHANGED <<call, known, fresh, used, outcome, stored>>
        /\ pc' = [pc EXCEPT ![p] = "write"] /\ file' = p
        /\ touched' = [q \in Callers |-> touched[q] \/ q # p]
        /\ pc[p] = "truncate"
    BY <1>6 DEF Truncate, request
  <2>2. UnderWay(p)' /\ (~touched'[p] => Undisturbed(p)')
    BY <2>1 DEF UnderWay, Undisturbed, Quiet, Settled, TypeOK
  <2>3. ASSUME NEW q \in Callers \ {p}
        PROVE  UnderWay(q)' /\ touched'[q]
    BY <2>1 DEF UnderWay, TypeOK
  <2>4. QED
    BY <2>2, <2>3
<1>7. CASE Write(p)
  <2>1. /\ UNCHANGED <<call, known, fresh, used, outcome, touched>>
        /\ file' \in Written(p)
        /\ pc' = [pc EXCEPT ![p] = "idle"]
        /\ stored' = [stored EXCEPT ![p] = TRUE] /\ pc[p] = "write"
    BY <1>7 DEF Write, request
  <2>2. ASSUME NEW q \in Callers \ {p}
        PROVE  UnderWay(q)' /\ (~touched'[q] => Undisturbed(q)')
    BY <2>1 DEF UnderWay, Undisturbed, Quiet, Settled, TypeOK
  <2>3. UnderWay(p)'
    BY <2>1 DEF UnderWay, TypeOK
  <2>4. ASSUME ~touched[p]
        PROVE  Undisturbed(p)'
    <3>1. Quiet(p) /\ file = p /\ used[p] \subseteq known[p] \cup fresh[p]
      BY <2>1, <2>4 DEF Undisturbed, UnderWay
    <3>2. file' = Merged(p)
      BY <2>1, <3>1 DEF Written, Alone, Quiet
    <3>3. /\ file' \in Index /\ file'.model = call[p].model
          /\ file'.vectors = known[p] \cup fresh[p]
      BY <3>2 DEF Merged, Index, TypeOK
    <3>4. QED
      BY <2>1, <3>1, <3>3 DEF Undisturbed, Quiet, HasLoaded, TypeOK
  <2>5. QED
    BY <2>1, <2>2, <2>3, <2>4
<1>8. CASE StoreFails(p)
  <2>1. /\ UNCHANGED <<call, known, fresh, used, outcome, stored, touched>>
        /\ pc' = [pc EXCEPT ![p] = "idle"] /\ ~stored[p]
        /\ \/ pc[p] = "truncate" /\ file' = file
           \/ pc[p] = "write"
    BY <1>8 DEF StoreFails, request, UnderWay
  <2>2. UnderWay(p)' /\ Undisturbed(p)'
    BY <2>1 DEF UnderWay, Undisturbed, Settled, TypeOK
  <2>3. ASSUME NEW q \in Callers \ {p}
        PROVE  UnderWay(q)' /\ (~touched'[q] => Undisturbed(q)')
    <3>1. CASE pc[p] = "write"
      BY <2>1, <3>1 DEF UnderWay, Undisturbed, Quiet, Settled, TypeOK
    <3>2. CASE pc[p] # "write"
      BY <2>1, <3>2, OthersUndisturbed DEF UnderWay, TypeOK
    <3>3. QED
      BY <3>1, <3>2
  <2>4. QED
    BY <2>2, <2>3
<1>9. QED
  BY <1>1, <1>2, <1>3, <1>4, <1>5, <1>6, <1>7, <1>8 DEF Proceed

LEMMA DieWarm ==
  ASSUME WarmInv, NEW x \in Processes, Die(x), NEW q \in Callers
  PROVE  UnderWay(q)' /\ (~touched'[q] => Undisturbed(q)')
<1> USE DEF WarmInv, IndexInv, TypeOK
<1>1. /\ UNCHANGED <<call, used, stored, touched>>
      /\ (\A p \in Of(x) : pc[p] # "write") => file' = file
      /\ \A p \in Callers :
           /\ pc'[p] = IF p \in Of(x) THEN "idle" ELSE pc[p]
           /\ p \in Of(x) /\ pc[p] # "idle" => outcome'[p] = "died"
           /\ ~(p \in Of(x) /\ pc[p] # "idle") => outcome'[p] = outcome[p]
           /\ p \notin Of(x) => known'[p] = known[p] /\ fresh'[p] = fresh[p]
           /\ known'[p] \subseteq known[p]
  BY DEF Die, request
<1>2. UnderWay(q)'
  BY <1>1 DEF UnderWay
<1>3. ASSUME ~touched[q]
      PROVE  Undisturbed(q)'
  <2>1. Undisturbed(q) /\ \A r \in Callers \ {q} : pc'[r] = "write" => pc[r] = "write"
    BY <1>1, <1>3
  <2>2. CASE q \in Of(x) /\ pc[q] # "idle"
    BY <1>1, <2>2 DEF Undisturbed, Settled
  <2>3. CASE q \in Of(x) /\ pc[q] = "idle"
    BY <1>1, <2>1, <2>3 DEF Undisturbed, Settled, Quiet, HasLoaded, Of
  <2>4. CASE q \notin Of(x)
    BY <1>1, <2>1, <2>4 DEF Undisturbed, Settled, Quiet, HasLoaded, Of
  <2>5. QED
    BY <2>2, <2>3, <2>4
<1>4. QED
  BY <1>1, <1>2, <1>3

LEMMA WarmStep == WarmInv /\ [Next]_vars => WarmInv'
<1> SUFFICES ASSUME WarmInv, [Next]_vars
             PROVE  WarmInv'
  OBVIOUS
<1>1. IndexInv'
  BY TypesPreserved, OwnPreserved, OneEachPreserved, FilePreserved, RankedPreserved
     DEF WarmInv, IndexInv
<1>2. ASSUME NEW p \in Callers, Resolve(p) \/ Proceed(p)
      PROVE  WarmInv'
  BY <1>1, <1>2, CallWarm DEF WarmInv
<1>3. ASSUME NEW x \in Processes, Die(x)
      PROVE  WarmInv'
  BY <1>1, <1>3, DieWarm DEF WarmInv
<1>4. CASE (\E t \in Tables : Refresh(t)) \/ UNCHANGED vars
  <2>1. UNCHANGED <<file, pc, call, known, fresh, used, outcome, stored, touched>>
    BY <1>4 DEF Refresh, request, vars
  <2>2. QED
    BY <1>1, <2>1 DEF WarmInv, UnderWay, Undisturbed, Quiet, HasLoaded, Settled
<1>5. QED
  BY <1>2, <1>3, <1>4 DEF Next, Rest

\* resolve_with_embedding: once a call was ranked and has stored its vectors,
\* and no other call's write has run into it, the file has every vector the
\* call used and every one it had loaded, under its own model or under none.
THEOREM CallsWarmTheIndex == Spec => []NextCallIsWarm
<1>1. WarmInv => NextCallIsWarm
  BY DEF WarmInv, NextCallIsWarm, Undisturbed, Settled, HasLoaded
<1>2. QED
  BY <1>1, InitWarm, WarmStep, PTL DEF Spec
=============================================================================
