--------------------------- MODULE EmbeddingIndex ---------------------------
(***************************************************************************)
(* Resolving a column by embeddings: resolve_with_embedding                *)
(* (embedding_resolve.py) with load_embeddings and store_embeddings        *)
(* (cache.rs) under it.                                                    *)
(*                                                                         *)
(* A call looks the table's columns up, loads the index, asks the model    *)
(* for a vector of every column the index has none of, ranks, and stores   *)
(* the index it had loaded with the new vectors.  Nothing is held between  *)
(* these steps: calls of one process exclude each other only while they    *)
(* load or store, calls of several processes not even then.                *)
(*                                                                         *)
(* Modelled are the calls that are not settled by spelling alone.  A       *)
(* vector is known by the column and the table it was stored for and the   *)
(* model it was said to be of; the file does not have the latter.  An      *)
(* index may have been stored without the name of a model, which           *)
(* store_embeddings does not ask for: nobody said what its vectors are of. *)
(***************************************************************************)
EXTENDS Naturals

CONSTANTS
  Callers,      \* threads that resolve names
  Processes,    \* the processes they are in; each holds its interpreter lock
  ProcessOf,    \* [Callers -> Processes]
  Tables,
  Columns,      \* names of columns
  Models,       \* names of embedding models
  Unnamed,      \* what an index has in place of one: the empty string
  MaxCalls,     \* bound: as many calls are made
  MaxChanges,   \* bound: as often the columns of a table change
  Missing, Torn \* model values: no file, a file that does not decode

ASSUME BoundsAssumption == MaxCalls \in Nat /\ MaxChanges \in Nat
ASSUME ProcessesAssumption == ProcessOf \in [Callers -> Processes]
ASSUME UnnamedAssumption == Unnamed \notin Models

VARIABLES
  columns,  \* the columns each table has in the schema cache
  file,     \* the embedding file; a caller while that caller writes it
  pc,       \* where each caller is in its call
  call,     \* what it was called with, and the columns it has looked up
  known,    \* the vectors it loaded
  fresh,    \* the vectors it was given by the model
  used,     \* the vectors it ranked
  outcome,  \* how its last call ended
  stored,   \* the last call has left its vectors in the file, or had none
  touched,  \* history: another call has written the file since it loaded it
  calls,    \* how many calls were made
  changes   \* how often columns changed

vars == <<columns, file, pc, call, known, fresh, used, outcome, stored, touched,
          calls, changes>>
request == <<call, calls>>
world == <<columns, changes>>

Vectors == [table : Tables, column : Columns, model : Models \cup {Unnamed}]
Index == [model : Models \cup {Unnamed}, vectors : SUBSET Vectors]

ASSUME FilesAssumption == ({Missing, Torn} \cup Callers) \cap Index = {}

TypeOK ==
  /\ columns \in [Tables -> SUBSET Columns]
  /\ file \in Index \cup {Missing, Torn} \cup Callers
  /\ pc \in [Callers -> {"idle", "inspect", "load", "query", "fetch", "truncate", "write"}]
  /\ call \in [Callers -> [table : Tables, model : Models, pool : SUBSET Columns]]
  /\ known \in [Callers -> SUBSET Vectors]
  /\ fresh \in [Callers -> SUBSET Vectors]
  /\ used \in [Callers -> SUBSET Vectors]
  /\ outcome \in [Callers -> {"none", "lexical", "ranked", "died"}]
  /\ stored \in [Callers -> BOOLEAN]
  /\ touched \in [Callers -> BOOLEAN]
  /\ calls \in 0 .. MaxCalls
  /\ changes \in 0 .. MaxChanges

\* Earlier calls may have left an index of some tables, or died in the middle of
\* a write; or somebody has stored one by hand and has not named its model.
Inherited(C) ==
  {Missing, Torn} \cup {[model |-> m, vectors |-> [table : T, column : C, model : {m}]] :
                            m \in Models \cup {Unnamed}, T \in SUBSET Tables}

\* The tables start with the same columns.
Init ==
  /\ \E C \in SUBSET Columns :
       /\ columns = [t \in Tables |-> C]
       /\ file \in Inherited(C)
  /\ pc = [p \in Callers |-> "idle"]
  /\ \E t \in Tables, m \in Models :
       call = [p \in Callers |-> [table |-> t, model |-> m, pool |-> {}]]
  /\ known = [p \in Callers |-> {}]
  /\ fresh = [p \in Callers |-> {}]
  /\ used = [p \in Callers |-> {}]
  /\ outcome = [p \in Callers |-> "none"]
  /\ stored = [p \in Callers |-> FALSE]
  /\ touched = [p \in Callers |-> FALSE]
  /\ calls = 0
  /\ changes = 0

(***************************************************************************)
(* The call, up to the ranking.                                            *)
(***************************************************************************)

\* cache.resolve: the names that are spelt most alike, here all there are.
Resolve(p) ==
  /\ pc[p] = "idle"
  /\ calls < MaxCalls
  /\ calls' = calls + 1
  /\ \E t \in Tables, m \in Models :
       call' = [call EXCEPT ![p] = [table |-> t, model |-> m, pool |-> columns[t]]]
  /\ pc' = [pc EXCEPT ![p] = "inspect"]
  /\ known' = [known EXCEPT ![p] = {}]
  /\ fresh' = [fresh EXCEPT ![p] = {}]
  /\ used' = [used EXCEPT ![p] = {}]
  /\ outcome' = [outcome EXCEPT ![p] = "none"]
  /\ stored' = [stored EXCEPT ![p] = FALSE]
  /\ UNCHANGED <<world, file, touched>>

\* cache.get_table, which may see the columns of another moment.
Inspect(p) ==
  LET pool == call[p].pool \cup columns[call[p].table]
  IN /\ pc[p] = "inspect"
     /\ call' = [call EXCEPT ![p].pool = pool]
     /\ pc' = [pc EXCEPT ![p] = IF pool = {} THEN "idle" ELSE "load"]
     /\ outcome' = [outcome EXCEPT ![p] = IF pool = {} THEN "lexical" ELSE @]
     /\ UNCHANGED <<world, file, known, fresh, used, stored, touched, calls>>

\* Another call of the same process has the interpreter lock.
Locked(p) == \E q \in Callers \ {p} : ProcessOf[q] = ProcessOf[p] /\ pc[q] = "write"

\* Mutant: whatever model the index is of.
UsableAnyway(m) == IF file \in Index THEN file.vectors ELSE {}

\* What the file has for model m: an index without a name will do for every
\* model.  A file that does not decode has nothing.
Usable(m) == IF file \in Index /\ file.model \in {m, Unnamed} THEN file.vectors ELSE {}

Load(p) ==
  /\ pc[p] = "load"
  /\ ~Locked(p)
  /\ known' = [known EXCEPT ![p] = Usable(call[p].model)]
  /\ touched' = [touched EXCEPT ![p] = \E q \in Callers : pc[q] = "write"]
  /\ pc' = [pc EXCEPT ![p] = "query"]
  /\ UNCHANGED <<world, file, request, fresh, used, outcome, stored>>

EmbedQuery(p) ==
  /\ pc[p] = "query"
  /\ pc' = [pc EXCEPT ![p] = "fetch"]
  /\ UNCHANGED <<world, file, request, known, fresh, used, outcome, stored, touched>>

\* Mutant: a vector of a namesake in another table will do.
NeededNowhere(p) ==
  {c \in call[p].pool : \A v \in known[p] \cup fresh[p] : v.column # c}

\* The columns there is no vector of yet.
Needed(p) ==
  {c \in call[p].pool :
     \A v \in known[p] \cup fresh[p] : ~(v.table = call[p].table /\ v.column = c)}

Embed(p) ==
  /\ pc[p] = "fetch"
  /\ \E c \in Needed(p) :
       fresh' = [fresh EXCEPT ![p] = @ \cup
         {[table |-> call[p].table, column |-> c, model |-> call[p].model]}]
  /\ UNCHANGED <<world, file, pc, request, known, used, outcome, stored, touched>>

\* The model does not answer, or answers with an error: the result is the one
\* by spelling, and what was fetched is lost.
EmbedFails(p) ==
  /\ pc[p] = "query" \/ (pc[p] = "fetch" /\ Needed(p) # {})
  /\ pc' = [pc EXCEPT ![p] = "idle"]
  /\ outcome' = [outcome EXCEPT ![p] = "lexical"]
  /\ known' = [known EXCEPT ![p] = {}]
  /\ fresh' = [fresh EXCEPT ![p] = {}]
  /\ UNCHANGED <<world, file, request, used, stored, touched>>

\* The vectors the columns of the pool are ranked by.
Ranking(p) ==
  {v \in known[p] \cup fresh[p] : v.table = call[p].table /\ v.column \in call[p].pool}

\* Without a new vector there is nothing to store.
Rank(p) ==
  /\ pc[p] = "fetch"
  /\ Needed(p) = {}
  /\ used' = [used EXCEPT ![p] = Ranking(p)]
  /\ outcome' = [outcome EXCEPT ![p] = "ranked"]
  /\ pc' = [pc EXCEPT ![p] = IF fresh[p] = {} THEN "idle" ELSE "truncate"]
  /\ stored' = [stored EXCEPT ![p] = fresh[p] = {}]
  /\ UNCHANGED <<world, file, request, known, fresh, touched>>

(***************************************************************************)
(* Storing the index: the file is truncated and then written.              *)
(***************************************************************************)

\* Mutant: the index is named after the table.
MergedMisnamed(p) == [model |-> call[p].table, vectors |-> known[p] \cup fresh[p]]

\* Mutant: the table gets the new vectors in place of the old ones.
MergedAnew(p) ==
  [model |-> call[p].model,
   vectors |-> {v \in known[p] : v.table # call[p].table} \cup fresh[p]]

\* The index that was loaded, with the new vectors.
Merged(p) == [model |-> call[p].model, vectors |-> known[p] \cup fresh[p]]

Truncate(p) ==
  /\ pc[p] = "truncate"
  /\ ~Locked(p)
  /\ pc' = [pc EXCEPT ![p] = "write"]
  /\ file' = p
  /\ touched' = [q \in Callers |-> touched[q] \/ q # p]
  /\ UNCHANGED <<world, request, known, fresh, used, outcome, stored>>

\* Two processes that write at the same time may leave a mixture.
Alone(p) == file = p /\ \A q \in Callers \ {p} : pc[q] # "write"

Written(p) == IF Alone(p) THEN {Merged(p)} ELSE {Merged(p), Torn}

\* What is left of the file when a write of p stops before its end.
Abandoned(p) == IF file = p THEN {Torn} ELSE {file, Torn}

Write(p) ==
  /\ pc[p] = "write"
  /\ file' \in Written(p)
  /\ pc' = [pc EXCEPT ![p] = "idle"]
  /\ stored' = [stored EXCEPT ![p] = TRUE]
  /\ UNCHANGED <<world, request, known, fresh, used, outcome, touched>>

\* A failure to store changes nothing of the answer.
StoreFails(p) ==
  /\ \/ pc[p] = "truncate" /\ ~Locked(p) /\ UNCHANGED file
     \/ pc[p] = "write" /\ file' \in Abandoned(p)
  /\ pc' = [pc EXCEPT ![p] = "idle"]
  /\ UNCHANGED <<world, request, known, fresh, used, outcome, stored, touched>>

(***************************************************************************)
(* Around the calls.                                                       *)
(***************************************************************************)

\* The schema cache is refreshed and finds other columns.
Refresh(t) ==
  /\ changes < MaxChanges
  /\ changes' = changes + 1
  /\ \E C \in SUBSET Columns : columns' = [columns EXCEPT ![t] = C]
  /\ UNCHANGED <<file, pc, request, known, fresh, used, outcome, stored, touched>>

Of(x) == {p \in Callers : ProcessOf[p] = x}

\* A process dies with the calls in it; one of them may be writing.
Die(x) ==
  /\ \E p \in Of(x) : pc[p] # "idle"
  /\ IF \E p \in Of(x) : pc[p] = "write"
       THEN \E p \in Of(x) : pc[p] = "write" /\ file' \in Abandoned(p)
       ELSE UNCHANGED file
  /\ outcome' = [p \in Callers |->
                   IF p \in Of(x) /\ pc[p] # "idle" THEN "died" ELSE outcome[p]]
  /\ pc' = [p \in Callers |-> IF p \in Of(x) THEN "idle" ELSE pc[p]]
  /\ known' = [p \in Callers |-> IF p \in Of(x) THEN {} ELSE known[p]]
  /\ fresh' = [p \in Callers |-> IF p \in Of(x) THEN {} ELSE fresh[p]]
  /\ UNCHANGED <<world, request, used, stored, touched>>

Rest == (\A p \in Callers : pc[p] = "idle") /\ calls = MaxCalls /\ UNCHANGED vars

Proceed(p) ==
  \/ Inspect(p) \/ Load(p) \/ EmbedQuery(p) \/ Embed(p) \/ EmbedFails(p) \/ Rank(p)
  \/ Truncate(p) \/ Write(p) \/ StoreFails(p)

Next ==
  \/ \E p \in Callers : Resolve(p) \/ Proceed(p)
  \/ \E t \in Tables : Refresh(t)
  \/ \E x \in Processes : Die(x)
  \/ Rest

Spec == Init /\ [][Next]_vars

(***************************************************************************)
(* Properties.                                                             *)
(***************************************************************************)

\* Vectors that were stored under the names of different models, and cannot be
\* compared, never come together in the file.  Those of an index without a name
\* may join those of any one model.
NoMixedModels == file \in Index => \A v \in file.vectors : v.model \in {file.model, Unnamed}

\* A call that was ranked was ranked by one vector for each column it looked up,
\* of which none is missing, since partial results would be misleading; and no
\* vector was stored under the name of another model.
RankedByItsModel ==
  \A p \in Callers :
    outcome[p] = "ranked" =>
      /\ used[p] \subseteq [table : {call[p].table}, column : call[p].pool,
                           model : {call[p].model, Unnamed}]
      /\ \A c \in call[p].pool : \E v \in used[p] : v.column = c
      /\ \A u, v \in used[p] : u.column = v.column => u = v

\* After a call that was ranked and stored, and that no other call's write has
\* run into, the next call for these columns needs the model for none of them,
\* and nothing this one has found in the file is lost.
NextCallIsWarm ==
  \A p \in Callers :
    pc[p] = "idle" /\ outcome[p] = "ranked" /\ stored[p] /\ ~touched[p] =>
      /\ file \in Index
      /\ file.model \in {call[p].model, Unnamed}
      /\ used[p] \cup known[p] \subseteq file.vectors
=============================================================================
