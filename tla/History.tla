------------------------------ MODULE History ------------------------------
(***************************************************************************)
(* The history of a schema cache: cache.rs, SchemaCache::snapshot,         *)
(* rotate_history and SchemaCache::history.                                *)
(*                                                                         *)
(* A snapshot is a file of the history directory, named by the second it   *)
(* was taken in and by a number when that second already has one.  Each    *)
(* system call is a step:                                                  *)
(*                                                                         *)
(*   snapshot  read the clock, Probe names until one is free, Create the   *)
(*             file, Write it, list the directory (Rotate), Remove the     *)
(*             surplus one by one                                          *)
(*   history   list the directory, read the files one by one, oldest first *)
(*                                                                         *)
(* Neither takes a lock: processes that share the directory interleave,    *)
(* and so do tasks on one cache, since both methods take &self.  What a    *)
(* snapshot holds is left out; whether it decodes is not.                  *)
(***************************************************************************)
EXTENDS Naturals, FiniteSets

CONSTANTS
  Writers,      \* tasks that take snapshots
  Readers,      \* tasks that read the history
  MaxHistory,   \* SchemaCache::max_history
  MaxTime,      \* bound: the clock stops here
  MaxSnapshots, \* bound: as many snapshots are started
  NotFound, Torn, Whole  \* model values

Seconds == 0 .. MaxTime
Names == [second : Seconds, nonce : 0 .. MaxSnapshots]

ASSUME BoundsAssumption ==
  MaxHistory \in Nat /\ MaxTime \in Nat /\ MaxSnapshots \in Nat
ASSUME TasksAssumption ==
  /\ Writers \cap Readers = {}
  /\ {NotFound, Torn, Whole} \cap Writers = {}
  /\ NotFound \notin {Torn, Whole} /\ Torn # Whole

VARIABLES
  now,      \* the wall clock
  dir,      \* the directory: what each name holds; a writer while it writes it
  pc,       \* where each task is in its call
  name,     \* the name a writer has chosen, or is trying
  todo,     \* the files a rotation still removes, or a reader still reads
  listed,   \* what a reader found in the directory
  result,   \* what it has read
  outcome,  \* how the last call of each writer ended
  started,  \* how many snapshots were started
  created,  \* history: how many files were created for each second
  raced,    \* history: two snapshots have overlapped
  stuck     \* history: a file could not be removed

vars == <<now, dir, pc, name, todo, listed, result, outcome, started, created,
          raced, stuck>>
readers == <<listed, result>>
ghosts == <<created, raced, stuck>>

Present == {f \in Names : dir[f] # NotFound}

TypeOK ==
  /\ now \in Seconds
  /\ dir \in [Names -> {NotFound, Torn, Whole} \cup Writers]
  /\ pc \in [Writers \cup Readers -> {"idle", "probe", "create", "write",
                                      "rotate", "remove", "read"}]
  /\ name \in [Writers -> Names]
  /\ todo \in [Writers \cup Readers -> SUBSET Names]
  /\ listed \in [Readers -> SUBSET Names]
  /\ result \in [Readers -> SUBSET Names]
  /\ outcome \in [Writers -> {"none", "ok", "error"}]
  /\ started \in 0 .. MaxSnapshots
  /\ created \in [Seconds -> 0 .. MaxSnapshots]
  /\ raced \in BOOLEAN
  /\ stuck \in BOOLEAN

(***************************************************************************)
(* Helpers.  A definition whose comment starts with "Mutant" is a bug this *)
(* code could have: it stands for the definition after it when the         *)
(* properties are tested, and nothing uses it.                             *)
(***************************************************************************)

\* Mutant: the seconds are rounded up.
RoundedName == [second |-> now + 1, nonce |-> 0]

\* The name a snapshot tries first.
FirstName == [second |-> now, nonce |-> 0]

\* Mutants: one file too many stays, or goes.
SurplusLess(files) ==
  IF Cardinality(files) <= MaxHistory + 1 THEN 0
  ELSE Cardinality(files) - MaxHistory
SurplusMore(files) ==
  IF Cardinality(files) < MaxHistory THEN 0
  ELSE Cardinality(files) + 1 - MaxHistory

\* How many files a rotation removes.
Surplus(files) ==
  IF Cardinality(files) <= MaxHistory THEN 0
  ELSE Cardinality(files) - MaxHistory

\* Mutant: the sort is descending.
NewestOf(files, some) ==
  \A f \in some, g \in files \ some : f.second >= g.second

\* The files are sorted by second alone.  Within a second they stay in the
\* order in which the directory was listed, which is any order.
OldestOf(files, some) ==
  \A f \in some, g \in files \ some : f.second <= g.second

\* What a rotation that finds files removes: with max_history = 0, all.
ToRemove(files) ==
  {some \in SUBSET files :
     Cardinality(some) = Surplus(files) /\ OldestOf(files, some)}

\* A file of the oldest second of those that are left.
Oldest(files) == {f \in files : \A g \in files : f.second <= g.second}

NoName == [second |-> 0, nonce |-> 0]

\* The end of a call: what it worked with goes out of scope.
Leave(p) ==
  /\ pc' = [pc EXCEPT ![p] = "idle"]
  /\ todo' = [todo EXCEPT ![p] = {}]

End(p, how) ==
  /\ Leave(p)
  /\ name' = [name EXCEPT ![p] = NoName]
  /\ outcome' = [outcome EXCEPT ![p] = how]

(***************************************************************************)
(* snapshot                                                                *)
(***************************************************************************)
Snapshot(p) ==
  /\ pc[p] = "idle"
  /\ started < MaxSnapshots
  /\ started' = started + 1
  /\ pc' = [pc EXCEPT ![p] = "probe"]
  /\ name' = [name EXCEPT ![p] = FirstName]
  /\ raced' = (raced \/ \E q \in Writers : pc[q] # "idle")
  /\ UNCHANGED <<now, dir, todo, readers, outcome, created, stuck>>

\* Is the candidate there?  If so the next one is tried.
Probe(p) ==
  /\ pc[p] = "probe"
  /\ IF name[p] \in Present
     THEN /\ name' = [name EXCEPT ![p].nonce = @ + 1]
          /\ UNCHANGED pc
     ELSE /\ pc' = [pc EXCEPT ![p] = "create"]
          /\ UNCHANGED name
  /\ UNCHANGED <<now, dir, todo, readers, outcome, started, ghosts>>

\* The file is created, or truncated when another task was faster.
Create(p) ==
  /\ pc[p] = "create"
  /\ pc' = [pc EXCEPT ![p] = "write"]
  /\ dir' = [dir EXCEPT ![name[p]] = p]
  /\ created' = [created EXCEPT ![name[p].second] = @ + 1]
  /\ UNCHANGED <<now, name, todo, readers, outcome, started, raced, stuck>>

\* Nobody else has the file open.
Alone(p) ==
  /\ dir[name[p]] = p
  /\ \A q \in Writers \ {p} : ~(pc[q] = "write" /\ name[q] = name[p])

\* What the file may be once p has written it.  A file that was removed in
\* the meantime stays removed; two writers may leave a mixture.
Written(p) ==
  IF name[p] \notin Present THEN {NotFound}
  ELSE IF Alone(p) THEN {Whole}
  ELSE {dir[name[p]], Whole, Torn}

\* What is left of it when p stops before the end.
Abandoned(p) ==
  IF name[p] \notin Present THEN {NotFound}
  ELSE IF Alone(p) THEN {Torn}
  ELSE {dir[name[p]], Torn}

Write(p) ==
  /\ pc[p] = "write"
  /\ pc' = [pc EXCEPT ![p] = "rotate"]
  /\ \E left \in Written(p) : dir' = [dir EXCEPT ![name[p]] = left]
  /\ UNCHANGED <<now, name, todo, readers, outcome, started, ghosts>>

\* The directory is listed.  A file another task is still writing counts.
Rotate(p) ==
  /\ pc[p] = "rotate"
  /\ \E some \in ToRemove(Present) :
       IF some = {} THEN End(p, "ok")
       ELSE /\ todo' = [todo EXCEPT ![p] = some]
            /\ pc' = [pc EXCEPT ![p] = "remove"]
            /\ UNCHANGED <<name, outcome>>
  /\ UNCHANGED <<now, dir, readers, started, ghosts>>

\* One file of the surplus goes.  Whether it was still there, or can be
\* removed at all, makes no difference to the call.
Remove(p) ==
  /\ pc[p] = "remove"
  /\ \E f \in Oldest(todo[p]) :
       /\ \/ dir' = [dir EXCEPT ![f] = NotFound] /\ UNCHANGED stuck
          \/ stuck' = TRUE /\ UNCHANGED dir
       /\ IF todo[p] = {f} THEN End(p, "ok")
          ELSE /\ todo' = [todo EXCEPT ![p] = @ \ {f}]
               /\ UNCHANGED <<pc, name, outcome>>
  /\ UNCHANGED <<now, readers, started, created, raced>>

\* The call stops early: the process dies, or the disk fails in a call whose
\* result is looked at.
Stop(p) ==
  /\ pc[p] # "idle"
  /\ IF pc[p] = "write"
     THEN \E left \in Abandoned(p) : dir' = [dir EXCEPT ![name[p]] = left]
     ELSE UNCHANGED dir
  /\ End(p, "error")
  /\ UNCHANGED <<now, readers, started, ghosts>>

(***************************************************************************)
(* history                                                                 *)
(***************************************************************************)
ListHistory(r) ==
  /\ pc[r] = "idle"
  /\ pc' = [pc EXCEPT ![r] = "read"]
  /\ todo' = [todo EXCEPT ![r] = Present]
  /\ listed' = [listed EXCEPT ![r] = Present]
  /\ UNCHANGED <<now, dir, name, result, outcome, started, ghosts>>

\* Mutant: the first file that is gone ends the reading.
AfterOrNone(r, f) == IF f \in Present THEN todo[r] \ {f} ELSE {}

\* What a reader still has to read after f.
After(r, f) == todo[r] \ {f}

\* A file that has been removed is left out.  One that does not decode, or
\* cannot be read, ends the call with an error.
ReadFile(r) ==
  /\ pc[r] = "read"
  /\ \E f \in Oldest(todo[r]) :
       /\ dir[f] \in {NotFound, Whole}
       /\ todo' = [todo EXCEPT ![r] = After(r, f)]
       /\ result' = [result EXCEPT ![r] =
            IF f \in Present THEN @ \cup {f} ELSE @]
  /\ UNCHANGED <<now, dir, pc, name, listed, outcome, started, ghosts>>

Forget(r) ==
  /\ Leave(r)
  /\ listed' = [listed EXCEPT ![r] = {}]
  /\ result' = [result EXCEPT ![r] = {}]

ReadFails(r) ==
  /\ pc[r] = "read"
  /\ todo[r] # {}
  /\ Forget(r)
  /\ UNCHANGED <<now, dir, name, outcome, started, ghosts>>

\* The call returns result.
Return(r) ==
  /\ pc[r] = "read"
  /\ todo[r] = {}
  /\ Forget(r)
  /\ UNCHANGED <<now, dir, name, outcome, started, ghosts>>

Tick ==
  /\ now < MaxTime
  /\ now' = now + 1
  /\ UNCHANGED <<dir, pc, name, todo, readers, outcome, started, ghosts>>

(***************************************************************************)
(* The specification.                                                      *)
(***************************************************************************)
Init ==
  /\ now = 0
  /\ dir = [f \in Names |-> NotFound]
  /\ pc = [p \in Writers \cup Readers |-> "idle"]
  /\ name = [p \in Writers |-> NoName]
  /\ todo = [p \in Writers \cup Readers |-> {}]
  /\ listed = [r \in Readers |-> {}]
  /\ result = [r \in Readers |-> {}]
  /\ outcome = [p \in Writers |-> "none"]
  /\ started = 0
  /\ created = [s \in Seconds |-> 0]
  /\ raced = FALSE
  /\ stuck = FALSE

Proceed(p) == Probe(p) \/ Create(p) \/ Write(p) \/ Rotate(p) \/ Remove(p)

Next ==
  \/ \E p \in Writers : Snapshot(p) \/ Proceed(p) \/ Stop(p)
  \/ \E r \in Readers :
       ListHistory(r) \/ ReadFile(r) \/ ReadFails(r) \/ Return(r)
  \/ Tick

Spec == Init /\ [][Next]_vars

(***************************************************************************)
(* Properties.                                                             *)
(***************************************************************************)

\* No two snapshots were created for one second.
Distinct == \A s \in Seconds : created[s] <= 1

\* How many snapshots were created for later seconds.
Newer(s) == {later \in Seconds : later > s /\ created[later] > 0}

\* Once every snapshot that was taken has returned without an error, and
\* every removal worked, the directory holds at most MaxHistory files,
\* however their rotations interleaved: each lists the directory after it has
\* written, so the one that lists last counts them all.
RotationBounds ==
  (~stuck /\ \A p \in Writers : pc[p] = "idle" /\ outcome[p] # "error")
    => Cardinality(Present) <= MaxHistory

\* And no rotation removes what another would keep: with at most one
\* snapshot a second, a file is gone only when MaxHistory newer ones were
\* created, although listings grow stale and files arrive late.
NewestKept ==
  Distinct =>
    \A s \in Seconds :
      created[s] > 0 /\ (\A f \in Present : f.second # s) =>
        Cardinality(Newer(s)) >= MaxHistory

\* Snapshots that do not overlap, as many in one second as one likes, never
\* remove more than the surplus.
EnoughIsKept ==
  ~raced =>
    \A n \in 1 .. MaxHistory :
      (\E s \in Seconds : created[s] >= n) => Cardinality(Present) >= n

\* A reader that races rotations and returns has every file it listed that
\* no rotation may remove.
NewestReported ==
  [][\A r \in Readers :
       Return(r) /\ Distinct =>
         \A f \in listed[r] :
           Cardinality(Newer(f.second)) < MaxHistory => f \in result[r]]_vars
=============================================================================
