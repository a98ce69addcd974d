---------------------------- MODULE SchemaCache ----------------------------
(***************************************************************************)
(* The persisted schema cache: cache.rs, SchemaCache.                      *)
(*                                                                         *)
(* A handle is one SchemaCache value in one process.  Its methods take     *)
(* &mut self (Python serialises them with a mutex), so a handle runs one   *)
(* call at a time; handles of different processes share the cache file and *)
(* the live database, and the live database changes while they read it.    *)
(* A step is what happens between two awaits:                              *)
(*                                                                         *)
(*   open     read the file, and serve it, or migrate a legacy file first, *)
(*            or list, read and sign the tables, then write the file       *)
(*   load     read the file or migrate a legacy file                       *)
(*   refresh  list, read and sign every table, compare, write the file     *)
(*   refresh_table  read and sign one table, compare, write the file       *)
(*   invalidate_table  replace one hash by the sentinel, write the file    *)
(*   run_sql  consult the memo                                             *)
(*                                                                         *)
(* A shape is what introspection returns for a table; Sig says what of it  *)
(* ddl_signature hashes (columns and keys, not the comment nor the row     *)
(* count).  Hashes do not collide.                                         *)
(***************************************************************************)
EXTENDS Naturals, Sequences

CONSTANTS
  Handles,     \* open caches, each in a process of its own
  TableOrder,  \* the table names, in the order of their qualified names
  Shapes,      \* what introspect_table can return
  Hollow,      \* what it returns for a table that is not there: no columns
  Sigs,        \* DDL hashes
  Sig,         \* the hash of a shape's signature
  TTL,         \* CacheOptions::ttl
  MaxTime,     \* bound: the clock stops here
  MaxChanges,  \* bound: the live database changes as often
  Calls,       \* the methods the processes call once a cache is open
  Memoize,     \* CacheOptions::memoize_results
  Legacy,      \* TRUE: a pre-0.9 database.json is there at the start
  Absent, Listed, Invalidated, NotFound, Torn, NoCache  \* model values

Tables == {TableOrder[i] : i \in DOMAIN TableOrder}

ASSUME TableOrderAssumption ==
  /\ TableOrder \in Seq(Tables)
  /\ \A i, j \in DOMAIN TableOrder : TableOrder[i] = TableOrder[j] => i = j
ASSUME SigAssumption ==
  /\ Hollow \in Shapes
  /\ Sig \in [Shapes -> Sigs]
  /\ Invalidated \notin Tables \X Sigs
ASSUME TimeAssumption == TTL \in Nat /\ MaxTime \in Nat /\ MaxChanges \in Nat
ASSUME CallsAssumption ==
  /\ Calls \subseteq {"refresh", "refresh_table", "invalidate_table"}
  /\ Memoize \in BOOLEAN
  /\ Legacy \in BOOLEAN

VARIABLES
  live,     \* the database: the shape of each table, or Absent
  changes,  \* how often it has changed
  now,      \* the wall clock
  file,     \* database.json.zst: an envelope, NotFound, Torn (bytes that do
            \* not decode), or the handle that has truncated it
  legacy,   \* database.json: an envelope or NotFound
  pc,       \* where each handle is in its call
  op,       \* the call it makes: "populate" is an open that introspects
  mem,      \* SchemaCache::database, or NoCache
  work,     \* the tables it is reading: Absent, Listed, a shape, an entry
  buffer,   \* the envelope it writes or has read, or NotFound
  memo,     \* keys of the memo, for one query
  outcome,  \* how the last call ended
  seen,     \* history: the shapes a table had since the handle listed it
  owed      \* history: tables marked stale by a call that returned, and not
            \* read again since

vars == <<live, changes, now, file, legacy, pc, op, mem, work, buffer, memo,
          outcome, seen, owed>>
world == <<live, changes, now>>
ghosts == <<seen, owed>>

\* The signature names its table, the sentinel does not.
Hashes == (Tables \X Sigs) \cup {Invalidated}
Entry == [shape : Shapes, hash : Hashes]
TableMaps == [Tables -> Entry \cup {Absent}]

\* The hashes of the tables there are, in order, hashed together.  The empty
\* sequence stands for no fingerprint.
Fingerprint(tables) ==
  LET present == SelectSeq(TableOrder, LAMBDA t : tables[t] # Absent)
  IN  [i \in DOMAIN present |-> tables[present[i]].hash]

Fingerprints == {Fingerprint(tables) : tables \in TableMaps}
Databases == [tables : TableMaps, fingerprint : Fingerprints]
Envelopes == [saved : 0 .. MaxTime, db : Databases]

TypeOK ==
  /\ live \in [Tables -> Shapes \cup {Absent}]
  /\ changes \in 0 .. MaxChanges
  /\ now \in 0 .. MaxTime
  /\ file \in Envelopes \cup {NotFound, Torn} \cup Handles
  /\ legacy \in Envelopes \cup {NotFound}
  /\ pc \in [Handles -> {"closed", "idle", "probe", "list", "gather",
                         "truncate", "write", "unlink"}]
  /\ op \in [Handles -> {"none", "open", "load", "populate", "refresh",
                         "refresh_table", "invalidate_table"}]
  /\ mem \in [Handles -> Databases \cup {NoCache}]
  /\ work \in [Handles -> [Tables -> Entry \cup Shapes \cup {Listed, Absent}]]
  /\ buffer \in [Handles -> Envelopes \cup {NotFound}]
  /\ memo \in [Handles -> SUBSET [fingerprint : Fingerprints,
                                  current : BOOLEAN]]
  /\ outcome \in [Handles -> {"none", "ok", "error", "decode"}]
  /\ seen \in [Handles -> [Tables -> SUBSET (Shapes \cup {Absent})]]
  /\ owed \in SUBSET Tables

ASSUME ModelValueAssumption ==
  /\ NotFound # Torn
  /\ {NotFound, Torn} \cap (Envelopes \cup Handles) = {}
  /\ Handles \cap Envelopes = {}
  /\ NoCache \notin Databases
  /\ Absent # Listed
  /\ {Absent, Listed} \cap (Shapes \cup Entry) = {}
  /\ Shapes \cap Entry = {}

\* The image of a database that does not change while it is read.
Image(tables) ==
  [t \in Tables |-> IF tables[t] = Absent THEN Absent
                    ELSE [shape |-> tables[t], hash |-> <<t, Sig[tables[t]]>>]]

NoTables == [t \in Tables |-> Absent]
NothingSeen == [t \in Tables |-> {}]

(***************************************************************************)
(* Helpers.  A definition whose comment starts with "Mutant" is a bug this *)
(* code could have: it stands for the definition after it when the         *)
(* properties are tested, and nothing uses it.                             *)
(***************************************************************************)

DatabaseOf(tables) ==
  [tables |-> tables, fingerprint |-> Fingerprint(tables)]

\* Mutant: the fingerprint is not recomputed.
MarkedOnly(db, t) ==
  [db EXCEPT !.tables = [@ EXCEPT ![t].hash = Invalidated]]

\* The database with the hash of t replaced by the sentinel.
Marked(db, t) ==
  DatabaseOf([db.tables EXCEPT ![t].hash = Invalidated])

\* Mutants: the envelope is built before the database is replaced; it is
\* stamped with the time it expires.
StampedBefore(h, db) ==
  [saved |-> now, db |-> IF mem[h] = NoCache THEN db ELSE mem[h]]
StampedExpiry(h, db) == [saved |-> now + TTL + 1, db |-> db]

\* What write_envelope writes for a database of h.
Stamped(h, db) == [saved |-> now, db |-> db]

IsStale(env) == now > env.saved + TTL

\* Mutant: the old and the new entry are compared the wrong way about: an
\* entry with no valid hash counts as unchanged.
SameHashOrNone(old, new) ==
  old # Absent /\ (old.hash = Invalidated \/ old.hash = new.hash)

\* What a refresh takes for an unchanged table.
SameHash(old, new) == old # Absent /\ old.hash = new.hash

\* What a query by name returns for t now.
Answer(t) == IF live[t] = Absent THEN Hollow ELSE live[t]

Read(h) == {t \in Tables : work[h][t] \in Entry}

\* Mutant: tables that were never listed are waited for.
Missing(h) == {t \in Tables : work[h][t] \notin Entry}

\* The tables whose jobs are not finished.
Unfinished(h) == {t \in Tables : work[h][t] \in Shapes \cup {Listed}}

(***************************************************************************)
(* Reading the file: read_envelope.  Of the calls only open and load read  *)
(* it, so the handle is closed.  A reader that finds another process half  *)
(* way through a write gets bytes that do not decode.                      *)
(***************************************************************************)
Begin(h, name) ==
  /\ op' = [op EXCEPT ![h] = name]
  /\ outcome' = [outcome EXCEPT ![h] = "none"]

\* The end of a call: what it worked with goes out of scope.
End(h, where, how) ==
  /\ pc' = [pc EXCEPT ![h] = where]
  /\ op' = [op EXCEPT ![h] = "none"]
  /\ outcome' = [outcome EXCEPT ![h] = how]
  /\ work' = [work EXCEPT ![h] = NoTables]
  /\ buffer' = [buffer EXCEPT ![h] = NotFound]
  /\ seen' = [seen EXCEPT ![h] = NothingSeen]

\* The call ends by giving out a handle on db.
Serve(h, db) ==
  /\ mem' = [mem EXCEPT ![h] = db]
  /\ End(h, "idle", "ok")

\* from_introspector reuses a file that is not stale; load any file.
ServeFile(h, name) ==
  /\ pc[h] = "closed"
  /\ file \in Envelopes
  /\ name = "open" => ~IsStale(file)
  /\ Serve(h, file.db)
  /\ UNCHANGED <<world, file, legacy, memo, owed>>

\* A file that is too old is not used: go and introspect.
OpenStale(h) ==
  /\ pc[h] = "closed"
  /\ file \in Envelopes
  /\ IsStale(file)
  /\ Begin(h, "populate")
  /\ pc' = [pc EXCEPT ![h] = "list"]
  /\ UNCHANGED <<world, file, legacy, mem, work, buffer, memo, ghosts>>

\* The file does not decode, or cannot be read: the error is passed on.
ReadFails(h) ==
  /\ pc[h] = "closed"
  /\ \/ file \in {Torn} \cup Handles /\ End(h, "closed", "decode")
     \/ End(h, "closed", "error")
  /\ UNCHANGED <<world, file, legacy, mem, memo, owed>>

\* There is no file: a legacy one is looked for next.
FindNone(h, name) ==
  /\ pc[h] = "closed"
  /\ file = NotFound
  /\ Begin(h, name)
  /\ pc' = [pc EXCEPT ![h] = "probe"]
  /\ UNCHANGED <<world, file, legacy, mem, work, buffer, memo, ghosts>>

\* It is read, to be written in the new format.
Migrate(h) ==
  /\ pc[h] = "probe"
  /\ legacy \in Envelopes
  /\ buffer' = [buffer EXCEPT ![h] = legacy]
  /\ pc' = [pc EXCEPT ![h] = "truncate"]
  /\ UNCHANGED <<world, file, legacy, op, mem, work, memo, outcome, ghosts>>

\* There is none: an open introspects, a load returns None.
FindNoLegacy(h) ==
  /\ pc[h] = "probe"
  /\ legacy = NotFound
  /\ IF op[h] = "open"
     THEN /\ Begin(h, "populate")
          /\ pc' = [pc EXCEPT ![h] = "list"]
          /\ UNCHANGED <<work, buffer, seen>>
     ELSE End(h, "closed", "none")
  /\ UNCHANGED <<world, file, legacy, mem, memo, owed>>

\* The legacy file is removed once the new one is complete.  A failure to
\* remove it is ignored.
Unlink(h) ==
  /\ pc[h] = "unlink"
  /\ legacy' \in {legacy, NotFound}
  /\ IF op[h] = "open" /\ IsStale(buffer[h])
     THEN /\ op' = [op EXCEPT ![h] = "populate"]
          /\ pc' = [pc EXCEPT ![h] = "list"]
          /\ buffer' = [buffer EXCEPT ![h] = NotFound]
          /\ UNCHANGED <<mem, work, outcome, seen>>
     ELSE Serve(h, buffer[h].db)
  /\ UNCHANGED <<world, file, memo, owed>>

(***************************************************************************)
(* The calls on an open cache.  A name that is not cached is refused with  *)
(* no effect, which is no step here.                                       *)
(***************************************************************************)
Idle(h, name) == pc[h] = "idle" /\ name \in Calls

\* What the memo holds when the database of h is replaced.
Outdated(h) == {[key EXCEPT !.current = FALSE] : key \in memo[h]}

Refresh(h) ==
  /\ Idle(h, "refresh")
  /\ Begin(h, "refresh")
  /\ pc' = [pc EXCEPT ![h] = "list"]
  /\ UNCHANGED <<world, file, legacy, mem, work, buffer, memo, ghosts>>

RefreshTable(h, t) ==
  /\ Idle(h, "refresh_table")
  /\ mem[h].tables[t] # Absent
  /\ Begin(h, "refresh_table")
  /\ pc' = [pc EXCEPT ![h] = "gather"]
  /\ work' = [work EXCEPT ![h] = [NoTables EXCEPT ![t] = Listed]]
  /\ seen' = [seen EXCEPT ![h] = [NothingSeen EXCEPT ![t] = {live[t]}]]
  /\ UNCHANGED <<world, file, legacy, mem, buffer, memo, owed>>

InvalidateTable(h, t) ==
  /\ Idle(h, "invalidate_table")
  /\ mem[h].tables[t] # Absent
  /\ Begin(h, "invalidate_table")
  /\ pc' = [pc EXCEPT ![h] = "truncate"]
  /\ mem' = [mem EXCEPT ![h] = Marked(mem[h], t)]
  /\ buffer' = [buffer EXCEPT ![h] = Stamped(h, Marked(mem[h], t))]
  /\ memo' = [memo EXCEPT ![h] = Outdated(h)]
  /\ UNCHANGED <<world, file, legacy, work, ghosts>>

\* A memoized query: a hit changes nothing that matters here, a miss runs
\* the query and stores its result under the fingerprint of the moment.
RunSql(h) ==
  /\ pc[h] = "idle"
  /\ Memoize
  /\ mem[h].fingerprint # << >>
  /\ \A key \in memo[h] : key.fingerprint # mem[h].fingerprint
  /\ memo' = [memo EXCEPT ![h] =
       @ \cup {[fingerprint |-> mem[h].fingerprint, current |-> TRUE]}]
  /\ UNCHANGED <<world, file, legacy, pc, op, mem, work, buffer, outcome,
                 ghosts>>

(***************************************************************************)
(* Introspection.  The jobs of a listing run interleaved, each reads its   *)
(* table and then signs it with a second read; the database may change     *)
(* between any two of these.                                               *)
(***************************************************************************)
List(h) ==
  /\ pc[h] = "list"
  /\ pc' = [pc EXCEPT ![h] = "gather"]
  /\ work' = [work EXCEPT ![h] =
       [t \in Tables |-> IF live[t] = Absent THEN Absent ELSE Listed]]
  /\ seen' = [seen EXCEPT ![h] = [t \in Tables |-> {live[t]}]]
  /\ UNCHANGED <<world, file, legacy, op, mem, buffer, memo, outcome, owed>>

IntrospectTable(h, t) ==
  /\ pc[h] = "gather"
  /\ work[h][t] = Listed
  /\ work' = [work EXCEPT ![h][t] = Answer(t)]
  /\ UNCHANGED <<world, file, legacy, pc, op, mem, buffer, memo, outcome, ghosts>>

SignTable(h, t) ==
  /\ pc[h] = "gather"
  /\ work[h][t] \in Shapes
  /\ work' = [work EXCEPT ![h][t] =
       [shape |-> work[h][t], hash |-> <<t, Sig[Answer(t)]>>]]
  /\ UNCHANGED <<world, file, legacy, pc, op, mem, buffer, memo, outcome, ghosts>>

\* Any query failed: the first error is returned, nothing is kept.
GatherFails(h) ==
  /\ pc[h] \in {"list", "gather"}
  /\ End(h, IF op[h] = "populate" THEN "closed" ELSE "idle", "error")
  /\ UNCHANGED <<world, file, legacy, mem, memo, owed>>

\* Mutant: a refresh goes through the tables it knows.
ReplacingKnown(h) ==
  IF op[h] = "populate" THEN work[h]
  ELSE [t \in Tables |-> IF t \in Read(h) /\ mem[h].tables[t] # Absent
                         THEN work[h][t] ELSE mem[h].tables[t]]

\* The tables of the new database.
Replacing(h) ==
  IF op[h] = "refresh_table"
  THEN [t \in Tables |-> IF t \in Read(h) THEN work[h][t] ELSE mem[h].tables[t]]
  ELSE work[h]

\* The two lists of the RefreshReport.
Unchanged(h) ==
  {t \in Read(h) : SameHash(mem[h].tables[t], work[h][t])}

Changed(h) == Read(h) \ Unchanged(h)

\* The last table is in: sort, fingerprint, compare, replace the database.
Assemble(h) ==
  /\ pc[h] = "gather"
  /\ Unfinished(h) = {}
  /\ pc' = [pc EXCEPT ![h] = "truncate"]
  /\ buffer' = [buffer EXCEPT ![h] = Stamped(h, DatabaseOf(Replacing(h)))]
  /\ IF op[h] = "populate"
     THEN UNCHANGED <<mem, memo>>
     ELSE /\ mem' = [mem EXCEPT ![h] = DatabaseOf(Replacing(h))]
          /\ memo' = [memo EXCEPT ![h] = Outdated(h)]
  /\ owed' = IF op[h] = "refresh_table" THEN owed \ Read(h) ELSE {}
  /\ UNCHANGED <<world, file, legacy, op, work, outcome, seen>>

(***************************************************************************)
(* Writing the file: write_envelope_at, which truncates the file and then  *)
(* writes it.                                                              *)
(***************************************************************************)
Truncate(h) ==
  /\ pc[h] = "truncate"
  /\ pc' = [pc EXCEPT ![h] = "write"]
  /\ file' = h
  /\ UNCHANGED <<world, legacy, op, mem, work, buffer, memo, outcome, ghosts>>

\* Two processes that write at the same time may leave a mixture.
Alone(h) == file = h /\ \A g \in Handles \ {h} : pc[g] # "write"

\* Mutant: the result of the write is ignored.
WrittenOrNot(h) == {buffer[h], Torn}

\* What the file may hold when the write of h has returned.
Written(h) == IF Alone(h) THEN {buffer[h]} ELSE {buffer[h], Torn}

\* What is left of the file when a write of h stops before its end.
Abandoned(h) ==
  IF pc[h] # "write" THEN {file}
  ELSE IF file = h THEN {Torn}
  ELSE {file, Torn}

\* Mutant: the memo is cleared only of what another fingerprint keys.
KeptUnlessMoved(h) ==
  {key \in memo[h] : key.fingerprint = mem[h].fingerprint}

\* What the memo keeps when a call that replaced the database returns.
Kept(h) == {}

Write(h) ==
  /\ pc[h] = "write"
  /\ file' \in Written(h)
  /\ IF op[h] \in {"open", "load"}
     THEN /\ pc' = [pc EXCEPT ![h] = "unlink"]
          /\ UNCHANGED <<op, mem, work, buffer, memo, outcome, ghosts>>
     ELSE /\ Serve(h, IF op[h] = "populate" THEN buffer[h].db ELSE mem[h])
          /\ memo' = [memo EXCEPT ![h] = Kept(h)]
          /\ owed' = IF op[h] = "invalidate_table"
                     THEN owed \cup {t \in Tables :
                            /\ mem[h].tables[t] # Absent
                            /\ mem[h].tables[t].hash = Invalidated}
                     ELSE owed
  /\ UNCHANGED <<world, legacy>>

\* The disk is full, or the directory is gone: the error is returned.  The
\* database in memory has been replaced already and the memo is not cleared.
WriteFails(h) ==
  /\ pc[h] \in {"truncate", "write"}
  /\ file' \in Abandoned(h)
  /\ End(h, IF op[h] \in {"open", "load", "populate"} THEN "closed" ELSE "idle", "error")
  /\ UNCHANGED <<world, legacy, mem, memo, owed>>

(***************************************************************************)
(* The world around.                                                       *)
(***************************************************************************)

\* A process ends, in the middle of a call or not, and its memory is lost.
Exit(h) ==
  /\ pc[h] # "closed"
  /\ file' \in Abandoned(h)
  /\ mem' = [mem EXCEPT ![h] = NoCache]
  /\ memo' = [memo EXCEPT ![h] = {}]
  /\ End(h, "closed", "none")
  /\ UNCHANGED <<world, legacy, owed>>

\* A migration creates, alters or drops a table of the live database, or its
\* rows change.
Alter(t, shape) ==
  /\ changes < MaxChanges
  /\ changes' = changes + 1
  /\ live[t] # shape
  /\ live' = [live EXCEPT ![t] = shape]
  /\ seen' = [h \in Handles |->
       IF pc[h] = "gather" THEN [seen[h] EXCEPT ![t] = @ \cup {shape}] ELSE seen[h]]
  /\ UNCHANGED <<now, file, legacy, pc, op, mem, work, buffer, memo, outcome, owed>>

Tick ==
  /\ now < MaxTime
  /\ now' = now + 1
  /\ UNCHANGED <<live, changes, file, legacy, pc, op, mem, work, buffer, memo, outcome, ghosts>>

(***************************************************************************)
(* The specification.                                                      *)
(***************************************************************************)
States == (Shapes \ {Hollow}) \cup {Absent}

Init ==
  /\ live \in [Tables -> States]
  /\ changes = 0
  /\ now = 0
  /\ file = NotFound
  /\ legacy = IF Legacy THEN [saved |-> 0, db |-> DatabaseOf(Image(live))]
              ELSE NotFound
  /\ pc = [h \in Handles |-> "closed"]
  /\ op = [h \in Handles |-> "none"]
  /\ mem = [h \in Handles |-> NoCache]
  /\ work = [h \in Handles |-> NoTables]
  /\ buffer = [h \in Handles |-> NotFound]
  /\ memo = [h \in Handles |-> {}]
  /\ outcome = [h \in Handles |-> "none"]
  /\ seen = [h \in Handles |-> NothingSeen]
  /\ owed = {}

\* What a call in progress does when nothing fails.
Proceed(h) ==
  \/ Migrate(h)
  \/ FindNoLegacy(h)
  \/ List(h)
  \/ \E t \in Tables : IntrospectTable(h, t) \/ SignTable(h, t)
  \/ Assemble(h)
  \/ Truncate(h)
  \/ Write(h)
  \/ Unlink(h)

Call(h) ==
  \/ \E name \in {"open", "load"} : ServeFile(h, name) \/ FindNone(h, name)
  \/ OpenStale(h)
  \/ ReadFails(h)
  \/ Refresh(h)
  \/ \E t \in Tables : RefreshTable(h, t) \/ InvalidateTable(h, t)
  \/ RunSql(h)

Environment ==
  \/ \E h \in Handles : Exit(h)
  \/ \E t \in Tables, shape \in States : Alter(t, shape)
  \/ Tick

Next ==
  \/ \E h \in Handles : Call(h) \/ Proceed(h) \/ GatherFails(h) \/ WriteFails(h)
  \/ Environment

Spec == Init /\ [][Next]_vars

\* The backend answers and the file system returns, so a call goes on.
FairSpec == Spec /\ \A h \in Handles : WF_vars(Proceed(h))

(***************************************************************************)
(* Properties.                                                             *)
(***************************************************************************)

\* The fingerprint is the one of the tables, in memory, in the file and in
\* what is about to be written: refresh_table and invalidate_table, which
\* change one table in place, leave no fingerprint of the old tables behind.
FingerprintCoherent ==
  /\ \A h \in Handles :
       /\ mem[h] # NoCache => mem[h] = DatabaseOf(mem[h].tables)
       /\ buffer[h] # NotFound => buffer[h].db = DatabaseOf(buffer[h].db.tables)
  /\ file \in Envelopes => file.db = DatabaseOf(file.db.tables)

\* What an introspection is about to write was all there in the live database
\* since it was listed: the shape and the hash of each table it covers (which
\* may be of two different moments), and the absence of the others, so that
\* new tables are found and dropped ones forgotten.  A database that does not
\* change meanwhile is recorded exactly.
ImageWasSeen ==
  \A h \in Handles : \A t \in Tables :
    /\ pc[h] \in {"truncate", "write"}
    /\ op[h] \in {"populate", "refresh"} \/ t \in Read(h)
    => LET entry == buffer[h].db.tables[t]
           answers == (seen[h][t] \ {Absent})
                        \cup (IF Absent \in seen[h][t] THEN {Hollow} ELSE {})
       IN  IF entry = Absent
           THEN Absent \in seen[h][t]
           ELSE /\ entry.shape \in answers
                /\ \E shape \in answers : entry.hash = <<t, Sig[shape]>>

\* With one process: when a call has returned without an error, the file and
\* the memory hold the same database, whatever failed or crashed before.
Durable ==
  \A h \in Handles :
    pc[h] = "idle" /\ outcome[h] = "ok" =>
      file \in Envelopes /\ file.db = mem[h]

\* "Internally sets the table's ddl_hash to the sentinel and rewrites the
\* persisted cache file so the invalidation survives process restarts."
\* Once invalidate_table has returned, whatever file there is carries the
\* sentinel until the table is read again.
InvalidationPersists ==
  file \in Envelopes =>
    \A t \in owed : file.db.tables[t] # Absent
                     /\ file.db.tables[t].hash = Invalidated

\* And the next refresh that covers the table, in this process or after a
\* restart, reports it as changed even if its DDL is what it was.
InvalidatedIsReported ==
  [][\A h \in Handles :
       Assemble(h) /\ op[h] # "populate" =>
         owed \cap Read(h) \subseteq Changed(h)]_vars

\* With one process: the legacy file is given up only when the new file holds
\* the same envelope.
LegacyOutlivesMigration == [][legacy' # legacy => file = legacy]_vars

\* After a call that returned without an error the memo holds no result that
\* was computed under an earlier database.
MemoFollowsRefresh ==
  \A h \in Handles :
    pc[h] = "idle" /\ outcome[h] = "ok" => \A key \in memo[h] : key.current

\* Every call that reads or writes ends, whatever the database, the other
\* processes and the disk do.
CallsEnd ==
  \A h \in Handles :
    pc[h] \notin {"closed", "idle"} ~> pc[h] \in {"closed", "idle"}

(***************************************************************************)
(* What the documentation says and the code does not do.                   *)
(***************************************************************************)

\* "Invalidate the memo cache - fingerprint may have moved and any cached
\* result is now suspect": once a call is over, no result computed under an
\* earlier database can be served under the present one.
SuspectsAreCleared ==
  \A h \in Handles :
    pc[h] = "idle" =>
      \A key \in memo[h] :
        key.fingerprint = mem[h].fingerprint => key.current
=============================================================================
