------------------------- MODULE SchemaCacheProofs -------------------------
(***************************************************************************)
(* Proofs about SchemaCache, for every set of processes, tables and shapes *)
(* and every TTL and bound: types and the coherence of the fingerprints,   *)
(* and, for a cache that one process uses, durability.                     *)
(***************************************************************************)
EXTENDS SchemaCache, TLAPS

\* A database made of typed tables is typed.
LEMMA DatabaseOfType ==
  ASSUME NEW tables \in TableMaps
  PROVE  /\ DatabaseOf(tables) \in Databases
         /\ DatabaseOf(tables).tables = tables
BY DEF DatabaseOf, Databases, Fingerprints

\* The sentinel keeps the tables of a database typed.
LEMMA MarkedType ==
  ASSUME NEW db \in Databases, NEW t \in Tables, db.tables[t] # Absent
  PROVE  Marked(db, t) \in Databases
<1> DEFINE tables == [db.tables EXCEPT ![t].hash = Invalidated]
<1>1. db.tables \in TableMaps
  BY DEF Databases
<1>2. db.tables[t] \in Entry
  BY <1>1 DEF TableMaps
<1>3. [db.tables[t] EXCEPT !.hash = Invalidated] \in Entry
  BY <1>2 DEF Entry, Hashes
<1>4. tables \in TableMaps
  BY <1>1, <1>3 DEF TableMaps
<1>5. QED
  BY <1>4, DatabaseOfType DEF Marked

\* So does a reading of the live database.
LEMMA ImageType ==
  ASSUME NEW tables \in [Tables -> Shapes \cup {Absent}]
  PROVE  Image(tables) \in TableMaps
<1>1. ASSUME NEW t \in Tables, tables[t] # Absent
      PROVE  [shape |-> tables[t], hash |-> <<t, Sig[tables[t]]>>] \in Entry
  <2>1. tables[t] \in Shapes
    BY <1>1
  <2>2. Sig[tables[t]] \in Sigs
    BY <2>1, SigAssumption
  <2>3. <<t, Sig[tables[t]]>> \in Hashes
    BY <2>2 DEF Hashes
  <2>4. QED
    BY <2>1, <2>3 DEF Entry
<1>2. QED
  BY <1>1 DEF Image, TableMaps

\* What an assembled database is made of is typed.
LEMMA ReplacingType ==
  ASSUME TypeOK, NEW h \in Handles, Unfinished(h) = {},
         op[h] = "refresh_table" => mem[h] \in Databases
  PROVE  Replacing(h) \in TableMaps
<1>1. \A t \in Tables : work[h][t] \in Entry \cup {Absent}
  BY DEF TypeOK, Unfinished
<1>2. work[h] \in TableMaps
  BY <1>1 DEF TypeOK, TableMaps
<1>3. CASE op[h] = "refresh_table"
  <2>1. \A t \in Tables : mem[h].tables[t] \in Entry \cup {Absent}
    BY <1>3 DEF Databases, TableMaps
  <2>2. \A t \in Read(h) : work[h][t] \in Entry
    BY DEF Read
  <2>3. QED
    BY <1>3, <2>1, <2>2 DEF Replacing, TableMaps
<1>4. CASE op[h] # "refresh_table"
  BY <1>2, <1>4 DEF Replacing
<1>5. QED
  BY <1>3, <1>4

LEMMA StampedType ==
  ASSUME TypeOK, NEW h \in Handles, NEW db \in Databases
  PROVE  Stamped(h, db) \in Envelopes /\ Stamped(h, db).db = db
BY DEF TypeOK, Stamped, Envelopes

LEMMA OutdatedType ==
  ASSUME TypeOK, NEW h \in Handles
  PROVE  Outdated(h) \subseteq [fingerprint : Fingerprints, current : BOOLEAN]
<1>1. memo[h] \subseteq [fingerprint : Fingerprints, current : BOOLEAN]
  BY DEF TypeOK
<1>2. QED
  BY <1>1 DEF Outdated

(***************************************************************************)
(* The inductive invariant.  An open handle and the calls on it have a     *)
(* database, a call that is to write has an envelope, and each call is in  *)
(* the steps its name allows.                                              *)
(***************************************************************************)
Returning == {"refresh", "refresh_table", "invalidate_table"}

HasDatabase ==
  \A h \in Handles :
    pc[h] = "idle" \/ op[h] \in Returning => mem[h] \in Databases

HasEnvelope ==
  \A h \in Handles :
    pc[h] \in {"truncate", "write", "unlink"} => buffer[h] \in Envelopes

InItsSteps ==
  \A h \in Handles :
    /\ pc[h] = "probe" => op[h] \in {"open", "load"}
    /\ pc[h] \in {"list", "gather"} =>
         op[h] \in {"populate", "refresh", "refresh_table"}
    /\ pc[h] \in {"truncate", "write"} => op[h] # "none"

Structure == HasDatabase /\ HasEnvelope /\ InItsSteps

Coherent(db) == db = DatabaseOf(db.tables)

LegacyCoherent == legacy # NotFound => Coherent(legacy.db)

CoherentInv == TypeOK /\ Structure /\ FingerprintCoherent /\ LegacyCoherent

\* What ends a call is typed.
LEMMA EndType ==
  ASSUME TypeOK, NEW h \in Handles, NEW where \in {"closed", "idle"},
         NEW how \in {"none", "ok", "error", "decode"}, End(h, where, how)
  PROVE  /\ pc' \in [Handles -> {"closed", "idle", "probe", "list", "gather",
                                 "truncate", "write", "unlink"}]
         /\ op' \in [Handles -> {"none", "open", "load", "populate", "refresh",
                                 "refresh_table", "invalidate_table"}]
         /\ work' \in [Handles ->
                          [Tables -> Entry \cup Shapes \cup {Listed, Absent}]]
         /\ buffer' \in [Handles -> Envelopes \cup {NotFound}]
         /\ outcome' \in [Handles -> {"none", "ok", "error", "decode"}]
         /\ seen' \in [Handles -> [Tables -> SUBSET (Shapes \cup {Absent})]]
<1>1. NoTables \in [Tables -> Entry \cup Shapes \cup {Listed, Absent}]
  BY DEF NoTables
<1>2. NothingSeen \in [Tables -> SUBSET (Shapes \cup {Absent})]
  BY DEF NothingSeen
<1>3. QED
  BY <1>1, <1>2 DEF TypeOK, End

\* The end of a call keeps the structure, if an idle handle has a database.
LEMMA EndStructure ==
  ASSUME TypeOK, Structure, NEW h \in Handles, NEW where \in {"closed", "idle"},
         NEW how, End(h, where, how),
         where = "idle" => mem'[h] \in Databases,
         \A g \in Handles \ {h} : mem'[g] = mem[g]
  PROVE  Structure'
<1> SUFFICES ASSUME NEW g \in Handles
             PROVE  /\ pc'[g] = "idle" \/ op'[g] \in Returning => mem'[g] \in Databases
                    /\ pc'[g] \in {"truncate", "write", "unlink"} =>
                         buffer'[g] \in Envelopes
                    /\ pc'[g] = "probe" => op'[g] \in {"open", "load"}
                    /\ pc'[g] \in {"list", "gather"} =>
                         op'[g] \in {"populate", "refresh", "refresh_table"}
                    /\ pc'[g] \in {"truncate", "write"} => op'[g] # "none"
  BY DEF Structure, HasDatabase, HasEnvelope, InItsSteps
<1>1. CASE g = h
  BY <1>1 DEF End, TypeOK, Returning
<1>2. CASE g # h
  BY <1>2 DEF End, TypeOK, Structure, HasDatabase, HasEnvelope, InItsSteps
<1>3. QED
  BY <1>1, <1>2

LEMMA InitCoherent == Init => CoherentInv
<1> SUFFICES ASSUME Init PROVE CoherentInv
  OBVIOUS
<1>1. live \in [Tables -> Shapes \cup {Absent}]
  BY DEF Init, States
<1>2. Image(live) \in TableMaps
  BY <1>1, ImageType
<1>3. /\ DatabaseOf(Image(live)) \in Databases
      /\ DatabaseOf(Image(live)).tables = Image(live)
  BY <1>2, DatabaseOfType
<1>4. [saved |-> 0, db |-> DatabaseOf(Image(live))] \in Envelopes
  BY <1>3, TimeAssumption DEF Envelopes
<1>5. TypeOK
  <2>1. legacy \in Envelopes \cup {NotFound}
    BY <1>4 DEF Init
  <2>2. /\ changes \in 0 .. MaxChanges
        /\ now \in 0 .. MaxTime
    BY TimeAssumption DEF Init
  <2>3. QED
    BY <1>1, <2>1, <2>2 DEF Init, TypeOK, NoTables, NothingSeen
<1>6. Structure
  BY DEF Init, Structure, HasDatabase, HasEnvelope, InItsSteps, Returning
<1>7. LegacyCoherent
  BY <1>3 DEF Init, LegacyCoherent, Coherent
<1>8. FingerprintCoherent
  BY ModelValueAssumption DEF Init, FingerprintCoherent
<1>9. QED
  BY <1>5, <1>6, <1>7, <1>8 DEF CoherentInv

\* The steps that only move a call on.
LEMMA OpenStaleKeeps ==
  ASSUME CoherentInv, NEW h \in Handles, OpenStale(h)
  PROVE  CoherentInv'
<1> USE DEF CoherentInv
<1>types. TypeOK'
  BY DEF OpenStale, Begin, world, ghosts, TypeOK
<1>structure. Structure'
  BY DEF OpenStale, Begin, world, ghosts, Structure, HasDatabase, HasEnvelope, InItsSteps, Returning, TypeOK
<1>coherent. FingerprintCoherent' /\ LegacyCoherent'
  BY ModelValueAssumption DEF OpenStale, Begin, world, ghosts, FingerprintCoherent, LegacyCoherent, Coherent, TypeOK
<1>qed. QED
  BY <1>types, <1>structure, <1>coherent

\* A refresh starts.
LEMMA RefreshKeeps ==
  ASSUME CoherentInv, NEW h \in Handles, Refresh(h)
  PROVE  CoherentInv'
<1> USE DEF CoherentInv
<1>types. TypeOK'
  BY DEF Refresh, Idle, Begin, world, ghosts, TypeOK
<1>structure. Structure'
  BY DEF Refresh, Idle, Begin, world, ghosts, Structure, HasDatabase, HasEnvelope, InItsSteps, Returning, TypeOK
<1>coherent. FingerprintCoherent' /\ LegacyCoherent'
  BY ModelValueAssumption DEF Refresh, Idle, Begin, world, ghosts, FingerprintCoherent, LegacyCoherent, Coherent, TypeOK
<1>qed. QED
  BY <1>types, <1>structure, <1>coherent

\* The file is truncated: it is no envelope until it is written.
LEMMA TruncateKeeps ==
  ASSUME CoherentInv, NEW h \in Handles, Truncate(h)
  PROVE  CoherentInv'
<1> USE DEF CoherentInv
<1>types. TypeOK'
  BY DEF Truncate, world, ghosts, TypeOK
<1>structure. Structure'
  BY DEF Truncate, world, ghosts, Structure, HasDatabase, HasEnvelope, InItsSteps, Returning, TypeOK
<1>coherent. FingerprintCoherent' /\ LegacyCoherent'
  BY ModelValueAssumption DEF Truncate, world, ghosts, FingerprintCoherent, LegacyCoherent, Coherent, TypeOK
<1>qed. QED
  BY <1>types, <1>structure, <1>coherent

\* No file is found.
LEMMA FindNoneKeeps ==
  ASSUME CoherentInv, NEW h \in Handles, NEW name \in {"open", "load"}, FindNone(h, name)
  PROVE  CoherentInv'
<1> USE DEF CoherentInv
<1>types. TypeOK'
  BY DEF FindNone, Begin, world, ghosts, TypeOK
<1>structure. Structure'
  BY DEF FindNone, Begin, world, ghosts, Structure, HasDatabase, HasEnvelope, InItsSteps, Returning, TypeOK
<1>coherent. FingerprintCoherent' /\ LegacyCoherent'
  BY DEF FindNone, Begin, world, ghosts, FingerprintCoherent, LegacyCoherent, Coherent, TypeOK
<1>qed. QED
  BY <1>types, <1>structure, <1>coherent

\* The file is served: its database is typed and coherent.
LEMMA ServeFileKeeps ==
  ASSUME CoherentInv, NEW h \in Handles, NEW name \in {"open", "load"}, ServeFile(h, name)
  PROVE  CoherentInv'
<1> USE DEF CoherentInv
<1>0. file.db \in Databases /\ file \in Envelopes
  BY DEF ServeFile, Envelopes
<1>types. TypeOK'
  BY <1>0, EndType DEF ServeFile, Serve, world, TypeOK
<1>structure. Structure'
  BY <1>0 DEF ServeFile, Serve, End, Structure, HasDatabase, HasEnvelope, InItsSteps, Returning, TypeOK
<1>coherent. FingerprintCoherent' /\ LegacyCoherent'
  BY <1>0, ModelValueAssumption DEF ServeFile, Serve, End, FingerprintCoherent, LegacyCoherent, Coherent, TypeOK
<1>qed. QED
  BY <1>types, <1>structure, <1>coherent

\* A file that cannot be read leaves a handle closed.
LEMMA ReadFailsKeeps ==
  ASSUME CoherentInv, NEW h \in Handles, ReadFails(h)
  PROVE  CoherentInv'
<1> USE DEF CoherentInv
<1>types. TypeOK'
  BY EndType DEF ReadFails, world, TypeOK
<1>structure. Structure'
  BY ZenonT(60) DEF ReadFails, End, Structure, HasDatabase, HasEnvelope, InItsSteps, Returning, TypeOK
<1>coherent. FingerprintCoherent' /\ LegacyCoherent'
  BY DEF ReadFails, End, FingerprintCoherent, LegacyCoherent, Coherent, TypeOK
<1>qed. QED
  BY <1>types, <1>structure, <1>coherent

\* The legacy envelope is what will be written.
LEMMA MigrateKeeps ==
  ASSUME CoherentInv, NEW h \in Handles, Migrate(h)
  PROVE  CoherentInv'
<1> USE DEF CoherentInv
<1>types. TypeOK'
  BY DEF Migrate, world, ghosts, TypeOK
<1>structure. Structure'
  BY DEF Migrate, world, ghosts, Structure, HasDatabase, HasEnvelope, InItsSteps, Returning, TypeOK
<1>coherent. FingerprintCoherent' /\ LegacyCoherent'
  BY ModelValueAssumption DEF Migrate, world, ghosts, FingerprintCoherent, LegacyCoherent, Coherent, TypeOK
<1>qed. QED
  BY <1>types, <1>structure, <1>coherent

\* There is nothing to migrate.
LEMMA FindNoLegacyKeeps ==
  ASSUME CoherentInv, NEW h \in Handles, FindNoLegacy(h)
  PROVE  CoherentInv'
<1> USE DEF CoherentInv
<1>types. TypeOK'
  BY EndType DEF FindNoLegacy, Begin, world, ghosts, TypeOK
<1>structure. Structure'
  <2>1. CASE op[h] = "open"
    <3>1. /\ op' = [op EXCEPT ![h] = "populate"]
          /\ pc' = [pc EXCEPT ![h] = "list"]
          /\ buffer' = buffer /\ mem' = mem
      BY <2>1 DEF FindNoLegacy, Begin
    <3>2. QED
      BY <3>1 DEF Structure, HasDatabase, HasEnvelope, InItsSteps, Returning, TypeOK
  <2>2. CASE op[h] # "open"
    <3>1. End(h, "closed", "none") /\ mem' = mem
      BY <2>2 DEF FindNoLegacy
    <3>2. QED
      BY <3>1, EndStructure
  <2>3. QED
    BY <2>1, <2>2
<1>coherent. FingerprintCoherent' /\ LegacyCoherent'
  BY DEF FindNoLegacy, Begin, End, world, ghosts, FingerprintCoherent, LegacyCoherent, Coherent, TypeOK
<1>qed. QED
  BY <1>types, <1>structure, <1>coherent

\* The migrated envelope is served, or found too old.
LEMMA UnlinkKeeps ==
  ASSUME CoherentInv, NEW h \in Handles, Unlink(h)
  PROVE  CoherentInv'
<1> USE DEF CoherentInv
<1>0. buffer[h] \in Envelopes /\ buffer[h].db \in Databases
  BY DEF Unlink, Structure, HasEnvelope, Envelopes
<1>types. TypeOK'
  BY <1>0, EndType DEF Unlink, Serve, world, TypeOK
<1>structure. Structure'
  <2>1. CASE op[h] = "open" /\ IsStale(buffer[h])
    <3>a. HasDatabase'
      BY <1>0, <2>1 DEF Unlink, Structure, HasDatabase, Returning, TypeOK
    <3>b. HasEnvelope'
      BY <1>0, <2>1 DEF Unlink, Structure, HasEnvelope, TypeOK
    <3>c. InItsSteps'
      BY <1>0, <2>1, ZenonT(60) DEF Unlink, Structure, InItsSteps, TypeOK
    <3>d. QED
      BY <3>a, <3>b, <3>c DEF Structure
  <2>2. CASE ~(op[h] = "open" /\ IsStale(buffer[h]))
    <3>1. mem' = [mem EXCEPT ![h] = buffer[h].db] /\ End(h, "idle", "ok")
      BY <2>2 DEF Unlink, Serve
    <3>2. mem'[h] \in Databases /\ \A g \in Handles \ {h} : mem'[g] = mem[g]
      BY <1>0, <3>1 DEF TypeOK
    <3>3. QED
      BY <3>1, <3>2, EndStructure
  <2>3. QED
    BY <2>1, <2>2
<1>coherent. FingerprintCoherent' /\ LegacyCoherent'
  <2>1. CASE op[h] = "open" /\ IsStale(buffer[h])
    BY <1>0, <2>1, ModelValueAssumption, ZenonT(60) DEF Unlink, FingerprintCoherent, LegacyCoherent, Coherent, TypeOK
  <2>2. CASE ~(op[h] = "open" /\ IsStale(buffer[h]))
    BY <1>0, <2>2, ModelValueAssumption, SMTT(60) DEF Unlink, Serve, End, FingerprintCoherent, LegacyCoherent, Coherent, TypeOK
  <2>3. QED
    BY <2>1, <2>2
<1>qed. QED
  BY <1>types, <1>structure, <1>coherent

\* A refresh of one table starts.
LEMMA RefreshTableKeeps ==
  ASSUME CoherentInv, NEW h \in Handles, NEW t \in Tables, RefreshTable(h, t)
  PROVE  CoherentInv'
<1> USE DEF CoherentInv
<1>types. TypeOK'
  BY DEF RefreshTable, Idle, Begin, NoTables, NothingSeen, world, TypeOK
<1>structure. Structure'
  BY DEF RefreshTable, Idle, Begin, world, Structure, HasDatabase, HasEnvelope, InItsSteps, Returning, TypeOK
<1>coherent. FingerprintCoherent' /\ LegacyCoherent'
  BY DEF RefreshTable, Idle, Begin, world, FingerprintCoherent, LegacyCoherent, Coherent, TypeOK
<1>qed. QED
  BY <1>types, <1>structure, <1>coherent

\* The sentinel is set and the fingerprint computed again.
LEMMA InvalidateTableKeeps ==
  ASSUME CoherentInv, NEW h \in Handles, NEW t \in Tables, InvalidateTable(h, t)
  PROVE  CoherentInv'
<1> USE DEF CoherentInv
<1>0. mem[h] \in Databases /\ mem[h].tables[t] # Absent
  BY DEF InvalidateTable, Idle, Structure, HasDatabase
<1>1. Marked(mem[h], t) \in Databases
  BY <1>0, MarkedType
<1>2. /\ Stamped(h, Marked(mem[h], t)) \in Envelopes
      /\ Stamped(h, Marked(mem[h], t)).db = Marked(mem[h], t)
  BY <1>1, StampedType
<1>3. Coherent(Marked(mem[h], t))
  BY DEF Marked, DatabaseOf, Coherent
<1>types. TypeOK'
  BY <1>1, <1>2, OutdatedType DEF InvalidateTable, Idle, Begin, world, ghosts, TypeOK
<1>structure. Structure'
  BY <1>1, <1>2 DEF InvalidateTable, Idle, Begin, world, ghosts, Structure, HasDatabase, HasEnvelope, InItsSteps, Returning, TypeOK
<1>coherent. FingerprintCoherent' /\ LegacyCoherent'
  BY <1>1, <1>2, <1>3, ModelValueAssumption DEF InvalidateTable, Idle, Begin, world, ghosts, FingerprintCoherent, LegacyCoherent, Coherent, TypeOK
<1>qed. QED
  BY <1>types, <1>structure, <1>coherent

\* A query touches the memo only.
LEMMA RunSqlKeeps ==
  ASSUME CoherentInv, NEW h \in Handles, RunSql(h)
  PROVE  CoherentInv'
<1> USE DEF CoherentInv
<1>0. mem[h].fingerprint \in Fingerprints
  BY DEF RunSql, Structure, HasDatabase, Databases
<1>1. memo' \in [Handles -> SUBSET [fingerprint : Fingerprints, current : BOOLEAN]]
  <2>1. {[fingerprint |-> mem[h].fingerprint, current |-> TRUE]}
          \subseteq [fingerprint : Fingerprints, current : BOOLEAN]
    BY <1>0
  <2>2. QED
    BY <2>1 DEF RunSql, TypeOK
<1>types. TypeOK'
  BY <1>1 DEF RunSql, world, ghosts, TypeOK
<1>structure. Structure'
  BY DEF RunSql, world, ghosts, Structure, HasDatabase, HasEnvelope, InItsSteps, Returning, TypeOK
<1>coherent. FingerprintCoherent' /\ LegacyCoherent'
  BY DEF RunSql, world, ghosts, FingerprintCoherent, LegacyCoherent, Coherent, TypeOK
<1>qed. QED
  BY <1>types, <1>structure, <1>coherent

\* The tables are listed.
LEMMA ListKeeps ==
  ASSUME CoherentInv, NEW h \in Handles, List(h)
  PROVE  CoherentInv'
<1> USE DEF CoherentInv
<1>types. TypeOK'
  BY DEF List, world, TypeOK
<1>structure. Structure'
  BY DEF List, world, Structure, HasDatabase, HasEnvelope, InItsSteps, Returning, TypeOK
<1>coherent. FingerprintCoherent' /\ LegacyCoherent'
  BY DEF List, world, FingerprintCoherent, LegacyCoherent, Coherent, TypeOK
<1>qed. QED
  BY <1>types, <1>structure, <1>coherent

\* A table is read.
LEMMA IntrospectTableKeeps ==
  ASSUME CoherentInv, NEW h \in Handles, NEW t \in Tables, IntrospectTable(h, t)
  PROVE  CoherentInv'
<1> USE DEF CoherentInv
<1>0. Answer(t) \in Shapes
  BY SigAssumption DEF Answer, TypeOK
<1>types. TypeOK'
  BY <1>0 DEF IntrospectTable, world, ghosts, TypeOK
<1>structure. Structure'
  BY DEF IntrospectTable, world, ghosts, Structure, HasDatabase, HasEnvelope, InItsSteps, Returning, TypeOK
<1>coherent. FingerprintCoherent' /\ LegacyCoherent'
  BY DEF IntrospectTable, world, ghosts, FingerprintCoherent, LegacyCoherent, Coherent, TypeOK
<1>qed. QED
  BY <1>types, <1>structure, <1>coherent

\* A table is signed.
LEMMA SignTableKeeps ==
  ASSUME CoherentInv, NEW h \in Handles, NEW t \in Tables, SignTable(h, t)
  PROVE  CoherentInv'
<1> USE DEF CoherentInv
<1>0. Answer(t) \in Shapes /\ Sig[Answer(t)] \in Sigs
  BY SigAssumption DEF Answer, TypeOK
<1>1. [shape |-> work[h][t], hash |-> <<t, Sig[Answer(t)]>>] \in Entry
  BY <1>0 DEF SignTable, Entry, Hashes
<1>types. TypeOK'
  BY <1>1 DEF SignTable, world, ghosts, TypeOK
<1>structure. Structure'
  BY DEF SignTable, world, ghosts, Structure, HasDatabase, HasEnvelope, InItsSteps, Returning, TypeOK
<1>coherent. FingerprintCoherent' /\ LegacyCoherent'
  BY DEF SignTable, world, ghosts, FingerprintCoherent, LegacyCoherent, Coherent, TypeOK
<1>qed. QED
  BY <1>types, <1>structure, <1>coherent

\* An error leaves the database of an open handle as it was.
LEMMA GatherFailsKeeps ==
  ASSUME CoherentInv, NEW h \in Handles, GatherFails(h)
  PROVE  CoherentInv'
<1> USE DEF CoherentInv
<1>types. TypeOK'
  BY EndType DEF GatherFails, world, TypeOK
<1>structure. Structure'
  BY DEF GatherFails, End, Structure, HasDatabase, HasEnvelope, InItsSteps, Returning, TypeOK
<1>coherent. FingerprintCoherent' /\ LegacyCoherent'
  BY DEF GatherFails, End, FingerprintCoherent, LegacyCoherent, Coherent, TypeOK
<1>qed. QED
  BY <1>types, <1>structure, <1>coherent

\* The new database is typed and coherent, in memory and to be written.
LEMMA AssembleKeeps ==
  ASSUME CoherentInv, NEW h \in Handles, Assemble(h)
  PROVE  CoherentInv'
<1> USE DEF CoherentInv
<1>0. Replacing(h) \in TableMaps
  BY ReplacingType DEF Assemble, Structure, HasDatabase, Returning
<1>1. DatabaseOf(Replacing(h)) \in Databases
  BY <1>0, DatabaseOfType
<1>2. /\ Stamped(h, DatabaseOf(Replacing(h))) \in Envelopes
      /\ Stamped(h, DatabaseOf(Replacing(h))).db = DatabaseOf(Replacing(h))
  BY <1>1, StampedType
<1>3. Coherent(DatabaseOf(Replacing(h)))
  BY DEF DatabaseOf, Coherent
<1>types. TypeOK'
  <2>1. mem' \in [Handles -> Databases \cup {NoCache}]
    BY <1>1 DEF Assemble, TypeOK
  <2>2. memo' \in [Handles -> SUBSET [fingerprint : Fingerprints, current : BOOLEAN]]
    <3>1. CASE op[h] = "populate"
      BY <3>1 DEF Assemble, TypeOK
    <3>2. CASE op[h] # "populate"
      <4>1. memo' = [memo EXCEPT ![h] = Outdated(h)]
        BY <3>2 DEF Assemble
      <4>2. QED
        BY <4>1, OutdatedType DEF TypeOK
    <3>3. QED
      BY <3>1, <3>2
  <2>3. buffer' \in [Handles -> Envelopes \cup {NotFound}]
    BY <1>2 DEF Assemble, TypeOK
  <2>4. owed' \in SUBSET Tables
    BY DEF Assemble, TypeOK
  <2>5. QED
    BY <2>1, <2>2, <2>3, <2>4 DEF Assemble, world, TypeOK
<1>structure. Structure'
  BY <1>1, <1>2 DEF Assemble, world, Structure, HasDatabase, HasEnvelope, InItsSteps, Returning, TypeOK
<1>coherent. FingerprintCoherent' /\ LegacyCoherent'
  BY <1>1, <1>2, <1>3, ModelValueAssumption DEF Assemble, world, FingerprintCoherent, LegacyCoherent, Coherent, TypeOK
<1>qed. QED
  BY <1>types, <1>structure, <1>coherent

\* The file is the envelope, or does not decode.
LEMMA WriteKeeps ==
  ASSUME CoherentInv, NEW h \in Handles, Write(h)
  PROVE  CoherentInv'
<1> USE DEF CoherentInv
<1>0. buffer[h] \in Envelopes /\ buffer[h].db \in Databases
  BY DEF Write, Structure, HasEnvelope, Envelopes
<1>1. file' \in {buffer[h], Torn}
  BY DEF Write, Written
<1>types. TypeOK'
  <2>1. CASE op[h] \in {"open", "load"}
    BY <1>0, <1>1, <2>1 DEF Write, world, ghosts, TypeOK
  <2>2. CASE op[h] \notin {"open", "load"}
    <3>1. Serve(h, IF op[h] = "populate" THEN buffer[h].db ELSE mem[h])
      BY <2>2 DEF Write
    <3>2. mem' \in [Handles -> Databases \cup {NoCache}]
      BY <1>0, <3>1 DEF Serve, TypeOK
    <3>3. memo' \in [Handles -> SUBSET [fingerprint : Fingerprints, current : BOOLEAN]]
      BY <2>2 DEF Write, Kept, TypeOK
    <3>4. owed' \in SUBSET Tables
      BY <2>2 DEF Write, TypeOK
    <3>5. QED
      BY <1>0, <1>1, <3>1, <3>2, <3>3, <3>4, EndType DEF Write, Serve, world, TypeOK
  <2>3. QED
    BY <2>1, <2>2
<1>structure. Structure'
  <2>1. CASE op[h] \in {"open", "load"}
    BY <1>0, <2>1 DEF Write, world, ghosts, Structure, HasDatabase, HasEnvelope, InItsSteps, Returning, TypeOK
  <2>2. CASE op[h] \notin {"open", "load"}
    <3> DEFINE db == IF op[h] = "populate" THEN buffer[h].db ELSE mem[h]
    <3>1. op[h] = "populate" \/ op[h] \in Returning
      BY <2>2 DEF Write, Structure, InItsSteps, Returning, TypeOK
    <3>2. db \in Databases
      BY <1>0, <3>1 DEF Structure, HasDatabase
    <3>3. mem' = [mem EXCEPT ![h] = db] /\ End(h, "idle", "ok")
      BY <2>2 DEF Write, Serve
    <3>4. mem'[h] \in Databases /\ \A g \in Handles \ {h} : mem'[g] = mem[g]
      BY <3>2, <3>3 DEF TypeOK
    <3>5. QED
      BY <3>3, <3>4, EndStructure
  <2>3. QED
    BY <2>1, <2>2
<1>coherent. FingerprintCoherent' /\ LegacyCoherent'
  <2>1. Coherent(buffer[h].db)
    BY <1>0, ModelValueAssumption DEF FingerprintCoherent, Coherent
  <2>2. file' \in Envelopes => Coherent(file'.db)
    BY <1>1, <2>1, ModelValueAssumption
  <2>3. LegacyCoherent'
    BY DEF Write, LegacyCoherent
  <2>4. CASE op[h] \in {"open", "load"}
    BY <2>2, <2>3, <2>4 DEF Write, FingerprintCoherent, Coherent, TypeOK
  <2>5. CASE op[h] \notin {"open", "load"}
    <3>1. Serve(h, IF op[h] = "populate" THEN buffer[h].db ELSE mem[h])
      BY <2>5 DEF Write
    <3>2. mem[h] # NoCache => Coherent(mem[h])
      BY DEF FingerprintCoherent, Coherent
    <3>3. mem'[h] # NoCache => Coherent(mem'[h])
      BY <2>1, <3>1, <3>2 DEF Serve, TypeOK
    <3>4. buffer' = [buffer EXCEPT ![h] = NotFound]
      BY <3>1 DEF Serve, End
    <3>5. \A g \in Handles \ {h} : mem'[g] = mem[g]
      BY <3>1 DEF Serve, TypeOK
    <3>6. QED
      BY <2>2, <2>3, <3>3, <3>4, <3>5 DEF FingerprintCoherent, Coherent, TypeOK
  <2>6. QED
    BY <2>4, <2>5
<1>qed. QED
  BY <1>types, <1>structure, <1>coherent

\* A write that fails leaves the file or bytes that do not decode.
LEMMA WriteFailsKeeps ==
  ASSUME CoherentInv, NEW h \in Handles, WriteFails(h)
  PROVE  CoherentInv'
<1> USE DEF CoherentInv
<1>1. file' \in {file, Torn}
  BY DEF WriteFails, Abandoned
<1>types. TypeOK'
  BY <1>1, EndType DEF WriteFails, world, TypeOK
<1>structure. Structure'
  BY DEF WriteFails, End, Structure, HasDatabase, HasEnvelope, InItsSteps, Returning, TypeOK
<1>coherent. FingerprintCoherent' /\ LegacyCoherent'
  BY <1>1, ModelValueAssumption DEF WriteFails, End, FingerprintCoherent, LegacyCoherent, Coherent, TypeOK
<1>qed. QED
  BY <1>types, <1>structure, <1>coherent

\* So does a process that ends.
LEMMA ExitKeeps ==
  ASSUME CoherentInv, NEW h \in Handles, Exit(h)
  PROVE  CoherentInv'
<1> USE DEF CoherentInv
<1>1. file' \in {file, Torn}
  BY DEF Exit, Abandoned
<1>types. TypeOK'
  BY <1>1, EndType DEF Exit, world, TypeOK
<1>structure. Structure'
  BY DEF Exit, End, Structure, HasDatabase, HasEnvelope, InItsSteps, Returning, TypeOK
<1>coherent. FingerprintCoherent' /\ LegacyCoherent'
  BY <1>1, ModelValueAssumption DEF Exit, End, FingerprintCoherent, LegacyCoherent, Coherent, TypeOK
<1>qed. QED
  BY <1>types, <1>structure, <1>coherent

\* What the other processes, the database and the clock do.
LEMMA EnvironmentKeeps ==
  ASSUME CoherentInv, Environment
  PROVE  CoherentInv'
<1> USE DEF CoherentInv
<1>1. ASSUME NEW t \in Tables, NEW shape \in States, Alter(t, shape)
      PROVE  CoherentInv'
  <2>1. TypeOK'
    <3>1. live' \in [Tables -> Shapes \cup {Absent}]
      BY <1>1 DEF Alter, States, TypeOK
    <3>2. changes' \in 0 .. MaxChanges
      BY <1>1, TimeAssumption DEF Alter, TypeOK
    <3>3. seen' \in [Handles -> [Tables -> SUBSET (Shapes \cup {Absent})]]
      BY <1>1 DEF Alter, States, TypeOK
    <3>4. QED
      BY <1>1, <3>1, <3>2, <3>3 DEF Alter, TypeOK
  <2>2. Structure'
    BY <1>1 DEF Alter, Structure, HasDatabase, HasEnvelope, InItsSteps
  <2>3. FingerprintCoherent' /\ LegacyCoherent'
    BY <1>1 DEF Alter, FingerprintCoherent, LegacyCoherent, Coherent
  <2>4. QED
    BY <2>1, <2>2, <2>3
<1>2. CASE Tick
  <2>1. now' \in 0 .. MaxTime
    BY <1>2, TimeAssumption DEF Tick, TypeOK
  <2>2. TypeOK'
    BY <1>2, <2>1 DEF Tick, ghosts, TypeOK
  <2>3. Structure'
    BY <1>2 DEF Tick, ghosts, Structure, HasDatabase, HasEnvelope, InItsSteps
  <2>4. FingerprintCoherent' /\ LegacyCoherent'
    BY <1>2 DEF Tick, ghosts, FingerprintCoherent, LegacyCoherent, Coherent
  <2>5. QED
    BY <2>2, <2>3, <2>4
<1>3. QED
  BY <1>1, <1>2, ExitKeeps DEF Environment

LEMMA StepKeeps == CoherentInv /\ [Next]_vars => CoherentInv'
<1> SUFFICES ASSUME CoherentInv, [Next]_vars PROVE CoherentInv'
  OBVIOUS
<1>1. ASSUME NEW h \in Handles, Call(h) PROVE CoherentInv'
  BY <1>1, ServeFileKeeps, FindNoneKeeps, OpenStaleKeeps, ReadFailsKeeps,
     RefreshKeeps, RefreshTableKeeps, InvalidateTableKeeps, RunSqlKeeps DEF Call
<1>2. ASSUME NEW h \in Handles, Proceed(h) PROVE CoherentInv'
  BY <1>2, MigrateKeeps, FindNoLegacyKeeps, ListKeeps, IntrospectTableKeeps,
     SignTableKeeps, AssembleKeeps, TruncateKeeps, WriteKeeps, UnlinkKeeps
     DEF Proceed
<1>3. ASSUME NEW h \in Handles, GatherFails(h) \/ WriteFails(h)
      PROVE  CoherentInv'
  BY <1>3, GatherFailsKeeps, WriteFailsKeeps
<1>4. CASE UNCHANGED vars
  <2>1. TypeOK'
    BY <1>4 DEF vars, CoherentInv, TypeOK
  <2>2. Structure'
    BY <1>4 DEF vars, CoherentInv, Structure, HasDatabase, HasEnvelope, InItsSteps
  <2>3. FingerprintCoherent' /\ LegacyCoherent'
    BY <1>4 DEF vars, CoherentInv, FingerprintCoherent, LegacyCoherent, Coherent
  <2>4. QED
    BY <2>1, <2>2, <2>3 DEF CoherentInv
<1>5. QED
  BY <1>1, <1>2, <1>3, <1>4, EnvironmentKeeps DEF Next

\* Types, for every set of processes, tables, shapes and every bound.
THEOREM TypeCorrect == Spec => []TypeOK
<1>1. CoherentInv => TypeOK
  BY DEF CoherentInv
<1>2. QED
  BY <1>1, InitCoherent, StepKeeps, PTL DEF Spec

\* However the calls of however many processes interleave, fail and stop, no
\* database in memory, in the file or on its way to the file carries the
\* fingerprint of other tables: the fingerprint a memo key or a caller
\* compares is always the one of the tables beside it.
THEOREM FingerprintsAreCoherent == Spec => []FingerprintCoherent
<1>1. CoherentInv => FingerprintCoherent
  BY DEF CoherentInv
<1>2. QED
  BY <1>1, InitCoherent, StepKeeps, PTL DEF Spec

(***************************************************************************)
(* Durability, when one process uses the cache.  What is truncated is ours *)
(* to write, what a returning call writes is what it has in memory, and a  *)
(* migrated file is complete before the legacy one is removed.             *)
(***************************************************************************)
OneProcess == \A g, h \in Handles : g = h

WritesItsOwn ==
  \A h \in Handles :
    /\ pc[h] = "write" => file = h
    /\ pc[h] \in {"truncate", "write"} /\ op[h] \in Returning =>
         buffer[h].db = mem[h]
    /\ pc[h] = "unlink" => file = buffer[h]

DurableInv == CoherentInv /\ Durable /\ WritesItsOwn

LEMMA InitDurable == Init => DurableInv
<1>1. Init => Durable /\ WritesItsOwn
  BY DEF Init, Durable, WritesItsOwn
<1>2. QED
  BY <1>1, InitCoherent DEF DurableInv

\* The steps that leave the file and the databases alone, and neither begin
\* nor end a write, keep both.
LEMMA QuietKeeps ==
  ASSUME OneProcess, DurableInv, NEW h \in Handles,
         UNCHANGED <<file, mem>>,
         pc'[h] \notin {"write", "unlink"},
         pc'[h] = "truncate" => op'[h] \notin Returning,
         pc'[h] = "idle" /\ outcome'[h] = "ok" => pc[h] = "idle" /\ outcome[h] = "ok"
  PROVE  Durable' /\ WritesItsOwn'
BY DEF OneProcess, DurableInv, Durable, WritesItsOwn

\* A call that fails or a process that ends leaves no handle that returned.
LEMMA FailureKeeps ==
  ASSUME OneProcess, DurableInv, NEW h \in Handles,
         pc'[h] \in {"closed", "idle"}, outcome'[h] # "ok"
  PROVE  Durable' /\ WritesItsOwn'
BY DEF OneProcess, Durable, WritesItsOwn

\* A handle is given out on the database of the file.
LEMMA ServeKeeps ==
  ASSUME OneProcess, DurableInv, NEW h \in Handles, pc'[h] = "idle",
         file' \in Envelopes, mem'[h] = file'.db
  PROVE  Durable' /\ WritesItsOwn'
BY DEF OneProcess, Durable, WritesItsOwn

\* Calls that start.
LEMMA CallDurable ==
  ASSUME OneProcess, DurableInv, NEW h \in Handles, Call(h)
  PROVE  Durable' /\ WritesItsOwn'
<1> USE DEF DurableInv, CoherentInv
<1>1. ASSUME NEW name \in {"open", "load"}, ServeFile(h, name)
      PROVE  Durable' /\ WritesItsOwn'
  <2>1. pc'[h] = "idle" /\ file' \in Envelopes /\ mem'[h] = file'.db
    BY <1>1 DEF ServeFile, Serve, End, TypeOK
  <2>2. QED
    BY <2>1, ServeKeeps
<1>2. ASSUME NEW name \in {"open", "load"}, FindNone(h, name)
      PROVE  Durable' /\ WritesItsOwn'
  <2>1. pc'[h] = "probe" /\ UNCHANGED <<file, mem>>
    BY <1>2 DEF FindNone, TypeOK
  <2>2. QED
    BY <2>1, QuietKeeps
<1>3. ASSUME OpenStale(h) \/ Refresh(h)
      PROVE  Durable' /\ WritesItsOwn'
  <2>1. pc'[h] = "list" /\ UNCHANGED <<file, mem>>
    BY <1>3 DEF OpenStale, Refresh, TypeOK
  <2>2. QED
    BY <2>1, QuietKeeps
<1>4. ASSUME ReadFails(h)
      PROVE  Durable' /\ WritesItsOwn'
  <2>1. pc'[h] = "closed" /\ outcome'[h] # "ok"
    BY <1>4 DEF ReadFails, End, TypeOK
  <2>2. QED
    BY <2>1, FailureKeeps
<1>5. ASSUME NEW t \in Tables, RefreshTable(h, t)
      PROVE  Durable' /\ WritesItsOwn'
  <2>1. pc'[h] = "gather" /\ UNCHANGED <<file, mem>>
    BY <1>5 DEF RefreshTable, TypeOK
  <2>2. QED
    BY <2>1, QuietKeeps
<1>6. ASSUME NEW t \in Tables, InvalidateTable(h, t)
      PROVE  Durable' /\ WritesItsOwn'
  <2>1. /\ pc'[h] = "truncate"
        /\ buffer'[h].db = Marked(mem[h], t)
        /\ mem'[h] = Marked(mem[h], t)
    BY <1>6 DEF InvalidateTable, Stamped, TypeOK
  <2>2. QED
    BY <2>1 DEF OneProcess, Durable, WritesItsOwn
<1>7. ASSUME RunSql(h)
      PROVE  Durable' /\ WritesItsOwn'
  <2>1. pc'[h] = "idle" /\ outcome' = outcome /\ pc' = pc /\ UNCHANGED <<file, mem>>
    BY <1>7 DEF RunSql
  <2>2. QED
    BY <2>1, QuietKeeps
<1>8. QED
  BY <1>1, <1>2, <1>3, <1>4, <1>5, <1>6, <1>7 DEF Call

\* Calls that go on.
LEMMA ProceedDurable ==
  ASSUME OneProcess, DurableInv, NEW h \in Handles, Proceed(h)
  PROVE  Durable' /\ WritesItsOwn'
<1> USE DEF DurableInv, CoherentInv
<1>1. ASSUME Migrate(h)
      PROVE  Durable' /\ WritesItsOwn'
  <2>1. op[h] \in {"open", "load"} /\ op' = op
    BY <1>1 DEF Migrate, Structure, InItsSteps
  <2>2. pc'[h] = "truncate" /\ UNCHANGED <<file, mem>>
    BY <1>1 DEF Migrate, TypeOK
  <2>3. QED
    BY <2>1, <2>2, QuietKeeps DEF Returning
<1>2. ASSUME FindNoLegacy(h)
      PROVE  Durable' /\ WritesItsOwn'
  <2>1. pc'[h] \in {"list", "closed"}
    BY <1>2 DEF FindNoLegacy, End, TypeOK
  <2>2. UNCHANGED <<file, mem>>
    BY <1>2 DEF FindNoLegacy
  <2>3. QED
    BY <2>1, <2>2, QuietKeeps
<1>3. ASSUME List(h)
      PROVE  Durable' /\ WritesItsOwn'
  <2>1. pc'[h] = "gather" /\ UNCHANGED <<file, mem>>
    BY <1>3 DEF List, TypeOK
  <2>2. QED
    BY <2>1, QuietKeeps
<1>4. ASSUME NEW t \in Tables, IntrospectTable(h, t) \/ SignTable(h, t)
      PROVE  Durable' /\ WritesItsOwn'
  <2>1. pc'[h] = "gather" /\ UNCHANGED <<file, mem>>
    BY <1>4 DEF IntrospectTable, SignTable
  <2>2. QED
    BY <2>1, QuietKeeps
<1>5. ASSUME Assemble(h)
      PROVE  Durable' /\ WritesItsOwn'
  <2> DEFINE db == DatabaseOf(Replacing(h))
  <2>1. /\ pc'[h] = "truncate" /\ op' = op
        /\ buffer'[h].db = db
        /\ op[h] # "populate" => mem' = [mem EXCEPT ![h] = db]
    BY <1>5 DEF Assemble, Stamped, TypeOK
  <2>2. op[h] \in Returning => mem'[h] = db
    BY <2>1 DEF Returning, TypeOK
  <2> HIDE DEF db
  <2>3. QED
    BY <2>1, <2>2 DEF OneProcess, Durable, WritesItsOwn
<1>6. ASSUME Truncate(h)
      PROVE  Durable' /\ WritesItsOwn'
  <2>1. /\ pc[h] = "truncate" /\ pc'[h] = "write" /\ file' = h
        /\ UNCHANGED <<op, mem, buffer>>
    BY <1>6 DEF Truncate, TypeOK
  <2>2. QED
    BY <2>1 DEF OneProcess, Durable, WritesItsOwn
<1>7. ASSUME Write(h)
      PROVE  Durable' /\ WritesItsOwn'
  <2>1. pc[h] = "write" /\ file = h /\ Handles \ {h} = {}
    BY <1>7 DEF Write, WritesItsOwn, OneProcess
  <2>2. file' = buffer[h] /\ buffer[h] \in Envelopes
    BY <1>7, <2>1 DEF Write, Written, Alone, Structure, HasEnvelope
  <2>3. CASE op[h] \in {"open", "load"}
    <3>1. pc'[h] = "unlink" /\ buffer' = buffer
      BY <1>7, <2>3 DEF Write, ghosts, TypeOK
    <3>2. QED
      BY <2>2, <3>1 DEF OneProcess, Durable, WritesItsOwn
  <2>4. CASE op[h] \notin {"open", "load"}
    <3> DEFINE db == IF op[h] = "populate" THEN buffer[h].db ELSE mem[h]
    <3>1. mem' = [mem EXCEPT ![h] = db] /\ End(h, "idle", "ok")
      BY <1>7, <2>4 DEF Write, Serve
    <3>2. mem'[h] = db /\ pc'[h] = "idle"
      BY <3>1 DEF End, TypeOK
    <3>3. op[h] = "populate" \/ op[h] \in Returning
      BY <2>1, <2>4 DEF Structure, InItsSteps, Returning, TypeOK
    <3>4. db = buffer[h].db
      BY <2>1, <3>3 DEF WritesItsOwn
    <3>5. QED
      BY <2>2, <3>2, <3>4, ServeKeeps
  <2>5. QED
    BY <2>3, <2>4
<1>8. ASSUME Unlink(h)
      PROVE  Durable' /\ WritesItsOwn'
  <2>1. file = buffer[h] /\ buffer[h] \in Envelopes /\ file' = file
    BY <1>8 DEF Unlink, WritesItsOwn, Structure, HasEnvelope
  <2>2. CASE op[h] = "open" /\ IsStale(buffer[h])
    <3>1. pc'[h] = "list" /\ UNCHANGED <<file, mem>>
      BY <1>8, <2>2 DEF Unlink, TypeOK
    <3>2. QED
      BY <3>1, QuietKeeps
  <2>3. CASE ~(op[h] = "open" /\ IsStale(buffer[h]))
    <3>1. mem' = [mem EXCEPT ![h] = buffer[h].db] /\ End(h, "idle", "ok")
      BY <1>8, <2>3 DEF Unlink, Serve
    <3>2. mem'[h] = buffer[h].db /\ pc'[h] = "idle"
      BY <3>1 DEF End, TypeOK
    <3>3. QED
      BY <2>1, <3>2, ServeKeeps
  <2>4. QED
    BY <2>2, <2>3
<1>9. QED
  BY <1>1, <1>2, <1>3, <1>4, <1>5, <1>6, <1>7, <1>8 DEF Proceed

LEMMA StepDurable == OneProcess /\ DurableInv /\ [Next]_vars => DurableInv'
<1> SUFFICES ASSUME OneProcess, DurableInv, [Next]_vars
             PROVE  DurableInv'
  OBVIOUS
<1>1. CoherentInv'
  BY StepKeeps DEF DurableInv
<1>2. ASSUME NEW h \in Handles, GatherFails(h) \/ WriteFails(h) \/ Exit(h)
      PROVE  Durable' /\ WritesItsOwn'
  <2>1. \E where \in {"closed", "idle"}, how \in {"none", "error"} : End(h, where, how)
    BY <1>2 DEF GatherFails, WriteFails, Exit
  <2>2. pc'[h] \in {"closed", "idle"} /\ outcome'[h] # "ok"
    BY <2>1 DEF End, DurableInv, CoherentInv, TypeOK
  <2>3. QED
    BY <2>2, FailureKeeps
<1>3. CASE (\E t \in Tables, shape \in States : Alter(t, shape)) \/ Tick
           \/ UNCHANGED vars
  <2>1. UNCHANGED <<file, mem, pc, op, buffer, outcome>>
    BY <1>3 DEF Alter, Tick, ghosts, vars
  <2>2. QED
    BY <1>1, <2>1 DEF DurableInv, Durable, WritesItsOwn
<1>4. Durable' /\ WritesItsOwn'
  BY <1>1, <1>2, <1>3, CallDurable, ProceedDurable DEF Next, Environment, DurableInv
<1>5. QED
  BY <1>1, <1>4 DEF DurableInv

\* When one process uses the cache directory, whatever fails and wherever the
\* process dies: a call that returned without an error has left in the file
\* the very database it has in memory.
THEOREM OneProcessIsDurable == OneProcess => (Spec => []Durable)
<1> SUFFICES ASSUME OneProcess PROVE Spec => []Durable
  OBVIOUS
<1>1. DurableInv /\ [Next]_vars => DurableInv'
  BY StepDurable
<1>2. DurableInv => Durable
  BY DEF DurableInv
<1>3. QED
  BY <1>1, <1>2, InitDurable, PTL DEF Spec

(***************************************************************************)
(* Proofs about SchemaCache, for every number of processes and every       *)
(* bound: what a refresh records was there to be seen, and what a memo     *)
(* answers after a call that returned is not older than the database.      *)
(***************************************************************************)

(***************************************************************************)
(* The memo.  A handle that is not open, or is being opened, has an empty  *)
(* one, so that whoever gives out a handle gives out no old results; every *)
(* other call that returns without an error has ended in Write.            *)
(***************************************************************************)
Opening == {"open", "load", "populate"}

EmptyWhileOpening ==
  \A h \in Handles :
    /\ pc[h] = "closed" \/ op[h] \in Opening => memo[h] = {}
    /\ pc[h] \in {"unlink", "probe"} => op[h] \in Opening
    /\ pc[h] = "idle" => op[h] \notin Opening

MemoInv == CoherentInv /\ EmptyWhileOpening /\ MemoFollowsRefresh

LEMMA InitMemo == Init => MemoInv
<1>1. Init => EmptyWhileOpening /\ MemoFollowsRefresh
  BY DEF Init, EmptyWhileOpening, MemoFollowsRefresh
<1>2. QED
  BY <1>1, InitCoherent DEF MemoInv

\* A step of h that leaves its memo alone: it keeps the invariant if it gives
\* out no handle, unless an empty memo goes with it.
LEMMA MemoUntouched ==
  ASSUME MemoInv, NEW h \in Handles, UNCHANGED memo,
         \A g \in Handles \ {h} :
           pc'[g] = pc[g] /\ op'[g] = op[g] /\ outcome'[g] = outcome[g],
         pc'[h] = "closed" \/ op'[h] \in Opening =>
           pc[h] = "closed" \/ op[h] \in Opening,
         pc'[h] \in {"unlink", "probe"} => op'[h] \in Opening,
         pc'[h] = "idle" => op'[h] \notin Opening,
         pc'[h] = "idle" /\ outcome'[h] = "ok" =>
           \/ pc[h] = "idle" /\ outcome[h] = "ok"
           \/ pc[h] = "closed"
           \/ op[h] \in Opening
  PROVE  EmptyWhileOpening' /\ MemoFollowsRefresh'
BY DEF MemoInv, EmptyWhileOpening, MemoFollowsRefresh

\* The steps of a call.
LEMMA CallMemo ==
  ASSUME MemoInv, NEW h \in Handles, Call(h)
  PROVE  EmptyWhileOpening' /\ MemoFollowsRefresh'
<1> USE DEF MemoInv, CoherentInv
<1>1. ASSUME NEW name \in {"open", "load"}, ServeFile(h, name)
      PROVE  EmptyWhileOpening' /\ MemoFollowsRefresh'
  BY <1>1, MemoUntouched DEF ServeFile, Serve, End, Opening, TypeOK
<1>2. ASSUME NEW name \in {"open", "load"}, FindNone(h, name)
      PROVE  EmptyWhileOpening' /\ MemoFollowsRefresh'
  BY <1>2, MemoUntouched DEF FindNone, Begin, Opening, TypeOK
<1>3. ASSUME OpenStale(h)
      PROVE  EmptyWhileOpening' /\ MemoFollowsRefresh'
  BY <1>3, MemoUntouched DEF OpenStale, Begin, Opening, TypeOK
<1>4. ASSUME ReadFails(h)
      PROVE  EmptyWhileOpening' /\ MemoFollowsRefresh'
  BY <1>4, MemoUntouched, ZenonT(60) DEF ReadFails, End, Opening, TypeOK
<1>5. ASSUME Refresh(h)
      PROVE  EmptyWhileOpening' /\ MemoFollowsRefresh'
  BY <1>5, MemoUntouched DEF Refresh, Begin, Opening, TypeOK
<1>6. ASSUME NEW t \in Tables, RefreshTable(h, t)
      PROVE  EmptyWhileOpening' /\ MemoFollowsRefresh'
  BY <1>6, MemoUntouched DEF RefreshTable, Begin, Opening, TypeOK
<1>7. ASSUME NEW t \in Tables, InvalidateTable(h, t)
      PROVE  EmptyWhileOpening' /\ MemoFollowsRefresh'
  <2>1. /\ pc' = [pc EXCEPT ![h] = "truncate"]
        /\ op' = [op EXCEPT ![h] = "invalidate_table"]
        /\ outcome' = [outcome EXCEPT ![h] = "none"]
        /\ memo' = [memo EXCEPT ![h] = Outdated(h)]
    BY <1>7 DEF InvalidateTable, Begin
  <2>2. QED
    BY <2>1 DEF EmptyWhileOpening, MemoFollowsRefresh, Opening, TypeOK
<1>8. ASSUME RunSql(h)
      PROVE  EmptyWhileOpening' /\ MemoFollowsRefresh'
  <2> DEFINE key == [fingerprint |-> mem[h].fingerprint, current |-> TRUE]
  <2>1. /\ pc[h] = "idle" /\ UNCHANGED <<pc, op, outcome>>
        /\ memo' = [memo EXCEPT ![h] = @ \cup {key}]
    BY <1>8 DEF RunSql
  <2>2. memo'[h] = memo[h] \cup {key} /\ key.current
    BY <2>1 DEF TypeOK
  <2>3. \A g \in Handles \ {h} : memo'[g] = memo[g]
    BY <2>1 DEF TypeOK
  <2>4. op[h] \notin Opening
    BY <2>1 DEF EmptyWhileOpening
  <2> HIDE DEF key
  <2>5. QED
    BY <2>1, <2>2, <2>3, <2>4 DEF EmptyWhileOpening, MemoFollowsRefresh
<1>9. QED
  BY <1>1, <1>2, <1>3, <1>4, <1>5, <1>6, <1>7, <1>8 DEF Call

LEMMA ProceedMemo ==
  ASSUME MemoInv, NEW h \in Handles, Proceed(h)
  PROVE  EmptyWhileOpening' /\ MemoFollowsRefresh'
<1> USE DEF MemoInv, CoherentInv
<1>1. ASSUME Migrate(h)
      PROVE  EmptyWhileOpening' /\ MemoFollowsRefresh'
  BY <1>1, MemoUntouched DEF Migrate, Opening, TypeOK
<1>2. ASSUME FindNoLegacy(h)
      PROVE  EmptyWhileOpening' /\ MemoFollowsRefresh'
  <2>1. op[h] \in Opening /\ UNCHANGED memo
    BY <1>2 DEF FindNoLegacy, EmptyWhileOpening
  <2>2. CASE op[h] = "open"
    BY <1>2, <2>1, <2>2, MemoUntouched DEF FindNoLegacy, Begin, Opening, TypeOK
  <2>3. CASE op[h] # "open"
    <3>1. /\ pc' = [pc EXCEPT ![h] = "closed"]
          /\ op' = [op EXCEPT ![h] = "none"]
          /\ outcome' = [outcome EXCEPT ![h] = "none"]
      BY <1>2, <2>3 DEF FindNoLegacy, End
    <3>2. QED
      BY <2>1, <3>1, MemoUntouched DEF Opening, TypeOK
  <2>4. QED
    BY <2>2, <2>3
<1>3. ASSUME List(h)
      PROVE  EmptyWhileOpening' /\ MemoFollowsRefresh'
  BY <1>3, MemoUntouched DEF List, Opening, TypeOK
<1>4. ASSUME NEW t \in Tables, IntrospectTable(h, t) \/ SignTable(h, t)
      PROVE  EmptyWhileOpening' /\ MemoFollowsRefresh'
  BY <1>4, MemoUntouched DEF IntrospectTable, SignTable
<1>5. ASSUME Assemble(h)
      PROVE  EmptyWhileOpening' /\ MemoFollowsRefresh'
  <2>1. /\ pc' = [pc EXCEPT ![h] = "truncate"]
        /\ UNCHANGED <<op, outcome>>
        /\ IF op[h] = "populate" THEN UNCHANGED memo
           ELSE memo' = [memo EXCEPT ![h] = Outdated(h)]
    BY <1>5 DEF Assemble
  <2>2. op[h] \in {"populate", "refresh", "refresh_table"}
    BY <1>5 DEF Assemble, Structure, InItsSteps
  <2>3. QED
    BY <2>1, <2>2 DEF EmptyWhileOpening, MemoFollowsRefresh, Opening, TypeOK
<1>6. ASSUME Truncate(h)
      PROVE  EmptyWhileOpening' /\ MemoFollowsRefresh'
  BY <1>6, MemoUntouched DEF Truncate, Opening, TypeOK
<1>7. ASSUME Write(h)
      PROVE  EmptyWhileOpening' /\ MemoFollowsRefresh'
  <2>1. CASE op[h] \in {"open", "load"}
    BY <1>7, <2>1, MemoUntouched DEF Write, ghosts, Opening, TypeOK
  <2>2. CASE op[h] \notin {"open", "load"}
    <3>1. /\ pc' = [pc EXCEPT ![h] = "idle"]
          /\ op' = [op EXCEPT ![h] = "none"]
          /\ outcome' = [outcome EXCEPT ![h] = "ok"]
          /\ memo' = [memo EXCEPT ![h] = {}]
      BY <1>7, <2>2 DEF Write, Serve, End, Kept
    <3>2. QED
      BY <3>1 DEF EmptyWhileOpening, MemoFollowsRefresh, Opening, TypeOK
  <2>3. QED
    BY <2>1, <2>2
<1>8. ASSUME Unlink(h)
      PROVE  EmptyWhileOpening' /\ MemoFollowsRefresh'
  <2>1. op[h] \in Opening /\ UNCHANGED memo
    BY <1>8 DEF Unlink, Serve, EmptyWhileOpening
  <2>2. CASE op[h] = "open" /\ IsStale(buffer[h])
    BY <1>8, <2>1, <2>2, MemoUntouched DEF Unlink, Opening, TypeOK
  <2>3. CASE ~(op[h] = "open" /\ IsStale(buffer[h]))
    <3>1. /\ pc' = [pc EXCEPT ![h] = "idle"]
          /\ op' = [op EXCEPT ![h] = "none"]
          /\ outcome' = [outcome EXCEPT ![h] = "ok"]
      BY <1>8, <2>3 DEF Unlink, Serve, End
    <3>2. QED
      BY <2>1, <3>1, MemoUntouched DEF Opening, TypeOK
  <2>4. QED
    BY <2>2, <2>3
<1>9. QED
  BY <1>1, <1>2, <1>3, <1>4, <1>5, <1>6, <1>7, <1>8 DEF Proceed

LEMMA StepMemo == MemoInv /\ [Next]_vars => MemoInv'
<1> SUFFICES ASSUME MemoInv, [Next]_vars PROVE MemoInv'
  OBVIOUS
<1> USE DEF MemoInv
<1>1. CoherentInv'
  BY StepKeeps
<1>2. ASSUME NEW h \in Handles, GatherFails(h)
      PROVE  EmptyWhileOpening' /\ MemoFollowsRefresh'
  <2>1. op[h] \in {"populate", "refresh", "refresh_table"}
    BY <1>2 DEF GatherFails, CoherentInv, Structure, InItsSteps
  <2>2. QED
    BY <1>2, <2>1, MemoUntouched DEF GatherFails, End, Opening, CoherentInv, TypeOK
<1>3. ASSUME NEW h \in Handles, WriteFails(h)
      PROVE  EmptyWhileOpening' /\ MemoFollowsRefresh'
  BY <1>3, MemoUntouched DEF WriteFails, End, Opening, CoherentInv, TypeOK
<1>4. ASSUME NEW h \in Handles, Exit(h)
      PROVE  EmptyWhileOpening' /\ MemoFollowsRefresh'
  BY <1>4 DEF Exit, End, Opening, EmptyWhileOpening, MemoFollowsRefresh, CoherentInv, TypeOK
<1>5. CASE (\E t \in Tables, shape \in States : Alter(t, shape)) \/ Tick
           \/ UNCHANGED vars
  <2>1. UNCHANGED <<memo, pc, op, outcome>>
    BY <1>5 DEF Alter, Tick, vars
  <2>2. QED
    BY <1>1, <2>1 DEF EmptyWhileOpening, MemoFollowsRefresh
<1>6. ASSUME NEW h \in Handles, Call(h) \/ Proceed(h)
      PROVE  EmptyWhileOpening' /\ MemoFollowsRefresh'
  BY <1>6, CallMemo, ProceedMemo
<1>7. QED
  BY <1>1, <1>2, <1>3, <1>4, <1>5, <1>6 DEF Next, Environment

\* Whatever calls came before, however they failed: after one that returned
\* without an error no result computed under an earlier database is in the
\* memo, although a refresh may find the fingerprint where it was.
THEOREM MemosFollowRefreshes == Spec => []MemoFollowsRefresh
<1>1. MemoInv => MemoFollowsRefresh
  BY DEF MemoInv
<1>2. QED
  BY <1>1, InitMemo, StepMemo, PTL DEF Spec

(***************************************************************************)
(* What is recorded.  While the tables are read, what a call has of a      *)
(* table it covers was an answer the database gave since the listing, and  *)
(* so is the answer it would give now; what is written is what was read.   *)
(***************************************************************************)
Introspecting == {"populate", "refresh", "refresh_table"}

Resting(h) == op[h] \notin Introspecting \/ pc[h] \in {"closed", "idle"}

Covers(h, t) == op[h] \in {"populate", "refresh"} \/ work[h][t] # Absent

Answers(h, t) ==
  (seen[h][t] \ {Absent}) \cup (IF Absent \in seen[h][t] THEN {Hollow} ELSE {})

Accounted(h, t) ==
  /\ work[h][t] = Absent => Absent \in seen[h][t]
  /\ work[h][t] \in Shapes => work[h][t] \in Answers(h, t)
  /\ work[h][t] \in Entry =>
       /\ work[h][t].shape \in Answers(h, t)
       /\ \E shape \in Answers(h, t) : work[h][t].hash = <<t, Sig[shape]>>

Watched(h) ==
  \A t \in Tables :
    /\ Resting(h) => work[h][t] = Absent
    /\ pc[h] = "gather" /\ Covers(h, t) => live[t] \in seen[h][t]
    /\ pc[h] \in {"gather", "truncate", "write"} /\ Covers(h, t) => Accounted(h, t)
    /\ pc[h] \in {"truncate", "write"} /\ Covers(h, t) =>
         buffer[h].db.tables[t] = work[h][t]

SeenInv == CoherentInv /\ \A h \in Handles : Watched(h)

LEMMA SeenIsWhatItSays == SeenInv => ImageWasSeen
<1> SUFFICES ASSUME SeenInv, NEW h \in Handles, NEW t \in Tables,
                    pc[h] \in {"truncate", "write"},
                    op[h] \in {"populate", "refresh"} \/ t \in Read(h)
             PROVE  LET entry == buffer[h].db.tables[t]
                        answers == Answers(h, t)
                    IN  IF entry = Absent THEN Absent \in seen[h][t]
                        ELSE /\ entry.shape \in answers
                             /\ \E shape \in answers : entry.hash = <<t, Sig[shape]>>
  BY DEF ImageWasSeen, Answers
<1>1. Covers(h, t)
  BY ModelValueAssumption DEF Covers, Read
<1>2. Accounted(h, t) /\ buffer[h].db.tables[t] = work[h][t]
  BY <1>1 DEF SeenInv, Watched
<1>3. buffer[h].db.tables[t] \in Entry \cup {Absent}
  BY DEF SeenInv, CoherentInv, Structure, HasEnvelope, Envelopes, Databases, TableMaps
<1>4. QED
  BY <1>2, <1>3 DEF Accounted

LEMMA InitSeen == Init => SeenInv
<1>1. Init => \A h \in Handles : Watched(h)
  BY DEF Init, Watched, NoTables, Resting, Covers
<1>2. QED
  BY <1>1, InitCoherent DEF SeenInv

\* What is not about a handle leaves it watched.
LEMMA OtherWatched ==
  ASSUME NEW h \in Handles, Watched(h), UNCHANGED live, UNCHANGED pc[h],
         UNCHANGED op[h], UNCHANGED work[h], UNCHANGED buffer[h], UNCHANGED seen[h]
  PROVE  Watched(h)'
BY DEF Watched, Resting, Covers, Accounted, Answers

\* A call that has ended, or is not reading, has nothing to account for.
LEMMA RestingWatched ==
  ASSUME NEW h \in Handles, Watched(h),
         work'[h] = work[h] \/ work'[h] = NoTables,
         pc'[h] \notin {"gather", "truncate", "write"},
         Resting(h)' => Resting(h) \/ work'[h] = NoTables
  PROVE  Watched(h)'
BY DEF Watched, NoTables

\* The steps of h other than the reading of tables.
LEMMA CallWatched ==
  ASSUME SeenInv, NEW h \in Handles, Call(h)
  PROVE  Watched(h)'
<1> USE DEF SeenInv, CoherentInv
<1>1. ASSUME NEW t \in Tables, RefreshTable(h, t)
      PROVE  Watched(h)'
  <2>1. /\ pc'[h] = "gather" /\ op'[h] = "refresh_table" /\ live' = live
        /\ work'[h] = [NoTables EXCEPT ![t] = Listed]
        /\ seen'[h] = [NothingSeen EXCEPT ![t] = {live[t]}]
    BY <1>1 DEF RefreshTable, Begin, world, TypeOK
  <2>2. Listed \notin Shapes \cup Entry
    BY ModelValueAssumption
  <2>3. QED
    BY <2>1, <2>2 DEF Watched, Resting, Covers, Accounted, Introspecting, NoTables, NothingSeen
<1>2. ASSUME NEW t \in Tables, InvalidateTable(h, t)
      PROVE  Watched(h)'
  <2>1. /\ Resting(h) /\ op'[h] = "invalidate_table" /\ UNCHANGED work
        /\ pc'[h] = "truncate"
    BY <1>2 DEF InvalidateTable, Idle, Begin, Resting, TypeOK
  <2>2. QED
    BY <2>1 DEF Watched, Covers, Introspecting
<1>3. ASSUME NEW name \in {"open", "load"}, ServeFile(h, name) \/ FindNone(h, name)
      PROVE  Watched(h)'
  <2>1. /\ Resting(h) /\ pc'[h] \in {"idle", "probe"}
        /\ work'[h] = work[h] \/ work'[h] = NoTables
    BY <1>3 DEF ServeFile, Serve, End, FindNone, Resting, TypeOK
  <2>2. QED
    BY <2>1, RestingWatched
<1>4. ASSUME OpenStale(h) \/ Refresh(h) \/ ReadFails(h)
      PROVE  Watched(h)'
  <2>1. /\ Resting(h) /\ pc'[h] \in {"list", "closed"}
        /\ work'[h] = work[h] \/ work'[h] = NoTables
    BY <1>4 DEF OpenStale, Refresh, Idle, ReadFails, End, Resting, TypeOK
  <2>2. QED
    BY <2>1, RestingWatched
<1>5. ASSUME RunSql(h)
      PROVE  Watched(h)'
  BY <1>5, OtherWatched DEF RunSql, world, ghosts
<1>6. QED
  BY <1>1, <1>2, <1>3, <1>4, <1>5 DEF Call

LEMMA ProceedWatched ==
  ASSUME SeenInv, NEW h \in Handles, Proceed(h)
  PROVE  Watched(h)'
<1> USE DEF SeenInv, CoherentInv
<1>1. ASSUME Migrate(h)
      PROVE  Watched(h)'
  <2>1. /\ op[h] \in {"open", "load"} /\ UNCHANGED <<op, work>>
        /\ pc'[h] = "truncate"
    BY <1>1 DEF Migrate, Structure, InItsSteps, TypeOK
  <2>2. QED
    BY <2>1 DEF Watched, Resting, Covers, Introspecting
<1>2. ASSUME FindNoLegacy(h) \/ Unlink(h)
      PROVE  Watched(h)'
  <2>1. /\ pc'[h] \in {"list", "closed", "idle"}
        /\ \/ work'[h] = NoTables
           \/ work'[h] = work[h] /\ op'[h] = "populate" /\ pc'[h] = "list"
    BY <1>2 DEF FindNoLegacy, Begin, Unlink, Serve, End, TypeOK
  <2>2. QED
    BY <2>1, RestingWatched DEF Resting, Introspecting
<1>3. ASSUME List(h)
      PROVE  Watched(h)'
  <2>1. /\ pc'[h] = "gather" /\ UNCHANGED <<op, live>>
        /\ op[h] \in Introspecting
        /\ work'[h] = [t \in Tables |-> IF live[t] = Absent THEN Absent ELSE Listed]
        /\ seen'[h] = [t \in Tables |-> {live[t]}]
    BY <1>3 DEF List, world, Structure, InItsSteps, Introspecting, TypeOK
  <2>2. Listed \notin Shapes \cup Entry \cup {Absent} /\ Absent \notin Shapes \cup Entry
    BY ModelValueAssumption
  <2>3. ASSUME NEW t \in Tables, Covers(h, t)'
        PROVE  live'[t] \in seen'[h][t] /\ Accounted(h, t)'
    BY <2>1, <2>2 DEF Accounted
  <2>4. QED
    BY <2>1, <2>3 DEF Watched, Resting
<1>4. ASSUME NEW t \in Tables, IntrospectTable(h, t)
      PROVE  Watched(h)'
  <2>1. /\ pc[h] = "gather" /\ UNCHANGED <<pc, op, live, seen>>
        /\ op[h] \in Introspecting
        /\ work[h][t] = Listed
        /\ work'[h] = [work[h] EXCEPT ![t] = Answer(t)]
    BY <1>4 DEF IntrospectTable, world, ghosts, Structure, InItsSteps, Introspecting, TypeOK
  <2>2. Covers(h, t)
    BY <2>1, ModelValueAssumption DEF Covers
  <2>3. Answer(t) \in Answers(h, t)
    BY <2>1, <2>2 DEF Watched, Answer, Answers
  <2>4. Answer(t) \in Shapes /\ Answer(t) \notin Entry
    BY SigAssumption, ModelValueAssumption DEF Answer, TypeOK
  <2>5. ASSUME NEW u \in Tables, u # t
        PROVE  work'[h][u] = work[h][u]
    <3>1. DOMAIN work[h] = Tables
      BY DEF TypeOK
    <3>2. QED
      BY <2>1, <2>5, <3>1
  <2>6. work'[h][t] = Answer(t) /\ Answer(t) # Absent
    BY <2>1, <2>4, ModelValueAssumption DEF TypeOK
  <2>7. Accounted(h, t)'
    BY <2>1, <2>3, <2>4, <2>6 DEF Accounted, Answers
  <2>8. QED
    BY <2>1, <2>2, <2>5, <2>7 DEF Watched, Resting, Covers, Accounted, Answers
<1>5. ASSUME NEW t \in Tables, SignTable(h, t)
      PROVE  Watched(h)'
  <2> DEFINE entry == [shape |-> work[h][t], hash |-> <<t, Sig[Answer(t)]>>]
  <2>1. /\ pc[h] = "gather" /\ UNCHANGED <<pc, op, live, seen>>
        /\ op[h] \in Introspecting
        /\ work[h][t] \in Shapes
        /\ work'[h] = [work[h] EXCEPT ![t] = entry]
    BY <1>5 DEF SignTable, world, ghosts, Structure, InItsSteps, Introspecting, TypeOK
  <2>2. Covers(h, t)
    <3>1. Absent \notin Shapes
      BY ModelValueAssumption
    <3>2. QED
      BY <2>1, <3>1 DEF Covers
  <2>3. Answer(t) \in Answers(h, t) /\ work[h][t] \in Answers(h, t)
    BY <2>1, <2>2 DEF Watched, Accounted, Answer, Answers
  <2>4. entry \in Entry
    <3>1. Sig[Answer(t)] \in Sigs
      BY SigAssumption DEF Answer, TypeOK
    <3>2. QED
      BY <2>1, <3>1 DEF Entry, Hashes
  <2>5. entry.shape = work[h][t] /\ entry.hash = <<t, Sig[Answer(t)]>>
    OBVIOUS
  <2> HIDE DEF entry
  <2>6. ASSUME NEW u \in Tables, u # t
        PROVE  work'[h][u] = work[h][u]
    <3>1. DOMAIN work[h] = Tables
      BY DEF TypeOK
    <3>2. QED
      BY <2>1, <2>6, <3>1
  <2>7. work'[h][t] = entry /\ entry \notin Shapes \cup {Absent}
    BY <2>1, <2>4, ModelValueAssumption DEF TypeOK
  <2>8. Accounted(h, t)'
    BY <2>1, <2>3, <2>5, <2>7 DEF Accounted, Answers
  <2>9. QED
    BY <2>1, <2>2, <2>6, <2>8 DEF Watched, Resting, Covers, Accounted, Answers
<1>6. ASSUME Assemble(h)
      PROVE  Watched(h)'
  <2>1. /\ pc[h] = "gather" /\ pc'[h] = "truncate" /\ UNCHANGED <<op, work, seen>>
        /\ op[h] \in Introspecting
        /\ Unfinished(h) = {}
        /\ buffer'[h].db.tables = Replacing(h)
    BY <1>6 DEF Assemble, Stamped, DatabaseOf, Structure, InItsSteps, Introspecting, TypeOK
  <2>2. ASSUME NEW t \in Tables, Covers(h, t)
        PROVE  Replacing(h)[t] = work[h][t]
    <3>1. work[h][t] \in Entry \cup {Absent}
      BY <2>1 DEF Unfinished, TypeOK
    <3>2. CASE op[h] = "refresh_table"
      BY <2>2, <3>1, <3>2 DEF Replacing, Covers, Read
    <3>3. CASE op[h] # "refresh_table"
      BY <3>3 DEF Replacing
    <3>4. QED
      BY <3>2, <3>3
  <2>3. QED
    BY <2>1, <2>2 DEF Watched, Resting, Covers, Accounted, Answers
<1>7. ASSUME Truncate(h)
      PROVE  Watched(h)'
  <2>1. /\ pc[h] = "truncate" /\ pc'[h] = "write"
        /\ UNCHANGED <<op, work, seen, buffer>>
    BY <1>7 DEF Truncate, ghosts, TypeOK
  <2>2. QED
    BY <2>1 DEF Watched, Resting, Covers, Accounted, Answers
<1>8. ASSUME Write(h)
      PROVE  Watched(h)'
  <2>1. \/ pc'[h] = "idle" /\ work'[h] = NoTables
        \/ /\ pc'[h] = "unlink" /\ UNCHANGED <<op, work>>
           /\ op[h] \in {"open", "load"}
    BY <1>8 DEF Write, Serve, End, ghosts, TypeOK
  <2>2. QED
    BY <2>1, RestingWatched DEF Resting, Introspecting
<1>9. QED
  BY <1>1, <1>2, <1>3, <1>4, <1>5, <1>6, <1>7, <1>8 DEF Proceed

LEMMA StepSeen == SeenInv /\ [Next]_vars => SeenInv'
<1> SUFFICES ASSUME SeenInv, [Next]_vars PROVE SeenInv'
  OBVIOUS
<1> USE DEF SeenInv
<1>1. CoherentInv'
  BY StepKeeps
<1>2. ASSUME NEW h \in Handles,
             Call(h) \/ Proceed(h) \/ GatherFails(h) \/ WriteFails(h) \/ Exit(h)
      PROVE  \A g \in Handles : Watched(g)'
  <2>1. Watched(h)'
    <3>1. CASE GatherFails(h) \/ WriteFails(h) \/ Exit(h)
      <4>1. pc'[h] \in {"closed", "idle"} /\ work'[h] = NoTables
        BY <3>1 DEF GatherFails, WriteFails, Exit, End, CoherentInv, TypeOK
      <4>2. QED
        BY <4>1, RestingWatched
    <3>2. QED
      BY <1>2, <3>1, CallWatched, ProceedWatched
  <2>2. ASSUME NEW g \in Handles \ {h}
        PROVE  Watched(g)'
    <3>1. UNCHANGED live
      BY <1>2 DEF Call, Proceed, ServeFile, FindNone, OpenStale, ReadFails,
         Refresh, RefreshTable, InvalidateTable, RunSql, Migrate, FindNoLegacy,
         List, IntrospectTable, SignTable, Assemble, Truncate, Write, Unlink,
         GatherFails, WriteFails, Exit, world
    <3>2. /\ UNCHANGED pc[g] /\ UNCHANGED op[g]
      BY <1>2 DEF Call, Proceed, ServeFile, FindNone, OpenStale, ReadFails,
         Refresh, RefreshTable, InvalidateTable, RunSql, Migrate, FindNoLegacy,
         List, IntrospectTable, SignTable, Assemble, Truncate, Write, Unlink,
         GatherFails, WriteFails, Exit, Begin, Serve, End, CoherentInv, TypeOK
    <3>3. /\ UNCHANGED work[g] /\ UNCHANGED buffer[g] /\ UNCHANGED seen[g]
      BY <1>2 DEF Call, Proceed, ServeFile, FindNone, OpenStale, ReadFails,
         Refresh, RefreshTable, InvalidateTable, RunSql, Migrate, FindNoLegacy,
         List, IntrospectTable, SignTable, Assemble, Truncate, Write, Unlink,
         GatherFails, WriteFails, Exit, Begin, Serve, End, ghosts, CoherentInv, TypeOK
    <3>4. QED
      BY <3>1, <3>2, <3>3, OtherWatched
  <2>3. QED
    BY <2>1, <2>2
<1>3. ASSUME NEW t \in Tables, NEW shape \in States, Alter(t, shape), NEW h \in Handles
      PROVE  Watched(h)'
  <2>1. /\ UNCHANGED <<pc, op, work, buffer>>
        /\ live' = [live EXCEPT ![t] = shape]
        /\ seen'[h] = IF pc[h] = "gather" THEN [seen[h] EXCEPT ![t] = @ \cup {shape}]
                      ELSE seen[h]
    BY <1>3 DEF Alter
  <2>2. CASE pc[h] = "gather"
    <3>1. ASSUME NEW u \in Tables
          PROVE  /\ seen[h][u] \subseteq seen'[h][u]
                 /\ live[u] \in seen[h][u] => live'[u] \in seen'[h][u]
                 /\ Answers(h, u) \subseteq Answers(h, u)'
      BY <2>1, <2>2 DEF Answers, CoherentInv, TypeOK
    <3>2. QED
      BY <2>1, <2>2, <3>1 DEF Watched, Resting, Covers, Accounted
  <2>3. CASE pc[h] # "gather"
    BY <2>1, <2>3 DEF Watched, Resting, Covers, Accounted, Answers
  <2>4. QED
    BY <2>2, <2>3
<1>4. ASSUME Tick \/ UNCHANGED vars, NEW h \in Handles
      PROVE  Watched(h)'
  BY <1>4, OtherWatched DEF Tick, ghosts, vars
<1>5. QED
  BY <1>1, <1>2, <1>3, <1>4 DEF Next, Environment

\* Whatever happens to the database while its tables are read, whoever else
\* reads it and whatever fails: a table is recorded as it was at some moment
\* since the listing, hashed as it was at some such moment, and left out only
\* if it was not there at one.
THEOREM RefreshesRecordWhatWasSeen == Spec => []ImageWasSeen
<1>1. QED
  BY SeenIsWhatItSays, InitSeen, StepSeen, PTL DEF Spec

(***************************************************************************)
(* Proofs about SchemaCache when one process uses the cache directory: a   *)
(* table that was marked stale stays marked, in memory and in every file   *)
(* there is, until it is read again, and then counts as changed; and a     *)
(* legacy file is not given up before its copy is complete.                *)
(***************************************************************************)

MarkedIn(db, t) == db.tables[t] # Absent /\ db.tables[t].hash = Invalidated

Writing(h) == pc[h] \in {"truncate", "write", "unlink"}

Migrating(h) == Writing(h) /\ op[h] \in {"open", "load"}

\* What is owed is owed wherever the database is.
Owing ==
  \A t \in owed :
    /\ file \in Envelopes => MarkedIn(file.db, t)
    /\ \A h \in Handles :
         /\ mem[h] # NoCache => MarkedIn(mem[h], t)
         /\ Writing(h) => MarkedIn(buffer[h].db, t)

\* A legacy file is only looked for when there is no other, and then nothing
\* was ever marked.
MigratesFirst ==
  /\ file = NotFound => owed = {}
  /\ \A h \in Handles :
       /\ pc[h] = "probe" => file = NotFound
       /\ pc[h] = "unlink" => Migrating(h)
       /\ Migrating(h) => owed = {} /\ buffer[h] = legacy

OwedInv == DurableInv /\ Owing /\ MigratesFirst

LEMMA InitOwed == Init => OwedInv
<1>1. Init => Owing /\ MigratesFirst
  BY DEF Init, Owing, MigratesFirst, Migrating, Writing
<1>2. QED
  BY <1>1, InitDurable DEF OwedInv

\* A step that neither writes, marks nor begins to.
LEMMA QuietOwes ==
  ASSUME OneProcess, OwedInv, NEW h \in Handles,
         UNCHANGED <<file, legacy>>, owed' \subseteq owed,
         mem'[h] = mem[h] \/ mem'[h] = NoCache
           \/ (file \in Envelopes /\ mem'[h] = file.db),
         pc'[h] = "probe" => file = NotFound,
         pc'[h] \notin {"truncate", "write", "unlink"}
  PROVE  Owing' /\ MigratesFirst'
BY DEF OneProcess, OwedInv, Owing, MigratesFirst, Migrating, Writing

\* A file that was given up is no envelope.
LEMMA AbandonedOwes ==
  ASSUME OneProcess, OwedInv, NEW h \in Handles,
         file' \in {file, Torn}, UNCHANGED <<legacy, owed>>,
         mem'[h] = mem[h] \/ mem'[h] = NoCache,
         pc'[h] \in {"closed", "idle"}
  PROVE  Owing' /\ MigratesFirst'
BY ModelValueAssumption
   DEF OneProcess, OwedInv, Owing, MigratesFirst, Migrating, Writing

\* The mark on one table leaves the marks of others.
LEMMA MarkedKeepsMarks ==
  ASSUME NEW db \in Databases, NEW t \in Tables, db.tables[t] # Absent,
         NEW u \in Tables, MarkedIn(db, u)
  PROVE  MarkedIn(Marked(db, t), u)
<1>1. db.tables \in TableMaps
  BY DEF Databases
<1>2. db.tables[t] \in Entry
  BY <1>1 DEF TableMaps
<1>3. [db.tables[t] EXCEPT !.hash = Invalidated] # Absent
  <2>1. [db.tables[t] EXCEPT !.hash = Invalidated] \in Entry
    BY <1>2 DEF Entry, Hashes
  <2>2. QED
    BY <2>1, ModelValueAssumption
<1>4. [db.tables[t] EXCEPT !.hash = Invalidated].hash = Invalidated
  BY <1>2 DEF Entry
<1>5. Marked(db, t).tables = [db.tables EXCEPT ![t].hash = Invalidated]
  BY DEF Marked, DatabaseOf
<1>6. QED
  BY <1>1, <1>3, <1>4, <1>5 DEF MarkedIn, TableMaps

LEMMA CallOwes ==
  ASSUME OneProcess, OwedInv, NEW h \in Handles, Call(h)
  PROVE  Owing' /\ MigratesFirst'
<1> USE DEF OwedInv, DurableInv, CoherentInv
<1>1. ASSUME NEW name \in {"open", "load"}, ServeFile(h, name)
      PROVE  Owing' /\ MigratesFirst'
  BY <1>1, QuietOwes DEF ServeFile, Serve, End, Writing, TypeOK
<1>2. ASSUME NEW name \in {"open", "load"}, FindNone(h, name)
      PROVE  Owing' /\ MigratesFirst'
  <2>1. /\ UNCHANGED <<file, legacy, owed, mem>>
        /\ pc'[h] = "probe" /\ file = NotFound
    BY <1>2 DEF FindNone, ghosts, TypeOK
  <2>2. QED
    BY <2>1, QuietOwes
<1>3. ASSUME OpenStale(h) \/ Refresh(h)
      PROVE  Owing' /\ MigratesFirst'
  <2>1. /\ UNCHANGED <<file, legacy, owed, mem>>
        /\ pc'[h] = "list"
    BY <1>3 DEF OpenStale, Refresh, ghosts, TypeOK
  <2>2. QED
    BY <2>1, QuietOwes
<1>4. ASSUME ReadFails(h)
      PROVE  Owing' /\ MigratesFirst'
  <2>1. /\ UNCHANGED <<file, legacy, owed, mem>>
        /\ pc'[h] = "closed"
    BY <1>4 DEF ReadFails, End, ghosts, TypeOK
  <2>2. QED
    BY <2>1, QuietOwes
<1>5. ASSUME NEW t \in Tables, RefreshTable(h, t)
      PROVE  Owing' /\ MigratesFirst'
  <2>1. /\ UNCHANGED <<file, legacy, owed, mem>>
        /\ pc'[h] = "gather"
    BY <1>5 DEF RefreshTable, ghosts, TypeOK
  <2>2. QED
    BY <2>1, QuietOwes
<1>6. ASSUME NEW t \in Tables, InvalidateTable(h, t)
      PROVE  Owing' /\ MigratesFirst'
  <2> DEFINE db == Marked(mem[h], t)
  <2>1. /\ mem[h] \in Databases /\ mem[h].tables[t] # Absent
    BY <1>6 DEF InvalidateTable, Idle, Structure, HasDatabase
  <2>2. /\ UNCHANGED <<file, legacy, owed>>
        /\ pc[h] = "idle" /\ pc'[h] = "truncate" /\ op'[h] = "invalidate_table"
        /\ mem'[h] = db /\ buffer'[h].db = db
    BY <1>6 DEF InvalidateTable, Idle, Begin, Stamped, ghosts, TypeOK
  <2>3. \A u \in owed : MarkedIn(db, u)
    <3>1. mem[h] # NoCache
      BY <2>1, ModelValueAssumption
    <3>2. QED
      BY <2>1, <3>1, MarkedKeepsMarks DEF Owing, TypeOK
  <2> HIDE DEF db
  <2>4. QED
    BY <2>2, <2>3 DEF OneProcess, Owing, MigratesFirst, Migrating, Writing
<1>7. ASSUME RunSql(h)
      PROVE  Owing' /\ MigratesFirst'
  <2>1. /\ UNCHANGED <<file, legacy, owed, mem>>
        /\ pc'[h] = "idle"
    BY <1>7 DEF RunSql, Idle, ghosts, TypeOK
  <2>2. QED
    BY <2>1, QuietOwes
<1>8. QED
  BY <1>1, <1>2, <1>3, <1>4, <1>5, <1>6, <1>7 DEF Call

LEMMA ProceedOwes ==
  ASSUME OneProcess, OwedInv, NEW h \in Handles, Proceed(h)
  PROVE  Owing' /\ MigratesFirst'
<1> USE DEF OwedInv, DurableInv, CoherentInv
<1>1. ASSUME Migrate(h)
      PROVE  Owing' /\ MigratesFirst'
  <2>1. /\ UNCHANGED <<file, legacy, owed, mem, op>>
        /\ pc[h] = "probe" /\ pc'[h] = "truncate"
        /\ buffer'[h] = legacy
    BY <1>1 DEF Migrate, ghosts, TypeOK
  <2>2. file = NotFound /\ owed = {}
    BY <2>1 DEF MigratesFirst
  <2>3. QED
    BY <2>1, <2>2 DEF OneProcess, Owing, MigratesFirst, Migrating, Writing
<1>2. ASSUME FindNoLegacy(h)
      PROVE  Owing' /\ MigratesFirst'
  <2>1. /\ UNCHANGED <<file, legacy, owed, mem>>
        /\ pc'[h] \in {"list", "closed"}
    BY <1>2 DEF FindNoLegacy, End, TypeOK
  <2>2. QED
    BY <2>1, QuietOwes
<1>3. ASSUME List(h)
      PROVE  Owing' /\ MigratesFirst'
  <2>1. UNCHANGED <<file, legacy, owed, mem>> /\ pc'[h] = "gather"
    BY <1>3 DEF List, TypeOK
  <2>2. QED
    BY <2>1, QuietOwes
<1>4. ASSUME NEW t \in Tables, IntrospectTable(h, t) \/ SignTable(h, t)
      PROVE  Owing' /\ MigratesFirst'
  <2>1. UNCHANGED <<file, legacy, owed, mem>> /\ pc'[h] = "gather"
    BY <1>4 DEF IntrospectTable, SignTable, ghosts
  <2>2. QED
    BY <2>1, QuietOwes
<1>5. ASSUME Assemble(h)
      PROVE  Owing' /\ MigratesFirst'
  <2> DEFINE db == DatabaseOf(Replacing(h))
  <2>1. /\ UNCHANGED <<file, legacy, op>>
        /\ pc'[h] = "truncate"
        /\ op[h] \in {"populate", "refresh", "refresh_table"}
        /\ buffer'[h].db = db
        /\ mem'[h] = mem[h] \/ mem'[h] = db
        /\ owed' = IF op[h] = "refresh_table" THEN owed \ Read(h) ELSE {}
    BY <1>5 DEF Assemble, Stamped, Structure, InItsSteps, TypeOK
  <2>2. ASSUME NEW t \in owed'
        PROVE  MarkedIn(db, t) /\ MarkedIn(mem'[h], t)
    <3>1. op[h] = "refresh_table" /\ t \in owed /\ t \notin Read(h) /\ t \in Tables
      BY <2>1, <2>2 DEF TypeOK
    <3>2. mem[h] \in Databases /\ mem[h] # NoCache
      BY <3>1, ModelValueAssumption DEF Structure, HasDatabase, Returning
    <3>3. MarkedIn(mem[h], t)
      BY <3>1, <3>2 DEF Owing
    <3>4. db.tables[t] = mem[h].tables[t]
      BY <3>1 DEF DatabaseOf, Replacing
    <3>5. QED
      BY <2>1, <3>3, <3>4 DEF MarkedIn
  <2>3. owed' \subseteq owed
    BY <2>1
  <2> HIDE DEF db
  <2>4. QED
    BY <2>1, <2>2, <2>3 DEF OneProcess, Owing, MigratesFirst, Migrating, Writing
<1>6. ASSUME Truncate(h)
      PROVE  Owing' /\ MigratesFirst'
  <2>1. /\ UNCHANGED <<legacy, owed, mem, op, buffer>>
        /\ pc[h] = "truncate" /\ pc'[h] = "write" /\ file' = h
    BY <1>6 DEF Truncate, ghosts, TypeOK
  <2>2. h \notin Envelopes /\ h # NotFound
    BY ModelValueAssumption
  <2>3. QED
    BY <2>1, <2>2 DEF OneProcess, Owing, MigratesFirst, Migrating, Writing
<1>7. ASSUME Write(h)
      PROVE  Owing' /\ MigratesFirst'
  <2>1. pc[h] = "write" /\ file = h /\ Handles \ {h} = {}
    BY <1>7 DEF Write, WritesItsOwn, OneProcess
  <2>2. file' = buffer[h] /\ buffer[h] \in Envelopes /\ legacy' = legacy
    BY <1>7, <2>1 DEF Write, Written, Alone, Structure, HasEnvelope
  <2>3. file' # NotFound
    BY <2>2, ModelValueAssumption
  <2>4. CASE op[h] \in {"open", "load"}
    <3>1. UNCHANGED <<op, mem, buffer, owed>> /\ pc'[h] = "unlink"
      BY <1>7, <2>4 DEF Write, ghosts, TypeOK
    <3>2. QED
      BY <2>1, <2>2, <2>3, <2>4, <3>1
         DEF OneProcess, Owing, MigratesFirst, Migrating, Writing
  <2>5. CASE op[h] \notin {"open", "load"}
    <3>1. /\ pc'[h] = "idle"
          /\ mem'[h] = IF op[h] = "populate" THEN buffer[h].db ELSE mem[h]
      BY <1>7, <2>5 DEF Write, Serve, End, TypeOK
    <3>2. mem'[h] = buffer[h].db
      <4>1. op[h] = "populate" \/ op[h] \in Returning
        BY <2>1, <2>5 DEF Structure, InItsSteps, Returning, TypeOK
      <4>2. QED
        BY <2>1, <3>1, <4>1 DEF WritesItsOwn
    <3>3. ASSUME NEW t \in owed'
          PROVE  MarkedIn(buffer[h].db, t)
      <4>1. CASE t \in owed
        BY <2>1, <4>1 DEF Owing, Writing
      <4>2. CASE t \notin owed
        <5>1. MarkedIn(mem[h], t) /\ op[h] = "invalidate_table"
          BY <1>7, <2>5, <3>3, <4>2 DEF Write, MarkedIn
        <5>2. mem[h] = buffer[h].db
          BY <2>1, <5>1 DEF WritesItsOwn, Returning
        <5>3. QED
          BY <5>1, <5>2
      <4>3. QED
        BY <4>1, <4>2
    <3>4. QED
      BY <2>2, <2>3, <3>1, <3>2, <3>3
         DEF OneProcess, Owing, MigratesFirst, Migrating, Writing
  <2>6. QED
    BY <2>4, <2>5
<1>8. ASSUME Unlink(h)
      PROVE  Owing' /\ MigratesFirst'
  <2>1. /\ file' = file /\ file = buffer[h] /\ buffer[h] \in Envelopes
        /\ owed' = owed
        /\ pc'[h] \in {"list", "idle"}
        /\ mem'[h] = mem[h] \/ mem'[h] = buffer[h].db
    BY <1>8 DEF Unlink, Serve, End, WritesItsOwn, Structure, HasEnvelope, TypeOK
  <2>2. QED
    BY <2>1, ModelValueAssumption DEF OneProcess, Owing, MigratesFirst, Migrating, Writing
<1>9. QED
  BY <1>1, <1>2, <1>3, <1>4, <1>5, <1>6, <1>7, <1>8 DEF Proceed

LEMMA StepOwed == OneProcess /\ OwedInv /\ [Next]_vars => OwedInv'
<1> SUFFICES ASSUME OneProcess, OwedInv, [Next]_vars PROVE OwedInv'
  OBVIOUS
<1> USE DEF OwedInv
<1>1. DurableInv'
  BY StepDurable
<1>2. ASSUME NEW h \in Handles, GatherFails(h) \/ WriteFails(h) \/ Exit(h)
      PROVE  Owing' /\ MigratesFirst'
  <2>1. /\ file' \in {file, Torn} /\ UNCHANGED <<legacy, owed>>
        /\ pc'[h] \in {"closed", "idle"}
    BY <1>2 DEF GatherFails, WriteFails, Exit, Abandoned, End, DurableInv, CoherentInv, TypeOK
  <2>2. mem'[h] = mem[h] \/ mem'[h] = NoCache
    BY <1>2 DEF GatherFails, WriteFails, Exit, DurableInv, CoherentInv, TypeOK
  <2>3. QED
    BY <2>1, <2>2, AbandonedOwes
<1>3. CASE (\E t \in Tables, shape \in States : Alter(t, shape)) \/ Tick
           \/ UNCHANGED vars
  <2>1. UNCHANGED <<file, legacy, mem, pc, op, buffer, owed>>
    BY <1>3 DEF Alter, Tick, ghosts, vars
  <2>2. QED
    BY <1>1, <2>1 DEF Owing, MigratesFirst, Migrating, Writing
<1>4. ASSUME NEW h \in Handles, Call(h) \/ Proceed(h)
      PROVE  Owing' /\ MigratesFirst'
  BY <1>4, CallOwes, ProceedOwes
<1>5. QED
  BY <1>1, <1>2, <1>3, <1>4 DEF Next, Environment

\* "Internally sets the table's ddl_hash to the sentinel and rewrites the
\* persisted cache file so the invalidation survives process restarts": with
\* one process it does, through every failure, restart and refresh of other
\* tables, until the table is read again.
THEOREM OneProcessKeepsInvalidations ==
  OneProcess => (Spec => []InvalidationPersists)
<1> SUFFICES ASSUME OneProcess PROVE Spec => []InvalidationPersists
  OBVIOUS
<1>1. OwedInv /\ [Next]_vars => OwedInv'
  BY StepOwed
<1>2. OwedInv => InvalidationPersists
  BY DEF OwedInv, Owing, MarkedIn, InvalidationPersists
<1>3. QED
  BY <1>1, <1>2, InitOwed, PTL DEF Spec

\* With one process, a legacy file is given up only when the new file holds
\* the same envelope.
THEOREM OneProcessMigratesSafely ==
  OneProcess => (Spec => LegacyOutlivesMigration)
<1> SUFFICES ASSUME OneProcess PROVE Spec => LegacyOutlivesMigration
  OBVIOUS
<1>1. OwedInv /\ [Next]_vars => OwedInv'
  BY StepOwed
<1>2. OwedInv /\ [Next]_vars => [legacy' # legacy => file = legacy]_vars
  <2> SUFFICES ASSUME OwedInv, Next, legacy' # legacy PROVE file = legacy
    BY DEF vars
  <2>1. PICK h \in Handles : Unlink(h)
    BY DEF Next, Call, Proceed, Environment, ServeFile, FindNone, OpenStale,
       ReadFails, Refresh, RefreshTable, InvalidateTable, RunSql, Migrate,
       FindNoLegacy, List, IntrospectTable, SignTable, Assemble, Truncate,
       Write, GatherFails, WriteFails, Exit, Alter, Tick
  <2>2. pc[h] = "unlink" /\ file = buffer[h] /\ buffer[h] = legacy
    BY <2>1 DEF Unlink, OwedInv, DurableInv, WritesItsOwn, MigratesFirst
  <2>3. QED
    BY <2>2
<1>3. QED
  BY <1>1, <1>2, InitOwed, PTL DEF Spec, LegacyOutlivesMigration

(***************************************************************************)
(* What is read is signed by the name of its table, which the sentinel is  *)
(* not: a marked table that was read has changed.                          *)
(***************************************************************************)
Signed == \A h \in Handles : \A t \in Read(h) : work[h][t].hash # Invalidated

ReportInv == OwedInv /\ Signed

LEMMA StepSigned == TypeOK /\ Signed /\ [Next]_vars => Signed'
<1> SUFFICES ASSUME TypeOK, Signed, [Next]_vars, NEW h \in Handles, NEW t \in Read(h)'
             PROVE  work'[h][t].hash # Invalidated
  BY DEF Signed
<1>1. work'[h][t] \in Entry /\ t \in Tables
  BY DEF Read
<1>2. CASE work'[h][t] = work[h][t]
  BY <1>1, <1>2 DEF Read, Signed
<1>3. CASE work'[h][t] # work[h][t]
  <2>1. work' # work
    BY <1>3
  <2>2. PICK g \in Handles :
          \/ \E how, where : End(g, where, how)
          \/ \E u \in Tables : RefreshTable(g, u) \/ IntrospectTable(g, u) \/ SignTable(g, u)
          \/ List(g)
    BY <2>1 DEF Next, Call, Proceed, Environment, ServeFile, FindNone, OpenStale,
       ReadFails, Refresh, InvalidateTable, RunSql, Migrate, FindNoLegacy,
       Assemble, Truncate, Write, Unlink, Serve, GatherFails, WriteFails, Exit,
       Alter, Tick, ghosts, vars
  <2>3. Listed \notin Entry /\ Absent \notin Entry /\ \A u \in Tables : Answer(u) \notin Entry
    BY SigAssumption, ModelValueAssumption DEF Answer, TypeOK
  <2>4. SignTable(h, t)
    <3>1. CASE \E how, where : End(g, where, how)
      BY <1>1, <1>3, <2>3, <3>1 DEF End, NoTables, TypeOK
    <3>2. CASE \E u \in Tables : RefreshTable(g, u)
      BY <1>1, <1>3, <2>3, <3>2 DEF RefreshTable, NoTables, TypeOK
    <3>3. CASE \E u \in Tables : IntrospectTable(g, u)
      BY <1>1, <1>3, <2>3, <3>3 DEF IntrospectTable, TypeOK
    <3>4. CASE List(g)
      BY <1>1, <1>3, <2>3, <3>4 DEF List, TypeOK
    <3>5. CASE \E u \in Tables : SignTable(g, u)
      <4>1. PICK u \in Tables : SignTable(g, u)
        BY <3>5
      <4>2. work' = [work EXCEPT ![g][u] =
              [shape |-> work[g][u], hash |-> <<u, Sig[Answer(u)]>>]]
        BY <4>1 DEF SignTable
      <4>3. g = h /\ u = t
        BY <1>1, <1>3, <4>2 DEF TypeOK
      <4>4. QED
        BY <4>1, <4>3
    <3>6. QED
      BY <2>2, <3>1, <3>2, <3>3, <3>4, <3>5
  <2>5. work'[h][t].hash = <<t, Sig[Answer(t)]>>
    BY <1>1, <2>4 DEF SignTable, TypeOK
  <2>6. Sig[Answer(t)] \in Sigs
    BY <1>1, SigAssumption DEF Answer, TypeOK
  <2>7. QED
    BY <1>1, <2>5, <2>6, SigAssumption
<1>4. QED
  BY <1>2, <1>3

\* The next refresh that covers a marked table, in this process or after a
\* restart, reports it as changed even if its DDL is what it was.
THEOREM OneProcessReportsInvalidations ==
  OneProcess => (Spec => InvalidatedIsReported)
<1> SUFFICES ASSUME OneProcess PROVE Spec => InvalidatedIsReported
  OBVIOUS
<1>1. Init => ReportInv
  <2>1. Init => Signed
    BY ModelValueAssumption DEF Init, Signed, Read, NoTables
  <2>2. QED
    BY <2>1, InitOwed DEF ReportInv
<1>2. ReportInv /\ [Next]_vars => ReportInv'
  BY StepOwed, StepSigned DEF ReportInv, OwedInv, DurableInv, CoherentInv
<1>3. ReportInv => (\A h \in Handles :
        Assemble(h) /\ op[h] # "populate" => owed \cap Read(h) \subseteq Changed(h))
  <2> SUFFICES ASSUME ReportInv, NEW h \in Handles, Assemble(h), op[h] # "populate",
                      NEW t \in owed, t \in Read(h)
               PROVE  t \in Changed(h)
    OBVIOUS
  <2>1. mem[h] # NoCache
    BY ModelValueAssumption
       DEF Assemble, ReportInv, OwedInv, DurableInv, CoherentInv, Structure,
           InItsSteps, HasDatabase, Returning
  <2>2. mem[h].tables[t].hash = Invalidated
    BY <2>1 DEF ReportInv, OwedInv, Owing, MarkedIn
  <2>3. work[h][t].hash # Invalidated
    BY DEF ReportInv, Signed
  <2>4. QED
    BY <2>2, <2>3 DEF Changed, Unchanged, SameHash
<1>4. QED
  BY <1>1, <1>2, <1>3, PTL DEF Spec, InvalidatedIsReported
=============================================================================
