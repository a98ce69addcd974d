----------------------------- MODULE QueryPath -----------------------------
(***************************************************************************)
(* A query from Python to the database: run_sql and refresh of the Python  *)
(* binding (schemadex-py lib.rs), the process-wide runner pool             *)
(* (backends/mod.rs) and run_sql_unchecked (schemadex-core lib.rs).        *)
(*                                                                         *)
(* Callers share one PySchemaCache, the mutex around it and the runner     *)
(* pool.  A synchronous method keeps the interpreter lock from its first   *)
(* instruction to its last.  An asynchronous one gives its work to a       *)
(* blocking thread, which needs the interpreter lock again only to hand    *)
(* its result over.  What a caller does between two points where it may    *)
(* wait is a step:                                                         *)
(*                                                                         *)
(*   run_sql  LookUp a runner, or Connect one; Lock the cache; Refuse, or  *)
(*            Hit the memo, or Execute the statement and Answer            *)
(*   refresh  Connect; Lock; Gather the schema; Replace the database       *)
(*   inspect  Lock and return: list_tables, resolve and their like         *)
(*                                                                         *)
(* The state of the database is a number that grows with each change.  An  *)
(* answer is the state it was read from.  There is one URL; the memo is    *)
(* large enough not to evict (ResultCache has the eviction).               *)
(***************************************************************************)
EXTENDS Naturals

CONSTANTS
  Sync,        \* callers of the synchronous methods
  Async,       \* tasks that call the asynchronous functions
  Statements,  \* SQL texts
  Writes,      \* those that are not read-only
  Ddls,        \* schema fingerprints
  Ddl,         \* the fingerprint of each state; None when there are no tables
  MaxChanges,  \* bound: the state of the database goes no further
  MaxClears,   \* bound: clear_pool_cache is called as often
  None         \* model value

Callers == Sync \cup Async
Versions == 0 .. MaxChanges

ASSUME CallersAssumption ==
  /\ Sync \cap Async = {}
  /\ None \notin Callers
ASSUME BoundsAssumption == MaxChanges \in Nat /\ MaxClears \in Nat
ASSUME DdlAssumption ==
  /\ None \notin Ddls
  /\ Ddl \in [Versions -> Ddls \cup {None}]
ASSUME StatementsAssumption == Writes \subseteq Statements
ASSUME NoneAssumption == None \notin Nat

\* What a caller may ask for.  allow_write on a statement that is read-only
\* makes no difference.
Queries ==
  {q \in [op : {"run_sql"}, sql : Statements, memoize : BOOLEAN, write : BOOLEAN] :
     q.write => q.sql \in Writes}

Requests == Queries \cup [op : {"refresh", "inspect"}]

VARIABLES
  live,     \* the state of the database
  known,    \* the fingerprint of the cached database, or None
  memo,     \* memo[f][s]: the answer to s kept under f, or None
  pool,     \* the pooled runner, known by the caller that connected it, or None
  gil,      \* the caller that has the interpreter lock, or None
  mutex,    \* the caller that has the cache, or None
  pc,       \* where each caller is
  request,  \* what it asks for, or None
  runner,   \* the runner it was given, or None
  got,      \* what it has read from the database or the memo, or None
  cleared,  \* history: how often the pool was cleared
  taken,    \* history: the value of cleared when a caller got its runner
  fresh,    \* history: the state the last refresh that returned has read
  since     \* history: the value of fresh when a caller began

vars == <<live, known, memo, pool, gil, mutex, pc, request, runner, got, cleared,
          taken, fresh, since>>
shared == <<known, memo, fresh>>
pooling == <<pool, cleared>>

TypeOK ==
  /\ live \in Versions
  /\ known \in Ddls \cup {None}
  /\ memo \in [Ddls -> [Statements -> Versions \cup {None}]]
  /\ pool \in Callers \cup {None}
  /\ gil \in Sync \cup {None}
  /\ mutex \in Callers \cup {None}
  /\ pc \in [Callers -> {"idle", "pool", "connect", "lock", "locked", "read",
                         "deliver"}]
  /\ request \in [Callers -> Requests \cup {None}]
  /\ runner \in [Callers -> Callers \cup {None}]
  /\ got \in [Callers -> Versions \cup {None}]
  /\ cleared \in 0 .. MaxClears
  /\ taken \in [Callers -> 0 .. MaxClears]
  /\ fresh \in Versions
  /\ since \in [Callers -> Versions]

NothingKept == [f \in Ddls |-> [s \in Statements |-> None]]

Init ==
  /\ live = 0
  /\ known = Ddl[0]
  /\ memo = NothingKept
  /\ pool = None
  /\ gil = None
  /\ mutex = None
  /\ pc = [p \in Callers |-> "idle"]
  /\ request = [p \in Callers |-> None]
  /\ runner = [p \in Callers |-> None]
  /\ got = [p \in Callers |-> None]
  /\ cleared = 0
  /\ taken = [p \in Callers |-> 0]
  /\ fresh = 0
  /\ since = [p \in Callers |-> 0]

(***************************************************************************)
(* Helpers.  A definition whose comment starts with "Mutant" is a bug this *)
(* code could have: it stands for the definition after it when the         *)
(* properties are tested, and nothing uses it.                             *)
(***************************************************************************)

Asks(p, op) == request[p] # None /\ request[p].op = op

\* Mutant: the runner just built replaces the one that is there.
OwnRunner(p) == p

\* entry().or_insert_with(): what is in the pool once p has offered its own.
SharedRunner(p) == IF pool = None THEN p ELSE pool

\* Mutant: a query does not exclude a refresh.
FreeForQueries(p) == mutex = None \/ Asks(p, "run_sql")

\* The cache can be locked.
Free(p) == mutex = None

\* The memo takes part in the call.
Memoized(p) == request[p].memoize /\ known # None

Refused(p) == request[p].sql \in Writes /\ ~request[p].write

Kept(p) == memo[known][request[p].sql]

\* The statement is given to the database.
Runs(p) ==
  /\ Asks(p, "run_sql")
  /\ ~Refused(p)
  /\ Memoized(p) => Kept(p) = None

\* Mutant: the memo is replaced by nothing at all.
NoMemo == [f \in Ddls |-> None]

\* What a refresh leaves in the memo.
Emptied == NothingKept

\* Mutant: the guard lives until the result has been handed over.
HolderUntilDelivered(p) == IF p \in Async THEN p ELSE None

\* Who has the cache once p's block ends: the guard is dropped there.
HolderAfter(p) == None

(***************************************************************************)
(* The life of a call.                                                     *)
(***************************************************************************)

\* Python calls.  A synchronous method keeps the interpreter lock.
Call(p, r) ==
  /\ pc[p] = "idle"
  /\ gil = None
  /\ gil' = IF p \in Sync THEN p ELSE None
  /\ request' = [request EXCEPT ![p] = r]
  /\ pc' = [pc EXCEPT ![p] = CASE r.op = "run_sql" -> "pool"
                               [] r.op = "refresh" -> "connect"
                               [] r.op = "inspect" -> "lock"]
  /\ since' = [since EXCEPT ![p] = fresh]
  /\ UNCHANGED <<live, shared, pooling, mutex, runner, got, taken>>

\* What a call worked with goes out of scope.
Forget(p) ==
  /\ request' = [request EXCEPT ![p] = None]
  /\ runner' = [runner EXCEPT ![p] = None]
  /\ got' = [got EXCEPT ![p] = None]
  /\ taken' = [taken EXCEPT ![p] = 0]
  /\ since' = [since EXCEPT ![p] = 0]

\* The block that may have the cache ends.  A synchronous caller returns; a
\* task waits for the interpreter lock, to hand its result over.
Leave(p) ==
  /\ Forget(p)
  /\ mutex' = IF mutex = p THEN HolderAfter(p) ELSE mutex
  /\ pc' = [pc EXCEPT ![p] = IF p \in Sync THEN "idle" ELSE "deliver"]
  /\ gil' = IF gil = p THEN None ELSE gil

Deliver(p) ==
  /\ pc[p] = "deliver"
  /\ gil = None
  /\ pc' = [pc EXCEPT ![p] = "idle"]
  /\ mutex' = IF mutex = p THEN None ELSE mutex
  /\ UNCHANGED <<live, shared, pooling, gil, request, runner, got, taken, since>>

(***************************************************************************)
(* shared_runner                                                           *)
(***************************************************************************)
Take(p, id) ==
  /\ runner' = [runner EXCEPT ![p] = id]
  /\ taken' = [taken EXCEPT ![p] = cleared]
  /\ pc' = [pc EXCEPT ![p] = "lock"]

LookUp(p) ==
  /\ pc[p] = "pool"
  /\ IF pool # None THEN Take(p, pool)
     ELSE pc' = [pc EXCEPT ![p] = "connect"] /\ UNCHANGED <<runner, taken>>
  /\ UNCHANGED <<live, shared, pooling, gil, mutex, request, got, since>>

\* The backend is connected, outside the pool's lock.  A refresh connects an
\* introspector of its own, which is not pooled.
Connect(p) ==
  /\ pc[p] = "connect"
  /\ IF Asks(p, "run_sql")
     THEN /\ pool' = SharedRunner(p)
          /\ Take(p, SharedRunner(p))
     ELSE /\ pc' = [pc EXCEPT ![p] = "lock"]
          /\ UNCHANGED <<pool, runner, taken>>
  /\ UNCHANGED <<live, shared, cleared, gil, mutex, request, got, since>>

ConnectFails(p) ==
  /\ pc[p] = "connect"
  /\ Leave(p)
  /\ UNCHANGED <<live, shared, pooling>>

\* Exported for tests.
ClearPool ==
  /\ gil = None
  /\ cleared < MaxClears
  /\ cleared' = cleared + 1
  /\ pool' = None
  /\ UNCHANGED <<live, shared, gil, mutex, pc, request, runner, got, taken, since>>

(***************************************************************************)
(* With the cache locked.                                                  *)
(***************************************************************************)
Lock(p) ==
  /\ pc[p] = "lock"
  /\ Free(p)
  /\ mutex' = p
  /\ pc' = [pc EXCEPT ![p] = "locked"]
  /\ UNCHANGED <<live, shared, pooling, gil, request, runner, got, taken, since>>

Inspect(p) ==
  /\ pc[p] = "locked"
  /\ Asks(p, "inspect")
  /\ Leave(p)
  /\ UNCHANGED <<live, shared, pooling>>

\* assert_readonly turns the statement down.
Refuse(p) ==
  /\ pc[p] = "locked"
  /\ Asks(p, "run_sql")
  /\ Refused(p)
  /\ Leave(p)
  /\ UNCHANGED <<live, shared, pooling>>

\* The memo answers: what is returned is Kept(p).
Hit(p) ==
  /\ pc[p] = "locked"
  /\ Asks(p, "run_sql")
  /\ ~Refused(p)
  /\ Memoized(p)
  /\ Kept(p) # None
  /\ Leave(p)
  /\ UNCHANGED <<live, shared, pooling>>

\* The database runs the statement, which may change it.
Execute(p) ==
  /\ pc[p] = "locked"
  /\ Runs(p)
  /\ \/ live' = live
     \/ request[p].sql \in Writes /\ live < MaxChanges /\ live' = live + 1
  /\ got' = [got EXCEPT ![p] = live']
  /\ pc' = [pc EXCEPT ![p] = "read"]
  /\ UNCHANGED <<shared, pooling, gil, mutex, request, runner, taken, since>>

\* Its rows are in: they are rendered, kept if asked for, and returned.
Answer(p) ==
  /\ pc[p] = "read"
  /\ Asks(p, "run_sql")
  /\ memo' = IF Memoized(p) THEN [memo EXCEPT ![known][request[p].sql] = got[p]]
             ELSE memo
  /\ Leave(p)
  /\ UNCHANGED <<live, known, fresh, pooling>>

\* The schema has been read, at one moment (SchemaCache has the steps).
Gather(p) ==
  /\ pc[p] = "locked"
  /\ Asks(p, "refresh")
  /\ got' = [got EXCEPT ![p] = live]
  /\ pc' = [pc EXCEPT ![p] = "read"]
  /\ UNCHANGED <<live, shared, pooling, gil, mutex, request, runner, taken, since>>

Replace(p) ==
  /\ pc[p] = "read"
  /\ Asks(p, "refresh")
  /\ known' = Ddl[got[p]]
  /\ memo' = Emptied
  /\ fresh' = got[p]
  /\ Leave(p)
  /\ UNCHANGED <<live, pooling>>

\* The cache file cannot be written: the database has been replaced, the
\* memo is left as it is.
ReplaceFails(p) ==
  /\ pc[p] = "read"
  /\ Asks(p, "refresh")
  /\ known' = Ddl[got[p]]
  /\ Leave(p)
  /\ UNCHANGED <<live, memo, fresh, pooling>>

\* The query fails, at the database, on its way back, or because its result
\* does not fit the budget: an error, and nothing is kept.
ReadFails(p) ==
  /\ \/ pc[p] = "read"
     \/ pc[p] = "locked" /\ (Asks(p, "refresh") \/ Runs(p))
  /\ Leave(p)
  /\ UNCHANGED <<live, shared, pooling>>

\* Others change the database.
Alter ==
  /\ live < MaxChanges
  /\ live' = live + 1
  /\ UNCHANGED <<shared, pooling, gil, mutex, pc, request, runner, got, taken,
                 since>>

(***************************************************************************)
(* The specification.  The backend answers, a thread that can run runs,    *)
(* and nothing else is assumed: who gets a free lock is not determined.    *)
(***************************************************************************)
Proceed(p) ==
  \/ LookUp(p) \/ Connect(p) \/ Lock(p) \/ Inspect(p) \/ Refuse(p) \/ Hit(p)
  \/ Execute(p) \/ Answer(p) \/ Gather(p) \/ Replace(p) \/ Deliver(p)

Next ==
  \/ \E p \in Callers :
       \/ \E r \in Requests : Call(p, r)
       \/ Proceed(p) \/ ConnectFails(p) \/ ReplaceFails(p) \/ ReadFails(p)
  \/ ClearPool
  \/ Alter

Spec == Init /\ [][Next]_vars

FairSpec == Spec /\ \A p \in Callers : WF_vars(Proceed(p))

(***************************************************************************)
(* Properties.                                                             *)
(***************************************************************************)

\* "callers see a single shared instance": callers that were given a runner
\* since the pool was last cleared have the same one, also those that raced
\* to build it.
OneRunner ==
  \A p, q \in Callers :
    runner[p] # None /\ runner[q] # None /\ taken[p] = taken[q]
      => runner[p] = runner[q]

\* What run_sql returns was in the database when the last refresh that had
\* returned before the call began read it, or later: no query that was under
\* way during a refresh leaves an older answer for those after it.
NothingOlderThanRefresh ==
  [][\A p \in Callers :
       /\ Hit(p) => Kept(p) >= since[p]
       /\ Answer(p) => got[p] >= since[p]]_vars

\* A synchronous call returns, although it keeps the interpreter lock while
\* it waits for a cache that a task may have.
SyncCallsReturn == gil # None ~> gil = None
=============================================================================
