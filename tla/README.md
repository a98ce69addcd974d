# Schemadex in TLA+

schemadex reads the schema of a SQL database, keeps it in a cache on disk and in
memory, and answers an agent's questions from it: which tables there are, which
column was meant, how a schema is described in so many tokens, whether a
statement may run and what it returned. It is a Rust library (`crates/schemadex-core`)
with a Python binding (`crates/schemadex-py`) and Python code on top of that
(`python/schemadex`).

This directory holds the TLA+ modules that model it, the TLC configurations that
check them, and proofs about them for TLAPS. `PROJECT.json` maps every definition
to the lines it stands for.

- [The system](#the-system): components, state, what is hard about them
- [The modules](#the-modules): how state and actions correspond to the code
- [The runs](#the-runs): what is checked, within which bounds, and why they do
- [Fairness](#fairness)
- [The proofs](#the-proofs)
- [Where code and documents disagree](#where-code-and-documents-disagree)
- [What is left out](#what-is-left-out)
- [Plan](#plan)

To run a check: `tlc -config ResultCacheShared.cfg MCResultCache`. To check the
proofs of a module: `tlapm ResultCacheProofs.tla`.

## The system

```
  agent, MCP server, LSP server, notebooks
        |                         |
  Python binding  ----------  embedding_resolve.py
  mutex per cache, runtime        |
        |                         |
  SchemaCache ----- ResultCache   |     file system
   |   |    \---- database.json.zst, history/, embeddings.json.zst
   |   |                  \--------- schemadex-diff, schemadex-docs
   |   +-- pure functions: describe, resolve, validate, guard, render
   |
  Introspector / runner pool
   |
  seven backends, sampling, masking ---- live database
```

| component | state | operations | what is hard | what makes it correct |
| --- | --- | --- | --- | --- |
| **Result memo** `memo.rs` | a hash map and a recency queue, each behind a mutex | get, put, clear | the two mutexes are taken one after the other, so any call falls between the halves of another | it stays within its capacity; every cached key can be evicted; what it answers was put there |
| **Persisted schema cache** `cache.rs` | the database in memory, the cache file, a legacy file | open, load, refresh, refresh_table, invalidate_table | a call may fail or die after any system call, the live database changes while it is read, processes share the file without a lock | memory and file agree when a call has returned; fingerprints are those of their tables; only what was seen is recorded; an invalidation is not lost; nothing computed under an old database is served under a new one |
| **Schema history** `cache.rs` | a directory of snapshots | snapshot (and rotation), history | listings grow stale while others create and remove files; several snapshots in one second | no more and no fewer than `max_history` are kept, and the newest; a reader misses none that had to stay |
| **Query path** `lib.rs`, **Python binding** `schemadex-py` | the mutex around a cache, the interpreter lock | run_sql, refresh, inspecting methods, each synchronous or asynchronous | a synchronous method holds the interpreter lock while it waits for the mutex; a query and a refresh overlap | no deadlock; no answer older than the last refresh |
| **Runner pool** `backends/mod.rs` | a map from URL to runner behind a mutex | shared_runner, clear_pool_cache | connecting happens outside the lock, so callers race | all callers share one runner |
| **Embedding index** `embedding_resolve.py`, `cache.rs` | a file of vectors for one model | resolve_with_embedding, load, store | many requests to a server lie between load and store; processes and models share the file; the model fails half way | vectors of different models are never compared; a ranking is complete or not made |
| **Describe and render** `agent.rs`, `lib.rs` | none | describe_for_agent, render_table_for_agent | order of what is given up, budgets around a boundary | within budget; what matters most is given up last; a cut result says so |
| **Name resolution and validation** `resolve.rs`, `synonyms.rs`, `hint.rs`, `validate.rs` | none (the synonyms are read once) | resolve_column, hint_for_error, validate_sql | ties, scopes, two patterns that read one text independently | the best match is named; a statement the schema can answer gets no issue, one it cannot does |
| **Read-only guard** `safety.rs` | none | assert_readonly | comments, literals, EXPLAIN and its options stacked in any order | a batch is accepted when each of its statements begins with a word that reads |
| **Federation, overlap and examples** `federation.rs`, `overlap.rs`, `examples.rs` | a list of caches | list, find, suggest joins and statements | a listed name is cut at its dot, which may be that of a schema; what was read may be less than what was declared | a listed table is found; a suggestion is about what is there, and new |
| **Backends** `backends/*.rs`, `introspector.rs`, `fingerprint.rs` | a connection each | list tables, read columns, keys, references and samples, run and price statements | composite, partial and expression keys; rows of a catalog join gathered by name; single queries that fail; seven ways to count a limit | a table is read as it was declared; a result that was cut says so |
| **Sampling and masking** `sampling.rs`, `pii.rs` | none | what is kept of a column's values | samples of a sample, shares of the values that came back, one rule overriding another | what is kept is true of the column; nothing is kept of a column that the policy was told to mask |
| **Tools** `schemadex_diff.rs`, `schemadex_docs.rs` | none | read caches and snapshots, compare, document | files of two kinds, ordered by name and by time; names that differ in case | the difference turns one database into the other; a document leaves nothing out |
| **MCP server** `mcp_server.py`, **failure log** `failure_log.py` | counters; a file of lines | tool calls, metrics, append, read | each is one call of the cache and one increment or append beside it | not modelled |

The interactions: every method of the Python class locks the cache's mutex and
calls the core. The core calls the `Introspector` for schemas and the runner for
results, reads and writes its files, and keeps results in the memo under the
fingerprint of the schema, which `refresh`, `refresh_table` and `invalidate_table`
clear. A snapshot is taken after a database was read whole, by an open or a refresh. `resolve_with_embedding` calls the
cache for columns, an Ollama server for vectors, and the cache again for its file.
Nothing calls back into schemadex, and nothing but the database, the file system
and the embedding server is outside it.

The hazards this code is exposed to are listed with their lines in `PROJECT.json`
(`hazards`), each with the properties that would catch it or the reason why none does.

## The modules

An operator whose comment begins with "Mutant" is a bug the code could have. No
specification uses it: it stands in for the definition after it to test that a
property notices.

**`ResultCache`** is `memo.rs`. `entries` and `order` are the two structures,
`entriesLock` the mutex a `put` keeps between two steps. A step is what a thread
does between two points where another can run: `GetMiss`, `GetHit` and, under
another lock, `GetPromote`; `PutLock` and then `PutReplace` or `PutInsert`, whose
eviction loop is described by where it stops; `ClearEntries` and `ClearOrder`.
`SharedClear` says whether `clear` is reached through the handle that
`SchemaCache::memo()` gives out or only through methods that take `&mut self`.
A key stands for a fingerprint and a statement. **`BoundedMap`** is what the memo
promises callers that share it (an atomic map that evicts only when full),
**`LruQueue`** what `memo.rs` says it is (one queue, least recently used first).

**`SchemaCache`** is the cache file and the methods that read and write it. A
handle is one `SchemaCache` value in a process of its own, and runs one call at a
time (`&mut self`). `pc` is the place between two awaits or system calls where it
is: `probe` for a legacy file, `list`, `gather`, `truncate`, `write`, `unlink`.
Reading and signing a table are two actions (`IntrospectTable`, `SignTable`),
interleaved over the tables as the concurrent jobs are; `Alter` changes the live
database between any two of them. Opening the cache file for writing truncates it
(`Truncate`) and `Write` ends it; `WriteFails` and `Exit` leave it torn when they
fall between. `Assemble` replaces the database in memory before the file is
written, and `Write` clears the memo after that, as the code does.
`memo` holds, for one statement, the fingerprints there is a result under, and
whether it was computed under the present database (`current`, a history variable).
Two more history variables serve the properties: `seen`, the shapes a table had
since it was listed, and `owed`, the tables marked stale and not yet read again.

**`History`** is `snapshot`, `rotate_history` and `history`, a step for each system
call. A file is named by second and number; `dir` says of each name whether it is
there, decodes, or is being written.

**`QueryPath`** is `run_sql` and `refresh` as Python calls them. `gil` is the
interpreter lock, `mutex` the one around the cache, `pool` the entry of the runner
pool. A synchronous caller has `gil` from its first step to its last, a task takes
it only to deliver its result. The state of the database is a number that grows,
and an answer is the number it was read at.

**`EmbeddingIndex`** is `resolve_with_embedding` over `load_embeddings` and
`store_embeddings`. A vector is the table and column it was stored for and the
model that made it; the file does not have the last, and the properties are about
it. `Locked` is the interpreter lock that the loads and stores of one process
exclude each other by.

**`Catalog`** (`model.rs`, `federation.rs`), **`Resolve`** (`resolve.rs`,
`synonyms.rs`, `hint.rs`), **`Validate`** (`validate.rs`), **`ReadOnly`**
(`safety.rs`) and **`Describe`** (`agent.rs` and `render_table_for_agent`) are pure
functions as operators. Texts are sequences of tokens, and how alike two spellings
are is an input. **`Statements`** is not a translation: it says what a statement
means and how it is written, and is what `Validate` is measured by.

**`Types`**, **`Sampling`**, **`ServerBackends`** (PostgreSQL, MySQL, SQL Server),
**`FileBackends`** (SQLite, DuckDB), **`CloudBackends`** (Snowflake, BigQuery) and
**`Backends`** are what the seven backends make of what their databases answer: the
class of a type, what is kept of the values of a column, and a table with its columns,
keys, references and checks. **`Declared`** is what they are measured by: a database
as its schema was declared, and the table that should be read of it. The catalogs
belong to the databases and are modelled from what the queries expect of them
(external in the map); the queries that fail are an argument. **`Runners`** is what
comes back of a statement, by the limits of each backend and through the calls of
`lib.rs` that cut and render it. **`Suggest`** is `examples.rs` and `overlap.rs` over
tables as they were read. **`Reports`** is the two tools that read caches.

**`Sorting`** has the stable sorts and the filters of all of these, by the places they leave.

The modules of functions state what is expected of them at their end, in terms that
do not follow their definitions.

**`MC...`** modules give the constants their values. `MCAlgorithms` and `MCSources`, which it extends, have
an initial state for each subject (`about`) and choose one `input` about it after the other.
The guard takes any words and symbols beside those it knows (`Words`, `Symbols`), as long as
none is both a word and one of its marks (`VocabularyAssumption`); the other assumptions say that
`None` is not a name, a schema, a warning, a rendering, a number, a kind of value, a share or a file.

**`...Proofs`** modules hold the proofs, one for each of the five specifications with
actions. `FunctionProofs` begins with what is proved about sets, sequences and recursion in
general and has the functions proved one by one (the guard, samples, dates and reports),
`SourceProofs` what the seven backends read, and `AlgorithmProofs` the other functions and
the specification that asks them.

## The runs

| run | instance | distinct states | what it checks |
| --- | --- | --- | --- |
| `ResultCacheShared` | 3 callers, 3 keys, 2 values, capacity 2, clear by refresh only | 67998 | `CapacityBound`, `NoOrphan`, `OneGhostPerKey`, `ImplementsBoundedMap` |
| `ResultCacheSequential` | 1 caller, 4 keys, 2 values, capacity 3 | 7526 | `ImplementsLru` |
| `ResultCacheClear` | 3 callers, 4 keys, capacity 1, clear by anyone | 48097 | `OverrunBounded` |
| `SchemaCacheRestart` | 1 process, 2 tables, 2 shapes, 2 changes, a legacy file, a TTL that passes, every call, failures and restarts | 3619602 | `FingerprintCoherent`, `ImageWasSeen`, `Durable`, `InvalidationPersists`, `InvalidatedIsReported`, `LegacyOutlivesMigration` |
| `SchemaCacheShared` | 2 processes with memos, 1 table, shapes that differ in their rows alone, a legacy file | 230659 | `MemoFollowsRefresh`, `CallsEnd` |
| `HistoryShared` | 2 writers, 1 reader, 3 snapshots in 3 seconds, `max_history` 1 | 847928 | `RotationBounds`, `NewestKept`, `EnoughIsKept`, `NewestReported` |
| `QueryPathShared` | a synchronous caller and a task, a read and a write, 2 changes, 1 clearing of the pool | 450699 | `OneRunner`, `NothingOlderThanRefresh`, `SyncCallsReturn` |
| `EmbeddingIndexShared` | 2 threads and another process, 2 tables, 2 columns, 2 models, 2 calls, 1 change, an index of any of them or of no model to begin with | 1278023 | `NoMixedModels`, `RankedByItsModel`, `NextCallIsWarm` |
| `Algorithms` | the inputs below | 157197 | ten properties, one for each group of functions |
| `SchemaCacheSuspect` | 1 process, a memo, no change of the database | violation | `SuspectsAreCleared` |
| `ValidatorAliases` | the inputs of `Algorithms` | violation | `ValidatorStaysSilent` |
| `Sentinels` | the inputs of `Algorithms` | violation | `SentinelsAreReal` |

`TypeOK` is checked once for each specification, in `ResultCacheShared`,
`SchemaCacheRestart`, `HistoryShared`, `QueryPathShared` and `EmbeddingIndexShared`;
it is not repeated in the table. States are counted after symmetry, which is used where
callers, keys, tables or models are alike and no liveness is checked.

**The memo.** Two callers are enough for one to fall between the steps of another;
the third lets a second promotion or an eviction happen in the same gap. Three keys
over a capacity of two make every third put evict, and leave evicted keys to be
promoted (a ghost) and put again (a ghost that is cached). Popping a ghost frees
nothing, so the eviction loop ends with room only because the queue holds every cached
key (`NoOrphan`); `OneGhostPerKey` is all that bounds the queue. What callers see is an atomic bounded map (`ImplementsBoundedMap`): a value
takes effect when the entries lock is given up, the queue only decides who is
evicted. It is *not* least recently used when callers overlap, which is why
`ImplementsLru` is checked for one caller; there the order matters, so it has three
places and four keys. `ResultCacheClear` lets `clear` overlap with puts: a key put
between its two halves is no longer queued, and the map can outgrow its capacity, by
less than one entry for each thread (`OverrunBounded`). Three threads over a capacity of
one reach the bound, three entries, and need four keys to show that a fourth is not kept.
That the two locks are never held together in opposite orders is seen in the code, where
only `put` holds both; the model has no action in which a lock could wait for another, so
nothing about deadlock is claimed of the memo.

**The cache file.** Two tables let a call about one leave the other alone, and two
changes let a table be altered and altered back, or be dropped between listing and
reading. `SchemaCacheRestart` has a process fail or die at each step and start
again. `ImageWasSeen` is the strongest statement the code justifies about what a
refresh records: table by table the shape and the hash were there since the listing,
though not necessarily at one moment. `InvalidationPersists` and
`InvalidatedIsReported` follow a table that was marked stale through restarts, failed
refreshes and refreshes of other tables until it is read again.
The legacy file of `SchemaCacheRestart` is moved by the first open, which may fail
between writing the new file and removing the old. `SchemaCacheShared` has shapes
with the same DDL signature, so that a refresh finds the fingerprint where it was and
only clearing the memo keeps old rows from being served; and it is about progress. The
other properties do not hold for two processes (see below), because nothing locks the
file.

**History.** With `max_history` 1 each snapshot rotates the one before it away, so
three snapshots in three seconds make two rotations race over files that arrive late
and a reader race both. `EnoughIsKept` covers several snapshots in one second.

**The query path.** The database changes twice: its rows, which leaves the
fingerprint, and its tables. One task is enough to have the cache while the
synchronous caller waits for it with the interpreter lock, and to connect a runner
while the other does. The proofs extend the safety properties to any number.

**The embedding index.** The three callers give each pair there can be, of one process
and of two; the third only shows in who makes the two calls. The second model and the
second table are what a call could confuse with its own. The file may have been stored by
hand without a model's name; such an index counts for every model (`Usable`), and the
properties say of its vectors only that they were not stored under another model's name. A call is warm
(`NextCallIsWarm`) when no write of another has run into it, which is the most the code
can promise: it loads, works for seconds, and overwrites.

**The functions.** `Algorithms` answers some 157000 inputs: statements of up to
two items, two tables joined in three ways and a filter, with misspelt columns and
tables; tables of up to five columns (an answer names four) with five degrees of
likeness, among them a tie at the cap and a score that only a bonus lifts over the
threshold; up to two synonyms in three scopes; federations of up to two members;
batches of up to three tokens followed by one of six others; three tables of two sizes
with foreign keys, five strengths of a hint and five budgets; results of up to four
rows at thirteen budgets. For the backends: a table of two columns under every kind of
key of one or two members (primary, unique, index, partial, over an expression), with
nine sets of references or none, beside a view, a table of the system and a table in
another schema that has a reference of its own, read by seven backends while one of nine sets of queries fails or none; columns of up to
five cells under twelve policies; statements of up to four rows through six runners
at five budgets. For the tools: databases of up to two tables in two spellings, histories of up to
three files, command lines that name files of each kind, and dates around
leap days and the turn of a century.

- `StatementsAreJudged`: a statement of names, aliases and joins gets no issue when the
  schema can answer it and one for each name it cannot. It is restricted to statements
  whose meaning the two patterns of `validate.rs` can tell; `ValidatorStaysSilent`
  is not, and is violated.
- `NamesAreResolved`: the match is one of the most alike, the alternatives the next;
  synonyms of other tables never answer; a hint is the best of the whole database.
- `GuardIsStructural`: the guard follows the structure of a batch (semicolons,
  comments, literals, EXPLAIN with its options). What is a statement is told by the
  code's own scan for quotes and semicolons, which knows no comments: a comment changes
  nothing when it has neither, or when what it has leaves one statement. A comment with
  an apostrophe before a semicolon is outside of what the property says (see below).
- `DescriptionsKeepWhatMatters`: within budget, the parts in the order they matter, and
  more budget never says less.
- `ResultsAreHonest`: a cut result says that it was cut, whether a budget, a limit of
  rows or a backend cut it; a cost that is not known says why.
- `ListedTablesAreFound`: what a federation lists can be asked for by that name.
- `TablesAreReadAsDeclared`: what each backend says of a table is what was declared, for
  the kinds of keys and references it can tell (`TellsKeys`, `TellsUnique` and
  `TellsReferences` name them for each backend), and a query that is not needed may fail.
- `SamplesAreHonest`: what is kept of the values of a column is true of the column, and
  nothing is kept of one whose name the policy denies, nor by MySQL of one whose comment
  it denies. Of the other backends it does not ask the latter: they give the policy no
  comment and keep such a sample, which `sampling.rs` says is skipped (see below). It
  takes the shares as they are computed; `SentinelsAreReal` takes them as they are documented, and is violated.
- `SuggestionsAreSound`: suggested statements are about columns that are there and joins
  that were declared, suggested joins are new. It is about tables as the backends read
  them, so it composes `Suggest` with them.
- `ReportsAreExact`: the difference of two databases turns one into the other, the nth
  snapshot is the nth, a document has every table and edge, its date follows the calendar.

Deadlock is checked in every run. Where a specification has a bound on the number of
calls, it has an explicit step of rest for the state in which all have been made
(`EmbeddingIndex`), or another step that is always possible.

## Fairness

- `SchemaCache` (`CallsEnd`): weak fairness of each handle's `Proceed`, what a call does
  when nothing fails. It says that the backend answers and the file system returns. The
  code has no timeouts, so without the assumption no call needs to end.
- `QueryPath` (`SyncCallsReturn`): weak fairness of each caller's `Proceed`. Who gets
  a free mutex is not determined, and a waiting caller could in principle be passed
  over for ever; it is not, because a new call needs the interpreter lock that the
  synchronous caller has. The property holds because a task gives the cache's mutex
  up before it waits for the interpreter lock.

## The proofs

All are for any value of the constants, within the assumptions named in the modules.
Bounds such as `MaxChanges` are any natural number.

| theorem | says | inductive invariant |
| --- | --- | --- |
| `ResultCacheProofs!TypeCorrect` | `TypeOK` | `Typed`: with it, that a call in progress has the key and the value it is about, and that whoever is in `put` has the lock |
| `ResultCacheProofs!ExclusiveClearBounds`, `CachedKeysAreQueued` | `CapacityBound` and `NoOrphan`, when clear excludes other calls | `BoundInv` |
| `ResultCacheProofs!GhostsStaySingle` | `OneGhostPerKey`, when clear excludes other calls | `GhostInv` |
| `ResultCacheProofs!OverrunIsBounded` | `OverrunBounded`, for finitely many threads and clear at any time | `OverrunInv` |
| `ResultCacheProofs!MemoIsABoundedMap` | the refinement `ImplementsBoundedMap`, when clear excludes other calls | `BoundInv` |
| `ResultCacheProofs!MemoIsAnLruQueue` | the refinement `ImplementsLru`, for one caller | `LruInv` |
| `SchemaCacheProofs!TypeCorrect`, `FingerprintsAreCoherent` | `TypeOK`, `FingerprintCoherent`, for any number of processes | `CoherentInv` |
| `SchemaCacheProofs!OneProcessIsDurable` | `Durable`, for one process | `DurableInv` |
| `SchemaCacheProofs!MemosFollowRefreshes` | `MemoFollowsRefresh`, for any number of processes | `MemoInv` |
| `SchemaCacheProofs!RefreshesRecordWhatWasSeen` | `ImageWasSeen`, for any number of processes | `SeenInv` |
| `SchemaCacheProofs!OneProcessKeepsInvalidations`, `OneProcessMigratesSafely` | `InvalidationPersists` and `LegacyOutlivesMigration`, for one process | `OwedInv` |
| `SchemaCacheProofs!OneProcessReportsInvalidations` | `InvalidatedIsReported`, an action property, for one process | `ReportInv` |
| `HistoryProofs!TypeCorrect` | `TypeOK` | `CountInv` |
| `HistoryProofs!RotationsBoundTheDirectory` | `RotationBounds` | `BoundInv` |
| `HistoryProofs!NewestSnapshotsStay`, `NewestAreReported` | `NewestKept`, and `NewestReported`, an action property | `NewestInv` |
| `HistoryProofs!EnoughRemains` | `EnoughIsKept` | `EnoughInv` |
| `QueryPathProofs!TypeCorrect` | `TypeOK` | `Typed`: with it, that whoever is at `read` has read something |
| `QueryPathProofs!RunnerIsShared` | `OneRunner`, for any number of callers | `RunnerInv` |
| `QueryPathProofs!AnswersFollowRefresh` | `NothingOlderThanRefresh`, an action property | `AgeInv` |
| `EmbeddingIndexProofs!TypeCorrect`, `ModelsStayApart`, `RankingsAreSound` | `TypeOK`, `NoMixedModels`, `RankedByItsModel` | `IndexInv` |
| `EmbeddingIndexProofs!CallsWarmTheIndex` | `NextCallIsWarm` | `WarmInv` |
| `AlgorithmProofs!NamesFindTheBest` | `NamesAreResolved` | `InputIsSound`, with `BestAnswers`, `SynonymsAnswerInScope`, `HintsAreTheBest` |
| `AlgorithmProofs!FederationIsSearched` | `ListedTablesAreFound` | `InputIsSound`, with `EveryListedIsFound` |
| `AlgorithmProofs!GuardIsSound` | `GuardIsStructural` | `InputIsSound`, with `FunctionProofs!GuardIsStructuralForAll` |
| `AlgorithmProofs!DescriptionsAreSound` | `DescriptionsKeepWhatMatters` | `InputIsSound`, with `DescriptionIsSound` |
| `AlgorithmProofs!ResultsAreShown` | `ResultsAreHonest` | `InputIsSound`, with `RunIsHonestForAll`, `RenderedIsHonest`, `CostIsExplainedForAll` |
| `AlgorithmProofs!SamplesAreTrue` | `SamplesAreHonest` | `InputIsSound`, with `FunctionProofs!SampleIsHonestForAll`, `KindIsRightForAll` |
| `AlgorithmProofs!TablesAreRead` | `TablesAreReadAsDeclared` | `InputIsSound`, with `SourceProofs!TablesAreReadForAll`, `TablesAreListedForAll`, `TypesAreMeantForAll` |
| `AlgorithmProofs!ReportsAreTrue` | `ReportsAreExact` | `InputIsSound`, with `FunctionProofs!DiffIsExactForAll`, `SnapshotIsTheNthForAll`, `ToolsReadCachesForAll`, `DocumentIsCompleteForAll`, `DatesFollowForAll` |

The theorems named in the third column of the last eight are the stronger results: they hold of
inputs of any size. What they take an input to be is said where they are stated and is what
the code is given: `IsComparable` (a table without a column twice, likeness from 0 to 100 percent),
`IsDatabase` (no two tables of one name, schemas named throughout or not at all),
`Texts` (sequences of tokens), `IsListOfTables` (counts that are numbers), `IsResult`
and `IsStatement`, `IsSampledColumn` (cells that are numbers or missing), `IsListing` (files by the time in their
names), `IsDeclared` (a database without two tables of one name in a schema or two columns or
constraints of one name in a table, at most one primary key, and references with as many
columns at either end), `AreCaches` (files of databases), `IsCompared` (tables with their columns in order) and `AreDocumented`
(no dot in the name of a table). `InputIsSound` says that each input the specification chooses is of its kind,
so the invariants TLC checks follow.

Why the invariants are stronger than what they prove:

- `BoundInv`: the eviction loop stops for want of room or for want of keys. In the
  second case the queue is used up, and the capacity is respected only because then
  nothing is cached: every cached key is queued (`NoOrphan`). `NoOrphan` in turn
  survives a clear only because nobody else is in a call (`AloneInClear`) and the map
  is empty between its halves (`EmptyInClear`). The lemmas on the queue say what
  removing a position, pushing and popping do to the set of queued keys.
- `GhostInv`: a key that is not cached is queued at most once and one that is at most
  twice (`FewGhosts`), at every step between two locks.
- `OverrunInv`: a put exceeds the capacity only beside keys that are cached and not queued
  (`Orphans`), and by one. Orphans are made by the second half of a clear, of which
  there are at most as many as threads between two first halves, which empty the map; so
  they are counted together with the calls in a clear (`InClear`).
- The refinement of `BoundedMap` maps every step of a call to one of `BoundedMap`: a put takes effect
  when it gives the entries lock up, a promotion and the second half of a clear are
  stutters. That a put which evicts finds the map full comes from `BoundInv`.
- `LruInv`: with one caller a promotion finds its key still cached (`PromotesCached`), so
  there are no ghosts and the queue holds each cached key once (`QueueIsExact`). It is
  then as long as the map is large, and an eviction pops its first key and no other.
  `OneCaller` is an assumption of the theorem: two callers do make ghosts.
- `CoherentInv`: a handle that serves calls has a database and one that writes has an
  envelope (`HasDatabase`, `HasEnvelope`), each call is in the steps its name allows
  (`InItsSteps`), and a legacy file was coherent to begin with.
- `DurableInv`: that file and memory agree when a call returns needs that they agreed
  while it wrote: what is truncated is ours, and what is written is what is in memory
  (`WritesItsOwn`). `OneProcess` is an assumption of the theorem, since two processes
  do break `Durable`.
- `MemoInv`: every call that returns without an error has cleared the memo or was given
  out with an empty one (`EmptyWhileOpening`).
- `SeenInv`: at each place of a refresh, what it has listed, gathered and signed so far
  is among what was seen since the listing (`Watched`).
- `OwedInv`: a table that is owed carries the sentinel in memory, in the file and in what
  is being written (`Owing`), and a legacy file is only opened while nothing is owed
  (`MigratesFirst`). `ReportInv` adds that no signature read from the database is the
  sentinel (`Signed`), so that the comparison finds a difference.
- `CountInv`: a snapshot counts its name up once for each file it found, so a name's
  number is less than the number of files created in its second; and those, with
  the snapshots on their way to one, were all started.
- `HistoryProofs!BoundInv`: while there are too many files some task stands for it: one
  that has created a file and not listed the directory since, one whose last call ended
  with an error, or one that removes a surplus without which the bound holds. The
  last to list the directory is the last to stand for it.
- `NewestInv`: with one snapshot a second, whatever is gone, about to be removed
  or listed by a reader and not found has `max_history` newer ones. What a rotation
  leaves maps one to one to later seconds, which is where the sort comes in.
- `EnoughInv`: one at a time, the name that was probed is still free when the file is
  created, so each snapshot adds one.
- `RunnerInv`: who has a runner of the present generation has the pooled one.
- `AgeInv`: only the caller that has the mutex is between reading and keeping
  (`Exclusive`), and nothing that is kept or about to be is older than the last refresh.
- `IndexInv`: what a call has loaded and fetched is of the model it named or of an index
  without a name (`Own`), so what it stores and ranks by is too; no column has two vectors
  in a file or among those of a call (`OneEach`), and a ranking has one of each
  (`RankedInFull`); `OpenCalls` keeps a new call from being taken for
  the ranked one before it. The assumption `FilesAssumption` says that the model values
  for a missing file, a torn one and a caller in mid-write are not indexes.
- `WarmInv`: as long as no other write has run into a call, nobody is writing, and the
  file has what the call has loaded, is its own, or has what it stored (`Undisturbed`).

How the functions are proved about, where the specification has no steps to induct over:

- **Recursion and induction over data** (at the beginning of `FunctionProofs`). The induction rules of the library
  take an operator as a parameter, which the provers at hand cannot instantiate. Here
  they are stated about sets instead: a set of naturals with 0 and all successors is
  all of them (`Induction`), which follows from well-foundedness; a definition that recurs along a descent has
  exactly one solution (`LinearRecursion`, `RecursionIsUnique`), and so the recursive functions of the
  model and the folds of the community modules are what they say (`Iteration`, `FoldUnrolls`,
  `FlattenSeqIs`, `SumIsInteger`). `StageInduction` then follows a loop of the code stage by stage.
- **Stable sorts.** `Ranking` puts at place k what has k - 1 places ahead of it. That this is a
  permutation, and in order, is `OrderingIs`: under a strict linear order the number of
  elements ahead is injective, so by cardinality onto.
- **Names.** The match is the first of the ranking, so nothing is more alike. A hint takes the best of
  one table after the other; after each table it has the best of all so far, the earlier of equals.
- **The guard.** The scanner's state after a text depends on what came before only through which
  quote a literal is open in. A batch is cut at a semicolon outside of literals, so the
  statements of the whole are those of its parts if the first leaves none open; what is inside of a literal
  is never looked at, and a comment in front is skipped whatever it says, once it is known to be in one
  statement with what follows. EXPLAIN and its modifiers are removed one at a time, until what remains decides.
- **Descriptions.** The scores are raised table by table while they are read. What keeps this from
  mattering is that no score ever moves by more than `Boost`, that a best table never moves, and that a
  table joined to one gains whatever its place is. So a table which leads by more than `Boost` stays first
  and a companion goes before a stranger. Of the attempts each leaves a prefix of the tables and a suffix of
  the parts of the one before it, and a larger budget is never met later.
- **Samples.** A filter leaves the picked places in order (`LesserIs`, `PickedIs`), and a count is the cardinality of
  the places that hold a value, so the groups of a query are compared with the cells place by place. The sum of the groups that came
  back is never more than the cells and is all of them when no group was cut off. A percentile is an element of
  the sorted numbers, and the places up to it are counted by the sort being a permutation.
- **Backends.** What a catalog answers is a set of rows; sorting them by position and then, stably, by
  constraint (`SortedBy`, `ByPosition`) puts the columns of each key in its order, and gathering by name
  (`Gathered`) takes one run of rows for each constraint (`Picked` keeps their order). A backend that
  gathers by name needs names that tell constraints apart (`IsDeclared`), and PostgreSQL, which joins
  by schema and name, also that no table of another schema has a reference of that name to this one
  (`NamedAbroad`, `postgres.rs:414-416`). A failed query that is not needed is compared with the same read without the
  failure, part by part. That a listed table is found by its name is uniqueness of names, per schema
  or, for SQLite, in the file.
- **Dates.** The day of an era splits into a year that begins in March and a day of it (`MarchYear`, `MarchDay`): the intervals
  the divisions cut are those of the leap years. The next day is the next of both, and the March year is told from the civil one by the month.
- **Reports.** What is removed, added and changed between two databases partitions the tables by lower-case name.
  The entries of a document are a permutation of the tables, so titles and edges are counted through it; the anchors
  of one schema drop the same prefix and one dot, so they are equal only when the titles are.
- **Results.** A stream is taken row by row (`Take`) until the limit or the budget; what came back is a prefix of
  the rows of the statement, and the marker is set when that prefix is not all of them. Rendering drops rows from
  the end, and each larger budget drops no more.

Only model-checked:

- Liveness (`CallsEnd`, `SyncCallsReturn`), whose proof needs ENABLED under
  fairness, which the prover does not handle.
- `StatementsAreJudged` and `SuggestionsAreSound`. The first relates two readings of a text, by
  patterns and by structure, whose proof would be about parsing; some of its definitions fold
  with operators of the community modules that are opaque to the prover. The second is about
  tables as seven backends read them, beyond what `TablesAreReadForAll` says they keep of a
  declared table: a proof would also have to follow the samples into the statements.

## Where code and documents disagree

Three have a run that shows them:

- **A failed write leaves the memo uncleared** (`SchemaCacheSuspect`). `refresh`
  replaces the database (`cache.rs:228`), writes the file with `?` (229) and only then
  clears the memo, whose comment calls every result "now suspect" (230-231).
- **The validator is not silent when in doubt** (`ValidatorAliases`). The name before a
  comma is taken for a column, an alias too: `SELECT id AS n, email FROM users` is
  reported, against `validate.rs:19`.
- **A sentinel may be rare** (`Sentinels`). The share of a value is taken of the `top_k`
  groups that came back (`postgres.rs:222`, and the other sampling backends alike), not
  of the rows that were sampled, which is what `sampling.rs:5-7` and 132-134 and
  `README.md:81` say.

Others were met on the way; the models have the behaviour of the code:

- A clear that overlaps puts lets the memo exceed its capacity (`memo.rs:110-113`
  against line 1); `OverrunBounded` says by how much. Overlapping calls also evict a
  key that was just used (`memo.rs:15-18`).
- A torn cache file makes every later open fail (`cache.rs:740`, 147, 681-684), where
  the binding's documentation promises an open cache (`schemadex-py/src/lib.rs:156-157`).
- A snapshot may be removed by its own rotation when its second has others, since the
  sort does not look at the number (`cache.rs:612` against 510-511). Two tasks can take
  one name and overwrite each other (`cache.rs:494-502`). A snapshot that was cut short
  makes `history()` fail (`cache.rs:516`, 548).
- A second process on the same directory overwrites a sentinel it has not seen
  (`cache.rs:338-340` against 740), and a table marked stale is served as it was
  after the next open (`cache.rs:335-336` against 147-162).
- A refresh stores unchanged tables anew (`docs/usage.md:160-161` against `cache.rs:228`).
- A hit of the memo may be longer than the budget of its call (`lib.rs:217-222`), answers
  for another URL, and stands in for a statement that writes, which is then not executed
  (`schemadex-py/src/lib.rs:448-460`).
- With the score capped at 1.0 an earlier column that is nearly the same wins over the
  exact name (`resolve.rs:60-74`, sort at 36). The first synonym of a scope is used, or
  dropped, even if a later one names a real column (`synonyms.rs:94-125`). A hint names
  a table when it cannot tell which one is meant (`hint.rs:31-34` against 207-225).
- The order in which a description is cut is not the documented one: tables go last
  (`agent.rs:34-40` against 157-169). The boost for foreign keys can lift a table above
  one that matches by its columns, and is passed on within one pass (`agent.rs:82-104`).
- The guard turns down a comment after the last semicolon (`safety.rs:20-36`). Its scan for
  semicolons knows no comments (`safety.rs:138-171`), so an apostrophe in one, as in
  `-- it's`, opens a literal, and the semicolons after it do not separate statements until
  the next apostrophe: they are not "each validated" (`safety.rs:17-18`).
- `overlap.rs:4` documents kinds of similarity that are not computed. A column named
  `_id` has the empty stem and matches every table; `id` is suggested as a target whether
  or not it is a column; a declared join is looked for without its schema.
- The estimate of a row in a streamed result is its bytes times three tenths, rounded
  down: rows of up to three bytes cost nothing and exhaust no budget (`lib.rs:262-264`
  against `introspector.rs:61`).
- Reading tables: the default of a generated column is NULL in SQLite, so its expression
  is never found (`sqlite.rs:193-195`); a partial unique index, and in MySQL one over a
  column and an expression, marks its column unique (`mysql.rs:331-333`, 350-351,
  `model.rs:54-55`); composite references come back as a cross product in PostgreSQL,
  paired by the order of the key in SQL Server (`mssql.rs:288-291`), and in pieces in Snowflake
  when they have no name; `interval` is an integer. A table that is dropped between
  being listed and being read has no columns.
- Sampling: a column is to be skipped when its name or its comment matches the policy
  (`sampling.rs:25`, 106-107, and the test `default_pii_redacts_pii_comment`, 299-305), but
  SQLite, PostgreSQL and DuckDB read no comments (`sqlite.rs:216`, `postgres.rs:347`,
  `duckdb.rs:261`) and keep the values of a column that only its comment marks; the share of nulls is of all rows in one place and of the
  sampled ones in another.
- Running: SQL Server drains a result past its limit (`mssql.rs:352-354`); the first
  partition of a Snowflake result may be taken for all of it; what `introspector.rs:8-10`
  says of `truncated` holds for some backends. `SNOWFLAKE_ACCOUNT` overrides the URL
  (`snowflake.rs:20-22`).
- `schemadex-diff`: names that differ in case fall together, the last wins; two snapshots
  of one second come in the order of the directory; changed keys, defaults and
  nullability are "no changes"; `--snapshot 1` just after an open compares the cache
  with its own snapshot. `schemadex-docs`: different names may share an anchor.
- `failure_log.attach` is documented to return a proxy and a log; it returns the log,
  and nothing is logged through it.
- An index stored without a model's name, which `store_embeddings` allows
  (`schemadex-py/src/lib.rs:1123-1126`), is used whichever model is asked for
  (`embedding_resolve.py:156-157` against 141-144, "keyed to `model`"), and stored again
  under that model's name together with its vectors.
- PostgreSQL's references are joined by the constraint's name with the columns referred to
  in their schema (`postgres.rs:410-416`): a constraint of that name in another schema which
  refers to this one adds its columns.
- Two embedding calls that overlap lose each other's vectors, and callers of different
  models overwrite each other's index each time (`embedding_resolve.py:16-17` against
  275-315).

## What is left out

In every module: formatting, logging, and what a payload holds beyond what the
properties tell apart. A poisoned mutex, which takes a panic, is not modelled. By module:

- `ResultCache`: `size()` observes. A capacity of 0 turns `put` into no step.
- `SchemaCache`: the five queries that read a table are one read; rows and samples are
  part of a shape; hashes do not collide. The clock does not step back. A legacy file
  decodes. Taking a snapshot after a write is `History`. That one write stamps the
  whole file, and so restarts the TTL of tables it did not read, is modelled
  (`Stamped`) and no property is about it: no document promises an age per table.
- `History`: listing a directory is one step. A removal that fails is ignored, as in the
  code, and noted in `stuck`. `max_history` 0 is in the formulas and not in the run.
- `QueryPath`: one URL; a refresh reads the schema in one step; the memo does not evict.
  That rendering does not fit the budget is one of the ways in which `ReadFails`.
  `run_sql_streaming` is a query that is not memoized; `refresh_table` and
  `invalidate_table` lock like `refresh`. How an asynchronous result reaches Python is
  taken from the library that does it (pyo3-async-runtimes). `allow_write` on a
  statement that reads makes no difference and is not asked for.
- `EmbeddingIndex`: calls that spelling alone settles do not get here. A call names its
  model; an index is stored by hand, without a name, only before the calls begin. Which column comes
  first in a ranking is left out, and so is the numeric form of vectors. `resolve` is
  taken to return every column, which the code adds to it in the next step anyway. A
  table that is dropped in mid-call keeps its key.
- The functions: likeness (strsim) and token counts (tiktoken) are inputs; counts add up.
  Names contain no dots and differ in more than case. Issues are a set. The patterns
  that pick a name out of a database's error message are a record of what they found.
- The backends: the text of SQL, the formatting of cells, signing in, and of a URL all
  but its scheme and the schema it names. What a catalog answers is modelled from what
  the query expects (`Declared`). Batches of several statements, whose results may have
  different columns, are not asked. A query fails whole or answers whole. The decoding
  of a cell is whether the driver's type is the one asked for.
- The tools: layout of tables and documents; reading a file is by what decodes it.

Not modelled: the MCP server, whose tools are one call of the cache each (`QueryPath`)
beside an increment under one lock; the failure log, one append for each failure, where
what two processes leave is up to the buffering of Python and the file system;
`schemadex-warm`, which opens one cache after the other, and the audit of the interface;
the LSP, web, notebook and dbt adapters, which present a cache; errors and telemetry;
benchmarks, examples, CI.

One hazard of the list has no property: a hit of the memo answers for another budget,
another URL or a statement that writes. A comment leaves the budget out on purpose, and
nothing says what a memoized write should do; the disagreement is named above.

## Plan

The modules were written in the order of what the system depends on most, so that each
could be checked and proved about before the next. All of it is done:

1. `ResultCache` with `BoundedMap` and `LruQueue`; every invariant and both refinements
   proved.
2. `SchemaCache`; every safety property proved, those that need one process for one.
3. `History`; every property proved.
4. `QueryPath` with the runner pool; every safety property proved.
5. `EmbeddingIndex`; every property proved.
6. The functions of the agent-facing calls: `Catalog`, `Resolve`, `Validate`, `ReadOnly`,
   `Describe`; what is expected of all but `Validate` proved for inputs of any size.
7. The backends, and what is made of what they read: `Types`, `Sampling`, `Declared`,
   the three families and `Backends`, `Runners`, `Suggest`, `Reports`; what is expected
   of all but `Suggest` proved for inputs of any size.

What could come next, by what it would add:

- A proof of `SuggestionsAreSound`, on top of `SourceProofs`.
- The memo of `QueryPath` as an instance of `BoundedMap`, so that eviction and refresh
  meet; its key and its clearing are what the properties there are about.
- Batches of several statements in `Runners`, once a backend promises what their
  results have in common.
