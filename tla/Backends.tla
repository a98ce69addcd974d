------------------------------ MODULE Backends ------------------------------
(***************************************************************************)
(* The backends behind one interface (backends/mod.rs, introspector.rs):   *)
(* which one a URL means, whether it samples, and a table read through it. *)
(***************************************************************************)
EXTENDS ServerBackends, FileBackends, CloudBackends

\* The backend of the scheme of a URL, or None: UnsupportedScheme.
BackendOf(scheme) ==
  CASE scheme \in {"postgres", "postgresql"} -> "postgres"
    [] scheme \in {"sqlite", "file"} -> "sqlite"
    [] scheme \in {"mysql", "mariadb"} -> "mysql"
    [] scheme \in {"mssql", "sqlserver"} -> "mssql"
    [] scheme \in {"duckdb", "bigquery", "snowflake"} -> scheme
    [] OTHER -> None

\* The backend and the policy it keeps.
ConnectWithSampling(scheme, policy) ==
  LET b == BackendOf(scheme)
  IN [backend |-> b, policy |-> IF b \in {"bigquery", "snowflake", "mssql"} THEN None ELSE policy]

\* The runner of the backend; there is none for DuckDB.
ConnectRunner(scheme) == IF BackendOf(scheme) = "duckdb" THEN None ELSE BackendOf(scheme)

\* The schema a URL names: a database of MySQL, a schema or dataset elsewhere.
TablesOf(backend, db, current) ==
  CASE backend = "postgres" -> PostgresTables(db)
    [] backend = "mysql" -> MysqlTables(db, current)
    [] backend = "mssql" -> MssqlTables(db)
    [] backend = "sqlite" -> SqliteTables(db)
    [] backend = "duckdb" -> DuckdbTables(db)
    [] backend = "snowflake" -> SnowflakeTables(db, current)
    [] backend = "bigquery" -> BigqueryTables(db, current, SetToSeq({t.schema : t \in ToSet(db)}), 1)

\* A table through the interface a URL opens, schema as tables() names it.
ReadTable(scheme, db, current, schema, name, sampling, failing) ==
  LET c == ConnectWithSampling(scheme, sampling)
  IN CASE c.backend = "postgres" -> PostgresTable(db, schema, name, c.policy, failing)
       [] c.backend = "mysql" -> MysqlTable(db, schema, current, name, c.policy, failing)
       [] c.backend = "mssql" -> MssqlTable(db, schema, name, failing)
       [] c.backend = "sqlite" -> SqliteTable(db, name, c.policy, failing)
       [] c.backend = "duckdb" -> DuckdbTable(db, schema, name, c.policy, failing)
       [] c.backend = "snowflake" -> SnowflakeTable(db, schema, current, name, failing)
       [] c.backend = "bigquery" -> BigqueryTable(db, schema, current, name, failing)

(***************************************************************************)
(* What is expected, and of which tables each backend tells it.            *)
(***************************************************************************)

AllBackends == {"postgres", "mysql", "mssql", "sqlite", "duckdb", "snowflake", "bigquery"}
BestEffort == {"unique constraints", "unique indexes", "checks", "generated", "statistics", "indexes",
               "table info", "values", "nulls", "distinct"}

\* No two constraints of the schema have one name.
NamedApart(db, schema) ==
  LET all == UNION {{<<t.name, c>> : c \in Constraints(t)} : t \in {t \in ToSet(db) : t.schema = schema}}
  IN Cardinality(all) = Cardinality({c[2].name : c \in all})

TellsKeys(b, db, t) ==
  CASE b = "bigquery" -> FALSE
    [] b = "postgres" -> NamedApart(db, t.schema)
    [] OTHER -> TRUE

\* The columns it refers to are those of a key constraint, in order.
MeetsItsKey(db, r) ==
  \E u \in ToSet(db) : /\ u.schema = r.schema /\ u.name = r.table
                        /\ \E k \in Keys(u, {"primary", "unique"}) : k.name = r.key /\ k.members = r.to

\* A table of another schema has a reference of that name to this one.
NamedAbroad(db, r) ==
  \E u \in ToSet(db) : u.schema # r.schema /\ \E s \in u.refs : s.schema = r.schema /\ s.name = r.name

\* PostgreSQL joins columns each with each, by names, with all that is referred
\* to in one schema, SQL Server pairs them by the order of a key, SQLite leaves
\* an unspelled key empty and Snowflake splits a reference without a name.
TellsReferences(b, db, t) ==
  CASE b = "bigquery" -> FALSE
    [] b = "postgres" -> NamedApart(db, t.schema)
                           /\ \A r \in t.refs : /\ Len(r.members) = 1 /\ r.schema = t.schema
                                                /\ ~NamedAbroad(db, r)
    [] b = "mssql" -> \A r \in t.refs : NamedApart(db, r.schema) /\ MeetsItsKey(db, r)
    [] b = "sqlite" -> \A r \in t.refs : r.spelled
    [] b = "snowflake" -> \A r \in t.refs : r.name # Nameless
    [] OTHER -> TRUE

\* Partial indexes count as whole, and MySQL drops expressions from an index.
TellsUnique(b, t) ==
  \A k \in t.keys :
    /\ b \in {"postgres", "sqlite"} => ~k.partial
    /\ b = "mysql" => ~k.partial /\ (Contains(k.members, Expression) => Len(k.members) = 1)

\* A table is read as it was declared, whatever query that is not needed
\* fails; one that fails costs no more than what it asks for; and no sample is
\* kept of a column whose name is not to be shown.
IsReadAsDeclared(b, db, current, t, sampling, failing) ==
  LET schema == IF b = "sqlite" THEN None ELSE t.schema
      read == ReadTable(b, db, current, schema, t.name, sampling, failing)
      whole == ReadTable(b, db, current, schema, t.name, sampling, failing \ BestEffort)
      bare(r) == [r EXCEPT !.columns = [i \in DOMAIN r.columns |->
                    [r.columns[i] EXCEPT !.unique = FALSE, !.check = None, !.generated = None, !.sample = None]]]
  IN IF failing \subseteq BestEffort
       THEN /\ HasItsColumns(read, t)
            /\ TellsKeys(b, db, t) => HasItsKey(read, t)
            /\ TellsReferences(b, db, t) => HasItsReferences(read, t)
            /\ TellsUnique(b, t) => HasNoFalseKeys(read, t)
            /\ TellsUnique(b, t) /\ failing = {} /\ b \in {"postgres", "mysql", "sqlite"} =>
                 \A c \in ToSet(read.columns) : c.name \in UniqueAlone(t) => c.unique
            /\ bare(read) = bare(whole)
            /\ sampling # None /\ sampling.redaction # None =>
                 \A i \in DOMAIN t.columns : t.columns[i].named => read.columns[i].sample = None
       ELSE read = None

\* tables() names every table there is to read once, and each of them can be
\* read by that name.
ListsItsTables(b, db, current) ==
  LET names == TablesOf(b, db, current)
      there == {t \in ToSet(db) : (b = "bigquery" \/ ~t.view)
                                    /\ (b \in {"mysql", "snowflake", "bigquery"} /\ current # None
                                          => t.schema = current)
                                    /\ (b \in {"postgres", "sqlite", "duckdb"} => ~t.system)}
  IN /\ IsInjective(names)
     /\ ToSet(names) = {<<IF b = "sqlite" THEN None ELSE t.schema, t.name>> : t \in there}
     /\ \A i \in DOMAIN names :
          LET read == ReadTable(b, db, current, names[i][1], names[i][2], None, {})
          IN \E t \in there : t.name = names[i][2] /\ names[i][1] \in {None, t.schema} /\ HasItsColumns(read, t)

\* A type is taken for what it is.
TypesAreMeant == \A b \in AllBackends : \A type \in Meant[b] : ClassOf(b, type[1]) = type[2]
=============================================================================
