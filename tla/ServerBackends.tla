--------------------------- MODULE ServerBackends ---------------------------
(***************************************************************************)
(* How PostgreSQL, MySQL and SQL Server are introspected (postgres.rs,     *)
(* mysql.rs, mssql.rs): each call queries the information schema and       *)
(* assembles what comes back.  failing is the set of queries that fail.    *)
(***************************************************************************)
EXTENDS Declared

ColumnNames(rows) == [i \in DOMAIN rows |-> rows[i].column]

(***************************************************************************)
(* PostgreSQL.                                                             *)
(***************************************************************************)

SchemaOrDefault(schema) == IF schema = None THEN "public" ELSE schema

\* Base tables, of every schema but the system's.
PostgresTables(db) ==
  LET base == Picked(db, {i \in DOMAIN db : ~db[i].view /\ ~db[i].system})
  IN [i \in DOMAIN base |-> <<base[i].schema, base[i].name>>]

\* Mutant: the first member of any unique key is unique.
LeadersAreUnique(cols, t, failing) ==
  [i \in DOMAIN cols |->
     [cols[i] EXCEPT !.unique = \E k \in Keys(t, {"primary", "unique", "index"}) : k.members[1] = cols[i].name]]

\* Four queries, none of which may spoil the others: unique constraints and
\* unique indexes of one column, the last check on one column alone, and the
\* expressions of generated columns.
EnrichConstraints(cols, t, failing) ==
  LET unless(query, found) == IF query \in failing THEN {} ELSE found
      unique == unless("unique constraints", OneMember(Keys(t, {"unique"})))
                  \cup unless("unique indexes", OneMember(Keys(t, {"primary", "unique", "index"})))
      checks(c) == unless("checks", {x.expr : x \in {x \in t.checks : x.columns = {c.name}}})
      generated(i) == unless("generated", {t.columns[i].generated} \ {None})
      last(found) == IF found = {} THEN None ELSE CHOOSE x \in found : TRUE
  IN [i \in DOMAIN cols |->
        [cols[i] EXCEPT !.unique = cols[i].name \in unique, !.check = last(checks(cols[i])),
                        !.generated = last(generated(i))]]

PostgresColumns(t, policy, failing) ==
  LET class(c) == PostgresClass(c.type)
      cols == EnrichConstraints(
                [i \in DOMAIN t.columns |-> Column(t.columns[i], class(t.columns[i]), None, i)], t, failing)
  IN IF policy = None THEN cols
     ELSE [i \in DOMAIN cols |->
             [cols[i] EXCEPT !.sample =
                PostgresSample(ToSample(t.columns[i], cols[i].class), policy, failing)]]

\* The columns of every constraint of the schema that has the name of the key.
PostgresPrimaryKey(db, t) ==
  IF Keys(t, {"primary"}) = {} THEN None
  ELSE ColumnNames(Ordered({k \in KeyColumnUsage(db) :
                        k.constraint = PrimaryOf(t).name /\ k.schema = t.schema}))

\* Constraint names join the columns of a reference with those it depends on:
\* each with each.
PostgresForeignKeys(db, t) ==
  Gathered(Ordered(
    UNION {{[constraint |-> k.constraint, position |-> k.position, column |-> k.column,
             table |-> u.table, to |-> u.column, from |-> k] :
              u \in {u \in ConstraintColumnUsage(db) : u.constraint = k.constraint /\ u.schema = t.schema}} :
           k \in {k \in KeyColumnUsage(db) :
                    k.schema = t.schema /\ k.constraint \in {c.name : c \in t.refs}}}))

\* A table that was never analysed is said to have -1 rows.
PostgresRowCount(t) == Max({t.rows, 0})

PostgresTable(db, schema, name, policy, failing) ==
  LET t == db[TableIn(db, SchemaOrDefault(schema), name)]
  IN IntrospectTable(schema, name, PostgresColumns(t, policy, failing), PostgresPrimaryKey(db, t),
                     PostgresForeignKeys(db, t), PostgresRowCount(t), t.comment, failing)

(***************************************************************************)
(* MySQL.  What is not there is an empty text.                             *)
(***************************************************************************)

NonEmpty(text) == IF text = "" THEN None ELSE text

MysqlTables(db, current) ==
  LET base == Picked(db, {i \in DOMAIN db : ~db[i].view /\ db[i].schema = current})
  IN [i \in DOMAIN base |-> <<base[i].schema, base[i].name>>]

\* The rows of an index are its columns; an expression has a row without one,
\* which is dropped before the members are counted.
MysqlUnique(t, failing) ==
  LET columns(k) == Picked(k.members, {i \in DOMAIN k.members : k.members[i] # Expression})
      unique == {k \in Keys(t, {"primary", "unique", "index"}) : Len(columns(k)) = 1}
  IN IF "statistics" \in failing THEN {} ELSE {columns(k)[1] : k \in unique}

MysqlColumns(t, policy, failing) ==
  [i \in DOMAIN t.columns |->
     LET c == t.columns[i]
         class == MysqlClass(c.type)
     IN [Column(c, class, NonEmpty(c.comment), i) EXCEPT
           !.unique = c.name \in MysqlUnique(t, failing), !.generated = NonEmpty(c.generated),
           !.sample = IF policy = None THEN None
                      ELSE MysqlSample(ToSample(c, class), policy, failing)]]

MysqlPrimaryKey(db, t) ==
  IF Keys(t, {"primary"}) = {} THEN None
  ELSE ColumnNames(Ordered({k \in KeyColumnUsage(db) :
                        k.constraint = PrimaryOf(t).name /\ k.schema = t.schema /\ k.table = t.name}))

\* A row of the usage of a reference has the column referred to beside it.
MysqlForeignKeys(db, t) ==
  Gathered(Ordered(
    {[constraint |-> k.constraint, position |-> k.position, column |-> k.column,
      table |-> k.of.table, to |-> k.of.to[k.position]] :
       k \in {k \in KeyColumnUsage(db) : k.schema = t.schema /\ k.table = t.name /\ k.of \in t.refs}}))

MysqlRowCount(t) == IF t.rows < 0 THEN None ELSE t.rows

MysqlComment(t) == NonEmpty(t.comment)

MysqlTable(db, schema, current, name, policy, failing) ==
  LET t == db[TableIn(db, IF schema = None THEN current ELSE schema, name)]
  IN IntrospectTable(schema, name, MysqlColumns(t, policy, failing), MysqlPrimaryKey(db, t),
                     MysqlForeignKeys(db, t), MysqlRowCount(t), MysqlComment(t), failing)

(***************************************************************************)
(* SQL Server.  Unique columns are not looked for.                         *)
(***************************************************************************)

MssqlTables(db) ==
  LET base == Picked(db, {i \in DOMAIN db : ~db[i].view})
  IN [i \in DOMAIN base |-> <<base[i].schema, base[i].name>>]

MssqlColumns(t) ==
  [i \in DOMAIN t.columns |-> Column(t.columns[i], MssqlClass(t.columns[i].type), None, i)]

MssqlPrimaryKey(db, t) ==
  IF Keys(t, {"primary"}) = {} THEN None
  ELSE ColumnNames(Ordered({k \in KeyColumnUsage(db) :
                        k.constraint = PrimaryOf(t).name /\ k.schema = t.schema /\ k.table = t.name}))

\* The columns of a reference meet those of the key it is to at the same
\* position, whatever the order the reference has them in.
MssqlForeignKeys(db, t) ==
  LET usage == KeyColumnUsage(db)
  IN Gathered(Ordered(
       UNION {{[constraint |-> k.constraint, position |-> k.position, column |-> k.column,
                table |-> r.table, to |-> r.column] :
                 r \in {r \in usage : /\ r.constraint = k.of.key /\ r.schema = k.of.schema
                                      /\ r.position = k.position}} :
              k \in {k \in usage : k.schema = t.schema /\ k.table = t.name /\ k.of \in t.refs}}))

MssqlTable(db, schema, name, failing) ==
  LET t == db[TableIn(db, IF schema = None THEN "dbo" ELSE schema, name)]
  IN IntrospectTable(schema, name, MssqlColumns(t), MssqlPrimaryKey(db, t),
                     MssqlForeignKeys(db, t), None, None, failing)
=============================================================================
