---------------------------- MODULE FileBackends ----------------------------
(***************************************************************************)
(* How SQLite and DuckDB are introspected (sqlite.rs, duckdb.rs).  SQLite  *)
(* has no schemas and answers pragmas; DuckDB has an information schema    *)
(* and a list of constraints.  Neither counts rows or reads comments.      *)
(* failing is the set of queries that fail.                                *)
(***************************************************************************)
EXTENDS Declared

(***************************************************************************)
(* SQLite.                                                                 *)
(***************************************************************************)

\* Its own tables have names of their own.
SqliteTables(db) ==
  LET base == Picked(db, {i \in DOMAIN db : ~db[i].view /\ ~db[i].system})
  IN [i \in DOMAIN base |-> <<None, base[i].name>>]

\* A key of one integer is the number of the row and has no index.
IsRowNumber(t, k) ==
  /\ k.kind = "primary" /\ Len(k.members) = 1
  /\ \E i \in DOMAIN t.columns : t.columns[i].name = k.members[1] /\ t.columns[i].type = <<"int", "eger">>

\* Unique indexes of one column, and the primary key when it is one column.
\* A query that fails finds nothing.
SqliteUnique(t, failing) ==
  LET indexed == {k \in Keys(t, {"primary", "unique", "index"}) : ~IsRowNumber(t, k)}
  IN (IF "indexes" \in failing THEN {} ELSE OneMember(indexed))
       \cup (IF "table info" \in failing THEN {} ELSE OneMember(Keys(t, {"primary"})))

\* The default and the generation expression.  table_xinfo has no default for
\* a generated column.
SqliteDefault(c) ==
  LET reported == IF c.generated # None THEN None ELSE c.default
  IN IF c.generated # None /\ reported # None THEN <<None, reported>> ELSE <<reported, None>>

SqliteColumns(t, policy, failing) ==
  [i \in DOMAIN t.columns |->
     LET c == t.columns[i]
         class == SqliteClass(c.type)
     IN [Column(c, class, None, i - 1) EXCEPT
           !.default = SqliteDefault(c)[1], !.generated = SqliteDefault(c)[2],
           !.unique = c.name \in SqliteUnique(t, failing),
           !.sample = IF policy = None THEN None
                      ELSE SqliteSample(ToSample(c, class), policy, failing)]]

\* Mutant: in the order of the columns.
InTableOrder(rows) == [i \in DOMAIN rows |-> rows[i].column]

InKeyOrder(rows) ==
  LET sorted == SortedBy(rows, [i \in DOMAIN rows |-> rows[i].place])
  IN [i \in DOMAIN sorted |-> sorted[i].column]

\* A column has its place in the primary key, or 0.
SqlitePrimaryKey(t) ==
  LET place(c) == IF Keys(t, {"primary"}) = {} THEN 0
                  ELSE SelectInSeq(PrimaryOf(t).members, LAMBDA m : m = c.name)
      columns == [i \in DOMAIN t.columns |->
                    [column |-> t.columns[i].name, place |-> place(t.columns[i])]]
      rows == Picked(columns, {i \in DOMAIN columns : columns[i].place > 0})
  IN IF rows = <<>> THEN None ELSE InKeyOrder(rows)

\* A reference to a primary key that is not spelled out has no column to refer
\* to, which is read as an empty name.
SqliteForeignKeys(t) ==
  LET rows(r) == [i \in DOMAIN r.members |->
                    [constraint |-> r.name, column |-> r.members[i], table |-> r.table,
                     to |-> IF r.spelled THEN r.to[i] ELSE ""]]
      refs == SetToSeq(t.refs)
      listed == SortedBy(refs, [i \in DOMAIN refs |-> refs[i].name])
      fks == Gathered(FlattenSeq([i \in DOMAIN listed |-> rows(listed[i])]))
  IN [i \in DOMAIN fks |-> [fks[i] EXCEPT !.name = None]]

SqliteTable(db, name, policy, failing) ==
  LET t == db[SelectInSeq(db, LAMBDA u : u.name = name)]
  IN IntrospectTable(None, name, SqliteColumns(t, policy, failing), SqlitePrimaryKey(t),
                     SqliteForeignKeys(t), None, None, failing)

(***************************************************************************)
(* DuckDB.  Constraints of columns are not looked for.                     *)
(***************************************************************************)

DuckdbTables(db) ==
  LET base == Picked(db, {i \in DOMAIN db : ~db[i].view /\ ~db[i].system})
  IN [i \in DOMAIN base |-> <<base[i].schema, base[i].name>>]

DuckdbColumns(t, policy, failing) ==
  [i \in DOMAIN t.columns |->
     LET c == t.columns[i]
         class == DuckdbClass(c.type)
     IN [Column(c, class, None, i) EXCEPT
           !.sample = IF policy = None THEN None
                      ELSE DuckdbSample(ToSample(c, class), policy, failing)]]

DuckdbPrimaryKey(t) == IF Keys(t, {"primary"}) = {} THEN None ELSE PrimaryOf(t).members

\* One row a constraint, in any order, with its lists of columns.
DuckdbForeignKeys(t) ==
  LET listed == SetToSeq(t.refs)
  IN [i \in DOMAIN listed |->
        ForeignKey(listed[i].name, listed[i].members, listed[i].table, listed[i].to)]

DuckdbTable(db, schema, name, policy, failing) ==
  LET t == db[TableIn(db, IF schema = None THEN "main" ELSE schema, name)]
  IN IntrospectTable(schema, name, DuckdbColumns(t, policy, failing), DuckdbPrimaryKey(t),
                     DuckdbForeignKeys(t), None, None, failing)
=============================================================================
