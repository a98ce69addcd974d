--------------------------- MODULE CloudBackends ---------------------------
(***************************************************************************)
(* How Snowflake and BigQuery are introspected over HTTP (snowflake.rs,    *)
(* bigquery.rs).  A URL may name a schema (a dataset), current, that calls *)
(* without one mean; nothing is sampled.  failing is the set of requests   *)
(* that fail.                                                              *)
(***************************************************************************)
EXTENDS Declared

SchemaOr(schema, current) == IF schema = None THEN current ELSE schema

(***************************************************************************)
(* Snowflake.                                                              *)
(***************************************************************************)

SnowflakeTables(db, current) ==
  LET base == Picked(db, {i \in DOMAIN db : ~db[i].view /\ current \in {None, db[i].schema}})
  IN [i \in DOMAIN base |-> <<base[i].schema, base[i].name>>]

SnowflakeColumns(t) ==
  [i \in DOMAIN t.columns |->
     Column(t.columns[i], SnowflakeClass(t.columns[i].type),
            IF t.columns[i].comment = "" THEN None ELSE t.columns[i].comment, i)]

\* SHOW PRIMARY KEYS has the columns in any order, each with its place.
SnowflakePrimaryKey(t) ==
  IF Keys(t, {"primary"}) = {} THEN None
  ELSE LET m == PrimaryOf(t).members
           sorted == ByPosition(SetToSeq({[column |-> m[i], position |-> i] : i \in DOMAIN m}))
       IN [i \in DOMAIN sorted |-> sorted[i].column]

Nameless == 0  \* a constraint without a name

\* SHOW IMPORTED KEYS has a row for each column of a reference; those of two
\* references may be mixed.  The columns of one without a name are named, and
\* kept, apart.
SnowflakeForeignKeys(t) ==
  LET name(r, i) == IF r.name = Nameless THEN 100 + i ELSE r.name
      rows == UNION {{[constraint |-> name(r, i), position |-> i, column |-> r.members[i],
                       table |-> r.table, to |-> r.to[i]] : i \in DOMAIN r.members} : r \in t.refs}
  IN Gathered(ByPosition(Ordered(rows)))

\* Without a schema there are no columns to be had, and no keys are asked for.
SnowflakeTable(db, schema, current, name, failing) ==
  LET at == SchemaOr(schema, current)
      t == db[TableIn(db, at, name)]
  IN IF at = None THEN None
     ELSE IntrospectTable(schema, name, SnowflakeColumns(t), SnowflakePrimaryKey(t),
                          SnowflakeForeignKeys(t), None, None, failing)

(***************************************************************************)
(* BigQuery.  Its list of tables has views in it, and comes in pages.      *)
(***************************************************************************)

\* Mutant: the first page alone.
FirstPage(pages) == IF pages = <<>> THEN <<>> ELSE pages[1]

AllPages(pages) == FlattenSeq(pages)

\* The tables of the dataset, or of each dataset that was listed, pageSize at
\* a time.
BigqueryTables(db, current, listed, pageSize) ==
  LET datasets == IF current # None THEN <<current>> ELSE listed
      in(d) == Picked(db, {i \in DOMAIN db : db[i].schema = d})
      pages(d) == [p \in 1 .. (Len(in(d)) + pageSize - 1) \div pageSize |->
                     SubSeq(in(d), (p - 1) * pageSize + 1, Min({p * pageSize, Len(in(d))}))]
      names(d) == LET ts == AllPages(pages(d)) IN [i \in DOMAIN ts |-> <<d, ts[i].name>>]
  IN FlattenSeq([i \in DOMAIN datasets |-> names(datasets[i])])

\* No default is read, and what is not said to be required is nullable.
BigqueryColumns(t) ==
  [i \in DOMAIN t.columns |->
     [Column(t.columns[i], BigqueryClass(t.columns[i].type), t.columns[i].comment, i)
        EXCEPT !.default = None]]

BigqueryTable(db, schema, current, name, failing) ==
  LET at == SchemaOr(schema, current)
      t == db[TableIn(db, at, name)]
  IN IF at = None THEN None
     ELSE IntrospectTable(schema, name, BigqueryColumns(t), None, <<>>, None,
                          IF t.comment = "" THEN None ELSE t.comment, failing)
=============================================================================
