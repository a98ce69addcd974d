---------------------------- MODULE SourceProofs ----------------------------
(***************************************************************************)
(* A table is read from each backend as it is declared, as far as the      *)
(* backend tells, for every database: what its catalog is, what the        *)
(* queries answer, and how their rows are put together, a section each.    *)
(***************************************************************************)
EXTENDS Backends, Suggest, FunctionProofs

(***************************************************************************)
(* A database as it may be declared.                                       *)
(***************************************************************************)

ColumnNamesOf(t) == {t.columns[i].name : i \in DOMAIN t.columns}

\* A column says what it is and what is in it.
ColumnFields ==
  {"name", "type", "required", "default", "generated", "comment", "named", "marked", "stored", "cells"}

HasColumns(t) ==
  /\ t.columns \in Seq(ToSet(t.columns))
  /\ \A i \in DOMAIN t.columns : DOMAIN t.columns[i] = ColumnFields
  /\ \A i, j \in DOMAIN t.columns : t.columns[i].name = t.columns[j].name => i = j

IsOver(c) == c.name \in Int /\ c.members \in Seq(ToSet(c.members)) /\ c.members # <<>>

IsKeyOf(k, t) ==
  /\ k.kind \in {"primary", "unique", "index", "plain"}
  /\ k.kind = "primary" =>
       /\ \A i, j \in DOMAIN k.members : k.members[i] = k.members[j] => i = j
       /\ ToSet(k.members) \subseteq ColumnNamesOf(t)

IsReferenceOf(r, t) ==
  /\ r.to \in Seq(ToSet(r.to)) /\ Len(r.to) = Len(r.members)
  /\ ToSet(r.members) \subseteq ColumnNamesOf(t)

\* Constraints of a table have names of their own, and one is its primary key.
HasConstraints(t) ==
  /\ IsFiniteSet(t.keys) /\ IsFiniteSet(t.refs) /\ t.keys \cap t.refs = {}
  /\ \A c \in t.keys \cup t.refs : IsOver(c)
  /\ \A k \in t.keys : IsKeyOf(k, t)
  /\ \A r \in t.refs : IsReferenceOf(r, t)
  /\ \A c, d \in Constraints(t) : c.name = d.name => c = d
  /\ \A k, l \in Keys(t, {"primary"}) : k = l

IsDeclaredTable(t) == t.schema # None /\ HasColumns(t) /\ HasConstraints(t)

\* No two tables of a schema have one name.
IsDeclared(db) ==
  /\ db \in Seq(ToSet(db))
  /\ \A i, j \in DOMAIN db : db[i].schema = db[j].schema /\ db[i].name = db[j].name => i = j
  /\ \A i \in DOMAIN db : IsDeclaredTable(db[i])

\* A database without schemas.
NamesAreApart(db) == \A i, j \in DOMAIN db : db[i].name = db[j].name => i = j

(***************************************************************************)
(* What a backend makes of a table, by its parts.                          *)
(***************************************************************************)

LEMMA FoundAt ==
  ASSUME NEW X, NEW db \in Seq(X), NEW found, NEW k \in DOMAIN db,
         found = {i \in 1 .. Len(db) : i = k}
  PROVE  (IF found # {} THEN Min(found) ELSE 0) = k
<1>1. k \in found /\ found \in SUBSET Nat /\ found # {}
  OBVIOUS
<1>2. Min(found) \in found
  <2>1. \A T \in SUBSET Nat : T # {} => Min(T) \in T
    BY MinIs
  <2>2. QED
    BY <1>1, <2>1
<1>3. Min(found) = k
  BY <1>2
<1>4. QED
  BY <1>1, <1>3

LEMMA DeclaredIsFound ==
  ASSUME NEW db, IsDeclared(db), NEW t \in ToSet(db)
  PROVE  /\ db[TableIn(db, t.schema, t.name)] = t
         /\ NamesAreApart(db) => db[SelectInSeq(db, LAMBDA u : u.name = t.name)] = t
<1>1. PICK k \in DOMAIN db : db[k] = t
  BY DEF ToSet
<1>2. db \in Seq(ToSet(db)) /\ DOMAIN db = 1 .. Len(db)
  BY DEF IsDeclared
<1>3. {i \in 1 .. Len(db) : db[i].schema = t.schema /\ db[i].name = t.name} = {i \in 1 .. Len(db) : i = k}
  <2>1. \A i \in 1 .. Len(db) : db[i].schema = t.schema /\ db[i].name = t.name => i = k
    BY <1>1, <1>2 DEF IsDeclared
  <2>2. QED
    BY <1>1, <2>1
<1>3a. \A found : found = {i \in 1 .. Len(db) : i = k} => (IF found # {} THEN Min(found) ELSE 0) = k
  BY <1>2, FoundAt
<1>4. TableIn(db, t.schema, t.name) = k
  <2> DEFINE I == {i \in 1 .. Len(db) : db[i].schema = t.schema /\ db[i].name = t.name}
  <2>1. TableIn(db, t.schema, t.name) = IF I # {} THEN Min(I) ELSE 0
    BY DEF TableIn, SelectInSeq
  <2>2. I = {i \in 1 .. Len(db) : i = k}
    BY <1>3
  <2> HIDE DEF I
  <2>3. QED
    BY <1>3a, <2>1, <2>2
<1>5. ASSUME NamesAreApart(db)
      PROVE  SelectInSeq(db, LAMBDA u : u.name = t.name) = k
  <2> DEFINE I == {i \in 1 .. Len(db) : db[i].name = t.name}
  <2>1. SelectInSeq(db, LAMBDA u : u.name = t.name) = IF I # {} THEN Min(I) ELSE 0
    BY DEF SelectInSeq
  <2>2. I = {i \in 1 .. Len(db) : i = k}
    <3>1. \A i \in 1 .. Len(db) : db[i].name = t.name => i = k
      BY <1>1, <1>2, <1>5 DEF NamesAreApart
    <3>2. QED
      BY <1>1, <3>1
  <2> HIDE DEF I
  <2>3. QED
    BY <1>3a, <2>1, <2>2
<1>6. QED
  BY <1>1, <1>4, <1>5

SchemaTold(b, t) == IF b = "sqlite" THEN None ELSE t.schema

ColumnsOf(b, t, policy, failing) ==
  CASE b = "postgres" -> PostgresColumns(t, policy, failing)
    [] b = "mysql" -> MysqlColumns(t, policy, failing)
    [] b = "mssql" -> MssqlColumns(t)
    [] b = "sqlite" -> SqliteColumns(t, policy, failing)
    [] b = "duckdb" -> DuckdbColumns(t, policy, failing)
    [] b = "snowflake" -> SnowflakeColumns(t)
    [] b = "bigquery" -> BigqueryColumns(t)

PrimaryKeyOf(b, db, t) ==
  CASE b = "postgres" -> PostgresPrimaryKey(db, t)
    [] b = "mysql" -> MysqlPrimaryKey(db, t)
    [] b = "mssql" -> MssqlPrimaryKey(db, t)
    [] b = "sqlite" -> SqlitePrimaryKey(t)
    [] b = "duckdb" -> DuckdbPrimaryKey(t)
    [] b = "snowflake" -> SnowflakePrimaryKey(t)
    [] b = "bigquery" -> None

ForeignKeysOf(b, db, t) ==
  CASE b = "postgres" -> PostgresForeignKeys(db, t)
    [] b = "mysql" -> MysqlForeignKeys(db, t)
    [] b = "mssql" -> MssqlForeignKeys(db, t)
    [] b = "sqlite" -> SqliteForeignKeys(t)
    [] b = "duckdb" -> DuckdbForeignKeys(t)
    [] b = "snowflake" -> SnowflakeForeignKeys(t)
    [] b = "bigquery" -> <<>>

RowCountOf(b, t) ==
  CASE b = "postgres" -> PostgresRowCount(t) [] b = "mysql" -> MysqlRowCount(t) [] OTHER -> None

CommentOf(b, t) ==
  CASE b = "postgres" -> t.comment
    [] b = "mysql" -> MysqlComment(t)
    [] b = "bigquery" -> IF t.comment = "" THEN None ELSE t.comment
    [] OTHER -> None

\* What is read of a table that none of the queries it needs fails for.
Whole(b, db, t, policy, failing) ==
  [schema |-> SchemaTold(b, t), name |-> t.name, columns |-> ColumnsOf(b, t, policy, failing),
   primaryKey |-> PrimaryKeyOf(b, db, t), foreignKeys |-> ForeignKeysOf(b, db, t),
   rowCount |-> RowCountOf(b, t), comment |-> CommentOf(b, t)]

Needed == {"columns", "primary key", "foreign keys", "row count", "comment"}

PolicyOf(b, sampling) == IF b \in {"bigquery", "snowflake", "mssql"} THEN None ELSE sampling

LEMMA TableIsRead ==
  ASSUME NEW b \in AllBackends, NEW db, IsDeclared(db), b = "sqlite" => NamesAreApart(db),
         NEW current, NEW t \in ToSet(db), NEW sampling, NEW failing
  PROVE  ReadTable(b, db, current, SchemaTold(b, t), t.name, sampling, failing) =
           IF failing \cap Needed # {} THEN None ELSE Whole(b, db, t, PolicyOf(b, sampling), failing)
<1>1. t.schema # None /\ db[TableIn(db, t.schema, t.name)] = t
  <2>1. t.schema # None
    BY DEF IsDeclared, IsDeclaredTable, ToSet
  <2>2. QED
    BY <2>1, DeclaredIsFound
<1>2. b = "sqlite" => db[SelectInSeq(db, LAMBDA u : u.name = t.name)] = t
  BY DeclaredIsFound
<1>3. /\ "postgres" \in {"postgres", "postgresql"} /\ "sqlite" \in {"sqlite", "file"}
      /\ "mysql" \in {"mysql", "mariadb"} /\ "mssql" \in {"mssql", "sqlserver"}
  OBVIOUS
<1>4. BackendOf(b) = b
  BY DEF BackendOf, AllBackends
<1> DEFINE policy == PolicyOf(b, sampling)
           read == ReadTable(b, db, current, SchemaTold(b, t), t.name, sampling, failing)
           connection == ConnectWithSampling(b, sampling)
<1>5. connection = [backend |-> b, policy |-> policy]
  BY <1>4 DEF ConnectWithSampling, PolicyOf
<1>6. read = CASE b = "postgres" -> PostgresTable(db, t.schema, t.name, policy, failing)
               [] b = "mysql" -> MysqlTable(db, t.schema, current, t.name, policy, failing)
               [] b = "mssql" -> MssqlTable(db, t.schema, t.name, failing)
               [] b = "sqlite" -> SqliteTable(db, t.name, policy, failing)
               [] b = "duckdb" -> DuckdbTable(db, t.schema, t.name, policy, failing)
               [] b = "snowflake" -> SnowflakeTable(db, t.schema, current, t.name, failing)
               [] b = "bigquery" -> BigqueryTable(db, t.schema, current, t.name, failing)
  <2>1. connection.backend = b /\ connection.policy = policy
    BY <1>5
  <2> HIDE DEF connection, policy
  <2>2. b # "sqlite" => SchemaTold(b, t) = t.schema
    BY DEF SchemaTold
  <2>3. QED
    BY <2>1, <2>2 DEF ReadTable, connection, AllBackends
<1> HIDE DEF read
<1>7. read = IF failing \cap Needed # {} THEN None ELSE Whole(b, db, t, policy, failing)
  <2> HIDE DEF policy
  <2>1. CASE b = "postgres"
    BY <1>1, <1>6, <2>1 DEF PostgresTable, SchemaOrDefault, IntrospectTable, Whole, Needed, SchemaTold, ColumnsOf,
         PrimaryKeyOf, ForeignKeysOf, RowCountOf, CommentOf
  <2>2. CASE b = "mysql"
    BY <1>1, <1>6, <2>2 DEF MysqlTable, IntrospectTable, Whole, Needed, SchemaTold, ColumnsOf,
         PrimaryKeyOf, ForeignKeysOf, RowCountOf, CommentOf
  <2>3. CASE b = "mssql"
    BY <1>1, <1>6, <2>3 DEF MssqlTable, IntrospectTable, Whole, Needed, SchemaTold, ColumnsOf,
         PrimaryKeyOf, ForeignKeysOf, RowCountOf, CommentOf
  <2>4. CASE b = "sqlite"
    BY <1>2, <1>6, <2>4 DEF SqliteTable, IntrospectTable, Whole, Needed, SchemaTold, ColumnsOf,
         PrimaryKeyOf, ForeignKeysOf, RowCountOf, CommentOf
  <2>5. CASE b = "duckdb"
    BY <1>1, <1>6, <2>5 DEF DuckdbTable, IntrospectTable, Whole, Needed, SchemaTold, ColumnsOf,
         PrimaryKeyOf, ForeignKeysOf, RowCountOf, CommentOf
  <2>6. CASE b = "snowflake"
    BY <1>1, <1>6, <2>6 DEF SnowflakeTable, SchemaOr, IntrospectTable, Whole, Needed, SchemaTold, ColumnsOf,
         PrimaryKeyOf, ForeignKeysOf, RowCountOf, CommentOf
  <2>7. CASE b = "bigquery"
    BY <1>1, <1>6, <2>7 DEF BigqueryTable, SchemaOr, IntrospectTable, Whole, Needed, SchemaTold, ColumnsOf,
         PrimaryKeyOf, ForeignKeysOf, RowCountOf, CommentOf
  <2>8. QED
    BY <2>1, <2>2, <2>3, <2>4, <2>5, <2>6, <2>7 DEF AllBackends
<1>8. QED
  BY <1>7 DEF read

(***************************************************************************)
(* Columns.                                                                *)
(***************************************************************************)

\* A record of some fields.
IsRecord(r, F) == DOMAIN r = F /\ r = [f \in F |-> r[f]]

\* Some fields have other values, the rest the ones they had.
Changed(q, r, F, V) ==
  /\ IsRecord(q, F)
  /\ \A f \in F : (\A v : <<f, v>> \notin V) => q[f] = r[f]
  /\ \A f, v : <<f, v>> \in V => q[f] = v

LEMMA OneChanged ==
  ASSUME NEW F, NEW r, IsRecord(r, F), NEW a \in F, NEW v, NEW q, q = [r EXCEPT ![a] = v]
  PROVE  Changed(q, r, F, {<<a, v>>})
BY DEF IsRecord, Changed

LEMMA ThreeChanged ==
  ASSUME NEW F, NEW r, IsRecord(r, F),
         NEW a \in F, NEW b \in F, NEW c \in F, a # b, a # c, b # c, NEW v, NEW w, NEW x,
         NEW q, q = [[[r EXCEPT ![a] = v] EXCEPT ![b] = w] EXCEPT ![c] = x]
  PROVE  Changed(q, r, F, {<<a, v>>, <<b, w>>, <<c, x>>})
BY DEF IsRecord, Changed

LEMMA FourChanged ==
  ASSUME NEW F, NEW r, IsRecord(r, F),
         NEW a \in F, NEW b \in F, NEW c \in F, NEW d \in F,
         a # b, a # c, b # c, a # d, b # d, c # d, NEW v, NEW w, NEW x, NEW y,
         NEW q, q = [[[[r EXCEPT ![a] = v] EXCEPT ![b] = w] EXCEPT ![c] = x] EXCEPT ![d] = y]
  PROVE  Changed(q, r, F, {<<a, v>>, <<b, w>>, <<c, x>>, <<d, y>>})
BY DEF IsRecord, Changed

LEMMA SameRecords ==
  ASSUME NEW F, NEW r, NEW q, IsRecord(r, F), IsRecord(q, F), \A f \in F : r[f] = q[f]
  PROVE  r = q
BY DEF IsRecord

ToldFields ==
  {"name", "class", "nullable", "default", "comment", "ordinal", "check", "unique", "generated", "sample"}

\* What the first query leaves of a column.
Asked1(told, c, class, comment, i) ==
  /\ IsRecord(told, ToldFields)
  /\ told.name = c.name /\ told.class = class /\ told.nullable = ~c.required
  /\ told.default = c.default /\ told.comment = comment /\ told.ordinal = i
  /\ told.unique = FALSE /\ told.sample = None

LEMMA ColumnIs ==
  ASSUME NEW c, NEW class, NEW comment, NEW i
  PROVE  Asked1(Column(c, class, comment, i), c, class, comment, i)
<1> DEFINE told == Column(c, class, comment, i)
<1>1. IsRecord(told, ToldFields)
  BY DEF Column, IsRecord, ToldFields
<1>2. QED
  BY <1>1 DEF Column, Asked1

UniqueTold(b, t, failing) ==
  CASE b = "postgres" -> (IF "unique constraints" \in failing THEN {} ELSE OneMember(Keys(t, {"unique"})))
                           \cup (IF "unique indexes" \in failing THEN {}
                                 ELSE OneMember(Keys(t, {"primary", "unique", "index"})))
    [] b = "mysql" -> MysqlUnique(t, failing)
    [] b = "sqlite" -> SqliteUnique(t, failing)
    [] OTHER -> {}

SampleTold(b, c, policy, failing) ==
  CASE policy = None -> None
    [] policy # None /\ b = "postgres" -> PostgresSample(ToSample(c, ClassOf(b, c.type)), policy, failing)
    [] policy # None /\ b = "mysql" -> MysqlSample(ToSample(c, ClassOf(b, c.type)), policy, failing)
    [] policy # None /\ b = "sqlite" -> SqliteSample(ToSample(c, ClassOf(b, c.type)), policy, failing)
    [] policy # None /\ b = "duckdb" -> DuckdbSample(ToSample(c, ClassOf(b, c.type)), policy, failing)
    [] OTHER -> None

DefaultTold(b, c) ==
  CASE b = "sqlite" -> SqliteDefault(c)[1] [] b = "bigquery" -> None [] OTHER -> c.default

CommentTold(b, c) ==
  CASE b = "mysql" -> NonEmpty(c.comment)
    [] b = "snowflake" -> IF c.comment = "" THEN None ELSE c.comment
    [] b = "bigquery" -> c.comment
    [] OTHER -> None

OrdinalTold(b, i) == IF b = "sqlite" THEN i - 1 ELSE i

\* A column as it is read, whatever its checks and its generation.
TellsColumn(told, b, t, i, policy, failing) ==
  LET c == t.columns[i]
  IN /\ IsRecord(told, ToldFields)
     /\ told.name = c.name /\ told.class = ClassOf(b, c.type) /\ told.nullable = ~c.required
     /\ told.default = DefaultTold(b, c) /\ told.comment = CommentTold(b, c) /\ told.ordinal = OrdinalTold(b, i)
     /\ told.unique = (c.name \in UniqueTold(b, t, failing))
     /\ told.sample = SampleTold(b, c, policy, failing)

LEMMA MysqlTells ==
  ASSUME NEW t, NEW policy, NEW failing, NEW i \in DOMAIN t.columns
  PROVE  TellsColumn(MysqlColumns(t, policy, failing)[i], "mysql", t, i, policy, failing)
<1> DEFINE c == t.columns[i]
           class == MysqlClass(c.type)
           told == MysqlColumns(t, policy, failing)[i]
<1>1. PICK u : u = (c.name \in MysqlUnique(t, failing))
  OBVIOUS
<1>2. PICK g : g = NonEmpty(c.generated)
  OBVIOUS
<1>3. PICK s : s = IF policy = None THEN None ELSE MysqlSample(ToSample(c, class), policy, failing)
  OBVIOUS
<1>4. PICK r : r = Column(c, class, NonEmpty(c.comment), i)
  OBVIOUS
<1>5. told = [r EXCEPT !.unique = u, !.generated = g, !.sample = s]
  BY <1>1, <1>2, <1>3, <1>4, Zenon DEF MysqlColumns
<1>6. told = [[[r EXCEPT !["unique"] = u] EXCEPT !["generated"] = g] EXCEPT !["sample"] = s]
  BY <1>5
<1> HIDE DEF c, class, told
<1>7. Asked1(r, c, class, NonEmpty(c.comment), i)
  BY <1>4, ColumnIs
<1>8. Changed(told, r, ToldFields, {<<"unique", u>>, <<"generated", g>>, <<"sample", s>>})
  <2>1. /\ "unique" \in ToldFields /\ "generated" \in ToldFields /\ "sample" \in ToldFields
        /\ IsRecord(r, ToldFields)
    BY <1>7 DEF ToldFields, Asked1
  <2>2. "unique" # "generated" /\ "unique" # "sample" /\ "generated" # "sample"
    OBVIOUS
  <2>3. QED
    BY <1>6, <2>1, <2>2, ThreeChanged
<1>9. /\ IsRecord(told, ToldFields) /\ told.unique = u /\ told.sample = s
      /\ told.name = r.name /\ told.class = r.class /\ told.nullable = r.nullable
      /\ told.default = r.default /\ told.comment = r.comment /\ told.ordinal = r.ordinal
  BY <1>8 DEF ToldFields, Changed
<1>10. /\ ClassOf("mysql", c.type) = class
       /\ DefaultTold("mysql", c) = c.default
       /\ CommentTold("mysql", c) = NonEmpty(c.comment)
       /\ OrdinalTold("mysql", i) = i
       /\ UniqueTold("mysql", t, failing) = MysqlUnique(t, failing)
  BY DEF ClassOf, DefaultTold, CommentTold, OrdinalTold, UniqueTold, class
<1>11. SampleTold("mysql", c, policy, failing) = s
  BY <1>3, <1>10 DEF SampleTold
<1>12. QED
  BY <1>1, <1>7, <1>9, <1>10, <1>11 DEF TellsColumn, Asked1, c, told

LEMMA SqliteTells ==
  ASSUME NEW t, NEW policy, NEW failing, NEW i \in DOMAIN t.columns
  PROVE  TellsColumn(SqliteColumns(t, policy, failing)[i], "sqlite", t, i, policy, failing)
<1> DEFINE c == t.columns[i]
           class == SqliteClass(c.type)
           told == SqliteColumns(t, policy, failing)[i]
<1>1. PICK u : u = (c.name \in SqliteUnique(t, failing))
  OBVIOUS
<1>2. PICK d, g : d = SqliteDefault(c)[1] /\ g = SqliteDefault(c)[2]
  OBVIOUS
<1>3. PICK s : s = IF policy = None THEN None ELSE SqliteSample(ToSample(c, class), policy, failing)
  OBVIOUS
<1>4. PICK r : r = Column(c, class, None, i - 1)
  OBVIOUS
<1>5. told = [r EXCEPT !.default = d, !.generated = g, !.unique = u, !.sample = s]
  BY <1>1, <1>2, <1>3, <1>4, Zenon DEF SqliteColumns
<1>6. told = [[[[r EXCEPT !["default"] = d] EXCEPT !["generated"] = g] EXCEPT !["unique"] = u] EXCEPT !["sample"] = s]
  BY <1>5
<1> HIDE DEF c, class, told
<1>7. Asked1(r, c, class, None, i - 1)
  BY <1>4, ColumnIs
<1>8. Changed(told, r, ToldFields, {<<"default", d>>, <<"generated", g>>, <<"unique", u>>, <<"sample", s>>})
  <2>1. /\ "default" \in ToldFields /\ "unique" \in ToldFields /\ "generated" \in ToldFields /\ "sample" \in ToldFields
        /\ IsRecord(r, ToldFields)
    BY <1>7 DEF ToldFields, Asked1
  <2>2. /\ "unique" # "generated" /\ "unique" # "sample" /\ "generated" # "sample"
        /\ "default" # "generated" /\ "default" # "unique" /\ "default" # "sample"
    OBVIOUS
  <2>3. QED
    BY <1>6, <2>1, <2>2, FourChanged
<1>9. /\ IsRecord(told, ToldFields) /\ told.unique = u /\ told.sample = s /\ told.default = d
      /\ told.name = r.name /\ told.class = r.class /\ told.nullable = r.nullable
      /\ told.comment = r.comment /\ told.ordinal = r.ordinal
  BY <1>8 DEF ToldFields, Changed
<1>10. /\ ClassOf("sqlite", c.type) = class
       /\ DefaultTold("sqlite", c) = d
       /\ CommentTold("sqlite", c) = None
       /\ OrdinalTold("sqlite", i) = i - 1
       /\ UniqueTold("sqlite", t, failing) = SqliteUnique(t, failing)
  BY <1>2 DEF ClassOf, DefaultTold, CommentTold, OrdinalTold, UniqueTold, class
<1>11. SampleTold("sqlite", c, policy, failing) = s
  BY <1>3, <1>10 DEF SampleTold
<1>12. QED
  BY <1>1, <1>7, <1>9, <1>10, <1>11 DEF TellsColumn, Asked1, c, told

LEMMA DuckdbTells ==
  ASSUME NEW t, NEW policy, NEW failing, NEW i \in DOMAIN t.columns
  PROVE  TellsColumn(DuckdbColumns(t, policy, failing)[i], "duckdb", t, i, policy, failing)
<1> DEFINE c == t.columns[i]
           class == DuckdbClass(c.type)
           told == DuckdbColumns(t, policy, failing)[i]
<1>1. PICK s : s = IF policy = None THEN None ELSE DuckdbSample(ToSample(c, class), policy, failing)
  OBVIOUS
<1>2. PICK r : r = Column(c, class, None, i)
  OBVIOUS
<1>3. told = [r EXCEPT !.sample = s]
  BY <1>1, <1>2, Zenon DEF DuckdbColumns
<1>4. told = [r EXCEPT !["sample"] = s]
  BY <1>3
<1> HIDE DEF c, class, told
<1>5. Asked1(r, c, class, None, i)
  BY <1>2, ColumnIs
<1>6. Changed(told, r, ToldFields, {<<"sample", s>>})
  <2>1. "sample" \in ToldFields /\ IsRecord(r, ToldFields)
    BY <1>5 DEF ToldFields, Asked1
  <2>2. QED
    BY <1>4, <2>1, OneChanged
<1>7. /\ IsRecord(told, ToldFields) /\ told.unique = r.unique /\ told.sample = s /\ told.default = r.default
      /\ told.name = r.name /\ told.class = r.class /\ told.nullable = r.nullable
      /\ told.comment = r.comment /\ told.ordinal = r.ordinal
  BY <1>6 DEF ToldFields, Changed
<1>8. /\ ClassOf("duckdb", c.type) = class
      /\ DefaultTold("duckdb", c) = c.default
      /\ CommentTold("duckdb", c) = None
      /\ OrdinalTold("duckdb", i) = i
      /\ (c.name \in UniqueTold("duckdb", t, failing)) = FALSE
  BY DEF ClassOf, DefaultTold, CommentTold, OrdinalTold, UniqueTold, class
<1>9. SampleTold("duckdb", c, policy, failing) = s
  BY <1>1, <1>8 DEF SampleTold
<1>10. QED
  BY <1>5, <1>7, <1>8, <1>9 DEF TellsColumn, Asked1, c, told

LEMMA MssqlTells ==
  ASSUME NEW t, NEW failing, NEW i \in DOMAIN t.columns
  PROVE  TellsColumn(MssqlColumns(t)[i], "mssql", t, i, None, failing)
<1> DEFINE c == t.columns[i]
           class == MssqlClass(c.type)
           told == MssqlColumns(t)[i]
<1>1. told = Column(c, class, None, i)
  BY Zenon DEF MssqlColumns
<1> HIDE DEF c, class, told
<1>2. Asked1(told, c, class, None, i)
  BY <1>1, ColumnIs
<1>3. /\ ClassOf("mssql", c.type) = class
      /\ DefaultTold("mssql", c) = c.default
      /\ CommentTold("mssql", c) = None
      /\ OrdinalTold("mssql", i) = i
      /\ (c.name \in UniqueTold("mssql", t, failing)) = FALSE
      /\ SampleTold("mssql", c, None, failing) = None
  BY DEF ClassOf, DefaultTold, CommentTold, OrdinalTold, UniqueTold, SampleTold, class
<1>4. QED
  BY <1>2, <1>3 DEF TellsColumn, Asked1, c, told

LEMMA SnowflakeTells ==
  ASSUME NEW t, NEW failing, NEW i \in DOMAIN t.columns
  PROVE  TellsColumn(SnowflakeColumns(t)[i], "snowflake", t, i, None, failing)
<1> DEFINE c == t.columns[i]
           class == SnowflakeClass(c.type)
           told == SnowflakeColumns(t)[i]
<1>1. PICK m : m = IF c.comment = "" THEN None ELSE c.comment
  OBVIOUS
<1>2. told = Column(c, class, m, i)
  BY <1>1, Zenon DEF SnowflakeColumns
<1> HIDE DEF c, class, told
<1>3. Asked1(told, c, class, m, i)
  BY <1>2, ColumnIs
<1>4. /\ ClassOf("snowflake", c.type) = class
      /\ DefaultTold("snowflake", c) = c.default
      /\ OrdinalTold("snowflake", i) = i
      /\ (c.name \in UniqueTold("snowflake", t, failing)) = FALSE
      /\ SampleTold("snowflake", c, None, failing) = None
  BY DEF ClassOf, DefaultTold, OrdinalTold, UniqueTold, SampleTold, class
<1>5. CommentTold("snowflake", c) = m
  BY <1>1 DEF CommentTold
<1>6. QED
  BY <1>3, <1>4, <1>5 DEF TellsColumn, Asked1, c, told

LEMMA BigqueryTells ==
  ASSUME NEW t, NEW failing, NEW i \in DOMAIN t.columns
  PROVE  TellsColumn(BigqueryColumns(t)[i], "bigquery", t, i, None, failing)
<1> DEFINE c == t.columns[i]
           class == BigqueryClass(c.type)
           told == BigqueryColumns(t)[i]
<1>1. PICK r : r = Column(c, class, c.comment, i)
  OBVIOUS
<1>2. told = [r EXCEPT !.default = None]
  BY <1>1, Zenon DEF BigqueryColumns
<1>3. told = [r EXCEPT !["default"] = None]
  BY <1>2
<1> HIDE DEF c, class, told
<1>4. Asked1(r, c, class, c.comment, i)
  BY <1>1, ColumnIs
<1>5. Changed(told, r, ToldFields, {<<"default", None>>})
  <2>1. "default" \in ToldFields /\ IsRecord(r, ToldFields)
    BY <1>4 DEF ToldFields, Asked1
  <2>2. QED
    BY <1>3, <2>1, OneChanged
<1>6. /\ IsRecord(told, ToldFields) /\ told.unique = r.unique /\ told.sample = r.sample /\ told.default = None
      /\ told.name = r.name /\ told.class = r.class /\ told.nullable = r.nullable
      /\ told.comment = r.comment /\ told.ordinal = r.ordinal
  BY <1>5 DEF ToldFields, Changed
<1>7. /\ ClassOf("bigquery", c.type) = class
      /\ DefaultTold("bigquery", c) = None
      /\ CommentTold("bigquery", c) = c.comment
      /\ OrdinalTold("bigquery", i) = i
      /\ (c.name \in UniqueTold("bigquery", t, failing)) = FALSE
      /\ SampleTold("bigquery", c, None, failing) = None
  BY DEF ClassOf, DefaultTold, CommentTold, OrdinalTold, UniqueTold, SampleTold, class
<1>8. QED
  BY <1>4, <1>6, <1>7 DEF TellsColumn, Asked1, c, told

\* The four queries change what they ask for.
LEMMA ConstraintsEnrich ==
  ASSUME NEW cols, NEW t, NEW failing, NEW i \in DOMAIN cols, IsRecord(cols[i], ToldFields)
  PROVE  LET told == EnrichConstraints(cols, t, failing)[i]
         IN /\ IsRecord(told, ToldFields)
            /\ told.unique = (cols[i].name \in UniqueTold("postgres", t, failing))
            /\ \A f \in ToldFields \ {"unique", "check", "generated"} : told[f] = cols[i][f]
<1> DEFINE unless(query, found) == IF query \in failing THEN {} ELSE found
           unique == unless("unique constraints", OneMember(Keys(t, {"unique"})))
                       \cup unless("unique indexes", OneMember(Keys(t, {"primary", "unique", "index"})))
           checks(c) == unless("checks", {x.expr : x \in {x \in t.checks : x.columns = {c.name}}})
           generated(j) == unless("generated", {t.columns[j].generated} \ {None})
           last(found) == IF found = {} THEN None ELSE CHOOSE x \in found : TRUE
           told == EnrichConstraints(cols, t, failing)[i]
<1>1. PICK r : r = cols[i]
  OBVIOUS
<1>2. PICK u, k, g : u = (cols[i].name \in unique) /\ k = last(checks(cols[i])) /\ g = last(generated(i))
  OBVIOUS
<1>3. told = [cols[i] EXCEPT !.unique = u, !.check = k, !.generated = g]
  BY <1>2, Zenon DEF EnrichConstraints
<1>4. u = (r.name \in UniqueTold("postgres", t, failing))
  BY <1>1, <1>2 DEF UniqueTold
<1> HIDE DEF told
<1>5. told = [[[r EXCEPT !["unique"] = u] EXCEPT !["check"] = k] EXCEPT !["generated"] = g]
  BY <1>1, <1>3
<1>6. Changed(told, r, ToldFields, {<<"unique", u>>, <<"check", k>>, <<"generated", g>>})
  <2>1. "unique" \in ToldFields /\ "check" \in ToldFields /\ "generated" \in ToldFields
    BY DEF ToldFields
  <2>2. "unique" # "generated" /\ "unique" # "check" /\ "check" # "generated"
    OBVIOUS
  <2>3. IsRecord(r, ToldFields)
    BY <1>1
  <2>4. QED
    BY <1>5, <2>1, <2>2, <2>3, ThreeChanged
<1>7. /\ IsRecord(told, ToldFields) /\ told.unique = u
      /\ \A f \in ToldFields \ {"unique", "check", "generated"} : told[f] = r[f]
  BY <1>6 DEF ToldFields, Changed
<1>8. QED
  BY <1>1, <1>4, <1>7 DEF told

LEMMA PostgresTells ==
  ASSUME NEW t, NEW policy, NEW failing, NEW i \in DOMAIN t.columns
  PROVE  TellsColumn(PostgresColumns(t, policy, failing)[i], "postgres", t, i, policy, failing)
<1> DEFINE c == t.columns[i]
           class == PostgresClass(c.type)
           first == [j \in DOMAIN t.columns |-> Column(t.columns[j], PostgresClass(t.columns[j].type), None, j)]
           cols == EnrichConstraints(first, t, failing)
           r == cols[i]
           told == PostgresColumns(t, policy, failing)[i]
<1>1. DOMAIN first = DOMAIN t.columns /\ DOMAIN cols = DOMAIN t.columns
  BY DEF EnrichConstraints
<1>2. first[i] = Column(c, class, None, i)
  OBVIOUS
<1>3. PICK s : s = PostgresSample(ToSample(c, r.class), policy, failing)
  OBVIOUS
<1>4. told = IF policy = None THEN r ELSE [r EXCEPT !.sample = s]
  BY <1>1, <1>3, Zenon DEF PostgresColumns
<1> HIDE DEF c, class, told, first
<1>5. Asked1(first[i], c, class, None, i)
  BY <1>2, ColumnIs
<1>6. /\ IsRecord(r, ToldFields)
      /\ r.unique = (first[i].name \in UniqueTold("postgres", t, failing))
      /\ \A f \in ToldFields \ {"unique", "check", "generated"} : r[f] = first[i][f]
  BY <1>1, <1>5, ConstraintsEnrich DEF Asked1
<1> HIDE DEF r, cols
<1>7. /\ r.name = c.name /\ r.class = class /\ r.nullable = ~c.required /\ r.default = c.default
      /\ r.comment = None /\ r.ordinal = i /\ r.sample = None
      /\ r.unique = (c.name \in UniqueTold("postgres", t, failing))
  <2>1. r.name = first[i].name /\ r.class = first[i].class /\ r.nullable = first[i].nullable
        /\ r.default = first[i].default /\ r.comment = first[i].comment /\ r.ordinal = first[i].ordinal
        /\ r.sample = first[i].sample
    BY <1>6 DEF ToldFields
  <2>2. QED
    BY <1>5, <1>6, <2>1 DEF Asked1
<1>8. /\ ClassOf("postgres", c.type) = class
      /\ DefaultTold("postgres", c) = c.default
      /\ CommentTold("postgres", c) = None
      /\ OrdinalTold("postgres", i) = i
  BY DEF ClassOf, DefaultTold, CommentTold, OrdinalTold, class
<1>9. SampleTold("postgres", c, policy, failing) = IF policy = None THEN None ELSE s
  BY <1>3, <1>7, <1>8 DEF SampleTold
<1>10. CASE policy = None
  BY <1>4, <1>6, <1>7, <1>8, <1>9, <1>10 DEF TellsColumn, c, told
<1>11. CASE policy # None
  <2>1. told = [r EXCEPT !["sample"] = s]
    BY <1>4, <1>11
  <2>2. Changed(told, r, ToldFields, {<<"sample", s>>})
    <3>1. "sample" \in ToldFields
      BY DEF ToldFields
    <3>2. QED
      BY <1>6, <2>1, <3>1, OneChanged
  <2>3. /\ IsRecord(told, ToldFields) /\ told.unique = r.unique /\ told.sample = s /\ told.default = r.default
        /\ told.name = r.name /\ told.class = r.class /\ told.nullable = r.nullable
        /\ told.comment = r.comment /\ told.ordinal = r.ordinal
    BY <2>2 DEF ToldFields, Changed
  <2>4. QED
    BY <1>7, <1>8, <1>9, <1>11, <2>3 DEF TellsColumn, c, told
<1>12. QED
  BY <1>10, <1>11

LEMMA ColumnsAreTold ==
  ASSUME NEW b \in AllBackends, NEW t, NEW sampling, NEW failing, NEW cols,
         cols = ColumnsOf(b, t, PolicyOf(b, sampling), failing)
  PROVE  /\ DOMAIN cols = DOMAIN t.columns
         /\ cols = [i \in DOMAIN t.columns |-> cols[i]]
         /\ \A i \in DOMAIN t.columns : TellsColumn(cols[i], b, t, i, PolicyOf(b, sampling), failing)
<1>1. DOMAIN cols = DOMAIN t.columns /\ cols = [i \in DOMAIN t.columns |-> cols[i]]
  <2> DEFINE policy == PolicyOf(b, sampling)
             I == DOMAIN t.columns
  <2>1. \A e : DOMAIN [i \in I |-> e[i]] = I
    OBVIOUS
  <2>2. CASE b = "postgres"
    <3>1. ASSUME NEW all, NEW q
          PROVE  /\ DOMAIN EnrichConstraints(all, t, q) = DOMAIN all
                 /\ EnrichConstraints(all, t, q) = [i \in DOMAIN all |-> EnrichConstraints(all, t, q)[i]]
      <4> DEFINE unless(query, found) == IF query \in q THEN {} ELSE found
                 unique == unless("unique constraints", OneMember(Keys(t, {"unique"})))
                             \cup unless("unique indexes", OneMember(Keys(t, {"primary", "unique", "index"})))
                 checks(c) == unless("checks", {x.expr : x \in {x \in t.checks : x.columns = {c.name}}})
                 generated(j) == unless("generated", {t.columns[j].generated} \ {None})
                 last(found) == IF found = {} THEN None ELSE CHOOSE x \in found : TRUE
                 E(i) == [all[i] EXCEPT !.unique = all[i].name \in unique, !.check = last(checks(all[i])),
                                        !.generated = last(generated(i))]
      <4>1. EnrichConstraints(all, t, q) = [i \in DOMAIN all |-> E(i)]
        BY DEF EnrichConstraints
      <4> HIDE DEF E
      <4>2. QED
        BY <4>1
    <3> DEFINE all == [i \in I |-> Column(t.columns[i], PostgresClass(t.columns[i].type), None, i)]
               rich == EnrichConstraints(all, t, failing)
    <3>2. DOMAIN rich = I /\ rich = [i \in I |-> rich[i]]
      <4>1. DOMAIN all = I
        OBVIOUS
      <4> HIDE DEF all
      <4>2. QED
        BY <3>1, <4>1
    <3>3. cols = IF policy = None THEN rich
                 ELSE [i \in DOMAIN rich |->
                         [rich[i] EXCEPT !.sample =
                            PostgresSample(ToSample(t.columns[i], rich[i].class), policy, failing)]]
      BY <2>2 DEF ColumnsOf, PostgresColumns
    <3> HIDE DEF rich, policy
    <3>4. CASE policy = None
      BY <3>2, <3>3, <3>4
    <3>5. CASE policy # None
      BY <3>2, <3>3, <3>5, Zenon
    <3>6. QED
      BY <3>4, <3>5
  <2>3. CASE b = "mysql"
    BY <2>3, Zenon DEF ColumnsOf, MysqlColumns
  <2>4. CASE b = "mssql"
    BY <2>4, Zenon DEF ColumnsOf, MssqlColumns
  <2>5. CASE b = "sqlite"
    BY <2>5, Zenon DEF ColumnsOf, SqliteColumns
  <2>6. CASE b = "duckdb"
    BY <2>6, Zenon DEF ColumnsOf, DuckdbColumns
  <2>7. CASE b = "snowflake"
    BY <2>7, Zenon DEF ColumnsOf, SnowflakeColumns
  <2>8. CASE b = "bigquery"
    BY <2>8, Zenon DEF ColumnsOf, BigqueryColumns
  <2>9. QED
    BY <2>2, <2>3, <2>4, <2>5, <2>6, <2>7, <2>8 DEF AllBackends
<1>2. ASSUME NEW i \in DOMAIN t.columns
      PROVE  TellsColumn(cols[i], b, t, i, PolicyOf(b, sampling), failing)
  <2>1. CASE b = "postgres"
    BY <2>1, PostgresTells DEF ColumnsOf, PolicyOf
  <2>2. CASE b = "mysql"
    BY <2>2, MysqlTells DEF ColumnsOf, PolicyOf
  <2>3. CASE b = "mssql"
    BY <2>3, MssqlTells DEF ColumnsOf, PolicyOf
  <2>4. CASE b = "sqlite"
    BY <2>4, SqliteTells DEF ColumnsOf, PolicyOf
  <2>5. CASE b = "duckdb"
    BY <2>5, DuckdbTells DEF ColumnsOf, PolicyOf
  <2>6. CASE b = "snowflake"
    BY <2>6, SnowflakeTells DEF ColumnsOf, PolicyOf
  <2>7. CASE b = "bigquery"
    BY <2>7, BigqueryTells DEF ColumnsOf, PolicyOf
  <2>8. QED
    BY <2>1, <2>2, <2>3, <2>4, <2>5, <2>6, <2>7 DEF AllBackends
<1>3. QED
  BY <1>1, <1>2

LEMMA WholeHas ==
  ASSUME NEW b, NEW db, NEW t, NEW policy, NEW failing, NEW w, w = Whole(b, db, t, policy, failing)
  PROVE  /\ w.columns = ColumnsOf(b, t, policy, failing)
         /\ w.primaryKey = PrimaryKeyOf(b, db, t)
         /\ w.foreignKeys = ForeignKeysOf(b, db, t)
         /\ w.name = t.name
BY DEF Whole

\* Columns come back by name, in order.
LEMMA ColumnsAreDeclared ==
  ASSUME NEW b \in AllBackends, NEW db, NEW t, NEW sampling, NEW failing
  PROVE  HasItsColumns(Whole(b, db, t, PolicyOf(b, sampling), failing), t)
<1> DEFINE cols == ColumnsOf(b, t, PolicyOf(b, sampling), failing)
           w == Whole(b, db, t, PolicyOf(b, sampling), failing)
<1>1. /\ DOMAIN cols = DOMAIN t.columns
      /\ \A i \in DOMAIN t.columns : TellsColumn(cols[i], b, t, i, PolicyOf(b, sampling), failing)
  BY ColumnsAreTold
<1>2. \A i \in DOMAIN t.columns : cols[i].name = t.columns[i].name /\ cols[i].nullable = ~t.columns[i].required
  BY <1>1 DEF TellsColumn
<1>3. w.columns = cols
  BY WholeHas
<1> HIDE DEF w, cols
<1>4. [i \in DOMAIN cols |-> <<cols[i].name, cols[i].nullable>>] =
        [i \in DOMAIN t.columns |-> <<t.columns[i].name, ~t.columns[i].required>>]
  <2>1. \A i \in DOMAIN t.columns : <<cols[i].name, cols[i].nullable>> = <<t.columns[i].name, ~t.columns[i].required>>
    BY <1>2
  <2>2. QED
    BY <1>1, <2>1, Zenon
<1>5. QED
  BY <1>3, <1>4 DEF HasItsColumns, w

\* Whatever the queries that are not needed say.
Bare(r) ==
  [r EXCEPT !.columns = [i \in DOMAIN r.columns |->
    [r.columns[i] EXCEPT !.unique = FALSE, !.check = None, !.generated = None, !.sample = None]]]

\* Queries that are not needed cost no more than what they ask for.
LEMMA BareIsSame ==
  ASSUME NEW b \in AllBackends, NEW db, NEW t, NEW sampling, NEW failing, NEW other,
         NEW r, r = Whole(b, db, t, PolicyOf(b, sampling), failing),
         NEW q, q = Whole(b, db, t, PolicyOf(b, sampling), other)
  PROVE  Bare(r) = Bare(q)
<1> DEFINE policy == PolicyOf(b, sampling)
           first == ColumnsOf(b, t, policy, failing)
           second == ColumnsOf(b, t, policy, other)
           bare(cols) == [i \in DOMAIN cols |->
             [cols[i] EXCEPT !.unique = FALSE, !.check = None, !.generated = None, !.sample = None]]
<1>1. /\ DOMAIN first = DOMAIN t.columns /\ DOMAIN second = DOMAIN t.columns
      /\ \A i \in DOMAIN t.columns : TellsColumn(first[i], b, t, i, policy, failing)
                                     /\ TellsColumn(second[i], b, t, i, policy, other)
  BY ColumnsAreTold
<1>2. ASSUME NEW i \in DOMAIN t.columns
      PROVE  [first[i] EXCEPT !.unique = FALSE, !.check = None, !.generated = None, !.sample = None] =
             [second[i] EXCEPT !.unique = FALSE, !.check = None, !.generated = None, !.sample = None]
  <2>1. PICK x, y : x = first[i] /\ y = second[i]
    OBVIOUS
  <2>2. PICK u : u = FALSE
    OBVIOUS
  <2>3. PICK x1, y1 :
          /\ x1 = [x EXCEPT !.unique = u, !.check = None, !.generated = None, !.sample = None]
          /\ y1 = [y EXCEPT !.unique = u, !.check = None, !.generated = None, !.sample = None]
    OBVIOUS
  <2>4. /\ x1 = [[[[x EXCEPT !["unique"] = u] EXCEPT !["check"] = None] EXCEPT !["generated"] = None] EXCEPT !["sample"] = None]
        /\ y1 = [[[[y EXCEPT !["unique"] = u] EXCEPT !["check"] = None] EXCEPT !["generated"] = None] EXCEPT !["sample"] = None]
    BY <2>3
  <2>5. /\ IsRecord(x, ToldFields) /\ IsRecord(y, ToldFields)
        /\ x.name = y.name /\ x.class = y.class /\ x.nullable = y.nullable
        /\ x.default = y.default /\ x.comment = y.comment /\ x.ordinal = y.ordinal
    BY <1>1, <2>1 DEF TellsColumn
  <2>6. "unique" \in ToldFields /\ "check" \in ToldFields /\ "generated" \in ToldFields /\ "sample" \in ToldFields
    BY DEF ToldFields
  <2>7. /\ "unique" # "check" /\ "unique" # "generated" /\ "check" # "generated"
        /\ "unique" # "sample" /\ "check" # "sample" /\ "generated" # "sample"
    OBVIOUS
  <2> DEFINE V == {<<"unique", u>>, <<"check", None>>, <<"generated", None>>, <<"sample", None>>}
  <2>8. Changed(x1, x, ToldFields, V) /\ Changed(y1, y, ToldFields, V)
    BY <2>4, <2>5, <2>6, <2>7, FourChanged
  <2>9. IsRecord(x1, ToldFields) /\ IsRecord(y1, ToldFields) /\ \A f \in ToldFields : x1[f] = y1[f]
    <3>1. /\ x1.unique = y1.unique /\ x1.check = y1.check /\ x1.generated = y1.generated /\ x1.sample = y1.sample
      BY <2>8 DEF Changed
    <3>2. /\ x1.name = x.name /\ x1.class = x.class /\ x1.nullable = x.nullable
          /\ x1.default = x.default /\ x1.comment = x.comment /\ x1.ordinal = x.ordinal
      BY <2>8 DEF Changed, ToldFields
    <3>3. /\ y1.name = y.name /\ y1.class = y.class /\ y1.nullable = y.nullable
          /\ y1.default = y.default /\ y1.comment = y.comment /\ y1.ordinal = y.ordinal
      BY <2>8 DEF Changed, ToldFields
    <3>4. QED
      BY <2>5, <2>8, <3>1, <3>2, <3>3 DEF ToldFields, Changed
  <2>10. x1 = y1
    BY <2>9, SameRecords
  <2>11. QED
    BY <2>1, <2>2, <2>3, <2>10, Zenon
<1>3. bare(first) = bare(second)
  BY <1>1, <1>2, Zenon
<1>4. r.columns = first /\ q.columns = second
  BY WholeHas
<1>5. PICK cols : cols = bare(first) /\ cols = bare(second)
  BY <1>3
<1> HIDE DEF policy, first, second, bare
<1>6. [r EXCEPT !.columns = cols] = [q EXCEPT !.columns = cols]
  <2> DEFINE F == {"schema", "name", "columns", "primaryKey", "foreignKeys", "rowCount", "comment"}
  <2>1. /\ IsRecord(r, F) /\ IsRecord(q, F)
        /\ r.schema = q.schema /\ r.name = q.name /\ r.primaryKey = q.primaryKey
        /\ r.foreignKeys = q.foreignKeys /\ r.rowCount = q.rowCount /\ r.comment = q.comment
    BY DEF IsRecord, Whole
  <2>2. PICK r1, q1 : r1 = [r EXCEPT !.columns = cols] /\ q1 = [q EXCEPT !.columns = cols]
    OBVIOUS
  <2>3. r1 = [r EXCEPT !["columns"] = cols] /\ q1 = [q EXCEPT !["columns"] = cols]
    BY <2>2
  <2>4. Changed(r1, r, F, {<<"columns", cols>>}) /\ Changed(q1, q, F, {<<"columns", cols>>})
    <3>1. "columns" \in F
      OBVIOUS
    <3> HIDE DEF F
    <3>2. QED
      BY <2>1, <2>3, <3>1, OneChanged
  <2>5. /\ r1.schema = r.schema /\ r1.name = r.name /\ r1.primaryKey = r.primaryKey
        /\ r1.foreignKeys = r.foreignKeys /\ r1.rowCount = r.rowCount /\ r1.comment = r.comment
        /\ r1.columns = cols
    BY <2>4 DEF Changed
  <2>6. /\ q1.schema = q.schema /\ q1.name = q.name /\ q1.primaryKey = q.primaryKey
        /\ q1.foreignKeys = q.foreignKeys /\ q1.rowCount = q.rowCount /\ q1.comment = q.comment
        /\ q1.columns = cols
    BY <2>4 DEF Changed
  <2>7. IsRecord(r1, F) /\ IsRecord(q1, F) /\ \A f \in F : r1[f] = q1[f]
    BY <2>1, <2>4, <2>5, <2>6 DEF Changed
  <2>8. r1 = q1
    <3> HIDE DEF F
    <3>1. QED
      BY <2>7, SameRecords
  <2>9. QED
    BY <2>2, <2>8
<1>7. /\ cols = [i \in DOMAIN r.columns |->
            [r.columns[i] EXCEPT !.unique = FALSE, !.check = None, !.generated = None, !.sample = None]]
      /\ cols = [i \in DOMAIN q.columns |->
            [q.columns[i] EXCEPT !.unique = FALSE, !.check = None, !.generated = None, !.sample = None]]
  BY <1>4, <1>5, Zenon DEF bare
<1>8. QED
  BY <1>6, <1>7, Zenon DEF Bare

\* No sample is kept of a column whose name is not to be shown.
LEMMA NamedIsUnsampled ==
  ASSUME NEW b, NEW c, NEW policy, policy # None, policy.redaction # None, c.named, NEW failing
  PROVE  SampleTold(b, c, policy, failing) = None
<1>1. \A col, decodes : col.named => SampleValues(col, decodes, policy, failing) = None
  BY DEF SampleValues, ShouldRedact
<1>2. PICK n : n = c.named
  OBVIOUS
<1>3. PICK col : col = ToSample(c, ClassOf(b, c.type))
  OBVIOUS
<1>4. IsRecord(col, {"class", "stored", "named", "marked", "cells"}) /\ col.named = n
  BY <1>2, <1>3 DEF IsRecord, ToSample
<1>5. PICK q : q = [col EXCEPT !.marked = FALSE]
  OBVIOUS
<1>6. PICK u : u = FALSE
  OBVIOUS
<1>7. q = [col EXCEPT !["marked"] = u]
  BY <1>5, <1>6
<1>8. Changed(q, col, {"class", "stored", "named", "marked", "cells"}, {<<"marked", u>>})
  <2> DEFINE F == {"class", "stored", "named", "marked", "cells"}
  <2>1. "marked" \in F
    OBVIOUS
  <2> HIDE DEF F
  <2>2. IsRecord(col, F)
    BY <1>4 DEF F
  <2>3. Changed(q, col, F, {<<"marked", u>>})
    BY <1>7, <2>1, <2>2, OneChanged
  <2>4. QED
    BY <2>3 DEF F
<1>9. q.named = n
  BY <1>4, <1>8 DEF Changed
<1>10. /\ PostgresSample(col, policy, failing) = None /\ SqliteSample(col, policy, failing) = None
       /\ DuckdbSample(col, policy, failing) = None /\ MysqlSample(col, policy, failing) = None
  <2>1. /\ PostgresSample(col, policy, failing) = SampleValues(q, TRUE, policy, failing)
        /\ DuckdbSample(col, policy, failing) = SampleValues(q, TRUE, policy, failing)
        /\ \E d : SqliteSample(col, policy, failing) = SampleValues(q, d, policy, failing)
        /\ \E d : MysqlSample(col, policy, failing) = SampleValues(col, d, policy, failing)
    BY <1>5, Zenon DEF PostgresSample, DuckdbSample, SqliteSample, MysqlSample
  <2>2. QED
    BY <1>1, <1>2, <1>4, <1>9, <2>1
<1>11. QED
  BY <1>3, <1>10 DEF SampleTold

(***************************************************************************)
(* Unique columns.                                                         *)
(***************************************************************************)

LEMMA OneMemberIs ==
  ASSUME NEW keys, NEW x
  PROVE  x \in OneMember(keys) <=>
           x # Expression /\ \E k \in keys : Len(k.members) = 1 /\ x = k.members[1]
BY DEF OneMember

\* The members of an index of MySQL that are columns.
MysqlMembers(k) == Picked(k.members, {i \in DOMAIN k.members : k.members[i] # Expression})

LEMMA MysqlMembersAre ==
  ASSUME NEW t, HasConstraints(t), NEW k \in t.keys, Contains(k.members, Expression) => Len(k.members) = 1
  PROVE  /\ Len(MysqlMembers(k)) = 1 <=> Len(k.members) = 1 /\ k.members[1] # Expression
         /\ Len(MysqlMembers(k)) = 1 => MysqlMembers(k) = k.members
<1> DEFINE m == k.members
           P == {i \in DOMAIN m : m[i] # Expression}
<1>1. m \in Seq(ToSet(m)) /\ m # <<>> /\ DOMAIN m = 1 .. Len(m) /\ Len(m) \in Nat
  BY DEF HasConstraints, IsOver
<1> HIDE DEF m
<1>2. CASE Contains(m, Expression)
  <2>1. Len(m) = 1 /\ m[1] = Expression
    BY <1>1, <1>2 DEF Contains, m
  <2>2. P = {}
    BY <1>1, <2>1
  <2>3. Len(Picked(m, P)) = Cardinality(P)
    <3> HIDE DEF P
    <3>1. P \in SUBSET (DOMAIN m)
      BY DEF P
    <3>2. QED
      BY <1>1, <3>1, PickedIs
  <2>4. Len(Picked(m, P)) = 0
    BY <2>2, <2>3, FS_EmptySet
  <2>5. QED
    BY <2>1, <2>4 DEF MysqlMembers, m
<1>3. CASE ~Contains(m, Expression)
  <2>1. \A i \in DOMAIN m : m[i] # Expression
    BY <1>1, <1>3 DEF Contains
  <2>2. P = DOMAIN m
    BY <2>1
  <2>3. Picked(m, P) = m
    BY <1>1, <2>2, AllPicked
  <2>4. QED
    BY <1>1, <2>1, <2>3 DEF MysqlMembers, m
<1>4. QED
  BY <1>2, <1>3

LEMMA MysqlUniqueIs ==
  ASSUME NEW t, HasConstraints(t), TellsUnique("mysql", t), NEW failing, NEW x
  PROVE  x \in MysqlUnique(t, failing) <=>
           "statistics" \notin failing /\ x \in OneMember(Keys(t, {"primary", "unique", "index"}))
<1> DEFINE K == Keys(t, {"primary", "unique", "index"})
<1>1. K \subseteq t.keys
  BY DEF Keys
<1>2. MysqlUnique(t, failing) = IF "statistics" \in failing THEN {}
                                ELSE {MysqlMembers(k)[1] : k \in {k \in K : Len(MysqlMembers(k)) = 1}}
  BY Zenon DEF MysqlUnique, MysqlMembers
<1> HIDE DEF K
<1>3. \A k \in K : /\ Len(MysqlMembers(k)) = 1 <=> Len(k.members) = 1 /\ k.members[1] # Expression
                   /\ Len(MysqlMembers(k)) = 1 => MysqlMembers(k) = k.members
  <2>1. \A k \in K : Contains(k.members, Expression) => Len(k.members) = 1
    BY <1>1 DEF TellsUnique
  <2>2. QED
    BY <1>1, <2>1, MysqlMembersAre
<1>4. x \in MysqlUnique(t, failing) <=>
        "statistics" \notin failing /\ \E k \in K : Len(k.members) = 1 /\ k.members[1] # Expression /\ x = k.members[1]
  <2>1. x \in {MysqlMembers(k)[1] : k \in {k \in K : Len(MysqlMembers(k)) = 1}} <=>
          \E k \in K : Len(MysqlMembers(k)) = 1 /\ x = MysqlMembers(k)[1]
    OBVIOUS
  <2>2. QED
    BY <1>2, <1>3, <2>1
<1>5. x \in OneMember(K) <=> x # Expression /\ \E k \in K : Len(k.members) = 1 /\ x = k.members[1]
  BY OneMemberIs
<1>6. QED
  BY <1>4, <1>5 DEF K

\* A column is called unique when it is, and when no query fails every one is.
LEMMA UniqueIsTold ==
  ASSUME NEW b \in AllBackends, NEW t, HasConstraints(t), TellsUnique(b, t), NEW failing, NEW x
  PROVE  /\ x \in UniqueTold(b, t, failing) => x \in UniqueAlone(t)
         /\ b \in {"postgres", "mysql", "sqlite"} /\ failing = {} /\ x \in UniqueAlone(t) =>
              x \in UniqueTold(b, t, failing)
<1> DEFINE K == Keys(t, {"primary", "unique", "index"})
           W == {k \in t.keys : k.kind # "plain" /\ ~k.partial}
<1>1. /\ x \in OneMember(K) <=> x # Expression /\ \E k \in K : Len(k.members) = 1 /\ x = k.members[1]
      /\ x \in OneMember(W) <=> x # Expression /\ \E k \in W : Len(k.members) = 1 /\ x = k.members[1]
      /\ x \in OneMember(Keys(t, {"unique"})) <=>
           x # Expression /\ \E k \in Keys(t, {"unique"}) : Len(k.members) = 1 /\ x = k.members[1]
      /\ x \in OneMember(Keys(t, {"primary"})) <=>
           x # Expression /\ \E k \in Keys(t, {"primary"}) : Len(k.members) = 1 /\ x = k.members[1]
  BY OneMemberIs
<1>2. /\ \A k : k \in K <=> k \in t.keys /\ k.kind # "plain"
      /\ Keys(t, {"unique"}) \subseteq K /\ Keys(t, {"primary"}) \subseteq K
  BY DEF Keys, HasConstraints, IsKeyOf
<1>3. b \in {"postgres", "mysql", "sqlite"} => \A k \in K : k \in W
  BY <1>2 DEF TellsUnique
<1>4. \A k \in W : k \in K
  BY <1>2
<1>5. UniqueAlone(t) = OneMember(W)
  BY DEF UniqueAlone
<1> HIDE DEF K, W
<1>6. b \in {"postgres", "mysql", "sqlite"} => (x \in OneMember(K) <=> x \in OneMember(W))
  BY <1>1, <1>3, <1>4
<1>7. /\ x \in OneMember(Keys(t, {"unique"})) => x \in OneMember(K)
      /\ x \in OneMember(Keys(t, {"primary"})) => x \in OneMember(K)
  BY <1>1, <1>2
<1>8. CASE b = "postgres"
  <2>1. x \in UniqueTold(b, t, failing) => x \in OneMember(Keys(t, {"unique"})) \/ x \in OneMember(K)
    BY <1>8 DEF UniqueTold, K
  <2>2. failing = {} /\ x \in OneMember(K) => x \in UniqueTold(b, t, failing)
    BY <1>8 DEF UniqueTold, K
  <2>3. QED
    BY <1>5, <1>6, <1>7, <1>8, <2>1, <2>2
<1>9. CASE b = "mysql"
  <2>1. x \in MysqlUnique(t, failing) <=> "statistics" \notin failing /\ x \in OneMember(K)
    BY <1>9, MysqlUniqueIs DEF K
  <2>2. UniqueTold(b, t, failing) = MysqlUnique(t, failing)
    BY <1>9 DEF UniqueTold
  <2>3. QED
    BY <1>5, <1>6, <1>9, <2>1, <2>2
<1>10. CASE b = "sqlite"
  <2> DEFINE I == {k \in K : ~IsRowNumber(t, k)}
  <2>1. UniqueTold(b, t, failing) = (IF "indexes" \in failing THEN {} ELSE OneMember(I))
          \cup (IF "table info" \in failing THEN {} ELSE OneMember(Keys(t, {"primary"})))
    BY <1>10 DEF UniqueTold, SqliteUnique, K
  <2>2. x \in OneMember(I) <=> x # Expression /\ \E k \in I : Len(k.members) = 1 /\ x = k.members[1]
    BY OneMemberIs
  <2>3. x \in OneMember(I) => x \in OneMember(K)
    BY <1>1, <2>2
  <2>4. x \in OneMember(K) => x \in OneMember(I) \/ x \in OneMember(Keys(t, {"primary"}))
    <3>1. \A k \in K : IsRowNumber(t, k) => k \in Keys(t, {"primary"})
      BY <1>2 DEF IsRowNumber, Keys
    <3>2. QED
      BY <1>1, <2>2, <3>1
  <2> HIDE DEF I
  <2>5. QED
    BY <1>5, <1>6, <1>7, <1>10, <2>1, <2>3, <2>4
<1>11. CASE b \notin {"postgres", "mysql", "sqlite"}
  BY <1>11 DEF UniqueTold
<1>12. QED
  BY <1>8, <1>9, <1>10, <1>11

(***************************************************************************)
(* Sorting: what an order by a key leaves.                                 *)
(***************************************************************************)

\* by has the places of s by rising keys, those of one key in order.
Sorts(by, s, keys) ==
  /\ by \in [1 .. Len(s) -> 1 .. Len(s)]
  /\ \A j \in 1 .. Len(s) : keys[j] \in Int
  /\ \A j \in 1 .. Len(s) : \E k \in 1 .. Len(s) : by[k] = j
  /\ \A k, l \in 1 .. Len(s) : k < l =>
       keys[by[k]] < keys[by[l]] \/ (keys[by[k]] = keys[by[l]] /\ by[k] < by[l])

SortsTo(out, s, keys) ==
  \E by : Sorts(by, s, keys) /\ out = [k \in 1 .. Len(s) |-> s[by[k]]]

LEMMA SortedByIs ==
  ASSUME NEW X, NEW s \in Seq(X), NEW keys, \A i \in 1 .. Len(s) : keys[i] \in Int
  PROVE  SortsTo(SortedBy(s, keys), s, keys)
<1> DEFINE n == Len(s)
           scores == [i \in 1 .. n |-> -keys[i]]
           by == Ranking(scores)
<1>1. n \in Nat /\ DOMAIN s = 1 .. n
  OBVIOUS
<1>2. scores \in [1 .. n -> Int]
  OBVIOUS
<1>2a. \A i \in 1 .. n : scores[i] = -keys[i]
  OBVIOUS
<1> HIDE DEF n
<1>3. SortedBy(s, keys) = [k \in 1 .. n |-> s[by[k]]]
  BY <1>1 DEF SortedBy
<1> HIDE DEF scores
<1>4. /\ by \in [1 .. n -> 1 .. n]
      /\ \A j \in 1 .. n : \E k \in 1 .. n : by[k] = j
      /\ \A k, l \in 1 .. n : k < l => by[k] \in PlacesAhead(scores, by[l])
  BY <1>1, <1>2, RankingIs
<1> HIDE DEF by
<1>5. ASSUME NEW k \in 1 .. n, NEW l \in 1 .. n, k < l
      PROVE  keys[by[k]] < keys[by[l]] \/ (keys[by[k]] = keys[by[l]] /\ by[k] < by[l])
  <2>1. PICK i \in 1 .. n, j \in 1 .. n : i = by[k] /\ j = by[l]
    BY <1>4
  <2>2. i \in PlacesAhead(scores, j)
    BY <1>4, <1>5, <2>1
  <2>3. scores[i] > scores[j] \/ (scores[i] = scores[j] /\ i < j)
    BY <2>2 DEF PlacesAhead
  <2>4. scores[i] = -keys[i] /\ scores[j] = -keys[j] /\ keys[i] \in Int /\ keys[j] \in Int
    BY <1>2a DEF n
  <2>5. keys[i] < keys[j] \/ (keys[i] = keys[j] /\ i < j)
    BY <2>3, <2>4
  <2>6. QED
    BY <2>1, <2>5
<1>6. Sorts(by, s, keys)
  BY <1>4, <1>5 DEF Sorts, n
<1>7. QED
  BY <1>3, <1>6 DEF n, SortsTo

\* Sorting moves what there is.
LEMMA SortedElements ==
  ASSUME NEW n \in Nat, NEW s, Len(s) = n, NEW by, NEW keys, Sorts(by, s, keys)
  PROVE  /\ {s[by[k]] : k \in 1 .. n} = {s[j] : j \in 1 .. n}
         /\ \A k, l \in 1 .. n : by[k] = by[l] => k = l
<1>1. /\ by \in [1 .. n -> 1 .. n]
      /\ \A j \in 1 .. n : keys[j] \in Int
      /\ \A j \in 1 .. n : \E k \in 1 .. n : by[k] = j
      /\ \A k, l \in 1 .. n : k < l =>
           keys[by[k]] < keys[by[l]] \/ (keys[by[k]] = keys[by[l]] /\ by[k] < by[l])
  BY DEF Sorts
<1>2. {s[by[k]] : k \in 1 .. n} = {s[j] : j \in 1 .. n}
  <2>1. \A k \in 1 .. n : by[k] \in 1 .. n
    BY <1>1
  <2>2. \A j \in 1 .. n : \E k \in 1 .. n : s[by[k]] = s[j]
    BY <1>1
  <2>3. ASSUME NEW k \in 1 .. n
        PROVE  s[by[k]] \in {s[j] : j \in 1 .. n}
    <3>1. PICK j \in 1 .. n : j = by[k]
      BY <2>1
    <3>2. QED
      BY <3>1
  <2>4. ASSUME NEW j \in 1 .. n
        PROVE  s[j] \in {s[by[k]] : k \in 1 .. n}
    <3>1. PICK k \in 1 .. n : s[by[k]] = s[j]
      BY <2>2
    <3>2. QED
      BY <3>1
  <2>5. QED
    BY <2>3, <2>4
<1>3. ASSUME NEW k \in 1 .. n, NEW l \in 1 .. n, k < l
      PROVE  by[k] # by[l]
  <2>1. PICK i \in 1 .. n, j \in 1 .. n : i = by[k] /\ j = by[l]
    BY <1>1
  <2>2. keys[i] < keys[j] \/ (keys[i] = keys[j] /\ i < j)
    BY <1>1, <1>3, <2>1
  <2>2a. keys[i] \in Int /\ keys[j] \in Int
    BY <1>1
  <2>3. i # j
    BY <2>2, <2>2a
  <2>4. QED
    BY <2>1, <2>3
<1>4. \A k, l \in 1 .. n : by[k] = by[l] => k = l
  BY <1>3
<1>5. QED
  BY <1>2, <1>4

\* Rows by constraint, those of one by position.
IsInOrder(out, S) ==
  /\ out \in [1 .. Cardinality(S) -> S]
  /\ \A row \in S : \E k \in 1 .. Cardinality(S) : out[k] = row
  /\ \A k, l \in 1 .. Cardinality(S) : out[k] = out[l] => k = l
  /\ \A k, l \in 1 .. Cardinality(S) : k < l =>
       /\ out[k].constraint <= out[l].constraint
       /\ out[k].constraint = out[l].constraint => out[k].position <= out[l].position

\* A sequence of all of S, each once, by position.
IsByPosition(out, S) ==
  /\ out \in [1 .. Cardinality(S) -> S]
  /\ \A row \in S : \E k \in 1 .. Cardinality(S) : out[k] = row
  /\ \A k, l \in 1 .. Cardinality(S) : out[k] = out[l] => k = l
  /\ \A k, l \in 1 .. Cardinality(S) : k < l => out[k].position <= out[l].position

LEMMA ByPositionIs ==
  ASSUME NEW S, IsFiniteSet(S), \A row \in S : row.position \in Int
  PROVE  IsByPosition(ByPosition(SetToSeq(S)), S)
<1> DEFINE n == Cardinality(S)
           s == SetToSeq(S)
           keys == [i \in DOMAIN s |-> s[i].position]
           out == ByPosition(s)
<1>1. /\ n \in Nat /\ s \in [1 .. n -> S]
      /\ \A i, j \in 1 .. n : s[i] = s[j] => i = j
      /\ \A x \in S : \E i \in 1 .. n : s[i] = x
  BY SetToSeqIs
<1> HIDE DEF n, s
<1>2. s \in Seq(S) /\ Len(s) = n /\ DOMAIN s = 1 .. n
  BY <1>1, RowIs
<1>3. \A i \in 1 .. n : keys[i] = s[i].position /\ keys[i] \in Int
  BY <1>1, <1>2
<1>4. out = SortedBy(s, keys)
  BY DEF ByPosition
<1> HIDE DEF keys, out
<1>5. PICK by : Sorts(by, s, keys) /\ out = [k \in 1 .. n |-> s[by[k]]]
  BY <1>2, <1>3, <1>4, SortedByIs DEF SortsTo
<1>6. /\ by \in [1 .. n -> 1 .. n]
      /\ \A j \in 1 .. n : \E k \in 1 .. n : by[k] = j
      /\ \A k, l \in 1 .. n : k < l =>
           keys[by[k]] < keys[by[l]] \/ (keys[by[k]] = keys[by[l]] /\ by[k] < by[l])
  BY <1>2, <1>5 DEF Sorts
<1>7. \A k, l \in 1 .. n : by[k] = by[l] => k = l
  BY <1>1, <1>2, <1>5, SortedElements
<1>8. out \in [1 .. n -> S] /\ \A k \in 1 .. n : out[k] = s[by[k]]
  BY <1>1, <1>5, <1>6
<1>9. \A x \in S : \E k \in 1 .. n : out[k] = x
  BY <1>1, <1>6, <1>8
<1>10. \A k, l \in 1 .. n : out[k] = out[l] => k = l
  BY <1>1, <1>6, <1>7, <1>8
<1>11. ASSUME NEW k \in 1 .. n, NEW l \in 1 .. n, k < l
       PROVE  out[k].position <= out[l].position
  <2>1. PICK i \in 1 .. n, j \in 1 .. n : i = by[k] /\ j = by[l]
    BY <1>6
  <2>2. keys[i] < keys[j] \/ keys[i] = keys[j]
    BY <1>6, <1>11, <2>1
  <2>3. out[k].position = keys[i] /\ out[l].position = keys[j]
    BY <1>3, <1>8, <2>1
  <2>4. QED
    BY <1>3, <2>2, <2>3
<1>12. QED
  BY <1>8, <1>9, <1>10, <1>11 DEF IsByPosition, n, out, s

LEMMA OrderedIs ==
  ASSUME NEW S, IsFiniteSet(S), \A row \in S : row.position \in Int /\ row.constraint \in Int
  PROVE  IsInOrder(Ordered(S), S)
<1> DEFINE n == Cardinality(S)
           s == ByPosition(SetToSeq(S))
           keys == [i \in DOMAIN s |-> s[i].constraint]
           out == Ordered(S)
<1>0. n \in Nat
  BY FS_CardinalityType
<1>1. /\ s \in [1 .. n -> S]
      /\ \A x \in S : \E i \in 1 .. n : s[i] = x
      /\ \A i, j \in 1 .. n : s[i] = s[j] => i = j
      /\ \A i, j \in 1 .. n : i < j => s[i].position <= s[j].position
  BY ByPositionIs DEF IsByPosition
<1>1a. out = SortedBy(s, keys)
  BY DEF Ordered
<1> HIDE DEF n, s, out
<1>2. s \in Seq(S) /\ Len(s) = n /\ DOMAIN s = 1 .. n
  BY <1>0, <1>1, RowIs
<1>3. \A i \in 1 .. n : keys[i] = s[i].constraint /\ keys[i] \in Int
  BY <1>1, <1>2
<1> HIDE DEF keys
<1>5. PICK by : Sorts(by, s, keys) /\ out = [k \in 1 .. n |-> s[by[k]]]
  BY <1>1a, <1>2, <1>3, SortedByIs DEF SortsTo
<1>6. /\ by \in [1 .. n -> 1 .. n]
      /\ \A j \in 1 .. n : \E k \in 1 .. n : by[k] = j
      /\ \A k, l \in 1 .. n : k < l =>
           keys[by[k]] < keys[by[l]] \/ (keys[by[k]] = keys[by[l]] /\ by[k] < by[l])
  BY <1>2, <1>5 DEF Sorts
<1>7. \A k, l \in 1 .. n : by[k] = by[l] => k = l
  BY <1>0, <1>2, <1>5, SortedElements
<1>8. out \in [1 .. n -> S] /\ \A k \in 1 .. n : out[k] = s[by[k]]
  BY <1>1, <1>5, <1>6
<1>9. \A x \in S : \E k \in 1 .. n : out[k] = x
  BY <1>1, <1>6, <1>8
<1>10. \A k, l \in 1 .. n : out[k] = out[l] => k = l
  <2>1. ASSUME NEW k \in 1 .. n, NEW l \in 1 .. n, out[k] = out[l]
        PROVE  k = l
    <3>1. by[k] \in 1 .. n /\ by[l] \in 1 .. n /\ s[by[k]] = s[by[l]]
      BY <1>6, <1>8, <2>1
    <3>2. by[k] = by[l]
      BY <1>1, <3>1
    <3>3. QED
      BY <1>7, <3>2
  <2>2. QED
    BY <2>1
<1>11. ASSUME NEW k \in 1 .. n, NEW l \in 1 .. n, k < l
       PROVE  /\ out[k].constraint <= out[l].constraint
              /\ out[k].constraint = out[l].constraint => out[k].position <= out[l].position
  <2>1. PICK i \in 1 .. n, j \in 1 .. n : i = by[k] /\ j = by[l]
    BY <1>6
  <2>2. keys[i] < keys[j] \/ (keys[i] = keys[j] /\ i < j)
    BY <1>6, <1>11, <2>1
  <2>3. /\ out[k].constraint = keys[i] /\ out[l].constraint = keys[j]
        /\ out[k] = s[i] /\ out[l] = s[j]
    BY <1>3, <1>8, <2>1
  <2>4. keys[i] \in Int /\ keys[j] \in Int
    BY <1>3
  <2>5. i < j => s[i].position <= s[j].position
    BY <1>1
  <2>6. QED
    BY <2>2, <2>3, <2>4, <2>5
<1>12. QED
  BY <1>8, <1>9, <1>10, <1>11 DEF IsInOrder, n, out

\* A sequence that does not fall and takes each number once is in order.
LEMMA RisesInPlace ==
  ASSUME NEW n \in Nat, NEW e \in [1 .. n -> 1 .. n],
         \A p \in 1 .. n : \E k \in 1 .. n : e[k] = p,
         \A k, l \in 1 .. n : k < l => e[k] < e[l]
  PROVE  \A k \in 1 .. n : e[k] = k
<1> DEFINE P == 1 .. n
           id == [k \in 1 .. n |-> k]
<1>1. P \in SUBSET Int /\ IsFiniteSet(P)
  BY IntervalIs
<1>2. id \in [1 .. n -> P] /\ (\A p \in P : \E k \in 1 .. n : id[k] = p)
      /\ \A k, l \in 1 .. n : k < l => id[k] < id[l]
  OBVIOUS
<1>3. e \in [1 .. n -> P] /\ \A p \in P : \E k \in 1 .. n : e[k] = p
  OBVIOUS
<1> HIDE DEF P, id
<1>4. e = Ordering(P, Rising(P)) /\ id = Ordering(P, Rising(P))
  <2>1. id = Ordering(P, Rising(P))
    BY <1>1, <1>2, EnumerationIsUnique
  <2>2. e = Ordering(P, Rising(P))
    BY <1>1, <1>3, EnumerationIsUnique
  <2>3. QED
    BY <2>1, <2>2
<1>5. QED
  BY <1>4 DEF id

\* Rows of one key, each at its own position.
AreRowsOf(S, n, rows) ==
  /\ S = {rows[i] : i \in 1 .. n}
  /\ \A i \in 1 .. n : rows[i].position = i

\* They come back in the order of the key.
LEMMA KeyInOrder ==
  ASSUME NEW n \in Nat, NEW S, NEW rows, AreRowsOf(S, n, rows),
         NEW out, IsByPosition(out, S)
  PROVE  out = [i \in 1 .. n |-> rows[i]]
<1>1. /\ S = {rows[i] : i \in 1 .. n}
      /\ \A i \in 1 .. n : rows[i].position = i
  BY DEF AreRowsOf
<1>2. IsFiniteSet(S) /\ Cardinality(S) = n
  <2> DEFINE f == [i \in 1 .. n |-> rows[i]]
             P == 1 .. n
  <2>1. f \in [P -> S] /\ (\A x \in S : \E a \in P : f[a] = x)
    BY <1>1
  <2>2. \A a, b \in P : f[a] = f[b] => a = b
    BY <1>1
  <2>3. IsFiniteSet(P) /\ Cardinality(P) = n
    BY IntervalIs
  <2> HIDE DEF f, P
  <2>4. QED
    BY <2>1, <2>2, <2>3, SameSize
<1>3. /\ out \in [1 .. n -> S]
      /\ \A row \in S : \E k \in 1 .. n : out[k] = row
      /\ \A k, l \in 1 .. n : out[k] = out[l] => k = l
      /\ \A k, l \in 1 .. n : k < l => out[k].position <= out[l].position
  BY <1>2 DEF IsByPosition
<1> DEFINE e == [k \in 1 .. n |-> out[k].position]
<1>4. \A k \in 1 .. n : /\ e[k] = out[k].position /\ e[k] \in 1 .. n /\ out[k] = rows[e[k]]
  <2>1. ASSUME NEW k \in 1 .. n
        PROVE  e[k] = out[k].position /\ e[k] \in 1 .. n /\ out[k] = rows[e[k]]
    <3>1. PICK i \in 1 .. n : out[k] = rows[i]
      BY <1>1, <1>3
    <3>2. QED
      BY <1>1, <3>1
  <2>2. QED
    BY <2>1
<1>5. e \in [1 .. n -> 1 .. n]
  BY <1>4
<1>6. \A p \in 1 .. n : \E k \in 1 .. n : e[k] = p
  <2>1. ASSUME NEW p \in 1 .. n
        PROVE  \E k \in 1 .. n : e[k] = p
    <3>1. rows[p] \in S
      BY <1>1
    <3>2. PICK k \in 1 .. n : out[k] = rows[p]
      BY <1>3, <3>1
    <3>3. e[k] = p
      BY <1>1, <3>2
    <3>4. QED
      BY <3>3
  <2>2. QED
    BY <2>1
<1>7. \A k, l \in 1 .. n : k < l => e[k] < e[l]
  <2>1. ASSUME NEW k \in 1 .. n, NEW l \in 1 .. n, k < l
        PROVE  e[k] < e[l]
    <3>1. e[k] <= e[l]
      BY <1>3, <2>1
    <3>2. e[k] # e[l]
      BY <1>3, <1>4, <2>1
    <3>3. QED
      BY <1>4, <3>1, <3>2
  <2>2. QED
    BY <2>1
<1> HIDE DEF e
<1>8. \A k \in 1 .. n : e[k] = k
  BY <1>5, <1>6, <1>7, RisesInPlace
<1>9. QED
  BY <1>3, <1>4, <1>8

(***************************************************************************)
(* References, gathered from rows.                                         *)
(***************************************************************************)

LEMMA ImageIsFinite ==
  ASSUME NEW S, IsFiniteSet(S), NEW f
  PROVE  IsFiniteSet({f[x] : x \in S})
<1> DEFINE T == {f[x] : x \in S}
           g == [x \in S |-> f[x]]
<1>1. g \in Surjection(S, T)
  BY DEF Surjection
<1>2. QED
  BY <1>1, FS_Surjection

PairingOf(columns, to) == {<<columns[i], to[i]>> : i \in DOMAIN columns}

RowsAt(rows, c) == Picked(rows, {n \in DOMAIN rows : rows[n].constraint = c})

\* A foreign key has the rows of its constraint.
GathersOne(fk, c, S) ==
  /\ \E row \in S : row.constraint = c /\ fk.table = row.table
  /\ \A p : p \in PairingOf(fk.columns, fk.to) <=>
       \E row \in S : row.constraint = c /\ p = <<row.column, row.to>>

LEMMA OneIsGathered ==
  ASSUME NEW X, NEW rows \in Seq(X), NEW c, NEW row \in ToSet(rows), row.constraint = c, NEW name,
         NEW fk, fk = ForeignKey(name, [j \in DOMAIN RowsAt(rows, c) |-> RowsAt(rows, c)[j].column],
                                 RowsAt(rows, c)[1].table, [j \in DOMAIN RowsAt(rows, c) |-> RowsAt(rows, c)[j].to])
  PROVE  GathersOne(fk, c, ToSet(rows))
<1> DEFINE P == {n \in DOMAIN rows : rows[n].constraint = c}
           u == RowsAt(rows, c)
           columns == [j \in DOMAIN u |-> u[j].column]
           to == [j \in DOMAIN u |-> u[j].to]
<1>1. P \in SUBSET (DOMAIN rows) /\ u = Picked(rows, P)
  BY DEF RowsAt
<1>2. \A n \in P : rows[n] \in ToSet(rows) /\ rows[n].constraint = c
  BY DEF ToSet
<1>3. \A r \in ToSet(rows) : r.constraint = c => \E n \in P : r = rows[n]
  BY DEF ToSet
<1>4. fk.columns = columns /\ fk.to = to /\ fk.table = u[1].table
  BY DEF ForeignKey
<1> HIDE DEF P, u
<1>5. /\ u \in Seq(X)
      /\ \A k \in DOMAIN u : \E i \in P : u[k] = rows[i]
      /\ \A i \in P : \E k \in DOMAIN u : u[k] = rows[i]
  BY <1>1, PickedIs, PickedElements
<1>6. \A k \in DOMAIN u : u[k] \in ToSet(rows) /\ u[k].constraint = c
  BY <1>2, <1>5
<1>7. \A r \in ToSet(rows) : r.constraint = c => \E k \in DOMAIN u : u[k] = r
  BY <1>3, <1>5
<1>8. 1 \in DOMAIN u
  <2>1. PICK k \in DOMAIN u : u[k] = row
    BY <1>7
  <2>2. QED
    BY <1>5, <2>1
<1>9. \E r \in ToSet(rows) : r.constraint = c /\ fk.table = r.table
  BY <1>4, <1>6, <1>8
<1>10. \A p : p \in PairingOf(fk.columns, fk.to) <=> \E k \in DOMAIN u : p = <<u[k].column, u[k].to>>
  <2>1. DOMAIN columns = DOMAIN u /\ \A k \in DOMAIN u : columns[k] = u[k].column /\ to[k] = u[k].to
    OBVIOUS
  <2> HIDE DEF columns, to
  <2>2. \A p : p \in PairingOf(columns, to) <=> \E k \in DOMAIN u : p = <<columns[k], to[k]>>
    BY <2>1 DEF PairingOf
  <2>3. QED
    BY <1>4, <2>1, <2>2
<1>11. \A p : p \in PairingOf(fk.columns, fk.to) <=>
         \E r \in ToSet(rows) : r.constraint = c /\ p = <<r.column, r.to>>
  BY <1>6, <1>7, <1>10
<1>12. QED
  BY <1>9, <1>11 DEF GathersOne

\* Every constraint is gathered into one foreign key.
GathersAll(fks, C, S) ==
  \E names \in [1 .. Cardinality(C) -> C] :
    /\ DOMAIN fks = 1 .. Cardinality(C) /\ Len(fks) = Cardinality(C)
    /\ \A c \in C : \E i \in 1 .. Cardinality(C) : names[i] = c
    /\ \A i \in 1 .. Cardinality(C) : GathersOne(fks[i], names[i], S)

LEMMA GatheredIs ==
  ASSUME NEW X, NEW rows \in Seq(X), \A row \in ToSet(rows) : row.constraint \in Int,
         NEW C, C = {row.constraint : row \in ToSet(rows)}
  PROVE  GathersAll(Gathered(rows), C, ToSet(rows))
<1> DEFINE names == Ordering(C, Rising(C))
           n == Cardinality(C)
           key(i) == ForeignKey(names[i], [j \in DOMAIN RowsAt(rows, names[i]) |-> RowsAt(rows, names[i])[j].column],
                       RowsAt(rows, names[i])[1].table,
                       [j \in DOMAIN RowsAt(rows, names[i]) |-> RowsAt(rows, names[i])[j].to])
           fks == Gathered(rows)
<1>1. C \in SUBSET Int /\ IsFiniteSet(C) /\ n \in Nat
  <2>1. IsFiniteSet(ToSet(rows))
    <3>1. IsFiniteSet(DOMAIN rows)
      <4>1. DOMAIN rows = 1 .. Len(rows) /\ Len(rows) \in Nat
        OBVIOUS
      <4>2. QED
        BY <4>1, IntervalIs
    <3>2. QED
      BY <3>1, ImageIsFinite DEF ToSet
  <2>2. PICK f : f = [row \in ToSet(rows) |-> row.constraint]
    OBVIOUS
  <2>3. C = {f[row] : row \in ToSet(rows)}
    BY <2>2
  <2>4. IsFiniteSet(C)
    <3>1. IsFiniteSet({f[row] : row \in ToSet(rows)})
      BY <2>1, ImageIsFinite, Zenon
    <3>2. QED
      BY <2>3, <3>1
  <2>5. QED
    BY <2>4, FS_CardinalityType
<1>2. /\ names \in [1 .. n -> C]
      /\ \A c \in C : \E i \in 1 .. n : names[i] = c
  BY <1>1, RisingEnumerates DEF Enumerates
<1>3. fks = [i \in DOMAIN names |-> key(i)]
  BY DEF Gathered, RowsAt
<1>4. DOMAIN fks = 1 .. n /\ \A i \in 1 .. n : fks[i] = key(i)
  <2>1. DOMAIN names = 1 .. n
    BY <1>2
  <2> HIDE DEF key, names, n
  <2>2. QED
    BY <1>3, <2>1
<1>5. Len(fks) = n
  <2>1. fks = [i \in 1 .. n |-> fks[i]]
    BY <1>3, <1>4
  <2> HIDE DEF fks
  <2>2. QED
    BY <1>1, <2>1
<1> HIDE DEF fks
<1>6. ASSUME NEW i \in 1 .. n
      PROVE  GathersOne(fks[i], names[i], ToSet(rows))
  <2>1. PICK c : c = names[i]
    OBVIOUS
  <2>2. c \in C
    BY <1>2, <2>1
  <2>3. PICK row \in ToSet(rows) : row.constraint = c
    BY <2>2
  <2>4. fks[i] = ForeignKey(c, [j \in DOMAIN RowsAt(rows, c) |-> RowsAt(rows, c)[j].column],
                            RowsAt(rows, c)[1].table, [j \in DOMAIN RowsAt(rows, c) |-> RowsAt(rows, c)[j].to])
    BY <1>4, <2>1
  <2>5. GathersOne(fks[i], c, ToSet(rows))
    BY <2>3, <2>4, OneIsGathered
  <2>6. QED
    BY <2>1, <2>5
<1>7. PICK at : at = names
  OBVIOUS
<1> HIDE DEF names
<1>8. /\ at \in [1 .. n -> C]
      /\ DOMAIN fks = 1 .. n /\ Len(fks) = n
      /\ \A c \in C : \E i \in 1 .. n : at[i] = c
      /\ \A i \in 1 .. n : GathersOne(fks[i], at[i], ToSet(rows))
  BY <1>2, <1>4, <1>5, <1>6, <1>7
<1>9. GathersAll(fks, C, ToSet(rows))
  BY <1>8, Zenon DEF GathersAll
<1>10. QED
  BY <1>9 DEF fks

\* A row for each column of each reference.
RowsOfReferences(S, refs) ==
  /\ \A row \in S : \E r \in refs : \E i \in DOMAIN r.members :
       /\ row.constraint = r.name /\ row.table = r.table
       /\ row.column = r.members[i] /\ row.to = r.to[i]
  /\ \A r \in refs : \A i \in DOMAIN r.members : \E row \in S :
       /\ row.constraint = r.name /\ row.table = r.table
       /\ row.column = r.members[i] /\ row.to = r.to[i]

\* The keys told are those gathered, whatever they are named.
SameButNames(told, fks) ==
  /\ DOMAIN told = DOMAIN fks /\ Len(told) = Len(fks)
  /\ \A i \in DOMAIN fks : /\ told[i].table = fks[i].table
                           /\ told[i].columns = fks[i].columns
                           /\ told[i].to = fks[i].to

LEMMA ReferencesComeBack ==
  ASSUME NEW t, HasConstraints(t), NEW S, RowsOfReferences(S, t.refs),
         NEW C, C = {row.constraint : row \in S}, NEW fks, GathersAll(fks, C, S),
         NEW read, SameButNames(read.foreignKeys, fks)
  PROVE  HasItsReferences(read, t)
<1> DEFINE refs == t.refs
           n == Cardinality(C)
           told == read.foreignKeys
<1>0. /\ DOMAIN told = DOMAIN fks /\ Len(told) = Len(fks)
      /\ \A i \in DOMAIN fks : /\ told[i].table = fks[i].table
                               /\ told[i].columns = fks[i].columns
                               /\ told[i].to = fks[i].to
  BY DEF SameButNames
<1>1. /\ IsFiniteSet(refs)
      /\ \A r \in refs : r.name \in Int /\ r.members \in Seq(ToSet(r.members)) /\ r.members # <<>>
      /\ \A r, s \in refs : r.name = s.name => r = s
  <2>1. refs \subseteq Constraints(t)
    BY DEF Constraints
  <2>2. QED
    BY <2>1 DEF HasConstraints, IsOver
<1>2. \A r \in refs : 1 \in DOMAIN r.members
  BY <1>1
<1>3. /\ \A row \in S : \E r \in refs : \E i \in DOMAIN r.members :
           /\ row.constraint = r.name /\ row.table = r.table
           /\ row.column = r.members[i] /\ row.to = r.to[i]
      /\ \A r \in refs : \A i \in DOMAIN r.members : \E row \in S :
           /\ row.constraint = r.name /\ row.table = r.table
           /\ row.column = r.members[i] /\ row.to = r.to[i]
  BY DEF RowsOfReferences
<1> HIDE DEF refs
<1>4. \A r \in refs : r.name \in C
  <2>1. ASSUME NEW r \in refs
        PROVE  r.name \in C
    <3>1. PICK row \in S : row.constraint = r.name
      BY <1>2, <1>3
    <3>2. QED
      BY <3>1
  <2>2. QED
    BY <2>1
<1>5. \A c \in C : \E r \in refs : r.name = c
  BY <1>3
<1>6. n = Cardinality(refs)
  <2> DEFINE f == [r \in refs |-> r.name]
  <2>1. f \in [refs -> C] /\ (\A a, b \in refs : f[a] = f[b] => a = b) /\ (\A x \in C : \E a \in refs : f[a] = x)
    BY <1>1, <1>4, <1>5
  <2> HIDE DEF f
  <2>2. QED
    BY <1>1, <2>1, SameSize
<1>7. PICK names \in [1 .. n -> C] :
        /\ DOMAIN fks = 1 .. n /\ Len(fks) = n
        /\ \A c \in C : \E i \in 1 .. n : names[i] = c
        /\ \A i \in 1 .. n : GathersOne(fks[i], names[i], S)
  BY DEF GathersAll
<1> HIDE DEF n
<1>8. ASSUME NEW i \in 1 .. n, NEW r \in refs, names[i] = r.name
      PROVE  <<told[i].table, PairingOf(told[i].columns, told[i].to)>> = <<r.table, PairingOf(r.members, r.to)>>
  <2>1. GathersOne(fks[i], r.name, S)
    BY <1>7, <1>8
  <2>2. told[i].table = fks[i].table /\ told[i].columns = fks[i].columns /\ told[i].to = fks[i].to
    BY <1>0, <1>7
  <2>3. /\ \E row \in S : row.constraint = r.name /\ told[i].table = row.table
        /\ \A p : p \in PairingOf(told[i].columns, told[i].to) <=>
             \E row \in S : row.constraint = r.name /\ p = <<row.column, row.to>>
    BY <2>1, <2>2 DEF GathersOne
  <2>4. told[i].table = r.table
    BY <1>1, <1>3, <2>3
  <2>5. ASSUME NEW p
        PROVE  p \in PairingOf(told[i].columns, told[i].to) <=> p \in PairingOf(r.members, r.to)
    <3>1. p \in PairingOf(r.members, r.to) <=> \E j \in DOMAIN r.members : p = <<r.members[j], r.to[j]>>
      BY DEF PairingOf
    <3>2. ASSUME NEW row \in S, row.constraint = r.name, p = <<row.column, row.to>>
          PROVE  \E j \in DOMAIN r.members : p = <<r.members[j], r.to[j]>>
      <4>1. PICK s \in refs : \E j \in DOMAIN s.members :
              row.constraint = s.name /\ row.column = s.members[j] /\ row.to = s.to[j]
        BY <1>3
      <4>2. s = r
        BY <1>1, <3>2, <4>1
      <4>3. QED
        BY <3>2, <4>1, <4>2
    <3>3. ASSUME NEW j \in DOMAIN r.members, p = <<r.members[j], r.to[j]>>
          PROVE  \E row \in S : row.constraint = r.name /\ p = <<row.column, row.to>>
      <4>1. PICK row \in S : row.constraint = r.name /\ row.column = r.members[j] /\ row.to = r.to[j]
        BY <1>3
      <4>2. QED
        BY <3>3, <4>1
    <3>4. QED
      BY <2>3, <3>1, <3>2, <3>3
  <2>6. PairingOf(told[i].columns, told[i].to) = PairingOf(r.members, r.to)
    <3>1. PICK P, Q : P = PairingOf(told[i].columns, told[i].to) /\ Q = PairingOf(r.members, r.to)
      OBVIOUS
    <3>2. (\A p : p \in P <=> p \in Q) => P = Q
      <4>1. \A p \in P : TRUE
        OBVIOUS
      <4>2. QED
        BY <3>1 DEF PairingOf
    <3>3. QED
      BY <2>5, <3>1, <3>2
  <2>7. QED
    BY <2>4, <2>6
<1>9. {<<fk.table, PairingOf(fk.columns, fk.to)>> : fk \in ToSet(told)} =
        {<<r.table, PairingOf(r.members, r.to)>> : r \in refs}
  <2> DEFINE A(fk) == <<fk.table, PairingOf(fk.columns, fk.to)>>
             B(r) == <<r.table, PairingOf(r.members, r.to)>>
  <2>1. ASSUME NEW fk \in ToSet(told)
        PROVE  \E r \in refs : A(fk) = B(r)
    <3>1. PICK i \in 1 .. n : fk = told[i]
      BY <1>0, <1>7 DEF ToSet
    <3>2. PICK r \in refs : r.name = names[i]
      BY <1>5, <1>7
    <3>3. QED
      BY <1>8, <3>1, <3>2
  <2>2. ASSUME NEW r \in refs
        PROVE  \E fk \in ToSet(told) : A(fk) = B(r)
    <3>1. PICK i \in 1 .. n : names[i] = r.name
      BY <1>4, <1>7
    <3>2. told[i] \in ToSet(told)
      BY <1>0, <1>7 DEF ToSet
    <3>3. QED
      BY <1>8, <3>1, <3>2
  <2> HIDE DEF A, B
  <2>3. {A(fk) : fk \in ToSet(told)} = {B(r) : r \in refs}
    BY <2>1, <2>2
  <2>4. QED
    BY <2>3 DEF A, B
<1>10. Len(told) = Cardinality(refs)
  BY <1>0, <1>6, <1>7
<1>11. QED
  BY <1>9, <1>10, Zenon DEF HasItsReferences, PairingOf, refs

(***************************************************************************)
(* Catalogs.                                                               *)
(***************************************************************************)

UsageRow(u, c, i) ==
  [constraint |-> c.name, schema |-> u.schema, table |-> u.name, column |-> c.members[i], position |-> i, of |-> c]

LEMMA UsageRowIs ==
  ASSUME NEW u, NEW c, NEW i, NEW k, k = UsageRow(u, c, i)
  PROVE  /\ k.constraint = c.name /\ k.schema = u.schema /\ k.table = u.name
         /\ k.column = c.members[i] /\ k.position = i /\ k.of = c
BY DEF UsageRow

LEMMA UsageIs ==
  ASSUME NEW db, NEW k
  PROVE  k \in KeyColumnUsage(db) <=>
           \E u \in ToSet(db) : \E c \in Constraints(u) : \E i \in DOMAIN c.members : k = UsageRow(u, c, i)
BY DEF KeyColumnUsage, UsageRow

LEMMA DeclaredIs ==
  ASSUME NEW db, IsDeclared(db)
  PROVE  /\ IsFiniteSet(ToSet(db))
         /\ \A t \in ToSet(db) : IsDeclaredTable(t)
         /\ \A t, u \in ToSet(db) : t.schema = u.schema /\ t.name = u.name => t = u
         /\ NamesAreApart(db) => \A t, u \in ToSet(db) : t.name = u.name => t = u
<1>1. DOMAIN db = 1 .. Len(db) /\ Len(db) \in Nat
  BY DEF IsDeclared
<1>2. IsFiniteSet(ToSet(db))
  BY <1>1, IntervalIs, ImageIsFinite DEF ToSet
<1>3. QED
  BY <1>2 DEF IsDeclared, NamesAreApart, ToSet

LEMMA ConstraintsAre ==
  ASSUME NEW t, IsDeclaredTable(t)
  PROVE  /\ IsFiniteSet(Constraints(t))
         /\ t.refs \subseteq Constraints(t) /\ Keys(t, {"primary"}) \subseteq Constraints(t)
         /\ \A c \in Constraints(t) : /\ c.name \in Int /\ Len(c.members) \in Nat /\ c.members # <<>>
                                      /\ c.members \in Seq(ToSet(c.members)) /\ DOMAIN c.members = 1 .. Len(c.members)
         /\ \A c, d \in Constraints(t) : c.name = d.name => c = d
<1>1. Keys(t, {"primary", "unique"}) \in SUBSET t.keys /\ Keys(t, {"primary"}) \subseteq Keys(t, {"primary", "unique"})
  BY DEF Keys
<1>2. IsFiniteSet(Constraints(t))
  <2>1. IsFiniteSet(Keys(t, {"primary", "unique"}))
    BY <1>1, FS_Subset DEF IsDeclaredTable, HasConstraints
  <2>2. QED
    BY <2>1, FS_Union DEF Constraints, IsDeclaredTable, HasConstraints
<1>3. Constraints(t) \subseteq t.keys \cup t.refs
  BY <1>1 DEF Constraints
<1>4. \A c \in Constraints(t) : IsOver(c)
  BY <1>3 DEF IsDeclaredTable, HasConstraints
<1>5. \A c \in Constraints(t) : /\ c.name \in Int /\ Len(c.members) \in Nat /\ c.members # <<>>
                                /\ c.members \in Seq(ToSet(c.members)) /\ DOMAIN c.members = 1 .. Len(c.members)
  BY <1>4 DEF IsOver
<1>6. QED
  BY <1>1, <1>2, <1>5 DEF Constraints, IsDeclaredTable, HasConstraints

LEMMA UsageIsFinite ==
  ASSUME NEW db, IsDeclared(db)
  PROVE  IsFiniteSet(KeyColumnUsage(db))
<1> DEFINE Rows(u, c) == {[constraint |-> c.name, schema |-> u.schema, table |-> u.name,
                           column |-> c.members[i], position |-> i, of |-> c] : i \in DOMAIN c.members}
           Theirs(u) == {Rows(u, c) : c \in Constraints(u)}
           All == {UNION Theirs(u) : u \in ToSet(db)}
<1>1. KeyColumnUsage(db) = UNION All
  BY DEF KeyColumnUsage
<1>2. ASSUME NEW u \in ToSet(db)
      PROVE  IsFiniteSet(UNION Theirs(u))
  <2>1. ASSUME NEW c \in Constraints(u)
        PROVE  IsFiniteSet(Rows(u, c))
    <3>1. IsFiniteSet(DOMAIN c.members)
      BY DeclaredIs, ConstraintsAre, IntervalIs
    <3>2. PICK f : f = [i \in DOMAIN c.members |->
                          [constraint |-> c.name, schema |-> u.schema, table |-> u.name,
                           column |-> c.members[i], position |-> i, of |-> c]]
      OBVIOUS
    <3>3. IsFiniteSet({f[i] : i \in DOMAIN c.members})
      BY <3>1, ImageIsFinite, Zenon
    <3>4. Rows(u, c) = {f[i] : i \in DOMAIN c.members}
      BY <3>2
    <3>5. QED
      BY <3>3, <3>4
  <2> HIDE DEF Rows
  <2>2. IsFiniteSet(Theirs(u))
    <3>1. PICK f : f = [c \in Constraints(u) |-> Rows(u, c)]
      OBVIOUS
    <3>2. IsFiniteSet({f[c] : c \in Constraints(u)})
      <4>1. IsFiniteSet(Constraints(u))
        BY DeclaredIs, ConstraintsAre
      <4>2. QED
        BY <4>1, ImageIsFinite, Zenon
    <3>3. Theirs(u) = {f[c] : c \in Constraints(u)}
      BY <3>1
    <3>4. QED
      BY <3>2, <3>3
  <2>3. \A R \in Theirs(u) : IsFiniteSet(R)
    BY <2>1
  <2> HIDE DEF Theirs
  <2>4. QED
    BY <2>2, <2>3, FS_UNION
<1> HIDE DEF Theirs
<1>3. IsFiniteSet(All)
  <2>1. PICK f : f = [u \in ToSet(db) |-> UNION Theirs(u)]
    OBVIOUS
  <2>2. IsFiniteSet({f[u] : u \in ToSet(db)})
    <3>1. IsFiniteSet(ToSet(db))
      BY DeclaredIs
    <3>2. QED
      BY <3>1, ImageIsFinite, Zenon
  <2>3. All = {f[u] : u \in ToSet(db)}
    BY <2>1
  <2>4. QED
    BY <2>2, <2>3
<1>4. \A R \in All : IsFiniteSet(R)
  BY <1>2
<1> HIDE DEF All
<1>5. QED
  BY <1>1, <1>3, <1>4, FS_UNION

\* Constraints of one schema with one name are one.
LEMMA NamedApartIs ==
  ASSUME NEW db, IsDeclared(db), NEW schema, NamedApart(db, schema),
         NEW u \in ToSet(db), NEW v \in ToSet(db), u.schema = schema, v.schema = schema,
         NEW c \in Constraints(u), NEW d \in Constraints(v), c.name = d.name
  PROVE  u = v /\ c = d
<1> DEFINE T == {t \in ToSet(db) : t.schema = schema}
           Theirs(t) == {<<t.name, x>> : x \in Constraints(t)}
           All == {Theirs(t) : t \in T}
           all == UNION All
           names == {x[2].name : x \in all}
<1>1. Cardinality(all) = Cardinality(names)
  BY DEF NamedApart
<1>2. IsFiniteSet(all)
  <2>1. T \in SUBSET ToSet(db)
    OBVIOUS
  <2>2. IsFiniteSet(T)
    <3> HIDE DEF T
    <3>1. QED
      BY <2>1, DeclaredIs, FS_Subset
  <2>3. ASSUME NEW t \in T
        PROVE  IsFiniteSet(Theirs(t))
    <3>1. IsFiniteSet(Constraints(t))
      BY <2>1, DeclaredIs, ConstraintsAre
    <3>2. PICK f : f = [x \in Constraints(t) |-> <<t.name, x>>]
      OBVIOUS
    <3>3. IsFiniteSet({f[x] : x \in Constraints(t)})
      BY <3>1, ImageIsFinite, Zenon
    <3>4. Theirs(t) = {f[x] : x \in Constraints(t)}
      BY <3>2
    <3>5. QED
      BY <3>3, <3>4
  <2> HIDE DEF Theirs, T
  <2>4. IsFiniteSet(All)
    <3>1. PICK f : f = [t \in T |-> Theirs(t)]
      OBVIOUS
    <3>2. IsFiniteSet({f[t] : t \in T})
      BY <2>2, ImageIsFinite, Zenon
    <3>3. All = {f[t] : t \in T}
      BY <3>1
    <3>4. QED
      BY <3>2, <3>3
  <2>5. \A R \in All : IsFiniteSet(R)
    BY <2>3
  <2> HIDE DEF All
  <2>6. QED
    BY <2>4, <2>5, FS_UNION
<1>3. <<u.name, c>> \in all /\ <<v.name, d>> \in all
  OBVIOUS
<1> HIDE DEF all
<1>4. PICK f : f = [x \in all |-> x[2].name]
  OBVIOUS
<1>5. f \in Surjection(all, names)
  BY <1>4 DEF Surjection
<1> HIDE DEF names
<1>6. f \in Injection(all, names)
  BY <1>1, <1>2, <1>5, FS_SurjSameCardinalityImpliesInj
<1>7. \A x, y \in all : f[x] = f[y] => x = y
  BY <1>6 DEF Injection, IsInjective
<1>8. f[<<u.name, c>>] = f[<<v.name, d>>]
  <2>1. PICK x, y : x = <<u.name, c>> /\ y = <<v.name, d>>
    OBVIOUS
  <2>2. x[2] = c /\ y[2] = d
    BY <2>1
  <2>3. QED
    BY <1>3, <1>4, <2>1, <2>2
<1>9. <<u.name, c>> = <<v.name, d>>
  BY <1>3, <1>7, <1>8
<1>10. QED
  BY <1>9, DeclaredIs

(***************************************************************************)
(* Primary keys.                                                           *)
(***************************************************************************)

LEMMA PrimaryIs ==
  ASSUME NEW t, IsDeclaredTable(t), Keys(t, {"primary"}) # {}, NEW p, p = PrimaryOf(t)
  PROVE  /\ p \in Keys(t, {"primary"}) /\ p \in Constraints(t)
         /\ \A i, j \in 1 .. Len(p.members) : p.members[i] = p.members[j] => i = j
         /\ ToSet(p.members) \subseteq ColumnNamesOf(t)
         /\ Len(p.members) \in Nat /\ Len(p.members) # 0
         /\ p.members \in Seq(ToSet(p.members)) /\ DOMAIN p.members = 1 .. Len(p.members)
<1>1. p \in Keys(t, {"primary"})
  BY DEF PrimaryOf
<1>2. p \in t.keys /\ p.kind = "primary" /\ p \in Constraints(t)
  BY <1>1, ConstraintsAre DEF Keys
<1>3. IsKeyOf(p, t)
  BY <1>2 DEF IsDeclaredTable, HasConstraints
<1>4. /\ Len(p.members) \in Nat /\ p.members # <<>>
      /\ p.members \in Seq(ToSet(p.members)) /\ DOMAIN p.members = 1 .. Len(p.members)
  BY <1>2, ConstraintsAre
<1>5. Len(p.members) # 0
  BY <1>4
<1>6. QED
  BY <1>1, <1>2, <1>3, <1>4, <1>5 DEF IsKeyOf

\* The rows of one key in order have its members in order.
LEMMA RowsAreMembers ==
  ASSUME NEW n \in Nat, NEW m, m = [i \in 1 .. n |-> m[i]], NEW S, NEW rows, AreRowsOf(S, n, rows),
         \A i \in 1 .. n : rows[i].column = m[i],
         NEW out, IsByPosition(out, S)
  PROVE  ColumnNames(out) = m
<1>1. out = [i \in 1 .. n |-> rows[i]]
  BY KeyInOrder
<1>2. DOMAIN out = 1 .. n /\ \A i \in 1 .. n : out[i].column = m[i]
  BY <1>1
<1>3. ColumnNames(out) = [i \in 1 .. n |-> out[i].column]
  BY <1>2 DEF ColumnNames
<1>4. QED
  BY <1>2, <1>3

\* The usage of the one constraint of its name is in the order of the key.
LEMMA UsageIsKey ==
  ASSUME NEW t, IsDeclaredTable(t), Keys(t, {"primary"}) # {}, NEW S,
         NEW p, p = PrimaryOf(t),
         \A k : k \in S <=> \E i \in DOMAIN p.members : k = UsageRow(t, p, i)
  PROVE  ColumnNames(Ordered(S)) = p.members
<1> DEFINE n == Len(p.members)
           rows == [i \in 1 .. n |-> UsageRow(t, p, i)]
<1>1. n \in Nat /\ DOMAIN p.members = 1 .. n /\ p.members \in Seq(ToSet(p.members)) /\ p \in Constraints(t)
  BY PrimaryIs
<1>1a. p.name \in Int
  BY <1>1, ConstraintsAre
<1>2. \A i \in 1 .. n : rows[i].position = i /\ rows[i].column = p.members[i] /\ rows[i].constraint = p.name
  BY UsageRowIs
<1>3. S = {rows[i] : i \in 1 .. n}
  BY <1>1
<1> HIDE DEF n, rows
<1>4. IsFiniteSet(S)
  <2>1. IsFiniteSet(1 .. n)
    BY <1>1, IntervalIs
  <2>2. IsFiniteSet({rows[i] : i \in 1 .. n})
    BY <2>1, ImageIsFinite, Zenon
  <2>3. QED
    BY <1>3, <2>2
<1>5. \A row \in S : row.position \in Int /\ row.constraint \in Int /\ row.constraint = p.name
  BY <1>1, <1>1a, <1>2, <1>3
<1>6. IsInOrder(Ordered(S), S)
  BY <1>4, <1>5, OrderedIs
<1>7. IsByPosition(Ordered(S), S)
  BY <1>5, <1>6 DEF IsInOrder, IsByPosition
<1>8. AreRowsOf(S, n, rows)
  BY <1>2, <1>3 DEF AreRowsOf
<1>9. p.members = [i \in 1 .. n |-> p.members[i]]
  BY <1>1
<1>10. QED
  BY <1>1, <1>2, <1>7, <1>8, <1>9, RowsAreMembers

LEMMA InformationKeys ==
  ASSUME NEW b \in {"postgres", "mysql", "mssql"}, NEW db, IsDeclared(db), NEW t \in ToSet(db),
         TellsKeys(b, db, t), Keys(t, {"primary"}) # {}
  PROVE  PrimaryKeyOf(b, db, t) = PrimaryOf(t).members
<1> DEFINE p == PrimaryOf(t)
           K == KeyColumnUsage(db)
           P == {k \in K : k.constraint = p.name /\ k.schema = t.schema}
           M == {k \in K : k.constraint = p.name /\ k.schema = t.schema /\ k.table = t.name}
<1>1. IsDeclaredTable(t)
  BY DeclaredIs
<1>2. p \in Constraints(t)
  BY <1>1, PrimaryIs
<1> HIDE DEF p
<1>3. \A i \in DOMAIN p.members : UsageRow(t, p, i) \in K
  BY <1>2, UsageIs
<1>4. \A i \in DOMAIN p.members : UsageRow(t, p, i) \in P /\ UsageRow(t, p, i) \in M
  <2>1. \A i : /\ UsageRow(t, p, i).constraint = p.name /\ UsageRow(t, p, i).schema = t.schema
               /\ UsageRow(t, p, i).table = t.name
    BY UsageRowIs
  <2>2. QED
    BY <1>3, <2>1
<1>5. ASSUME NEW k \in M
      PROVE  \E i \in DOMAIN p.members : k = UsageRow(t, p, i)
  <2>1. PICK u \in ToSet(db) : \E c \in Constraints(u) : \E i \in DOMAIN c.members : k = UsageRow(u, c, i)
    BY UsageIs
  <2>1a. PICK c \in Constraints(u) : \E i \in DOMAIN c.members : k = UsageRow(u, c, i)
    BY <2>1
  <2>1b. PICK i \in DOMAIN c.members : k = UsageRow(u, c, i)
    BY <2>1a
  <2>2. k.schema = u.schema /\ k.table = u.name /\ k.constraint = c.name
    BY <2>1b, UsageRowIs
  <2>3. u = t
    BY <2>2, DeclaredIs
  <2>4. c = p
    BY <1>1, <1>2, <2>2, <2>3, ConstraintsAre
  <2>5. QED
    BY <2>1b, <2>3, <2>4
<1>6. ASSUME NamedApart(db, t.schema), NEW k \in P
      PROVE  \E i \in DOMAIN p.members : k = UsageRow(t, p, i)
  <2>1. PICK u \in ToSet(db) : \E c \in Constraints(u) : \E i \in DOMAIN c.members : k = UsageRow(u, c, i)
    BY UsageIs
  <2>1a. PICK c \in Constraints(u) : \E i \in DOMAIN c.members : k = UsageRow(u, c, i)
    BY <2>1
  <2>1b. PICK i \in DOMAIN c.members : k = UsageRow(u, c, i)
    BY <2>1a
  <2>2. k.schema = u.schema /\ k.constraint = c.name
    BY <2>1b, UsageRowIs
  <2>3. u = t /\ c = p
    BY <1>2, <1>6, <2>2, NamedApartIs
  <2>4. QED
    BY <2>1b, <2>3
<1> HIDE DEF M, P
<1>7. ColumnNames(Ordered(M)) = p.members
  <2>1. \A k : k \in M <=> \E i \in DOMAIN p.members : k = UsageRow(t, p, i)
    BY <1>4, <1>5
  <2>2. p = PrimaryOf(t)
    BY DEF p
  <2>3. QED
    BY <1>1, <2>1, <2>2, UsageIsKey
<1>8. b = "postgres" => ColumnNames(Ordered(P)) = p.members
  <2>1. b = "postgres" => NamedApart(db, t.schema)
    BY DEF TellsKeys
  <2>2. b = "postgres" => \A k : k \in P <=> \E i \in DOMAIN p.members : k = UsageRow(t, p, i)
    BY <1>4, <1>6, <2>1
  <2>3. p = PrimaryOf(t)
    BY DEF p
  <2>4. QED
    BY <1>1, <2>2, <2>3, UsageIsKey
<1>9. CASE b = "postgres"
  <2>1. PostgresPrimaryKey(db, t) = ColumnNames(Ordered(P))
    BY DEF PostgresPrimaryKey, P, p
  <2>2. QED
    BY <1>8, <1>9, <2>1 DEF PrimaryKeyOf, p
<1>10. CASE b = "mysql"
  <2>1. MysqlPrimaryKey(db, t) = ColumnNames(Ordered(M))
    BY DEF MysqlPrimaryKey, M, p
  <2>2. QED
    BY <1>7, <1>10, <2>1 DEF PrimaryKeyOf, p
<1>11. CASE b = "mssql"
  <2>1. MssqlPrimaryKey(db, t) = ColumnNames(Ordered(M))
    BY DEF MssqlPrimaryKey, M, p
  <2>2. QED
    BY <1>7, <1>11, <2>1 DEF PrimaryKeyOf, p
<1>12. QED
  BY <1>9, <1>10, <1>11

LEMMA SnowflakeKey ==
  ASSUME NEW t, IsDeclaredTable(t), Keys(t, {"primary"}) # {}
  PROVE  SnowflakePrimaryKey(t) = PrimaryOf(t).members
<1> DEFINE m == PrimaryOf(t).members
           n == Len(m)
           rows == [i \in 1 .. n |-> [column |-> m[i], position |-> i]]
           S == {[column |-> m[i], position |-> i] : i \in DOMAIN m}
           sorted == ByPosition(SetToSeq(S))
<1>1. n \in Nat /\ DOMAIN m = 1 .. n /\ m \in Seq(ToSet(m))
  BY PrimaryIs
<1>2. SnowflakePrimaryKey(t) = ColumnNames(sorted)
  BY DEF SnowflakePrimaryKey, ColumnNames
<1> HIDE DEF m, n
<1>3. \A i \in 1 .. n : rows[i].position = i /\ rows[i].column = m[i]
  OBVIOUS
<1>4. S = {rows[i] : i \in 1 .. n}
  BY <1>1
<1> HIDE DEF rows, S
<1>5. IsFiniteSet(S)
  <2>1. IsFiniteSet(1 .. n)
    BY <1>1, IntervalIs
  <2>2. IsFiniteSet({rows[i] : i \in 1 .. n})
    BY <2>1, ImageIsFinite, Zenon
  <2>3. QED
    BY <1>4, <2>2
<1>6. \A row \in S : row.position \in Int
  BY <1>1, <1>3, <1>4
<1>7. IsByPosition(sorted, S)
  BY <1>5, <1>6, ByPositionIs
<1>8. AreRowsOf(S, n, rows)
  BY <1>3, <1>4 DEF AreRowsOf
<1>9. m = [i \in 1 .. n |-> m[i]]
  BY <1>1
<1> HIDE DEF sorted
<1>10. ColumnNames(sorted) = m
  BY <1>1, <1>3, <1>7, <1>8, <1>9, RowsAreMembers
<1>11. QED
  BY <1>2, <1>10 DEF m

\* The place of a column in a key.
PlaceIn(m, x) == SelectInSeq(m, LAMBDA y : y = x)

LEMMA PlaceInKey ==
  ASSUME NEW m, m \in Seq(ToSet(m)), \A i, j \in 1 .. Len(m) : m[i] = m[j] => i = j, NEW x
  PROVE  /\ \A i \in 1 .. Len(m) : m[i] = x => PlaceIn(m, x) = i
         /\ (\A i \in 1 .. Len(m) : m[i] # x) => PlaceIn(m, x) = 0
<1> DEFINE I == {i \in 1 .. Len(m) : m[i] = x}
<1>1. PlaceIn(m, x) = IF I # {} THEN Min(I) ELSE 0
  BY DEF PlaceIn, SelectInSeq
<1>2. ASSUME NEW i \in 1 .. Len(m), m[i] = x
      PROVE  (IF I # {} THEN Min(I) ELSE 0) = i
  <2>1. I = {j \in 1 .. Len(m) : j = i}
    BY <1>2
  <2>2. i \in DOMAIN m
    BY <1>2
  <2> HIDE DEF I
  <2>3. QED
    BY <2>1, <2>2, FoundAt
<1>3. (\A i \in 1 .. Len(m) : m[i] # x) => I = {}
  OBVIOUS
<1> HIDE DEF I
<1>4. QED
  BY <1>1, <1>2, <1>3

LEMMA SqliteKey ==
  ASSUME NEW t, IsDeclaredTable(t)
  PROVE  SqlitePrimaryKey(t) = IF Keys(t, {"primary"}) = {} THEN None ELSE PrimaryOf(t).members
<1> DEFINE m == PrimaryOf(t).members
           n == Len(m)
           place(c) == IF Keys(t, {"primary"}) = {} THEN 0
                       ELSE PlaceIn(m, c.name)
           columns == [i \in DOMAIN t.columns |-> [column |-> t.columns[i].name, place |-> place(t.columns[i])]]
           P == {i \in DOMAIN columns : columns[i].place > 0}
           rows == Picked(columns, P)
           keys == [i \in DOMAIN rows |-> rows[i].place]
           sorted == SortedBy(rows, keys)
           N == Len(t.columns)
           X == ToSet(columns)
<1>0. SqlitePrimaryKey(t) = IF rows = <<>> THEN None ELSE [i \in DOMAIN sorted |-> sorted[i].column]
  BY DEF SqlitePrimaryKey, InKeyOrder, PlaceIn
<1>1. /\ DOMAIN t.columns = 1 .. N /\ N \in Nat
      /\ \A i, j \in 1 .. N : t.columns[i].name = t.columns[j].name => i = j
  BY DEF IsDeclaredTable, HasColumns
<1>2. /\ DOMAIN columns = 1 .. N
      /\ \A i \in 1 .. N : columns[i].column = t.columns[i].name /\ columns[i].place = place(t.columns[i])
  BY <1>1
<1>3. columns \in Seq(X) /\ Len(columns) = N
  <2>1. columns \in [1 .. N -> X]
    <3>1. columns = [i \in 1 .. N |-> columns[i]]
      BY <1>1, <1>2
    <3>2. \A i \in 1 .. N : columns[i] \in X
      BY <1>2 DEF ToSet
    <3> HIDE DEF columns, X
    <3>3. QED
      BY <3>1, <3>2
  <2> HIDE DEF columns, X
  <2>2. QED
    BY <1>1, <2>1, RowIs
<1>4. P \in SUBSET (DOMAIN columns)
  OBVIOUS
<1>4a. P = {i \in 1 .. N : place(t.columns[i]) > 0}
  BY <1>2
<1> HIDE DEF columns, X, place
<1>5. /\ rows \in Seq(X) /\ Len(rows) = Cardinality(P) /\ Cardinality(P) \in Nat
      /\ \A k \in DOMAIN rows : \E i \in P : rows[k] = columns[i]
      /\ \A i \in P : \E k \in DOMAIN rows : rows[k] = columns[i]
  <2> HIDE DEF P
  <2>1. QED
    BY <1>3, <1>4, PickedIs, PickedElements
<1> HIDE DEF rows
<1>6. CASE Keys(t, {"primary"}) = {}
  <2>1. P = {}
    BY <1>4a, <1>6 DEF place
  <2>1a. Cardinality(P) = 0
    BY <2>1, FS_EmptySet
  <2> HIDE DEF P
  <2>2. rows = <<>>
    BY <1>5, <2>1a
  <2>3. QED
    BY <1>0, <1>6, <2>2
<1>7. CASE Keys(t, {"primary"}) # {}
  <2>1. /\ \A i, j \in 1 .. n : m[i] = m[j] => i = j
        /\ ToSet(m) \subseteq ColumnNamesOf(t)
        /\ n \in Nat /\ n # 0
        /\ m \in Seq(ToSet(m)) /\ DOMAIN m = 1 .. n
    BY <1>7, PrimaryIs
  <2> HIDE DEF m
  <2>2. ASSUME NEW c
        PROVE  /\ \A i \in 1 .. n : m[i] = c.name => place(c) = i
               /\ (\A i \in 1 .. n : m[i] # c.name) => place(c) = 0
    <3>1. place(c) = PlaceIn(m, c.name)
      BY <1>7, Zenon DEF place, PlaceIn
    <3>2. PICK x : x = c.name
      OBVIOUS
    <3>3. /\ \A i \in 1 .. n : m[i] = x => PlaceIn(m, x) = i
          /\ (\A i \in 1 .. n : m[i] # x) => PlaceIn(m, x) = 0
      BY <2>1, PlaceInKey
    <3>4. QED
      BY <3>1, <3>2, <3>3
  <2> HIDE DEF n
  <2>3. \A p \in 1 .. n : \E i \in 1 .. N : t.columns[i].name = m[p]
    BY <1>1, <2>1 DEF ColumnNamesOf, ToSet
  <2>4. \A i \in P : /\ columns[i].place \in 1 .. n
                     /\ columns[i].column = m[columns[i].place]
    <3>1. ASSUME NEW i \in P
          PROVE  columns[i].place \in 1 .. n /\ columns[i].column = m[columns[i].place]
      <4>1. i \in 1 .. N /\ place(t.columns[i]) > 0
        BY <1>4a
      <4>2. PICK p \in 1 .. n : m[p] = t.columns[i].name
        BY <2>2, <4>1
      <4>3. place(t.columns[i]) = p
        BY <2>2, <4>2
      <4>4. QED
        BY <1>2, <4>1, <4>2, <4>3
    <3>2. QED
      BY <3>1
  <2>5. \A p \in 1 .. n : \E i \in P : columns[i].place = p
    <3>1. ASSUME NEW p \in 1 .. n
          PROVE  \E i \in P : columns[i].place = p
      <4>1. PICK i \in 1 .. N : t.columns[i].name = m[p]
        BY <2>3
      <4>2. place(t.columns[i]) = p
        BY <2>2, <4>1
      <4>3. QED
        BY <1>2, <1>4a, <2>1, <4>2
    <3>2. QED
      BY <3>1
  <2>6. \A i, j \in P : columns[i].place = columns[j].place => i = j
    <3>1. ASSUME NEW i \in P, NEW j \in P, columns[i].place = columns[j].place
          PROVE  i = j
      <4>1. i \in 1 .. N /\ j \in 1 .. N
        BY <1>4a
      <4>2. t.columns[i].name = t.columns[j].name
        BY <1>2, <2>4, <3>1, <4>1
      <4>3. QED
        BY <1>1, <4>1, <4>2
    <3>2. QED
      BY <3>1
  <2>7. Cardinality(P) = n
    <3> DEFINE Q == 1 .. n
               f == [i \in P |-> columns[i].place]
    <3>1. f \in [P -> Q] /\ (\A i, j \in P : f[i] = f[j] => i = j) /\ \A x \in Q : \E i \in P : f[i] = x
      BY <2>4, <2>5, <2>6
    <3>2. Cardinality(Q) = n
      BY <2>1, IntervalIs
    <3>3. IsFiniteSet(P)
      <4>1. P \in SUBSET (1 .. N)
        BY <1>4a
      <4>2. QED
        BY <1>1, <4>1, PlacesAreFinite
    <3> HIDE DEF P, Q, f
    <3>4. QED
      BY <3>1, <3>2, <3>3, SameSize
  <2> HIDE DEF P
  <2>8. Len(rows) = n /\ DOMAIN rows = 1 .. n
    BY <1>5, <2>7
  <2>9. /\ \A k \in 1 .. n : rows[k].place \in 1 .. n /\ rows[k].column = m[rows[k].place]
        /\ \A p \in 1 .. n : \E k \in 1 .. n : rows[k].place = p
    <3>1. ASSUME NEW k \in 1 .. n
          PROVE  rows[k].place \in 1 .. n /\ rows[k].column = m[rows[k].place]
      <4>1. PICK i \in P : rows[k] = columns[i]
        BY <1>5, <2>8
      <4>2. QED
        BY <2>4, <4>1
    <3>2. ASSUME NEW p \in 1 .. n
          PROVE  \E k \in 1 .. n : rows[k].place = p
      <4>1. PICK i \in P : columns[i].place = p
        BY <2>5
      <4>2. PICK k \in 1 .. n : rows[k] = columns[i]
        BY <1>5, <2>8
      <4>3. QED
        BY <4>1, <4>2
    <3>3. QED
      BY <3>1, <3>2
  <2>10. \A k \in 1 .. n : keys[k] = rows[k].place /\ keys[k] \in Int /\ keys[k] \in 1 .. n
    BY <2>8, <2>9
  <2> HIDE DEF keys
  <2>11. PICK by : Sorts(by, rows, keys) /\ sorted = [k \in 1 .. n |-> rows[by[k]]]
    <3>1. \A i \in 1 .. Len(rows) : keys[i] \in Int
      BY <2>8, <2>10
    <3>2. \E by : Sorts(by, rows, keys) /\ SortedBy(rows, keys) = [k \in 1 .. Len(rows) |-> rows[by[k]]]
      <4>1. SortsTo(SortedBy(rows, keys), rows, keys)
        BY <1>5, <3>1, SortedByIs
      <4>2. QED
        BY <4>1 DEF SortsTo
    <3>3. QED
      BY <2>8, <3>2
  <2>12. /\ by \in [1 .. n -> 1 .. n]
         /\ \A j \in 1 .. n : \E k \in 1 .. n : by[k] = j
         /\ \A k, l \in 1 .. n : k < l =>
              keys[by[k]] < keys[by[l]] \/ (keys[by[k]] = keys[by[l]] /\ by[k] < by[l])
    BY <2>8, <2>11 DEF Sorts
  <2>13. \A i, j \in 1 .. n : keys[i] = keys[j] => i = j
    <3> DEFINE Q == 1 .. n
               f == [k \in Q |-> keys[k]]
    <3>1. f \in Surjection(Q, Q)
      <4>1. f \in [Q -> Q] /\ \A k \in Q : f[k] = keys[k]
        BY <2>10
      <4>2. \A p \in Q : \E k \in Q : keys[k] = p
        BY <2>9, <2>10
      <4> HIDE DEF f, Q
      <4>3. QED
        BY <4>1, <4>2 DEF Surjection
    <3>2. IsFiniteSet(Q)
      BY <2>1, IntervalIs
    <3>3. f \in Injection(Q, Q)
      <4> HIDE DEF Q, f
      <4>1. QED
        BY <3>1, <3>2, FS_SurjSameCardinalityImpliesInj
    <3>4. \A i, j \in Q : f[i] = f[j] => i = j
      <4> HIDE DEF Q, f
      <4>1. QED
        BY <3>3 DEF Injection, IsInjective
    <3>5. QED
      BY <3>4
  <2> DEFINE e == [k \in 1 .. n |-> keys[by[k]]]
  <2>14. e \in [1 .. n -> 1 .. n] /\ \A k \in 1 .. n : e[k] = keys[by[k]]
    BY <2>10, <2>12
  <2>15. \A p \in 1 .. n : \E k \in 1 .. n : e[k] = p
    <3>1. ASSUME NEW p \in 1 .. n
          PROVE  \E k \in 1 .. n : e[k] = p
      <4>1. PICK j \in 1 .. n : keys[j] = p
        BY <2>9, <2>10
      <4>2. PICK k \in 1 .. n : by[k] = j
        BY <2>12
      <4>3. QED
        BY <4>1, <4>2
    <3>2. QED
      BY <3>1
  <2>16. \A k, l \in 1 .. n : k < l => e[k] < e[l]
    <3>1. ASSUME NEW k \in 1 .. n, NEW l \in 1 .. n, k < l
          PROVE  e[k] < e[l]
      <4>1. PICK i \in 1 .. n, j \in 1 .. n : i = by[k] /\ j = by[l]
        BY <2>12
      <4>2. keys[i] < keys[j] \/ (keys[i] = keys[j] /\ i < j)
        BY <2>12, <3>1, <4>1
      <4>3. keys[i] = keys[j] => i = j
        BY <2>13
      <4>4. keys[i] < keys[j]
        BY <4>2, <4>3
      <4>5. QED
        BY <2>14, <4>1, <4>4
    <3>2. QED
      BY <3>1
  <2> HIDE DEF e
  <2>17. \A k \in 1 .. n : e[k] = k
    BY <2>1, <2>14, <2>15, <2>16, RisesInPlace, ZenonT(60)
  <2>18. \A k \in 1 .. n : sorted[k].column = m[k]
    <3>1. ASSUME NEW k \in 1 .. n
          PROVE  sorted[k].column = m[k]
      <4>1. PICK i \in 1 .. n : i = by[k]
        BY <2>12
      <4>2. sorted[k] = rows[i]
        BY <2>11, <4>1
      <4>3. rows[i].place = k
        BY <2>10, <2>14, <2>17, <4>1
      <4>4. QED
        BY <2>9, <4>2, <4>3
    <3>2. QED
      BY <3>1
  <2>19. DOMAIN sorted = 1 .. n
    BY <2>11
  <2> HIDE DEF sorted
  <2>20. [k \in DOMAIN sorted |-> sorted[k].column] = m
    <3>1. m = [k \in 1 .. n |-> m[k]]
      BY <2>1 DEF n
    <3>2. [k \in DOMAIN sorted |-> sorted[k].column] = [k \in 1 .. n |-> m[k]]
      BY <2>18, <2>19
    <3>3. QED
      BY <3>1, <3>2
  <2>21. rows # <<>>
    BY <1>5, <2>1, <2>8
  <2>22. QED
    BY <1>0, <1>7, <2>20, <2>21 DEF m
<1>8. QED
  BY <1>6, <1>7

\* The primary key comes back in the order of the key.
LEMMA KeysAreTold ==
  ASSUME NEW b \in AllBackends, NEW db, IsDeclared(db), NEW t \in ToSet(db), TellsKeys(b, db, t),
         NEW read, read.primaryKey = PrimaryKeyOf(b, db, t)
  PROVE  HasItsKey(read, t)
<1>1. IsDeclaredTable(t)
  BY DeclaredIs
<1>2. b # "bigquery"
  BY DEF TellsKeys
<1>3. CASE Keys(t, {"primary"}) = {}
  <2>1. SqlitePrimaryKey(t) = None
    BY <1>1, <1>3, SqliteKey
  <2>2. PrimaryKeyOf(b, db, t) = None
    BY <1>2, <1>3, <2>1 DEF PrimaryKeyOf, PostgresPrimaryKey, MysqlPrimaryKey, MssqlPrimaryKey, DuckdbPrimaryKey,
       SnowflakePrimaryKey, AllBackends
  <2>3. QED
    BY <1>3, <2>2 DEF HasItsKey
<1>4. CASE Keys(t, {"primary"}) # {}
  <2>1. CASE b \in {"postgres", "mysql", "mssql"}
    BY <1>4, <2>1, InformationKeys DEF HasItsKey
  <2>2. CASE b = "sqlite"
    BY <1>1, <1>4, <2>2, SqliteKey DEF HasItsKey, PrimaryKeyOf
  <2>3. CASE b = "duckdb"
    BY <1>4, <2>3 DEF HasItsKey, PrimaryKeyOf, DuckdbPrimaryKey
  <2>4. CASE b = "snowflake"
    BY <1>1, <1>4, <2>4, SnowflakeKey DEF HasItsKey, PrimaryKeyOf
  <2>5. QED
    BY <1>2, <2>1, <2>2, <2>3, <2>4 DEF AllBackends
<1>5. QED
  BY <1>3, <1>4

(***************************************************************************)
(* References.                                                             *)
(***************************************************************************)

LEMMA RowsComeBack ==
  ASSUME NEW t, IsDeclaredTable(t), NEW X, NEW rows \in Seq(X), NEW S, S = ToSet(rows),
         RowsOfReferences(S, t.refs), NEW read, SameButNames(read.foreignKeys, Gathered(rows))
  PROVE  HasItsReferences(read, t)
<1>1. \A row \in S : row.constraint \in Int
  <2>1. \A r \in t.refs : r.name \in Int
    BY ConstraintsAre
  <2>2. QED
    BY <2>1 DEF RowsOfReferences
<1>2. PICK C : C = {row.constraint : row \in S}
  OBVIOUS
<1>3. PICK fks : fks = Gathered(rows)
  OBVIOUS
<1>4. GathersAll(fks, C, S)
  BY <1>1, <1>2, <1>3, GatheredIs
<1>5. SameButNames(read.foreignKeys, fks)
  BY <1>3
<1>6. HasConstraints(t)
  BY DEF IsDeclaredTable
<1>7. QED
  BY <1>2, <1>4, <1>5, <1>6, ReferencesComeBack

\* A row of each column of each reference, and nothing else.
ListsRows(S, refs, row) ==
  /\ \A x : x \in S <=> \E r \in refs : \E i \in DOMAIN r.members : x = row[r][i]
  /\ \A r \in refs : \A i \in DOMAIN r.members :
       /\ row[r][i].constraint = r.name /\ row[r][i].table = r.table /\ row[r][i].position = i
       /\ row[r][i].column = r.members[i] /\ row[r][i].to = r.to[i]

LEMMA ListedRows ==
  ASSUME NEW t, IsDeclaredTable(t), NEW S, NEW row, ListsRows(S, t.refs, row)
  PROVE  /\ IsFiniteSet(S) /\ RowsOfReferences(S, t.refs)
         /\ \A x \in S : x.position \in Int /\ x.constraint \in Int
<1> DEFINE refs == t.refs
           Theirs(r) == {row[r][i] : i \in DOMAIN r.members}
           All == {Theirs(r) : r \in refs}
<1>1. /\ \A r \in refs : r.name \in Int /\ DOMAIN r.members = 1 .. Len(r.members) /\ Len(r.members) \in Nat
      /\ IsFiniteSet(refs)
  BY ConstraintsAre DEF IsDeclaredTable, HasConstraints
<1>2. /\ \A x : x \in S <=> \E r \in refs : \E i \in DOMAIN r.members : x = row[r][i]
      /\ \A r \in refs : \A i \in DOMAIN r.members :
           /\ row[r][i].constraint = r.name /\ row[r][i].table = r.table /\ row[r][i].position = i
           /\ row[r][i].column = r.members[i] /\ row[r][i].to = r.to[i]
  BY DEF ListsRows
<1> HIDE DEF refs
<1>3. S = UNION All
  BY <1>2
<1>4. ASSUME NEW r \in refs
      PROVE  IsFiniteSet(Theirs(r))
  <2>1. IsFiniteSet(DOMAIN r.members)
    BY <1>1, IntervalIs
  <2>2. PICK f : f = [i \in DOMAIN r.members |-> row[r][i]]
    OBVIOUS
  <2>3. IsFiniteSet({f[i] : i \in DOMAIN r.members})
    BY <2>1, ImageIsFinite, Zenon
  <2>4. Theirs(r) = {f[i] : i \in DOMAIN r.members}
    BY <2>2
  <2>5. QED
    BY <2>3, <2>4
<1> HIDE DEF Theirs
<1>5. IsFiniteSet(All)
  <2>1. PICK f : f = [r \in refs |-> Theirs(r)]
    OBVIOUS
  <2>2. IsFiniteSet({f[r] : r \in refs})
    BY <1>1, ImageIsFinite, Zenon
  <2>3. All = {f[r] : r \in refs}
    BY <2>1
  <2>4. QED
    BY <2>2, <2>3
<1>6. \A R \in All : IsFiniteSet(R)
  BY <1>4
<1> HIDE DEF All
<1>7. IsFiniteSet(S)
  BY <1>3, <1>5, <1>6, FS_UNION
<1>8. \A x \in S : x.position \in Int /\ x.constraint \in Int
  BY <1>1, <1>2
<1>9. RowsOfReferences(S, refs)
  <2>1. \A x \in S : \E r \in refs : \E i \in DOMAIN r.members :
          /\ x.constraint = r.name /\ x.table = r.table
          /\ x.column = r.members[i] /\ x.to = r.to[i]
    BY <1>2
  <2>2. ASSUME NEW r \in refs, NEW i \in DOMAIN r.members
        PROVE  \E x \in S : /\ x.constraint = r.name /\ x.table = r.table
                            /\ x.column = r.members[i] /\ x.to = r.to[i]
    <3>1. row[r][i] \in S
      BY <1>2
    <3>2. QED
      BY <1>2, <3>1
  <2>3. QED
    BY <2>1, <2>2 DEF RowsOfReferences
<1>10. QED
  BY <1>7, <1>8, <1>9 DEF refs

\* Such rows in order come back.
LEMMA OrderedRowsComeBack ==
  ASSUME NEW t, IsDeclaredTable(t), NEW S, NEW row, ListsRows(S, t.refs, row),
         NEW read, read.foreignKeys = Gathered(Ordered(S))
  PROVE  HasItsReferences(read, t)
<1>1. /\ IsFiniteSet(S) /\ RowsOfReferences(S, t.refs)
      /\ \A x \in S : x.position \in Int /\ x.constraint \in Int
  BY ListedRows
<1>2. PICK rows : rows = Ordered(S)
  OBVIOUS
<1>3. /\ rows \in [1 .. Cardinality(S) -> S]
      /\ \A x \in S : \E k \in 1 .. Cardinality(S) : rows[k] = x
  BY <1>1, <1>2, OrderedIs DEF IsInOrder
<1>4. Cardinality(S) \in Nat
  BY <1>1, FS_CardinalityType
<1>5. rows \in Seq(S) /\ S = ToSet(rows)
  BY <1>3, <1>4, RowIs DEF ToSet
<1>6. SameButNames(read.foreignKeys, Gathered(rows))
  BY <1>2 DEF SameButNames
<1>7. QED
  BY <1>1, <1>5, <1>6, RowsComeBack

LEMMA MysqlReferences ==
  ASSUME NEW db, IsDeclared(db), NEW t \in ToSet(db), NEW read, read.foreignKeys = MysqlForeignKeys(db, t)
  PROVE  HasItsReferences(read, t)
<1> DEFINE K == KeyColumnUsage(db)
           L == {k \in K : k.schema = t.schema /\ k.table = t.name /\ k.of \in t.refs}
           Row(k) == [constraint |-> k.constraint, position |-> k.position, column |-> k.column,
                      table |-> k.of.table, to |-> k.of.to[k.position]]
           S == {Row(k) : k \in L}
           row == [r \in t.refs |-> [i \in DOMAIN r.members |-> Row(UsageRow(t, r, i))]]
<1>1. IsDeclaredTable(t) /\ t.refs \subseteq Constraints(t)
  BY DeclaredIs, ConstraintsAre
<1>2. read.foreignKeys = Gathered(Ordered(S))
  BY DEF MysqlForeignKeys
<1>3. ASSUME NEW k \in L
      PROVE  \E r \in t.refs : \E i \in DOMAIN r.members : k = UsageRow(t, r, i)
  <2>1. PICK u \in ToSet(db) : \E c \in Constraints(u) : \E i \in DOMAIN c.members : k = UsageRow(u, c, i)
    BY UsageIs
  <2>2. PICK c \in Constraints(u) : \E i \in DOMAIN c.members : k = UsageRow(u, c, i)
    BY <2>1
  <2>3. PICK i \in DOMAIN c.members : k = UsageRow(u, c, i)
    BY <2>2
  <2>4. k.schema = u.schema /\ k.table = u.name /\ k.of = c
    BY <2>3, UsageRowIs
  <2>5. u = t /\ c \in t.refs
    BY <2>4, DeclaredIs
  <2>6. QED
    BY <2>3, <2>5
<1>4. ASSUME NEW r \in t.refs, NEW i \in DOMAIN r.members
      PROVE  UsageRow(t, r, i) \in L
  <2>1. PICK k : k = UsageRow(t, r, i)
    OBVIOUS
  <2>2. k \in K
    BY <1>1, <2>1, UsageIs
  <2>3. k.schema = t.schema /\ k.table = t.name /\ k.of = r
    BY <2>1, UsageRowIs
  <2>4. QED
    BY <2>1, <2>2, <2>3
<1>5. ASSUME NEW r \in t.refs, NEW i \in DOMAIN r.members
      PROVE  /\ row[r][i] = Row(UsageRow(t, r, i))
             /\ row[r][i].constraint = r.name /\ row[r][i].table = r.table /\ row[r][i].position = i
             /\ row[r][i].column = r.members[i] /\ row[r][i].to = r.to[i]
  <2>1. row[r][i] = Row(UsageRow(t, r, i))
    <3> HIDE DEF Row
    <3>1. QED
      OBVIOUS
  <2>2. PICK k : k = UsageRow(t, r, i)
    OBVIOUS
  <2>3. k.constraint = r.name /\ k.column = r.members[i] /\ k.position = i /\ k.of = r
    BY <2>2, UsageRowIs
  <2>4. PICK x : x = Row(k)
    OBVIOUS
  <2>5. x.constraint = r.name /\ x.table = r.table /\ x.position = i /\ x.column = r.members[i] /\ x.to = r.to[i]
    BY <2>3, <2>4
  <2>6. x = row[r][i]
    BY <2>1, <2>2, <2>4
  <2> HIDE DEF row, Row
  <2>7. QED
    BY <2>1, <2>5, <2>6
<1> HIDE DEF L, Row, row
<1>6. ListsRows(S, t.refs, row)
  <2>1. ASSUME NEW x
        PROVE  x \in S <=> \E r \in t.refs : \E i \in DOMAIN r.members : x = row[r][i]
    <3>1. x \in S <=> \E k \in L : x = Row(k)
      OBVIOUS
    <3> HIDE DEF S
    <3>2. QED
      BY <1>3, <1>4, <1>5, <3>1
  <2>2. QED
    BY <1>5, <2>1 DEF ListsRows
<1> HIDE DEF S
<1>7. QED
  BY <1>1, <1>2, <1>6, OrderedRowsComeBack

LEMMA MssqlReferences ==
  ASSUME NEW db, IsDeclared(db), NEW t \in ToSet(db), TellsReferences("mssql", db, t),
         NEW read, read.foreignKeys = MssqlForeignKeys(db, t)
  PROVE  HasItsReferences(read, t)
<1> DEFINE K == KeyColumnUsage(db)
           L == {k \in K : k.schema = t.schema /\ k.table = t.name /\ k.of \in t.refs}
           Met(k) == {r \in K : /\ r.constraint = k.of.key /\ r.schema = k.of.schema
                                /\ r.position = k.position}
           Row(k, r) == [constraint |-> k.constraint, position |-> k.position, column |-> k.column,
                         table |-> r.table, to |-> r.column]
           S == UNION {{Row(k, r) : r \in Met(k)} : k \in L}
           Told(r, i) == [constraint |-> r.name, position |-> i, column |-> r.members[i],
                          table |-> r.table, to |-> r.to[i]]
           row == [r \in t.refs |-> [i \in DOMAIN r.members |-> Told(r, i)]]
<1>1. IsDeclaredTable(t) /\ t.refs \subseteq Constraints(t)
  BY DeclaredIs, ConstraintsAre
<1>2. read.foreignKeys = Gathered(Ordered(S))
  BY DEF MssqlForeignKeys
<1>3. ASSUME NEW k \in L
      PROVE  \E r \in t.refs : \E i \in DOMAIN r.members : k = UsageRow(t, r, i)
  <2>1. PICK u \in ToSet(db) : \E c \in Constraints(u) : \E i \in DOMAIN c.members : k = UsageRow(u, c, i)
    BY UsageIs
  <2>2. PICK c \in Constraints(u) : \E i \in DOMAIN c.members : k = UsageRow(u, c, i)
    BY <2>1
  <2>3. PICK i \in DOMAIN c.members : k = UsageRow(u, c, i)
    BY <2>2
  <2>4. k.schema = u.schema /\ k.table = u.name /\ k.of = c
    BY <2>3, UsageRowIs
  <2>5. u = t /\ c \in t.refs
    BY <2>4, DeclaredIs
  <2>6. QED
    BY <2>3, <2>5
<1>4. ASSUME NEW r \in t.refs, NEW i \in DOMAIN r.members
      PROVE  UsageRow(t, r, i) \in L
  <2>1. PICK k : k = UsageRow(t, r, i)
    OBVIOUS
  <2>2. k \in K
    BY <1>1, <2>1, UsageIs
  <2>3. k.schema = t.schema /\ k.table = t.name /\ k.of = r
    BY <2>1, UsageRowIs
  <2>4. QED
    BY <2>1, <2>2, <2>3
\* What meets the column of a reference is the column of its key.
<1>5. ASSUME NEW r \in t.refs, NEW i \in DOMAIN r.members, NEW k, k = UsageRow(t, r, i)
      PROVE  /\ \E m : m \in Met(k)
             /\ \A m \in Met(k) : m.table = r.table /\ m.column = r.to[i]
  <2>1. NamedApart(db, r.schema) /\ MeetsItsKey(db, r)
    BY DEF TellsReferences
  <2>2. PICK u \in ToSet(db) : /\ u.schema = r.schema /\ u.name = r.table
                               /\ \E x \in Keys(u, {"primary", "unique"}) : x.name = r.key /\ x.members = r.to
    BY <2>1 DEF MeetsItsKey
  <2>3. PICK x \in Keys(u, {"primary", "unique"}) : x.name = r.key /\ x.members = r.to
    BY <2>2
  <2>4. x \in Constraints(u)
    BY DEF Constraints
  <2>5. i \in DOMAIN x.members
    <3>1. Len(r.to) = Len(r.members) /\ r.to \in Seq(ToSet(r.to))
      BY <1>1 DEF IsDeclaredTable, HasConstraints, IsReferenceOf
    <3>2. DOMAIN r.members = 1 .. Len(r.members)
      BY <1>1, ConstraintsAre
    <3>3. QED
      BY <2>3, <3>1, <3>2
  <2>6. k.of = r /\ k.position = i
    BY <1>5, UsageRowIs
  <2>7. UsageRow(u, x, i) \in Met(k)
    <3>1. PICK m : m = UsageRow(u, x, i)
      OBVIOUS
    <3>2. m \in K
      BY <2>4, <2>5, <3>1, UsageIs
    <3>3. m.constraint = r.key /\ m.schema = r.schema /\ m.position = i
      BY <2>2, <2>3, <3>1, UsageRowIs
    <3>4. QED
      BY <2>6, <3>1, <3>2, <3>3
  <2>8. ASSUME NEW m \in Met(k)
        PROVE  m.table = r.table /\ m.column = r.to[i]
    <3>1. PICK v \in ToSet(db) : \E c \in Constraints(v) : \E j \in DOMAIN c.members : m = UsageRow(v, c, j)
      BY UsageIs
    <3>2. PICK c \in Constraints(v) : \E j \in DOMAIN c.members : m = UsageRow(v, c, j)
      BY <3>1
    <3>3. PICK j \in DOMAIN c.members : m = UsageRow(v, c, j)
      BY <3>2
    <3>4. /\ m.constraint = c.name /\ m.schema = v.schema /\ m.table = v.name
          /\ m.column = c.members[j] /\ m.position = j
      BY <3>3, UsageRowIs
    <3>5. c.name = x.name /\ v.schema = r.schema /\ j = i
      BY <2>3, <2>6, <3>4
    <3>6. u = v /\ x = c
      BY <2>1, <2>2, <2>4, <3>5, NamedApartIs
    <3>7. QED
      BY <2>2, <2>3, <3>4, <3>5, <3>6
  <2>9. QED
    BY <2>7, <2>8
<1>6. ASSUME NEW r \in t.refs, NEW i \in DOMAIN r.members, NEW k, k = UsageRow(t, r, i), NEW m \in Met(k)
      PROVE  Row(k, m) = Told(r, i)
  <2>1. k.constraint = r.name /\ k.column = r.members[i] /\ k.position = i
    BY <1>6, UsageRowIs
  <2>2. m.table = r.table /\ m.column = r.to[i]
    BY <1>5, <1>6
  <2>3. QED
    BY <2>1, <2>2
<1>7. ASSUME NEW r \in t.refs, NEW i \in DOMAIN r.members
      PROVE  /\ row[r][i] = Told(r, i)
             /\ row[r][i].constraint = r.name /\ row[r][i].table = r.table /\ row[r][i].position = i
             /\ row[r][i].column = r.members[i] /\ row[r][i].to = r.to[i]
  <2>1. row[r][i] = Told(r, i)
    OBVIOUS
  <2>2. PICK x : x = Told(r, i)
    OBVIOUS
  <2>3. x.constraint = r.name /\ x.table = r.table /\ x.position = i /\ x.column = r.members[i] /\ x.to = r.to[i]
    BY <2>2
  <2>4. x = row[r][i]
    BY <2>1, <2>2
  <2> HIDE DEF row, Told
  <2>5. QED
    BY <2>1, <2>3, <2>4
<1> HIDE DEF L, Row, row, Told, Met
<1>8. \A x : x \in S <=> \E k \in L : \E m \in Met(k) : x = Row(k, m)
  OBVIOUS
<1> HIDE DEF S
<1>9. ListsRows(S, t.refs, row)
  <2>1. ASSUME NEW x \in S
        PROVE  \E r \in t.refs : \E i \in DOMAIN r.members : x = row[r][i]
    <3>1. PICK k \in L : \E m \in Met(k) : x = Row(k, m)
      BY <1>8
    <3>2. PICK m \in Met(k) : x = Row(k, m)
      BY <3>1
    <3>3. PICK r \in t.refs : \E i \in DOMAIN r.members : k = UsageRow(t, r, i)
      BY <1>3
    <3>4. PICK i \in DOMAIN r.members : k = UsageRow(t, r, i)
      BY <3>3
    <3>5. x = Told(r, i)
      BY <1>6, <3>2, <3>4
    <3>6. QED
      BY <1>7, <3>5
  <2>2. ASSUME NEW r \in t.refs, NEW i \in DOMAIN r.members
        PROVE  row[r][i] \in S
    <3>1. PICK k : k = UsageRow(t, r, i)
      OBVIOUS
    <3>2. k \in L
      BY <1>4, <3>1
    <3>3. PICK m : m \in Met(k)
      BY <1>5, <3>1
    <3>4. Row(k, m) = row[r][i]
      BY <1>6, <1>7, <3>1, <3>3
    <3>5. QED
      BY <1>8, <3>2, <3>3, <3>4
  <2>3. QED
    BY <1>7, <2>1, <2>2 DEF ListsRows
<1>10. QED
  BY <1>1, <1>2, <1>9, OrderedRowsComeBack

\* What constraints depend on.
LEMMA DependsIs ==
  ASSUME NEW db, NEW u \in ConstraintColumnUsage(db)
  PROVE  \E w \in ToSet(db) : \E d \in Constraints(w) :
           /\ u.constraint = d.name
           /\ d \in w.refs => u.schema = d.schema /\ u.table = d.table /\ u.column \in ToSet(d.to)
           /\ d \notin w.refs => u.schema = w.schema
<1> DEFINE Theirs(w, d) ==
             IF d \in w.refs
               THEN {[constraint |-> d.name, schema |-> d.schema, table |-> d.table, column |-> x] : x \in ToSet(d.to)}
               ELSE {[constraint |-> d.name, schema |-> w.schema, table |-> w.name, column |-> x] :
                       x \in ToSet(d.members)}
<1>1. ConstraintColumnUsage(db) = UNION {UNION {Theirs(w, d) : d \in Constraints(w)} : w \in ToSet(db)}
  BY DEF ConstraintColumnUsage
<1> HIDE DEF Theirs
<1>2. PICK w \in ToSet(db) : \E d \in Constraints(w) : u \in Theirs(w, d)
  BY <1>1
<1>3. PICK d \in Constraints(w) : u \in Theirs(w, d)
  BY <1>2
<1>4. CASE d \in w.refs
  BY <1>3, <1>4 DEF Theirs
<1>5. CASE d \notin w.refs
  BY <1>3, <1>5 DEF Theirs
<1>6. QED
  BY <1>4, <1>5

LEMMA DependsOn ==
  ASSUME NEW db, NEW t \in ToSet(db), t.refs \subseteq Constraints(t), NEW r \in t.refs, NEW x \in ToSet(r.to)
  PROVE  [constraint |-> r.name, schema |-> r.schema, table |-> r.table, column |-> x] \in ConstraintColumnUsage(db)
<1> DEFINE Theirs(w, d) ==
             IF d \in w.refs
               THEN {[constraint |-> d.name, schema |-> d.schema, table |-> d.table, column |-> y] : y \in ToSet(d.to)}
               ELSE {[constraint |-> d.name, schema |-> w.schema, table |-> w.name, column |-> y] :
                       y \in ToSet(d.members)}
<1>1. ConstraintColumnUsage(db) = UNION {UNION {Theirs(w, d) : d \in Constraints(w)} : w \in ToSet(db)}
  BY DEF ConstraintColumnUsage
<1>2. [constraint |-> r.name, schema |-> r.schema, table |-> r.table, column |-> x] \in Theirs(t, r)
  OBVIOUS
<1> HIDE DEF Theirs
<1>3. QED
  BY <1>1, <1>2

LEMMA PostgresReferences ==
  ASSUME NEW db, IsDeclared(db), NEW t \in ToSet(db), TellsReferences("postgres", db, t),
         NEW read, read.foreignKeys = PostgresForeignKeys(db, t)
  PROVE  HasItsReferences(read, t)
<1> DEFINE K == KeyColumnUsage(db)
           D == ConstraintColumnUsage(db)
           L == {k \in K : k.schema = t.schema /\ k.constraint \in {c.name : c \in t.refs}}
           Met(k) == {u \in D : u.constraint = k.constraint /\ u.schema = t.schema}
           Row(k, u) == [constraint |-> k.constraint, position |-> k.position, column |-> k.column,
                         table |-> u.table, to |-> u.column, from |-> k]
           S == UNION {{Row(k, u) : u \in Met(k)} : k \in L}
           Told(r, i) == [constraint |-> r.name, position |-> i, column |-> r.members[i],
                          table |-> r.table, to |-> r.to[i], from |-> UsageRow(t, r, i)]
           row == [r \in t.refs |-> [i \in DOMAIN r.members |-> Told(r, i)]]
<1>1. IsDeclaredTable(t) /\ t.refs \subseteq Constraints(t)
  BY DeclaredIs, ConstraintsAre
<1>2. read.foreignKeys = Gathered(Ordered(S))
  BY DEF PostgresForeignKeys
<1>3. /\ NamedApart(db, t.schema)
      /\ \A r \in t.refs : Len(r.members) = 1 /\ r.schema = t.schema /\ ~NamedAbroad(db, r)
  BY DEF TellsReferences
<1>4. ASSUME NEW r \in t.refs
      PROVE  /\ DOMAIN r.members = {1}
             /\ r.to[1] \in ToSet(r.to) /\ \A x \in ToSet(r.to) : x = r.to[1]
  <2>1. Len(r.to) = 1 /\ r.to \in Seq(ToSet(r.to))
    BY <1>1, <1>3 DEF IsDeclaredTable, HasConstraints, IsReferenceOf
  <2>2. DOMAIN r.members = 1 .. 1
    BY <1>1, <1>3, ConstraintsAre
  <2>3. DOMAIN r.to = {1}
    BY <2>1
  <2>4. QED
    BY <2>2, <2>3 DEF ToSet
<1>5. ASSUME NEW k \in L
      PROVE  \E r \in t.refs : k = UsageRow(t, r, 1)
  <2>1. PICK u \in ToSet(db) : \E c \in Constraints(u) : \E i \in DOMAIN c.members : k = UsageRow(u, c, i)
    BY UsageIs
  <2>2. PICK c \in Constraints(u) : \E i \in DOMAIN c.members : k = UsageRow(u, c, i)
    BY <2>1
  <2>3. PICK i \in DOMAIN c.members : k = UsageRow(u, c, i)
    BY <2>2
  <2>4. k.schema = u.schema /\ k.constraint = c.name
    BY <2>3, UsageRowIs
  <2>5. PICK r \in t.refs : r.name = c.name
    BY <2>4
  <2>6. t = u /\ r = c
    BY <1>1, <1>3, <2>4, <2>5, NamedApartIs
  <2>7. i = 1
    BY <1>4, <2>6
  <2>8. QED
    BY <2>3, <2>6, <2>7
<1>6. ASSUME NEW r \in t.refs
      PROVE  UsageRow(t, r, 1) \in L
  <2>1. PICK k : k = UsageRow(t, r, 1)
    OBVIOUS
  <2>2. k \in K
    BY <1>1, <1>4, <2>1, UsageIs
  <2>3. k.schema = t.schema /\ k.constraint = r.name
    BY <2>1, UsageRowIs
  <2>4. QED
    BY <2>1, <2>2, <2>3
\* No other constraint answers to the name of a reference.
<1>7. ASSUME NEW r \in t.refs, NEW k, k = UsageRow(t, r, 1)
      PROVE  /\ \E m : m \in Met(k)
             /\ \A m \in Met(k) : m.table = r.table /\ m.column = r.to[1]
  <2>1. k.constraint = r.name
    BY <1>7, UsageRowIs
  <2>2. \E m : m \in Met(k)
    <3>1. PICK m : m = [constraint |-> r.name, schema |-> r.schema, table |-> r.table, column |-> r.to[1]]
      OBVIOUS
    <3>2. m \in D
      BY <1>1, <1>4, <3>1, DependsOn
    <3>3. m.constraint = r.name /\ m.schema = t.schema
      BY <1>3, <3>1
    <3>4. QED
      BY <2>1, <3>2, <3>3
  <2>3. ASSUME NEW m \in Met(k)
        PROVE  m.table = r.table /\ m.column = r.to[1]
    <3>1. m \in D /\ m.constraint = r.name /\ m.schema = t.schema
      BY <2>1
    <3>2. PICK w \in ToSet(db) : \E d \in Constraints(w) :
            /\ m.constraint = d.name
            /\ d \in w.refs => m.schema = d.schema /\ m.table = d.table /\ m.column \in ToSet(d.to)
            /\ d \notin w.refs => m.schema = w.schema
      BY <3>1, DependsIs
    <3>3. PICK d \in Constraints(w) :
            /\ m.constraint = d.name
            /\ d \in w.refs => m.schema = d.schema /\ m.table = d.table /\ m.column \in ToSet(d.to)
            /\ d \notin w.refs => m.schema = w.schema
      BY <3>2
    <3>4. w.schema = t.schema
      <4>1. CASE d \in w.refs
        <5>1. d.schema = t.schema /\ d.name = r.name
          BY <3>1, <3>3, <4>1
        <5>2. d.schema = r.schema
          BY <1>3, <5>1
        <5>3. ~NamedAbroad(db, r)
          BY <1>3
        <5>4. w.schema = r.schema
          BY <4>1, <5>1, <5>2, <5>3 DEF NamedAbroad
        <5>5. QED
          BY <1>3, <5>4
      <4>2. CASE d \notin w.refs
        BY <3>1, <3>3, <4>2
      <4>3. QED
        BY <4>1, <4>2
    <3>5. t = w /\ r = d
      <4>1. r \in Constraints(t) /\ d \in Constraints(w) /\ r.name = d.name
        BY <1>1, <3>1, <3>3
      <4>2. NamedApart(db, t.schema) /\ t.schema = t.schema /\ w.schema = t.schema
        BY <1>3, <3>4
      <4>3. QED
        BY <4>1, <4>2, NamedApartIs
    <3>6. QED
      BY <1>4, <3>3, <3>5
  <2>4. QED
    BY <2>2, <2>3
<1>8. ASSUME NEW r \in t.refs, NEW k, k = UsageRow(t, r, 1), NEW m \in Met(k)
      PROVE  Row(k, m) = Told(r, 1)
  <2>1. k.constraint = r.name /\ k.column = r.members[1] /\ k.position = 1
    BY <1>8, UsageRowIs
  <2>2. m.table = r.table /\ m.column = r.to[1]
    BY <1>7, <1>8
  <2>3. QED
    BY <1>8, <2>1, <2>2
<1>9. ASSUME NEW r \in t.refs, NEW i \in DOMAIN r.members
      PROVE  /\ row[r][i] = Told(r, i)
             /\ row[r][i].constraint = r.name /\ row[r][i].table = r.table /\ row[r][i].position = i
             /\ row[r][i].column = r.members[i] /\ row[r][i].to = r.to[i]
  <2>1. row[r][i] = Told(r, i)
    OBVIOUS
  <2>2. PICK x : x = Told(r, i)
    OBVIOUS
  <2>3. x.constraint = r.name /\ x.table = r.table /\ x.position = i /\ x.column = r.members[i] /\ x.to = r.to[i]
    BY <2>2
  <2>4. x = row[r][i]
    BY <2>1, <2>2
  <2> HIDE DEF row, Told
  <2>5. QED
    BY <2>1, <2>3, <2>4
<1> HIDE DEF L, Row, row, Told, Met
<1>10. \A x : x \in S <=> \E k \in L : \E m \in Met(k) : x = Row(k, m)
  OBVIOUS
<1> HIDE DEF S
<1>11. ListsRows(S, t.refs, row)
  <2>1. ASSUME NEW x \in S
        PROVE  \E r \in t.refs : \E i \in DOMAIN r.members : x = row[r][i]
    <3>1. PICK k \in L : \E m \in Met(k) : x = Row(k, m)
      BY <1>10
    <3>2. PICK m \in Met(k) : x = Row(k, m)
      BY <3>1
    <3>3. PICK r \in t.refs : k = UsageRow(t, r, 1)
      BY <1>5
    <3>4. x = Told(r, 1)
      BY <1>8, <3>2, <3>3
    <3>5. 1 \in DOMAIN r.members
      BY <1>4
    <3>6. QED
      BY <1>9, <3>4, <3>5
  <2>2. ASSUME NEW r \in t.refs, NEW i \in DOMAIN r.members
        PROVE  row[r][i] \in S
    <3>1. PICK k : k = UsageRow(t, r, 1)
      OBVIOUS
    <3>2. k \in L /\ i = 1
      BY <1>4, <1>6, <3>1
    <3>3. PICK m : m \in Met(k)
      BY <1>7, <3>1
    <3>4. Row(k, m) = row[r][i]
      BY <1>8, <1>9, <3>1, <3>2, <3>3
    <3>5. QED
      BY <1>10, <3>2, <3>3, <3>4
  <2>3. QED
    BY <1>9, <2>1, <2>2 DEF ListsRows
<1>12. QED
  BY <1>1, <1>2, <1>11, OrderedRowsComeBack

LEMMA SnowflakeReferences ==
  ASSUME NEW t, IsDeclaredTable(t), \A r \in t.refs : r.name # Nameless,
         NEW read, read.foreignKeys = SnowflakeForeignKeys(t)
  PROVE  HasItsReferences(read, t)
<1> DEFINE name(r, i) == IF r.name = Nameless THEN 100 + i ELSE r.name
           Told(r, i) == [constraint |-> name(r, i), position |-> i, column |-> r.members[i],
                          table |-> r.table, to |-> r.to[i]]
           S == UNION {{Told(r, i) : i \in DOMAIN r.members} : r \in t.refs}
           row == [r \in t.refs |-> [i \in DOMAIN r.members |-> Told(r, i)]]
           rows == Ordered(S)
           keys == [i \in DOMAIN rows |-> rows[i].position]
           sorted == ByPosition(rows)
<1>1. read.foreignKeys = Gathered(sorted)
  BY DEF SnowflakeForeignKeys
<1>2. \A r \in t.refs : \A i \in DOMAIN r.members : name(r, i) = r.name
  OBVIOUS
<1> HIDE DEF name
<1>3. ASSUME NEW r \in t.refs, NEW i \in DOMAIN r.members
      PROVE  /\ row[r][i] = Told(r, i)
             /\ row[r][i].constraint = r.name /\ row[r][i].table = r.table /\ row[r][i].position = i
             /\ row[r][i].column = r.members[i] /\ row[r][i].to = r.to[i]
  <2>1. row[r][i] = Told(r, i)
    OBVIOUS
  <2>2. PICK x : x = Told(r, i)
    OBVIOUS
  <2>3. x.constraint = r.name /\ x.table = r.table /\ x.position = i /\ x.column = r.members[i] /\ x.to = r.to[i]
    BY <1>2, <2>2
  <2>4. x = row[r][i]
    BY <2>1, <2>2
  <2> HIDE DEF row, Told
  <2>5. QED
    BY <2>1, <2>3, <2>4
<1> HIDE DEF row, Told
<1>4. ListsRows(S, t.refs, row)
  <2>1. \A x : x \in S <=> \E r \in t.refs : \E i \in DOMAIN r.members : x = Told(r, i)
    OBVIOUS
  <2> HIDE DEF S
  <2>2. QED
    BY <1>3, <2>1 DEF ListsRows
<1> HIDE DEF S
<1>5. /\ IsFiniteSet(S) /\ RowsOfReferences(S, t.refs)
      /\ \A x \in S : x.position \in Int /\ x.constraint \in Int
  BY <1>4, ListedRows
<1>6. /\ rows \in [1 .. Cardinality(S) -> S]
      /\ \A x \in S : \E k \in 1 .. Cardinality(S) : rows[k] = x
  BY <1>5, OrderedIs DEF IsInOrder
<1>7. Cardinality(S) \in Nat
  BY <1>5, FS_CardinalityType
<1>8. rows \in Seq(S) /\ Len(rows) = Cardinality(S) /\ DOMAIN rows = 1 .. Len(rows)
  BY <1>6, <1>7, RowIs
<1>9. S = {rows[j] : j \in 1 .. Len(rows)}
  BY <1>6, <1>8
<1> HIDE DEF rows
<1>10. \A i \in 1 .. Len(rows) : keys[i] \in Int
  BY <1>5, <1>6, <1>8
<1>11. sorted = SortedBy(rows, keys)
  BY DEF ByPosition
<1> HIDE DEF keys, sorted
<1>12. SortsTo(sorted, rows, keys)
  BY <1>8, <1>10, <1>11, SortedByIs
<1>13. PICK by : Sorts(by, rows, keys) /\ sorted = [k \in 1 .. Len(rows) |-> rows[by[k]]]
  BY <1>12 DEF SortsTo
<1>14. /\ by \in [1 .. Len(rows) -> 1 .. Len(rows)]
       /\ \A j \in 1 .. Len(rows) : \E k \in 1 .. Len(rows) : by[k] = j
  BY <1>13 DEF Sorts
<1>15. sorted \in Seq(S) /\ S = ToSet(sorted)
  <2>1. DOMAIN sorted = 1 .. Len(rows) /\ \A k \in 1 .. Len(rows) : sorted[k] = rows[by[k]]
    BY <1>13
  <2>2. \A x : x \in ToSet(sorted) <=> \E k \in 1 .. Len(rows) : x = sorted[k]
    BY <2>1 DEF ToSet
  <2>2a. \A x : x \in S <=> \E j \in 1 .. Len(rows) : x = rows[j]
    BY <1>9
  <2>3. S = ToSet(sorted)
    <3>1. ASSUME NEW x \in S
          PROVE  x \in ToSet(sorted)
      <4>1. PICK j \in 1 .. Len(rows) : x = rows[j]
        BY <2>2a
      <4>2. PICK k \in 1 .. Len(rows) : by[k] = j
        BY <1>14
      <4>3. QED
        BY <2>1, <2>2, <4>1, <4>2
    <3>2. ASSUME NEW x \in ToSet(sorted)
          PROVE  x \in S
      <4>1. PICK k \in 1 .. Len(rows) : x = sorted[k]
        BY <2>2
      <4>2. x = rows[by[k]] /\ by[k] \in 1 .. Len(rows)
        BY <1>14, <2>1, <4>1
      <4>3. QED
        BY <2>2a, <4>2
    <3>3. QED
      BY <3>1, <3>2
  <2>4. sorted \in [1 .. Len(rows) -> S]
    <3>1. sorted = [k \in 1 .. Len(rows) |-> sorted[k]]
      BY <1>13, <2>1
    <3>2. \A k \in 1 .. Len(rows) : sorted[k] \in S
      BY <2>1, <2>3 DEF ToSet
    <3>3. QED
      BY <3>1, <3>2
  <2>5. QED
    BY <1>7, <1>8, <2>3, <2>4, RowIs
<1>16. SameButNames(read.foreignKeys, Gathered(sorted))
  BY <1>1 DEF SameButNames
<1>17. QED
  BY <1>5, <1>15, <1>16, RowsComeBack

\* SQLite keeps the columns a spelled reference names, though not its name.
LEMMA SqliteReferences ==
  ASSUME NEW t, IsDeclaredTable(t), \A r \in t.refs : r.spelled,
         NEW read, read.foreignKeys = SqliteForeignKeys(t)
  PROVE  HasItsReferences(read, t)
<1> DEFINE Told(r, i) == [constraint |-> r.name, column |-> r.members[i], table |-> r.table,
                          to |-> IF r.spelled THEN r.to[i] ELSE ""]
           rows(r) == [i \in DOMAIN r.members |-> Told(r, i)]
           X == UNION {{Told(r, i) : i \in DOMAIN r.members} : r \in t.refs}
           refs == SetToSeq(t.refs)
           keys == [i \in DOMAIN refs |-> refs[i].name]
           listed == SortedBy(refs, keys)
           parts == [i \in DOMAIN listed |-> rows(listed[i])]
           flat == FlattenSeq(parts)
           fks == Gathered(flat)
           n == Cardinality(t.refs)
<1>1. read.foreignKeys = [i \in DOMAIN fks |-> [fks[i] EXCEPT !.name = None]]
  BY DEF SqliteForeignKeys
<1>2. /\ \A r \in t.refs : r.name \in Int /\ DOMAIN r.members = 1 .. Len(r.members) /\ Len(r.members) \in Nat
      /\ IsFiniteSet(t.refs)
  BY ConstraintsAre DEF IsDeclaredTable, HasConstraints
<1>3. /\ n \in Nat /\ refs \in [1 .. n -> t.refs]
      /\ \A x \in t.refs : \E i \in 1 .. n : refs[i] = x
  BY <1>2, SetToSeqIs
<1> HIDE DEF refs, n
<1>4. refs \in Seq(t.refs) /\ Len(refs) = n /\ DOMAIN refs = 1 .. n
  BY <1>3, RowIs
<1>5. \A i \in 1 .. Len(refs) : keys[i] \in Int
  BY <1>2, <1>3, <1>4
<1> HIDE DEF keys
<1>6. SortsTo(listed, refs, keys)
  BY <1>4, <1>5, SortedByIs
<1> HIDE DEF listed
<1>7. PICK by : Sorts(by, refs, keys) /\ listed = [k \in 1 .. n |-> refs[by[k]]]
  BY <1>4, <1>6 DEF SortsTo
<1>8. /\ by \in [1 .. n -> 1 .. n]
      /\ \A j \in 1 .. n : \E k \in 1 .. n : by[k] = j
  BY <1>4, <1>7 DEF Sorts
<1>9. /\ listed \in [1 .. n -> t.refs]
      /\ \A x \in t.refs : \E k \in 1 .. n : listed[k] = x
  <2>1. ASSUME NEW x \in t.refs
        PROVE  \E k \in 1 .. n : listed[k] = x
    <3>1. PICK j \in 1 .. n : refs[j] = x
      BY <1>3
    <3>2. PICK k \in 1 .. n : by[k] = j
      BY <1>8
    <3>3. QED
      BY <1>7, <3>1, <3>2
  <2>2. \A k \in 1 .. n : refs[by[k]] \in t.refs
    BY <1>3, <1>8
  <2>3. QED
    BY <1>7, <2>1, <2>2
<1>10. \A r \in t.refs : \A i \in DOMAIN r.members : Told(r, i) \in X
  <2> HIDE DEF Told
  <2>1. QED
    OBVIOUS
<1>11. \A r \in t.refs : rows(r) \in Seq(X) /\ DOMAIN rows(r) = DOMAIN r.members
  <2>1. ASSUME NEW r \in t.refs
        PROVE  rows(r) \in Seq(X) /\ DOMAIN rows(r) = DOMAIN r.members
    <3> HIDE DEF Told, X
    <3>1. PICK m \in Nat : m = Len(r.members) /\ DOMAIN r.members = 1 .. m
      BY <1>2
    <3>2. rows(r) \in [1 .. m -> X]
      BY <1>10, <3>1
    <3>3. QED
      BY <3>1, <3>2, RowIs
  <2>2. QED
    BY <2>1
<1>12. \A x : x \in X <=> \E r \in t.refs : \E i \in DOMAIN r.members : x = Told(r, i)
  <2> HIDE DEF Told
  <2>1. QED
    OBVIOUS
<1> HIDE DEF X
<1>13. parts \in Seq(Seq(X)) /\ DOMAIN parts = 1 .. n
  <2> HIDE DEF rows
  <2>1. DOMAIN listed = 1 .. n
    BY <1>9
  <2>2. parts \in [1 .. n -> Seq(X)]
    BY <1>9, <1>11, <2>1
  <2>3. QED
    BY <1>3, <2>2, RowIs
<1>14. \A k \in 1 .. n : parts[k] = rows(listed[k])
  <2> HIDE DEF rows
  <2>1. QED
    BY <1>9
<1> HIDE DEF parts
<1>15. flat \in Seq(X) /\ ToSet(flat) = UNION {ToSet(parts[k]) : k \in DOMAIN parts}
  BY <1>13, FlattenedElements
<1> HIDE DEF flat
<1>16. ASSUME NEW r \in t.refs
       PROVE  \A x : x \in ToSet(rows(r)) <=> \E i \in DOMAIN r.members : x = Told(r, i)
  <2> HIDE DEF Told
  <2>1. QED
    BY DEF ToSet
<1> HIDE DEF rows, Told
<1>17. X = ToSet(flat)
  <2>1. ASSUME NEW x
        PROVE  x \in X <=> \E k \in 1 .. n : x \in ToSet(parts[k])
    BY <1>9, <1>12, <1>14, <1>16
  <2>2. QED
    BY <1>13, <1>15, <2>1
<1>18. ASSUME NEW r \in t.refs, NEW i \in DOMAIN r.members
       PROVE  /\ Told(r, i).constraint = r.name /\ Told(r, i).table = r.table
              /\ Told(r, i).column = r.members[i] /\ Told(r, i).to = r.to[i]
  BY DEF Told
<1>19. RowsOfReferences(X, t.refs)
  <2>1. \A x \in X : \E r \in t.refs : \E i \in DOMAIN r.members :
          /\ x.constraint = r.name /\ x.table = r.table
          /\ x.column = r.members[i] /\ x.to = r.to[i]
    BY <1>12, <1>18
  <2>2. \A r \in t.refs : \A i \in DOMAIN r.members :
          \E x \in X : /\ x.constraint = r.name /\ x.table = r.table
                       /\ x.column = r.members[i] /\ x.to = r.to[i]
    BY <1>12, <1>18
  <2>3. QED
    BY <2>1, <2>2 DEF RowsOfReferences
<1>20. SameButNames(read.foreignKeys, fks)
  <2>1. PICK all : all = fks
    OBVIOUS
  <2>2. ASSUME NEW i \in DOMAIN all
        PROVE  /\ IsRecord(all[i], {"name", "columns", "table", "to"})
    <3>1. PICK a, b, c, d : all[i] = ForeignKey(a, b, c, d)
      BY <2>1 DEF Gathered
    <3>2. QED
      BY <3>1 DEF ForeignKey, IsRecord
  <2> HIDE DEF fks
  <2>3. read.foreignKeys = [i \in DOMAIN all |-> [all[i] EXCEPT !.name = None]]
    BY <1>1, <2>1
  <2>4. ASSUME NEW i \in DOMAIN all
        PROVE  /\ read.foreignKeys[i].table = all[i].table
               /\ read.foreignKeys[i].columns = all[i].columns
               /\ read.foreignKeys[i].to = all[i].to
    <3>1. PICK f : f = all[i]
      OBVIOUS
    <3>2. read.foreignKeys[i] = [f EXCEPT !["name"] = None]
      BY <2>3, <3>1
    <3>3. Changed(read.foreignKeys[i], f, {"name", "columns", "table", "to"}, {<<"name", None>>})
      BY <2>2, <3>1, <3>2, OneChanged
    <3>4. QED
      BY <3>1, <3>3 DEF Changed
  <2>5. DOMAIN read.foreignKeys = DOMAIN all
    BY <2>3
  <2>6. \E m \in Nat : DOMAIN all = 1 .. m
    <3>1. PICK C : C = {row.constraint : row \in X}
      OBVIOUS
    <3>2. \A x \in X : x.constraint \in Int
      BY <1>2, <1>12, <1>18
    <3>3. GathersAll(all, C, X)
      BY <1>15, <1>17, <2>1, <3>1, <3>2, GatheredIs DEF fks
    <3>4. QED
      BY <3>3 DEF GathersAll
  <2>7. Len(read.foreignKeys) = Len(all)
    BY <2>5, <2>6
  <2>8. QED
    BY <2>1, <2>4, <2>5, <2>7 DEF SameButNames
<1>21. QED
  BY <1>15, <1>17, <1>19, <1>20, RowsComeBack

LEMMA DuckdbReferences ==
  ASSUME NEW t, IsDeclaredTable(t), NEW read, read.foreignKeys = DuckdbForeignKeys(t)
  PROVE  HasItsReferences(read, t)
<1> DEFINE refs == SetToSeq(t.refs)
           n == Cardinality(t.refs)
           Fk(r) == ForeignKey(r.name, r.members, r.table, r.to)
           Pairing(columns, to) == {<<columns[i], to[i]>> : i \in DOMAIN columns}
           fks == [i \in DOMAIN refs |-> Fk(refs[i])]
<1>1. read.foreignKeys = fks
  BY DEF DuckdbForeignKeys
<1>2. IsFiniteSet(t.refs)
  BY DEF IsDeclaredTable, HasConstraints
<1>3. /\ n \in Nat /\ refs \in [1 .. n -> t.refs]
      /\ \A x \in t.refs : \E i \in 1 .. n : refs[i] = x
  BY <1>2, SetToSeqIs
<1>4. \A r : Fk(r).table = r.table /\ Fk(r).columns = r.members /\ Fk(r).to = r.to
  BY DEF ForeignKey
<1> HIDE DEF refs, Fk
<1>5. DOMAIN fks = 1 .. n /\ \A i \in 1 .. n : fks[i] = Fk(refs[i])
  BY <1>3
<1> HIDE DEF n, fks
<1>6. Len(fks) = n
  BY <1>3, <1>5
<1>7. \A i \in 1 .. n : fks[i].table = refs[i].table /\ fks[i].columns = refs[i].members /\ fks[i].to = refs[i].to
  BY <1>4, <1>5
<1>8. PICK told : told = ToSet(fks)
  OBVIOUS
<1>9. \A x : x \in told <=> \E i \in 1 .. n : x = fks[i]
  BY <1>5, <1>8 DEF ToSet
<1> DEFINE A == {<<fk.table, Pairing(fk.columns, fk.to)>> : fk \in told}
           B == {<<r.table, Pairing(r.members, r.to)>> : r \in t.refs}
<1> HIDE DEF Pairing
<1>10. \A x : x \in A <=> \E fk \in told : x = <<fk.table, Pairing(fk.columns, fk.to)>>
  OBVIOUS
<1>11. \A x : x \in B <=> \E r \in t.refs : x = <<r.table, Pairing(r.members, r.to)>>
  OBVIOUS
<1> HIDE DEF A, B
<1>12. ASSUME NEW x
       PROVE  x \in A <=> x \in B
  <2>1. ASSUME x \in A
        PROVE  x \in B
    <3>1. PICK i \in 1 .. n : x = <<fks[i].table, Pairing(fks[i].columns, fks[i].to)>>
      BY <1>9, <1>10, <2>1
    <3>2. x = <<refs[i].table, Pairing(refs[i].members, refs[i].to)>> /\ refs[i] \in t.refs
      BY <1>3, <1>7, <3>1
    <3>3. QED
      BY <1>11, <3>2
  <2>2. ASSUME x \in B
        PROVE  x \in A
    <3>1. PICK r \in t.refs : x = <<r.table, Pairing(r.members, r.to)>>
      BY <1>11, <2>2
    <3>2. PICK i \in 1 .. n : refs[i] = r
      BY <1>3
    <3>3. x = <<fks[i].table, Pairing(fks[i].columns, fks[i].to)>> /\ fks[i] \in told
      BY <1>7, <1>9, <3>1, <3>2
    <3>4. QED
      BY <1>10, <3>3
  <2>3. QED
    BY <2>1, <2>2
<1>13. A = B
  BY <1>12
<1>14. Len(read.foreignKeys) = Cardinality(t.refs)
  BY <1>1, <1>6 DEF n
<1>15. QED
  BY <1>1, <1>8, <1>13, <1>14 DEF HasItsReferences, A, B, Pairing

\* Where a backend tells the references of a table, they are the declared ones.
LEMMA ReferencesAreTold ==
  ASSUME NEW b \in AllBackends, NEW db, IsDeclared(db), NEW t \in ToSet(db),
         TellsReferences(b, db, t), NEW read, read.foreignKeys = ForeignKeysOf(b, db, t)
  PROVE  HasItsReferences(read, t)
<1>1. IsDeclaredTable(t)
  BY DeclaredIs
<1>2. b # "bigquery"
  BY DEF TellsReferences
<1>3. CASE b = "postgres"
  BY <1>3, PostgresReferences DEF ForeignKeysOf
<1>4. CASE b = "mysql"
  BY <1>4, MysqlReferences DEF ForeignKeysOf
<1>5. CASE b = "mssql"
  BY <1>5, MssqlReferences DEF ForeignKeysOf
<1>6. CASE b = "sqlite"
  BY <1>1, <1>6, SqliteReferences DEF ForeignKeysOf, TellsReferences
<1>7. CASE b = "duckdb"
  BY <1>1, <1>7, DuckdbReferences DEF ForeignKeysOf
<1>8. CASE b = "snowflake"
  BY <1>1, <1>8, SnowflakeReferences DEF ForeignKeysOf, TellsReferences
<1>9. QED
  BY <1>2, <1>3, <1>4, <1>5, <1>6, <1>7, <1>8 DEF AllBackends

\* Each part of a table through each backend is what was declared, wherever the
\* backend tells it, whatever query that is not needed fails.  backends/
THEOREM TablesAreReadForAll ==
  ASSUME NEW b \in AllBackends, NEW db, IsDeclared(db), b = "sqlite" => NamesAreApart(db),
         NEW current, NEW t \in ToSet(db), NEW sampling,
         NEW failing \in SUBSET (BestEffort \cup Needed)
  PROVE  IsReadAsDeclared(b, db, current, t, sampling, failing)
<1> DEFINE schema == IF b = "sqlite" THEN None ELSE t.schema
           read == ReadTable(b, db, current, schema, t.name, sampling, failing)
           whole == ReadTable(b, db, current, schema, t.name, sampling, failing \ BestEffort)
           policy == PolicyOf(b, sampling)
           r == Whole(b, db, t, policy, failing)
           q == Whole(b, db, t, policy, failing \ BestEffort)
<1>1. \A some : ReadTable(b, db, current, schema, t.name, sampling, some) =
                  IF some \cap Needed # {} THEN None ELSE Whole(b, db, t, policy, some)
  BY TableIsRead DEF SchemaTold
<1>2. BestEffort \cap Needed = {}
  BY DEF BestEffort, Needed
<1>3. IsDeclaredTable(t) /\ HasConstraints(t)
  BY DeclaredIs DEF IsDeclaredTable
<1> HIDE DEF schema, policy
<1>4. CASE ~(failing \subseteq BestEffort)
  <2>1. failing \cap Needed # {}
    BY <1>4
  <2>2. read = None
    BY <1>1, <2>1
  <2> HIDE DEF read
  <2>3. QED
    BY <1>4, <2>2 DEF IsReadAsDeclared, read, schema
<1>5. CASE failing \subseteq BestEffort
  <2>1. read = r /\ whole = q
    BY <1>1, <1>2, <1>5
  <2>2. HasItsColumns(r, t)
    BY ColumnsAreDeclared DEF policy
  <2>3. TellsKeys(b, db, t) => HasItsKey(r, t)
    <3>1. r.primaryKey = PrimaryKeyOf(b, db, t)
      BY WholeHas
    <3>2. QED
      BY <3>1, KeysAreTold
  <2>4. TellsReferences(b, db, t) => HasItsReferences(r, t)
    <3>1. r.foreignKeys = ForeignKeysOf(b, db, t)
      BY WholeHas
    <3>2. QED
      BY <3>1, ReferencesAreTold
  <2>5. PICK cols : cols = ColumnsOf(b, t, policy, failing)
    OBVIOUS
  <2>6. r.columns = cols
    BY <2>5, WholeHas
  <2>7. /\ DOMAIN cols = DOMAIN t.columns
        /\ \A i \in DOMAIN t.columns : TellsColumn(cols[i], b, t, i, policy, failing)
    BY <2>5, ColumnsAreTold DEF policy
  <2>8. \A i \in DOMAIN t.columns :
          /\ cols[i].name = t.columns[i].name
          /\ cols[i].unique = (t.columns[i].name \in UniqueTold(b, t, failing))
          /\ cols[i].sample = SampleTold(b, t.columns[i], policy, failing)
    BY <2>7 DEF TellsColumn
  <2>9. \A c \in ToSet(cols) : \E i \in DOMAIN cols : c = cols[i]
    BY DEF ToSet
  <2>10. ASSUME NEW c \in ToSet(cols)
         PROVE  c.unique <=> c.name \in UniqueTold(b, t, failing)
    <3>1. PICK i \in DOMAIN cols : c = cols[i]
      BY <2>9
    <3>2. c.unique = (c.name \in UniqueTold(b, t, failing))
      BY <2>7, <2>8, <3>1, Zenon
    <3>3. QED
      BY <3>2, Zenon
  <2>11. TellsUnique(b, t) => HasNoFalseKeys(r, t)
    <3>1. SUFFICES ASSUME TellsUnique(b, t)
                   PROVE  HasNoFalseKeys(r, t)
      OBVIOUS
    <3>2. \A c \in ToSet(cols) : c.unique => c.name \in UniqueAlone(t)
      BY <1>3, <2>10, <3>1, UniqueIsTold, Zenon
    <3>3. {c.name : c \in {c \in ToSet(cols) : c.unique}} \subseteq UniqueAlone(t)
      BY <3>2, Zenon
    <3> HIDE DEF r
    <3>4. QED
      BY <2>6, <3>3 DEF HasNoFalseKeys
  <2>12. TellsUnique(b, t) /\ failing = {} /\ b \in {"postgres", "mysql", "sqlite"} =>
           \A c \in ToSet(cols) : c.name \in UniqueAlone(t) => c.unique
    BY <1>3, <2>10, UniqueIsTold, Zenon
  <2>13. Bare(r) = Bare(q)
    <3>1. PICK x : x = Whole(b, db, t, PolicyOf(b, sampling), failing)
      OBVIOUS
    <3>2. PICK some : some = failing \ BestEffort
      OBVIOUS
    <3>3. PICK y : y = Whole(b, db, t, PolicyOf(b, sampling), some)
      OBVIOUS
    <3>4. Bare(x) = Bare(y)
      BY <3>1, <3>3, BareIsSame
    <3>5. x = r /\ y = q
      BY <3>1, <3>2, <3>3 DEF policy
    <3> HIDE DEF r, q
    <3>6. QED
      BY <3>4, <3>5
  <2>14. sampling # None /\ sampling.redaction # None =>
           \A i \in DOMAIN t.columns : t.columns[i].named => cols[i].sample = None
    <3>1. SUFFICES ASSUME sampling # None, sampling.redaction # None,
                          NEW i \in DOMAIN t.columns, t.columns[i].named
                   PROVE  cols[i].sample = None
      BY Zenon
    <3>2. policy = None \/ policy = sampling
      BY DEF policy, PolicyOf
    <3>3. CASE policy = None
      BY <2>8, <3>3 DEF SampleTold
    <3>4. CASE policy = sampling
      <4>1. PICK c : c = t.columns[i]
        OBVIOUS
      <4>2. SampleTold(b, c, sampling, failing) = None
        BY <3>1, <4>1, NamedIsUnsampled, Zenon
      <4>3. QED
        BY <2>8, <3>4, <4>1, <4>2
    <3>5. QED
      BY <3>2, <3>3, <3>4
  <2> HIDE DEF read, whole, r, q
  <2>15. QED
    <3>1. /\ HasItsColumns(read, t)
          /\ TellsKeys(b, db, t) => HasItsKey(read, t)
          /\ TellsReferences(b, db, t) => HasItsReferences(read, t)
          /\ TellsUnique(b, t) => HasNoFalseKeys(read, t)
          /\ TellsUnique(b, t) /\ failing = {} /\ b \in {"postgres", "mysql", "sqlite"} =>
               \A c \in ToSet(read.columns) : c.name \in UniqueAlone(t) => c.unique
          /\ Bare(read) = Bare(whole)
          /\ sampling # None /\ sampling.redaction # None =>
               \A i \in DOMAIN t.columns : t.columns[i].named => read.columns[i].sample = None
      BY <2>1, <2>2, <2>3, <2>4, <2>6, <2>11, <2>12, <2>13, <2>14, Zenon
    <3>2. QED
      BY <1>5, <3>1, Zenon DEF IsReadAsDeclared, read, whole, schema, Bare
<1>6. QED
  BY <1>4, <1>5

(***************************************************************************)
(* What is listed.                                                         *)
(***************************************************************************)

Apart(s) == \A i, j \in 1 .. Len(s) : s[i] = s[j] => i = j

LEMMA ConcatApart ==
  ASSUME NEW X, NEW s \in Seq(X), NEW t \in Seq(X), Apart(s), Apart(t),
         \A k \in 1 .. Len(s) : \A l \in 1 .. Len(t) : s[k] # t[l]
  PROVE  Apart(s \o t)
<1>1. Len(s) \in Nat /\ Len(t) \in Nat /\ Len(s \o t) = Len(s) + Len(t)
  OBVIOUS
<1>2. ASSUME NEW i \in 1 .. Len(s \o t)
      PROVE  \/ i \in 1 .. Len(s) /\ (s \o t)[i] = s[i]
             \/ i - Len(s) \in 1 .. Len(t) /\ (s \o t)[i] = t[i - Len(s)]
  <2>1. CASE i <= Len(s)
    BY <1>1, <2>1
  <2>2. CASE i > Len(s)
    BY <1>1, <2>2
  <2>3. QED
    BY <1>1, <2>1, <2>2
<1>3. ASSUME NEW i \in 1 .. Len(s \o t), NEW j \in 1 .. Len(s \o t), (s \o t)[i] = (s \o t)[j]
      PROVE  i = j
  <2>1. PICK u : u = s \o t
    OBVIOUS
  <2>2. CASE i \in 1 .. Len(s) /\ u[i] = s[i] /\ j \in 1 .. Len(s) /\ u[j] = s[j]
    BY <1>3, <2>1, <2>2 DEF Apart
  <2>3. CASE i - Len(s) \in 1 .. Len(t) /\ u[i] = t[i - Len(s)] /\ j - Len(s) \in 1 .. Len(t) /\ u[j] = t[j - Len(s)]
    <3>1. i - Len(s) = j - Len(s)
      BY <1>3, <2>1, <2>3 DEF Apart
    <3>2. QED
      BY <1>1, <2>1, <3>1
  <2>4. QED
    BY <1>2, <1>3, <2>1, <2>2, <2>3
<1>4. QED
  BY <1>3 DEF Apart

\* Lists without repetition, of which no two share an element, have none when
\* they are put one after the other.
LEMMA FlattenedApart ==
  ASSUME NEW X, NEW seqs \in Seq(Seq(X)), \A i \in 1 .. Len(seqs) : Apart(seqs[i]),
         \A i, j \in 1 .. Len(seqs) : \A k \in 1 .. Len(seqs[i]) : \A l \in 1 .. Len(seqs[j]) :
           seqs[i][k] = seqs[j][l] => i = j
  PROVE  Apart(FlattenSeq(seqs))
<1> DEFINE n == Len(seqs)
<1>1. n \in Nat /\ \A i \in 1 .. n : seqs[i] \in Seq(X) /\ Len(seqs[i]) \in Nat
  OBVIOUS
<1>2. CASE n = 0
  <2>1. FlattenSeq(seqs) = seqs
    BY <1>2 DEF FlattenSeq
  <2>2. QED
    BY <1>2, <2>1 DEF Apart
<1>3. CASE n # 0
  <2>1. PICK f : Grows(X, seqs, f)
    BY <1>3, FlattenedByStages
  <2>2. /\ f \in [1 .. n -> Seq(X)] /\ FlattenSeq(seqs) = f[n] /\ f[1] = seqs[1]
        /\ \A i \in 2 .. n : f[i] = f[i - 1] \o seqs[i]
    BY <2>1 DEF Grows
  <2> DEFINE Holds1(i) == \A k \in 1 .. Len(f[i]) : \E j \in 1 .. i : \E l \in 1 .. Len(seqs[j]) : f[i][k] = seqs[j][l]
             W == {i \in 1 .. n : Apart(f[i]) /\ Holds1(i)}
  <2>3. 1 \in W
    <3>1. 1 \in 1 .. n /\ 1 .. 1 = {1}
      BY <1>1, <1>3
    <3>2. QED
      BY <2>2, <3>1
  <2>4. ASSUME NEW i \in 1 .. n - 1, i \in W
        PROVE  i + 1 \in W
    <3>1. i \in 1 .. n /\ i + 1 \in 1 .. n /\ i + 1 \in 2 .. n /\ (i + 1) - 1 = i
      BY <1>1
    <3>2. f[i + 1] = f[i] \o seqs[i + 1] /\ f[i] \in Seq(X) /\ seqs[i + 1] \in Seq(X)
      BY <1>1, <2>2, <3>1
    <3>3. Apart(f[i]) /\ Apart(seqs[i + 1])
      BY <2>4, <3>1
    <3>4. ASSUME NEW k \in 1 .. Len(f[i]), NEW l \in 1 .. Len(seqs[i + 1])
          PROVE  f[i][k] # seqs[i + 1][l]
      <4>1. PICK j \in 1 .. i : \E m \in 1 .. Len(seqs[j]) : f[i][k] = seqs[j][m]
        BY <2>4
      <4>2. PICK m \in 1 .. Len(seqs[j]) : f[i][k] = seqs[j][m]
        BY <4>1
      <4>3. j \in 1 .. n /\ j # i + 1
        BY <1>1, <3>1
      <4>4. QED
        BY <3>1, <4>2, <4>3
    <3>5. Apart(f[i + 1])
      <4>1. PICK s, t : s = f[i] /\ t = seqs[i + 1]
        OBVIOUS
      <4>2. s \in Seq(X) /\ t \in Seq(X) /\ Apart(s) /\ Apart(t)
        BY <3>2, <3>3, <4>1
      <4>3. \A k \in 1 .. Len(s) : \A l \in 1 .. Len(t) : s[k] # t[l]
        BY <3>4, <4>1
      <4>4. Apart(s \o t)
        BY <4>2, <4>3, ConcatApart
      <4>5. QED
        BY <3>2, <4>1, <4>4
    <3>6. ASSUME NEW k \in 1 .. Len(f[i + 1])
          PROVE  \E j \in 1 .. i + 1 : \E l \in 1 .. Len(seqs[j]) : f[i + 1][k] = seqs[j][l]
      <4>1. Len(f[i + 1]) = Len(f[i]) + Len(seqs[i + 1]) /\ Len(f[i]) \in Nat /\ Len(seqs[i + 1]) \in Nat
        BY <3>2
      <4>2. CASE k <= Len(f[i])
        <5>1. k \in 1 .. Len(f[i]) /\ f[i + 1][k] = f[i][k]
          BY <3>2, <4>1, <4>2
        <5>2. PICK j \in 1 .. i : \E l \in 1 .. Len(seqs[j]) : f[i][k] = seqs[j][l]
          BY <2>4, <5>1
        <5>3. j \in 1 .. i + 1
          BY <1>1, <3>1
        <5>4. QED
          BY <5>1, <5>2, <5>3
      <4>3. CASE k > Len(f[i])
        <5>1. k - Len(f[i]) \in 1 .. Len(seqs[i + 1])
          <6>1. PICK a \in Nat, c \in Nat : a = Len(f[i]) /\ c = Len(seqs[i + 1])
            BY <4>1
          <6>2. k \in 1 .. a + c /\ k > a
            BY <4>1, <4>3, <6>1
          <6>3. k - a \in 1 .. c
            BY <6>2
          <6>4. QED
            BY <6>1, <6>3
        <5>2. f[i + 1][k] = seqs[i + 1][k - Len(f[i])]
          BY <3>2, <4>1, <4>3
        <5>3. i + 1 \in 1 .. i + 1
          BY <1>1, <3>1
        <5>4. QED
          BY <5>1, <5>2, <5>3
      <4>4. QED
        BY <4>1, <4>2, <4>3
    <3>7. QED
      BY <3>1, <3>5, <3>6
  <2>5. 1 .. n \subseteq W
    <3> HIDE DEF W
    <3>1. QED
      BY <1>1, <2>3, <2>4, PlaceInduction
  <2>6. n \in 1 .. n
    BY <1>1, <1>3
  <2>7. Apart(f[n])
    <3>1. n \in W
      BY <2>5, <2>6
    <3> HIDE DEF Holds1
    <3>2. QED
      BY <3>1
  <2>8. QED
    BY <2>2, <2>7
<1>4. QED
  BY <1>2, <1>3

\* A sequence cut into pages of one.
Singles(X, s, pages) ==
  /\ pages \in Seq(Seq(X)) /\ Len(pages) = Len(s)
  /\ \A p \in 1 .. Len(s) : Len(pages[p]) = 1 /\ pages[p][1] = s[p]

LEMMA PagesOfOne ==
  ASSUME NEW X, NEW s \in Seq(X), NEW pages,
         pages = [p \in 1 .. (Len(s) + 1 - 1) \div 1 |->
                    SubSeq(s, (p - 1) * 1 + 1, Min({p * 1, Len(s)}))]
  PROVE  Singles(X, s, pages)
<1> DEFINE n == Len(s)
<1>1. n \in Nat /\ (n + 1 - 1) \div 1 = n /\ DOMAIN s = 1 .. n
  OBVIOUS
<1>2. ASSUME NEW p \in 1 .. n
      PROVE  /\ SubSeq(s, (p - 1) * 1 + 1, Min({p * 1, n})) \in Seq(X)
             /\ Len(SubSeq(s, (p - 1) * 1 + 1, Min({p * 1, n}))) = 1
             /\ SubSeq(s, (p - 1) * 1 + 1, Min({p * 1, n}))[1] = s[p]
  <2>1. {p * 1, n} \in SUBSET Nat /\ {p * 1, n} # {} /\ p * 1 = p /\ (p - 1) * 1 + 1 = p
    BY <1>1
  <2>2. PICK m : m = Min({p * 1, n})
    OBVIOUS
  <2>3. m \in {p * 1, n} /\ \A y \in {p * 1, n} : m <= y
    BY <2>1, <2>2, MinIs
  <2>4. m = p
    BY <1>1, <2>1, <2>3
  <2>5. SubSeq(s, p, p) \in Seq(X) /\ Len(SubSeq(s, p, p)) = 1 /\ SubSeq(s, p, p)[1] = s[p]
    BY <1>1
  <2>6. QED
    BY <2>1, <2>2, <2>4, <2>5
<1> DEFINE page(p) == SubSeq(s, (p - 1) * 1 + 1, Min({p * 1, n}))
<1>2a. pages = [p \in 1 .. n |-> page(p)]
  <2> DEFINE places == 1 .. (Len(s) + 1 - 1) \div 1
  <2>1. places = 1 .. n
    BY <1>1
  <2>2. pages = [p \in places |-> page(p)]
    BY Zenon
  <2> HIDE DEF places, page
  <2>3. QED
    BY <2>1, <2>2
<1>2b. \A p \in 1 .. n : page(p) \in Seq(X) /\ Len(page(p)) = 1 /\ page(p)[1] = s[p]
  BY <1>2
<1> HIDE DEF page
<1>3. pages = [p \in 1 .. n |-> pages[p]]
  BY ONLY <1>2a
<1>4. \A p \in 1 .. n : pages[p] \in Seq(X) /\ Len(pages[p]) = 1 /\ pages[p][1] = s[p]
  BY ONLY <1>2a, <1>2b
<1>5a. PICK m \in Nat : m = n
  BY <1>1
<1>5. PICK Y : Y = Seq(X) /\ m = n
  BY <1>5a
<1>6. pages \in [1 .. m -> Y]
  BY <1>3, <1>4, <1>5
<1>7. pages \in Seq(Y) /\ Len(pages) = m
  BY <1>6, RowIs
<1>8. QED
  BY <1>4, <1>5, <1>7 DEF Singles

\* What is on pages of one is all there is.
LEMMA PagesAre ==
  ASSUME NEW X, NEW s \in Seq(X), Apart(s), NEW pages, Singles(X, s, pages)
  PROVE  /\ AllPages(pages) \in Seq(X) /\ Apart(AllPages(pages))
         /\ ToSet(AllPages(pages)) = ToSet(s)
<1>1. PICK n \in Nat : n = Len(s) /\ DOMAIN s = 1 .. n
  OBVIOUS
<1>2. /\ pages \in Seq(Seq(X)) /\ Len(pages) = n
      /\ \A p \in 1 .. n : Len(pages[p]) = 1 /\ pages[p][1] = s[p]
  BY <1>1 DEF Singles
<1>3. \A i \in 1 .. 1 : i = 1
  OBVIOUS
<1>4. DOMAIN pages = 1 .. n /\ \A p \in 1 .. n : pages[p] \in Seq(X)
  BY <1>2
<1>5. ASSUME NEW i \in 1 .. n
      PROVE  Apart(pages[i]) /\ \A x : x \in ToSet(pages[i]) <=> x = s[i]
  <2>1. PICK q : q = pages[i]
    OBVIOUS
  <2>2. Len(q) = 1 /\ q[1] = s[i] /\ q \in Seq(X)
    BY <1>2, <1>4, <2>1
  <2>3. Apart(q)
    BY <1>3, <2>2 DEF Apart
  <2>4. DOMAIN q = {1}
    BY <2>2
  <2>5. \A x : x \in ToSet(q) <=> x = s[i]
    BY <2>2, <2>4 DEF ToSet
  <2>6. QED
    BY <2>1, <2>3, <2>5
<1>6. ASSUME NEW i \in 1 .. n, NEW j \in 1 .. n, NEW k \in 1 .. Len(pages[i]), NEW l \in 1 .. Len(pages[j]),
             pages[i][k] = pages[j][l]
      PROVE  i = j
  <2>1. k = 1 /\ l = 1
    BY <1>2, <1>3
  <2>2. s[i] = s[j]
    BY <1>2, <1>6, <2>1
  <2>3. QED
    BY <1>1, <2>2 DEF Apart
<1>7. Apart(FlattenSeq(pages))
  <2>1. \A i \in 1 .. Len(pages) : Apart(pages[i])
    BY <1>2, <1>5
  <2>2. ASSUME NEW i \in 1 .. Len(pages), NEW j \in 1 .. Len(pages),
               NEW k \in 1 .. Len(pages[i]), NEW l \in 1 .. Len(pages[j]), pages[i][k] = pages[j][l]
        PROVE  i = j
    BY <1>2, <1>6, <2>2
  <2>3. pages \in Seq(Seq(X))
    BY <1>2
  <2>4. QED
    BY <2>1, <2>2, <2>3, FlattenedApart
<1>8. FlattenSeq(pages) \in Seq(X) /\ ToSet(FlattenSeq(pages)) = UNION {ToSet(pages[i]) : i \in DOMAIN pages}
  BY <1>2, FlattenedElements
<1>9. UNION {ToSet(pages[i]) : i \in DOMAIN pages} = ToSet(s)
  <2>1. \A x : x \in ToSet(s) <=> \E i \in 1 .. n : x = s[i]
    BY <1>1 DEF ToSet
  <2>2. \A x : x \in UNION {ToSet(pages[i]) : i \in DOMAIN pages} <=> \E i \in 1 .. n : x \in ToSet(pages[i])
    BY <1>4
  <2>3. QED
    BY <1>5, <2>1, <2>2
<1>10. QED
  BY <1>7, <1>8, <1>9 DEF AllPages

\* What a backend calls a table.
NameTold(b, t) == <<SchemaTold(b, t), t.name>>

\* Each of some tables by its name, once.
ListsAll(names, b, there) ==
  /\ names \in Seq(ToSet(names)) /\ Apart(names)
  /\ \A x : x \in ToSet(names) <=> \E t \in there : x = NameTold(b, t)

LEMMA NamesTellApart ==
  ASSUME NEW b, NEW db, IsDeclared(db), b = "sqlite" => NamesAreApart(db),
         NEW t \in ToSet(db), NEW u \in ToSet(db), NameTold(b, t) = NameTold(b, u)
  PROVE  t = u
<1>1. t.name = u.name /\ SchemaTold(b, t) = SchemaTold(b, u)
  BY DEF NameTold
<1>2. b # "sqlite" => t.schema = u.schema
  BY <1>1 DEF SchemaTold
<1>3. QED
  BY <1>1, <1>2, DeclaredIs

\* Tables of a database in order, no two at one place.
LEMMA PickedApart ==
  ASSUME NEW db, IsDeclared(db), NEW P \in SUBSET (DOMAIN db), NEW base, base = Picked(db, P)
  PROVE  /\ base \in Seq(ToSet(db)) /\ Apart(base)
         /\ \A t : t \in ToSet(base) <=> \E i \in P : t = db[i]
<1>1. db \in Seq(ToSet(db)) /\ DOMAIN db = 1 .. Len(db)
  BY DEF IsDeclared
<1>2. /\ base \in Seq(ToSet(db)) /\ Len(base) = Cardinality(P)
      /\ \E at : /\ Enumerates(at, P)
                 /\ \A k \in 1 .. Cardinality(P) : base[k] = db[at[k]]
  BY <1>1, PickedIs
<1>3. PICK at : Enumerates(at, P) /\ \A k \in 1 .. Cardinality(P) : base[k] = db[at[k]]
  BY <1>2
<1>4. \A i, j \in DOMAIN db : db[i] = db[j] => i = j
  BY DEF IsDeclared
<1>5. /\ \A k \in 1 .. Len(base) : at[k] \in P
      /\ \A k, l \in 1 .. Len(base) : at[k] = at[l] => k = l
  <2>1. PICK n : n = Cardinality(P)
    OBVIOUS
  <2>2. Len(base) = n /\ n \in Nat
    BY <1>2, <2>1
  <2>3. /\ at \in [1 .. n -> P]
        /\ \A i, j \in 1 .. n : i < j => at[i] < at[j]
    BY <1>3, <2>1 DEF Enumerates
  <2>4. ASSUME NEW k \in 1 .. n, NEW l \in 1 .. n, at[k] = at[l]
        PROVE  k = l
    <3>1. at[k] \in Int /\ at[l] \in Int
      BY <1>1, <2>3
    <3>2. ~(k < l) /\ ~(l < k)
      BY <2>3, <2>4, <3>1
    <3>3. QED
      BY <3>2
  <2>5. QED
    BY <2>2, <2>3, <2>4
<1>6. Apart(base)
  <2>1. ASSUME NEW k \in 1 .. Len(base), NEW l \in 1 .. Len(base), base[k] = base[l]
        PROVE  k = l
    <3>1. db[at[k]] = db[at[l]]
      BY <1>2, <1>3, <2>1
    <3>2. at[k] = at[l]
      BY <1>4, <1>5, <3>1
    <3>3. QED
      BY <1>5, <3>2
  <2>2. QED
    BY <2>1 DEF Apart
<1>7. ToSet(base) = {db[i] : i \in P}
  BY <1>1, PickedElements
<1>8. QED
  BY <1>2, <1>6, <1>7

LEMMA NamesArePicked ==
  ASSUME NEW b, NEW db, IsDeclared(db), b = "sqlite" => NamesAreApart(db),
         NEW base \in Seq(ToSet(db)), Apart(base),
         NEW names, names = [i \in DOMAIN base |-> NameTold(b, base[i])]
  PROVE  ListsAll(names, b, ToSet(base))
<1>1. PICK n \in Nat : n = Len(base) /\ DOMAIN base = 1 .. n
  OBVIOUS
<1>2. DOMAIN names = 1 .. n /\ \A i \in 1 .. n : names[i] = NameTold(b, base[i])
  BY <1>1
<1>3. names \in [1 .. n -> ToSet(names)]
  <2>1. names = [i \in 1 .. n |-> names[i]]
    BY <1>1, <1>2
  <2>2. \A i \in 1 .. n : names[i] \in ToSet(names)
    BY <1>2 DEF ToSet
  <2>3. QED
    BY <2>1, <2>2
<1>4. names \in Seq(ToSet(names)) /\ Len(names) = n
  BY <1>3, RowIs
<1>5. Apart(names)
  <2>1. ASSUME NEW i \in 1 .. n, NEW j \in 1 .. n, names[i] = names[j]
        PROVE  i = j
    <3>1. base[i] \in ToSet(db) /\ base[j] \in ToSet(db)
      BY <1>1
    <3>2. base[i] = base[j]
      BY <1>2, <2>1, <3>1, NamesTellApart
    <3>3. QED
      BY <1>1, <3>2 DEF Apart
  <2>2. QED
    BY <1>4, <2>1 DEF Apart
<1>6. \A x : x \in ToSet(names) <=> \E t \in ToSet(base) : x = NameTold(b, t)
  BY <1>1, <1>2 DEF ToSet
<1>7. QED
  BY <1>4, <1>5, <1>6 DEF ListsAll

\* The names in a dataset, by pages of one.
Lists1(names, db, d) ==
  \E in, pages, ts :
    /\ in = Picked(db, {i \in DOMAIN db : db[i].schema = d})
    /\ pages = [p \in 1 .. (Len(in) + 1 - 1) \div 1 |->
                   SubSeq(in, (p - 1) * 1 + 1, Min({p * 1, Len(in)}))]
    /\ ts = AllPages(pages)
    /\ names = [i \in DOMAIN ts |-> <<d, ts[i].name>>]

LEMMA DatasetIsListed ==
  ASSUME NEW db, IsDeclared(db), NEW d, NEW names, Lists1(names, db, d), NEW there, there = {t \in ToSet(db) : t.schema = d}
  PROVE  ListsAll(names, "bigquery", there)
<1>0. PICK in, pages, ts :
         /\ in = Picked(db, {i \in DOMAIN db : db[i].schema = d})
         /\ pages = [p \in 1 .. (Len(in) + 1 - 1) \div 1 |->
                        SubSeq(in, (p - 1) * 1 + 1, Min({p * 1, Len(in)}))]
         /\ ts = AllPages(pages)
         /\ names = [i \in DOMAIN ts |-> <<d, ts[i].name>>]
  BY Zenon DEF Lists1
<1>1. PICK P : P = {i \in DOMAIN db : db[i].schema = d}
  OBVIOUS
<1>2. P \in SUBSET (DOMAIN db) /\ in = Picked(db, P)
  BY <1>0, <1>1
<1>3. /\ in \in Seq(ToSet(db)) /\ Apart(in)
      /\ \A t : t \in ToSet(in) <=> \E i \in P : t = db[i]
  BY <1>2, PickedApart
<1>4. Singles(ToSet(db), in, pages)
  BY <1>0, <1>3, PagesOfOne
<1>5. ts \in Seq(ToSet(db)) /\ Apart(ts) /\ ToSet(ts) = ToSet(in)
  BY <1>0, <1>3, <1>4, PagesAre
<1>6. ToSet(ts) = there
  <2>1. \A t : t \in ToSet(db) <=> \E i \in DOMAIN db : t = db[i]
    BY DEF ToSet
  <2>2. \A t : t \in ToSet(in) <=> t \in there
    BY <1>1, <1>3, <2>1
  <2>3. QED
    BY <1>5, <2>2
<1>7. names = [i \in DOMAIN ts |-> NameTold("bigquery", ts[i])]
  <2>1. ASSUME NEW i \in DOMAIN ts
        PROVE  <<d, ts[i].name>> = NameTold("bigquery", ts[i])
    <3>1. ts[i] \in there
      BY <1>6 DEF ToSet
    <3>2. ts[i].schema = d
      BY <3>1
    <3>3. QED
      BY <3>2 DEF NameTold, SchemaTold
  <2>2. QED
    BY <1>0, <2>1
<1>8. ListsAll(names, "bigquery", ToSet(ts))
  BY <1>5, <1>7, NamesArePicked
<1>9. QED
  BY <1>6, <1>8

LEMMA BigqueryLists ==
  ASSUME NEW db, IsDeclared(db), NEW current, NEW there,
         there = {t \in ToSet(db) : current # None => t.schema = current}
  PROVE  ListsAll(TablesOf("bigquery", db, current), "bigquery", there)
<1> DEFINE schemas == {t.schema : t \in ToSet(db)}
           listed == SetToSeq(schemas)
           datasets == IF current # None THEN <<current>> ELSE listed
           in(d) == Picked(db, {i \in DOMAIN db : db[i].schema = d})
           pages(d) == [p \in 1 .. (Len(in(d)) + 1 - 1) \div 1 |->
                          SubSeq(in(d), (p - 1) * 1 + 1, Min({p * 1, Len(in(d))}))]
           names(d) == LET ts == AllPages(pages(d)) IN [i \in DOMAIN ts |-> <<d, ts[i].name>>]
           parts == [i \in DOMAIN datasets |-> names(datasets[i])]
           X == {NameTold("bigquery", t) : t \in ToSet(db)}
<1>1. TablesOf("bigquery", db, current) = FlattenSeq(parts)
  BY Zenon DEF TablesOf, BigqueryTables
<1>2. ASSUME NEW d
      PROVE  ListsAll(names(d), "bigquery", {t \in ToSet(db) : t.schema = d})
  <2>1. PICK names1, some : names1 = names(d) /\ some = {t \in ToSet(db) : t.schema = d}
    OBVIOUS
  <2>2. Lists1(names1, db, d)
    <3>1. names(d) = [i \in DOMAIN AllPages(pages(d)) |-> <<d, AllPages(pages(d))[i].name>>]
      BY Zenon
    <3>2. PICK in1, ts : in1 = in(d) /\ ts = AllPages(pages(d))
      OBVIOUS
    <3>3. PICK pages1 : pages1 = pages(d)
      OBVIOUS
    <3>4. pages1 = [p \in 1 .. (Len(in1) + 1 - 1) \div 1 |->
                      SubSeq(in1, (p - 1) * 1 + 1, Min({p * 1, Len(in1)}))]
      BY <3>2, <3>3, Zenon
    <3>5. in1 = Picked(db, {i \in DOMAIN db : db[i].schema = d})
      BY <3>2
    <3> HIDE DEF names, pages, in
    <3>6. ts = AllPages(pages1)
      BY <3>2, <3>3
    <3>7. names1 = [i \in DOMAIN ts |-> <<d, ts[i].name>>]
      BY <2>1, <3>1, <3>2, Zenon
    <3>8. QED
      BY <3>4, <3>5, <3>6, <3>7, Zenon DEF Lists1
  <2>3. ListsAll(names1, "bigquery", some)
    BY <2>1, <2>2, DatasetIsListed
  <2>4. QED
    BY <2>1, <2>3
<1> HIDE DEF names
<1>3. IsFiniteSet(schemas)
  <2>1. IsFiniteSet(ToSet(db))
    BY DeclaredIs
  <2>2. PICK f : f = [t \in ToSet(db) |-> t.schema]
    OBVIOUS
  <2>3. IsFiniteSet({f[t] : t \in ToSet(db)})
    BY <2>1, ImageIsFinite, Zenon
  <2>4. schemas = {f[t] : t \in ToSet(db)}
    BY <2>2
  <2>5. QED
    BY <2>3, <2>4
<1>4. \A x : x \in schemas <=> \E t \in ToSet(db) : x = t.schema
  OBVIOUS
<1> HIDE DEF schemas
<1>5. \E n \in Nat : \E D : datasets \in [1 .. n -> D]
  <2>1. CASE current # None
    <3>1. datasets = <<current>>
      BY <2>1
    <3>2. datasets \in [1 .. 1 -> {current}]
      BY <3>1
    <3>3. QED
      BY <3>2
  <2>2. CASE current = None
    BY <1>3, <2>2, SetToSeqIs
  <2>3. QED
    BY <2>1, <2>2
<1>6. PICK n \in Nat : \E D : datasets \in [1 .. n -> D]
  BY <1>5
<1>7. DOMAIN datasets = 1 .. n
  BY <1>6
<1>8. \A i, j \in 1 .. n : datasets[i] = datasets[j] => i = j
  <2>1. CASE current # None
    <3>1. datasets = <<current>>
      BY <2>1
    <3>2. 1 .. n = {1}
      <4>1. DOMAIN <<current>> = {1}
        OBVIOUS
      <4>2. DOMAIN datasets = {1}
        BY <3>1, <4>1, Zenon
      <4> HIDE DEF datasets
      <4>3. QED
        BY <1>7, <4>2
    <3>3. QED
      BY <3>2
  <2>2. CASE current = None
    <3>1. datasets = listed
      BY <2>2
    <3>2. \A i, j \in 1 .. Cardinality(schemas) : listed[i] = listed[j] => i = j
      BY <1>3, SetToSeqIs
    <3>3. 1 .. Cardinality(schemas) = 1 .. n
      <4>1. listed \in [1 .. Cardinality(schemas) -> schemas]
        BY <1>3, SetToSeqIs
      <4>2. DOMAIN listed = 1 .. Cardinality(schemas)
        BY <4>1
      <4>3. QED
        BY <1>7, <3>1, <4>2
    <3>4. QED
      BY <3>1, <3>2, <3>3
  <2>3. QED
    BY <2>1, <2>2
<1>9. \A t \in ToSet(db) : t \in there <=> \E i \in 1 .. n : t.schema = datasets[i]
  <2>1. CASE current # None
    <3>1. datasets = <<current>>
      BY <2>1
    <3>2. 1 .. n = {1} /\ datasets[1] = current
      <4>1. DOMAIN <<current>> = {1} /\ <<current>>[1] = current
        OBVIOUS
      <4>2. DOMAIN datasets = {1} /\ datasets[1] = current
        BY <3>1, <4>1, Zenon
      <4> HIDE DEF datasets
      <4>3. QED
        BY <1>7, <4>2
    <3> HIDE DEF datasets
    <3>3. QED
      BY <2>1, <3>2
  <2>2. CASE current = None
    <3>1. datasets = listed
      BY <2>2
    <3>2. \A x \in schemas : \E i \in 1 .. Cardinality(schemas) : listed[i] = x
      BY <1>3, SetToSeqIs
    <3>3. listed \in [1 .. Cardinality(schemas) -> schemas]
      BY <1>3, SetToSeqIs
    <3>4. DOMAIN listed = 1 .. Cardinality(schemas)
      BY <3>3
    <3>5. \A x \in schemas : \E i \in 1 .. n : datasets[i] = x
      BY <1>7, <3>1, <3>2, <3>4
    <3> HIDE DEF datasets, listed
    <3>6. QED
      BY <1>4, <2>2, <3>5
  <2>3. QED
    BY <2>1, <2>2
<1> HIDE DEF datasets
<1>10. DOMAIN parts = 1 .. n /\ \A i \in 1 .. n : parts[i] = names(datasets[i])
  BY <1>7
<1>11. parts = [i \in 1 .. n |-> parts[i]]
  BY <1>7
<1> HIDE DEF parts
<1>12. \A x : x \in X <=> \E t \in ToSet(db) : x = NameTold("bigquery", t)
  OBVIOUS
<1> HIDE DEF X
<1>13. ASSUME NEW i \in 1 .. n
       PROVE  /\ parts[i] \in Seq(X) /\ Apart(parts[i])
              /\ \A x : x \in ToSet(parts[i]) <=>
                   \E t \in ToSet(db) : t.schema = datasets[i] /\ x = NameTold("bigquery", t)
  <2>1. PICK part : part = parts[i]
    OBVIOUS
  <2>2. PICK some : some = {t \in ToSet(db) : t.schema = datasets[i]}
    OBVIOUS
  <2>3. ListsAll(part, "bigquery", some)
    BY <1>2, <1>10, <2>1, <2>2
  <2>4. /\ part \in Seq(ToSet(part)) /\ Apart(part)
        /\ \A x : x \in ToSet(part) <=> \E t \in some : x = NameTold("bigquery", t)
    BY <2>3 DEF ListsAll
  <2>5. ToSet(part) \subseteq X
    BY <1>12, <2>2, <2>4
  <2>6. part \in Seq(X)
    BY <2>4, <2>5
  <2>7. QED
    BY <2>1, <2>2, <2>4, <2>6
<1>14. parts \in Seq(Seq(X)) /\ Len(parts) = n
  <2>1. PICK Y : Y = Seq(X)
    OBVIOUS
  <2>2. parts \in [1 .. n -> Y]
    BY <1>11, <1>13, <2>1
  <2>3. QED
    BY <2>1, <2>2, RowIs
<1>15. ASSUME NEW i \in 1 .. n, NEW j \in 1 .. n, NEW k \in 1 .. Len(parts[i]), NEW l \in 1 .. Len(parts[j]),
              parts[i][k] = parts[j][l]
       PROVE  i = j
  <2>1. parts[i][k] \in ToSet(parts[i]) /\ parts[j][l] \in ToSet(parts[j])
    BY <1>13 DEF ToSet
  <2>2. PICK t \in ToSet(db) : t.schema = datasets[i] /\ parts[i][k] = NameTold("bigquery", t)
    BY <1>13, <2>1, ZenonT(60)
  <2>3. PICK u \in ToSet(db) : u.schema = datasets[j] /\ parts[j][l] = NameTold("bigquery", u)
    BY <1>13, <2>1, ZenonT(60)
  <2>4. t = u
    BY <1>15, <2>2, <2>3, NamesTellApart
  <2>5. QED
    BY <1>8, <2>2, <2>3, <2>4
<1>16. PICK all : all = FlattenSeq(parts)
  OBVIOUS
<1>17. Apart(all)
  <2>1. \A i \in 1 .. Len(parts) : Apart(parts[i])
    BY <1>13, <1>14
  <2>2. ASSUME NEW i \in 1 .. Len(parts), NEW j \in 1 .. Len(parts),
               NEW k \in 1 .. Len(parts[i]), NEW l \in 1 .. Len(parts[j]), parts[i][k] = parts[j][l]
        PROVE  i = j
    BY <1>14, <1>15, <2>2
  <2>3. parts \in Seq(Seq(X))
    BY <1>14
  <2>4. QED
    BY <1>16, <2>1, <2>2, <2>3, FlattenedApart
<1>18. all \in Seq(X) /\ ToSet(all) = UNION {ToSet(parts[i]) : i \in DOMAIN parts}
  BY <1>14, <1>16, FlattenedElements
<1>19. \A x : x \in ToSet(all) <=> \E i \in 1 .. n : x \in ToSet(parts[i])
  BY <1>10, <1>18
<1>20. \A x : x \in ToSet(all) <=> \E t \in there : x = NameTold("bigquery", t)
  <2>1. there \subseteq ToSet(db)
    OBVIOUS
  <2>2. ASSUME NEW x
        PROVE  x \in ToSet(all) <=> \E t \in there : x = NameTold("bigquery", t)
    <3>1. ASSUME x \in ToSet(all)
          PROVE  \E t \in there : x = NameTold("bigquery", t)
      <4>1. PICK i \in 1 .. n : x \in ToSet(parts[i])
        BY <1>19, <3>1
      <4>2. PICK t \in ToSet(db) : t.schema = datasets[i] /\ x = NameTold("bigquery", t)
        BY <1>13, <4>1
      <4>3. QED
        BY <1>9, <4>2
    <3>2. ASSUME NEW t \in there, x = NameTold("bigquery", t)
          PROVE  x \in ToSet(all)
      <4>1. PICK i \in 1 .. n : t.schema = datasets[i]
        BY <1>9, <2>1
      <4>2. x \in ToSet(parts[i])
        BY <1>13, <2>1, <3>2, <4>1
      <4>3. QED
        BY <1>19, <4>2
    <3>3. QED
      BY <3>1, <3>2
  <2>3. QED
    BY <2>2
<1>21. all \in Seq(ToSet(all))
  <2>1. PICK m \in Nat : m = Len(all) /\ DOMAIN all = 1 .. m /\ all = [i \in 1 .. m |-> all[i]]
    BY <1>18
  <2>2. \A i \in 1 .. m : all[i] \in ToSet(all)
    BY <2>1 DEF ToSet
  <2>3. all \in [1 .. m -> ToSet(all)]
    BY <2>1, <2>2
  <2>4. QED
    BY <2>3, RowIs
<1>22. QED
  BY <1>1, <1>16, <1>17, <1>20, <1>21 DEF ListsAll

\* The tables that are there to read.
There(b, db, current) ==
  {t \in ToSet(db) : (b = "bigquery" \/ ~t.view)
                       /\ (b \in {"mysql", "snowflake", "bigquery"} /\ current # None
                             => t.schema = current)
                       /\ (b \in {"postgres", "sqlite", "duckdb"} => ~t.system)}

\* What a backend picks in its catalog, by name.
PicksNames(names, b, db, P) ==
  names = [i \in DOMAIN Picked(db, P) |-> NameTold(b, Picked(db, P)[i])]

LEMMA PickedAreListed ==
  ASSUME NEW b, NEW db, IsDeclared(db), b = "sqlite" => NamesAreApart(db), NEW P \in SUBSET (DOMAIN db),
         NEW names, PicksNames(names, b, db, P), NEW there \in SUBSET ToSet(db),
         \A i \in DOMAIN db : i \in P <=> db[i] \in there
  PROVE  ListsAll(names, b, there)
<1>1. PICK base : base = Picked(db, P)
  OBVIOUS
<1>2. names = [i \in DOMAIN base |-> NameTold(b, base[i])]
  BY <1>1, Zenon DEF PicksNames
<1>3. /\ base \in Seq(ToSet(db)) /\ Apart(base)
      /\ \A t : t \in ToSet(base) <=> \E i \in P : t = db[i]
  BY <1>1, PickedApart
<1>4. ListsAll(names, b, ToSet(base))
  BY <1>2, <1>3, NamesArePicked
<1>5. \A t : t \in ToSet(db) <=> \E i \in DOMAIN db : t = db[i]
  BY DEF ToSet
<1>6. ToSet(base) = there
  <2>1. ASSUME NEW t \in there
        PROVE  t \in ToSet(base)
    <3>1. PICK i \in DOMAIN db : t = db[i]
      BY <1>5
    <3>2. i \in P
      BY <3>1
    <3>3. QED
      BY <1>3, <3>1, <3>2
  <2>2. ASSUME NEW t \in ToSet(base)
        PROVE  t \in there
    <3>1. PICK i \in P : t = db[i]
      BY <1>3
    <3>2. QED
      BY <3>1
  <2>3. QED
    BY <2>1, <2>2
<1>7. QED
  BY <1>4, <1>6

\* Its queries pick just these.
LEMMA CatalogsPick ==
  ASSUME NEW b \in AllBackends \ {"bigquery"}, NEW db, NEW current, b = "mysql" => current # None
  PROVE  \E P \in SUBSET (DOMAIN db) :
           /\ PicksNames(TablesOf(b, db, current), b, db, P)
           /\ \A i \in DOMAIN db : i \in P <=> db[i] \in There(b, db, current)
<1>1. \A i \in DOMAIN db : db[i] \in ToSet(db)
  BY DEF ToSet
<1>2. CASE b \in {"postgres", "duckdb"}
  <2>1. PICK P : P = {i \in DOMAIN db : ~db[i].view /\ ~db[i].system}
    OBVIOUS
  <2>2. PicksNames(TablesOf(b, db, current), b, db, P)
    BY <1>2, <2>1 DEF PicksNames, NameTold, SchemaTold, TablesOf, PostgresTables, DuckdbTables
  <2>3. \A i \in DOMAIN db : i \in P <=> db[i] \in There(b, db, current)
    BY <1>1, <1>2, <2>1 DEF There
  <2>4. QED
    BY <2>1, <2>2, <2>3
<1>3. CASE b = "sqlite"
  <2>1. PICK P : P = {i \in DOMAIN db : ~db[i].view /\ ~db[i].system}
    OBVIOUS
  <2>2. PicksNames(TablesOf(b, db, current), b, db, P)
    BY <1>3, <2>1 DEF PicksNames, NameTold, SchemaTold, TablesOf, SqliteTables
  <2>3. \A i \in DOMAIN db : i \in P <=> db[i] \in There(b, db, current)
    BY <1>1, <1>3, <2>1 DEF There
  <2>4. QED
    BY <2>1, <2>2, <2>3
<1>4. CASE b = "mysql"
  <2>1. PICK P : P = {i \in DOMAIN db : ~db[i].view /\ db[i].schema = current}
    OBVIOUS
  <2>2. PicksNames(TablesOf(b, db, current), b, db, P)
    BY <1>4, <2>1 DEF PicksNames, NameTold, SchemaTold, TablesOf, MysqlTables
  <2>3. \A i \in DOMAIN db : i \in P <=> db[i] \in There(b, db, current)
    BY <1>1, <1>4, <2>1 DEF There
  <2>4. QED
    BY <2>1, <2>2, <2>3
<1>5. CASE b = "mssql"
  <2>1. PICK P : P = {i \in DOMAIN db : ~db[i].view}
    OBVIOUS
  <2>2. PicksNames(TablesOf(b, db, current), b, db, P)
    BY <1>5, <2>1 DEF PicksNames, NameTold, SchemaTold, TablesOf, MssqlTables
  <2>3. \A i \in DOMAIN db : i \in P <=> db[i] \in There(b, db, current)
    BY <1>1, <1>5, <2>1 DEF There
  <2>4. QED
    BY <2>1, <2>2, <2>3
<1>6. CASE b = "snowflake"
  <2>1. PICK P : P = {i \in DOMAIN db : ~db[i].view /\ current \in {None, db[i].schema}}
    OBVIOUS
  <2>2. PicksNames(TablesOf(b, db, current), b, db, P)
    BY <1>6, <2>1 DEF PicksNames, NameTold, SchemaTold, TablesOf, SnowflakeTables
  <2>3. \A i \in DOMAIN db : i \in P <=> db[i] \in There(b, db, current)
    BY <1>1, <1>6, <2>1 DEF There
  <2>4. QED
    BY <2>1, <2>2, <2>3
<1>7. QED
  BY <1>2, <1>3, <1>4, <1>5, <1>6 DEF AllBackends

\* Every table that is there is listed once, and read by the name it is listed
\* under.  The pages of BigQuery are of one table.  backends/
THEOREM TablesAreListedForAll ==
  ASSUME NEW b \in AllBackends, NEW db, IsDeclared(db), b = "sqlite" => NamesAreApart(db),
         NEW current, b = "mysql" => current # None
  PROVE  ListsItsTables(b, db, current)
<1> DEFINE names == TablesOf(b, db, current)
           there == There(b, db, current)
<1>1. ListsAll(names, b, there)
  <2>1. CASE b = "bigquery"
    <3>1. there = {t \in ToSet(db) : current # None => t.schema = current}
      BY <2>1 DEF There
    <3> HIDE DEF there
    <3>2. QED
      BY <2>1, <3>1, BigqueryLists
  <2>2. CASE b # "bigquery"
    <3>1. PICK P \in SUBSET (DOMAIN db) : /\ PicksNames(names, b, db, P)
                                          /\ \A i \in DOMAIN db : i \in P <=> db[i] \in there
      BY <2>2, CatalogsPick
    <3>2. there \in SUBSET ToSet(db)
      BY DEF There
    <3> HIDE DEF names, there
    <3>3. QED
      BY <3>1, <3>2, PickedAreListed
  <2>3. QED
    BY <2>1, <2>2
<1>2. there = {t \in ToSet(db) : (b = "bigquery" \/ ~t.view)
                                   /\ (b \in {"mysql", "snowflake", "bigquery"} /\ current # None
                                         => t.schema = current)
                                   /\ (b \in {"postgres", "sqlite", "duckdb"} => ~t.system)}
  BY DEF There
<1>3. there \subseteq ToSet(db)
  BY DEF There
<1> HIDE DEF names, there
<1>4. /\ names \in Seq(ToSet(names)) /\ Apart(names)
      /\ \A x : x \in ToSet(names) <=> \E t \in there : x = NameTold(b, t)
  BY <1>1 DEF ListsAll
<1>5. IsInjective(names)
  BY <1>4 DEF Apart, IsInjective
<1>6. ToSet(names) = {<<IF b = "sqlite" THEN None ELSE t.schema, t.name>> : t \in there}
  BY <1>4 DEF NameTold, SchemaTold
<1>7. ASSUME NEW i \in DOMAIN names
      PROVE  LET read == ReadTable(b, db, current, names[i][1], names[i][2], None, {})
             IN \E t \in there : t.name = names[i][2] /\ names[i][1] \in {None, t.schema} /\ HasItsColumns(read, t)
  <2>1. names[i] \in ToSet(names)
    BY DEF ToSet
  <2>2. PICK t \in there : names[i] = NameTold(b, t)
    BY <1>4, <2>1
  <2>3. names[i][1] = SchemaTold(b, t) /\ names[i][2] = t.name
    BY <2>2 DEF NameTold
  <2>4. t \in ToSet(db)
    BY <1>3
  <2>5. PICK none : none = {}
    OBVIOUS
  <2>6. ReadTable(b, db, current, SchemaTold(b, t), t.name, None, none) =
          IF none \cap Needed # {} THEN None ELSE Whole(b, db, t, PolicyOf(b, None), none)
    BY <2>4, TableIsRead
  <2>7. HasItsColumns(Whole(b, db, t, PolicyOf(b, None), none), t)
    BY ColumnsAreDeclared
  <2>8. HasItsColumns(ReadTable(b, db, current, SchemaTold(b, t), t.name, None, none), t)
    BY <2>5, <2>6, <2>7
  <2>9. names[i][1] \in {None, t.schema}
    BY <2>3 DEF SchemaTold
  <2>10. QED
    BY <2>3, <2>5, <2>8, <2>9
<1>8. QED
  BY <1>2, <1>5, <1>6, <1>7, Zenon DEF ListsItsTables, names

(***************************************************************************)
(* Types.                                                                  *)
(***************************************************************************)

\* The rules are tried in turn.
InTurn(F, rules, n) ==
  /\ F[1] = FirstOf(rules) /\ F[n + 1] = "Unknown"
  /\ \A k \in 1 .. n : F[k] = IF rules[k][1] THEN rules[k][2] ELSE F[k + 1]

LEMMA RulesInTurn ==
  ASSUME NEW n \in Nat, NEW rules, Len(rules) = n
  PROVE  \E F : InTurn(F, rules, n)
<1> DEFINE I(k) == {j \in k .. n : rules[j][1]}
           F == [k \in 1 .. n + 1 |-> IF I(k) = {} THEN "Unknown" ELSE rules[Min(I(k))][2]]
<1>1. \A k \in 1 .. n + 1 : I(k) \in SUBSET Nat /\ \A j \in I(k) : k <= j
  OBVIOUS
<1>2. \A k \in 1 .. n + 1 : I(k) # {} => Min(I(k)) \in I(k) /\ \A y \in I(k) : Min(I(k)) <= y
  BY <1>1, MinIs
<1>3. F[1] = FirstOf(rules)
  <2> DEFINE at == SelectInSeq(rules, LAMBDA rule : rule[1])
  <2>1. at = IF I(1) # {} THEN Min(I(1)) ELSE 0
    BY DEF SelectInSeq
  <2>2. FirstOf(rules) = IF at = 0 THEN "Unknown" ELSE rules[at][2]
    BY DEF FirstOf
  <2>3. 1 \in 1 .. n + 1
    OBVIOUS
  <2> HIDE DEF I, at
  <2>4. F[1] = IF I(1) = {} THEN "Unknown" ELSE rules[Min(I(1))][2]
    BY <2>3
  <2>5. I(1) # {} => Min(I(1)) # 0
    BY <1>1, <1>2, <2>3
  <2>6. QED
    BY <2>1, <2>2, <2>4, <2>5
<1>4. F[n + 1] = "Unknown"
  <2>1. I(n + 1) = {} /\ n + 1 \in 1 .. n + 1
    OBVIOUS
  <2> HIDE DEF I
  <2>2. QED
    BY <2>1
<1>5. ASSUME NEW k \in 1 .. n
      PROVE  F[k] = IF rules[k][1] THEN rules[k][2] ELSE F[k + 1]
  <2>1. k \in 1 .. n + 1 /\ k + 1 \in 1 .. n + 1 /\ k \in Nat
    OBVIOUS
  <2>2. CASE rules[k][1]
    <3>1. k \in I(k)
      BY <2>1, <2>2
    <3>2. PICK m : m = Min(I(k))
      OBVIOUS
    <3>3. m \in I(k) /\ m <= k /\ k <= m /\ m \in Nat
      BY <1>1, <1>2, <2>1, <3>1, <3>2
    <3>4. m = k
      BY <2>1, <3>3
    <3> HIDE DEF I
    <3>5. QED
      BY <2>1, <2>2, <3>1, <3>2, <3>4
  <2>3. CASE ~rules[k][1]
    <3>1. I(k) = I(k + 1)
      <4>1. \A j \in k .. n : j = k \/ j \in k + 1 .. n
        BY <2>1
      <4>2. k + 1 .. n \subseteq k .. n
        BY <2>1
      <4>3. QED
        BY <2>3, <4>1, <4>2
    <3> HIDE DEF I
    <3>2. QED
      BY <2>1, <2>3, <3>1
  <2>4. QED
    BY <2>2, <2>3
<1> HIDE DEF F
<1>6. QED
  BY <1>3, <1>4, <1>5 DEF InTurn

LEMMA OfOne ==
  ASSUME NEW x
  PROVE  ToSet(<<x>>) = {x}
<1>1. DOMAIN <<x>> = {1} /\ <<x>>[1] = x
  OBVIOUS
<1>2. QED
  BY <1>1, SMT DEF ToSet

LEMMA OfTwo ==
  ASSUME NEW x, NEW y
  PROVE  ToSet(<<x, y>>) = {x, y}
<1>1. DOMAIN <<x, y>> = {1, 2} /\ <<x, y>>[1] = x /\ <<x, y>>[2] = y
  OBVIOUS
<1>2. QED
  BY <1>1, SMT DEF ToSet

LEMMA OfFive ==
  ASSUME NEW x, NEW y, NEW z, NEW v
  PROVE  ToSet(<<x, y, z, x, v>>) = {x, y, z, v}
<1>1. PICK s : s = <<x, y, z, x, v>>
  OBVIOUS
<1>2. DOMAIN s = {1, 2, 3, 4, 5}
  BY <1>1, SMT
<1>3. s[1] = x /\ s[2] = y /\ s[3] = z /\ s[4] = x /\ s[5] = v
  BY <1>1
<1>4. ToSet(s) = {x, y, z, v}
  BY <1>2, <1>3, Zenon DEF ToSet
<1>5. QED
  BY <1>1, <1>4

LEMMA SqliteTypes ==
  /\ SqliteClass(<<"big", "int">>) = "Integer"
  /\ SqliteClass(<<"var", "char">>) = "Text"
  /\ SqliteClass(<<"date">>) = "Date"
  /\ SqliteClass(<<"date", "time">>) = "Timestamp"
  /\ SqliteClass(<<"dec", "imal">>) = "Decimal"
<1>1. \A t : SqliteClass(t) = FirstOf(SqliteRules(t))
  BY DEF SqliteClass
<1>2. \A t : Len(SqliteRules(t)) = 8
  BY DEF SqliteRules
<1>3. \A t : \E F : InTurn(F, SqliteRules(t), 8)
  BY <1>2, RulesInTurn
<1>4. SqliteClass(<<"big", "int">>) = "Integer"
  <2>1. PICK t, rules : t = <<"big", "int">> /\ rules = SqliteRules(t)
    OBVIOUS
  <2>2. ToSet(t) = {"big", "int"}
    BY <2>1, OfTwo
  <2>3. rules[1][1] /\ rules[1][2] = "Integer"
    BY <2>1, <2>2 DEF SqliteRules, Is, Begins, Holds
  <2>4. PICK F : InTurn(F, rules, 8)
    BY <1>3, <2>1
  <2>5. FirstOf(rules) = "Integer"
    BY <2>3, <2>4 DEF InTurn
  <2>6. QED
    BY <1>1, <2>1, <2>5
<1>5. SqliteClass(<<"var", "char">>) = "Text"
  <2>1. PICK t, rules : t = <<"var", "char">> /\ rules = SqliteRules(t)
    OBVIOUS
  <2>2. ToSet(t) = {"var", "char"}
    BY <2>1, OfTwo
  <2>3. ~rules[1][1] /\ ~rules[2][1] /\ ~rules[3][1] /\ rules[4][1] /\ rules[4][2] = "Text"
    BY <2>1, <2>2 DEF SqliteRules, Is, Begins, Holds
  <2>4. PICK F : InTurn(F, rules, 8)
    BY <1>3, <2>1
  <2>5. FirstOf(rules) = "Text"
    BY <2>3, <2>4 DEF InTurn
  <2>6. QED
    BY <1>1, <2>1, <2>5
<1>6. SqliteClass(<<"date">>) = "Date"
  <2>1. PICK t, rules : t = <<"date">> /\ rules = SqliteRules(t)
    OBVIOUS
  <2>2. ToSet(t) = {"date"}
    BY <2>1, OfOne
  <2>3. ~rules[1][1] /\ ~rules[2][1] /\ ~rules[3][1] /\ ~rules[4][1] /\ ~rules[5][1] /\ rules[6][1] /\
        rules[6][2] = "Date"
    BY <2>1, <2>2 DEF SqliteRules, Is, Begins, Holds
  <2>4. PICK F : InTurn(F, rules, 8)
    BY <1>3, <2>1
  <2>5. FirstOf(rules) = "Date"
    BY <2>3, <2>4 DEF InTurn
  <2>6. QED
    BY <1>1, <2>1, <2>5
<1>7. SqliteClass(<<"date", "time">>) = "Timestamp"
  <2>1. PICK t, rules : t = <<"date", "time">> /\ rules = SqliteRules(t)
    OBVIOUS
  <2>2. ToSet(t) = {"date", "time"}
    BY <2>1, OfTwo
  <2>3. ~rules[1][1] /\ ~rules[2][1] /\ ~rules[3][1] /\ ~rules[4][1] /\ ~rules[5][1] /\ ~rules[6][1] /\
        rules[7][1] /\ rules[7][2] = "Timestamp"
    BY <2>1, <2>2 DEF SqliteRules, Is, Begins, Holds
  <2>4. PICK F : InTurn(F, rules, 8)
    BY <1>3, <2>1
  <2>5. FirstOf(rules) = "Timestamp"
    BY <2>3, <2>4 DEF InTurn
  <2>6. QED
    BY <1>1, <2>1, <2>5
<1>8. SqliteClass(<<"dec", "imal">>) = "Decimal"
  <2>1. PICK t, rules : t = <<"dec", "imal">> /\ rules = SqliteRules(t)
    OBVIOUS
  <2>2. ToSet(t) = {"dec", "imal"}
    BY <2>1, OfTwo
  <2>3. ~rules[1][1] /\ ~rules[2][1] /\ rules[3][1] /\ rules[3][2] = "Decimal"
    BY <2>1, <2>2 DEF SqliteRules, Is, Begins, Holds
  <2>4. PICK F : InTurn(F, rules, 8)
    BY <1>3, <2>1
  <2>5. FirstOf(rules) = "Decimal"
    BY <2>3, <2>4 DEF InTurn
  <2>6. QED
    BY <1>1, <2>1, <2>5
<1>9. QED
  BY <1>4, <1>5, <1>6, <1>7, <1>8

LEMMA PostgresTypes ==
  /\ PostgresClass(<<"int", "eger">>) = "Integer"
  /\ PostgresClass(<<"char", "acter varying">>) = "Text"
  /\ PostgresClass(<<"double precision">>) = "Float"
  /\ PostgresClass(<<"time", " with time zone">>) = "Time"
  /\ PostgresClass(<<"time", "stamp", " with ", "time", " zone">>) = "Timestamp"
<1>1. \A t : PostgresClass(t) = FirstOf(PostgresRules(t))
  BY DEF PostgresClass
<1>2. \A t : Len(PostgresRules(t)) = 12
  BY DEF PostgresRules
<1>3. \A t : \E F : InTurn(F, PostgresRules(t), 12)
  BY <1>2, RulesInTurn
<1>4. PostgresClass(<<"int", "eger">>) = "Integer"
  <2>1. PICK t, rules : t = <<"int", "eger">> /\ rules = PostgresRules(t)
    OBVIOUS
  <2>2. ToSet(t) = {"int", "eger"}
    BY <2>1, OfTwo
  <2>3. rules[1][1] /\ rules[1][2] = "Integer"
    BY <2>1, <2>2 DEF PostgresRules, Is, Begins, Holds
  <2>4. PICK F : InTurn(F, rules, 12)
    BY <1>3, <2>1
  <2>5. FirstOf(rules) = "Integer"
    BY <2>3, <2>4 DEF InTurn
  <2>6. QED
    BY <1>1, <2>1, <2>5
<1>5. PostgresClass(<<"char", "acter varying">>) = "Text"
  <2>1. PICK t, rules : t = <<"char", "acter varying">> /\ rules = PostgresRules(t)
    OBVIOUS
  <2>2. ToSet(t) = {"char", "acter varying"}
    BY <2>1, OfTwo
  <2>3. ~rules[1][1] /\ ~rules[2][1] /\ ~rules[3][1] /\ rules[4][1] /\ rules[4][2] = "Text"
    BY <2>1, <2>2 DEF PostgresRules, Is, Begins, Holds
  <2>4. PICK F : InTurn(F, rules, 12)
    BY <1>3, <2>1
  <2>5. FirstOf(rules) = "Text"
    BY <2>3, <2>4 DEF InTurn
  <2>6. QED
    BY <1>1, <2>1, <2>5
<1>6. PostgresClass(<<"double precision">>) = "Float"
  <2>1. PICK t, rules : t = <<"double precision">> /\ rules = PostgresRules(t)
    OBVIOUS
  <2>2. ToSet(t) = {"double precision"}
    BY <2>1, OfOne
  <2>3. ~rules[1][1] /\ rules[2][1] /\ rules[2][2] = "Float"
    BY <2>1, <2>2 DEF PostgresRules, Is, Begins, Holds
  <2>4. PICK F : InTurn(F, rules, 12)
    BY <1>3, <2>1
  <2>5. FirstOf(rules) = "Float"
    BY <2>3, <2>4 DEF InTurn
  <2>6. QED
    BY <1>1, <2>1, <2>5
<1>7. PostgresClass(<<"time", " with time zone">>) = "Time"
  <2>1. PICK t, rules : t = <<"time", " with time zone">> /\ rules = PostgresRules(t)
    OBVIOUS
  <2>2. ToSet(t) = {"time", " with time zone"}
    BY <2>1, OfTwo
  <2>3. ~rules[1][1] /\ ~rules[2][1] /\ ~rules[3][1] /\ ~rules[4][1] /\ ~rules[5][1] /\ ~rules[6][1] /\
        ~rules[7][1] /\ rules[8][1] /\ rules[8][2] = "Time"
    BY <2>1, <2>2 DEF PostgresRules, Is, Begins, Holds
  <2>4. PICK F : InTurn(F, rules, 12)
    BY <1>3, <2>1
  <2>5. FirstOf(rules) = "Time"
    BY <2>3, <2>4 DEF InTurn
  <2>6. QED
    BY <1>1, <2>1, <2>5
<1>8. PostgresClass(<<"time", "stamp", " with ", "time", " zone">>) = "Timestamp"
  <2>1. PICK t, rules : t = <<"time", "stamp", " with ", "time", " zone">> /\ rules = PostgresRules(t)
    OBVIOUS
  <2>2. ToSet(t) = {"time", "stamp", " with ", " zone"}
    <3>1. PICK x, y, z, v : x = "time" /\ y = "stamp" /\ z = " with " /\ v = " zone"
      OBVIOUS
    <3>2. t = <<x, y, z, x, v>>
      BY <2>1, <3>1
    <3>3. ToSet(<<x, y, z, x, v>>) = {x, y, z, v}
      BY OfFive
    <3>4. QED
      BY <3>1, <3>2, <3>3
  <2>3. ~rules[1][1] /\ ~rules[2][1] /\ ~rules[3][1] /\ ~rules[4][1] /\ ~rules[5][1] /\ ~rules[6][1] /\
        rules[7][1] /\ rules[7][2] = "Timestamp"
    BY <2>1, <2>2 DEF PostgresRules, Is, Begins, Holds
  <2>4. PICK F : InTurn(F, rules, 12)
    BY <1>3, <2>1
  <2>5. FirstOf(rules) = "Timestamp"
    BY <2>3, <2>4 DEF InTurn
  <2>6. QED
    BY <1>1, <2>1, <2>5
<1>9. QED
  BY <1>4, <1>5, <1>6, <1>7, <1>8

LEMMA DuckdbTypes ==
  /\ DuckdbClass(<<"int", "eger">>) = "Integer"
  /\ DuckdbClass(<<"double">>) = "Float"
  /\ DuckdbClass(<<"date">>) = "Date"
  /\ DuckdbClass(<<"time">>) = "Time"
  /\ DuckdbClass(<<"time", "stamp", " with ", "time", " zone">>) = "Timestamp"
<1>1. \A t : DuckdbClass(t) = FirstOf(DuckdbRules(t))
  BY DEF DuckdbClass
<1>2. \A t : Len(DuckdbRules(t)) = 12
  BY DEF DuckdbRules
<1>3. \A t : \E F : InTurn(F, DuckdbRules(t), 12)
  BY <1>2, RulesInTurn
<1>4. DuckdbClass(<<"int", "eger">>) = "Integer"
  <2>1. PICK t, rules : t = <<"int", "eger">> /\ rules = DuckdbRules(t)
    OBVIOUS
  <2>2. ToSet(t) = {"int", "eger"}
    BY <2>1, OfTwo
  <2>3. rules[1][1] /\ rules[1][2] = "Integer"
    BY <2>1, <2>2 DEF DuckdbRules, Is, Begins, Holds
  <2>4. PICK F : InTurn(F, rules, 12)
    BY <1>3, <2>1
  <2>5. FirstOf(rules) = "Integer"
    BY <2>3, <2>4 DEF InTurn
  <2>6. QED
    BY <1>1, <2>1, <2>5
<1>5. DuckdbClass(<<"double">>) = "Float"
  <2>1. PICK t, rules : t = <<"double">> /\ rules = DuckdbRules(t)
    OBVIOUS
  <2>2. ToSet(t) = {"double"}
    BY <2>1, OfOne
  <2>3. ~rules[1][1] /\ rules[2][1] /\ rules[2][2] = "Float"
    BY <2>1, <2>2 DEF DuckdbRules, Is, Begins, Holds
  <2>4. PICK F : InTurn(F, rules, 12)
    BY <1>3, <2>1
  <2>5. FirstOf(rules) = "Float"
    BY <2>3, <2>4 DEF InTurn
  <2>6. QED
    BY <1>1, <2>1, <2>5
<1>6. DuckdbClass(<<"date">>) = "Date"
  <2>1. PICK t, rules : t = <<"date">> /\ rules = DuckdbRules(t)
    OBVIOUS
  <2>2. ToSet(t) = {"date"}
    BY <2>1, OfOne
  <2>3. ~rules[1][1] /\ ~rules[2][1] /\ ~rules[3][1] /\ ~rules[4][1] /\ ~rules[5][1] /\ rules[6][1] /\
        rules[6][2] = "Date"
    BY <2>1, <2>2 DEF DuckdbRules, Is, Begins, Holds
  <2>4. PICK F : InTurn(F, rules, 12)
    BY <1>3, <2>1
  <2>5. FirstOf(rules) = "Date"
    BY <2>3, <2>4 DEF InTurn
  <2>6. QED
    BY <1>1, <2>1, <2>5
<1>7. DuckdbClass(<<"time">>) = "Time"
  <2>1. PICK t, rules : t = <<"time">> /\ rules = DuckdbRules(t)
    OBVIOUS
  <2>2. ToSet(t) = {"time"}
    BY <2>1, OfOne
  <2>3. ~rules[1][1] /\ ~rules[2][1] /\ ~rules[3][1] /\ ~rules[4][1] /\ ~rules[5][1] /\ ~rules[6][1] /\
        ~rules[7][1] /\ rules[8][1] /\ rules[8][2] = "Time"
    BY <2>1, <2>2 DEF DuckdbRules, Is, Begins, Holds
  <2>4. PICK F : InTurn(F, rules, 12)
    BY <1>3, <2>1
  <2>5. FirstOf(rules) = "Time"
    BY <2>3, <2>4 DEF InTurn
  <2>6. QED
    BY <1>1, <2>1, <2>5
<1>8. DuckdbClass(<<"time", "stamp", " with ", "time", " zone">>) = "Timestamp"
  <2>1. PICK t, rules : t = <<"time", "stamp", " with ", "time", " zone">> /\ rules = DuckdbRules(t)
    OBVIOUS
  <2>2. ToSet(t) = {"time", "stamp", " with ", " zone"}
    <3>1. PICK x, y, z, v : x = "time" /\ y = "stamp" /\ z = " with " /\ v = " zone"
      OBVIOUS
    <3>2. t = <<x, y, z, x, v>>
      BY <2>1, <3>1
    <3>3. ToSet(<<x, y, z, x, v>>) = {x, y, z, v}
      BY OfFive
    <3>4. QED
      BY <3>1, <3>2, <3>3
  <2>3. ~rules[1][1] /\ ~rules[2][1] /\ ~rules[3][1] /\ ~rules[4][1] /\ ~rules[5][1] /\ ~rules[6][1] /\
        rules[7][1] /\ rules[7][2] = "Timestamp"
    BY <2>1, <2>2 DEF DuckdbRules, Is, Begins, Holds
  <2>4. PICK F : InTurn(F, rules, 12)
    BY <1>3, <2>1
  <2>5. FirstOf(rules) = "Timestamp"
    BY <2>3, <2>4 DEF InTurn
  <2>6. QED
    BY <1>1, <2>1, <2>5
<1>9. QED
  BY <1>4, <1>5, <1>6, <1>7, <1>8

LEMMA SnowflakeTypes ==
  /\ SnowflakeClass(<<"timestamp", "_ntz">>) = "Timestamp"
  /\ SnowflakeClass(<<"time">>) = "Time"
  /\ SnowflakeClass(<<"number">>) = "Decimal"
<1>1. \A t : SnowflakeClass(t) = FirstOf(SnowflakeRules(t))
  BY DEF SnowflakeClass
<1>2. \A t : Len(SnowflakeRules(t)) = 10
  BY DEF SnowflakeRules
<1>3. \A t : \E F : InTurn(F, SnowflakeRules(t), 10)
  BY <1>2, RulesInTurn
<1>4. SnowflakeClass(<<"timestamp", "_ntz">>) = "Timestamp"
  <2>1. PICK t, rules : t = <<"timestamp", "_ntz">> /\ rules = SnowflakeRules(t)
    OBVIOUS
  <2>2. ToSet(t) = {"timestamp", "_ntz"}
    BY <2>1, OfTwo
  <2>3. ~rules[1][1] /\ ~rules[2][1] /\ ~rules[3][1] /\ ~rules[4][1] /\ ~rules[5][1] /\ ~rules[6][1] /\
        rules[7][1] /\ rules[7][2] = "Timestamp"
    BY <2>1, <2>2 DEF SnowflakeRules, Is, Begins, Holds
  <2>4. PICK F : InTurn(F, rules, 10)
    BY <1>3, <2>1
  <2>5. FirstOf(rules) = "Timestamp"
    BY <2>3, <2>4 DEF InTurn
  <2>6. QED
    BY <1>1, <2>1, <2>5
<1>5. SnowflakeClass(<<"time">>) = "Time"
  <2>1. PICK t, rules : t = <<"time">> /\ rules = SnowflakeRules(t)
    OBVIOUS
  <2>2. ToSet(t) = {"time"}
    BY <2>1, OfOne
  <2>3. ~rules[1][1] /\ ~rules[2][1] /\ ~rules[3][1] /\ ~rules[4][1] /\ ~rules[5][1] /\ ~rules[6][1] /\
        ~rules[7][1] /\ rules[8][1] /\ rules[8][2] = "Time"
    BY <2>1, <2>2 DEF SnowflakeRules, Is, Begins, Holds
  <2>4. PICK F : InTurn(F, rules, 10)
    BY <1>3, <2>1
  <2>5. FirstOf(rules) = "Time"
    BY <2>3, <2>4 DEF InTurn
  <2>6. QED
    BY <1>1, <2>1, <2>5
<1>6. SnowflakeClass(<<"number">>) = "Decimal"
  <2>1. PICK t, rules : t = <<"number">> /\ rules = SnowflakeRules(t)
    OBVIOUS
  <2>2. ToSet(t) = {"number"}
    BY <2>1, OfOne
  <2>3. ~rules[1][1] /\ rules[2][1] /\ rules[2][2] = "Decimal"
    BY <2>1, <2>2 DEF SnowflakeRules, Is, Begins, Holds
  <2>4. PICK F : InTurn(F, rules, 10)
    BY <1>3, <2>1
  <2>5. FirstOf(rules) = "Decimal"
    BY <2>3, <2>4 DEF InTurn
  <2>6. QED
    BY <1>1, <2>1, <2>5
<1>7. QED
  BY <1>4, <1>5, <1>6

LEMMA MysqlTypes ==
  /\ MysqlClass(<<"tinytext">>) = "Text"
  /\ MysqlClass(<<"tinyint">>) = "Integer"
  /\ MysqlClass(<<"datetime">>) = "Timestamp"
<1>1. \A t : MysqlClass(t) = FirstOf(MysqlRules(t))
  BY DEF MysqlClass
<1>2. \A t : Len(MysqlRules(t)) = 10
  BY DEF MysqlRules
<1>3. \A t : \E F : InTurn(F, MysqlRules(t), 10)
  BY <1>2, RulesInTurn
<1>4. MysqlClass(<<"tinytext">>) = "Text"
  <2>1. PICK t, rules : t = <<"tinytext">> /\ rules = MysqlRules(t)
    OBVIOUS
  <2>2. ToSet(t) = {"tinytext"}
    BY <2>1, OfOne
  <2>3. ~rules[1][1] /\ ~rules[2][1] /\ ~rules[3][1] /\ rules[4][1] /\ rules[4][2] = "Text"
    BY <2>1, <2>2 DEF MysqlRules, Is, Begins, Holds
  <2>4. PICK F : InTurn(F, rules, 10)
    BY <1>3, <2>1
  <2>5. FirstOf(rules) = "Text"
    BY <2>3, <2>4 DEF InTurn
  <2>6. QED
    BY <1>1, <2>1, <2>5
<1>5. MysqlClass(<<"tinyint">>) = "Integer"
  <2>1. PICK t, rules : t = <<"tinyint">> /\ rules = MysqlRules(t)
    OBVIOUS
  <2>2. ToSet(t) = {"tinyint"}
    BY <2>1, OfOne
  <2>3. rules[1][1] /\ rules[1][2] = "Integer"
    BY <2>1, <2>2 DEF MysqlRules, Is, Begins, Holds
  <2>4. PICK F : InTurn(F, rules, 10)
    BY <1>3, <2>1
  <2>5. FirstOf(rules) = "Integer"
    BY <2>3, <2>4 DEF InTurn
  <2>6. QED
    BY <1>1, <2>1, <2>5
<1>6. MysqlClass(<<"datetime">>) = "Timestamp"
  <2>1. PICK t, rules : t = <<"datetime">> /\ rules = MysqlRules(t)
    OBVIOUS
  <2>2. ToSet(t) = {"datetime"}
    BY <2>1, OfOne
  <2>3. ~rules[1][1] /\ ~rules[2][1] /\ ~rules[3][1] /\ ~rules[4][1] /\ ~rules[5][1] /\ ~rules[6][1] /\
        ~rules[7][1] /\ rules[8][1] /\ rules[8][2] = "Timestamp"
    BY <2>1, <2>2 DEF MysqlRules, Is, Begins, Holds
  <2>4. PICK F : InTurn(F, rules, 10)
    BY <1>3, <2>1
  <2>5. FirstOf(rules) = "Timestamp"
    BY <2>3, <2>4 DEF InTurn
  <2>6. QED
    BY <1>1, <2>1, <2>5
<1>7. QED
  BY <1>4, <1>5, <1>6

LEMMA MssqlTypes ==
  /\ MssqlClass(<<"bit">>) = "Bool"
  /\ MssqlClass(<<"datetime2">>) = "Timestamp"
  /\ MssqlClass(<<"uniqueidentifier">>) = "Uuid"
<1>1. \A t : MssqlClass(t) = FirstOf(MssqlRules(t))
  BY DEF MssqlClass
<1>2. \A t : Len(MssqlRules(t)) = 11
  BY DEF MssqlRules
<1>3. \A t : \E F : InTurn(F, MssqlRules(t), 11)
  BY <1>2, RulesInTurn
<1>4. MssqlClass(<<"bit">>) = "Bool"
  <2>1. PICK t, rules : t = <<"bit">> /\ rules = MssqlRules(t)
    OBVIOUS
  <2>2. ToSet(t) = {"bit"}
    BY <2>1, OfOne
  <2>3. ~rules[1][1] /\ ~rules[2][1] /\ ~rules[3][1] /\ ~rules[4][1] /\ rules[5][1] /\ rules[5][2] = "Bool"
    BY <2>1, <2>2 DEF MssqlRules, Is, Begins, Holds
  <2>4. PICK F : InTurn(F, rules, 11)
    BY <1>3, <2>1
  <2>5. FirstOf(rules) = "Bool"
    BY <2>3, <2>4 DEF InTurn
  <2>6. QED
    BY <1>1, <2>1, <2>5
<1>5. MssqlClass(<<"datetime2">>) = "Timestamp"
  <2>1. PICK t, rules : t = <<"datetime2">> /\ rules = MssqlRules(t)
    OBVIOUS
  <2>2. ToSet(t) = {"datetime2"}
    BY <2>1, OfOne
  <2>3. ~rules[1][1] /\ ~rules[2][1] /\ ~rules[3][1] /\ ~rules[4][1] /\ ~rules[5][1] /\ ~rules[6][1] /\
        ~rules[7][1] /\ rules[8][1] /\ rules[8][2] = "Timestamp"
    BY <2>1, <2>2 DEF MssqlRules, Is, Begins, Holds
  <2>4. PICK F : InTurn(F, rules, 11)
    BY <1>3, <2>1
  <2>5. FirstOf(rules) = "Timestamp"
    BY <2>3, <2>4 DEF InTurn
  <2>6. QED
    BY <1>1, <2>1, <2>5
<1>6. MssqlClass(<<"uniqueidentifier">>) = "Uuid"
  <2>1. PICK t, rules : t = <<"uniqueidentifier">> /\ rules = MssqlRules(t)
    OBVIOUS
  <2>2. ToSet(t) = {"uniqueidentifier"}
    BY <2>1, OfOne
  <2>3. ~rules[1][1] /\ ~rules[2][1] /\ ~rules[3][1] /\ ~rules[4][1] /\ ~rules[5][1] /\ ~rules[6][1] /\
        ~rules[7][1] /\ ~rules[8][1] /\ rules[9][1] /\ rules[9][2] = "Uuid"
    BY <2>1, <2>2 DEF MssqlRules, Is, Begins, Holds
  <2>4. PICK F : InTurn(F, rules, 11)
    BY <1>3, <2>1
  <2>5. FirstOf(rules) = "Uuid"
    BY <2>3, <2>4 DEF InTurn
  <2>6. QED
    BY <1>1, <2>1, <2>5
<1>7. QED
  BY <1>4, <1>5, <1>6

LEMMA BigqueryTypes ==
  /\ BigqueryClass(<<"interval">>) = "Text"
  /\ BigqueryClass(<<"int64">>) = "Integer"
  /\ BigqueryClass(<<"struct">>) = "Unknown"
<1>1. \A t : BigqueryClass(t) = FirstOf(BigqueryRules(t))
  BY DEF BigqueryClass
<1>2. \A t : Len(BigqueryRules(t)) = 10
  BY DEF BigqueryRules
<1>3. \A t : \E F : InTurn(F, BigqueryRules(t), 10)
  BY <1>2, RulesInTurn
<1>4. BigqueryClass(<<"interval">>) = "Text"
  <2>1. PICK t, rules : t = <<"interval">> /\ rules = BigqueryRules(t)
    OBVIOUS
  <2>2. ToSet(t) = {"interval"}
    BY <2>1, OfOne
  <2>3. rules[1][1] /\ rules[1][2] = "Text"
    BY <2>1, <2>2 DEF BigqueryRules, Is, Begins, Holds
  <2>4. PICK F : InTurn(F, rules, 10)
    BY <1>3, <2>1
  <2>5. FirstOf(rules) = "Text"
    BY <2>3, <2>4 DEF InTurn
  <2>6. QED
    BY <1>1, <2>1, <2>5
<1>5. BigqueryClass(<<"int64">>) = "Integer"
  <2>1. PICK t, rules : t = <<"int64">> /\ rules = BigqueryRules(t)
    OBVIOUS
  <2>2. ToSet(t) = {"int64"}
    BY <2>1, OfOne
  <2>3. ~rules[1][1] /\ ~rules[2][1] /\ rules[3][1] /\ rules[3][2] = "Integer"
    BY <2>1, <2>2 DEF BigqueryRules, Is, Begins, Holds
  <2>4. PICK F : InTurn(F, rules, 10)
    BY <1>3, <2>1
  <2>5. FirstOf(rules) = "Integer"
    BY <2>3, <2>4 DEF InTurn
  <2>6. QED
    BY <1>1, <2>1, <2>5
<1>6. BigqueryClass(<<"struct">>) = "Unknown"
  <2>1. PICK t, rules : t = <<"struct">> /\ rules = BigqueryRules(t)
    OBVIOUS
  <2>2. ToSet(t) = {"struct"}
    BY <2>1, OfOne
  <2>3. ~rules[1][1] /\ ~rules[2][1] /\ ~rules[3][1] /\ ~rules[4][1] /\ ~rules[5][1] /\ ~rules[6][1] /\
        ~rules[7][1] /\ ~rules[8][1] /\ ~rules[9][1] /\ ~rules[10][1]
    BY <2>1, <2>2 DEF BigqueryRules, Is, Begins, Holds
  <2>4. PICK F : InTurn(F, rules, 10)
    BY <1>3, <2>1
  <2>5. FirstOf(rules) = "Unknown"
    BY <2>3, <2>4 DEF InTurn
  <2>6. QED
    BY <1>1, <2>1, <2>5
<1>7. QED
  BY <1>4, <1>5, <1>6

\* A type is taken for what it is.  The classify functions of backends/
THEOREM TypesAreMeantForAll == TypesAreMeant
<1>1. ASSUME NEW b \in AllBackends, NEW type \in Meant[b]
      PROVE  ClassOf(b, type[1]) = type[2]
  <2>1. CASE b = "sqlite"
    BY <2>1, SqliteTypes DEF Meant, ClassOf
  <2>2. CASE b = "postgres"
    <3>1. \A t : ClassOf(b, t) = PostgresClass(t)
      BY <2>2 DEF ClassOf
    <3>2. type \in {<<<<"int", "eger">>, "Integer">>, <<<<"char", "acter varying">>, "Text">>,
                    <<<<"double precision">>, "Float">>, <<<<"time", " with time zone">>, "Time">>,
                    <<<<"time", "stamp", " with ", "time", " zone">>, "Timestamp">>}
      BY <2>2 DEF Meant
    <3>3. PostgresClass(type[1]) = type[2]
      <4>1. CASE type = <<<<"int", "eger">>, "Integer">>
        <5>1. type[1] = <<"int", "eger">> /\ type[2] = "Integer"
          BY <4>1
        <5>2. QED
          BY <5>1, PostgresTypes
      <4>2. CASE type = <<<<"char", "acter varying">>, "Text">>
        <5>1. type[1] = <<"char", "acter varying">> /\ type[2] = "Text"
          BY <4>2
        <5>2. QED
          BY <5>1, PostgresTypes
      <4>3. CASE type = <<<<"double precision">>, "Float">>
        <5>1. type[1] = <<"double precision">> /\ type[2] = "Float"
          BY <4>3
        <5>2. QED
          BY <5>1, PostgresTypes
      <4>4. CASE type = <<<<"time", " with time zone">>, "Time">>
        <5>1. type[1] = <<"time", " with time zone">> /\ type[2] = "Time"
          BY <4>4
        <5>2. QED
          BY <5>1, PostgresTypes
      <4>5. CASE type = <<<<"time", "stamp", " with ", "time", " zone">>, "Timestamp">>
        <5>1. type[1] = <<"time", "stamp", " with ", "time", " zone">> /\ type[2] = "Timestamp"
          BY <4>5
        <5>2. QED
          BY <5>1, PostgresTypes
      <4>6. QED
        BY <3>2, <4>1, <4>2, <4>3, <4>4, <4>5
    <3>4. QED
      BY <3>1, <3>3
  <2>3. CASE b = "duckdb"
    <3>1. \A t : ClassOf(b, t) = DuckdbClass(t)
      BY <2>3 DEF ClassOf
    <3>2. type \in {<<<<"int", "eger">>, "Integer">>, <<<<"double">>, "Float">>, <<<<"date">>, "Date">>,
                    <<<<"time">>, "Time">>,
                    <<<<"time", "stamp", " with ", "time", " zone">>, "Timestamp">>}
      BY <2>3 DEF Meant
    <3>3. DuckdbClass(type[1]) = type[2]
      <4>1. CASE type = <<<<"int", "eger">>, "Integer">>
        <5>1. type[1] = <<"int", "eger">> /\ type[2] = "Integer"
          BY <4>1
        <5>2. QED
          BY <5>1, DuckdbTypes
      <4>2. CASE type = <<<<"double">>, "Float">>
        <5>1. type[1] = <<"double">> /\ type[2] = "Float"
          BY <4>2
        <5>2. QED
          BY <5>1, DuckdbTypes
      <4>3. CASE type = <<<<"date">>, "Date">>
        <5>1. type[1] = <<"date">> /\ type[2] = "Date"
          BY <4>3
        <5>2. QED
          BY <5>1, DuckdbTypes
      <4>4. CASE type = <<<<"time">>, "Time">>
        <5>1. type[1] = <<"time">> /\ type[2] = "Time"
          BY <4>4
        <5>2. QED
          BY <5>1, DuckdbTypes
      <4>5. CASE type = <<<<"time", "stamp", " with ", "time", " zone">>, "Timestamp">>
        <5>1. type[1] = <<"time", "stamp", " with ", "time", " zone">> /\ type[2] = "Timestamp"
          BY <4>5
        <5>2. QED
          BY <5>1, DuckdbTypes
      <4>6. QED
        BY <3>2, <4>1, <4>2, <4>3, <4>4, <4>5
    <3>4. QED
      BY <3>1, <3>3
  <2>4. CASE b = "snowflake"
    BY <2>4, SnowflakeTypes DEF Meant, ClassOf
  <2>5. CASE b = "mysql"
    BY <2>5, MysqlTypes DEF Meant, ClassOf
  <2>6. CASE b = "mssql"
    BY <2>6, MssqlTypes DEF Meant, ClassOf
  <2>7. CASE b = "bigquery"
    BY <2>7, BigqueryTypes DEF Meant, ClassOf
  <2>8. QED
    BY <2>1, <2>2, <2>3, <2>4, <2>5, <2>6, <2>7 DEF AllBackends
<1>2. QED
  BY <1>1 DEF TypesAreMeant
====
