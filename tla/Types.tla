------------------------------- MODULE Types -------------------------------
(***************************************************************************)
(* The class of a column from the name of its type (the classify functions *)
(* of the backends).                                                       *)
(*                                                                         *)
(* A type is the sequence of the pieces its name is cut into, whatever the *)
(* case: "interval" is <<"int", "erval">>.  The functions ask whether a    *)
(* name is, begins with or contains a piece, in an order that matters.     *)
(***************************************************************************)
EXTENDS Catalog

Is(t, names) == \E n \in names : t = <<n>>
Begins(t, pieces) == t[1] \in pieces
Holds(t, pieces) == ToSet(t) \cap pieces # {}

\* Mutant: the last rule that applies.
LastOf(rules) ==
  LET i == SelectLastInSeq(rules, LAMBDA rule : rule[1])
  IN IF i = 0 THEN "Unknown" ELSE rules[i][2]

\* The class of the first rule that applies; a rule is <<applies, class>>.
FirstOf(rules) ==
  LET i == SelectInSeq(rules, LAMBDA rule : rule[1])
  IN IF i = 0 THEN "Unknown" ELSE rules[i][2]

SqliteRules(t) ==
  << <<Holds(t, {"int"}), "Integer">>,
     <<Holds(t, {"real", "floa", "doub"}), "Float">>,
     <<Holds(t, {"num", "dec"}), "Decimal">>,
     <<Holds(t, {"char", "text", "clob"}), "Text">>, <<Holds(t, {"bool"}), "Bool">>,
     <<Holds(t, {"date"}) /\ ~Holds(t, {"time"}), "Date">>,
     <<Holds(t, {"time"}), "Timestamp">>, <<Holds(t, {"blob"}), "Bytes">> >>
SqliteClass(t) == FirstOf(SqliteRules(t))

PostgresRules(t) ==
  << <<Begins(t, {"int"}) \/ Is(t, {"smallint", "bigint", "serial", "bigserial"}), "Integer">>,
     <<Begins(t, {"float"}) \/ Is(t, {"double precision", "real"}), "Float">>,
     <<Begins(t, {"numeric", "decimal"}), "Decimal">>,
     <<Begins(t, {"text", "varchar", "char"}) \/ Is(t, {"name"}), "Text">>,
     <<Is(t, {"boolean", "bool"}), "Bool">>, <<Is(t, {"date"}), "Date">>,
     <<Begins(t, {"time"}) /\ Holds(t, {"stamp"}), "Timestamp">>,
     <<Begins(t, {"time"}), "Time">>, <<Is(t, {"json", "jsonb"}), "Json">>,
     <<Is(t, {"uuid"}), "Uuid">>, <<Is(t, {"bytea"}), "Bytes">>,
     <<t[Len(t)] = "[]", "Array">> >>
PostgresClass(t) == FirstOf(PostgresRules(t))

DuckdbRules(t) ==
  << <<Begins(t, {"int"}) \/ Is(t, {"bigint", "smallint", "hugeint", "ubigint"}), "Integer">>,
     <<Begins(t, {"float", "double"}) \/ Is(t, {"real"}), "Float">>,
     <<Begins(t, {"decimal", "numeric"}), "Decimal">>,
     <<Is(t, {"varchar", "text"}) \/ Begins(t, {"char"}), "Text">>,
     <<Is(t, {"boolean"}), "Bool">>, <<Is(t, {"date"}), "Date">>,
     <<Holds(t, {"stamp"}), "Timestamp">>, <<Holds(t, {"time"}), "Time">>,
     <<Is(t, {"json"}), "Json">>, <<Is(t, {"uuid"}), "Uuid">>,
     <<Holds(t, {"blob"}), "Bytes">>, <<Holds(t, {"list", "array"}), "Array">> >>
DuckdbClass(t) == FirstOf(DuckdbRules(t))

SnowflakeRules(t) ==
  << <<Is(t, {"text", "string"}) \/ Begins(t, {"varchar", "char"}), "Text">>,
     <<Is(t, {"number"}) \/ Begins(t, {"decimal", "numeric"}), "Decimal">>,
     <<Is(t, {"int", "integer", "bigint", "smallint", "tinyint"}), "Integer">>,
     <<Is(t, {"float", "float4", "float8", "real", "double"}), "Float">>,
     <<Is(t, {"boolean"}), "Bool">>, <<Is(t, {"date"}), "Date">>,
     <<Begins(t, {"timestamp"}), "Timestamp">>, <<Is(t, {"time"}), "Time">>,
     <<Is(t, {"variant", "object", "array"}), "Json">>, <<Is(t, {"binary"}), "Bytes">> >>
SnowflakeClass(t) == FirstOf(SnowflakeRules(t))

MysqlRules(t) ==
  << <<Is(t, {"tinyint", "smallint", "mediumint", "int", "integer", "bigint", "year"}), "Integer">>,
     <<Is(t, {"float", "double", "real"}), "Float">>,
     <<Is(t, {"decimal", "numeric", "dec", "fixed"}), "Decimal">>,
     <<Is(t, {"char", "varchar", "tinytext", "text", "mediumtext", "longtext", "enum", "set"}), "Text">>,
     <<Is(t, {"bool", "boolean"}), "Bool">>, <<Is(t, {"date"}), "Date">>,
     <<Is(t, {"time"}), "Time">>, <<Is(t, {"datetime", "timestamp"}), "Timestamp">>,
     <<Is(t, {"json"}), "Json">>,
     <<Is(t, {"binary", "varbinary", "tinyblob", "blob", "mediumblob", "longblob", "bit"}), "Bytes">> >>
MysqlClass(t) == FirstOf(MysqlRules(t))

MssqlRules(t) ==
  << <<Is(t, {"tinyint", "smallint", "int", "bigint"}), "Integer">>,
     <<Is(t, {"real", "float"}), "Float">>,
     <<Is(t, {"decimal", "numeric", "money", "smallmoney"}), "Decimal">>,
     <<Is(t, {"char", "varchar", "text", "nchar", "nvarchar", "ntext", "sysname"}), "Text">>,
     <<Is(t, {"bit"}), "Bool">>, <<Is(t, {"date"}), "Date">>, <<Is(t, {"time"}), "Time">>,
     <<Is(t, {"datetime", "datetime2", "smalldatetime", "datetimeoffset"}), "Timestamp">>,
     <<Is(t, {"uniqueidentifier"}), "Uuid">>,
     <<Is(t, {"binary", "varbinary", "image", "rowversion"}), "Bytes">>,
     <<Is(t, {"xml", "json"}), "Json">> >>
MssqlClass(t) == FirstOf(MssqlRules(t))

BigqueryRules(t) ==
  << <<Is(t, {"string", "geography", "interval"}), "Text">>, <<Is(t, {"bytes"}), "Bytes">>,
     <<Is(t, {"integer", "int64"}), "Integer">>, <<Is(t, {"float", "float64"}), "Float">>,
     <<Is(t, {"numeric", "bignumeric"}), "Decimal">>, <<Is(t, {"boolean", "bool"}), "Bool">>,
     <<Is(t, {"timestamp", "datetime"}), "Timestamp">>, <<Is(t, {"date"}), "Date">>,
     <<Is(t, {"time"}), "Time">>, <<Is(t, {"json"}), "Json">> >>
BigqueryClass(t) == FirstOf(BigqueryRules(t))

ClassOf(backend, t) ==
  CASE backend = "sqlite" -> SqliteClass(t)       [] backend = "postgres" -> PostgresClass(t)
    [] backend = "duckdb" -> DuckdbClass(t)       [] backend = "snowflake" -> SnowflakeClass(t)
    [] backend = "mysql" -> MysqlClass(t)         [] backend = "mssql" -> MssqlClass(t)
    [] backend = "bigquery" -> BigqueryClass(t)

(***************************************************************************)
(* What is expected: names in which one type is hidden in another mean the *)
(* whole name.                                                             *)
(***************************************************************************)

Meant ==
  [sqlite |-> {<<<<"big", "int">>, "Integer">>, <<<<"var", "char">>, "Text">>, <<<<"date">>, "Date">>,
               <<<<"date", "time">>, "Timestamp">>, <<<<"dec", "imal">>, "Decimal">>},
   postgres |-> {<<<<"int", "eger">>, "Integer">>, <<<<"char", "acter varying">>, "Text">>,
                 <<<<"double precision">>, "Float">>, <<<<"time", " with time zone">>, "Time">>,
                 <<<<"time", "stamp", " with ", "time", " zone">>, "Timestamp">>},
   duckdb |-> {<<<<"int", "eger">>, "Integer">>, <<<<"double">>, "Float">>, <<<<"date">>, "Date">>,
               <<<<"time">>, "Time">>, <<<<"time", "stamp", " with ", "time", " zone">>, "Timestamp">>},
   snowflake |-> {<<<<"timestamp", "_ntz">>, "Timestamp">>, <<<<"time">>, "Time">>, <<<<"number">>, "Decimal">>},
   mysql |-> {<<<<"tinytext">>, "Text">>, <<<<"tinyint">>, "Integer">>, <<<<"datetime">>, "Timestamp">>},
   mssql |-> {<<<<"bit">>, "Bool">>, <<<<"datetime2">>, "Timestamp">>, <<<<"uniqueidentifier">>, "Uuid">>},
   bigquery |-> {<<<<"interval">>, "Text">>, <<<<"int64">>, "Integer">>, <<<<"struct">>, "Unknown">>}]
=============================================================================
