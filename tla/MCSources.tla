----------------------------- MODULE MCSources -----------------------------
(***************************************************************************)
(* Reading databases, over bounded inputs: tables as they may be declared, *)
(* columns of few values, statements of few rows, and the caches the tools *)
(* read.  One input after the other is chosen; a property is about the     *)
(* answers to it.                                                          *)
(***************************************************************************)
EXTENDS Backends, Runners, Suggest, Reports, TLC

VARIABLES about,  \* what is asked about
          input   \* the arguments, or None before they are chosen

Ask(arguments) == input' = arguments

AskedAbout(subject) == about = subject /\ input # None

(***************************************************************************)
(* Tables: one of two columns under all kinds of keys, with references to  *)
(* another, beside a view, a table of the system and a namesake in another *)
(* schema.                                                                 *)
(***************************************************************************)

Cells == <<1, 1, 1, 2, None>>

DeclaredColumn(name, type, required, secret) ==
  [name |-> name, type |-> type, required |-> required, default |-> "d", generated |-> None,
   comment |-> "", named |-> secret, marked |-> FALSE,
   stored |-> IF type = <<"text">> THEN "text" ELSE "number", cells |-> Cells]

Key(name, kind, members) == [name |-> name, kind |-> kind, members |-> members, partial |-> FALSE]

Reference(name, members, to, key) ==
  [name |-> name, members |-> members, schema |-> "app", table |-> "parents", to |-> to, key |-> key,
   spelled |-> TRUE]

DeclaredTable(schema, name, columns, keys, refs) ==
  [schema |-> schema, name |-> name, view |-> FALSE, system |-> FALSE, columns |-> columns, keys |-> keys,
   refs |-> refs, checks |-> {[columns |-> {"a"}, expr |-> "e"]}, rows |-> -1, comment |-> ""]

Parents ==
  DeclaredTable("app", "parents", <<DeclaredColumn("x", <<"int", "eger">>, TRUE, FALSE),
                                    DeclaredColumn("y", <<"text">>, TRUE, FALSE)>>,
    {Key(1, "primary", <<"y", "x">>), Key(2, "unique", <<"x">>), Key(3, "unique", <<"x", "y">>),
     Key(4, "index", <<"y">>)}, {})

View == [DeclaredTable("app", "recent", <<>>, {}, {}) EXCEPT !.view = TRUE]
Internal == [DeclaredTable("catalog", "internal", <<>>, {}, {}) EXCEPT !.system = TRUE]

PrimaryKeys == {{}} \cup {{Key(5, "primary", m)} : m \in {<<"a">>, <<"b">>, <<"b", "a">>}}

OtherKeys ==
  {{}, {[Key(6, "index", <<"b">>) EXCEPT !.partial = TRUE]}, {Key(6, "plain", <<"a">>)}}
    \cup {{Key(6, kind, m)} : kind \in {"unique", "index"}, m \in {<<"a">>, <<"b", "a">>}}
    \cup {{Key(6, "index", m)} : m \in {<<"a", Expression>>, <<Expression>>}}

\* Within a schema or not, of one column or two, by the key or across it, and
\* under a name of its own or one another table has given away.
ReferenceSets ==
  {{}, {Reference(0, <<"a", "b">>, <<"x", "y">>, 3)}, {Reference(7, <<"a">>, <<"x">>, 2)}, {Reference(1, <<"a">>, <<"x">>, 2)},
   {Reference(7, <<"a", "b">>, <<"x", "y">>, 3)}, {Reference(7, <<"a", "b">>, <<"x", "y">>, 1)},
   {Reference(7, <<"b", "a">>, <<"y", "x">>, 1)}, {Reference(8, <<"b">>, <<"y">>, 4)},
   {[Reference(7, <<"b", "a">>, <<"y", "x">>, 1) EXCEPT !.spelled = FALSE]},
   {Reference(7, <<"a">>, <<"x">>, 2), Reference(8, <<"a", "b">>, <<"x", "y">>, 3)}}

Failures ==
  {{}, {"unique constraints"}, {"unique indexes"}, {"checks", "generated"}, {"statistics", "indexes"},
   {"table info"}, {"values"}, {"nulls", "distinct"}, {"columns"}, {"foreign keys"}}

ASSUME NoneIsNoSchema == None \notin {"app", "public", "catalog"}

DefaultSampling == [topK |-> 1, sampleRows |-> 2, redaction |-> [classifyValues |-> FALSE]]

AskTable ==
  \E primary \in PrimaryKeys, other \in OtherKeys, refs \in ReferenceSets, secret \in BOOLEAN,
     schema \in {"app", "public"}, failing \in Failures :
    /\ refs = {} \/ (failing = {} /\ ~secret)
    /\ Ask([t |-> DeclaredTable(schema, "children",
                    <<DeclaredColumn("a", <<"int", "eger">>, primary # {}, FALSE),
                      DeclaredColumn("b", <<"text">>, FALSE, secret)>>, primary \cup other, refs),
            failing |-> failing])

\* Of another schema, with a name for its reference that one of these may have.
Others == [Parents EXCEPT !.schema = "public", !.name = "others", !.keys = {},
                          !.refs = {Reference(8, <<"x">>, <<"x">>, 2)}]

DatabaseOf(t) == <<t, Parents, View, Internal, Others>>

\* What each backend says of a table is what was declared, for the shapes of
\* keys it can tell; queries that are not needed may fail.  backends/
TablesAreReadAsDeclared ==
  AskedAbout("table") =>
    /\ \A b \in AllBackends :
         /\ IsReadAsDeclared(b, DatabaseOf(input.t), input.t.schema, input.t, DefaultSampling, input.failing)
         /\ ListsItsTables(b, DatabaseOf(input.t), input.t.schema)
         /\ b # "mysql" => ListsItsTables(b, DatabaseOf(input.t), None)
    /\ TypesAreMeant

(***************************************************************************)
(* Columns: up to five cells, of which two make just the threshold, and    *)
(* the patterns up to six values match.                                    *)
(***************************************************************************)

SampledColumn(class, stored, named, marked, cells) ==
  [class |-> class, stored |-> stored, named |-> named, marked |-> marked, cells |-> cells]

\* Cells of which only how often each occurs matters, and numbers in any order.
CellLists(class) ==
  IF IsNumeric(class) THEN BoundedSeq({None, NaN, 1, 2}, 4)
  ELSE {cells \in BoundedSeq({None, 1, 2, 3}, 5) :
          \A i \in 1 .. Len(cells) - 1 : cells[i] = None \/ (cells[i + 1] # None /\ cells[i] <= cells[i + 1])}

Policies ==
  [topK : 1 .. 3, sampleRows : {2, 9}, redaction : {None, [classifyValues |-> FALSE]}]

AskColumn ==
  \E class \in {"Integer", "Text"}, named \in BOOLEAN, marked \in BOOLEAN, policy \in Policies,
     failing \in {{}, {"nulls"}, {"distinct"}, {"values"}} : \E cells \in CellLists(class) :
    /\ (named \/ marked) => (policy.redaction # None /\ failing = {})
    /\ Ask([col |-> SampledColumn(class, IF class = "Text" THEN "text" ELSE "number", named, marked, cells),
            policy |-> policy, failing |-> failing])

AskKind ==
  \E n \in 0 .. 5 : \E values \in [1 .. n -> {{}, {"Email"}, {"Ssn", "Phone"}, {"CreditCard", "Phone"}, {"Phone"}}] :
    Ask([values |-> values])

\* What is kept of the values of a column is true of the column, and nothing is
\* kept of one whose name is denied, nor by MySQL of one whose comment is.  The
\* other backends read no comments and do keep samples of such a column, which
\* sampling.rs:106-107 says are skipped.  What values look like is what most of
\* them are.  sampling.rs, pii.rs
SamplesAreHonest ==
  /\ AskedAbout("column") => SampleIsHonest(input.col, input.policy, input.failing)
  /\ AskedAbout("kind") => KindIsRight(input.values)

\* "If any single value covers more than SENTINEL_THRESHOLD of the sampled rows,
\* it's flagged" and no other is.
SentinelsAreReal == AskedAbout("column") => SentinelIsReal(input.col, input.policy)

(***************************************************************************)
(* Statements: up to four rows.                                            *)
(***************************************************************************)

AskRun ==
  \E scheme \in {"postgresql", "file", "mariadb", "sqlserver", "bigquery", "snowflake", "duckdb"},
     rows \in BoundedSeq([bytes : {3, 7}, tokens : {1, 3}], 4),
     sent \in {1, 4}, named \in BOOLEAN, budget \in {2, 3, 5, 8, 14} :
    /\ ConnectRunner(scheme) # None
    /\ named \/ rows = <<>>
    /\ sent = 4 \/ scheme = "snowflake"
    /\ Ask([backend |-> ConnectRunner(scheme), budget |-> budget,
            st |-> [rows |-> rows, sent |-> sent, named |-> named, header |-> 2, marker |-> 2]])

Plans == [answer : {"failed", "undecoded", "plan"}, rows : {None, 9}, cost : {None, "cost"}]

AskPlan == \E backend \in AllBackends, plan \in Plans : Ask([backend |-> backend, plan |-> plan])

(***************************************************************************)
(* Suggestions and reports.                                                *)
(***************************************************************************)

AskSuggestion ==
  \E b \in AllBackends, primary \in PrimaryKeys, refs \in ReferenceSets, max \in 0 .. 4, secret \in BOOLEAN,
     stem \in {None, "parent", "child"}, names \in SUBSET {<<"parents", "parent">>, <<"children", "child">>} :
    /\ max = 4 \/ (stem = None /\ names = {})
    /\ Ask([b |-> b, max |-> max, stem |-> [a |-> stem, b |-> None, x |-> "child", y |-> None], names |-> names,
            t |-> DeclaredTable("app", "children",
                    <<DeclaredColumn("a", <<"int", "eger">>, TRUE, FALSE),
                      DeclaredColumn("b", <<"text">>, TRUE, secret)>>, primary, refs)])

\* Suggested statements are about columns that are there and joins that were
\* declared, for a database its backend tells as declared, and suggested joins
\* are new.  examples.rs, overlap.rs
SuggestionsAreSound ==
  AskedAbout("suggestion") =>
    LET db == DatabaseOf(input.t)
        read(t) == ReadTable(input.b, db, "app", IF input.b = "sqlite" THEN None ELSE "app", t.name,
                             DefaultSampling, {})
    IN /\ TellsReferences(input.b, db, input.t) => ExamplesAreSound(db, input.t, read(input.t), input.max)
       /\ (input.b = "postgres" => NamedApart(db, "app")) =>
            OverlapsAreSound(<<read(input.t), read(Parents)>>, input.stem, input.names)

\* Databases to compare: tables by one name in two cases, of up to two columns.
ComparedColumns == [name : {<<1, 1>>, <<1, 2>>, <<2, 1>>}, type : {"int", "text"}]

ComparedTables ==
  [schema : {None}, name : {<<1, 1>>, <<2, 2>>}, columns : BoundedSeq(ComparedColumns, 2)]

Compared ==
  {<<>>} \cup {<<t>> : t \in ComparedTables}
    \cup {<<[schema |-> None, name |-> <<1, 2>>, columns |-> <<>>], t>> : t \in ComparedTables}

\* No two columns of a table are spelled alike.
AskDiff ==
  \E old \in Compared, new \in Compared :
    /\ \A t \in ToSet(old \o new) : IsInjective([i \in DOMAIN t.columns |-> t.columns[i].name])
    /\ Ask([old |-> old, new |-> new])

Listed == [time : {None, 1, 2, 3}, file : {"f"}]

AskSnapshot ==
  \E listed \in BoundedSeq(Listed, 3), n \in 0 .. 3 : Ask([listed |-> listed, n |-> n])

Databases == {"old", "new"}

\* Files as the cache writes them, and as they may be given by hand.
Files == [called : BOOLEAN, compressed : BOOLEAN, database : Databases]

\* The history of a directory has a file or none.
ListedFiles == [time : {None, 1}, file : Files]

ASSUME NoneIsNoFile ==
  None \notin Listed \cup ListedFiles \cup Files \cup Databases \cup (Databases \X Databases)

Directories ==
  {None} \cup [current : {None} \cup Files,
              listed : {<<>>} \cup {<<f>> : f \in ListedFiles}]

AskTool ==
  \E from \in {None} \cup Files, to \in {None} \cup Files, n \in {None, 0, 1, 2}, dir \in Directories,
     url \in {None, "live"} :
    /\ dir = None \/ n # None
    /\ dir = None \/ from = None \/ to = None
    /\ Ask([given |-> [from |-> from, to |-> to, n |-> n], dir |-> dir, url |-> url])

Documented ==
  [schema : {None, <<3>>, <<3, 4>>}, name : {<<4>>, <<4, 3>>, <<3, Underscore>>},
   columns : {<<>>, <<[name |-> 1, ordinal |-> 2], [name |-> 2, ordinal |-> 1]>>}, fks : {<<>>, << <<4>> >>}]

AskDocument ==
  \E db \in BoundedSeq(Documented, 2), backend \in {"sqlite", "mysql"} :
    Ask([db |-> db, backend |-> backend])

\* Two years from 1970, and days around a leap day that is and one that is not.
Days == (0 .. 800) \cup (10900 .. 11100) \cup (47400 .. 47700)

AskDate == \E days \in Days : Ask([days |-> days])

\* What the tools report is what is there: the difference of two databases
\* turns one into the other, the nth snapshot is the nth, files are read alike, a
\* document has every table and edge, and its date follows the calendar.  bin/
ReportsAreExact ==
  /\ AskedAbout("diff") => DiffIsExact(input.old, input.new)
  /\ AskedAbout("snapshot") => SnapshotIsTheNth(input.listed, input.n)
  /\ AskedAbout("tool") => ToolsReadCaches(input.given, input.dir, input.url)
  /\ AskedAbout("document") => DocumentIsComplete(input.db, input.backend)
  /\ AskedAbout("date") => DatesFollow(input.days)
=============================================================================
