----------------------------- MODULE Statements -----------------------------
(***************************************************************************)
(* What validate_sql is measured by: statements as somebody means them,    *)
(* the tokens they are written with, and which of them the schema can      *)
(* answer.  Nothing here is a translation of the code.                     *)
(*                                                                         *)
(*   items   the projection: a column, perhaps qualified, counted, named   *)
(*   from    a table and perhaps an alias for it                           *)
(*   second  another one, or None, and how it is joined: "JOIN", "INNER"   *)
(*           (INNER JOIN) or ","                                           *)
(*   filter  a column compared with a literal, or None                     *)
(***************************************************************************)
EXTENDS Validate, FiniteSets

Qualified(q, tokens) == IF q = None THEN tokens ELSE <<q, ".">> \o tokens

ItemText(item) ==
  LET name == Qualified(item.qualifier, <<item.column>>)
  IN (IF item.counted THEN <<"COUNT", "(">> \o name \o <<")">> ELSE name)
       \o (IF item.as = None THEN <<>> ELSE <<"AS", item.as>>)

SourceText(source) ==
  <<source.table>> \o (IF source.alias = None THEN <<>> ELSE <<source.alias>>)

\* The name a source has in the rest of the statement.
NameOf(source) == IF source.alias = None THEN source.table ELSE source.alias

SecondText(st) ==
  LET on == <<"ON", NameOf(st.from), ".", "id", "=", NameOf(st.second), ".", "id">>
  IN CASE st.second = None -> <<>>
       [] st.second # None /\ st.joined = "," -> <<",">> \o SourceText(st.second)
       [] st.second # None /\ st.joined = "JOIN" ->
            <<"JOIN">> \o SourceText(st.second) \o on
       [] OTHER -> <<"INNER", "JOIN">> \o SourceText(st.second) \o on

FilterText(st) ==
  IF st.filter = None THEN <<>>
  ELSE <<"WHERE">> \o Qualified(st.filter.qualifier, <<st.filter.column>>)
         \o <<"=", Literal>>

Text(st) ==
  LET items == [i \in DOMAIN st.items |->
                  (IF i = 1 THEN <<>> ELSE <<",">>) \o ItemText(st.items[i])]
  IN <<"SELECT">> \o FlattenSeq(items) \o <<"FROM">> \o SourceText(st.from)
       \o SecondText(st) \o FilterText(st)

(***************************************************************************)
(* What SQL makes of it.                                                   *)
(***************************************************************************)

Sources(st) == {st.from} \cup (IF st.second = None THEN {} ELSE {st.second})

ItemReferences(items) ==
  {[qualifier |-> item.qualifier, column |-> item.column] : item \in items}

FilterReferences(st) == IF st.filter = None THEN {} ELSE {st.filter}

References(st) == ItemReferences(ToSet(st.items)) \cup FilterReferences(st)

\* Those that are not an argument of a function.
PlainReferences(st) ==
  ItemReferences({item \in ToSet(st.items) : ~item.counted}) \cup FilterReferences(st)

\* The sources a reference may be to, by its qualifier alone.
Scope(st, r) == {s \in Sources(st) : r.qualifier \in {None, NameOf(s)}}

Has(db, s, column) ==
  TableAt(db, <<s.table>>) # 0 /\ HasColumn(db[TableAt(db, <<s.table>>)], column)

\* The schema can answer the statement: the names are those of tables and of
\* one column each.
Valid(db, st) ==
  /\ \A s \in Sources(st) : TableAt(db, <<s.table>>) # 0
  /\ st.second # None => NameOf(st.from) # NameOf(st.second)
  /\ \A r \in References(st) :
       Cardinality({s \in Scope(st, r) : Has(db, s, r.column)}) = 1

\* References that are wrong beyond doubt: there is one known source they can
\* be to, and it has no such column.
Wrong(db, st) ==
  {r \in PlainReferences(st) :
     /\ Cardinality(Scope(st, r)) = 1
     /\ \A s \in Scope(st, r) : TableAt(db, <<s.table>>) # 0 /\ ~Has(db, s, r.column)}

\* Statements the two patterns read as they are meant.  They misread three
\* forms: a named item before a comma, an unnamed table before a JOIN (which
\* they take for its alias) or a comma, and an alias that is the name of the
\* other table.
Plain(st) ==
  /\ \A i \in 1 .. Len(st.items) - 1 : st.items[i].as = None
  /\ st.second # None =>
       /\ st.joined # ","
       /\ st.joined = "JOIN" => st.from.alias # None
       /\ st.from.alias # st.second.table
       /\ st.second.alias # st.from.table

\* Of a statement written in the forms the patterns can read, validate_sql says
\* nothing when the schema can answer it, and reports every unknown table and
\* every plain reference that is wrong beyond doubt, with the table it is to.
PlainIsJudged(db, st) ==
  LET issues == ValidateSql(db, Text(st))
  IN Plain(st) =>
       /\ Valid(db, st) => issues = {}
       /\ \A s \in Sources(st) : TableAt(db, <<s.table>>) = 0 =>
            \E issue \in issues : issue.kind = "table" /\ issue.name = <<s.table>>
       /\ \A r \in Wrong(db, st) : \E issue \in issues :
            /\ issue.kind = "column"
            /\ issue.name = <<r.column>>
            /\ \E s \in Scope(st, r) : issue.table = s.table

\* validate.rs:19: "When in doubt the validator stays silent rather than emit a
\* false positive."
StaysSilent(db, st) == Valid(db, st) => ValidateSql(db, Text(st)) = {}
=============================================================================
