------------------------------ MODULE Validate ------------------------------
(***************************************************************************)
(* validate_sql (validate.rs): is every table and column a statement names *)
(* known to the cached schema?  Not a parser: two patterns pick out tables *)
(* and columns, and whatever they pick is looked up.                       *)
(*                                                                         *)
(* A statement is a sequence of tokens: names, keywords, punctuation and   *)
(* literals.  What the patterns do to text they do here to tokens: which   *)
(* token a match begins at, how far it goes, and that the next match       *)
(* begins after it.                                                        *)
(***************************************************************************)
EXTENDS Resolve

CONSTANTS
  Names,    \* names of tables, columns, schemas and aliases
  Likeness  \* Likeness[ref][n]: how alike ref and the name n are, as in Resolve

Keywords == {"SELECT", "FROM", "JOIN", "INNER", "AS", "ON", "WHERE", "COUNT"}
Operators == {"=", "<"}
Literal == "'...'"
Word == Names \cup Keywords

\* is_reserved_word
Reserved == Keywords

\* The token at i, if there is one.
At(sql, i) == IF i \in DOMAIN sql THEN sql[i] ELSE None

\* strip_string_literals: nothing is left of a literal but space.
StripLiterals(sql) == SelectSeq(sql, LAMBDA token : token # Literal)

(***************************************************************************)
(* Tables.  A reference is the longest run of words joined by dots; the    *)
(* word after it, or after AS, is taken with it, and is its alias unless   *)
(* it is reserved.                                                         *)
(***************************************************************************)

\* The last token of the reference that begins at i.
RefEnd(sql, i) ==
  LET end[j \in Nat] ==
        IF At(sql, j + 1) = "." /\ At(sql, j + 2) \in Word THEN end[j + 2] ELSE j
  IN end[i]

RefAt(sql, i) == [k \in 1 .. ((RefEnd(sql, i) - i) \div 2) + 1 |-> sql[i + 2 * (k - 1)]]

\* The token the pattern takes for an alias, or 0.
AliasAt(sql, i) ==
  LET next == RefEnd(sql, i) + 1
  IN CASE At(sql, next) = "AS" /\ At(sql, next + 1) \in Word -> next + 1
       [] ~(At(sql, next) = "AS" /\ At(sql, next + 1) \in Word)
            /\ At(sql, next) \in Word -> next
       [] OTHER -> 0

TableRef(sql, i) ==
  LET at == AliasAt(sql, i)
  IN [ref |-> RefAt(sql, i),
      alias |-> IF at = 0 \/ At(sql, at) \in Reserved THEN None ELSE sql[at]]

\* extract_tables
ExtractTables(sql) ==
  LET from[i \in Nat] ==
        IF i > Len(sql) THEN <<>>
        ELSE IF sql[i] \in {"FROM", "JOIN"} /\ At(sql, i + 1) \in Word
          THEN <<TableRef(sql, i + 1)>>
                 \o from[Max({AliasAt(sql, i + 1), RefEnd(sql, i + 1)}) + 1]
          ELSE from[i + 1]
  IN from[1]

(***************************************************************************)
(* Columns: the items of the first projection that are plain references,   *)
(* and every name before a comma or a comparison.                          *)
(***************************************************************************)

\* The tokens between the first SELECT and the first FROM after it.
Projection(sql) ==
  LET first == SelectInSeq(sql, LAMBDA token : token = "SELECT")
      last == SelectInSubSeq(sql, first + 1, Len(sql), LAMBDA token : token = "FROM")
  IN IF first = 0 \/ last = 0 THEN <<>> ELSE SubSeq(sql, first + 1, last - 1)

\* How many parentheses are open before token i.
Depth(tokens, i) ==
  LET depth[j \in Nat] ==
        CASE j = 0 -> 0
          [] j > 0 /\ tokens[j] = "(" -> depth[j - 1] + 1
          [] j > 0 /\ tokens[j] = ")" -> Max({0, depth[j - 1] - 1})
          [] OTHER -> depth[j - 1]
  IN depth[i - 1]

\* split_top_level_commas
Items(tokens) ==
  LET commas == {i \in DOMAIN tokens : tokens[i] = "," /\ Depth(tokens, i) = 0}
      starts == SetToSortSeq({1} \cup {i + 1 : i \in commas}, <)
      end(i) == IF i = Len(starts) THEN Len(tokens) ELSE starts[i + 1] - 2
  IN [i \in DOMAIN starts |-> SubSeq(tokens, starts[i], end(i))]

\* strip_alias: what stands before the first AS that is not in parentheses.
StripAlias(item) ==
  LET cuts == {i \in DOMAIN item : i > 1 /\ item[i] = "AS" /\ i < Len(item)
                                     /\ Depth(item, i) = 0}
  IN IF cuts = {} THEN item ELSE SubSeq(item, 1, Min(cuts) - 1)

\* parse_simple_identifier: one to three names with dots between them.
SimpleIdentifiers(item) ==
  LET names == RefAt(item, 1)
      n == Len(names)
  IN IF /\ At(item, 1) \in Word
        /\ RefEnd(item, 1) = Len(item)
        /\ n <= 3
        /\ names[n] \notin Reserved
       THEN {[qualifier |-> IF n = 1 THEN None ELSE names[n - 1], column |-> names[n]]}
       ELSE {}

\* The name at i and the one before it if there is a dot between them.
NameAt(sql, i) ==
  [qualifier |-> IF At(sql, i - 1) = "." /\ At(sql, i - 2) \in Word THEN sql[i - 2] ELSE None,
   column |-> sql[i]]

\* extract_columns.  The order matters to the order of the issues alone.
ExtractColumns(sql) ==
  UNION {SimpleIdentifiers(StripAlias(item)) : item \in ToSet(Items(Projection(sql)))}
    \cup {NameAt(sql, i) : i \in {k \in DOMAIN sql :
            sql[k] \in Word /\ At(sql, k + 1) \in Operators \cup {","}}}

(***************************************************************************)
(* validate_sql                                                            *)
(***************************************************************************)

Known(db, refs) == SelectSeq(refs, LAMBDA r : TableAt(db, r.ref) # 0)

\* Mutant: a bare column belongs to the first of several tables.
FirstAttribution(db, refs, c) ==
  LET known == Known(db, refs)
  IN IF c.qualifier = None /\ known # <<>> THEN TableAt(db, known[1].ref) ELSE 0

\* build_alias_map and the routing of a column: the place of the table it is
\* looked for in, or 0.  The last table a name was given to has it, whether it
\* was given as an alias or is the table's own.
Attribution(db, refs, c) ==
  LET known == Known(db, refs)
      place(i) == TableAt(db, known[i].ref)
      owner == SelectLastInSeq(known, LAMBDA r :
                 c.qualifier \in {r.alias, db[TableAt(db, r.ref)].name})
  IN CASE c.qualifier = None -> IF Len(known) = 1 THEN place(1) ELSE 0
       [] c.qualifier # None /\ owner # 0 -> place(owner)
       [] OTHER -> TableAt(db, <<c.qualifier>>)

TableIssue(db, ref) ==
  [kind |-> "table", table |-> None, name |-> ref,
   suggestion |-> FuzzyTable(db, Likeness[ref])]

\* check_column_on_table
ColumnIssue(t, column) ==
  LET r == ResolveColumn(t, Likeness[<<column>>])
  IN [kind |-> "column", table |-> t.name, name |-> <<column>>,
      suggestion |-> IF r.confidence >= Threshold THEN r.matched ELSE None]

\* The issues as a set: a column is reported once for a table, and how often
\* an unknown table is used is left out.
ValidateSql(db, text) ==
  LET sql == StripLiterals(text)
      refs == ExtractTables(sql)
      columns == {c \in ExtractColumns(sql) :
                    c.column \notin Reserved /\ Attribution(db, refs, c) # 0}
  IN {TableIssue(db, r.ref) : r \in {x \in ToSet(refs) : TableAt(db, x.ref) = 0}}
       \cup {ColumnIssue(db[Attribution(db, refs, c)], c.column) : c \in
                {x \in columns : ~HasColumn(db[Attribution(db, refs, x)], x.column)}}
=============================================================================
