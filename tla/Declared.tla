------------------------------ MODULE Declared ------------------------------
(***************************************************************************)
(* A database as its schema was declared, what its catalogs answer, and    *)
(* the table a backend should make of it.  The catalogs belong to the      *)
(* databases: they are modelled from what the queries in backends/ expect. *)
(*                                                                         *)
(* A database is the sequence of its tables by schema and name.  A table   *)
(* has columns, in order; keys (kind "primary", "unique" or "index") with  *)
(* the columns or expressions they are over; and references, each from a   *)
(* sequence of columns to a sequence of columns of another table, which    *)
(* may be left unspelled when they are its primary key, and the key or     *)
(* index that has these columns.                                           *)
(* Constraints are named by numbers, for maps are walked in the order of   *)
(* names.                                                                  *)
(***************************************************************************)
EXTENDS Types, Sampling

Expression == "expression"  \* a member of an index that is no column

Keys(t, kinds) == {k \in t.keys : k.kind \in kinds}
PrimaryOf(t) == CHOOSE k \in Keys(t, {"primary"}) : TRUE

\* The columns that are the only member of a key.
OneMember(keys) == {k.members[1] : k \in {k \in keys : Len(k.members) = 1}} \ {Expression}

\* The table of that name.
TableIn(db, schema, name) ==
  SelectInSeq(db, LAMBDA t : t.schema = schema /\ t.name = name)

(***************************************************************************)
(* The parts of a table as it is read.                                     *)
(***************************************************************************)

ForeignKey(name, columns, table, to) ==
  [name |-> name, columns |-> columns, table |-> table, to |-> to]

\* A column as the first query of columns() leaves it.
Column(c, class, comment, ordinal) ==
  [name |-> c.name, class |-> class, nullable |-> ~c.required, default |-> c.default,
   comment |-> comment, ordinal |-> ordinal, check |-> None, unique |-> FALSE,
   generated |-> None, sample |-> None]

\* What sample_column is given of a column.
ToSample(c, class) ==
  [class |-> class, stored |-> c.stored, named |-> c.named, marked |-> c.marked, cells |-> c.cells]

ByPosition(rows) == SortedBy(rows, [i \in DOMAIN rows |-> rows[i].position])

\* Foreign keys from rows of [constraint, column, table, to]: one of each
\* constraint, in the order of the names, its rows in theirs.
Gathered(rows) ==
  LET constraints == {row.constraint : row \in ToSet(rows)}
      names == Ordering(constraints, Rising(constraints))
      of(i) == Picked(rows, {n \in DOMAIN rows : rows[n].constraint = names[i]})
  IN [i \in DOMAIN names |->
        ForeignKey(names[i], [j \in DOMAIN of(i) |-> of(i)[j].column], of(i)[1].table,
                   [j \in DOMAIN of(i) |-> of(i)[j].to])]

\* A table is read as a whole or not at all.
IntrospectTable(schema, name, columns, primaryKey, foreignKeys, rowCount, comment, failing) ==
  IF failing \cap {"columns", "primary key", "foreign keys", "row count", "comment"} # {} THEN None
  ELSE [schema |-> schema, name |-> name, columns |-> columns, primaryKey |-> primaryKey,
        foreignKeys |-> foreignKeys, rowCount |-> rowCount, comment |-> comment]

(***************************************************************************)
(* The information schema.  Constraints are joined by their names.         *)
(***************************************************************************)

Constraints(t) == Keys(t, {"primary", "unique"}) \cup t.refs

\* The columns constraints are over, numbered; a column of a reference with the
\* column it refers to.
KeyColumnUsage(db) ==
  UNION {UNION {{[constraint |-> c.name, schema |-> t.schema, table |-> t.name,
                  column |-> c.members[i], position |-> i, of |-> c] : i \in DOMAIN c.members} :
         c \in Constraints(t)} : t \in ToSet(db)}

\* The columns constraints depend on: those of a key, and for a reference
\* those it refers to, in the schema of the table they are in.
ConstraintColumnUsage(db) ==
  UNION {UNION {IF c \in t.refs
                  THEN {[constraint |-> c.name, schema |-> c.schema, table |-> c.table, column |-> x] :
                          x \in ToSet(c.to)}
                  ELSE {[constraint |-> c.name, schema |-> t.schema, table |-> t.name, column |-> x] :
                          x \in ToSet(c.members)} :
         c \in Constraints(t)} : t \in ToSet(db)}

\* Rows by the name of their constraint and their position; others tie.
Ordered(rows) ==
  LET positioned == ByPosition(SetToSeq(rows))
  IN SortedBy(positioned, [i \in DOMAIN positioned |-> positioned[i].constraint])

(***************************************************************************)
(* What is expected.                                                       *)
(***************************************************************************)

\* A column alone is a key when the table cannot hold two rows with one value of it.
UniqueAlone(t) == OneMember({k \in t.keys : k.kind # "plain" /\ ~k.partial})

\* What was read has the columns that were declared, in order,
HasItsColumns(read, t) ==
  [i \in DOMAIN read.columns |-> <<read.columns[i].name, read.columns[i].nullable>>] =
    [i \in DOMAIN t.columns |-> <<t.columns[i].name, ~t.columns[i].required>>]

\* the primary key in the order of the key,
HasItsKey(read, t) ==
  read.primaryKey = IF Keys(t, {"primary"}) = {} THEN None ELSE PrimaryOf(t).members

\* every reference once, its columns paired,
HasItsReferences(read, t) ==
  LET Pairing(columns, to) == {<<columns[i], to[i]>> : i \in DOMAIN columns}
  IN /\ Len(read.foreignKeys) = Cardinality(t.refs)
     /\ {<<fk.table, Pairing(fk.columns, fk.to)>> : fk \in ToSet(read.foreignKeys)} =
          {<<r.table, Pairing(r.members, r.to)>> : r \in t.refs}

\* and no column called unique that is not.
HasNoFalseKeys(read, t) ==
  {c.name : c \in {c \in ToSet(read.columns) : c.unique}} \subseteq UniqueAlone(t)
=============================================================================
