------------------------------ MODULE Suggest ------------------------------
(***************************************************************************)
(* Statements to learn from (examples.rs) and joins nobody declared        *)
(* (overlap.rs), made of tables as they were read (Declared).              *)
(*                                                                         *)
(* A statement is [select, from, where, join]; what it selects are pairs   *)
(* of an alias and a column.                                               *)
(***************************************************************************)
EXTENDS Declared

Statement(select, t, where, join) ==
  [select |-> select, from |-> QualifiedName(t), where |-> where, join |-> join]

Of(alias, name) == <<alias, name>>

\* The first column of the primary key, or the first column.
LeadingColumn(t) ==
  CASE t.primaryKey # None /\ t.primaryKey # <<>> -> t.primaryKey[1]
    [] (t.primaryKey = None \/ t.primaryKey = <<>>) /\ t.columns # <<>> -> t.columns[1].name
    [] OTHER -> None

Scan(t) ==
  <<Statement(IF LeadingColumn(t) = None THEN <<>> ELSE <<Of(None, LeadingColumn(t))>>, t, None, None)>>

ProjectedColumns(t) ==
  LET cols == SubSeq(t.columns, 1, Min({3, Len(t.columns)}))
  IN IF Len(cols) < 2 THEN <<>>
     ELSE <<Statement([i \in DOMAIN cols |-> Of(None, cols[i].name)], t, None, None)>>

\* The first column with a sentinel is asked for the other values.
WithoutSentinel(t) ==
  LET i == SelectInSeq(t.columns, LAMBDA c : c.sample # None /\ IsCategorical(c.class)
                                               /\ c.sample.sentinel # None)
  IN IF i = 0 THEN <<>>
     ELSE <<Statement(<<>>, t, <<t.columns[i].name, t.columns[i].sample.sentinel.value>>, None)>>

\* Mutant: the last column referred to.
JoinsLast(t) ==
  IF t.foreignKeys = <<>> \/ t.foreignKeys[1].columns = <<>> THEN <<>>
  ELSE LET fk == t.foreignKeys[1]
       IN <<Statement(<<Of("a", LeadingColumn(t)), Of("b", fk.to[Len(fk.to)])>>, t, None,
                      [table |-> fk.table, left |-> fk.columns[1], right |-> fk.to[Len(fk.to)]])>>

\* The first columns of the first foreign key.
JoinsFirst(t) ==
  IF t.foreignKeys = <<>> \/ t.foreignKeys[1].columns = <<>> \/ t.foreignKeys[1].to = <<>> THEN <<>>
  ELSE LET fk == t.foreignKeys[1]
           leading == IF LeadingColumn(t) = None THEN fk.columns[1] ELSE LeadingColumn(t)
       IN <<Statement(<<Of("a", leading), Of("b", fk.to[1])>>, t, None,
                      [table |-> fk.table, left |-> fk.columns[1], right |-> fk.to[1]])>>

GenerateExamples(t, max) ==
  LET all == Scan(t) \o ProjectedColumns(t) \o WithoutSentinel(t) \o JoinsFirst(t)
  IN SubSeq(all, 1, Min({max, Len(all)}))

ExamplesForDatabase(tables, max) ==
  [i \in DOMAIN tables |-> <<QualifiedName(tables[i]), GenerateExamples(tables[i], max)>>]

(***************************************************************************)
(* Overlaps.  A column may be the id of something: stem[column] is what,   *)
(* or None, and about says which names of tables have it in them.          *)
(***************************************************************************)

IsExplicit(t, other) ==
  \E fk \in ToSet(t.foreignKeys) : fk.table = other.name \/ <<fk.table>> = QualifiedName(other)

TargetColumn(other) ==
  IF other.primaryKey = None \/ other.primaryKey = <<>> THEN "id" ELSE other.primaryKey[1]

FindOverlaps(tables, stem, about) ==
  LET hint(i, j, c) == [left |-> i, column |-> c.name, right |-> j, target |-> TargetColumn(tables[j])]
      means(c, j) == stem[c.name] # None /\ <<tables[j].name, stem[c.name]>> \in about
      columns(i, j) == Picked(tables[i].columns, {k \in DOMAIN tables[i].columns :
        means(tables[i].columns[k], j) /\ ~IsExplicit(tables[i], tables[j])})
      pairs == [n \in 1 .. Len(tables) * Len(tables) |->
                  <<1 + ((n - 1) \div Len(tables)), 1 + ((n - 1) % Len(tables))>>]
      others == Picked(pairs, {n \in DOMAIN pairs : pairs[n][1] # pairs[n][2]})
  IN FlattenSeq([n \in DOMAIN others |->
       LET cs == columns(others[n][1], others[n][2])
       IN [k \in DOMAIN cs |-> hint(others[n][1], others[n][2], cs[k])]])

(***************************************************************************)
(* What is expected.                                                       *)
(***************************************************************************)

HasColumnNamed(t, name) == \E i \in DOMAIN t.columns : t.columns[i].name = name

\* A suggestion is about columns its tables have, and joins what was declared
\* to belong together.  t was declared, read is what a backend made of it.
ExamplesAreSound(db, t, read, max) ==
  LET examples == ExamplesForDatabase(<<read>>, max)[1][2]
  IN /\ Len(examples) <= max /\ (read.columns # <<>> /\ max > 0 => examples # <<>>)
     /\ \A n \in DOMAIN examples :
          LET e == examples[n]
          IN /\ \A k \in DOMAIN e.select : e.select[k][1] # "b" => HasColumnNamed(t, e.select[k][2])
             /\ e.where # None =>
                  \E c \in ToSet(t.columns) : c.name = e.where[1] /\ e.where[2] \in ToSet(c.cells)
             /\ e.join # None =>
                  \E r \in t.refs : /\ r.table = e.join.table
                                    /\ \E i \in DOMAIN r.members : r.members[i] = e.join.left
                                                                    /\ r.to[i] = e.join.right
     /\ \A c \in ToSet(t.columns) : c.named => \A n \in DOMAIN examples :
          examples[n].where # None => examples[n].where[1] # c.name

\* A join is suggested once, between two tables that no foreign key joins in
\* its direction, and ends at a column of a key when there is one.
OverlapsAreSound(tables, stem, about) ==
  LET hints == FindOverlaps(tables, stem, about)
  IN /\ IsInjective(hints)
     /\ \A n \in DOMAIN hints :
          LET h == hints[n]
          IN /\ h.left # h.right /\ HasColumnNamed(tables[h.left], h.column)
             /\ ~\E fk \in ToSet(tables[h.left].foreignKeys) : fk.table = tables[h.right].name
             /\ tables[h.right].primaryKey # None => HasColumnNamed(tables[h.right], h.target)
=============================================================================
