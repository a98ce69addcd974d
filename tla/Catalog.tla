------------------------------ MODULE Catalog ------------------------------
(***************************************************************************)
(* A cached schema as the agent-facing functions see it: finding tables    *)
(* and columns by name (model.rs), and several caches under one roof       *)
(* (federation.rs).                                                        *)
(*                                                                         *)
(* A database is the sequence of its tables, in the order they were read.  *)
(* Names are compared without regard to case by the code; here two names   *)
(* are the same name when they differ in nothing else.  A reference is a   *)
(* sequence of names, the parts between its dots.                          *)
(***************************************************************************)
EXTENDS Sorting, SequencesExt

CONSTANT None  \* no schema, no alias, no answer

QualifiedName(t) == IF t.schema = None THEN <<t.name>> ELSE <<t.schema, t.name>>

HasColumn(t, column) == Contains(t.columns, column)

\* Mutant: a bare name only.
BareTableAt(db, ref) == SelectInSeq(db, LAMBDA t : ref = <<t.name>>)

\* The place of the first table called ref, or 0.
TableAt(db, ref) ==
  SelectInSeq(db, LAMBDA t : ref \in {<<t.name>>, QualifiedName(t)})

ListTables(db) == [i \in DOMAIN db |-> QualifiedName(db[i])]

(***************************************************************************)
(* A federation is a sequence of databases.  A table of it is named by its *)
(* member, counted from 0, and its name there: "db1.orders".               *)
(***************************************************************************)

FederatedList(fed) ==
  FlattenSeq([m \in DOMAIN fed |->
    [i \in DOMAIN fed[m] |-> [member |-> m - 1, ref |-> ListTables(fed[m])[i]]]])

\* The member and the place of the table called name, or None.
FederatedTable(fed, name) ==
  LET m == name.member + 1
  IN IF m \in DOMAIN fed /\ TableAt(fed[m], name.ref) # 0
       THEN [member |-> m, at |-> TableAt(fed[m], name.ref)]
       ELSE None

\* Tables in the order they were read.  No two have one name, and a database
\* names a schema for all its tables or for none.
IsDatabase(db) ==
  /\ db \in Seq(ToSet(db))
  /\ \A i, j \in DOMAIN db : QualifiedName(db[i]) = QualifiedName(db[j]) => i = j
  /\ \/ \A i \in DOMAIN db : db[i].schema = None
     \/ \A i \in DOMAIN db : db[i].schema # None

IsFederation(fed) ==
  fed \in Seq({fed[m] : m \in DOMAIN fed}) /\ \A m \in DOMAIN fed : IsDatabase(fed[m])

\* Every table of every member is listed, and asking for it by the name it is
\* listed under finds that table and no namesake in another schema or member.
ListedIsFound(fed) ==
  {FederatedTable(fed, name) : name \in ToSet(FederatedList(fed))} =
    UNION {{[member |-> m, at |-> i] : i \in DOMAIN fed[m]} : m \in DOMAIN fed}
=============================================================================
