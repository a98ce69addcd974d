--------------------------- MODULE MCSchemaCache ---------------------------
(***************************************************************************)
(* SchemaCache for TLC: two tables, three shapes of which two have the     *)
(* same DDL signature.                                                     *)
(***************************************************************************)
EXTENDS SchemaCache, TLC

CONSTANTS
  orders, users,        \* tables
  plain, counted, wide, \* shapes: counted is plain with another row count,
                        \* wide has one more column
  hollow,
  ddl1, ddl2, ddl0, h1, h2

OneTable == <<users>>
TwoTables == <<orders, users>>

TwoShapes == {plain, wide, hollow}
\* Shapes that only differ in their rows.
RowShapes == {plain, counted, hollow}

SigOf(shape) ==
  CASE shape = hollow -> ddl0
    [] shape = wide -> ddl2
    [] OTHER -> ddl1

MCSig == [shape \in Shapes |-> SigOf(shape)]

\* Processes are alike.  Tables are not: TableOrder orders them.
Symmetry == Permutations(Handles)
=============================================================================
