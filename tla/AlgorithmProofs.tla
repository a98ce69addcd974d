--------------------------- MODULE AlgorithmProofs ---------------------------
(***************************************************************************)
(* What the properties of MCAlgorithms say of bounded inputs holds of      *)
(* every input of the kind: a section for each subject, and at the end the *)
(* invariants of the specification, whose inputs are of that kind.         *)
(***************************************************************************)
EXTENDS MCAlgorithms, SourceProofs

(***************************************************************************)
(* Federations: a table is found by the name it is listed under.           *)
(***************************************************************************)

LEMMA NamedFirst ==
  ASSUME NEW db, NEW i \in DOMAIN db, NEW ref, db \in Seq(ToSet(db)),
         \A j \in DOMAIN db : ref \in {<<db[j].name>>, QualifiedName(db[j])} <=> j = i
  PROVE  TableAt(db, ref) = i
<1> DEFINE I == {j \in 1 .. Len(db) : ref \in {<<db[j].name>>, QualifiedName(db[j])}}
<1>1. DOMAIN db = 1 .. Len(db) /\ Len(db) \in Nat
  OBVIOUS
<1>2. I = {i}
  BY <1>1
<1>3. TableAt(db, ref) = IF I # {} THEN Min(I) ELSE 0
  BY DEF TableAt, SelectInSeq
<1> HIDE DEF I
<1>4. Min(I) \in I
  <2>1. I \in SUBSET Nat /\ I # {}
    BY <1>1, <1>2
  <2>2. QED
    BY <2>1, MinIs
<1>5. QED
  BY <1>2, <1>3, <1>4

LEMMA TableIsFound ==
  ASSUME NEW db, IsDatabase(db), NEW i \in DOMAIN db
  PROVE  TableAt(db, QualifiedName(db[i])) = i
<1> DEFINE ref == QualifiedName(db[i])
<1>1. \A j \in DOMAIN db : ref = QualifiedName(db[j]) <=> j = i
  BY DEF IsDatabase
<1>2. \A j \in DOMAIN db : ref = <<db[j].name>> => ref = QualifiedName(db[j])
  <2>1. CASE \A j \in DOMAIN db : db[j].schema = None
    BY <2>1 DEF QualifiedName
  <2>2. CASE \A j \in DOMAIN db : db[j].schema # None
    <3>1. SUFFICES ASSUME NEW j \in DOMAIN db
                   PROVE  ref # <<db[j].name>>
      OBVIOUS
    <3>2. ref = <<db[i].schema, db[i].name>>
      BY <2>2 DEF QualifiedName
    <3>3. Len(ref) = 2 /\ Len(<<db[j].name>>) = 1
      BY <3>2
    <3> HIDE DEF ref
    <3>4. QED
      BY <3>3
  <2>3. QED
    BY <2>1, <2>2 DEF IsDatabase
<1>3. db \in Seq(ToSet(db))
  BY DEF IsDatabase
<1> HIDE DEF ref
<1>4. \A j \in DOMAIN db : ref \in {<<db[j].name>>, QualifiedName(db[j])} <=> j = i
  BY <1>1, <1>2
<1>5. TableAt(db, ref) = i
  BY <1>3, <1>4, NamedFirst
<1>6. QED
  BY <1>5 DEF ref

\* A table that is listed is found by the name it is listed under, in every
\* federation.  federation.rs
THEOREM EveryListedIsFound ==
  ASSUME NEW fed, IsFederation(fed)
  PROVE  ListedIsFound(fed)
<1> DEFINE name(m, i) == [member |-> m - 1, ref |-> ListTables(fed[m])[i]]
           NamesOf(m) == [i \in DOMAIN fed[m] |-> name(m, i)]
           lists == [m \in DOMAIN fed |-> NamesOf(m)]
           X == UNION {{NamesOf(m)[i] : i \in DOMAIN fed[m]} : m \in DOMAIN fed}
           PlaceOf(m, i) == [member |-> m, at |-> i]
           Places == UNION {{PlaceOf(m, i) : i \in DOMAIN fed[m]} : m \in DOMAIN fed}
<1>1. /\ Len(fed) \in Nat /\ DOMAIN fed = 1 .. Len(fed)
      /\ \A m \in DOMAIN fed : IsDatabase(fed[m])
  BY DEF IsFederation
<1>2. ASSUME NEW m \in DOMAIN fed
      PROVE  /\ Len(fed[m]) \in Nat /\ DOMAIN fed[m] = 1 .. Len(fed[m])
             /\ NamesOf(m) \in Seq(X) /\ DOMAIN NamesOf(m) = DOMAIN fed[m]
  <2>1. Len(fed[m]) \in Nat /\ DOMAIN fed[m] = 1 .. Len(fed[m])
    BY <1>1 DEF IsDatabase
  <2>2. \A i \in DOMAIN fed[m] : NamesOf(m)[i] \in X
    OBVIOUS
  <2> HIDE DEF X
  <2>3. QED
    BY <2>1, <2>2
<1>3. lists \in Seq(Seq(X)) /\ DOMAIN lists = DOMAIN fed
  <2> HIDE DEF NamesOf, X
  <2>1. QED
    BY <1>1, <1>2
<1>4. ToSet(FederatedList(fed)) = UNION {ToSet(lists[m]) : m \in DOMAIN lists}
  <2>1. FederatedList(fed) = FlattenSeq(lists)
    BY DEF FederatedList
  <2> HIDE DEF lists, X
  <2>2. QED
    BY <1>3, <2>1, FlattenedElements
<1>5. \A x : x \in ToSet(FederatedList(fed)) <=> \E m \in DOMAIN fed : \E i \in DOMAIN fed[m] : x = name(m, i)
  <2>1. \A m \in DOMAIN fed : ToSet(lists[m]) = {name(m, i) : i \in DOMAIN fed[m]}
    BY <1>2 DEF ToSet
  <2> HIDE DEF lists, name, X, NamesOf
  <2>2. QED
    BY <1>3, <1>4, <2>1
<1>6. ASSUME NEW m \in DOMAIN fed, NEW i \in DOMAIN fed[m]
      PROVE  FederatedTable(fed, name(m, i)) = PlaceOf(m, i)
  <2>1. ListTables(fed[m])[i] = QualifiedName(fed[m][i])
    BY DEF ListTables
  <2>2. TableAt(fed[m], QualifiedName(fed[m][i])) = i
    BY <1>1, TableIsFound
  <2>3. name(m, i).member + 1 = m /\ name(m, i).ref = QualifiedName(fed[m][i])
    BY <1>1, <2>1
  <2>4. i # 0
    <3>1. Len(fed[m]) \in Nat /\ DOMAIN fed[m] = 1 .. Len(fed[m])
      BY <1>2
    <3>2. QED
      BY <3>1
  <2> HIDE DEF name
  <2>5. QED
    BY <2>2, <2>3, <2>4 DEF FederatedTable
<1>7. \A y : y \in {FederatedTable(fed, x) : x \in ToSet(FederatedList(fed))} <=> y \in Places
  <2>1. \A y : y \in Places <=> \E m \in DOMAIN fed : \E i \in DOMAIN fed[m] : y = PlaceOf(m, i)
    OBVIOUS
  <2> HIDE DEF Places, name, PlaceOf
  <2>2. \A y : y \in {FederatedTable(fed, x) : x \in ToSet(FederatedList(fed))}
                 <=> \E m \in DOMAIN fed : \E i \in DOMAIN fed[m] : y = FederatedTable(fed, name(m, i))
    BY <1>5
  <2>3. \A y : \A m \in DOMAIN fed : \A i \in DOMAIN fed[m] :
          y = FederatedTable(fed, name(m, i)) <=> y = PlaceOf(m, i)
    BY <1>6
  <2> DEFINE Found == {FederatedTable(fed, x) : x \in ToSet(FederatedList(fed))}
  <2>4. SUFFICES ASSUME NEW y
                 PROVE  y \in Found <=> y \in Places
    OBVIOUS
  <2>5. y \in Found <=> \E m \in DOMAIN fed : \E i \in DOMAIN fed[m] : y = FederatedTable(fed, name(m, i))
    BY <2>2
  <2> HIDE DEF Found
  <2>6. (\E m \in DOMAIN fed : \E i \in DOMAIN fed[m] : y = FederatedTable(fed, name(m, i)))
          <=> \E m \in DOMAIN fed : \E i \in DOMAIN fed[m] : y = PlaceOf(m, i)
    BY <2>3
  <2>7. QED
    BY <2>1, <2>5, <2>6
<1>8. QED
  BY <1>7 DEF ListedIsFound

(***************************************************************************)
(* Rendering: the rows given up by a budget are told.                      *)
(***************************************************************************)

\* A result as the runners return it: one without columns has no rows, and so
\* was not cut.
IsResult(result) ==
  /\ result.named \in BOOLEAN /\ result.truncated \in BOOLEAN
  /\ result.header \in Int /\ result.marker \in Int
  /\ result.rows \in Seq(Int)
  /\ result.named \/ (result.rows = <<>> /\ ~result.truncated)

LEMMA RowsCost ==
  ASSUME NEW rows \in Seq(Int), NEW k \in 0 .. Len(rows)
  PROVE  SumOver(SubSeq(rows, 1, k), LAMBDA n : n) \in Int
<1> DEFINE s == SubSeq(rows, 1, k)
           f == [i \in DOMAIN s |-> s[i]]
<1>1. Len(rows) \in Nat /\ k \in Nat /\ k <= Len(rows)
  OBVIOUS
<1>2. s \in Seq(Int) /\ Len(s) = k
  BY <1>1
<1>3. DOMAIN f = 1 .. k /\ \A i \in DOMAIN f : f[i] \in Int
  BY <1>2
<1>4. IsFiniteSet(1 .. k)
  BY <1>1, FS_Interval
<1>5. SumFunction(f) \in Int
  <2> HIDE DEF f
  <2>1. QED
    BY <1>3, <1>4, SumIsInteger
<1>6. QED
  BY <1>5 DEF SumOver

\* What stands of a result after d rows were given up.
Cost(result, d) == IF result.named THEN TableTokens(result, d) ELSE result.header

Dropped(result) == IF result.named THEN 0 .. Len(result.rows) ELSE {0}

Fits(result, budget) == {d \in Dropped(result) : Cost(result, d) <= budget}

LEMMA CostIsInteger ==
  ASSUME NEW result, IsResult(result), NEW d \in Dropped(result)
  PROVE  Cost(result, d) \in Int
<1>1. CASE ~result.named
  BY <1>1 DEF Cost, IsResult
<1>2. CASE result.named
  <2>1. Len(result.rows) - d \in 0 .. Len(result.rows)
    BY <1>2 DEF Dropped, IsResult
  <2>2. SumOver(SubSeq(result.rows, 1, Len(result.rows) - d), LAMBDA n : n) \in Int
    BY <2>1, RowsCost DEF IsResult
  <2>3. QED
    BY <1>2, <2>2 DEF Cost, TableTokens, IsResult
<1>3. QED
  BY <1>1, <1>2

LEMMA RenderingIs ==
  ASSUME NEW result, IsResult(result), NEW budget \in Int
  PROVE  RenderTable(result, budget) =
           IF Fits(result, budget) = {} THEN None
           ELSE [rows |-> Len(result.rows) - Min(Fits(result, budget)),
                 marked |-> result.named /\ Marked(result, Min(Fits(result, budget)))]
BY DEF RenderTable, Fits, Dropped, Cost

\* A rendered result tells when it is not the whole result and only then, and
\* with more budget never has fewer rows.  lib.rs
THEOREM RenderedIsHonest ==
  ASSUME NEW result, IsResult(result), NEW budget \in Int
  PROVE  ResultIsHonest(result, budget)
<1> DEFINE F == Fits(result, budget)
           G == Fits(result, budget + 1)
           r == RenderTable(result, budget)
           more == RenderTable(result, budget + 1)
<1>1. Len(result.rows) \in Nat
  BY DEF IsResult
<1>2. F \in SUBSET Nat /\ G \in SUBSET Nat /\ F \subseteq Dropped(result) /\ G \subseteq Dropped(result)
  BY <1>1 DEF Fits, Dropped
<1>3. F \subseteq G
  BY CostIsInteger DEF Fits
<1>4. SUFFICES ASSUME F # {}
               PROVE  /\ r.marked <=> (r.rows < Len(result.rows) \/ result.truncated)
                      /\ more # None /\ more.rows >= r.rows
  BY RenderingIs DEF ResultIsHonest
<1>5. Min(F) \in F /\ Min(G) \in G /\ Min(G) <= Min(F) /\ Min(F) \in Nat /\ Min(G) \in Nat
  <2> HIDE DEF F, G
  <2>1. Min(F) \in F /\ Min(G) \in G
    BY <1>2, <1>3, <1>4, MinIs
  <2>2. Min(G) <= Min(F)
    BY <1>2, <1>3, <1>4, <2>1, MinIs
  <2>3. QED
    BY <1>2, <2>1, <2>2
<1>6. /\ r = [rows |-> Len(result.rows) - Min(F), marked |-> result.named /\ Marked(result, Min(F))]
      /\ more = [rows |-> Len(result.rows) - Min(G), marked |-> result.named /\ Marked(result, Min(G))]
  <2>1. G # {} /\ budget + 1 \in Int
    BY <1>3, <1>4
  <2>2. QED
    BY <1>4, <2>1, RenderingIs
<1> HIDE DEF F, G, r, more
<1>7. r.marked <=> (r.rows < Len(result.rows) \/ result.truncated)
  <2>1. CASE result.named
    <3>1. r.marked <=> (result.truncated \/ Min(F) > 0)
      BY <1>6, <2>1 DEF Marked
    <3>2. r.rows < Len(result.rows) <=> Min(F) > 0
      BY <1>1, <1>5, <1>6
    <3>3. QED
      BY <3>1, <3>2
  <2>2. CASE ~result.named
    <3>1. Min(F) = 0
      BY <1>2, <1>5, <2>2 DEF Dropped
    <3>2. QED
      BY <1>1, <1>6, <2>2, <3>1 DEF IsResult
  <2>3. QED
    BY <2>1, <2>2 DEF IsResult
<1>8. more # None /\ more.rows >= r.rows
  <2>1. more \in Renderings
    BY <1>1, <1>5, <1>6 DEF Marked, IsResult, Renderings
  <2>2. more # None
    BY <2>1, NoneIsNoRendering
  <2>3. more.rows >= r.rows
    BY <1>1, <1>5, <1>6
  <2>4. QED
    BY <2>2, <2>3
<1>9. QED
  BY <1>7, <1>8

(***************************************************************************)
(* Runners: a stream is taken row by row, and what it brings back is the   *)
(* first rows of the statement, marked when there are more.                *)
(***************************************************************************)

Row == [bytes : Int, tokens : Int]

\* The first rows of a statement.
StartsAs(part, rows) ==
  part \in Seq(Row) /\ Len(part) <= Len(rows) /\ \A i \in 1 .. Len(part) : part[i] = rows[i]

\* What a runner may return for a statement.
Brings(result, st) ==
  /\ result.named \in BOOLEAN /\ result.truncated \in BOOLEAN
  /\ StartsAs(result.rows, st.rows)
  /\ result.named \/ (result.rows = <<>> /\ ~result.truncated)

\* A result says that it was cut exactly when it was.
Tells(result, st) == result.truncated <=> Len(result.rows) < Len(st.rows)

LEMMA FirstRowsIs ==
  ASSUME NEW rows \in Seq(Row), NEW n \in Nat
  PROVE  /\ StartsAs(FirstRows(rows, n), rows)
         /\ Len(FirstRows(rows, n)) = IF n <= Len(rows) THEN n ELSE Len(rows)
<1> DEFINE m == Min({n, Len(rows)})
<1>1. Len(rows) \in Nat
  OBVIOUS
<1>2. m \in {n, Len(rows)} /\ m <= n /\ m <= Len(rows)
  <2>1. {n, Len(rows)} \in SUBSET Nat /\ {n, Len(rows)} # {}
    BY <1>1
  <2>2. QED
    BY <2>1, MinIs
<1>3. FirstRows(rows, n) = SubSeq(rows, 1, m)
  BY DEF FirstRows
<1> HIDE DEF m
<1>4. m \in Nat /\ m = IF n <= Len(rows) THEN n ELSE Len(rows)
  BY <1>1, <1>2
<1>5. SubSeq(rows, 1, m) \in Seq(Row) /\ Len(SubSeq(rows, 1, m)) = m
      /\ \A i \in 1 .. m : SubSeq(rows, 1, m)[i] = rows[i]
  BY <1>1, <1>2, <1>4
<1>6. QED
  BY <1>2, <1>3, <1>4, <1>5 DEF StartsAs

LEMMA StartsTwice ==
  ASSUME NEW rows, NEW part, NEW less, StartsAs(part, rows), StartsAs(less, part), rows \in Seq(Row)
  PROVE  StartsAs(less, rows)
<1>1. Len(rows) \in Nat /\ Len(part) \in Nat /\ Len(less) \in Nat
  BY DEF StartsAs
<1>2. QED
  BY <1>1 DEF StartsAs

(***************************************************************************)
(* Streams.                                                                *)
(***************************************************************************)

\* What has been read of a stream, row by row.
LEMMA ReadStreamFollows ==
  ASSUME NEW st, IsStatement(st), NEW limit
  PROVE  \E read :
           /\ ReadStream(st, limit) = read[Len(st.rows)]
           /\ read[0] = Result(st.named, <<>>, FALSE)
           /\ \A k \in 1 .. Len(st.rows) : read[k] = Keep(read[k - 1], st.rows[k], limit)
<1> DEFINE n == Len(st.rows)
           base == Result(st.named, <<>>, FALSE)
           V == [named : BOOLEAN, rows : Seq(Row), truncated : BOOLEAN]
           step == [k \in 1 .. n |-> [r \in V |-> Keep(r, st.rows[k], limit)]]
           Body(f, k) == IF k = 0 THEN base ELSE Keep(f[k - 1], st.rows[k], limit)
           Solves(f) == f = [k \in 0 .. n |-> Body(f, k)]
<1>1. n \in Nat /\ \A k \in 1 .. n : st.rows[k] \in Row
  <2>1. st.rows \in Seq(Row)
    BY DEF IsStatement, Row
  <2>2. QED
    BY <2>1
<1>2. \A row \in Row : \A r \in V : Keep(r, row, limit) \in V
  <2>1. SUFFICES ASSUME NEW row \in Row, NEW r \in V
                 PROVE  Keep(r, row, limit) \in V
    OBVIOUS
  <2>2. r.rows \in Seq(Row) /\ Append(r.rows, row) \in Seq(Row)
    OBVIOUS
  <2>3. CASE Len(r.rows) >= limit
    BY <2>3 DEF Keep
  <2>4. CASE ~(Len(r.rows) >= limit)
    BY <2>2, <2>4 DEF Keep
  <2>5. QED
    BY <2>3, <2>4
<1>3. base \in V
  BY DEF IsStatement, Result
<1>4. step \in [1 .. n -> [V -> V]]
  <2> HIDE DEF V, n
  <2>1. QED
    BY <1>1, <1>2
<1>5. IsIteration(n, V, base, step)
  <2> HIDE DEF n, V, base, step
  <2>1. QED
    BY <1>1, <1>3, <1>4 DEF IsIteration
<1>6. PICK g \in [0 .. n -> V] : g[0] = base /\ \A k \in 1 .. n : g[k] = step[k][g[k - 1]]
  <2> HIDE DEF n, V, base, step
  <2>1. QED
    BY <1>5, Iteration
<1>7. \E f : Solves(f)
  <2>1. ASSUME NEW k \in 0 .. n
        PROVE  g[k] = Body(g, k)
    <3>1. CASE k = 0
      BY <1>6, <3>1
    <3>2. CASE k # 0
      <4>1. k \in 1 .. n /\ k - 1 \in 0 .. n
        BY <1>1, <3>2
      <4>2. g[k - 1] \in V
        BY <1>6, <4>1
      <4> HIDE DEF n, V, base
      <4>3. step[k][g[k - 1]] = Keep(g[k - 1], st.rows[k], limit)
        BY <4>1, <4>2
      <4> HIDE DEF step
      <4>4. QED
        BY <1>6, <3>2, <4>1, <4>3
    <3>3. QED
      BY <3>1, <3>2
  <2>2. Solves(g)
    <3> HIDE DEF Body, V
    <3>1. QED
      BY <1>6, <2>1
  <2> HIDE DEF Solves
  <2>3. QED
    BY <2>2
<1>8. PICK read : read = (CHOOSE f : Solves(f)) /\ Solves(read)
  <2> HIDE DEF Solves
  <2>1. QED
    BY <1>7
<1>9. ReadStream(st, limit) = read[n]
  BY <1>8 DEF ReadStream
<1>10. \A k \in 0 .. n : read[k] = Body(read, k)
  BY <1>8
<1>11. read[0] = base /\ \A k \in 1 .. n : read[k] = Keep(read[k - 1], st.rows[k], limit)
  <2>1. 0 \in 0 .. n /\ \A k \in 1 .. n : k \in 0 .. n /\ k # 0
    BY <1>1
  <2>2. QED
    BY <1>10, <2>1
<1>12. QED
  BY <1>9, <1>11

LEMMA StreamRowsFollows ==
  ASSUME NEW st, IsStatement(st), NEW budget \in Int
  PROVE  \E taken :
           /\ StreamRows(st, budget) = Result(taken[Len(st.rows)].rows # <<>>, taken[Len(st.rows)].rows,
                                              taken[Len(st.rows)].truncated)
           /\ taken[0] = [tokens |-> 0, rows |-> <<>>, truncated |-> FALSE]
           /\ \A k \in 1 .. Len(st.rows) : taken[k] = Take(taken[k - 1], st.rows[k], budget)
<1> DEFINE n == Len(st.rows)
           base == [tokens |-> 0, rows |-> <<>>, truncated |-> FALSE]
           V == [tokens : Int, rows : Seq(Row), truncated : BOOLEAN]
           step == [k \in 1 .. n |-> [r \in V |-> Take(r, st.rows[k], budget)]]
           Body(f, k) == IF k = 0 THEN base ELSE Take(f[k - 1], st.rows[k], budget)
           Solves(f) == f = [k \in 0 .. n |-> Body(f, k)]
<1>1. n \in Nat /\ \A k \in 1 .. n : st.rows[k] \in Row
  <2>1. st.rows \in Seq(Row)
    BY DEF IsStatement, Row
  <2>2. QED
    BY <2>1
<1>2. \A row \in Row : \A r \in V : Take(r, row, budget) \in V
  <2>1. \A row \in Row : EstimateTokensFromBytes(row.bytes) \in Int
    BY DEF EstimateTokensFromBytes, Row
  <2>2. SUFFICES ASSUME NEW row \in Row, NEW r \in V
                 PROVE  Take(r, row, budget) \in V
    OBVIOUS
  <2>3. r.rows \in Seq(Row) /\ Append(r.rows, row) \in Seq(Row)
        /\ r.tokens + EstimateTokensFromBytes(row.bytes) \in Int
    BY <2>1
  <2>4. CASE r.truncated \/ Overruns(r, row, budget)
    BY <2>4 DEF Take
  <2>5. CASE ~(r.truncated \/ Overruns(r, row, budget))
    BY <2>3, <2>5 DEF Take
  <2>6. QED
    BY <2>4, <2>5
<1>3. base \in V
  OBVIOUS
<1>4. step \in [1 .. n -> [V -> V]]
  <2> HIDE DEF V, n
  <2>1. QED
    BY <1>1, <1>2
<1>5. IsIteration(n, V, base, step)
  <2> HIDE DEF n, V, base, step
  <2>1. QED
    BY <1>1, <1>3, <1>4 DEF IsIteration
<1>6. PICK g \in [0 .. n -> V] : g[0] = base /\ \A k \in 1 .. n : g[k] = step[k][g[k - 1]]
  <2> HIDE DEF n, V, base, step
  <2>1. QED
    BY <1>5, Iteration
<1>7. \E f : Solves(f)
  <2>1. ASSUME NEW k \in 0 .. n
        PROVE  g[k] = Body(g, k)
    <3>1. CASE k = 0
      BY <1>6, <3>1
    <3>2. CASE k # 0
      <4>1. k \in 1 .. n /\ k - 1 \in 0 .. n
        BY <1>1, <3>2
      <4>2. g[k - 1] \in V
        BY <1>6, <4>1
      <4> HIDE DEF n, V, base
      <4>3. step[k][g[k - 1]] = Take(g[k - 1], st.rows[k], budget)
        BY <4>1, <4>2
      <4> HIDE DEF step
      <4>4. QED
        BY <1>6, <3>2, <4>1, <4>3
    <3>3. QED
      BY <3>1, <3>2
  <2>2. Solves(g)
    <3> HIDE DEF Body, V
    <3>1. QED
      BY <1>6, <2>1
  <2> HIDE DEF Solves
  <2>3. QED
    BY <2>2
<1>8. PICK taken : taken = (CHOOSE f : Solves(f)) /\ Solves(taken)
  <2> HIDE DEF Solves
  <2>1. QED
    BY <1>7
<1>9. StreamRows(st, budget) = Result(taken[n].rows # <<>>, taken[n].rows, taken[n].truncated)
  BY <1>8 DEF StreamRows
<1>10. \A k \in 0 .. n : taken[k] = Body(taken, k)
  BY <1>8
<1>11. taken[0] = base /\ \A k \in 1 .. n : taken[k] = Take(taken[k - 1], st.rows[k], budget)
  <2>1. 0 \in 0 .. n /\ \A k \in 1 .. n : k \in 0 .. n /\ k # 0
    BY <1>1
  <2>2. QED
    BY <1>10, <2>1
<1>12. QED
  BY <1>9, <1>11

\* What has been taken after k rows: the first of them, and all of them unless
\* the stream was cut.
Stage(s, rows, k) ==
  /\ StartsAs(s.rows, rows) /\ Len(s.rows) <= k
  /\ k > 0 => Len(s.rows) > 0
  /\ s.truncated \in BOOLEAN /\ (s.truncated <=> Len(s.rows) < k)

TakenTypes == [tokens : Int, rows : Seq(Row), truncated : BOOLEAN]

LEMMA RowIsNext ==
  ASSUME NEW part, NEW rows \in Seq(Row), NEW k \in 1 .. Len(rows), StartsAs(part, rows), Len(part) = k - 1
  PROVE  StartsAs(Append(part, rows[k]), rows) /\ Len(Append(part, rows[k])) = k
<1>1. part \in Seq(Row) /\ rows[k] \in Row /\ Len(part) \in Nat /\ Len(rows) \in Nat
  BY DEF StartsAs
<1> DEFINE p == Append(part, rows[k])
<1>2. p \in Seq(Row) /\ Len(p) = k /\ p[k] = rows[k] /\ \A i \in 1 .. k - 1 : p[i] = part[i]
  BY <1>1
<1>3. \A i \in 1 .. k - 1 : part[i] = rows[i]
  BY DEF StartsAs
<1> HIDE DEF p
<1>4. \A i \in 1 .. Len(p) : p[i] = rows[i]
  <2>1. \A i \in 1 .. k : i = k \/ i \in 1 .. k - 1
    OBVIOUS
  <2>2. QED
    BY <1>2, <1>3, <2>1
<1>5. StartsAs(p, rows) /\ Len(p) = k
  BY <1>1, <1>2, <1>4 DEF StartsAs
<1>6. QED
  BY <1>5 DEF p

LEMMA TakeIs ==
  ASSUME NEW s \in TakenTypes, NEW row \in Row, NEW budget \in Int
  PROVE  /\ s.truncated \/ Overruns(s, row, budget) =>
              /\ Take(s, row, budget).rows = s.rows /\ Take(s, row, budget).truncated
              /\ Take(s, row, budget).tokens = s.tokens
         /\ ~(s.truncated \/ Overruns(s, row, budget)) =>
              /\ Take(s, row, budget).rows = Append(s.rows, row) /\ ~Take(s, row, budget).truncated
              /\ Take(s, row, budget).tokens = s.tokens + EstimateTokensFromBytes(row.bytes)
         /\ Take(s, row, budget) \in TakenTypes
<1>1. EstimateTokensFromBytes(row.bytes) \in Int
  BY DEF EstimateTokensFromBytes, Row
<1>2. s.rows \in Seq(Row) /\ Append(s.rows, row) \in Seq(Row) /\ s.tokens \in Int
      /\ s.tokens + EstimateTokensFromBytes(row.bytes) \in Int /\ s.truncated \in BOOLEAN
  BY <1>1 DEF TakenTypes
<1>3. CASE s.truncated \/ Overruns(s, row, budget)
  BY <1>3 DEF Take, TakenTypes
<1>4. CASE ~(s.truncated \/ Overruns(s, row, budget))
  BY <1>2, <1>4 DEF Take, TakenTypes
<1>5. QED
  BY <1>3, <1>4

\* The stages of two streams of the same rows, the budget of the second the larger.
Stages(taken, rows, budget) ==
  /\ taken[0] = [tokens |-> 0, rows |-> <<>>, truncated |-> FALSE]
  /\ \A k \in 1 .. Len(rows) : taken[k] = Take(taken[k - 1], rows[k], budget)

Ahead(s, t) ==
  /\ s \in TakenTypes /\ t \in TakenTypes
  /\ Len(s.rows) <= Len(t.rows) /\ (t.truncated => s.truncated)
  /\ ~s.truncated => s.tokens = t.tokens /\ s.rows = t.rows

LEMMA TakeKeepsStage ==
  ASSUME NEW rows \in Seq(Row), NEW k \in 1 .. Len(rows), NEW budget \in Int,
         NEW s \in TakenTypes, Stage(s, rows, k - 1)
  PROVE  Stage(Take(s, rows[k], budget), rows, k)
<1> DEFINE row == rows[k]
           t == Take(s, row, budget)
<1>1. row \in Row /\ k \in Nat /\ k >= 1 /\ Len(rows) \in Nat
  OBVIOUS
<1>2. Len(s.rows) \in Nat /\ s.rows \in Seq(Row) /\ s.truncated \in BOOLEAN
  BY DEF TakenTypes
<1> HIDE DEF row
<1>3. CASE s.truncated \/ Overruns(s, row, budget)
  <2>1. t.rows = s.rows /\ t.truncated
    BY <1>1, <1>3, TakeIs
  <2>2. t.truncated \in BOOLEAN
    <3>1. t \in TakenTypes
      BY <1>1, TakeIs
    <3>2. QED
      BY <3>1 DEF TakenTypes
  <2>3. Len(s.rows) < k /\ Len(s.rows) > 0
    <3>1. CASE s.truncated
      BY <1>1, <1>2, <3>1 DEF Stage
    <3>2. CASE Overruns(s, row, budget)
      BY <1>1, <1>2, <3>2 DEF Stage, Overruns
    <3>3. QED
      BY <1>3, <3>1, <3>2
  <2> HIDE DEF t
  <2>4. Stage(t, rows, k)
    BY <1>1, <1>2, <2>1, <2>2, <2>3 DEF Stage
  <2>5. QED
    BY <2>4 DEF t, row
<1>4. CASE ~(s.truncated \/ Overruns(s, row, budget))
  <2>1. t.rows = Append(s.rows, row) /\ ~t.truncated /\ t \in TakenTypes
    BY <1>1, <1>4, TakeIs
  <2>2. Len(s.rows) = k - 1
    BY <1>1, <1>2, <1>4 DEF Stage
  <2>3. StartsAs(s.rows, rows)
    BY DEF Stage
  <2>4. StartsAs(t.rows, rows) /\ Len(t.rows) = k
    BY <2>1, <2>2, <2>3, RowIsNext DEF row
  <2>5. t.truncated \in BOOLEAN
    BY <2>1 DEF TakenTypes
  <2> HIDE DEF t
  <2>6. Stage(t, rows, k)
    BY <1>1, <2>1, <2>4, <2>5 DEF Stage
  <2>7. QED
    BY <2>6 DEF t, row
<1>5. QED
  BY <1>3, <1>4

LEMMA TakeKeepsAhead ==
  ASSUME NEW row \in Row, NEW budget \in Int, NEW s, NEW t, Ahead(s, t)
  PROVE  Ahead(Take(s, row, budget), Take(t, row, budget + 1))
<1> DEFINE c == EstimateTokensFromBytes(row.bytes)
           p == Take(s, row, budget)
           q == Take(t, row, budget + 1)
<1>1. s \in TakenTypes /\ t \in TakenTypes /\ budget + 1 \in Int
  BY DEF Ahead
<1>2. c \in Int
  BY DEF EstimateTokensFromBytes, Row
<1>3. /\ Len(s.rows) \in Nat /\ Len(t.rows) \in Nat /\ s.tokens \in Int /\ t.tokens \in Int
      /\ Len(Append(s.rows, row)) = Len(s.rows) + 1 /\ Len(Append(t.rows, row)) = Len(t.rows) + 1
  BY <1>1 DEF TakenTypes
<1>4. p \in TakenTypes /\ q \in TakenTypes
  BY <1>1, TakeIs
<1>5. CASE s.truncated
  <2>1. p.rows = s.rows /\ p.truncated
    BY <1>1, <1>5, TakeIs
  <2>2. q.rows = t.rows \/ q.rows = Append(t.rows, row)
    BY <1>1, TakeIs
  <2>3. Len(p.rows) <= Len(q.rows)
    BY <1>3, <2>1, <2>2 DEF Ahead
  <2> HIDE DEF p, q
  <2>4. QED
    BY <1>4, <2>1, <2>3 DEF Ahead, p, q
<1>6. CASE ~s.truncated
  <2>1. ~t.truncated /\ s.tokens = t.tokens /\ s.rows = t.rows
    BY <1>6 DEF Ahead
  <2>2. Overruns(t, row, budget + 1) => Overruns(s, row, budget)
    BY <1>2, <1>3, <2>1 DEF Overruns
  <2>3. CASE Overruns(s, row, budget)
    <3>1. p.rows = s.rows /\ p.truncated
      BY <1>1, <2>3, TakeIs
    <3>2. q.rows = t.rows \/ q.rows = Append(t.rows, row)
      BY <1>1, TakeIs
    <3>3. Len(p.rows) <= Len(q.rows)
      BY <1>3, <2>1, <3>1, <3>2
    <3> HIDE DEF p, q
    <3>4. QED
      BY <1>4, <3>1, <3>3 DEF Ahead, p, q
  <2>4. CASE ~Overruns(s, row, budget)
    <3>1. p.rows = Append(s.rows, row) /\ ~p.truncated /\ p.tokens = s.tokens + c
      BY <1>1, <1>6, <2>4, TakeIs
    <3>2. q.rows = Append(t.rows, row) /\ ~q.truncated /\ q.tokens = t.tokens + c
      BY <1>1, <2>1, <2>2, <2>4, TakeIs
    <3>3. p.rows = q.rows /\ p.tokens = q.tokens /\ Len(p.rows) <= Len(q.rows)
      BY <1>3, <2>1, <3>1, <3>2
    <3> HIDE DEF p, q
    <3>4. QED
      BY <1>4, <3>1, <3>2, <3>3 DEF Ahead, p, q
  <2>5. QED
    BY <2>3, <2>4
<1>7. QED
  BY <1>1, <1>5, <1>6 DEF TakenTypes

LEMMA StreamsAdvance ==
  ASSUME NEW rows \in Seq(Row), NEW budget \in Int, NEW f, NEW g,
         Stages(f, rows, budget), Stages(g, rows, budget + 1)
  PROVE  /\ Stage(f[Len(rows)], rows, Len(rows)) /\ Stage(g[Len(rows)], rows, Len(rows))
         /\ Ahead(f[Len(rows)], g[Len(rows)])
<1> DEFINE n == Len(rows)
           Good(k) == Stage(f[k], rows, k) /\ Stage(g[k], rows, k) /\ Ahead(f[k], g[k])
           W == {k \in 0 .. n : Good(k)}
<1>1. n \in Nat
  OBVIOUS
<1>2. 0 \in W
  <2> DEFINE base == [tokens |-> 0, rows |-> <<>>, truncated |-> FALSE]
  <2>1. f[0] = base /\ g[0] = base
    BY DEF Stages
  <2>2. base \in TakenTypes
    BY DEF TakenTypes
  <2>3. Stage(base, rows, 0)
    BY <1>1 DEF Stage, StartsAs
  <2>4. Ahead(base, base)
    BY <2>2 DEF Ahead
  <2> HIDE DEF base
  <2>5. QED
    BY <1>1, <2>1, <2>3, <2>4
<1>3. ASSUME NEW k \in 1 .. n, k - 1 \in W
      PROVE  k \in W
  <2>1. Good(k - 1)
    BY <1>3
  <2>2. f[k] = Take(f[k - 1], rows[k], budget) /\ g[k] = Take(g[k - 1], rows[k], budget + 1)
    BY DEF Stages
  <2>3. rows[k] \in Row /\ budget + 1 \in Int /\ f[k - 1] \in TakenTypes /\ g[k - 1] \in TakenTypes
    BY <2>1 DEF Ahead
  <2>4. Stage(f[k], rows, k)
    BY <2>1, <2>2, <2>3, TakeKeepsStage
  <2>5. Stage(g[k], rows, k)
    BY <2>1, <2>2, <2>3, TakeKeepsStage
  <2>6. Ahead(f[k], g[k])
    BY <2>1, <2>2, <2>3, TakeKeepsAhead
  <2>7. k \in 0 .. n
    BY <1>1
  <2>8. QED
    BY <2>4, <2>5, <2>6, <2>7
<1>4. 0 .. n \subseteq W
  <2> HIDE DEF W, n
  <2>1. QED
    BY <1>1, <1>2, <1>3, StageInduction
<1>5. n \in 0 .. n
  BY <1>1
<1>6. QED
  BY <1>4, <1>5

\* What a stream brings back, and what one with a larger budget does.
LEMMA StreamsAre ==
  ASSUME NEW st, IsStatement(st), NEW budget \in Int
  PROVE  /\ Brings(StreamRows(st, budget), st) /\ Tells(StreamRows(st, budget), st)
         /\ Brings(StreamRows(st, budget + 1), st) /\ Tells(StreamRows(st, budget + 1), st)
         /\ Len(StreamRows(st, budget).rows) <= Len(StreamRows(st, budget + 1).rows)
         /\ StreamRows(st, budget).named <=> st.rows # <<>>
         /\ StreamRows(st, budget + 1).named <=> st.rows # <<>>
<1> DEFINE rows == st.rows
           n == Len(rows)
<1>1. rows \in Seq(Row) /\ n \in Nat /\ budget + 1 \in Int
  BY DEF IsStatement, Row
<1>2. PICK f : /\ StreamRows(st, budget) = Result(f[n].rows # <<>>, f[n].rows, f[n].truncated)
               /\ Stages(f, rows, budget)
  BY <1>1, StreamRowsFollows DEF Stages
<1>3. PICK g : /\ StreamRows(st, budget + 1) = Result(g[n].rows # <<>>, g[n].rows, g[n].truncated)
               /\ Stages(g, rows, budget + 1)
  BY <1>1, StreamRowsFollows DEF Stages
<1>4. Stage(f[n], rows, n) /\ Stage(g[n], rows, n) /\ Ahead(f[n], g[n])
  BY <1>1, <1>2, <1>3, StreamsAdvance
<1>5. ASSUME NEW s, Stage(s, rows, n), NEW result, result = Result(s.rows # <<>>, s.rows, s.truncated)
      PROVE  Brings(result, st) /\ Tells(result, st) /\ (result.named <=> st.rows # <<>>)
  <2>1. result.named \in BOOLEAN /\ (result.named <=> s.rows # <<>>) /\ result.rows = s.rows /\ result.truncated = s.truncated
    BY <1>5 DEF Result
  <2>2. s.rows \in Seq(Row) /\ Len(s.rows) \in Nat /\ (s.rows = <<>> <=> Len(s.rows) = 0)
    BY <1>5 DEF Stage, StartsAs
  <2>3. st.rows = <<>> <=> n = 0
    BY <1>1
  <2>4. Len(s.rows) <= n /\ (n > 0 => Len(s.rows) > 0) /\ (s.truncated <=> Len(s.rows) < n)
        /\ s.truncated \in BOOLEAN /\ StartsAs(s.rows, rows)
    BY <1>5 DEF Stage
  <2>5. result.named <=> st.rows # <<>>
    BY <1>1, <2>1, <2>2, <2>3, <2>4
  <2>6. Tells(result, st)
    BY <2>1, <2>4 DEF Tells
  <2>7. Brings(result, st)
    <3>1. result.named \/ (result.rows = <<>> /\ ~result.truncated)
      BY <1>1, <2>1, <2>2, <2>4
    <3>2. QED
      BY <2>1, <2>4, <3>1 DEF Brings
  <2>8. QED
    BY <2>5, <2>6, <2>7
<1>6. StreamRows(st, budget).rows = f[n].rows /\ StreamRows(st, budget + 1).rows = g[n].rows
  BY <1>2, <1>3 DEF Result
<1>7. Len(f[n].rows) <= Len(g[n].rows)
  BY <1>4 DEF Ahead
<1> HIDE DEF rows, n
<1>8. QED
  BY <1>2, <1>3, <1>4, <1>5, <1>6, <1>7

LEMMA CountedIs ==
  ASSUME NEW st, IsStatement(st), NEW result, Brings(result, st)
  PROVE  /\ IsResult(Counted(result, st))
         /\ Len(Counted(result, st).rows) = Len(result.rows)
         /\ \A i \in 1 .. Len(result.rows) : Counted(result, st).rows[i] = st.rows[i].tokens
<1> DEFINE rows == result.rows
           counts == [i \in DOMAIN rows |-> rows[i].tokens]
<1>1. rows \in Seq(Row) /\ Len(rows) \in Nat /\ (\A i \in 1 .. Len(rows) : rows[i] = st.rows[i])
      /\ result.named \in BOOLEAN /\ result.truncated \in BOOLEAN
      /\ (result.named \/ (rows = <<>> /\ ~result.truncated))
  BY DEF Brings, StartsAs
<1>2. /\ Counted(result, st).rows = counts /\ Counted(result, st).named = result.named
      /\ Counted(result, st).truncated = result.truncated
      /\ Counted(result, st).header = st.header /\ Counted(result, st).marker = st.marker
  BY DEF Counted
<1> HIDE DEF rows
<1>3. counts \in Seq(Int) /\ Len(counts) = Len(rows) /\ \A i \in 1 .. Len(rows) : counts[i] = rows[i].tokens
  <2>1. DOMAIN rows = 1 .. Len(rows) /\ \A i \in 1 .. Len(rows) : rows[i].tokens \in Int
    <3>1. rows \in Seq(Row)
      BY <1>1
    <3>2. DOMAIN rows = 1 .. Len(rows) /\ \A i \in 1 .. Len(rows) : rows[i] \in Row
      BY <3>1
    <3>3. \A row \in Row : row.tokens \in Int
      BY DEF Row
    <3>4. QED
      BY <3>2, <3>3
  <2>2. counts \in [1 .. Len(rows) -> Int]
    BY <2>1
  <2>3. counts \in Seq(Int)
    BY <1>1, <2>2
  <2>4. QED
    BY <1>1, <2>1, <2>2, <2>3
<1> HIDE DEF counts
<1>4. IsResult(Counted(result, st))
  <2>1. rows = <<>> => counts = <<>>
    BY <1>1, <1>3
  <2>2. st.header \in Int /\ st.marker \in Int
    BY DEF IsStatement
  <2>3. QED
    BY <1>1, <1>2, <1>3, <2>1, <2>2 DEF IsResult
<1>5. QED
  BY <1>1, <1>2, <1>3, <1>4 DEF rows

\* A rendering has no more rows than there are.
LEMMA RenderedWithin ==
  ASSUME NEW result, IsResult(result), NEW budget \in Int, RenderTable(result, budget) # None
  PROVE  RenderTable(result, budget).rows \in 0 .. Len(result.rows)
<1> DEFINE F == Fits(result, budget)
<1>1. Len(result.rows) \in Nat
  BY DEF IsResult
<1>2. F # {} /\ RenderTable(result, budget).rows = Len(result.rows) - Min(F)
  BY RenderingIs
<1>3. F \subseteq 0 .. Len(result.rows)
  <2>1. Dropped(result) \subseteq 0 .. Len(result.rows)
    BY <1>1 DEF Dropped
  <2>2. QED
    BY <2>1 DEF Fits
<1> HIDE DEF F
<1>4. Min(F) \in F
  BY <1>1, <1>2, <1>3, MinIs
<1>5. Min(F) \in 0 .. Len(result.rows)
  BY <1>3, <1>4
<1>6. QED
  BY <1>1, <1>2, <1>5

\* A result that does not depend on the budget.
LEMMA SameIsHonest ==
  ASSUME NEW st, IsStatement(st), NEW result, Brings(result, st), NEW budget \in Int,
         NEW whole, whole => Tells(result, st)
  PROVE  AnswerIsHonest(Rendered(result, st, budget), Rendered(result, st, budget + 1),
                        Len(st.rows), whole)
<1> DEFINE c == Counted(result, st)
           r == RenderTable(c, budget)
           more == RenderTable(c, budget + 1)
           m == Len(result.rows)
           n == Len(st.rows)
<1>1. IsResult(c) /\ Len(c.rows) = m /\ c.truncated = result.truncated
  BY CountedIs DEF Counted
<1>2. m \in Nat /\ n \in Nat /\ m <= n
  BY DEF Brings, StartsAs, IsStatement
<1> HIDE DEF c
<1>3. SUFFICES ASSUME r # None
               PROVE  /\ whole => (r.marked <=> r.rows < n)
                      /\ more # None /\ more.rows >= r.rows
  BY DEF AnswerIsHonest, Rendered, c
<1>4. /\ r.marked <=> (r.rows < Len(c.rows) \/ c.truncated)
      /\ more # None /\ more.rows >= r.rows
  BY <1>1, <1>3, RenderedIsHonest DEF ResultIsHonest
<1>5. r.rows \in 0 .. m
  BY <1>1, <1>3, RenderedWithin
<1> HIDE DEF m, n, r, more
<1>6. ASSUME whole
      PROVE  r.marked <=> r.rows < n
  <2>1. result.truncated <=> m < n
    BY <1>6 DEF Tells, m, n
  <2>2. r.marked <=> (r.rows < m \/ m < n)
    BY <1>1, <1>4, <2>1
  <2>3. QED
    BY <1>2, <1>5, <2>2
<1>7. QED
  BY <1>4, <1>6

\* What is left of a result after d rows of m were given up, in terms of the
\* rows that are left.
LEMMA CostOfLeft ==
  ASSUME NEW st, IsStatement(st), st.rows # <<>>,
         NEW p, Brings(p, st), Tells(p, st), p.named,
         NEW q, Brings(q, st), Tells(q, st), q.named,
         NEW k \in Nat, k <= Len(p.rows), k <= Len(q.rows)
  PROVE  Cost(Counted(p, st), Len(p.rows) - k) = Cost(Counted(q, st), Len(q.rows) - k)
<1> DEFINE c == Counted(p, st)
           d == Counted(q, st)
           l == Len(p.rows)
           m == Len(q.rows)
           n == Len(st.rows)
           s == SubSeq(c.rows, 1, k)
           t == SubSeq(d.rows, 1, k)
<1>1. l \in Nat /\ m \in Nat /\ n \in Nat /\ l <= n /\ m <= n
  BY SMTT(60) DEF Brings, StartsAs, IsStatement
<1>2. /\ IsResult(c) /\ Len(c.rows) = l /\ \A i \in 1 .. l : c.rows[i] = st.rows[i].tokens
      /\ IsResult(d) /\ Len(d.rows) = m /\ \A i \in 1 .. m : d.rows[i] = st.rows[i].tokens
  BY CountedIs
<1>3. /\ c.named /\ d.named /\ c.header = d.header /\ c.marker = d.marker
      /\ c.truncated = p.truncated /\ d.truncated = q.truncated
  BY DEF Counted
<1>4. (c.truncated <=> l < n) /\ (d.truncated <=> m < n)
  BY <1>3 DEF Tells
<1> HIDE DEF c, d
<1>5. s = t
  <2>1. c.rows \in Seq(Int) /\ d.rows \in Seq(Int)
    BY <1>2 DEF IsResult
  <2> DEFINE x == c.rows
             y == d.rows
  <2>2. x \in Seq(Int) /\ y \in Seq(Int) /\ k <= Len(x) /\ k <= Len(y)
    BY <1>2, <2>1
  <2>3. \A i \in 1 .. k : x[i] = y[i]
    <3>1. \A i \in 1 .. k : i \in 1 .. l /\ i \in 1 .. m
      BY <1>1
    <3>2. QED
      BY <1>2, <3>1
  <2> HIDE DEF x, y
  <2>4. SubSeq(x, 1, k) = SubSeq(y, 1, k)
    <3>1. Len(x) \in Nat /\ Len(y) \in Nat
      BY <2>2
    <3> DEFINE u == SubSeq(x, 1, k)
               v == SubSeq(y, 1, k)
    <3>2. u \in Seq(Int) /\ Len(u) = k /\ \A i \in 1 .. k : u[i] = x[i]
      BY <2>2, <3>1
    <3>3. v \in Seq(Int) /\ Len(v) = k /\ \A i \in 1 .. k : v[i] = y[i]
      BY <2>2, <3>1
    <3> HIDE DEF u, v
    <3>4. u = v
      BY <2>3, <3>2, <3>3
    <3>5. QED
      BY <3>4 DEF u, v
  <2>5. QED
    BY <2>4 DEF x, y
<1>6. Marked(c, l - k) <=> Marked(d, m - k)
  <2>1. Marked(c, l - k) <=> (l < n \/ l - k > 0)
    BY <1>4 DEF Marked
  <2>2. Marked(d, m - k) <=> (m < n \/ m - k > 0)
    BY <1>4 DEF Marked
  <2> HIDE DEF l, m, n
  <2>3. QED
    BY <1>1, <2>1, <2>2 DEF l, m
<1>7. Len(c.rows) - (l - k) = k /\ Len(d.rows) - (m - k) = k
  <2> HIDE DEF l, m
  <2>1. QED
    BY <1>1, <1>2
<1>8. TableTokens(c, l - k) = TableTokens(d, m - k)
  <2> HIDE DEF l, m
  <2>1. QED
    BY <1>3, <1>5, <1>6, <1>7 DEF TableTokens
<1>9. QED
  BY <1>3, <1>8 DEF Cost, c, d

\* A stream and the one with a larger budget.
LEMMA StreamsAreHonest ==
  ASSUME NEW st, IsStatement(st), NEW budget \in Int, NEW whole
  PROVE  AnswerIsHonest(Rendered(StreamRows(st, budget), st, budget),
                        Rendered(StreamRows(st, budget + 1), st, budget + 1), Len(st.rows), whole)
<1> DEFINE p == StreamRows(st, budget)
           q == StreamRows(st, budget + 1)
           c == Counted(p, st)
           d == Counted(q, st)
           r == RenderTable(c, budget)
           more == RenderTable(d, budget + 1)
           l == Len(p.rows)
           m == Len(q.rows)
           n == Len(st.rows)
           F == Fits(c, budget)
           G == Fits(d, budget + 1)
<1>1. /\ Brings(p, st) /\ Tells(p, st) /\ Brings(q, st) /\ Tells(q, st) /\ l <= m
      /\ (p.named <=> st.rows # <<>>) /\ (q.named <=> st.rows # <<>>)
  BY StreamsAre
<1> HIDE DEF p, q
<1>2. l \in Nat /\ m \in Nat /\ n \in Nat /\ l <= n /\ m <= n /\ budget + 1 \in Int
  BY <1>1 DEF Brings, StartsAs, IsStatement
<1>3. IsResult(c) /\ Len(c.rows) = l /\ c.named = p.named /\ IsResult(d) /\ Len(d.rows) = m /\ d.named = q.named
      /\ c.header = d.header
  BY <1>1, CountedIs DEF Counted
<1>4. /\ whole => (r # None => (r.marked <=> r.rows < n))
      /\ r # None => r.rows \in 0 .. l
  <2>1. AnswerIsHonest(Rendered(p, st, budget), Rendered(p, st, budget + 1), n, whole)
    BY <1>1, SameIsHonest
  <2>2. r # None => r.rows \in 0 .. l
    BY <1>3, RenderedWithin
  <2>3. QED
    BY <2>1, <2>2 DEF AnswerIsHonest, Rendered
<1>5. SUFFICES ASSUME r # None
               PROVE  more # None /\ more.rows >= r.rows
  <2>1. Rendered(p, st, budget) = r /\ Rendered(q, st, budget + 1) = more
    BY DEF Rendered
  <2>2. QED
    BY <1>4, <2>1 DEF AnswerIsHonest, p, q
<1>6. F # {} /\ r.rows = l - Min(F)
  BY <1>3, <1>5, RenderingIs
<1> DEFINE k == r.rows
<1>7. k \in 0 .. l /\ l - k \in F
  <2>1. F \in SUBSET Nat
    BY <1>2, <1>3 DEF Fits, Dropped
  <2> HIDE DEF F
  <2>2. Min(F) \in F /\ Min(F) \in Nat
    BY <1>6, <2>1, MinIs
  <2>3. l - (l - Min(F)) = Min(F)
    BY <1>2, <2>2
  <2>4. QED
    BY <1>4, <1>5, <1>6, <2>2, <2>3
<1>8. m - k \in G
  <2>1. k \in Nat /\ k <= l /\ k <= m
    BY <1>1, <1>2, <1>7
  <2>2. l - k \in Dropped(c) /\ Cost(c, l - k) <= budget
    BY <1>7 DEF Fits
  <2> HIDE DEF k
  <2>3. CASE st.rows = <<>>
    <3>1. ~c.named /\ ~d.named /\ n = 0
      BY <1>1, <1>3, <2>3
    <3>2. m = 0 /\ k = 0
      BY <1>2, <2>1, <3>1
    <3>3. Cost(d, m - k) = Cost(c, l - k)
      BY <1>3, <3>1 DEF Cost
    <3>4. m - k \in Dropped(d)
      BY <3>1, <3>2 DEF Dropped
    <3>5. Cost(c, l - k) \in Int
      BY <1>3, <2>2, CostIsInteger
    <3>6. Cost(d, m - k) <= budget + 1
      BY <2>2, <3>3, <3>5
    <3>7. QED
      BY <3>4, <3>6 DEF Fits
  <2>4. CASE st.rows # <<>>
    <3>1. p.named /\ q.named /\ c.named /\ d.named
      BY <1>1, <1>3, <2>4
    <3>2. Cost(d, m - k) = Cost(c, l - k)
      BY <1>1, <2>1, <2>4, <3>1, CostOfLeft
    <3>3. m - k \in Dropped(d)
      <4>1. m - k \in 0 .. m
        BY <1>2, <2>1
      <4>2. QED
        BY <1>3, <3>1, <4>1 DEF Dropped
    <3>4. Cost(c, l - k) \in Int
      BY <1>3, <2>2, CostIsInteger
    <3>5. Cost(d, m - k) <= budget + 1
      BY <2>2, <3>2, <3>4
    <3>6. QED
      BY <3>3, <3>5 DEF Fits
  <2>5. QED
    BY <2>3, <2>4
<1>9. /\ more = [rows |-> m - Min(G), marked |-> d.named /\ Marked(d, Min(G))]
      /\ Min(G) \in Nat /\ Min(G) <= m - k
  <2>1. G # {} /\ G \in SUBSET Nat
    BY <1>2, <1>3, <1>8 DEF Fits, Dropped
  <2>2. more = [rows |-> m - Min(G), marked |-> d.named /\ Marked(d, Min(G))]
    BY <1>2, <1>3, <2>1, RenderingIs
  <2> HIDE DEF G, k, more
  <2>3. Min(G) \in G /\ Min(G) <= m - k
    BY <1>8, <2>1, MinIs
  <2>4. QED
    BY <2>1, <2>2, <2>3
<1> HIDE DEF r, more, l, m, n, F, G
<1>10. more \in Renderings
  <2>1. m - Min(G) \in Int /\ (d.named /\ Marked(d, Min(G))) \in BOOLEAN
    BY <1>2, <1>9
  <2>2. QED
    BY <1>9, <2>1 DEF Renderings
<1>11. more.rows >= r.rows
  <2>1. more.rows = m - Min(G)
    BY <1>9
  <2>2. QED
    BY <1>2, <1>7, <1>9, <2>1
<1>12. QED
  BY <1>10, <1>11, NoneIsNoRendering

(***************************************************************************)
(* The other runners.                                                      *)
(***************************************************************************)

LEMMA ResultTells ==
  ASSUME NEW st, NEW named, NEW part, NEW truncated
  PROVE  Tells(Result(named, part, truncated), st) <=> (truncated <=> Len(part) < Len(st.rows))
BY DEF Tells, Result

LEMMA FetchesAre ==
  ASSUME NEW st, IsStatement(st), NEW limit \in Nat
  PROVE  /\ Brings(FetchAll(st, limit), st) /\ Tells(FetchAll(st, limit), st)
         /\ Brings(FetchOneMore(st, limit), st) /\ Tells(FetchOneMore(st, limit), st)
         /\ Brings(FetchPartition(st, limit), st)
         /\ st.sent >= Min({limit, Len(st.rows)}) => Tells(FetchPartition(st, limit), st)
<1> DEFINE rows == st.rows
           n == Len(rows)
<1>1. rows \in Seq(Row) /\ n \in Nat /\ (rows = <<>> <=> n = 0)
      /\ st.named \in BOOLEAN /\ (st.named \/ rows = <<>>) /\ st.sent \in Nat
  BY DEF IsStatement, Row
<1> HIDE DEF rows, n
<1>2. ASSUME NEW part, StartsAs(part, rows), NEW named, named \in BOOLEAN, rows # <<>> => named,
             NEW truncated, truncated \in BOOLEAN, truncated => n > 0
      PROVE  Brings(Result(named, part, truncated), st)
  <2>1. part \in Seq(Row) /\ Len(part) <= n /\ Len(part) \in Nat /\ StartsAs(part, st.rows)
    BY <1>2 DEF StartsAs, n, rows
  <2>2. named \/ (part = <<>> /\ ~truncated)
    <3>1. CASE rows = <<>>
      BY <1>1, <1>2, <2>1, <3>1
    <3>2. QED
      BY <1>2, <3>1
  <2>3. QED
    BY <1>2, <2>1, <2>2 DEF Brings, Result
<1> DEFINE first == FirstRows(rows, limit)
<1>3. StartsAs(first, rows) /\ first \in Seq(Row) /\ Len(first) = IF limit <= n THEN limit ELSE n
  BY <1>1, FirstRowsIs DEF StartsAs, n
<1> HIDE DEF first
<1>4. Brings(FetchAll(st, limit), st) /\ Tells(FetchAll(st, limit), st)
  <2>1. FetchAll(st, limit) = Result(rows # <<>>, first, n > limit)
    BY DEF FetchAll, first, n, rows
  <2>2. Brings(Result(rows # <<>>, first, n > limit), st)
    <3>1. (rows # <<>>) \in BOOLEAN /\ (n > limit) \in BOOLEAN /\ (n > limit => n > 0)
      BY <1>1
    <3>2. QED
      BY <1>2, <1>3, <3>1
  <2>3. (n > limit) <=> Len(first) < n
    BY <1>1, <1>3
  <2>4. Tells(FetchAll(st, limit), st)
    BY <2>1, <2>3, ResultTells DEF n, rows
  <2>5. QED
    BY <2>1, <2>2, <2>4
<1>5. Brings(FetchOneMore(st, limit), st) /\ Tells(FetchOneMore(st, limit), st)
  <2> DEFINE sent == FirstRows(rows, limit + 1)
             kept == FirstRows(sent, limit)
  <2>1. StartsAs(sent, rows) /\ sent \in Seq(Row) /\ Len(sent) = IF limit + 1 <= n THEN limit + 1 ELSE n
    BY <1>1, FirstRowsIs DEF StartsAs, n
  <2>2. FetchOneMore(st, limit) = Result(st.named, kept, Len(sent) > limit)
    BY DEF FetchOneMore, Asks, rows
  <2> HIDE DEF sent
  <2>3. StartsAs(kept, sent) /\ Len(kept) = IF limit <= Len(sent) THEN limit ELSE Len(sent)
    BY <2>1, FirstRowsIs
  <2> HIDE DEF kept
  <2>4. StartsAs(kept, rows)
    BY <1>1, <2>1, <2>3, StartsTwice
  <2>5. Len(sent) > limit <=> n > limit
    BY <1>1, <2>1
  <2>6. Len(sent) > limit <=> Len(kept) < n
    BY <1>1, <2>1, <2>3
  <2>7. Brings(Result(st.named, kept, Len(sent) > limit), st)
    <3>1. (Len(sent) > limit) \in BOOLEAN /\ (Len(sent) > limit => n > 0)
      BY <1>1, <2>5
    <3>2. QED
      BY <1>1, <1>2, <2>4, <3>1
  <2>8. (Len(sent) > limit) <=> Len(kept) < n
    BY <2>6
  <2>9. Tells(FetchOneMore(st, limit), st)
    BY <2>2, <2>8, ResultTells DEF n, rows
  <2>10. QED
    BY <2>2, <2>7, <2>9
<1>6. /\ Brings(FetchPartition(st, limit), st)
      /\ st.sent >= Min({limit, Len(st.rows)}) => Tells(FetchPartition(st, limit), st)
  <2> DEFINE sent == FirstRows(rows, st.sent)
             kept == FirstRows(sent, limit)
  <2>1. StartsAs(sent, rows) /\ sent \in Seq(Row) /\ Len(sent) = IF st.sent <= n THEN st.sent ELSE n
    BY <1>1, FirstRowsIs DEF StartsAs, n
  <2>2. FetchPartition(st, limit) = Result(st.named, kept, n > limit)
    BY DEF FetchPartition, rows, n
  <2> HIDE DEF sent
  <2>3. StartsAs(kept, sent) /\ Len(kept) = IF limit <= Len(sent) THEN limit ELSE Len(sent)
    BY <2>1, FirstRowsIs
  <2> HIDE DEF kept
  <2>4. StartsAs(kept, rows)
    BY <1>1, <2>1, <2>3, StartsTwice
  <2>5. Brings(Result(st.named, kept, n > limit), st)
    <3>1. (n > limit) \in BOOLEAN /\ (n > limit => n > 0)
      BY <1>1
    <3>2. QED
      BY <1>1, <1>2, <2>4, <3>1
  <2>6. ASSUME st.sent >= Min({limit, n})
        PROVE  n > limit <=> Len(kept) < n
    <3>1. Min({limit, n}) \in {limit, n}
      <4>1. {limit, n} \in SUBSET Nat /\ {limit, n} # {}
        BY <1>1
      <4>2. QED
        BY <4>1, MinIs
    <3>2. Min({limit, n}) <= limit /\ Min({limit, n}) <= n
      <4>1. {limit, n} \in SUBSET Nat /\ {limit, n} # {}
        BY <1>1
      <4>2. QED
        BY <4>1, MinIs
    <3>3. st.sent >= limit \/ st.sent >= n
      BY <2>6, <3>1
    <3>4. QED
      BY <1>1, <2>1, <2>3, <3>3
  <2>7. st.sent >= Min({limit, n}) => Tells(FetchPartition(st, limit), st)
    BY <2>2, <2>6, ResultTells DEF n, rows
  <2>8. QED
    BY <2>2, <2>5, <2>7 DEF n, rows
<1>7. QED
  BY <1>4, <1>5, <1>6

\* What SQL Server's stream has kept after k rows.
Kept(s, st, limit, k) ==
  /\ s \in [named : BOOLEAN, rows : Seq(Row), truncated : BOOLEAN] /\ s.named = st.named
  /\ StartsAs(s.rows, st.rows) /\ Len(s.rows) = IF limit <= k THEN limit ELSE k
  /\ s.truncated <=> limit < k

LEMMA KeepKeeps ==
  ASSUME NEW st, IsStatement(st), NEW limit \in Nat, NEW k \in 1 .. Len(st.rows), NEW s, Kept(s, st, limit, k - 1)
  PROVE  Kept(Keep(s, st.rows[k], limit), st, limit, k)
<1> DEFINE rows == st.rows
           row == rows[k]
           t == Keep(s, row, limit)
<1>1. rows \in Seq(Row) /\ row \in Row /\ k \in Nat /\ k >= 1 /\ Len(rows) \in Nat
  <2>1. rows \in Seq(Row)
    BY DEF IsStatement, Row
  <2>2. QED
    BY <2>1
<1>2. s \in [named : BOOLEAN, rows : Seq(Row), truncated : BOOLEAN] /\ Append(s.rows, row) \in Seq(Row)
      /\ Len(s.rows) \in Nat
  BY <1>1 DEF Kept
<1>3. Len(s.rows) = IF limit <= k - 1 THEN limit ELSE k - 1
  BY DEF Kept
<1> HIDE DEF row
<1>4. CASE Len(s.rows) >= limit
  <2>1. t = [s EXCEPT !.truncated = TRUE]
    BY <1>4 DEF Keep
  <2>2. t \in [named : BOOLEAN, rows : Seq(Row), truncated : BOOLEAN] /\ t.named = s.named
        /\ t.rows = s.rows /\ t.truncated
    BY <1>2, <2>1
  <2> HIDE DEF t
  <2>3. limit < k /\ Len(s.rows) = limit
    BY <1>1, <1>2, <1>3, <1>4
  <2>4. Len(t.rows) = IF limit <= k THEN limit ELSE k
    BY <1>1, <2>2, <2>3
  <2>5. StartsAs(t.rows, st.rows) /\ t.named = st.named
    BY <2>2 DEF Kept
  <2>6. QED
    BY <2>2, <2>3, <2>4, <2>5 DEF Kept, t, row
<1>5. CASE ~(Len(s.rows) >= limit)
  <2>1. t = [s EXCEPT !.rows = Append(@, row)]
    BY <1>5 DEF Keep
  <2>2. t \in [named : BOOLEAN, rows : Seq(Row), truncated : BOOLEAN] /\ t.named = s.named
        /\ t.rows = Append(s.rows, row) /\ t.truncated = s.truncated
    BY <1>2, <2>1
  <2> HIDE DEF t
  <2>3. limit >= k /\ Len(s.rows) = k - 1
    BY <1>1, <1>2, <1>3, <1>5
  <2>4. StartsAs(t.rows, rows) /\ Len(t.rows) = k
    <3>1. StartsAs(s.rows, rows)
      BY DEF Kept
    <3>2. StartsAs(Append(s.rows, rows[k]), rows) /\ Len(Append(s.rows, rows[k])) = k
      <4> DEFINE part == s.rows
      <4>1. StartsAs(part, rows) /\ Len(part) = k - 1 /\ rows \in Seq(Row) /\ k \in 1 .. Len(rows)
        BY <1>1, <2>3, <3>1
      <4> HIDE DEF part, rows
      <4>2. StartsAs(Append(part, rows[k]), rows) /\ Len(Append(part, rows[k])) = k
        BY <4>1, RowIsNext
      <4>3. QED
        BY <4>2 DEF part
    <3>3. QED
      BY <2>2, <3>2 DEF row
  <2>5. Len(t.rows) = IF limit <= k THEN limit ELSE k
    BY <1>1, <2>3, <2>4
  <2>6. t.truncated <=> limit < k
    <3>1. s.truncated <=> limit < k - 1
      BY DEF Kept
    <3>2. QED
      BY <1>1, <2>2, <2>3, <3>1
  <2>7. t.named = st.named
    BY <2>2 DEF Kept
  <2>8. QED
    BY <2>2, <2>4, <2>5, <2>6, <2>7 DEF Kept, t, row
<1>6. QED
  BY <1>4, <1>5

LEMMA ReadStreamIs ==
  ASSUME NEW st, IsStatement(st), NEW limit \in Nat
  PROVE  Brings(ReadStream(st, limit), st) /\ Tells(ReadStream(st, limit), st)
<1> DEFINE n == Len(st.rows)
<1>1. st.rows \in Seq(Row) /\ n \in Nat /\ st.named \in BOOLEAN /\ (st.named \/ st.rows = <<>>)
  BY DEF IsStatement, Row
<1>2. PICK read : /\ ReadStream(st, limit) = read[n]
                  /\ read[0] = Result(st.named, <<>>, FALSE)
                  /\ \A k \in 1 .. n : read[k] = Keep(read[k - 1], st.rows[k], limit)
  BY ReadStreamFollows
<1> DEFINE W == {k \in 0 .. n : Kept(read[k], st, limit, k)}
<1>3. 0 \in W
  <2> DEFINE s == Result(st.named, <<>>, FALSE)
  <2>1. s.named = st.named /\ s.rows = <<>> /\ ~s.truncated
        /\ s \in [named : BOOLEAN, rows : Seq(Row), truncated : BOOLEAN]
    BY <1>1 DEF Result
  <2>0. read[0] = s /\ 0 \in 0 .. n
    BY <1>1, <1>2
  <2> HIDE DEF s
  <2>2. StartsAs(s.rows, st.rows) /\ Len(s.rows) = 0
    BY <1>1, <2>1 DEF StartsAs
  <2>3. Kept(s, st, limit, 0)
    <3>1. Len(s.rows) = IF limit <= 0 THEN limit ELSE 0
      BY <2>2
    <3>2. s.truncated <=> limit < 0
      BY <2>1
    <3>3. QED
      BY <2>1, <2>2, <3>1, <3>2 DEF Kept
  <2>4. QED
    BY <2>0, <2>3
<1>4. ASSUME NEW k \in 1 .. n, k - 1 \in W
      PROVE  k \in W
  <2>1. Kept(read[k - 1], st, limit, k - 1) /\ k \in 0 .. n
    BY <1>1, <1>4
  <2>2. QED
    BY <1>2, <2>1, KeepKeeps
<1>5. n \in W
  <2>1. 0 .. n \subseteq W
    <3> HIDE DEF W, n
    <3>1. QED
      BY <1>1, <1>3, <1>4, StageInduction
  <2>2. n \in 0 .. n
    BY <1>1
  <2>3. QED
    BY <2>1, <2>2
<1> DEFINE s == ReadStream(st, limit)
<1>6. Kept(s, st, limit, n)
  BY <1>2, <1>5
<1> HIDE DEF s
<1>7. s.named \in BOOLEAN /\ s.truncated \in BOOLEAN /\ s.named = st.named /\ StartsAs(s.rows, st.rows)
      /\ Len(s.rows) = (IF limit <= n THEN limit ELSE n) /\ (s.truncated <=> limit < n) /\ s.rows \in Seq(Row)
  BY <1>6 DEF Kept
<1>8. Tells(s, st)
  <2>1. limit < n <=> Len(s.rows) < n
    BY <1>1, <1>7
  <2>2. QED
    BY <1>7, <2>1 DEF Tells
<1>9. s.named \/ (s.rows = <<>> /\ ~s.truncated)
  <2>1. st.rows = <<>> => n = 0
    BY <1>1
  <2>2. n = 0 => s.rows = <<>> /\ ~s.truncated
    BY <1>7
  <2>3. QED
    BY <1>1, <1>7, <2>1, <2>2
<1>10. QED
  BY <1>7, <1>8, <1>9 DEF Brings, s

LEMMA RunSqlIs ==
  ASSUME NEW st, IsStatement(st), NEW limit \in Nat,
         NEW backend \in Runnable
  PROVE  /\ Brings(RunSql(backend, st, limit), st)
         /\ (backend # "snowflake" \/ st.sent >= Min({limit, Len(st.rows)})) => Tells(RunSql(backend, st, limit), st)
<1>1. CASE backend \in {"sqlite", "postgres", "mysql"}
  <2>1. RunSql(backend, st, limit) = FetchAll(st, limit)
    BY <1>1 DEF RunSql
  <2>2. QED
    BY <2>1, FetchesAre
<1>2. CASE backend = "mssql"
  <2>1. RunSql(backend, st, limit) = ReadStream(st, limit)
    BY <1>2 DEF RunSql
  <2>2. QED
    BY <2>1, ReadStreamIs
<1>3. CASE backend = "bigquery"
  <2>1. RunSql(backend, st, limit) = FetchOneMore(st, limit)
    BY <1>3 DEF RunSql
  <2>2. QED
    BY <2>1, FetchesAre
<1>4. CASE backend = "snowflake"
  <2>1. RunSql(backend, st, limit) = FetchPartition(st, limit)
    BY <1>4 DEF RunSql
  <2>2. QED
    BY <1>4, <2>1, FetchesAre
<1>5. QED
  BY <1>1, <1>2, <1>3, <1>4 DEF Runnable

\* What an agent is shown of a statement says that there is more exactly when
\* there is, by whichever limit and backend it was cut, and a larger budget never
\* shows less: for every statement, every limit of rows and every budget.
\* introspector.rs, backends/, lib.rs
THEOREM RunIsHonestForAll ==
  ASSUME NEW st, IsStatement(st), NEW limit \in Nat, NEW budget \in Int,
         NEW backend \in Runnable
  PROVE  RunIsHonest(backend, st, limit, budget)
<1> DEFINE whole == backend # "snowflake" \/ st.sent >= Min({limit, Len(st.rows)})
           ran == RunSql(backend, st, limit)
           p == RunSqlStreaming(backend, st, limit, budget)
           q == RunSqlStreaming(backend, st, limit, budget + 1)
<1>1. Brings(ran, st) /\ (whole => Tells(ran, st))
  BY RunSqlIs
<1> HIDE DEF ran, whole
<1>2. AnswerIsHonest(Rendered(ran, st, budget), Rendered(ran, st, budget + 1), Len(st.rows), whole)
  BY <1>1, SameIsHonest
<1>3. AnswerIsHonest(Rendered(p, st, budget), Rendered(q, st, budget + 1), Len(st.rows), whole)
  <2>1. CASE backend \in {"sqlite", "postgres", "mysql"}
    <3>1. p = StreamRows(st, budget) /\ q = StreamRows(st, budget + 1)
      BY <2>1 DEF RunSqlStreaming
    <3>2. QED
      BY <3>1, StreamsAreHonest
  <2>2. CASE backend \notin {"sqlite", "postgres", "mysql"}
    <3>1. p = ran /\ q = ran
      BY <2>2 DEF RunSqlStreaming, ran
    <3>2. QED
      BY <1>2, <3>1
  <2>3. QED
    BY <2>1, <2>2
<1>4. QED
  BY <1>2, <1>3 DEF RunIsHonest, ran, whole, p, q

\* An estimate of a cost without a number of rows says why.  introspector.rs
THEOREM CostIsExplainedForAll ==
  ASSUME NEW backend, NEW plan, IsPlan(plan)
  PROVE  CostIsExplained(backend, plan)
<1>1. CASE backend # "postgres"
  BY <1>1, NoneIsNoWarning DEF CostIsExplained, PreviewCost, Warnings
<1>2. CASE backend = "postgres" /\ plan.answer # "plan"
  BY <1>2, NoneIsNoWarning DEF CostIsExplained, PreviewCost, Warnings, IsPlan
<1>3. CASE backend = "postgres" /\ plan.answer = "plan"
  BY <1>3, NoneIsNoWarning DEF CostIsExplained, PreviewCost, Warnings
<1>4. QED
  BY <1>1, <1>2, <1>3

(***************************************************************************)
(* Names: the ranking of the columns, the synonyms, and the hints, which   *)
(* take the best of each table in turn.                                    *)
(***************************************************************************)

LEMMA ScoreIsNumber ==
  ASSUME NEW l, l.jw \in Int
  PROVE  Fuzzy(l) \in Int /\ Score(l) \in Int
<1>1. l.jw + (IF l.within THEN 5 ELSE 0) \in Int
  OBVIOUS
<1>2. Exact \in Int
  BY DEF Exact
<1>3. Fuzzy(l) \in Int
  BY <1>1, <1>2, LesserIs DEF Fuzzy
<1>4. QED
  BY <1>2, <1>3 DEF Score

\* What resolve_column makes of a table: the columns by falling likeness, the
\* earlier one of equals first.
Ranks(t, like, a) ==
  /\ a \in Seq(ToSet(t.columns) \X Int) /\ Len(a) = Len(t.columns)
  /\ \A k \in 1 .. Len(a) : a[k][2] = Score(like[a[k][1]])
  /\ \A k, l \in 1 .. Len(a) : k < l => a[k][1] # a[l][1] /\ a[k][2] >= a[l][2]
  /\ \A c \in ToSet(t.columns) : \E k \in 1 .. Len(a) : a[k][1] = c
  /\ \A i \in DOMAIN t.columns :
       \/ Score(like[t.columns[i]]) < a[1][2]
       \/ \E j \in 1 .. i : t.columns[j] = a[1][1]

LEMMA AnswersAreRanked ==
  ASSUME NEW t, NEW like, IsComparable(t, like), t.columns # <<>>
  PROVE  \E a : Ranks(t, like, a) /\ ResolveColumn(t, like) = Match(a)
<1> DEFINE cols == t.columns
           C == ToSet(cols)
           n == Len(cols)
           scores == [i \in DOMAIN cols |-> Score(like[cols[i]])]
           o == Ranking(scores)
           a == Answers(t, scores, o)
<1>1. cols \in Seq(C) /\ n \in Nat /\ n # 0 /\ DOMAIN cols = 1 .. n /\ C = {cols[i] : i \in 1 .. n}
  BY DEF IsComparable, ToSet
<1>2. \A i, j \in 1 .. n : cols[i] = cols[j] => i = j
  BY <1>1 DEF IsComparable, IsInjective
<1>3. \A c \in C : Score(like[c]) \in Int
  <2>1. \A c \in C : like[c].jw \in Int
    <3>1. \A c \in C : like[c].jw \in 0 .. 100
      BY DEF IsComparable, Exact
    <3>2. SUFFICES ASSUME NEW c \in C
                   PROVE  like[c].jw \in Int
      OBVIOUS
    <3>3. like[c].jw \in 0 .. 100
      BY <3>1
    <3> DEFINE x == like[c].jw
    <3> HIDE DEF x
    <3>4. x \in 0 .. 100 => x \in Int
      OBVIOUS
    <3>5. QED
      BY <3>3, <3>4 DEF x
  <2>2. QED
    BY <2>1, ScoreIsNumber
<1>4. scores \in [1 .. n -> Int] /\ \A i \in 1 .. n : scores[i] = Score(like[cols[i]])
  BY <1>1, <1>3
<1>5. ResolveColumn(t, like) = Match(a)
  BY DEF ResolveColumn
<1> HIDE DEF scores
<1>6. /\ o \in [1 .. n -> 1 .. n]
      /\ \A j \in 1 .. n : \E k \in 1 .. n : o[k] = j
      /\ \A k, l \in 1 .. n : k < l => o[k] \in PlacesAhead(scores, o[l])
  <2> HIDE DEF n
  <2>1. QED
    BY <1>1, <1>4, RankingIs
<1> HIDE DEF o
<1>7. \A k, l \in 1 .. n : k < l => scores[o[k]] > scores[o[l]] \/ (scores[o[k]] = scores[o[l]] /\ o[k] < o[l])
  BY <1>6 DEF PlacesAhead
<1>8. DOMAIN a = 1 .. n /\ \A k \in 1 .. n : a[k] = <<cols[o[k]], scores[o[k]]>>
  BY <1>6 DEF Answers
<1>9. a = [k \in 1 .. n |-> a[k]]
  BY <1>8 DEF Answers
<1> HIDE DEF a
<1>10. \A k \in 1 .. n : /\ o[k] \in 1 .. n /\ cols[o[k]] \in C /\ scores[o[k]] \in Int
                         /\ a[k][1] = cols[o[k]] /\ a[k][2] = scores[o[k]]
  <2> HIDE DEF cols, n, C
  <2>1. SUFFICES ASSUME NEW k \in 1 .. n
                 PROVE  /\ o[k] \in 1 .. n /\ cols[o[k]] \in C /\ scores[o[k]] \in Int
                        /\ a[k][1] = cols[o[k]] /\ a[k][2] = scores[o[k]]
    OBVIOUS
  <2>2. o[k] \in 1 .. n
    BY <1>6
  <2>3. cols[o[k]] \in C /\ scores[o[k]] \in Int
    BY <1>1, <1>4, <2>2
  <2>4. a[k] = <<cols[o[k]], scores[o[k]]>>
    BY <1>8
  <2>5. QED
    BY <2>2, <2>3, <2>4
<1> HIDE DEF cols, n, C
<1>11. a \in Seq(C \X Int) /\ Len(a) = n
  <2>1. SUFFICES \A k \in 1 .. n : a[k] \in C \X Int
    <3> DEFINE D == C \X Int
    <3>1. SUFFICES ASSUME \A k \in 1 .. n : a[k] \in D
                   PROVE  a \in Seq(D) /\ Len(a) = n
      OBVIOUS
    <3> HIDE DEF D
    <3>2. a \in [1 .. n -> D]
      BY <1>9, <3>1
    <3>3. QED
      BY <1>1, <3>2
  <2>2. SUFFICES ASSUME NEW k \in 1 .. n
                 PROVE  a[k] \in C \X Int
    OBVIOUS
  <2>3. a[k] = <<cols[o[k]], scores[o[k]]>> /\ cols[o[k]] \in C /\ scores[o[k]] \in Int
    BY <1>8, <1>10
  <2>4. QED
    BY <2>3
<1>12. \A k \in 1 .. n : a[k][2] = Score(like[a[k][1]])
  BY <1>4, <1>10
<1>13. ASSUME NEW k \in 1 .. n, NEW l \in 1 .. n, k < l
       PROVE  a[k][1] # a[l][1] /\ a[k][2] >= a[l][2]
  <2>1. o[k] # o[l] /\ scores[o[k]] >= scores[o[l]]
    <3>1. scores[o[k]] \in Int /\ scores[o[l]] \in Int /\ o[k] \in Int /\ o[l] \in Int
      BY <1>10
    <3>2. scores[o[k]] > scores[o[l]] \/ (scores[o[k]] = scores[o[l]] /\ o[k] < o[l])
      BY <1>7, <1>13
    <3>3. QED
      BY <3>1, <3>2
  <2>2. QED
    BY <1>2, <1>10, <2>1
<1>14. \A c \in C : \E k \in 1 .. n : a[k][1] = c
  <2>1. SUFFICES ASSUME NEW c \in C
                 PROVE  \E k \in 1 .. n : a[k][1] = c
    OBVIOUS
  <2>2. PICK i \in 1 .. n : cols[i] = c
    BY <1>1
  <2>3. PICK k \in 1 .. n : o[k] = i
    BY <1>6
  <2>4. QED
    BY <1>10, <2>2, <2>3
<1>15. ASSUME NEW i \in 1 .. n
       PROVE  Score(like[cols[i]]) < a[1][2] \/ \E j \in 1 .. i : cols[j] = a[1][1]
  <2>1. PICK k \in 1 .. n : o[k] = i
    BY <1>6
  <2>2. 1 \in 1 .. n
    BY <1>1
  <2>3. a[1][1] = cols[o[1]] /\ a[1][2] = scores[o[1]] /\ o[1] \in 1 .. n /\ scores[o[1]] \in Int
    BY <1>10, <2>2
  <2>4. scores[i] = Score(like[cols[i]]) /\ scores[i] \in Int
    BY <1>4
  <2>5. CASE k = 1
    <3>1. i \in 1 .. i /\ cols[i] = a[1][1]
      BY <2>1, <2>3, <2>5
    <3>2. QED
      BY <3>1
  <2>6. CASE k # 1
    <3>1. 1 < k
      BY <2>6
    <3>2. scores[o[1]] > scores[i] \/ (scores[o[1]] = scores[i] /\ o[1] < i)
      BY <1>7, <2>1, <2>2, <3>1
    <3>3. CASE scores[o[1]] > scores[i]
      BY <2>3, <2>4, <3>3
    <3>4. CASE o[1] < i
      <4>1. o[1] \in 1 .. i
        BY <2>3, <3>4
      <4>2. QED
        BY <2>3, <4>1
    <3>5. QED
      BY <3>2, <3>3, <3>4
  <2>7. QED
    BY <2>5, <2>6
<1>16. Ranks(t, like, a)
  BY <1>1, <1>11, <1>12, <1>13, <1>14, <1>15 DEF Ranks, cols, n, C
<1>17. QED
  BY <1>5, <1>16

\* The match is the first of the most alike, and no column left out is more alike
\* than one that is named, whatever the columns.  resolve.rs
THEOREM BestAnswers ==
  ASSUME NEW t, NEW like, IsComparable(t, like)
  PROVE  AnswerIsTheBest(t, like, ResolveColumn(t, like))
<1>1. SUFFICES ASSUME t.columns # <<>>
               PROVE  AnswerIsTheBest(t, like, ResolveColumn(t, like))
  BY DEF AnswerIsTheBest
<1>2. PICK a : Ranks(t, like, a) /\ ResolveColumn(t, like) = Match(a)
  BY <1>1, AnswersAreRanked
<1> DEFINE C == ToSet(t.columns)
           n == Len(a)
           m == Min({4, n})
           r == Match(a)
           named == <<<<r.matched, r.confidence>>>> \o r.alternatives
<1>3. /\ a \in Seq(C \X Int) /\ n = Len(t.columns)
      /\ \A k \in 1 .. n : a[k][2] = Score(like[a[k][1]])
      /\ \A k, l \in 1 .. n : k < l => a[k][1] # a[l][1] /\ a[k][2] >= a[l][2]
      /\ \A c \in C : \E k \in 1 .. n : a[k][1] = c
      /\ \A i \in DOMAIN t.columns :
           \/ Score(like[t.columns[i]]) < a[1][2]
           \/ \E j \in 1 .. i : t.columns[j] = a[1][1]
  BY <1>2 DEF Ranks
<1>4. n \in Nat /\ n # 0
  <2>1. Len(t.columns) # 0
    BY <1>1 DEF IsComparable
  <2>2. QED
    BY <1>3, <2>1
<1>5. m \in 1 .. n /\ m = IF 4 <= n THEN 4 ELSE n
  <2> HIDE DEF n
  <2>1. Min({4, n}) = IF 4 <= n THEN 4 ELSE n
    BY <1>4, LesserIs
  <2>2. QED
    BY <1>4, <2>1
<1>6. r.matched = a[1][1] /\ r.confidence = a[1][2] /\ r.alternatives = SubSeq(a, 2, m)
  BY DEF Match
<1>7. <<r.matched, r.confidence>> = a[1]
  <2>1. a[1] \in C \X Int
    BY <1>3, <1>4
  <2>2. a[1] = <<a[1][1], a[1][2]>>
    BY <2>1
  <2>3. QED
    BY <1>6, <2>2
<1> HIDE DEF m, C, r
<1>8. Len(named) = m /\ DOMAIN named = 1 .. m /\ \A i \in 1 .. m : named[i] = a[i]
  <2>1. named = <<a[1]>> \o SubSeq(a, 2, m)
    BY <1>6, <1>7
  <2> HIDE DEF named
  <2>2. m \in 1 .. Len(a)
    BY <1>5
  <2> DEFINE D == C \X Int
  <2>3. a \in Seq(D)
    BY <1>3
  <2> HIDE DEF D
  <2>4. QED
    BY <2>1, <2>2, <2>3, HeadAndRest
<1> HIDE DEF named
<1>9. \A i \in 1 .. m : i \in 1 .. n
  BY <1>4, <1>5
<1>10. \A i \in DOMAIN named : named[i][2] = Score(like[named[i][1]])
  BY <1>3, <1>8, <1>9
<1>11. \A i, j \in DOMAIN named : i < j => named[i][1] # named[j][1] /\ named[i][2] >= named[j][2]
  <2>1. SUFFICES ASSUME NEW i \in DOMAIN named, NEW j \in DOMAIN named, i < j
                 PROVE  named[i][1] # named[j][1] /\ named[i][2] >= named[j][2]
    OBVIOUS
  <2>2. i \in 1 .. n /\ j \in 1 .. n /\ named[i] = a[i] /\ named[j] = a[j]
    BY <1>8, <1>9
  <2>3. a[i][1] # a[j][1] /\ a[i][2] >= a[j][2]
    BY <1>3, <2>1, <2>2
  <2>4. QED
    BY <2>2, <2>3
<1>12. ASSUME NEW c \in C \ {named[i][1] : i \in DOMAIN named}, NEW i \in DOMAIN named
       PROVE  Score(like[c]) <= named[i][2]
  <2>1. PICK k \in 1 .. n : a[k][1] = c
    BY <1>3
  <2>2. k \notin 1 .. m
    BY <1>8, <2>1
  <2>3. i \in 1 .. n /\ i < k
    BY <1>4, <1>5, <1>8, <1>9, <2>2
  <2>4. a[i][2] >= a[k][2] /\ a[k][2] = Score(like[c])
    BY <1>3, <2>1, <2>3
  <2>5. a[i][2] \in Int /\ a[k][2] \in Int
    <3>1. a[i] \in C \X Int /\ a[k] \in C \X Int
      <4> DEFINE D == C \X Int
      <4>1. a \in Seq(D)
        BY <1>3
      <4> HIDE DEF D
      <4>2. \A l \in 1 .. n : a[l] \in D
        BY <4>1
      <4>3. QED
        BY <2>3, <4>2 DEF D
    <3>2. QED
      BY <3>1
  <2>6. QED
    BY <1>8, <2>4, <2>5
<1>13. AnswerIsTheBest(t, like, r)
  <2>1. Len(named) = Min({4, Len(t.columns)})
    BY <1>3, <1>8 DEF m
  <2>2. \A i \in DOMAIN t.columns :
          \/ Score(like[t.columns[i]]) < r.confidence
          \/ \E j \in 1 .. i : t.columns[j] = r.matched
    BY <1>3, <1>6
  <2> HIDE DEF n
  <2>3. QED
    BY <1>10, <1>11, <1>12, <2>1, <2>2 DEF AnswerIsTheBest, named, C
<1>14. QED
  BY <1>2, <1>13 DEF r

\* Entries of a scope: the first of them for a name gives its target.
LEMMA TargetIs ==
  ASSUME NEW synonyms, synonyms \in Seq(ToSet(synonyms)), NEW scope, NEW name
  PROVE  \/ /\ Target(synonyms, scope, name) = None
            /\ \A i \in DOMAIN synonyms : ~(synonyms[i].alias = name /\ synonyms[i].table = scope)
         \/ \E i \in DOMAIN synonyms :
              /\ synonyms[i].alias = name /\ synonyms[i].table = scope
              /\ \A j \in 1 .. i - 1 : ~(synonyms[j].alias = name /\ synonyms[j].table = scope)
              /\ Target(synonyms, scope, name) = synonyms[i].target
<1> DEFINE I == {i \in 1 .. Len(synonyms) : synonyms[i].alias = name /\ synonyms[i].table = scope}
           at == SelectInSeq(synonyms, LAMBDA e : e.alias = name /\ e.table = scope)
<1>1. DOMAIN synonyms = 1 .. Len(synonyms) /\ Len(synonyms) \in Nat
  OBVIOUS
<1>2. at = IF I # {} THEN Min(I) ELSE 0
  BY DEF SelectInSeq
<1>3. Target(synonyms, scope, name) = IF at = 0 THEN None ELSE synonyms[at].target
  BY DEF Target
<1> HIDE DEF at
<1>4. CASE I = {}
  BY <1>1, <1>2, <1>3, <1>4
<1>5. CASE I # {}
  <2>1. Min(I) \in I /\ \A j \in I : Min(I) <= j
    <3>1. I \in SUBSET Nat
      BY <1>1
    <3> HIDE DEF I
    <3>2. QED
      BY <1>5, <3>1, MinIs
  <2> DEFINE k == Min(I)
  <2>2. k \in 1 .. Len(synonyms) /\ synonyms[k].alias = name /\ synonyms[k].table = scope
    BY <2>1
  <2>3. ASSUME NEW j \in 1 .. k - 1
        PROVE  ~(synonyms[j].alias = name /\ synonyms[j].table = scope)
    <3>1. k \in I /\ \A l \in I : k <= l
      BY <2>1
    <3> HIDE DEF k
    <3>2. j \in 1 .. Len(synonyms) /\ ~(k <= j)
      BY <1>1, <2>2
    <3>3. QED
      BY <3>1, <3>2
  <2>4. Target(synonyms, scope, name) = synonyms[k].target
    <3>1. at = k
      BY <1>2, <1>5
    <3> HIDE DEF k, I
    <3>2. k # 0
      BY <1>1, <2>2
    <3>3. QED
      BY <1>3, <3>1, <3>2
  <2> HIDE DEF k
  <2>5. QED
    BY <1>1, <2>2, <2>3, <2>4
<1>6. QED
  BY <1>4, <1>5

\* Synonyms answer for their table or for every table, the table's own first,
\* whatever they say.  synonyms.rs
THEOREM SynonymsAnswerInScope ==
  ASSUME NEW t, NEW like, IsComparable(t, like), NEW name,
         NEW synonyms, synonyms \in Seq(ToSet(synonyms))
  PROVE  SynonymsStayInScope(t, name, synonyms, like,
           ResolveWithSynonyms(t, name, synonyms, like))
<1> DEFINE own == Target(synonyms, t.name, name)
           all == Target(synonyms, None, name)
           h == ScopedTarget(synonyms, t.name, name)
           hits == <<h, all>>
           J == {i \in 1 .. Len(hits) : HasColumn(t, hits[i])}
           at == SelectInSeq(hits, LAMBDA hit : HasColumn(t, hit))
           r == ResolveWithSynonyms(t, name, synonyms, like)
           Hit(i, scope) == synonyms[i].alias = name /\ synonyms[i].table = scope
<1>1. DOMAIN synonyms = 1 .. Len(synonyms) /\ Len(synonyms) \in Nat
  OBVIOUS
<1>2. \/ own = None /\ \A i \in DOMAIN synonyms : ~Hit(i, t.name)
      \/ \E i \in DOMAIN synonyms :
           Hit(i, t.name) /\ (\A j \in 1 .. i - 1 : ~Hit(j, t.name)) /\ own = synonyms[i].target
  BY TargetIs
<1>3. \/ all = None
      \/ \E i \in DOMAIN synonyms : Hit(i, None) /\ all = synonyms[i].target
  <2>1. \/ all = None /\ \A i \in DOMAIN synonyms : ~Hit(i, None)
        \/ \E i \in DOMAIN synonyms :
             Hit(i, None) /\ (\A j \in 1 .. i - 1 : ~Hit(j, None)) /\ all = synonyms[i].target
    BY TargetIs
  <2>2. QED
    BY <2>1
<1>4. ~HasColumn(t, None)
  BY DEF IsComparable, HasColumn, Contains, ToSet
<1>5. h = IF own # None THEN own ELSE all
  BY DEF ScopedTarget
<1>6. at = IF J # {} THEN Min(J) ELSE 0
  BY DEF SelectInSeq
<1>7. r = IF at = 0 THEN ResolveColumn(t, like)
          ELSE [matched |-> hits[at], confidence |-> Exact, alternatives |-> <<>>]
  BY DEF ResolveWithSynonyms
<1> HIDE DEF own, all, h, at, r
<1>8. \A i : i \in J <=> (i = 1 /\ HasColumn(t, h)) \/ (i = 2 /\ HasColumn(t, all))
  OBVIOUS
<1>9. hits[1] = h /\ hits[2] = all
  OBVIOUS
<1> HIDE DEF J, hits
<1>10. J # {} => Min(J) \in J /\ \A j \in J : Min(J) <= j
  <2>1. J \in SUBSET Nat
    BY <1>8
  <2>2. QED
    BY <2>1, MinIs
<1>11. /\ HasColumn(t, h) => at = 1
       /\ ~HasColumn(t, h) /\ HasColumn(t, all) => at = 2
       /\ ~HasColumn(t, h) /\ ~HasColumn(t, all) => at = 0
  <2>1. CASE HasColumn(t, h)
    <3>1. 1 \in J
      BY <1>8, <2>1
    <3>2. Min(J) \in {1, 2} /\ Min(J) <= 1
      BY <1>8, <1>10, <3>1
    <3>3. Min(J) = 1
      BY <3>2
    <3>4. QED
      BY <1>6, <2>1, <3>1, <3>3
  <2>2. CASE ~HasColumn(t, h)
    <3>1. CASE HasColumn(t, all)
      <4>1. 2 \in J
        BY <1>8, <3>1
      <4>2. Min(J) = 2
        BY <1>8, <1>10, <2>2, <4>1
      <4>3. QED
        BY <1>6, <2>2, <3>1, <4>1, <4>2
    <3>2. CASE ~HasColumn(t, all)
      <4>1. J = {}
        BY <1>8, <2>2, <3>2
      <4>2. QED
        BY <1>6, <2>2, <3>2, <4>1
    <3>3. QED
      BY <3>1, <3>2
  <2>3. QED
    BY <2>1, <2>2
<1> DEFINE Given(x) == r.confidence = Exact /\ r.matched = x /\ HasColumn(t, x)
<1>12. \/ r = ResolveColumn(t, like)
       \/ own # None /\ Given(own)
       \/ all # None /\ Given(all)
  <2>1. CASE HasColumn(t, h)
    <3>1. r = [matched |-> h, confidence |-> Exact, alternatives |-> <<>>]
      BY <1>7, <1>9, <1>11, <2>1
    <3>2. Given(h) /\ h # None
      BY <1>4, <2>1, <3>1
    <3>3. QED
      BY <1>5, <3>2
  <2>2. CASE ~HasColumn(t, h) /\ HasColumn(t, all)
    <3>1. r = [matched |-> all, confidence |-> Exact, alternatives |-> <<>>]
      BY <1>7, <1>9, <1>11, <2>2
    <3>2. Given(all) /\ all # None
      BY <1>4, <2>2, <3>1
    <3>3. QED
      BY <3>2
  <2>3. CASE ~HasColumn(t, h) /\ ~HasColumn(t, all)
    BY <1>7, <1>11, <2>3
  <2>4. QED
    BY <2>1, <2>2, <2>3
<1>13. \/ r = ResolveColumn(t, like)
       \/ /\ r.confidence = Exact /\ HasColumn(t, r.matched)
          /\ \E e \in ToSet(synonyms) :
               e.alias = name /\ e.table \in {None, t.name} /\ e.target = r.matched
  <2>1. \A i \in DOMAIN synonyms : synonyms[i] \in ToSet(synonyms)
    BY DEF ToSet
  <2>2. CASE own # None /\ Given(own)
    <3>1. PICK i \in DOMAIN synonyms : Hit(i, t.name) /\ own = synonyms[i].target
      BY <1>2, <2>2
    <3>2. QED
      BY <2>1, <2>2, <3>1
  <2>3. CASE all # None /\ Given(all)
    <3>1. PICK i \in DOMAIN synonyms : Hit(i, None) /\ all = synonyms[i].target
      BY <1>3, <2>3
    <3>2. QED
      BY <2>1, <2>3, <3>1
  <2>4. QED
    BY <1>12, <2>2, <2>3
<1>14. ASSUME NEW i \in DOMAIN synonyms, Hit(i, t.name), HasColumn(t, synonyms[i].target),
              \A j \in 1 .. i - 1 : ~Hit(j, t.name)
       PROVE  r.matched = synonyms[i].target
  <2>1. PICK k \in DOMAIN synonyms :
          Hit(k, t.name) /\ (\A j \in 1 .. k - 1 : ~Hit(j, t.name)) /\ own = synonyms[k].target
    BY <1>2, <1>14
  <2>2. k = i
    <3>1. i \in 1 .. Len(synonyms) /\ k \in 1 .. Len(synonyms)
      BY <1>1
    <3>2. k < i => k \in 1 .. i - 1
      BY <3>1
    <3>3. i < k => i \in 1 .. k - 1
      BY <3>1
    <3>4. ~(k < i) /\ ~(i < k)
      BY <1>14, <2>1, <3>2, <3>3
    <3>5. QED
      BY <3>1, <3>4
  <2>3. h = synonyms[i].target
    BY <1>4, <1>5, <1>14, <2>1, <2>2
  <2>4. at = 1
    BY <1>11, <1>14, <2>3
  <2>5. r.matched = h
    BY <1>7, <1>9, <2>4
  <2>6. QED
    BY <2>3, <2>5
<1>15. SynonymsStayInScope(t, name, synonyms, like, r)
  BY <1>13, <1>14 DEF SynonymsStayInScope
<1>16. QED
  BY <1>15 DEF r

\* found is the best of the columns of the tables.
IsBestOf(found, tables, like) ==
  \/ /\ found.matched = None /\ found.confidence = 0
     /\ \A t \in tables : ToSet(t.columns) = {}
  \/ /\ found.matched # None /\ found.confidence \in Int
     /\ \E t \in tables : t.name = found.table /\ found.matched \in ToSet(t.columns)
     /\ found.confidence = Score(like[found.matched])
     /\ \A t \in tables : \A c \in ToSet(t.columns) :
          Score(like[c]) \in Int /\ Score(like[c]) <= found.confidence

LEMMA ColumnIsBest ==
  ASSUME NEW t, NEW like, IsComparable(t, like)
  PROVE  IsBestOf(ColumnOf(t, like), {t}, like)
<1> DEFINE r == ResolveColumn(t, like)
           c == ColumnOf(t, like)
           C == ToSet(t.columns)
<1>1. c.table = t.name /\ c.matched = r.matched /\ c.confidence = r.confidence
  BY DEF ColumnOf, Located
<1> HIDE DEF c
<1>2. CASE t.columns = <<>>
  <2>1. c.matched = None /\ c.confidence = 0
    BY <1>1, <1>2 DEF ResolveColumn, NoMatch
  <2>2. C = {}
    BY <1>2 DEF ToSet
  <2>3. QED
    BY <2>1, <2>2 DEF IsBestOf, c
<1>3. CASE t.columns # <<>>
  <2>1. PICK a : Ranks(t, like, a) /\ r = Match(a)
    BY <1>3, AnswersAreRanked
  <2> DEFINE n == Len(a)
             D == C \X Int
  <2>2. a \in Seq(D) /\ n = Len(t.columns)
    BY <2>1 DEF Ranks
  <2>3. n \in Nat /\ n # 0
    BY <1>3, <2>2 DEF IsComparable
  <2>4. \A k \in 1 .. n : a[k] \in D
    <3> HIDE DEF D
    <3>1. QED
      BY <2>2
  <2>5. \A k \in 1 .. n : a[k][1] \in C /\ a[k][2] \in Int
    BY <2>4
  <2>6. r.matched = a[1][1] /\ r.confidence = a[1][2]
    BY <2>1 DEF Match
  <2>7. 1 \in 1 .. n
    BY <2>3
  <2>8. a[1][1] \in C /\ a[1][1] # None /\ a[1][2] \in Int /\ a[1][2] = Score(like[a[1][1]])
    <3>1. a[1][2] = Score(like[a[1][1]])
      BY <2>1, <2>7 DEF Ranks
    <3>2. None \notin C
      BY DEF IsComparable
    <3>3. QED
      BY <2>5, <2>7, <3>1, <3>2
  <2>9. ASSUME NEW x \in C
        PROVE  Score(like[x]) \in Int /\ Score(like[x]) <= a[1][2]
    <3>1. PICK k \in 1 .. n : a[k][1] = x
      BY <2>1 DEF Ranks
    <3>2. a[k][2] = Score(like[x])
      BY <2>1, <3>1 DEF Ranks
    <3>3. k # 1 => a[1][2] >= a[k][2]
      <4>1. k # 1 => 1 < k
        BY <2>3
      <4>2. QED
        BY <2>1, <2>7, <4>1 DEF Ranks
    <3>4. a[1][2] \in Int /\ a[k][2] \in Int
      BY <2>5, <2>7
    <3>5. QED
      BY <3>2, <3>3, <3>4
  <2>10. QED
    BY <1>1, <2>6, <2>8, <2>9 DEF IsBestOf, c
<1>4. QED
  BY <1>2, <1>3 DEF c

LEMMA BetterIsBest ==
  ASSUME NEW like, NEW A, NEW B, NEW best, NEW c,
         IsBestOf(best, A, like), IsBestOf(c, B, like), best.matched = None => best = NoColumn
  PROVE  /\ IsBestOf(Better(best, c), A \cup B, like)
         /\ Better(best, c).matched = None => Better(best, c) = NoColumn
<1>1. best = NoColumn <=> best.matched = None
  BY DEF NoColumn
<1>2. CASE c.matched = None
  <2>1. Better(best, c) = best
    BY <1>2 DEF Better
  <2>2. \A t \in B : ToSet(t.columns) = {}
    BY <1>2 DEF IsBestOf
  <2>3. QED
    BY <2>1, <2>2 DEF IsBestOf
<1>3. CASE c.matched # None /\ best.matched = None
  <2>1. Better(best, c) = c
    BY <1>1, <1>3 DEF Better
  <2>2. \A t \in A : ToSet(t.columns) = {}
    BY <1>3 DEF IsBestOf
  <2>3. QED
    BY <1>3, <2>1, <2>2 DEF IsBestOf
<1>4. CASE c.matched # None /\ best.matched # None
  <2> DEFINE x == best.confidence
             y == c.confidence
             s(k) == Score(like[k])
  <2>1. /\ x \in Int /\ y \in Int
        /\ \A t \in A : \A k \in ToSet(t.columns) : s(k) \in Int /\ s(k) <= x
        /\ \A t \in B : \A k \in ToSet(t.columns) : s(k) \in Int /\ s(k) <= y
        /\ \E t \in A : t.name = best.table /\ best.matched \in ToSet(t.columns)
        /\ \E t \in B : t.name = c.table /\ c.matched \in ToSet(t.columns)
        /\ x = s(best.matched) /\ y = s(c.matched)
    BY <1>4 DEF IsBestOf
  <2>2. Better(best, c) = IF y > x THEN c ELSE best
    BY <1>1, <1>4 DEF Better
  <2> HIDE DEF s
  <2>3. CASE y > x
    <3>1. \A t \in A \cup B : \A k \in ToSet(t.columns) : s(k) \in Int /\ s(k) <= y
      <4>1. SUFFICES ASSUME NEW t \in A, NEW k \in ToSet(t.columns)
                     PROVE  s(k) \in Int /\ s(k) <= y
        BY <2>1
      <4>2. s(k) \in Int /\ s(k) <= x
        BY <2>1
      <4> HIDE DEF x, y
      <4>3. QED
        BY <2>1, <2>3, <4>2
    <3>2. QED
      BY <1>4, <2>1, <2>2, <2>3, <3>1 DEF IsBestOf, s
  <2>4. CASE ~(y > x)
    <3>1. \A t \in A \cup B : \A k \in ToSet(t.columns) : s(k) \in Int /\ s(k) <= x
      <4>1. SUFFICES ASSUME NEW t \in B, NEW k \in ToSet(t.columns)
                     PROVE  s(k) \in Int /\ s(k) <= x
        BY <2>1
      <4>2. s(k) \in Int /\ s(k) <= y
        BY <2>1
      <4> HIDE DEF x, y
      <4>3. QED
        BY <2>1, <2>4, <4>2
    <3>2. QED
      BY <1>4, <2>1, <2>2, <2>4, <3>1 DEF IsBestOf, s
  <2>5. QED
    BY <2>3, <2>4
<1>5. QED
  BY <1>2, <1>3, <1>4

LEMMA BestColumnFollows ==
  ASSUME NEW db, NEW like, Len(db) \in Nat
  PROVE  \E best : /\ BestColumn(db, like) = best[Len(db)]
                   /\ best[0] = NoColumn
                   /\ \A k \in 1 .. Len(db) : best[k] = Better(best[k - 1], ColumnOf(db[k], like))
<1> DEFINE n == Len(db)
           V == {NoColumn} \cup {ColumnOf(db[k], like) : k \in 1 .. n}
           step == [k \in 1 .. n |-> [b \in V |-> Better(b, ColumnOf(db[k], like))]]
           Body(f, k) == IF k = 0 THEN NoColumn ELSE Better(f[k - 1], ColumnOf(db[k], like))
           Solves(f) == f = [k \in 0 .. n |-> Body(f, k)]
<1>1. n \in Nat
  OBVIOUS
<1>2. \A k \in 1 .. n : \A b \in V : Better(b, ColumnOf(db[k], like)) \in V
  <2>1. \A k \in 1 .. n : ColumnOf(db[k], like) \in V
    OBVIOUS
  <2> HIDE DEF V, n
  <2>2. QED
    BY <2>1 DEF Better
<1>3. NoColumn \in V
  OBVIOUS
<1>4. step \in [1 .. n -> [V -> V]]
  <2> HIDE DEF V, n
  <2>1. QED
    BY <1>2
<1>5. IsIteration(n, V, NoColumn, step)
  <2> HIDE DEF n, V, step
  <2>1. QED
    BY <1>1, <1>3, <1>4 DEF IsIteration
<1>6. PICK g \in [0 .. n -> V] : g[0] = NoColumn /\ \A k \in 1 .. n : g[k] = step[k][g[k - 1]]
  <2> HIDE DEF n, V, step
  <2>1. QED
    BY <1>5, Iteration
<1>7. \E f : Solves(f)
  <2>1. ASSUME NEW k \in 0 .. n
        PROVE  g[k] = Body(g, k)
    <3>1. CASE k = 0
      BY <1>6, <3>1
    <3>2. CASE k # 0
      <4> HIDE DEF n
      <4>1. k \in 1 .. n /\ k - 1 \in 0 .. n
        BY <1>1, <3>2
      <4>2. g[k - 1] \in V
        BY <1>6, <4>1
      <4> HIDE DEF V
      <4>3. step[k][g[k - 1]] = Better(g[k - 1], ColumnOf(db[k], like))
        BY <4>1, <4>2
      <4> HIDE DEF step
      <4>4. QED
        BY <1>6, <3>2, <4>1, <4>3
    <3>3. QED
      BY <3>1, <3>2
  <2>2. Solves(g)
    <3> HIDE DEF Body, V, n
    <3>1. QED
      BY <1>6, <2>1
  <2> HIDE DEF Solves
  <2>3. QED
    BY <2>2
<1>8. PICK best : best = (CHOOSE f : Solves(f)) /\ Solves(best)
  <2> HIDE DEF Solves
  <2>1. QED
    BY <1>7
<1>9. BestColumn(db, like) = best[n]
  BY <1>8 DEF BestColumn
<1>10. \A k \in 0 .. n : best[k] = Body(best, k)
  BY <1>8
<1>11. best[0] = NoColumn /\ \A k \in 1 .. n : best[k] = Better(best[k - 1], ColumnOf(db[k], like))
  <2>1. 0 \in 0 .. n /\ \A k \in 1 .. n : k \in 0 .. n /\ k # 0
    BY <1>1
  <2>2. QED
    BY <1>10, <2>1
<1>12. QED
  BY <1>9, <1>11

LEMMA BestColumnIsBest ==
  ASSUME NEW db, NEW like, IsDatabaseToHint(db, like)
  PROVE  IsBestOf(BestColumn(db, like), ToSet(db), like)
<1> DEFINE n == Len(db)
           Firsts(k) == {db[i] : i \in 1 .. k}
<1>1. n \in Nat /\ DOMAIN db = 1 .. n /\ \A k \in 1 .. n : IsComparable(db[k], like)
  BY DEF IsDatabaseToHint, ToSet
<1>2. PICK best : /\ BestColumn(db, like) = best[n]
                  /\ best[0] = NoColumn
                  /\ \A k \in 1 .. n : best[k] = Better(best[k - 1], ColumnOf(db[k], like))
  BY <1>1, BestColumnFollows
<1> DEFINE W == {k \in 0 .. n : /\ IsBestOf(best[k], Firsts(k), like)
                                /\ best[k].matched = None => best[k] = NoColumn}
<1>3. 0 \in W
  <2>1. Firsts(0) = {} /\ 0 \in 0 .. n
    BY <1>1
  <2>2. NoColumn.matched = None /\ NoColumn.confidence = 0
    BY DEF NoColumn
  <2> HIDE DEF Firsts
  <2>3. QED
    BY <1>2, <2>1, <2>2 DEF IsBestOf
<1>4. ASSUME NEW k \in 1 .. n, k - 1 \in W
      PROVE  k \in W
  <2>1. Firsts(k) = Firsts(k - 1) \cup {db[k]}
    <3>1. \A i : i \in 1 .. k <=> i \in 1 .. k - 1 \/ i = k
      OBVIOUS
    <3>2. QED
      BY <3>1
  <2> HIDE DEF Firsts
  <2>2. IsBestOf(ColumnOf(db[k], like), {db[k]}, like)
    BY <1>1, ColumnIsBest
  <2>3. /\ IsBestOf(best[k - 1], Firsts(k - 1), like)
        /\ best[k - 1].matched = None => best[k - 1] = NoColumn
    BY <1>4
  <2>4. best[k] = Better(best[k - 1], ColumnOf(db[k], like))
    BY <1>2
  <2>5. /\ IsBestOf(best[k], Firsts(k), like)
        /\ best[k].matched = None => best[k] = NoColumn
    BY <2>1, <2>2, <2>3, <2>4, BetterIsBest
  <2>6. k \in 0 .. n
    BY <1>1
  <2>7. QED
    BY <2>5, <2>6
<1>5. 0 .. n \subseteq W
  <2> HIDE DEF W, n
  <2>1. QED
    BY <1>1, <1>3, <1>4, StageInduction
<1>6. n \in W
  <2> HIDE DEF W
  <2>1. n \in 0 .. n
    BY <1>1
  <2>2. QED
    BY <1>5, <2>1
<1>7. Firsts(n) = ToSet(db)
  BY <1>1 DEF ToSet
<1>8. QED
  BY <1>2, <1>6, <1>7

LEMMA TableAtIsPlace ==
  ASSUME NEW db, db \in Seq(ToSet(db)), NEW ref
  PROVE  TableAt(db, ref) \in {0} \cup DOMAIN db
<1> DEFINE I == {j \in 1 .. Len(db) : ref \in {<<db[j].name>>, QualifiedName(db[j])}}
<1>1. DOMAIN db = 1 .. Len(db) /\ Len(db) \in Nat
  OBVIOUS
<1>2. TableAt(db, ref) = IF I # {} THEN Min(I) ELSE 0
  BY DEF TableAt, SelectInSeq
<1>3. I \in SUBSET Nat /\ I \subseteq DOMAIN db
  BY <1>1
<1> HIDE DEF I
<1>4. I # {} => Min(I) \in I
  BY <1>3, MinIs
<1>5. QED
  BY <1>2, <1>3, <1>4

LEMMA FoundIsBest ==
  ASSUME NEW db, NEW message, NEW like, IsDatabaseToHint(db, like)
  PROVE  IsBestOf(FoundColumn(db, message.ref, like), Searched(db, message), like)
<1> DEFINE ref == message.ref
           at == TableAt(db, Front(ref))
<1>1. at \in {0} \cup DOMAIN db
  BY TableAtIsPlace DEF IsDatabaseToHint
<1>2. CASE Len(ref) = 1
  <2>1. FoundColumn(db, ref, like) = BestColumn(db, like)
    BY <1>2 DEF FoundColumn
  <2>2. Searched(db, message) = ToSet(db)
    BY <1>2 DEF Searched
  <2>3. QED
    BY <2>1, <2>2, BestColumnIsBest
<1>3. CASE Len(ref) # 1 /\ at = 0
  <2>1. FoundColumn(db, ref, like) = NoColumn
    BY <1>3 DEF FoundColumn
  <2>2. Searched(db, message) = {}
    BY <1>3 DEF Searched
  <2>3. NoColumn.matched = None /\ NoColumn.confidence = 0
    BY DEF NoColumn
  <2>4. QED
    BY <2>1, <2>2, <2>3 DEF IsBestOf
<1>4. CASE Len(ref) # 1 /\ at # 0
  <2>1. FoundColumn(db, ref, like) = ColumnOf(db[at], like)
    BY <1>4 DEF FoundColumn
  <2>2. at \in DOMAIN db /\ db[at] \in ToSet(db)
    BY <1>1, <1>4 DEF ToSet
  <2>3. Searched(db, message) = {db[at]}
    BY <1>4, <2>2 DEF Searched
  <2>4. IsComparable(db[at], like)
    BY <2>2 DEF IsDatabaseToHint
  <2>5. QED
    BY <2>1, <2>3, <2>4, ColumnIsBest
<1>5. QED
  BY <1>2, <1>3, <1>4

LEMMA FuzzyTableIsBest ==
  ASSUME NEW db, NEW like, IsDatabaseToHint(db, like)
  PROVE  LET found == FuzzyTable(db, like)
         IN /\ found = None => \A t \in ToSet(db) : Fuzzy(like[t.name]) < Threshold
            /\ found # None =>
                 /\ \E t \in ToSet(db) : t.name = found
                 /\ Fuzzy(like[found]) >= Threshold
                 /\ \A t \in ToSet(db) : Fuzzy(like[t.name]) <= Fuzzy(like[found])
<1> DEFINE n == Len(db)
           scores == [i \in DOMAIN db |-> Fuzzy(like[db[i].name])]
           o == Ranking(scores)
           best == o[1]
           found == FuzzyTable(db, like)
<1>1. n \in Nat /\ DOMAIN db = 1 .. n /\ ToSet(db) = {db[i] : i \in 1 .. n}
  BY DEF IsDatabaseToHint, ToSet
<1>2. \A i \in 1 .. n : Fuzzy(like[db[i].name]) \in Int /\ db[i].name # None
  <2>1. SUFFICES ASSUME NEW i \in 1 .. n
                 PROVE  Fuzzy(like[db[i].name]) \in Int /\ db[i].name # None
    OBVIOUS
  <2>2. db[i].name # None /\ like[db[i].name].jw \in 0 .. Exact
    BY <1>1 DEF IsDatabaseToHint
  <2> DEFINE x == like[db[i].name].jw
  <2> HIDE DEF x
  <2>3. x \in 0 .. 100 => x \in Int
    OBVIOUS
  <2>4. like[db[i].name].jw \in Int
    BY <2>2, <2>3 DEF x, Exact
  <2>5. QED
    BY <2>2, <2>4, ScoreIsNumber
<1>3. found = IF db = <<>> \/ scores[best] < Threshold THEN None ELSE db[best].name
  BY DEF FuzzyTable
<1>4. CASE db = <<>>
  <2>1. ToSet(db) = {} /\ found = None
    BY <1>3, <1>4 DEF ToSet
  <2>2. QED
    BY <2>1
<1>5. CASE db # <<>>
  <2>1. n # 0
    BY <1>5 DEF IsDatabaseToHint
  <2>2. scores \in [1 .. n -> Int] /\ \A i \in 1 .. n : scores[i] = Fuzzy(like[db[i].name])
    BY <1>1, <1>2
  <2> HIDE DEF scores
  <2>3. /\ o \in [1 .. n -> 1 .. n]
        /\ \A j \in 1 .. n : \E k \in 1 .. n : o[k] = j
        /\ \A k, l \in 1 .. n : k < l => o[k] \in PlacesAhead(scores, o[l])
    <3> HIDE DEF n
    <3>1. QED
      BY <1>1, <2>2, RankingIs
  <2> HIDE DEF o, n
  <2>4. 1 \in 1 .. n
    BY <1>1, <2>1
  <2>5. best \in 1 .. n
    BY <2>3, <2>4
  <2> HIDE DEF best, found
  <2>6. ASSUME NEW j \in 1 .. n
        PROVE  scores[j] <= scores[best]
    <3>1. PICK k \in 1 .. n : o[k] = j
      BY <2>3
    <3>2. CASE k = 1
      <4>1. j = best /\ scores[j] \in Int
        BY <2>2, <3>1, <3>2 DEF best
      <4>2. QED
        BY <4>1
    <3>3. CASE k # 1
      <4>1. 1 < k
        BY <3>3
      <4>2. best \in PlacesAhead(scores, j)
        BY <2>3, <2>4, <3>1, <4>1 DEF best
      <4>3. scores[best] > scores[j] \/ scores[best] = scores[j]
        BY <4>2 DEF PlacesAhead
      <4>4. scores[best] \in Int /\ scores[j] \in Int
        BY <2>2, <2>5
      <4>5. QED
        BY <4>3, <4>4
    <3>4. QED
      BY <3>2, <3>3
  <2> DEFINE F(i) == Fuzzy(like[db[i].name])
  <2>7. \A i \in 1 .. n : F(i) \in Int /\ F(i) <= F(best)
    BY <1>2, <2>2, <2>5, <2>6
  <2>8. scores[best] = F(best) /\ F(best) \in Int
    BY <1>2, <2>2, <2>5
  <2>9. Threshold \in Int
    BY DEF Threshold
  <2>10. CASE F(best) < Threshold
    <3>1. found = None
      BY <1>3, <2>8, <2>10
    <3>2. \A i \in 1 .. n : F(i) < Threshold
      <4> HIDE DEF F
      <4>1. QED
        BY <2>7, <2>8, <2>9, <2>10
    <3>3. QED
      BY <1>1, <3>1, <3>2 DEF found
  <2>11. CASE ~(F(best) < Threshold)
    <3>1. found = db[best].name /\ found # None
      BY <1>2, <1>3, <1>5, <2>5, <2>8, <2>11
    <3>2. F(best) >= Threshold
      <4> HIDE DEF F
      <4>1. QED
        BY <2>8, <2>9, <2>11
    <3>3. db[best] \in ToSet(db) /\ Fuzzy(like[found]) = F(best)
      BY <1>1, <2>5, <3>1
    <3>4. QED
      BY <1>1, <2>7, <3>1, <3>2, <3>3 DEF found
  <2>12. QED
    BY <2>10, <2>11
<1>6. QED
  BY <1>4, <1>5

\* A hint suggests what no other name is more like, and nothing only when nothing
\* is like it enough, whatever the database.  hint.rs
THEOREM HintsAreTheBest ==
  ASSUME NEW db, NEW message, NEW like, IsDatabaseToHint(db, like)
  PROVE  HintIsTheBest(db, message, like, HintForError(db, message, like))
<1> DEFINE hint == HintForError(db, message, like)
           found == FoundColumn(db, message.ref, like)
           Tables == Searched(db, message)
           columns == UNION {{Score(like[c]) : c \in ToSet(t.columns)} : t \in Tables}
           tables == {Fuzzy(like[t.name]) : t \in ToSet(db)}
<1>1. ASSUME message.complaint = "column"
      PROVE  /\ hint.suggestion = None <=> \A s \in columns : s < Threshold
             /\ hint.suggestion # None =>
                  /\ \A s \in columns : s <= Score(like[hint.suggestion])
                  /\ \E t \in Tables : t.name = hint.table /\ HasColumn(t, hint.suggestion)
  <2>1. hint = ColumnHint(found)
    BY <1>1 DEF HintForError
  <2>2. hint.table = found.table
        /\ hint.suggestion = IF found.confidence >= Threshold THEN found.matched ELSE None
    BY <2>1 DEF ColumnHint
  <2>3. IsBestOf(found, Tables, like)
    BY FoundIsBest
  <2>4. \A s : s \in columns <=> \E t \in Tables : \E c \in ToSet(t.columns) : s = Score(like[c])
    OBVIOUS
  <2>5. Threshold = 60
    BY DEF Threshold
  <2> HIDE DEF hint, found, Tables, columns
  <2>6. CASE found.matched = None
    <3>1. found.confidence = 0 /\ \A t \in Tables : ToSet(t.columns) = {}
      BY <2>3, <2>6 DEF IsBestOf
    <3>2. hint.suggestion = None /\ columns = {}
      BY <2>2, <2>4, <2>5, <2>6, <3>1
    <3>3. QED
      BY <3>2
  <2>7. CASE found.matched # None
    <3> DEFINE x == found.confidence
    <3>1. /\ x \in Int /\ x = Score(like[found.matched])
          /\ \A t \in Tables : \A c \in ToSet(t.columns) : Score(like[c]) \in Int /\ Score(like[c]) <= x
      BY <2>3, <2>7 DEF IsBestOf
    <3>2. PICK t \in Tables : t.name = found.table /\ found.matched \in ToSet(t.columns)
      BY <2>3, <2>7 DEF IsBestOf
    <3>3. x \in columns /\ \A s \in columns : s \in Int /\ s <= x
      BY <2>4, <3>1, <3>2
    <3>4. HasColumn(t, found.matched)
      <4>1. IsComparable(t, like)
        <5>1. t \in ToSet(db)
          BY <3>2 DEF Searched, Tables
        <5>2. QED
          BY <5>1 DEF IsDatabaseToHint
      <4>2. QED
        BY <3>2, <4>1 DEF HasColumn, Contains, ToSet, IsComparable
    <3>5. hint.suggestion = IF x >= Threshold THEN found.matched ELSE None
      BY <2>2
    <3>6. CASE x >= Threshold
      <4>1. hint.suggestion = found.matched /\ hint.suggestion # None
        BY <2>7, <3>5, <3>6
      <4>2. ~(x < Threshold)
        <5> HIDE DEF x
        <5>1. QED
          BY <2>5, <3>1, <3>6
      <4>3. QED
        BY <2>2, <3>1, <3>2, <3>3, <3>4, <4>1, <4>2
    <3>7. CASE ~(x >= Threshold)
      <4>1. hint.suggestion = None
        BY <3>5, <3>7
      <4>2. \A s \in columns : s < Threshold
        <5> HIDE DEF x
        <5>1. QED
          BY <2>5, <3>1, <3>3, <3>7
      <4>3. QED
        BY <4>1, <4>2
    <3>8. QED
      BY <3>6, <3>7
  <2>8. QED
    BY <2>6, <2>7
<1>2. ASSUME message.complaint = "table"
      PROVE  /\ hint.suggestion = None <=> \A s \in tables : s < Threshold
             /\ hint.suggestion # None => \A s \in tables : s <= Fuzzy(like[hint.suggestion])
  <2> DEFINE f == FuzzyTable(db, like)
  <2>1. hint = [kind |-> "table", table |-> None, suggestion |-> f]
    BY <1>2 DEF HintForError
  <2>2. hint.suggestion = f
    BY <2>1
  <2>3. /\ f = None => \A t \in ToSet(db) : Fuzzy(like[t.name]) < Threshold
        /\ f # None =>
             /\ \E t \in ToSet(db) : t.name = f
             /\ Fuzzy(like[f]) >= Threshold
             /\ \A t \in ToSet(db) : Fuzzy(like[t.name]) <= Fuzzy(like[f])
    BY FuzzyTableIsBest
  <2> HIDE DEF f, hint
  <2>4. CASE f = None
    BY <2>2, <2>3, <2>4
  <2>5. CASE f # None
    <3>1. PICK t \in ToSet(db) : t.name = f
      BY <2>3, <2>5
    <3>2. Fuzzy(like[f]) \in tables /\ Fuzzy(like[f]) >= Threshold
      BY <2>3, <2>5, <3>1
    <3>3. Fuzzy(like[f]) \in Int /\ Threshold \in Int
      <4>1. like[f].jw \in 0 .. Exact
        BY <3>1 DEF IsDatabaseToHint
      <4> DEFINE x == like[f].jw
      <4> HIDE DEF x
      <4>2. x \in 0 .. 100 => x \in Int
        OBVIOUS
      <4>3. like[f].jw \in Int
        BY <4>1, <4>2 DEF x, Exact
      <4>4. QED
        BY <4>3, ScoreIsNumber DEF Threshold
    <3>4. ~(Fuzzy(like[f]) < Threshold)
      <4> DEFINE y == Fuzzy(like[f])
      <4> HIDE DEF y
      <4>1. y \in Int /\ Threshold \in Int /\ y >= Threshold
        BY <3>2, <3>3 DEF y
      <4>2. ~(y < Threshold)
        BY <4>1
      <4>3. QED
        BY <4>2 DEF y
    <3>5. QED
      BY <2>2, <2>3, <2>5, <3>2, <3>4
  <2>6. QED
    BY <2>4, <2>5
<1>3. QED
  BY <1>1, <1>2 DEF HintIsTheBest

(***************************************************************************)
(* Descriptions: the order of the tables by score, and what each attempt   *)
(* leaves of them.                                                         *)
(***************************************************************************)

\* A table with what a description says of it, and lists of them.
IsTableToDescribe(t) ==
  /\ t.inName \in Nat /\ t.inColumns \in Nat
  /\ t.bare \in Int /\ \A part \in ToSet(Parts) : t.size[part] \in Int

IsListOfTables(ts) ==
  ts \in Seq(ToSet(ts)) /\ \A t \in ToSet(ts) : IsTableToDescribe(t)

LEMMA RelevancesAre ==
  ASSUME NEW ts, IsListOfTables(ts)
  PROVE  /\ Len(ts) \in Nat /\ DOMAIN ts = 1 .. Len(ts)
         /\ Relevances(ts) \in [1 .. Len(ts) -> Nat]
         /\ \A i \in 1 .. Len(ts) : Relevances(ts)[i] = Relevance(ts[i])
<1>1. Len(ts) \in Nat /\ DOMAIN ts = 1 .. Len(ts)
  BY DEF IsListOfTables
<1>2. ASSUME NEW i \in 1 .. Len(ts)
      PROVE  Relevance(ts[i]) \in Nat
  <2>1. ts[i] \in ToSet(ts)
    BY <1>1 DEF ToSet
  <2>2. IsTableToDescribe(ts[i])
    BY <2>1 DEF IsListOfTables
  <2>3. QED
    BY <2>2, SMTT(60) DEF IsTableToDescribe, Relevance
<1>3. QED
  BY <1>1, <1>2 DEF Relevances

\* Numbers in a row have a greatest.
LEMMA Bounded ==
  ASSUME NEW n \in Nat, NEW own \in [1 .. n -> Nat]
  PROVE  \E b \in Nat : \A i \in 1 .. n : own[i] <= b
<1> DEFINE W == {k \in 0 .. n : \E b \in Nat : \A i \in 1 .. k : own[i] <= b}
<1>1. 0 \in W
  OBVIOUS
<1>2. ASSUME NEW k \in 1 .. n, k - 1 \in W
      PROVE  k \in W
  <2>1. PICK b \in Nat : \A i \in 1 .. k - 1 : own[i] <= b
    BY <1>2
  <2>2. own[k] \in Nat
    OBVIOUS
  <2> DEFINE c == b + own[k]
  <2>3. c \in Nat /\ b <= c /\ own[k] <= c
    BY <2>2
  <2>4. ASSUME NEW i \in 1 .. k
        PROVE  own[i] <= c
    <3>1. CASE i = k
      BY <2>3, <3>1
    <3>2. CASE i # k
      <4>1. i \in 1 .. k - 1 /\ own[i] \in Nat
        BY <3>2
      <4>2. own[i] <= b
        BY <2>1, <4>1
      <4> HIDE DEF c
      <4>3. QED
        BY <2>3, <4>1, <4>2
    <3>3. QED
      BY <3>1, <3>2
  <2> HIDE DEF c
  <2>5. \E d \in Nat : \A i \in 1 .. k : own[i] <= d
    BY <2>3, <2>4
  <2>6. k \in 0 .. n
    OBVIOUS
  <2>7. QED
    BY <2>5, <2>6
<1>3. 0 .. n \subseteq W
  <2> HIDE DEF W
  <2>1. QED
    BY <1>1, <1>2, StageInduction
<1>4. n \in W
  <2>1. n \in 0 .. n
    OBVIOUS
  <2> HIDE DEF W
  <2>2. QED
    BY <1>3, <2>1
<1>5. QED
  BY <1>4

LEMMA TopIs ==
  ASSUME NEW n \in Nat, NEW own \in [1 .. n -> Nat]
  PROVE  LET top == Max({0} \cup ToSet(own))
         IN /\ top \in Nat
            /\ \A i \in 1 .. n : own[i] <= top
            /\ top # 0 => \E i \in 1 .. n : own[i] = top
<1> DEFINE T == {0} \cup ToSet(own)
<1>1. PICK b \in Nat : \A i \in 1 .. n : own[i] <= b
  BY Bounded
<1>2. ToSet(own) = {own[i] : i \in 1 .. n}
  BY DEF ToSet
<1>3. T \in SUBSET Nat /\ T # {} /\ \A y \in T : y <= b
  BY <1>1, <1>2
<1>4. \A i \in 1 .. n : own[i] \in T
  BY <1>2
<1>5. \A y \in T : y = 0 \/ \E i \in 1 .. n : own[i] = y
  BY <1>2
<1> HIDE DEF T
<1>6. Max(T) \in T /\ \A y \in T : Max(T) >= y
  BY <1>3, MaxIs
<1>7. Max(T) \in Nat
  BY <1>3, <1>6
<1>8. \A i \in 1 .. n : own[i] <= Max(T)
  <2>1. SUFFICES ASSUME NEW i \in 1 .. n
                 PROVE  own[i] <= Max(T)
    OBVIOUS
  <2>2. Max(T) >= own[i] /\ own[i] \in Nat
    BY <1>4, <1>6
  <2>3. QED
    BY <1>7, <2>2
<1>9. QED
  BY <1>5, <1>6, <1>7, <1>8 DEF T

LEMMA RaiseIsNatural ==
  ASSUME NEW n \in Nat, NEW scores \in [1 .. n -> Nat], NEW i \in 1 .. n, NEW ts, NEW own, NEW top
  PROVE  Raise(ts, own, top, scores, i) \in [1 .. n -> Nat]
<1>1. scores[i] + Boost \in Nat
  BY DEF Boost
<1> DEFINE e == [scores EXCEPT ![i] = @ + Boost]
<1>2. e \in [1 .. n -> Nat]
  BY <1>1
<1> HIDE DEF e
<1>3. Raise(ts, own, top, scores, i) = IF Gains(ts, own, top, scores, i) THEN e ELSE scores
  BY DEF Raise, e
<1>4. QED
  BY <1>2, <1>3

\* The scores are raised table by table.
IsRaising(raised, n, ts, own, top) ==
  /\ raised \in [0 .. n -> [1 .. n -> Nat]]
  /\ raised[0] = own
  /\ \A k \in 1 .. n : raised[k] = Raise(ts, own, top, raised[k - 1], k)

LEMMA BoostedFollows ==
  ASSUME NEW ts, Len(ts) \in Nat, NEW own \in [1 .. Len(ts) -> Nat], NEW top, top # 0
  PROVE  \E raised : Boosted(ts, own, top) = raised[Len(ts)] /\ IsRaising(raised, Len(ts), ts, own, top)
<1> DEFINE n == Len(ts)
           V == [1 .. n -> Nat]
           step == [k \in 1 .. n |-> [v \in V |-> Raise(ts, own, top, v, k)]]
           Body(f, k) == IF k = 0 THEN own ELSE Raise(ts, own, top, f[k - 1], k)
           Solves(f) == f = [k \in 0 .. n |-> Body(f, k)]
<1>1. n \in Nat /\ own \in V
  OBVIOUS
<1>2. step \in [1 .. n -> [V -> V]]
  <2>1. \A k \in 1 .. n : \A v \in V : Raise(ts, own, top, v, k) \in V
    BY <1>1, RaiseIsNatural
  <2> HIDE DEF V
  <2>2. QED
    BY <2>1
<1> HIDE DEF V, n
<1>3. IsIteration(n, V, own, step)
  <2> HIDE DEF step
  <2>1. QED
    BY <1>1, <1>2 DEF IsIteration
<1>4. PICK g \in [0 .. n -> V] : g[0] = own /\ \A k \in 1 .. n : g[k] = step[k][g[k - 1]]
  <2> HIDE DEF step
  <2>1. QED
    BY <1>3, Iteration
<1>5. \E f : Solves(f)
  <2>1. ASSUME NEW k \in 0 .. n
        PROVE  g[k] = Body(g, k)
    <3>1. CASE k = 0
      BY <1>4, <3>1
    <3>2. CASE k # 0
      <4>1. k \in 1 .. n /\ k - 1 \in 0 .. n
        BY <1>1, <3>2
      <4>2. g[k - 1] \in V
        BY <1>4, <4>1
      <4>3. step[k][g[k - 1]] = Raise(ts, own, top, g[k - 1], k)
        BY <4>1, <4>2
      <4> HIDE DEF step
      <4>4. QED
        BY <1>4, <3>2, <4>1, <4>3
    <3>3. QED
      BY <3>1, <3>2
  <2>2. Solves(g)
    <3> HIDE DEF Body
    <3>1. QED
      BY <1>4, <2>1
  <2> HIDE DEF Solves
  <2>3. QED
    BY <2>2
<1>6. PICK f : f = (CHOOSE e : Solves(e)) /\ Solves(f)
  <2> HIDE DEF Solves
  <2>1. QED
    BY <1>5
<1>7. Boosted(ts, own, top) = f[n]
  BY <1>6 DEF Boosted, n
<1>8. \A k \in 0 .. n : f[k] = Body(f, k)
  <2> HIDE DEF Body
  <2>1. QED
    BY <1>6
<1>9. f[0] = own
  BY <1>1, <1>8
<1>10. \A k \in 1 .. n : f[k] = Raise(ts, own, top, f[k - 1], k)
  <2>1. SUFFICES ASSUME NEW k \in 1 .. n
                 PROVE  f[k] = Raise(ts, own, top, f[k - 1], k)
    OBVIOUS
  <2>2. k \in 0 .. n /\ k # 0
    BY <1>1
  <2>3. f[k] = Body(f, k)
    BY <1>8, <2>2
  <2>4. QED
    BY <2>2, <2>3
<1>11. f \in [0 .. n -> V]
  <2> DEFINE W == {k \in 0 .. n : f[k] \in V}
  <2>1. 0 \in W
    BY <1>1, <1>9
  <2>2. ASSUME NEW k \in 1 .. n, k - 1 \in W
        PROVE  k \in W
    <3> DEFINE prev == f[k - 1]
    <3>1. prev \in [1 .. n -> Nat] /\ n \in Nat
      BY <1>1, <2>2 DEF V
    <3>2. f[k] = Raise(ts, own, top, prev, k)
      BY <1>10
    <3> HIDE DEF prev, W
    <3>3. Raise(ts, own, top, prev, k) \in [1 .. n -> Nat]
      BY <3>1, RaiseIsNatural
    <3>4. k \in 0 .. n
      BY <1>1
    <3>5. QED
      BY <3>2, <3>3, <3>4 DEF V, W
  <2>3. 0 .. n \subseteq W
    <3> HIDE DEF W
    <3>1. QED
      BY <1>1, <2>1, <2>2, StageInduction
  <2>4. f = [k \in 0 .. n |-> f[k]]
    <3> HIDE DEF Body
    <3>1. QED
      BY <1>6
  <2>5. QED
    BY <2>3, <2>4
<1>12. IsRaising(f, n, ts, own, top)
  BY <1>9, <1>10, <1>11 DEF IsRaising, V
<1>13. QED
  BY <1>7, <1>12 DEF n

\* A table's score is its relevance, or that and Boost.
AreStages(raised, n, ts, own, top) ==
  /\ \A k \in 0 .. n : \A i \in 1 .. n : i > k => raised[k][i] = own[i]
  /\ \A k \in 0 .. n : \A i \in 1 .. n : i <= k =>
       raised[k][i] = IF Gains(ts, own, top, raised[i - 1], i) THEN own[i] + Boost ELSE own[i]

LEMMA StagesAre ==
  ASSUME NEW n \in Nat, NEW own \in [1 .. n -> Nat], NEW top, NEW ts,
         NEW raised, IsRaising(raised, n, ts, own, top)
  PROVE  AreStages(raised, n, ts, own, top)
<1> DEFINE val(i) == IF Gains(ts, own, top, raised[i - 1], i) THEN own[i] + Boost ELSE own[i]
           Fine(k) == \A i \in 1 .. n : raised[k][i] = IF i > k THEN own[i] ELSE val(i)
           W == {k \in 0 .. n : Fine(k)}
<1>0. /\ raised \in [0 .. n -> [1 .. n -> Nat]]
      /\ raised[0] = own
      /\ \A k \in 1 .. n : raised[k] = Raise(ts, own, top, raised[k - 1], k)
  BY DEF IsRaising
<1> USE <1>0
<1>1. 0 \in W
  <2>1. \A i \in 1 .. n : i > 0
    OBVIOUS
  <2>2. Fine(0)
    BY <2>1
  <2> HIDE DEF Fine
  <2>3. QED
    BY <2>2
<1>2. ASSUME NEW k \in 1 .. n, k - 1 \in W
      PROVE  k \in W
  <2>1. Fine(k - 1) /\ k - 1 \in 0 .. n /\ k \in 0 .. n
    BY <1>2
  <2>2. raised[k - 1] \in [1 .. n -> Nat] /\ raised[k] = Raise(ts, own, top, raised[k - 1], k)
    BY <2>1
  <2> DEFINE prev == raised[k - 1]
             this == raised[k]
  <2>3. /\ \A j \in 1 .. n : j # k => this[j] = prev[j]
        /\ this[k] = IF Gains(ts, own, top, prev, k) THEN prev[k] + Boost ELSE prev[k]
    <3>1. prev \in [1 .. n -> Nat] /\ this = Raise(ts, own, top, prev, k)
      BY <2>2
    <3> HIDE DEF prev, this, W
    <3>2. this = IF Gains(ts, own, top, prev, k) THEN [prev EXCEPT ![k] = @ + Boost] ELSE prev
      BY <3>1 DEF Raise
    <3>3. k \in DOMAIN prev /\ DOMAIN prev = 1 .. n
      BY <3>1
    <3>4. CASE Gains(ts, own, top, prev, k)
      BY <3>2, <3>3, <3>4
    <3>5. CASE ~Gains(ts, own, top, prev, k)
      BY <3>2, <3>5
    <3>6. QED
      BY <3>4, <3>5
  <2>4. raised[k][k] = IF Gains(ts, own, top, raised[k - 1], k) THEN raised[k - 1][k] + Boost ELSE raised[k - 1][k]
    BY <2>3
  <2>5. raised[k - 1][k] = own[k]
    <3>1. k > k - 1
      OBVIOUS
    <3>2. QED
      BY <2>1, <3>1
  <2>6. raised[k][k] = val(k)
    BY <2>4, <2>5
  <2> HIDE DEF val
  <2>7. ASSUME NEW i \in 1 .. n
        PROVE  raised[k][i] = IF i > k THEN own[i] ELSE val(i)
    <3>1. CASE i = k
      BY <2>6, <3>1
    <3>2. CASE i # k
      <4>1. i > k <=> i > k - 1
        BY <3>2
      <4>2. raised[k - 1][i] = IF i > k - 1 THEN own[i] ELSE val(i)
        BY <2>1
      <4>3. raised[k][i] = raised[k - 1][i]
        BY <2>3, <3>2
      <4>4. QED
        BY <4>1, <4>2, <4>3
    <3>3. QED
      BY <3>1, <3>2
  <2>8. QED
    BY <2>1, <2>7
<1>3. 0 .. n \subseteq W
  <2> HIDE DEF W
  <2>1. QED
    BY <1>1, <1>2, StageInduction
<1>4. \A k \in 0 .. n : Fine(k)
  BY <1>3
<1> HIDE DEF val
<1>5. \A k \in 0 .. n : \A i \in 1 .. n : i > k => raised[k][i] = own[i]
  BY <1>4
<1>6. \A k \in 0 .. n : \A i \in 1 .. n : i <= k => raised[k][i] = val(i)
  <2>1. SUFFICES ASSUME NEW k \in 0 .. n, NEW i \in 1 .. n, i <= k
                 PROVE  raised[k][i] = val(i)
    OBVIOUS
  <2>2. ~(i > k)
    BY <2>1
  <2>3. QED
    BY <1>4, <2>2
<1>7. QED
  BY <1>5, <1>6 DEF val, AreStages

\* The scores of a hint that has something in common with a table.
LEMMA RaisedScoresAre ==
  ASSUME NEW ts, IsListOfTables(ts), NEW top \in Nat, top # 0
  PROVE  LET own == Relevances(ts)
             scores == Boosted(ts, own, top)
         IN /\ scores \in [1 .. Len(ts) -> Nat]
            /\ \E raised \in [0 .. Len(ts) -> [1 .. Len(ts) -> Nat]] :
                 AreStages(raised, Len(ts), ts, own, top) /\ scores = raised[Len(ts)]
<1> DEFINE n == Len(ts)
           own == Relevances(ts)
<1>1. n \in Nat /\ own \in [1 .. n -> Nat]
  BY RelevancesAre
<1>2. PICK raised : Boosted(ts, own, top) = raised[n] /\ IsRaising(raised, n, ts, own, top)
  <2> HIDE DEF own
  <2>1. QED
    BY <1>1, BoostedFollows
<1> HIDE DEF own, n
<1>3. AreStages(raised, n, ts, own, top)
  BY <1>1, <1>2, StagesAre
<1>4. raised \in [0 .. n -> [1 .. n -> Nat]] /\ Boosted(ts, own, top) \in [1 .. n -> Nat]
  BY <1>1, <1>2 DEF IsRaising
<1>5. QED
  BY <1>2, <1>3, <1>4 DEF own, n

LEMMA ScoresAreNear ==
  ASSUME NEW ts, IsListOfTables(ts)
  PROVE  /\ Scores(ts) \in [1 .. Len(ts) -> Nat]
         /\ \A i \in 1 .. Len(ts) : /\ Relevance(ts[i]) \in Nat
                                    /\ Relevance(ts[i]) <= Scores(ts)[i]
                                    /\ Scores(ts)[i] <= Relevance(ts[i]) + Boost
<1> DEFINE n == Len(ts)
           own == Relevances(ts)
           top == Max({0} \cup ToSet(own))
           scores == Scores(ts)
<1>1. n \in Nat /\ own \in [1 .. n -> Nat] /\ \A i \in 1 .. n : own[i] = Relevance(ts[i])
  BY RelevancesAre
<1>2. top \in Nat
  <2> HIDE DEF own
  <2>1. QED
    BY <1>1, TopIs
<1>3. scores = Boosted(ts, own, top)
  BY DEF Scores
<1> HIDE DEF scores
<1>4. scores \in [1 .. n -> Nat] /\ \A i \in 1 .. n : scores[i] = own[i] \/ scores[i] = own[i] + Boost
  <2>1. CASE top = 0
    <3>1. scores = own
      BY <1>3, <2>1 DEF Boosted
    <3>2. QED
      BY <1>1, <3>1
  <2>2. CASE top # 0
    <3> HIDE DEF top
    <3>1. scores \in [1 .. n -> Nat]
      BY <1>2, <1>3, <2>2, RaisedScoresAre
    <3>2. PICK raised \in [0 .. n -> [1 .. n -> Nat]] :
                 AreStages(raised, n, ts, own, top) /\ scores = raised[n]
      BY <1>2, <1>3, <2>2, RaisedScoresAre
    <3> HIDE DEF own, n
    <3>3. \A i \in 1 .. n : n \in 0 .. n /\ i <= n
      BY <1>1
    <3>4. \A i \in 1 .. n :
            scores[i] = IF Gains(ts, own, top, raised[i - 1], i) THEN own[i] + Boost ELSE own[i]
      BY <3>2, <3>3 DEF AreStages
    <3>5. QED
      BY <3>1, <3>4
  <2>3. QED
    BY <2>1, <2>2
<1> HIDE DEF own, n
<1>5. ASSUME NEW i \in 1 .. n
      PROVE  Relevance(ts[i]) \in Nat /\ Relevance(ts[i]) <= scores[i] /\ scores[i] <= Relevance(ts[i]) + Boost
  <2>1. own[i] \in Nat /\ own[i] = Relevance(ts[i])
    BY <1>1
  <2>2. scores[i] = own[i] \/ scores[i] = own[i] + Boost
    BY <1>4
  <2>3. own[i] <= scores[i] /\ scores[i] <= own[i] + Boost
    BY <2>1, <2>2 DEF Boost
  <2>4. QED
    BY <2>1, <2>3
<1>6. QED
  BY <1>4, <1>5 DEF n, scores

\* A table next to a best one scores more than a stranger with no more of the hint in it.
LEMMA CompanionsScoreMore ==
  ASSUME NEW ts, IsListOfTables(ts), NEW i \in 1 .. Len(ts), NEW j \in 1 .. Len(ts), Companion(ts, i, j)
  PROVE  Scores(ts)[i] > Scores(ts)[j]
<1> DEFINE n == Len(ts)
           own == Relevances(ts)
           top == Max({0} \cup ToSet(own))
           scores == Scores(ts)
<1>1. n \in Nat /\ DOMAIN ts = 1 .. n /\ own \in [1 .. n -> Nat] /\ \A k \in 1 .. n : own[k] = Relevance(ts[k])
  BY RelevancesAre
<1>2. /\ top \in Nat
      /\ \A k \in 1 .. n : own[k] <= top
      /\ top # 0 => \E k \in 1 .. n : own[k] = top
  <2> HIDE DEF own
  <2>1. QED
    BY <1>1, TopIs
<1>3. scores = Boosted(ts, own, top)
  BY DEF Scores
<1> HIDE DEF scores, top
<1>4. PICK b \in 1 .. n : /\ \A k \in 1 .. n : Relevance(ts[b]) >= Relevance(ts[k])
                          /\ Relevance(ts[b]) > Relevance(ts[i])
                          /\ Joined(ts[i], ts[b])
  BY <1>1 DEF Companion
<1>5. own[i] >= own[j] /\ \A k \in 1 .. n : ~Joined(ts[j], ts[k])
  BY <1>1 DEF Companion
<1> DEFINE ownb == own[b]
           owni == own[i]
           ownj == own[j]
<1>6. ownb \in Nat /\ owni \in Nat /\ ownj \in Nat /\ owni >= ownj /\ ownb > owni /\ \A k \in 1 .. n : ownb >= own[k]
  BY <1>1, <1>4, <1>5
<1>7. top = ownb /\ top # 0 /\ owni # top
  <2> HIDE DEF ownb, owni, ownj
  <2>1. ownb <= top
    BY <1>2 DEF ownb
  <2>2. top # 0
    BY <1>2, <1>6, <2>1
  <2>3. PICK k \in 1 .. n : own[k] = top
    BY <1>2, <2>2
  <2>4. ownb >= top
    BY <1>6, <2>3
  <2>5. QED
    BY <1>2, <1>6, <2>1, <2>2, <2>4
<1>8. PICK raised \in [0 .. n -> [1 .. n -> Nat]] : AreStages(raised, n, ts, own, top) /\ scores = raised[n]
  BY <1>2, <1>3, <1>7, RaisedScoresAre
<1> HIDE DEF own, n
<1>9. \A k \in 1 .. n : k - 1 \in 0 .. n /\ k > k - 1 /\ n \in 0 .. n /\ k <= n
  BY <1>1
<1>10. \A l \in 1 .. n : raised[l - 1][l] = own[l]
  BY <1>8, <1>9 DEF AreStages
<1>11. \A l \in 1 .. n : scores[l] = IF Gains(ts, own, top, raised[l - 1], l) THEN own[l] + Boost ELSE own[l]
  BY <1>8, <1>9 DEF AreStages
<1>12. \A k \in 0 .. n : raised[k][b] = top
  <2>1. raised[b - 1][b] = top
    BY <1>7, <1>10
  <2>2. ~Gains(ts, own, top, raised[b - 1], b)
    BY <2>1 DEF Gains
  <2>3. SUFFICES ASSUME NEW k \in 0 .. n
                 PROVE  raised[k][b] = top
    OBVIOUS
  <2>4. CASE b > k
    BY <1>7, <1>8, <2>4 DEF AreStages
  <2>5. CASE ~(b > k)
    <3>1. b <= k
      BY <1>1, <2>5
    <3>2. QED
      BY <1>7, <1>8, <2>2, <3>1 DEF AreStages
  <2>6. QED
    BY <2>4, <2>5
<1>13. Gains(ts, own, top, raised[i - 1], i)
  <2>1. i \in 1 .. n /\ raised[i - 1][i] # top
    BY <1>7, <1>10 DEF n
  <2>2. raised[i - 1][b] = top
    BY <1>9, <1>12, <2>1
  <2>3. RefersTo(ts[i], ts[b]) \/ RefersTo(ts[b], ts[i])
    BY <1>4 DEF Joined
  <2>4. b \in DOMAIN ts /\ own[b] = top
    BY <1>1, <1>7
  <2> DEFINE prev == raised[i - 1]
  <2> HIDE DEF prev
  <2>5. prev[i] # top /\ prev[b] = top
    BY <2>1, <2>2 DEF prev
  <2>6. Gains(ts, own, top, prev, i)
    BY <2>3, <2>4, <2>5 DEF Gains
  <2>7. QED
    BY <2>6 DEF prev
<1>14. ~Gains(ts, own, top, raised[j - 1], j)
  <2>1. \A k \in DOMAIN ts : ~RefersTo(ts[j], ts[k]) /\ ~RefersTo(ts[k], ts[j])
    BY <1>1, <1>5 DEF Joined
  <2>2. QED
    BY <2>1 DEF Gains
<1>15. scores[i] = owni + Boost /\ scores[j] = ownj
  BY <1>11, <1>13, <1>14 DEF n
<1> HIDE DEF owni, ownj
<1>16. QED
  BY <1>6, <1>15 DEF Boost, scores

\* What the order of the tables is good for.
IsOrderOf(order, ts) ==
  /\ order \in [1 .. Len(ts) -> 1 .. Len(ts)]
  /\ \A i \in 1 .. Len(ts) : \E k \in 1 .. Len(ts) : order[k] = i
  /\ \A k, l \in 1 .. Len(ts) : k < l =>
       /\ ~Companion(ts, order[l], order[k])
       /\ ~Leads(ts, order[l])

LEMMA RankedIsAnOrder ==
  ASSUME NEW ts, IsListOfTables(ts)
  PROVE  IsOrderOf(Ranking(Scores(ts)), ts)
<1> DEFINE n == Len(ts)
           scores == Scores(ts)
           order == Ranking(scores)
<1>1. n \in Nat /\ DOMAIN ts = 1 .. n
  BY RelevancesAre
<1>2. /\ scores \in [1 .. n -> Nat]
      /\ \A i \in 1 .. n : /\ Relevance(ts[i]) \in Nat
                           /\ Relevance(ts[i]) <= scores[i]
                           /\ scores[i] <= Relevance(ts[i]) + Boost
  BY ScoresAreNear
<1>3. \A i, j \in 1 .. n : Companion(ts, i, j) => scores[i] > scores[j]
  BY CompanionsScoreMore
<1> HIDE DEF scores, n
<1>4. ASSUME NEW i \in 1 .. n, NEW j \in 1 .. n, i # j, Leads(ts, i)
      PROVE  scores[i] > scores[j]
  <2> DEFINE a == Relevance(ts[i])
             b == Relevance(ts[j])
  <2>1. a > b + Boost
    BY <1>1, <1>4 DEF Leads
  <2>2. a \in Nat /\ b \in Nat /\ a <= scores[i] /\ scores[j] <= b + Boost /\ scores[i] \in Nat /\ scores[j] \in Nat
    BY <1>2
  <2> HIDE DEF a, b
  <2>3. QED
    BY <2>1, <2>2 DEF Boost
<1>5. scores \in [1 .. n -> Int]
  BY <1>2
<1>6. /\ order \in [1 .. n -> 1 .. n]
      /\ \A j \in 1 .. n : \E k \in 1 .. n : order[k] = j
      /\ \A k, l \in 1 .. n : k < l => order[k] \in PlacesAhead(scores, order[l])
  BY <1>1, <1>5, RankingIs
<1> HIDE DEF order
<1>7. ASSUME NEW k \in 1 .. n, NEW l \in 1 .. n, k < l
      PROVE  ~Companion(ts, order[l], order[k]) /\ ~Leads(ts, order[l])
  <2> DEFINE p == order[k]
             q == order[l]
  <2>1. p \in 1 .. n /\ q \in 1 .. n
    BY <1>6
  <2>2. scores[p] > scores[q] \/ (scores[p] = scores[q] /\ p < q)
    BY <1>6, <1>7 DEF PlacesAhead
  <2>3. scores[p] \in Nat /\ scores[q] \in Nat /\ p \in Nat /\ q \in Nat
    BY <1>2, <2>1
  <2> HIDE DEF p, q
  <2>4. ~(scores[q] > scores[p]) /\ q # p
    BY <2>2, <2>3
  <2>5. ~Companion(ts, q, p) /\ ~Leads(ts, q)
    BY <1>3, <1>4, <2>1, <2>4
  <2>6. QED
    BY <2>5 DEF p, q
<1>8. QED
  BY <1>6, <1>7 DEF IsOrderOf, order, scores, n

\* The tables that are asked for are tables that can be described.
LEMMA AskedAreTables ==
  ASSUME NEW db, IsListOfTables(db), NEW names,
         names = None \/ names \in Seq({names[i] : i \in DOMAIN names})
  PROVE  IsListOfTables(Asked(db, names))
<1>1. CASE names = None
  BY <1>1 DEF Asked
<1>2. CASE names # None
  <2> DEFINE n == Len(names)
             X == ToSet(db)
             found(i) == LET at == TableAt(db, names[i]) IN IF at = 0 THEN <<>> ELSE <<db[at]>>
             seqs == [i \in DOMAIN names |-> found(i)]
             ts == Asked(db, names)
  <2>1. n \in Nat /\ DOMAIN names = 1 .. n
    BY <1>2
  <2>2. Len(db) \in Nat /\ DOMAIN db = 1 .. Len(db) /\ db \in Seq(ToSet(db))
    BY DEF IsListOfTables
  <2>3. ASSUME NEW i \in 1 .. n
        PROVE  found(i) \in Seq(X)
    <3> DEFINE at == TableAt(db, names[i])
    <3>1. CASE at = 0
      BY <3>1
    <3>2. CASE at # 0
      <4>1. at \in 1 .. Len(db)
        BY <2>2, <3>2, TableAtIsPlace DEF X
      <4>2. db[at] \in X
        BY <2>2, <4>1 DEF ToSet
      <4> HIDE DEF X, at
      <4>3. <<db[at]>> \in Seq(X)
        BY <4>2
      <4>4. QED
        BY <3>2, <4>3 DEF at
    <3>3. QED
      BY <3>1, <3>2
  <2> HIDE DEF X, n, found
  <2>4. seqs \in Seq(Seq(X))
    <3>1. seqs \in [1 .. n -> Seq(X)]
      BY <2>1, <2>3
    <3>2. QED
      BY <2>1, <3>1
  <2>5. ts = FlattenSeq(seqs)
    BY <1>2 DEF Asked, found
  <2> HIDE DEF seqs, ts
  <2>6. ts \in Seq(X)
    BY <2>4, <2>5, FlattenedElements
  <2>7. ts \in Seq(ToSet(ts)) /\ ToSet(ts) \subseteq X
    <3> DEFINE m == Len(ts)
               T == ToSet(ts)
    <3>1. m \in Nat /\ DOMAIN ts = 1 .. m /\ ts = [i \in 1 .. m |-> ts[i]] /\ \A i \in 1 .. m : ts[i] \in X
      BY <2>6
    <3>2. \A i \in 1 .. m : ts[i] \in T
      BY <3>1 DEF ToSet
    <3>3. T \subseteq X
      BY <3>1 DEF ToSet
    <3> HIDE DEF T, m
    <3>4. ts \in [1 .. m -> T]
      BY <3>1, <3>2
    <3>5. ts \in Seq(T)
      BY <3>1, <3>4
    <3>6. QED
      BY <3>3, <3>5 DEF T
  <2>8. \A t \in X : IsTableToDescribe(t)
    BY DEF IsListOfTables, X
  <2>9. QED
    BY <2>7, <2>8 DEF IsListOfTables, ts
<1>3. QED
  BY <1>1, <1>2

\* Attempt k gives up the first k parts, and then tables, but one.
LEMMA AttemptsAre ==
  ASSUME NEW n \in Nat, NEW ts, Len(ts) = n, NEW k \in Attempts(ts)
  PROVE  /\ k \in Nat
         /\ k <= 5 => Max({0, k - Len(Parts)}) = 0 /\ Min({k, Len(Parts)}) = k
         /\ k > 5 => Max({0, k - Len(Parts)}) = k - 5 /\ Min({k, Len(Parts)}) = 5
         /\ n = 0 => k <= 5
         /\ n > 0 => n - Max({0, k - Len(Parts)}) \in 1 .. n
<1>1. Len(Parts) = 5
  BY DEF Parts
<1>2. Max({0, n - 1}) = IF 0 >= n - 1 THEN 0 ELSE n - 1
  BY GreaterIs
<1>3. k \in 0 .. 5 + (IF 0 >= n - 1 THEN 0 ELSE n - 1)
  BY <1>1, <1>2 DEF Attempts
<1>4. Max({0, k - 5}) = IF 0 >= k - 5 THEN 0 ELSE k - 5
  BY <1>3, GreaterIs
<1>5. Min({k, 5}) = IF k <= 5 THEN k ELSE 5
  BY <1>3, LesserIs
<1>6. QED
  BY <1>1, <1>3, <1>4, <1>5

LEMMA SumOfCosts ==
  ASSUME NEW n \in Nat, NEW f, DOMAIN f = 1 .. n, \A i \in 1 .. n : f[i] \in Int
  PROVE  SumFunction(f) \in Int
<1>1. IsFiniteSet(1 .. n)
  BY FS_Interval
<1>2. QED
  BY <1>1, SumIsInteger

LEMMA LevelsAre ==
  ASSUME NEW m \in 0 .. 5
  PROVE  LET levels == SubSeq(Parts, m + 1, 5)
         IN /\ levels \in Seq(ToSet(Parts)) /\ Len(levels) = 5 - m
            /\ \A i \in 1 .. 5 - m : levels[i] = Parts[m + i]
<1> DEFINE P == ToSet(Parts)
<1>1. Len(Parts) = 5 /\ DOMAIN Parts = 1 .. 5
  BY DEF Parts
<1>2. Parts \in Seq(P)
  <2>1. \A i \in 1 .. 5 : Parts[i] \in P
    BY <1>1 DEF ToSet
  <2>2. Parts = [i \in 1 .. 5 |-> Parts[i]]
    BY DEF Parts
  <2> HIDE DEF P
  <2>3. Parts \in [1 .. 5 -> P]
    BY <2>1, <2>2
  <2>4. QED
    BY <2>3, RowIs
<1> HIDE DEF P
<1>3. m \in 0 .. Len(Parts)
  BY <1>1
<1> DEFINE n == Len(Parts)
<1> HIDE DEF n
<1>4. /\ SubSeq(Parts, m + 1, n) \in Seq(P) /\ Len(SubSeq(Parts, m + 1, n)) = n - m
      /\ \A i \in 1 .. n - m : SubSeq(Parts, m + 1, n)[i] = Parts[m + i]
  BY <1>2, <1>3, LastOnes DEF n
<1>5. n = 5
  BY <1>1 DEF n
<1>6. QED
  BY <1>4, <1>5 DEF P

LEMMA TokensAreNumbers ==
  ASSUME NEW ts, IsListOfTables(ts), NEW wanted, NEW k \in Attempts(ts)
  PROVE  Tokens(ts, wanted, k) \in Int
<1> DEFINE n == Len(ts)
           left == TablesLeft(ts, k)
           levels == Levels(k)
           part(t) == [i \in DOMAIN levels |-> IF levels[i] \in wanted THEN t.size[levels[i]] ELSE 0]
           cost == [i \in DOMAIN left |-> left[i].bare + SumFunction(part(left[i]))]
<1>1. n \in Nat /\ DOMAIN ts = 1 .. n
  BY RelevancesAre
<1>2. \A i \in 1 .. n : IsTableToDescribe(ts[i])
  BY <1>1 DEF IsListOfTables, ToSet
<1>3. PICK m \in 0 .. 5 : levels \in Seq(ToSet(Parts)) /\ Len(levels) = 5 - m
  <2> DEFINE m == Min({k, Len(Parts)})
  <2>1. m \in 0 .. 5 /\ Len(Parts) = 5
    <3>1. k \in Nat /\ (k <= 5 => m = k) /\ (k > 5 => m = 5)
      BY <1>1, AttemptsAre
    <3> HIDE DEF m
    <3>2. QED
      BY <3>1 DEF Parts
  <2>2. QED
    BY <2>1, LevelsAre DEF Levels
<1>4. PICK r \in 0 .. n : left \in Seq(ToSet(ts)) /\ Len(left) = r
  <2> DEFINE r == n - Max({0, k - Len(Parts)})
             T == ToSet(ts)
  <2>1. r \in 0 .. n
    <3>1. n > 0 => r \in 1 .. n
      BY <1>1, AttemptsAre
    <3>2. n = 0 => r = 0
      <4> DEFINE x == Max({0, k - Len(Parts)})
      <4>1. n = 0 => k <= 5
        BY <1>1, AttemptsAre
      <4>2. k <= 5 => x = 0
        BY <1>1, AttemptsAre
      <4> HIDE DEF x
      <4>3. QED
        BY <4>1, <4>2 DEF x
    <3> HIDE DEF r, n
    <3>3. QED
      BY <1>1, <3>1, <3>2
  <2>2. ts \in Seq(T) /\ left = SubSeq(ts, 1, r)
    BY DEF TablesLeft, IsListOfTables
  <2> HIDE DEF r, T, left
  <2>3. left \in Seq(T) /\ Len(left) = r
    BY <1>1, <2>1, <2>2, FirstOnes
  <2>4. QED
    BY <2>1, <2>3 DEF T
<1>5. ASSUME NEW t, IsTableToDescribe(t)
      PROVE  SumFunction(part(t)) \in Int
  <2>1. DOMAIN levels = 1 .. 5 - m /\ 5 - m \in Nat
    BY <1>3
  <2>2. \A i \in 1 .. 5 - m : levels[i] \in ToSet(Parts)
    BY <1>3, <2>1
  <2>3. \A i \in 1 .. 5 - m : t.size[levels[i]] \in Int
    BY <1>5, <2>2 DEF IsTableToDescribe
  <2> HIDE DEF levels
  <2>4. DOMAIN part(t) = 1 .. 5 - m /\ \A i \in 1 .. 5 - m : part(t)[i] \in Int
    BY <2>1, <2>3
  <2> HIDE DEF part
  <2>5. QED
    BY <2>1, <2>4, SumOfCosts
<1>6. DOMAIN left = 1 .. r /\ r \in Nat
  BY <1>4
<1>7. ASSUME NEW i \in 1 .. r
      PROVE  cost[i] \in Int
  <2>1. left[i] \in ToSet(ts)
    BY <1>4, <1>6
  <2>2. IsTableToDescribe(left[i])
    BY <2>1 DEF IsListOfTables
  <2>3. left[i].bare \in Int /\ SumFunction(part(left[i])) \in Int
    BY <1>5, <2>2 DEF IsTableToDescribe
  <2>4. cost[i] = left[i].bare + SumFunction(part(left[i]))
    BY <1>6
  <2> HIDE DEF part, left, cost
  <2>5. QED
    BY <2>3, <2>4
<1>8. SumFunction(cost) \in Int
  <2>1. DOMAIN cost = 1 .. r
    BY <1>6
  <2> HIDE DEF cost
  <2>2. QED
    BY <1>6, <1>7, <2>1, SumOfCosts
<1>9. Tokens(ts, wanted, k) = SumFunction(cost)
  BY DEF Tokens, SumOver
<1>10. QED
  BY <1>8, <1>9

\* What attempt k leaves: the first tables and the last parts.
Leaves(ts, k, r, m) ==
  /\ r = Len(ts) - Max({0, k - Len(Parts)}) /\ m = Min({k, Len(Parts)})
  /\ Len(ts) > 0 => r >= 1
  /\ r < Len(ts) => m = 5
  /\ TablesLeft(ts, k) \in Seq(ToSet(ts)) /\ Len(TablesLeft(ts, k)) = r
  /\ \A i \in 1 .. r : TablesLeft(ts, k)[i] = ts[i]
  /\ Levels(k) \in Seq(ToSet(Parts)) /\ Len(Levels(k)) = 5 - m
  /\ \A i \in 1 .. 5 - m : Levels(k)[i] = Parts[m + i]

LEMMA AttemptLeaves ==
  ASSUME NEW ts, IsListOfTables(ts), NEW k \in Attempts(ts)
  PROVE  \E r \in 0 .. Len(ts), m \in 0 .. 5 : Leaves(ts, k, r, m)
<1> DEFINE n == Len(ts)
           x == Max({0, k - Len(Parts)})
           r == n - x
           m == Min({k, Len(Parts)})
           T == ToSet(ts)
           left == TablesLeft(ts, k)
<1>1. n \in Nat /\ DOMAIN ts = 1 .. n /\ ts \in Seq(T)
  BY RelevancesAre DEF IsListOfTables
<1>2. /\ k \in Nat
      /\ k <= 5 => x = 0 /\ m = k
      /\ k > 5 => x = k - 5 /\ m = 5
      /\ n = 0 => k <= 5
      /\ n > 0 => n - x \in 1 .. n
  BY <1>1, AttemptsAre
<1> HIDE DEF x, m, n, T
<1>3. r \in 0 .. n /\ m \in 0 .. 5 /\ (n > 0 => r >= 1) /\ (r < n => m = 5)
  BY <1>1, <1>2
<1>4. left = SubSeq(ts, 1, r)
  BY DEF TablesLeft, n, x
<1> HIDE DEF r, left
<1>5. left \in Seq(T) /\ Len(left) = r /\ \A i \in 1 .. r : left[i] = ts[i]
  BY <1>1, <1>3, <1>4, FirstOnes DEF n
<1>6. Levels(k) = SubSeq(Parts, m + 1, 5)
  BY DEF Levels, Parts, m
<1>7. /\ Levels(k) \in Seq(ToSet(Parts)) /\ Len(Levels(k)) = 5 - m
      /\ \A i \in 1 .. 5 - m : Levels(k)[i] = Parts[m + i]
  BY <1>3, <1>6, LevelsAre
<1>8. Leaves(ts, k, r, m)
  BY <1>3, <1>5, <1>7 DEF Leaves, r, m, x, n, T, left
<1>9. QED
  BY <1>3, <1>8 DEF n

\* With an earlier attempt no less is said.
LEMMA EarlierSaysMore ==
  ASSUME NEW ts, IsListOfTables(ts), NEW k \in Attempts(ts), NEW l \in Attempts(ts), l <= k
  PROVE  IsPrefix(TablesLeft(ts, k), TablesLeft(ts, l)) /\ IsSuffix(Levels(k), Levels(l))
<1> DEFINE n == Len(ts)
           xk == Max({0, k - Len(Parts)})
           xl == Max({0, l - Len(Parts)})
           mk == Min({k, Len(Parts)})
           ml == Min({l, Len(Parts)})
<1>1. n \in Nat
  BY RelevancesAre
<1>2. /\ k \in Nat
      /\ k <= 5 => xk = 0 /\ mk = k
      /\ k > 5 => xk = k - 5 /\ mk = 5
  BY <1>1, AttemptsAre
<1>3. /\ l \in Nat
      /\ l <= 5 => xl = 0 /\ ml = l
      /\ l > 5 => xl = l - 5 /\ ml = 5
  BY <1>1, AttemptsAre
<1>4. PICK r \in 0 .. n, m \in 0 .. 5 : Leaves(ts, k, r, m)
  BY AttemptLeaves
<1>5. PICK q \in 0 .. n, p \in 0 .. 5 : Leaves(ts, l, q, p)
  BY AttemptLeaves
<1> DEFINE L == TablesLeft(ts, k)
           M == TablesLeft(ts, l)
           a == Levels(k)
           b == Levels(l)
           T == ToSet(ts)
           P == ToSet(Parts)
<1>6. /\ r = n - xk /\ m = mk
      /\ L \in Seq(T) /\ Len(L) = r /\ \A i \in 1 .. r : L[i] = ts[i]
      /\ a \in Seq(P) /\ Len(a) = 5 - m /\ \A i \in 1 .. 5 - m : a[i] = Parts[m + i]
  BY <1>4 DEF Leaves
<1>7. /\ q = n - xl /\ p = ml
      /\ M \in Seq(T) /\ Len(M) = q /\ \A i \in 1 .. q : M[i] = ts[i]
      /\ b \in Seq(P) /\ Len(b) = 5 - p /\ \A i \in 1 .. 5 - p : b[i] = Parts[p + i]
  BY <1>5 DEF Leaves
<1> HIDE DEF L, M, a, b, T, P, xk, xl, mk, ml, n
<1>8. r <= q /\ p <= m
  BY <1>1, <1>2, <1>3, <1>6, <1>7
<1>9. IsPrefix(L, M)
  <2>1. \A i \in 1 .. r : i \in 1 .. q
    BY <1>8
  <2>2. \A i \in 1 .. r : L[i] = M[i]
    BY <1>6, <1>7, <2>1
  <2>3. Len(L) <= Len(M)
    BY <1>6, <1>7, <1>8
  <2>4. QED
    BY <1>6, <1>7, <2>2, <2>3, PrefixIs
<1>10. IsSuffix(a, b)
  <2> DEFINE s == Reverse(a)
             t == Reverse(b)
  <2>1. /\ a \in Seq(P) /\ Len(a) = 5 - m /\ \A i \in 1 .. 5 - m : a[i] = Parts[m + i]
        /\ b \in Seq(P) /\ Len(b) = 5 - p /\ \A i \in 1 .. 5 - p : b[i] = Parts[p + i]
    BY <1>6, <1>7
  <2>2. s = [i \in 1 .. 5 - m |-> a[((5 - m) - i) + 1]] /\ t = [i \in 1 .. 5 - p |-> b[((5 - p) - i) + 1]]
    BY <2>1 DEF Reverse
  <2> HIDE DEF s, t
  <2>3. \A i \in 1 .. 5 - m : ((5 - m) - i) + 1 \in 1 .. 5 - m /\ m + (((5 - m) - i) + 1) = 6 - i
    OBVIOUS
  <2>4. \A i \in 1 .. 5 - p : ((5 - p) - i) + 1 \in 1 .. 5 - p /\ p + (((5 - p) - i) + 1) = 6 - i
    OBVIOUS
  <2>5. ASSUME NEW i \in 1 .. 5 - m
        PROVE  s[i] = Parts[6 - i] /\ s[i] \in P
    <3> DEFINE j == ((5 - m) - i) + 1
    <3>1. j \in 1 .. 5 - m /\ m + j = 6 - i /\ s[i] = a[j]
      BY <2>2, <2>3
    <3> HIDE DEF j
    <3>2. a[j] = Parts[m + j] /\ a[j] \in P
      BY <2>1, <3>1
    <3>3. QED
      BY <3>1, <3>2
  <2>6. ASSUME NEW i \in 1 .. 5 - p
        PROVE  t[i] = Parts[6 - i] /\ t[i] \in P
    <3> DEFINE j == ((5 - p) - i) + 1
    <3>1. j \in 1 .. 5 - p /\ p + j = 6 - i /\ t[i] = b[j]
      BY <2>2, <2>4
    <3> HIDE DEF j
    <3>2. b[j] = Parts[p + j] /\ b[j] \in P
      BY <2>1, <3>1
    <3>3. QED
      BY <3>1, <3>2
  <2>7. s \in [1 .. 5 - m -> P] /\ t \in [1 .. 5 - p -> P]
    BY <2>2, <2>5, <2>6
  <2>8. s \in Seq(P) /\ Len(s) = 5 - m
    <3>1. 5 - m \in Nat
      OBVIOUS
    <3>2. QED
      BY <2>7, <3>1, RowIs
  <2>9. t \in Seq(P) /\ Len(t) = 5 - p
    <3>1. 5 - p \in Nat
      OBVIOUS
    <3>2. QED
      BY <2>7, <3>1, RowIs
  <2>10. \A i \in 1 .. Len(s) : s[i] = t[i]
    <3>1. \A i \in 1 .. 5 - m : i \in 1 .. 5 - p
      BY <1>8
    <3>2. QED
      BY <2>5, <2>6, <2>8, <3>1
  <2>11. Len(s) <= Len(t)
    BY <1>8, <2>8, <2>9
  <2>12. IsPrefix(s, t)
    BY <2>8, <2>9, <2>10, <2>11, PrefixIs
  <2>13. QED
    BY <2>12 DEF IsSuffix, s, t
<1>11. QED
  BY <1>9, <1>10 DEF L, M, a, b

\* The tables in their order are tables that can be described.
LEMMA RankedAreTables ==
  ASSUME NEW ts, IsListOfTables(ts)
  PROVE  LET rs == Ranked(ts, Scores(ts))
         IN /\ IsListOfTables(rs) /\ Len(rs) = Len(ts)
            /\ \A k \in 1 .. Len(ts) : rs[k] = ts[Ranking(Scores(ts))[k]]
<1> DEFINE n == Len(ts)
           order == Ranking(Scores(ts))
           rs == Ranked(ts, Scores(ts))
           T == ToSet(rs)
<1>1. n \in Nat /\ DOMAIN ts = 1 .. n
  BY RelevancesAre
<1>2. order \in [1 .. n -> 1 .. n]
  BY RankedIsAnOrder DEF IsOrderOf
<1>3. rs = [k \in 1 .. n |-> ts[order[k]]]
  BY <1>1 DEF Ranked
<1> HIDE DEF n, order, rs
<1>4. \A k \in 1 .. n : rs[k] = ts[order[k]] /\ ts[order[k]] \in ToSet(ts)
  <2>1. \A k \in 1 .. n : order[k] \in DOMAIN ts
    BY <1>1, <1>2
  <2>2. QED
    BY <1>3, <2>1 DEF ToSet
<1>5. DOMAIN rs = 1 .. n /\ \A k \in 1 .. n : rs[k] \in T
  BY <1>3 DEF ToSet
<1>6. T \subseteq ToSet(ts)
  BY <1>4, <1>5 DEF ToSet
<1> HIDE DEF T
<1>7. rs \in [1 .. n -> T]
  <2>1. rs = [k \in 1 .. n |-> rs[k]]
    BY <1>3
  <2>2. QED
    BY <1>5, <2>1
<1>8. rs \in Seq(T) /\ Len(rs) = n
  BY <1>1, <1>7, RowIs
<1>9. \A t \in T : IsTableToDescribe(t)
  BY <1>6 DEF IsListOfTables
<1>10. QED
  BY <1>4, <1>8, <1>9 DEF IsListOfTables, T, n, rs, order

\* A description is within its budget and gives up tables last; it keeps the
\* table that clearly leads, and no stranger rather than a companion of a best
\* one; and with more budget it never says less.  agent.rs
THEOREM DescriptionIsSound ==
  ASSUME NEW db, IsListOfTables(db), NEW names,
         names = None \/ names \in Seq({names[i] : i \in DOMAIN names}),
         NEW wanted, NEW budget \in Int
  PROVE  DescriptionKeepsWhatMatters(db, names, wanted, budget)
<1> DEFINE ts == Asked(db, names)
           n == Len(ts)
           order == Ranking(Scores(ts))
           rs == Ranked(ts, Scores(ts))
           F == {k \in Attempts(rs) : Tokens(rs, wanted, k) <= budget}
           G == {k \in Attempts(rs) : Tokens(rs, wanted, k) <= budget + 1}
           d == DescribeForAgent(db, names, TRUE, wanted, budget)
           more == DescribeForAgent(db, names, TRUE, wanted, budget + 1)
<1>1. d = IF F = {} THEN None ELSE Attempt(rs, wanted, Min(F))
  BY DEF DescribeForAgent, Fitted
<1>2. more = IF G = {} THEN None ELSE Attempt(rs, wanted, Min(G))
  BY DEF DescribeForAgent, Fitted
<1>3. IsListOfTables(ts)
  BY AskedAreTables
<1> HIDE DEF ts
<1>4. n \in Nat /\ DOMAIN ts = 1 .. n
  BY <1>3, RelevancesAre
<1>5. IsListOfTables(rs) /\ Len(rs) = n /\ \A k \in 1 .. n : rs[k] = ts[order[k]]
  BY <1>3, RankedAreTables
<1>6. IsOrderOf(order, ts)
  BY <1>3, RankedIsAnOrder
<1> HIDE DEF order, rs
<1>7. F \in SUBSET Nat /\ G \in SUBSET Nat /\ F \subseteq Attempts(rs) /\ G \subseteq Attempts(rs)
  <2>1. \A k \in Attempts(rs) : k \in Nat
    BY <1>4, <1>5, AttemptsAre
  <2>2. QED
    BY <2>1
<1>8. F \subseteq G
  <2>1. SUFFICES ASSUME NEW k \in Attempts(rs), Tokens(rs, wanted, k) <= budget
                 PROVE  Tokens(rs, wanted, k) <= budget + 1
    OBVIOUS
  <2>2. Tokens(rs, wanted, k) \in Int
    BY <1>5, TokensAreNumbers
  <2>3. QED
    BY <2>1, <2>2
<1>9. SUFFICES ASSUME F # {}
               PROVE  KeepsWhatMatters(ts, d, more, budget)
  BY <1>1 DEF DescriptionKeepsWhatMatters, KeepsWhatMatters, ts
<1> DEFINE k == Min(F)
           l == Min(G)
<1>10. k \in Attempts(rs) /\ l \in Attempts(rs) /\ l <= k /\ Tokens(rs, wanted, k) <= budget
  <2>1. k \in F
    <3> HIDE DEF F
    <3>1. QED
      BY <1>7, <1>9, MinIs
  <2>2. l \in G /\ \A y \in G : l <= y
    <3> HIDE DEF F, G
    <3>1. QED
      BY <1>7, <1>8, <1>9, MinIs
  <2>3. QED
    BY <1>7, <1>8, <2>1, <2>2
<1>11. d = Attempt(rs, wanted, k) /\ more = Attempt(rs, wanted, l)
  BY <1>1, <1>2, <1>8, <1>9
<1> HIDE DEF F, G, k, l, d, more
<1>12. /\ d.tables = TablesLeft(rs, k) /\ d.levels = Levels(k) /\ d.tokens = Tokens(rs, wanted, k)
       /\ more.tables = TablesLeft(rs, l) /\ more.levels = Levels(l)
  BY <1>11 DEF Attempt
<1>13. PICK r \in 0 .. Len(rs), m \in 0 .. 5 : Leaves(rs, k, r, m)
  BY <1>5, <1>10, AttemptLeaves
<1>14. /\ n > 0 => r >= 1
       /\ r < n => m = 5
       /\ Len(d.tables) = r
       /\ \A i \in 1 .. r : d.tables[i] = rs[i]
       /\ d.levels \in Seq(ToSet(Parts)) /\ Len(d.levels) = 5 - m
  BY <1>5, <1>12, <1>13 DEF Leaves
<1>15. r \in Nat /\ r <= n /\ \A i \in 1 .. r : i \in 1 .. n /\ d.tables[i] = ts[order[i]] /\ order[i] \in 1 .. n
  <2>1. r \in Nat /\ r <= n /\ \A i \in 1 .. r : i \in 1 .. n
    BY <1>4, <1>5, <1>13
  <2>2. QED
    BY <1>5, <1>6, <1>14, <2>1 DEF IsOrderOf
<1>16. Len(d.tables) < n => d.levels = <<>>
  BY <1>14
<1>17. ASSUME NEW i \in 1 .. n, Leads(ts, i)
       PROVE  d.tables[1] = ts[i]
  <2>1. PICK p \in 1 .. n : order[p] = i
    BY <1>6 DEF IsOrderOf
  <2>2. 1 \in 1 .. n /\ 1 \in 1 .. r
    BY <1>4, <1>14, <1>15, <2>1
  <2>3. ~(1 < p)
    BY <1>6, <1>17, <2>1, <2>2 DEF IsOrderOf
  <2>4. p = 1
    BY <2>1, <2>3
  <2>5. QED
    BY <1>15, <2>1, <2>2, <2>4
<1>18. ASSUME NEW i \in 1 .. n, NEW j \in 1 .. n, Companion(ts, i, j), Contains(d.tables, ts[j])
       PROVE  Contains(d.tables, ts[i])
  <2>1. PICK q \in 1 .. r : d.tables[q] = ts[j]
    BY <1>14, <1>18 DEF Contains
  <2>2. PICK p \in 1 .. n : order[p] = i
    BY <1>6 DEF IsOrderOf
  <2> DEFINE o == order[q]
  <2>3. q \in 1 .. n /\ o \in 1 .. n /\ ts[o] = ts[j]
    BY <1>15, <2>1
  <2>4. Companion(ts, i, o)
    BY <1>18, <2>3 DEF Companion
  <2>5. ~(q < p)
    BY <1>6, <2>2, <2>3, <2>4 DEF IsOrderOf
  <2>6. p \in 1 .. r
    BY <1>15, <2>2, <2>3, <2>5
  <2>7. d.tables[p] = ts[i]
    BY <1>15, <2>2, <2>6
  <2>8. QED
    BY <1>14, <2>6, <2>7 DEF Contains
<1>19. IsPrefix(d.tables, more.tables) /\ IsSuffix(d.levels, more.levels)
  BY <1>5, <1>10, <1>12, EarlierSaysMore
<1>20. d.tokens <= budget
  BY <1>10, <1>12
<1>21. QED
  BY <1>4, <1>16, <1>17, <1>18, <1>19, <1>20 DEF KeepsWhatMatters

(***************************************************************************)
(* What is asked is about inputs the functions are meant for.              *)
(***************************************************************************)

\* A table of a database that is declared.
IsDatabaseAround(t) ==
  /\ IsDeclared(DatabaseOf(t)) /\ NamesAreApart(DatabaseOf(t)) /\ t.schema # None
  /\ t \in ToSet(DatabaseOf(t)) /\ Parents \in ToSet(DatabaseOf(t))

InputIsSound ==
  /\ AskedAbout("resolve") => IsComparable(input.t, input.like)
  /\ AskedAbout("synonyms") =>
       IsComparable(input.t, input.like) /\ input.synonyms \in Seq(ToSet(input.synonyms))
  /\ AskedAbout("hint") => IsDatabaseToHint(input.db, input.like)
  /\ AskedAbout("federation") => IsFederation(input.fed)
  /\ AskedAbout("guard") => input.first \in Texts /\ input.second \in Texts
  /\ AskedAbout("describe") =>
       /\ IsListOfTables(input.db)
       /\ input.names = None \/ input.names \in Seq({input.names[i] : i \in DOMAIN input.names})
       /\ input.budget \in Int
  /\ AskedAbout("result") => IsResult(input.result) /\ input.budget \in Int
  /\ AskedAbout("run") => IsStatement(input.st) /\ input.budget \in Int /\ input.backend \in Runnable
  /\ AskedAbout("plan") => IsPlan(input.plan)
  /\ AskedAbout("column") => IsSampledColumn(input.col, input.policy)
  /\ AskedAbout("kind") => \E X : input.values \in Seq(X)
  /\ AskedAbout("diff") => IsCompared(input.old) /\ IsCompared(input.new)
  /\ AskedAbout("snapshot") => IsListing(input.listed) /\ None \notin ToSet(input.listed) /\ input.n \in Nat
  /\ AskedAbout("tool") => AreCaches(input.given, input.dir)
  /\ AskedAbout("document") => AreDocumented(input.db)
  /\ AskedAbout("date") => input.days \in Nat
  /\ AskedAbout("table") => IsDatabaseAround(input.t) /\ input.failing \subseteq BestEffort \cup Needed

LEMMA BoundedIs ==
  ASSUME NEW S, NEW n \in Nat, NEW s \in BoundedSeq(S, n)
  PROVE  s \in Seq(S)
<1>1. PICK m \in 0 .. n : s \in [1 .. m -> S]
  BY DEF BoundedSeq, SeqOf
<1>2. m \in Nat
  OBVIOUS
<1>3. QED
  BY <1>1, <1>2

LEMMA SmallSets ==
  ASSUME NEW x, NEW y, NEW z
  PROVE  IsFiniteSet({x, y, z})
<1>1. IsFiniteSet({x})
  BY FS_Singleton
<1>2. IsFiniteSet({x} \cup {y})
  BY <1>1, FS_AddElement
<1>3. IsFiniteSet(({x} \cup {y}) \cup {z})
  BY <1>2, FS_AddElement
<1>4. ({x} \cup {y}) \cup {z} = {x, y, z}
  OBVIOUS
<1>5. QED
  BY <1>3, <1>4

LEMMA ListsAre ==
  ASSUME NEW S, IsFiniteSet(S), NEW l \in Lists(S)
  PROVE  l \in Seq(S) /\ \A i, j \in DOMAIN l : l[i] = l[j] => i = j
<1>1. Cardinality(S) \in Nat
  BY FS_CardinalityType
<1>2. l \in BoundedSeq(S, Cardinality(S)) /\ IsInjective(l)
  BY DEF Lists
<1>3. l \in Seq(S)
  BY <1>1, <1>2, BoundedIs
<1>4. QED
  BY <1>2, <1>3 DEF IsInjective

LEMMA MemberIsDatabase ==
  ASSUME NEW S, IsFiniteSet(S), NEW l \in Lists(S), NEW schema, NEW name,
         DOMAIN schema = S, DOMAIN name = S,
         \A x, y \in S : <<schema[x], name[x]>> = <<schema[y], name[y]>> => x = y,
         (\A x \in S : schema[x] = None) \/ (\A x \in S : schema[x] # None)
  PROVE  IsDatabase([i \in DOMAIN l |-> Table(schema[l[i]], name[l[i]], <<>>)])
<1> DEFINE db == [i \in DOMAIN l |-> Table(schema[l[i]], name[l[i]], <<>>)]
<1>1. l \in Seq(S) /\ (\A i, j \in DOMAIN l : l[i] = l[j] => i = j)
  BY ListsAre
<1>2. DOMAIN l = 1 .. Len(l) /\ Len(l) \in Nat /\ \A i \in DOMAIN l : l[i] \in S
  BY <1>1
<1>3. DOMAIN db = 1 .. Len(l) /\ \A i \in DOMAIN db : db[i] = Table(schema[l[i]], name[l[i]], <<>>)
  BY <1>2
<1> HIDE DEF db
<1>4. \A i \in DOMAIN db : db[i].schema = schema[l[i]] /\ db[i].name = name[l[i]]
  BY <1>3 DEF Table
<1>5. db \in Seq(ToSet(db))
  <2>1. db \in [1 .. Len(l) -> ToSet(db)]
    <3>1. db = [i \in 1 .. Len(l) |-> db[i]]
      BY <1>2, <1>3 DEF db
    <3>2. \A i \in 1 .. Len(l) : db[i] \in ToSet(db)
      BY <1>3 DEF ToSet
    <3>3. QED
      BY <3>1, <3>2
  <2>2. QED
    BY <1>2, <2>1
<1>6. ASSUME NEW i \in DOMAIN db, NEW j \in DOMAIN db, QualifiedName(db[i]) = QualifiedName(db[j])
      PROVE  i = j
  <2>1. l[i] \in S /\ l[j] \in S /\ i \in DOMAIN l /\ j \in DOMAIN l
    BY <1>2, <1>3
  <2>2. schema[l[i]] = schema[l[j]] /\ name[l[i]] = name[l[j]]
    BY <1>4, <1>6, <2>1 DEF QualifiedName
  <2>3. l[i] = l[j]
    BY <2>1, <2>2
  <2>4. QED
    BY <1>1, <2>1, <2>3
<1>7. (\A i \in DOMAIN db : db[i].schema = None) \/ (\A i \in DOMAIN db : db[i].schema # None)
  BY <1>2, <1>3, <1>4
<1>8. IsDatabase(db)
  BY <1>5, <1>6, <1>7 DEF IsDatabase
<1>9. QED
  BY <1>8 DEF db

LEMMA MembersAreDatabases ==
  ASSUME NEW db \in Members
  PROVE  IsDatabase(db)
<1>1. CASE db = <<>>
  <2>1. db \in Seq(ToSet(db)) /\ DOMAIN db = {}
    BY <1>1
  <2>2. QED
    BY <2>1 DEF IsDatabase
<1>2. ASSUME NEW names \in Lists({"a", "b"}), db = [i \in DOMAIN names |-> Table(None, names[i], <<>>)]
      PROVE  IsDatabase(db)
  <2> DEFINE S == {"a", "b"}
             schema == [x \in S |-> None]
             name == [x \in S |-> x]
  <2>1. IsFiniteSet(S) /\ names \in Lists(S)
    <3>1. IsFiniteSet({"a", "b", "b"}) /\ {"a", "b", "b"} = S
      BY SmallSets
    <3>2. QED
      BY <1>2, <3>1
  <2>2. \A x, y \in S : <<schema[x], name[x]>> = <<schema[y], name[y]>> => x = y
    OBVIOUS
  <2>3. \A i \in DOMAIN names : names[i] \in S
    BY <2>1, ListsAre
  <2>4. (\A x \in S : schema[x] = None) /\ DOMAIN schema = S /\ DOMAIN name = S
    OBVIOUS
  <2>5. [i \in DOMAIN names |-> Table(schema[names[i]], name[names[i]], <<>>)] = db
    BY <1>2, <2>3
  <2> HIDE DEF S, schema, name
  <2>6. IsDatabase([i \in DOMAIN names |-> Table(schema[names[i]], name[names[i]], <<>>)])
    BY <2>1, <2>2, <2>4, MemberIsDatabase
  <2>7. QED
    BY <2>5, <2>6
<1>3. ASSUME NEW refs \in Lists({<<"s", "a">>, <<"t", "a">>, <<"s", "b">>}),
             db = [i \in DOMAIN refs |-> Table(refs[i][1], refs[i][2], <<>>)]
      PROVE  IsDatabase(db)
  <2> DEFINE S == {<<"s", "a">>, <<"t", "a">>, <<"s", "b">>}
             schema == [x \in S |-> x[1]]
             name == [x \in S |-> x[2]]
  <2>1. IsFiniteSet(S) /\ refs \in Lists(S)
    BY <1>3, SmallSets
  <2>2. \A x, y \in S : <<schema[x], name[x]>> = <<schema[y], name[y]>> => x = y
    OBVIOUS
  <2>3. \A i \in DOMAIN refs : refs[i] \in S
    BY <2>1, ListsAre
  <2>4. (\A x \in S : schema[x] # None) /\ DOMAIN schema = S /\ DOMAIN name = S
    BY NoneIsNoName
  <2>5. [i \in DOMAIN refs |-> Table(schema[refs[i]], name[refs[i]], <<>>)] = db
    BY <1>3, <2>3
  <2> HIDE DEF S, schema, name
  <2>6. IsDatabase([i \in DOMAIN refs |-> Table(schema[refs[i]], name[refs[i]], <<>>)])
    BY <2>1, <2>2, <2>4, MemberIsDatabase
  <2>7. QED
    BY <2>5, <2>6
<1>4. QED
  BY <1>1, <1>2, <1>3 DEF Members

LEMMA FederationsAreAsked ==
  ASSUME AskFederation
  PROVE  IsFederation(input'.fed)
<1>1. PICK fed \in BoundedSeq(Members, 2) : input' = [fed |-> fed]
  BY DEF AskFederation, Ask
<1> DEFINE n == Len(fed)
<1>2. n \in Nat /\ DOMAIN fed = 1 .. n /\ (\A m \in DOMAIN fed : fed[m] \in Members) /\ fed \in [1 .. n -> Members]
  <2>1. fed \in Seq(Members)
    BY BoundedIs
  <2>2. QED
    BY <2>1
<1>3. fed \in Seq({fed[m] : m \in DOMAIN fed})
  <2>1. \A m \in 1 .. n : fed[m] \in {fed[k] : k \in DOMAIN fed}
    BY <1>2
  <2>2. fed \in [1 .. n -> {fed[m] : m \in DOMAIN fed}]
    BY <1>2, <2>1
  <2>3. QED
    BY <1>2, <2>2
<1>4. IsFederation(fed)
  BY <1>2, <1>3, MembersAreDatabases DEF IsFederation
<1>5. QED
  BY <1>1, <1>4

LEMMA LikesAreNumbers ==
  ASSUME NEW l \in Likes
  PROVE  l.jw \in 0 .. Exact
<1>1. l.jw \in {0, 100, 58, 97}
  <2>1. CASE l = [Alike(0) EXCEPT !.blank = TRUE, !.within = TRUE]
    BY <2>1 DEF Alike
  <2>2. CASE l = [Alike(100) EXCEPT !.same = TRUE, !.within = TRUE]
    BY <2>2 DEF Alike
  <2>3. CASE l = Alike(58)
    BY <2>3 DEF Alike
  <2>4. CASE l = [Alike(58) EXCEPT !.within = TRUE]
    BY <2>4 DEF Alike
  <2>5. CASE l = [Alike(97) EXCEPT !.within = TRUE]
    BY <2>5 DEF Alike
  <2>6. QED
    BY <2>1, <2>2, <2>3, <2>4, <2>5 DEF Likes
<1>3. QED
  BY <1>1 DEF Exact

LEMMA ColumnsAreComparable ==
  ASSUME NEW columns, NEW schema, NEW name, NEW N, NEW like,
         columns \in Seq(N), IsInjective(columns), None \notin N,
         \A c \in N : like[c] \in Likes
  PROVE  IsComparable(Table(schema, name, columns), like)
<1> DEFINE C == ToSet(columns)
           t == Table(schema, name, columns)
<1>1. t.columns = columns
  BY DEF Table
<1>2. DOMAIN columns = 1 .. Len(columns) /\ Len(columns) \in Nat /\ C \subseteq N
  BY DEF ToSet
<1>3. \A i \in DOMAIN columns : columns[i] \in C
  BY DEF ToSet
<1> HIDE DEF t
<1>4. columns \in Seq(C)
  <2> HIDE DEF C
  <2>1. columns \in [1 .. Len(columns) -> C]
    BY <1>2, <1>3
  <2>2. QED
    BY <1>2, <2>1
<1>5. \A c \in C : like[c].jw \in 0 .. Exact
  BY <1>2, LikesAreNumbers
<1>6. QED
  BY <1>1, <1>2, <1>4, <1>5 DEF IsComparable, t

LEMMA NamesAreNames ==
  None \notin {"a", "b", "c", "d", "e"}
BY NoneIsNoName

LEMMA TablesToResolveAreAsked ==
  ASSUME AskResolve
  PROVE  IsComparable(input'.t, input'.like)
<1> DEFINE N == {"a", "b", "c", "d", "e"}
<1>1. PICK n \in 0 .. 5 : \E like \in [ToSet(SubSeq(Letters, 1, n)) -> Likes] :
        input' = [t |-> Table(None, "a", SubSeq(Letters, 1, n)), like |-> like]
  BY DEF AskResolve, Ask
<1> DEFINE columns == SubSeq(Letters, 1, n)
<1>2. PICK like \in [ToSet(columns) -> Likes] : input' = [t |-> Table(None, "a", columns), like |-> like]
  BY <1>1
<1>3. Letters \in Seq(N) /\ Len(Letters) = 5 /\ \A i, j \in 1 .. 5 : Letters[i] = Letters[j] => i = j
  BY DEF Letters
<1>4. columns \in Seq(N) /\ Len(columns) = n /\ \A i \in 1 .. n : columns[i] = Letters[i]
  <2> HIDE DEF N
  <2>1. n \in 0 .. Len(Letters)
    BY <1>3
  <2>2. QED
    BY <1>3, <2>1, FirstOnes
<1> HIDE DEF columns
<1>5. IsInjective(columns)
  <2>1. DOMAIN columns = 1 .. n /\ \A i \in 1 .. n : i \in 1 .. 5
    BY <1>4
  <2>2. QED
    BY <1>3, <1>4, <2>1 DEF IsInjective
<1> DEFINE C == ToSet(columns)
<1>6. columns \in Seq(C) /\ C \subseteq N
  <2>1. DOMAIN columns = 1 .. n /\ n \in Nat
    BY <1>4
  <2>2. \A i \in 1 .. n : columns[i] \in C /\ columns[i] \in N
    BY <1>4, <2>1 DEF ToSet
  <2>3. C \subseteq N
    BY <2>1, <2>2 DEF ToSet
  <2> HIDE DEF C, N
  <2>4. columns \in [1 .. n -> C]
    BY <1>4, <2>1, <2>2
  <2>5. QED
    BY <2>1, <2>3, <2>4
<1>7. None \notin C
  BY <1>6, NamesAreNames
<1>8. QED
  BY <1>2, <1>5, <1>6, <1>7, ColumnsAreComparable

LEMMA SynonymsAreAsked ==
  ASSUME AskSynonyms
  PROVE  IsComparable(input'.t, input'.like) /\ input'.synonyms \in Seq(ToSet(input'.synonyms))
<1>1. PICK columns \in Lists({"b", "c"}), synonyms \in BoundedSeq(Synonyms, 2) :
        input' = [t |-> Table(None, "a", columns), synonyms |-> synonyms,
                  like |-> [n \in {"b", "c"} |-> Alike(58)]]
  BY DEF AskSynonyms, Ask
<1> DEFINE N == {"b", "c"}
           like == [n \in N |-> Alike(58)]
<1>2. columns \in Seq(N) /\ IsInjective(columns)
  <2>1. IsFiniteSet({"b", "c", "c"}) /\ N = {"b", "c", "c"}
    BY SmallSets
  <2>2. QED
    BY <2>1, ListsAre DEF Lists
<1>3. \A c \in N : like[c] \in Likes
  BY DEF Likes
<1>4. None \notin N
  BY NamesAreNames
<1>5. synonyms \in Seq(ToSet(synonyms))
  <2>1. synonyms \in Seq(Synonyms)
    BY BoundedIs
  <2> DEFINE n == Len(synonyms)
             T == ToSet(synonyms)
  <2>2. n \in Nat /\ DOMAIN synonyms = 1 .. n /\ synonyms = [i \in 1 .. n |-> synonyms[i]]
    BY <2>1
  <2>3. \A i \in 1 .. n : synonyms[i] \in T
    BY <2>2 DEF ToSet
  <2> HIDE DEF n, T
  <2>4. synonyms \in [1 .. n -> T]
    BY <2>2, <2>3
  <2>5. QED
    BY <2>2, <2>4 DEF T
<1> HIDE DEF N
<1>6. IsComparable(Table(None, "a", columns), like)
  BY <1>2, <1>3, <1>4, ColumnsAreComparable
<1>7. QED
  BY <1>1, <1>5, <1>6 DEF N

LEMMA DatabasesToHintAreAsked ==
  ASSUME AskHint
  PROVE  IsDatabaseToHint(input'.db, input'.like)
<1> DEFINE N == {"a", "b"}
<1>1. PICK x \in Lists({"a", "b"}), y \in Lists({"a", "b"}), like \in [{"a", "b"} -> Likes],
           complaint \in {"column", "table", "ambiguous", "other"},
           ref \in {<<"x">>, <<"a", "x">>, <<"zz", "x">>} :
        input' = [db |-> <<Table(None, "a", x), Table(None, "b", y)>>, like |-> like,
                  message |-> [complaint |-> complaint, ref |-> ref]]
  BY DEF AskHint, Ask
<1> DEFINE first == Table(None, "a", x)
           second == Table(None, "b", y)
           db == <<first, second>>
<1>2. x \in Seq(N) /\ IsInjective(x) /\ y \in Seq(N) /\ IsInjective(y)
  <2>1. IsFiniteSet({"a", "b", "b"}) /\ N = {"a", "b", "b"}
    BY SmallSets
  <2>2. QED
    BY <2>1, ListsAre DEF Lists
<1>3. None \notin N /\ \A c \in N : like[c] \in Likes
  BY NamesAreNames
<1>4. IsComparable(first, like) /\ IsComparable(second, like)
  <2> HIDE DEF N
  <2>1. QED
    BY <1>2, <1>3, ColumnsAreComparable
<1>5. first.name = "a" /\ second.name = "b"
  BY DEF Table
<1> HIDE DEF first, second
<1>6. DOMAIN db = {1, 2} /\ db[1] = first /\ db[2] = second
  OBVIOUS
<1>7. ToSet(db) = {first, second}
  BY <1>6 DEF ToSet
<1>8. db \in Seq(ToSet(db))
  BY <1>7
<1>9. \A t \in ToSet(db) : IsComparable(t, like) /\ t.name # None /\ like[t.name].jw \in 0 .. Exact
  BY <1>3, <1>4, <1>5, <1>7, LikesAreNumbers
<1>10. IsDatabaseToHint(db, like)
  BY <1>8, <1>9 DEF IsDatabaseToHint
<1>11. input'.db = db /\ input'.like = like
  BY <1>1 DEF first, second
<1>12. QED
  BY <1>10, <1>11

LEMMA ShortTexts ==
  /\ \A x, y \in Vocabulary : <<x, y>> \in Texts
  /\ \A x \in Vocabulary : <<x>> \in Texts
  /\ <<>> \in Texts
<1> DEFINE V == Vocabulary
<1> HIDE DEF V
<1>1. \A x, y \in V : <<x, y>> \in Seq(V)
  OBVIOUS
<1>2. \A x \in V : <<x>> \in Seq(V)
  OBVIOUS
<1>3. <<>> \in Seq(V)
  OBVIOUS
<1>4. QED
  BY <1>1, <1>2, <1>3 DEF Texts, V

LEMMA BatchesAreAsked ==
  ASSUME AskGuard
  PROVE  input'.first \in Texts /\ input'.second \in Texts
<1> DEFINE B == {<<>>, <<"SELECT">>, <<"DELETE">>, <<"\"", ";">>, <<"DELETE", "--">>, <<"/*", "newline">>}
<1>1. PICK a \in BoundedSeq(GuardTokens, 3), b \in B : input' = [first |-> a, second |-> b]
  BY DEF AskGuard, Ask
<1>2. GuardTokens \subseteq Vocabulary
  BY MarksAreTokens, VocabularyAssumption DEF GuardTokens, Vocabulary, Marks, Breaks, Quotes
<1>3. a \in Texts
  <2>1. a \in Seq(GuardTokens)
    BY BoundedIs
  <2>2. QED
    BY <1>2, <2>1, SeqOfMore DEF Texts
<1>4. b \in Texts
  <2>1. /\ \A x, y \in Vocabulary : <<x, y>> \in Texts
        /\ \A x \in Vocabulary : <<x>> \in Texts
        /\ <<>> \in Texts
    BY ShortTexts
  <2>2. \A x \in {"SELECT", "DELETE", "\"", ";", "--", "/*", "newline"} : x \in Vocabulary
    BY <1>2 DEF GuardTokens
  <2>3. QED
    BY <2>1, <2>2
<1>5. QED
  BY <1>1, <1>3, <1>4

LEMMA DescribedAreTables ==
  ASSUME NEW name, NEW n \in {0, 1}, NEW words \in Hints, NEW fks
  PROVE  IsTableToDescribe(Described(name, n, words, fks))
<1> DEFINE size == [part \in ToSet(Parts) |-> n]
           t == Described(name, n, words, fks)
<1>1. t.bare = 1 /\ t.size = size /\ t.inName = words[1] /\ t.inColumns = words[2]
  BY DEF Described
<1>2. words[1] \in Nat /\ words[2] \in Nat
  BY DEF Hints
<1>3. \A part \in ToSet(Parts) : size[part] \in Int
  OBVIOUS
<1> HIDE DEF t, size
<1>4. QED
  BY <1>1, <1>2, <1>3 DEF IsTableToDescribe, t

LEMMA DescriptionsAreAsked ==
  ASSUME AskDescribe
  PROVE  /\ IsListOfTables(input'.db)
         /\ input'.names = None \/ input'.names \in Seq({input'.names[i] : i \in DOMAIN input'.names})
         /\ input'.budget \in Int
<1> DEFINE db(v, w, u, x, y) ==
             <<Described("a", 1, v, x), Described("b", 0, w, y), Described("c", 1, u, {})>>
           some == <<<<"c">>, <<"zz">>, <<"b">>>>
<1>1. PICK v \in Hints, w \in Hints, u \in Hints, x \in {{}, {<<"b">>}}, y \in {{}, {<<"c">>}},
           names \in {None, some},
           wanted \in {ToSet(Parts), ToSet(Parts) \ {"examples"}}, budget \in {1, 2, 3, 6, 20} :
        input' = [db |-> db(v, w, u, x, y), names |-> names, wanted |-> wanted, budget |-> budget]
  BY DEF AskDescribe, Ask
<1>2. IsListOfTables(db(v, w, u, x, y))
  <2> DEFINE a == Described("a", 1, v, x)
             b == Described("b", 0, w, y)
             c == Described("c", 1, u, {})
             ts == <<a, b, c>>
  <2>1. IsTableToDescribe(a) /\ IsTableToDescribe(b) /\ IsTableToDescribe(c)
    BY DescribedAreTables
  <2>2. db(v, w, u, x, y) = ts
    OBVIOUS
  <2> HIDE DEF a, b, c, db
  <2>3. ToSet(ts) = {a, b, c}
    <3>1. DOMAIN ts = {1, 2, 3} /\ ts[1] = a /\ ts[2] = b /\ ts[3] = c
      OBVIOUS
    <3>2. QED
      BY <3>1 DEF ToSet
  <2>4. ts \in Seq({a, b, c})
    OBVIOUS
  <2>5. QED
    BY <2>1, <2>2, <2>3, <2>4 DEF IsListOfTables
<1>3. names = None \/ names \in Seq({names[i] : i \in DOMAIN names})
  <2>1. some \in Seq({some[i] : i \in DOMAIN some})
    <3>1. DOMAIN some = {1, 2, 3} /\ some[1] = <<"c">> /\ some[2] = <<"zz">> /\ some[3] = <<"b">>
      OBVIOUS
    <3>2. {some[i] : i \in DOMAIN some} = {<<"c">>, <<"zz">>, <<"b">>}
      BY <3>1
    <3>3. QED
      BY <3>2
  <2> HIDE DEF some
  <2>2. QED
    BY <2>1
<1>4. QED
  <2> HIDE DEF db, some
  <2>1. QED
    BY <1>1, <1>2, <1>3

LEMMA ResultsAreAsked ==
  ASSUME AskResult
  PROVE  IsResult(input'.result) /\ input'.budget \in Int
<1>1. PICK marker \in {1, 3}, rows \in BoundedSeq({1, 2}, 4), truncated \in BOOLEAN, named \in BOOLEAN,
           budget \in 0 .. 12 :
        /\ named \/ (rows = <<>> /\ ~truncated)
        /\ input' = [result |-> [named |-> named, header |-> 2, marker |-> marker, rows |-> rows,
                                truncated |-> truncated], budget |-> budget]
  BY DEF AskResult, Ask
<1>2. rows \in Seq(Int)
  <2>1. rows \in Seq({1, 2})
    BY BoundedIs
  <2>2. QED
    BY <2>1
<1>3. QED
  BY <1>1, <1>2 DEF IsResult

LEMMA RunsAreAsked ==
  ASSUME AskRun
  PROVE  IsStatement(input'.st) /\ input'.budget \in Int /\ input'.backend \in Runnable
<1> DEFINE Schemes == {"postgresql", "file", "mariadb", "sqlserver", "bigquery", "snowflake", "duckdb"}
<1>1. PICK scheme \in Schemes, rows \in BoundedSeq([bytes : {3, 7}, tokens : {1, 3}], 4), sent \in {1, 4},
           named \in BOOLEAN, budget \in {2, 3, 5, 8, 14} :
        /\ ConnectRunner(scheme) # None
        /\ named \/ rows = <<>>
        /\ sent = 4 \/ scheme = "snowflake"
        /\ Ask([backend |-> ConnectRunner(scheme), budget |-> budget,
                st |-> [rows |-> rows, sent |-> sent, named |-> named, header |-> 2, marker |-> 2]])
  BY Zenon DEF AskRun
<1>2. rows \in Seq([bytes : Int, tokens : Int])
  <2> DEFINE Small == [bytes : {3, 7}, tokens : {1, 3}]
             Large == [bytes : Int, tokens : Int]
  <2>1. rows \in Seq(Small)
    BY BoundedIs
  <2>2. Small \subseteq Large
    OBVIOUS
  <2> HIDE DEF Small, Large
  <2>3. rows \in Seq(Large)
    BY <2>1, <2>2, SeqOfMore
  <2>4. QED
    BY <2>3 DEF Large
<1>3. ConnectRunner(scheme) \in Runnable
  BY <1>1 DEF ConnectRunner, BackendOf, Runnable
<1>4. IsStatement([rows |-> rows, sent |-> sent, named |-> named, header |-> 2, marker |-> 2])
  BY <1>1, <1>2 DEF IsStatement
<1>5. QED
  BY <1>1, <1>3, <1>4 DEF Ask

LEMMA PlansAreAsked ==
  ASSUME AskPlan
  PROVE  IsPlan(input'.plan)
BY DEF AskPlan, Ask, Plans, IsPlan

LEMMA ColumnsAreAsked ==
  ASSUME AskColumn
  PROVE  IsSampledColumn(input'.col, input'.policy)
<1>1. PICK class \in {"Integer", "Text"}, named \in BOOLEAN, marked \in BOOLEAN, policy \in Policies,
           failing \in {{}, {"nulls"}, {"distinct"}, {"values"}} :
        \E cells \in CellLists(class) :
          /\ (named \/ marked) => (policy.redaction # None /\ failing = {})
          /\ Ask([col |-> SampledColumn(class, IF class = "Text" THEN "text" ELSE "number",
                                        named, marked, cells),
                  policy |-> policy, failing |-> failing])
  BY Zenon DEF AskColumn
<1>2. PICK cells \in CellLists(class) :
        input' = [col |-> SampledColumn(class, IF class = "Text" THEN "text" ELSE "number",
                                        named, marked, cells),
                  policy |-> policy, failing |-> failing]
  BY <1>1 DEF Ask
<1>3. cells \in Seq(Int \cup {None})
  <2>1. cells \in BoundedSeq({None, NaN, 1, 2}, 4) \/ cells \in BoundedSeq({None, 1, 2, 3}, 5)
    BY DEF CellLists
  <2>2. cells \in Seq({None, NaN, 1, 2}) \/ cells \in Seq({None, 1, 2, 3})
    BY <2>1, BoundedIs
  <2>3. {None, NaN, 1, 2} \subseteq Int \cup {None} /\ {None, 1, 2, 3} \subseteq Int \cup {None}
    BY DEF NaN
  <2>4. QED
    BY <2>2, <2>3, SeqOfMore
<1>4. policy.topK \in Nat /\ policy.topK # 0 /\ policy.sampleRows \in Nat
  BY DEF Policies
<1>5. QED
  BY <1>2, <1>3, <1>4 DEF IsSampledColumn, IsColumnOfCells, SampledColumn

LEMMA KindsAreAsked ==
  ASSUME AskKind
  PROVE  \E X : input'.values \in Seq(X)
<1> DEFINE X == {{}, {"Email"}, {"Ssn", "Phone"}, {"CreditCard", "Phone"}, {"Phone"}}
<1>1. PICK n \in 0 .. 5 : \E values \in [1 .. n -> X] : input' = [values |-> values]
  BY DEF AskKind, Ask
<1>2. PICK values \in [1 .. n -> X] : input' = [values |-> values]
  BY <1>1
<1> HIDE DEF X
<1>3. values \in Seq(X)
  <2>1. n \in Nat
    OBVIOUS
  <2>2. QED
    BY <2>1
<1>4. QED
  BY <1>2, <1>3

LEMMA RowsAre ==
  ASSUME NEW X, NEW s \in Seq(X)
  PROVE  IsRow(s) /\ ToSet(s) \subseteq X
BY DEF IsRow, ToSet

LEMMA ComparedAre ==
  ASSUME NEW db \in Compared
  PROVE  IsCompared(db)
<1> DEFINE empty == [schema |-> None, name |-> <<1, 2>>, columns |-> <<>>]
           E == {t \in ToSet(db) : IsRow(t.columns)}
<1>1. db = <<>> \/ \E t \in ComparedTables : db = <<t>> \/ db = <<empty, t>>
  BY DEF Compared
<1>2. \A t \in ComparedTables : IsRow(t.columns)
  <2>1. SUFFICES ASSUME NEW t \in ComparedTables
                 PROVE  IsRow(t.columns)
    OBVIOUS
  <2>2. t.columns \in BoundedSeq(ComparedColumns, 2)
    BY DEF ComparedTables
  <2>3. t.columns \in Seq(ComparedColumns)
    BY <2>2, BoundedIs
  <2>4. QED
    BY <2>3, RowsAre
<1>3. IsRow(empty.columns)
  BY DEF IsRow
<1> HIDE DEF empty
<1>4. CASE db = <<>>
  BY <1>4 DEF IsCompared, IsRow, ToSet
<1>5. ASSUME NEW t \in ComparedTables, db = <<t>>
      PROVE  IsCompared(db)
  <2>1. DOMAIN db = 1 .. 1 /\ Len(db) = 1 /\ db[1] = t
    BY <1>5
  <2>2. QED
    BY <1>2, <2>1 DEF IsCompared, IsRow, ToSet
<1>6. ASSUME NEW t \in ComparedTables, db = <<empty, t>>
      PROVE  IsCompared(db)
  <2>1. DOMAIN db = 1 .. 2 /\ Len(db) = 2 /\ db[1] = empty /\ db[2] = t
    BY <1>6
  <2>2. \A i \in 1 .. 2 : i = 1 \/ i = 2
    OBVIOUS
  <2>3. QED
    BY <1>2, <1>3, <2>1, <2>2 DEF IsCompared, IsRow, ToSet
<1>7. QED
  BY <1>1, <1>4, <1>5, <1>6

LEMMA DatabasesToCompareAreAsked ==
  ASSUME AskDiff
  PROVE  IsCompared(input'.old) /\ IsCompared(input'.new)
<1>1. PICK old \in Compared, new \in Compared : input' = [old |-> old, new |-> new]
  BY DEF AskDiff, Ask
<1>2. QED
  BY <1>1, ComparedAre

LEMMA ListingsAre ==
  ASSUME NEW X, None \notin X, NEW Fs, X \subseteq [time : Int \cup {None}, file : Fs],
         NEW listed \in Seq(X)
  PROVE  IsListing(listed) /\ None \notin ToSet(listed)
<1>1. listed \in Seq([time : Int \cup {None}, file : Fs])
  BY SeqOfMore
<1>2. ToSet(listed) \subseteq X
  BY RowsAre
<1>3. QED
  BY <1>1, <1>2 DEF IsListing

LEMMA SnapshotsAreAsked ==
  ASSUME AskSnapshot
  PROVE  IsListing(input'.listed) /\ None \notin ToSet(input'.listed) /\ input'.n \in Nat
<1>1. PICK listed \in BoundedSeq(Listed, 3), n \in 0 .. 3 : input' = [listed |-> listed, n |-> n]
  BY DEF AskSnapshot, Ask
<1>2. listed \in Seq(Listed)
  BY BoundedIs
<1>3. None \notin Listed /\ Listed \subseteq [time : Int \cup {None}, file : {"f"}]
  BY NoneIsNoFile DEF Listed
<1>4. IsListing(listed) /\ None \notin ToSet(listed)
  BY <1>2, <1>3, ListingsAre
<1>5. n \in Nat
  OBVIOUS
<1>6. QED
  BY <1>1, <1>4, <1>5

LEMMA CachesAreAsked ==
  ASSUME AskTool
  PROVE  AreCaches(input'.given, input'.dir)
<1>1. PICK from \in {None} \cup Files, to \in {None} \cup Files, n \in {None, 0, 1, 2},
           dir \in Directories, url \in {None, "live"} :
        /\ dir = None \/ n # None
        /\ dir = None \/ from = None \/ to = None
        /\ Ask([given |-> [from |-> from, to |-> to, n |-> n], dir |-> dir, url |-> url])
  BY Zenon DEF AskTool
<1>2. \A f \in {None} \cup Files : IsCacheFile(f, Databases)
  BY DEF IsCacheFile, Files
<1>3. None \notin Databases /\ None \notin Databases \X Databases /\ None \notin Files /\ None \notin ListedFiles
  BY NoneIsNoFile
<1>4. IsDirectory(dir, Databases)
  <2>1. SUFFICES ASSUME dir # None
                 PROVE  IsDirectory(dir, Databases)
    BY DEF IsDirectory
  <2>2. dir.current \in {None} \cup Files /\ dir.listed \in {<<>>} \cup {<<f>> : f \in ListedFiles}
    BY <2>1 DEF Directories
  <2>3. dir.listed \in Seq(ListedFiles)
    <3> DEFINE L == ListedFiles
    <3> HIDE DEF L
    <3>1. <<>> \in Seq(L) /\ \A f \in L : <<f>> \in Seq(L)
      OBVIOUS
    <3>2. QED
      BY <2>2, <3>1 DEF L
  <2>4. ListedFiles \subseteq [time : Int \cup {None}, file : Files]
    BY DEF ListedFiles
  <2>5. IsListing(dir.listed) /\ None \notin ToSet(dir.listed)
    BY <1>3, <2>3, <2>4, ListingsAre
  <2>6. \A f \in ListedFiles : f.file # None /\ IsCacheFile(f.file, Databases)
    BY <1>2, <1>3 DEF ListedFiles
  <2>7. ToSet(dir.listed) \subseteq ListedFiles
    BY <2>3, RowsAre
  <2>8. QED
    BY <1>2, <2>2, <2>5, <2>6, <2>7 DEF IsDirectory
<1>5. QED
  BY <1>1, <1>2, <1>3, <1>4 DEF AreCaches, Ask

LEMMA DocumentsAreAsked ==
  ASSUME AskDocument
  PROVE  AreDocumented(input'.db)
<1>1. PICK db \in BoundedSeq(Documented, 2), backend \in {"sqlite", "mysql"} :
        input' = [db |-> db, backend |-> backend]
  BY DEF AskDocument, Ask
<1>2. db \in Seq(Documented)
  BY BoundedIs
<1>3. ASSUME NEW t \in Documented
      PROVE  IsDocumented(t)
  <2>1. t.schema \in {None, <<3>>, <<3, 4>>} /\ t.name \in {<<4>>, <<4, 3>>, <<3, Underscore>>}
    BY DEF Documented
  <2>2. /\ t.columns \in {<<>>, <<[name |-> 1, ordinal |-> 2], [name |-> 2, ordinal |-> 1]>>}
        /\ t.fks \in {<<>>, << <<4>> >>}
    BY DEF Documented
  <2>3. <<3>> \in Seq(Int) /\ <<3, 4>> \in Seq(Int)
    OBVIOUS
  <2>4. t.schema = None \/ t.schema \in Seq(Int)
    BY <2>1, <2>3, Zenon
  <2>5. t.name \in Seq(Int) /\ Dot \notin ToSet(t.name)
    <3>1. /\ <<4>> \in Seq(Int) /\ Dot \notin ToSet(<<4>>)
          /\ <<4, 3>> \in Seq(Int) /\ Dot \notin ToSet(<<4, 3>>)
          /\ <<3, Underscore>> \in Seq(Int) /\ Dot \notin ToSet(<<3, Underscore>>)
      BY DEF ToSet, Dot, Underscore
    <3>2. QED
      BY <2>1, <3>1, Zenon
  <2>6. IsRow(t.columns)
    BY <2>2 DEF IsRow
  <2>7. IsRow(t.fks)
    BY <2>2 DEF IsRow
  <2>8. QED
    BY <2>4, <2>5, <2>6, <2>7 DEF IsDocumented
<1>4. IsRow(db) /\ ToSet(db) \subseteq Documented
  BY <1>2, RowsAre
<1>5. QED
  BY <1>1, <1>3, <1>4 DEF AreDocumented

LEMMA DatesAreAsked ==
  ASSUME AskDate
  PROVE  input'.days \in Nat
<1>1. PICK days \in Days : input' = [days |-> days]
  BY DEF AskDate, Ask
<1>2. days \in Nat
  BY SMT DEF Days
<1>3. QED
  BY <1>1, <1>2

LEMMA ColumnIsDeclared ==
  ASSUME NEW name, NEW type, NEW required, NEW secret
  PROVE  /\ DOMAIN DeclaredColumn(name, type, required, secret) = ColumnFields
         /\ DeclaredColumn(name, type, required, secret).name = name
BY DEF DeclaredColumn, ColumnFields

LEMMA TwoColumns ==
  ASSUME NEW t, NEW x, NEW y, t.columns = <<x, y>>, x.name # y.name,
         DOMAIN x = ColumnFields, DOMAIN y = ColumnFields
  PROVE  HasColumns(t) /\ ColumnNamesOf(t) = {x.name, y.name}
<1>1. PICK s : s = t.columns
  OBVIOUS
<1>2. s = <<x, y>>
  BY <1>1
<1>3. DOMAIN s = {1, 2} /\ s[1] = x /\ s[2] = y
  BY <1>2
<1>4. s \in Seq(ToSet(s))
  <2>1. ToSet(s) = {x, y}
    BY <1>3, SMT DEF ToSet
  <2>2. <<x, y>> \in Seq({x, y})
    OBVIOUS
  <2>3. QED
    BY <1>2, <2>1, <2>2
<1>5. HasColumns(t)
  BY <1>1, <1>3, <1>4 DEF HasColumns
<1>6. ColumnNamesOf(t) = {x.name, y.name}
  BY <1>1, <1>3 DEF ColumnNamesOf
<1>7. QED
  BY <1>5, <1>6

LEMMA MembersAre ==
  ASSUME NEW x, NEW y
  PROVE  /\ <<x>> \in Seq(ToSet(<<x>>)) /\ ToSet(<<x>>) = {x} /\ <<x>> # <<>>
         /\ <<x, y>> \in Seq(ToSet(<<x, y>>)) /\ ToSet(<<x, y>>) = {x, y} /\ <<x, y>> # <<>>
         /\ \A i, j \in DOMAIN <<x>> : i = j
         /\ x # y => \A i, j \in DOMAIN <<x, y>> : <<x, y>>[i] = <<x, y>>[j] => i = j
<1>1. ToSet(<<x>>) = {x} /\ ToSet(<<x, y>>) = {x, y}
  BY OfOne, OfTwo
<1>2. <<x>> \in Seq({x}) /\ <<x, y>> \in Seq({x, y})
  OBVIOUS
<1>3. QED
  BY <1>1, <1>2

\* A reference from some of a and b to as many columns.
IsReferenceTo(r) ==
  /\ DOMAIN r = {"name", "members", "schema", "table", "to", "key", "spelled"}
  /\ IsOver(r) /\ ToSet(r.members) \subseteq {"a", "b", "x", "y"} /\ r.to \in Seq(ToSet(r.to)) /\ Len(r.to) = Len(r.members)

LEMMA ReferenceOfOne ==
  ASSUME NEW name \in Int, NEW key, NEW from \in {"a", "b", "x"}, NEW to
  PROVE  IsReferenceTo(Reference(name, <<from>>, <<to>>, key))
<1>1. ToSet(<<from>>) = {from} /\ ToSet(<<to>>) = {to}
  BY OfOne
<1>2. <<from>> \in Seq({from}) /\ <<to>> \in Seq({to}) /\ <<from>> # <<>>
  OBVIOUS
<1>3. Len(<<to>>) = Len(<<from>>)
  OBVIOUS
<1>4. QED
  BY <1>1, <1>2, <1>3 DEF IsReferenceTo, IsOver, Reference

LEMMA ReferenceOfTwo ==
  ASSUME NEW name \in Int, NEW key, NEW from \in {"a", "b"}, NEW also \in {"a", "b"}, NEW to, NEW next
  PROVE  IsReferenceTo(Reference(name, <<from, also>>, <<to, next>>, key))
<1>1. ToSet(<<from, also>>) = {from, also} /\ ToSet(<<to, next>>) = {to, next}
  BY OfTwo
<1>2. <<from, also>> \in Seq({from, also}) /\ <<to, next>> \in Seq({to, next}) /\ <<from, also>> # <<>>
  OBVIOUS
<1>3. Len(<<to, next>>) = Len(<<from, also>>)
  OBVIOUS
<1>4. QED
  BY <1>1, <1>2, <1>3 DEF IsReferenceTo, IsOver, Reference

LEMMA UnspelledIs ==
  ASSUME NEW r, IsReferenceTo(r)
  PROVE  /\ IsReferenceTo([r EXCEPT !.spelled = FALSE])
         /\ [r EXCEPT !.spelled = FALSE].name = r.name /\ [r EXCEPT !.spelled = FALSE].members = r.members
BY DEF IsReferenceTo, IsOver

AreReferences(refs) ==
  /\ IsFiniteSet(refs)
  /\ \A r \in refs : /\ IsReferenceTo(r) /\ r.name \in {0, 1, 7, 8}
                     /\ ToSet(r.members) \subseteq {"a", "b"}
  /\ \A r, s \in refs : r.name = s.name => r = s

LEMMA OneReference ==
  ASSUME NEW r, IsReferenceTo(r), r.name \in {0, 1, 7, 8}, ToSet(r.members) \subseteq {"a", "b"}
  PROVE  AreReferences({r})
<1>1. IsFiniteSet({r})
  BY FS_Singleton
<1>2. QED
  BY <1>1 DEF AreReferences

LEMMA ReferencesAre ==
  ASSUME NEW refs \in ReferenceSets
  PROVE  AreReferences(refs)
<1> DEFINE Ok(r) == IsReferenceTo(r) /\ r.name \in {0, 1, 7, 8} /\ ToSet(r.members) \subseteq {"a", "b"}
<1>1. ASSUME NEW name \in {0, 1, 7, 8}, NEW key, NEW from \in {"a", "b"}, NEW to
      PROVE  Ok(Reference(name, <<from>>, <<to>>, key))
  <2>1. IsReferenceTo(Reference(name, <<from>>, <<to>>, key))
    <3>1. name \in Int /\ from \in {"a", "b", "x"}
      OBVIOUS
    <3>2. QED
      BY <3>1, ReferenceOfOne
  <2>2. ToSet(<<from>>) = {from}
    BY OfOne
  <2>3. QED
    BY <2>1, <2>2 DEF Reference
<1>2. ASSUME NEW name \in {0, 1, 7, 8}, NEW key, NEW from \in {"a", "b"}, NEW also \in {"a", "b"},
             NEW to, NEW next
      PROVE  /\ Ok(Reference(name, <<from, also>>, <<to, next>>, key))
             /\ Ok([Reference(name, <<from, also>>, <<to, next>>, key) EXCEPT !.spelled = FALSE])
  <2>1. PICK r : r = Reference(name, <<from, also>>, <<to, next>>, key)
    OBVIOUS
  <2>2. IsReferenceTo(r)
    <3>1. name \in Int
      OBVIOUS
    <3>2. QED
      BY <2>1, <3>1, ReferenceOfTwo
  <2>3. r.name = name /\ r.members = <<from, also>> /\ ToSet(<<from, also>>) = {from, also}
    BY <2>1, OfTwo DEF Reference
  <2>4. Ok(r)
    BY <2>2, <2>3
  <2>5. Ok([r EXCEPT !.spelled = FALSE])
    BY <2>2, <2>3, UnspelledIs
  <2>6. QED
    BY <2>1, <2>4, <2>5
<1> HIDE DEF Ok
<1>3. CASE refs = {}
  BY <1>3, FS_EmptySet DEF AreReferences
<1>4. CASE refs = {Reference(7, <<"a">>, <<"x">>, 2), Reference(8, <<"a", "b">>, <<"x", "y">>, 3)}
  <2>1. PICK r, s : r = Reference(7, <<"a">>, <<"x">>, 2) /\ s = Reference(8, <<"a", "b">>, <<"x", "y">>, 3)
    OBVIOUS
  <2>2. Ok(r) /\ Ok(s)
    BY <1>1, <1>2, <2>1
  <2>3. r.name # s.name
    BY <2>1 DEF Reference
  <2>4. refs = {r, s, s}
    BY <1>4, <2>1
  <2>5. IsFiniteSet(refs)
    <3>1. IsFiniteSet({s})
      BY FS_Singleton
    <3>2. IsFiniteSet({s} \cup {r})
      BY <3>1, FS_AddElement
    <3>3. QED
      BY <2>4, <3>2
  <2>6. QED
    BY <2>2, <2>3, <2>4, <2>5 DEF AreReferences, Ok
<1>5. CASE \E r : refs = {r} /\ Ok(r)
  BY <1>5, OneReference DEF Ok
<1>6. ASSUME refs # {},
             refs # {Reference(7, <<"a">>, <<"x">>, 2), Reference(8, <<"a", "b">>, <<"x", "y">>, 3)}
      PROVE  \E r : refs = {r} /\ Ok(r)
  <2>1. \/ refs = {Reference(0, <<"a", "b">>, <<"x", "y">>, 3)} \/ refs = {Reference(7, <<"a">>, <<"x">>, 2)}
        \/ refs = {Reference(1, <<"a">>, <<"x">>, 2)} \/ refs = {Reference(7, <<"a", "b">>, <<"x", "y">>, 3)}
        \/ refs = {Reference(7, <<"a", "b">>, <<"x", "y">>, 1)}
        \/ refs = {Reference(7, <<"b", "a">>, <<"y", "x">>, 1)} \/ refs = {Reference(8, <<"b">>, <<"y">>, 4)}
        \/ refs = {[Reference(7, <<"b", "a">>, <<"y", "x">>, 1) EXCEPT !.spelled = FALSE]}
    BY <1>6, Zenon DEF ReferenceSets
  <2>2. Ok(Reference(0, <<"a", "b">>, <<"x", "y">>, 3)) /\ Ok(Reference(7, <<"a">>, <<"x">>, 2))
    BY <1>1, <1>2
  <2>3. Ok(Reference(1, <<"a">>, <<"x">>, 2)) /\ Ok(Reference(7, <<"a", "b">>, <<"x", "y">>, 3))
    BY <1>1, <1>2
  <2>4. Ok(Reference(7, <<"a", "b">>, <<"x", "y">>, 1)) /\ Ok(Reference(7, <<"b", "a">>, <<"y", "x">>, 1))
    BY <1>2
  <2>5. Ok(Reference(8, <<"b">>, <<"y">>, 4))
    BY <1>1
  <2>6. Ok([Reference(7, <<"b", "a">>, <<"y", "x">>, 1) EXCEPT !.spelled = FALSE])
    BY <1>2
  <2>7. QED
    BY <2>1, <2>2, <2>3, <2>4, <2>5, <2>6, Zenon
<1>7. QED
  BY <1>3, <1>4, <1>5, <1>6

IsPrimaryOver(k, names) ==
  k.kind = "primary" =>
    /\ \A i, j \in DOMAIN k.members : k.members[i] = k.members[j] => i = j
    /\ ToSet(k.members) \subseteq names

IsKey(k) ==
  /\ DOMAIN k = {"name", "kind", "members", "partial"} /\ IsOver(k)
  /\ k.kind \in {"primary", "unique", "index", "plain"} /\ k.name \in {1, 2, 3, 4, 5, 6}

LEMMA KeyOfOne ==
  ASSUME NEW name \in {1, 2, 3, 4, 5, 6}, NEW kind \in {"primary", "unique", "index", "plain"}, NEW x
  PROVE  IsKey(Key(name, kind, <<x>>)) /\ IsPrimaryOver(Key(name, kind, <<x>>), {x})
<1>1. PICK m, k : m = <<x>> /\ k = Key(name, kind, m)
  OBVIOUS
<1>2. /\ m \in Seq(ToSet(m)) /\ ToSet(m) = {x} /\ m # <<>>
      /\ \A i, j \in DOMAIN m : m[i] = m[j] => i = j
  BY <1>1, MembersAre
<1>3. /\ DOMAIN k = {"name", "kind", "members", "partial"} /\ k.name = name /\ k.kind = kind
      /\ k.members = m
  BY <1>1 DEF Key
<1>4. IsKey(k)
  BY <1>2, <1>3 DEF IsKey, IsOver
<1>5. IsPrimaryOver(k, {x})
  BY <1>2, <1>3 DEF IsPrimaryOver
<1>6. QED
  BY <1>1, <1>4, <1>5

LEMMA KeyOfTwo ==
  ASSUME NEW name \in {1, 2, 3, 4, 5, 6}, NEW kind \in {"primary", "unique", "index", "plain"}, NEW x, NEW y, x # y
  PROVE  IsKey(Key(name, kind, <<x, y>>)) /\ IsPrimaryOver(Key(name, kind, <<x, y>>), {x, y})
<1>1. PICK m, k : m = <<x, y>> /\ k = Key(name, kind, m)
  OBVIOUS
<1>2. /\ m \in Seq(ToSet(m)) /\ ToSet(m) = {x, y} /\ m # <<>>
      /\ \A i, j \in DOMAIN m : m[i] = m[j] => i = j
  BY <1>1, MembersAre
<1>3. /\ DOMAIN k = {"name", "kind", "members", "partial"} /\ k.name = name /\ k.kind = kind
      /\ k.members = m
  BY <1>1 DEF Key
<1>4. IsKey(k)
  BY <1>2, <1>3 DEF IsKey, IsOver
<1>5. IsPrimaryOver(k, {x, y})
  BY <1>2, <1>3 DEF IsPrimaryOver
<1>6. QED
  BY <1>1, <1>4, <1>5

\* Keys and references under names of their own.
AreApart(keys, refs) ==
  /\ IsFiniteSet(keys) /\ IsFiniteSet(refs)
  /\ \A k, l \in keys : k.name = l.name => k = l
  /\ \A k, l \in keys : k.kind = "primary" /\ l.kind = "primary" => k = l
  /\ \A r, s \in refs : r.name = s.name => r = s
  /\ \A k \in keys : \A r \in refs : k.name # r.name

LEMMA TableIsDeclared ==
  ASSUME NEW t, t.schema # None, HasColumns(t), AreApart(t.keys, t.refs),
         \A k \in t.keys : IsKey(k) /\ IsPrimaryOver(k, ColumnNamesOf(t)),
         \A r \in t.refs : IsReferenceTo(r) /\ ToSet(r.members) \subseteq ColumnNamesOf(t)
  PROVE  IsDeclaredTable(t)
<1>1. t.keys \cap t.refs = {}
  BY DEF AreApart
<1>2. \A c \in t.keys \cup t.refs : IsOver(c)
  BY DEF IsKey, IsReferenceTo
<1>3. \A k \in t.keys : IsKeyOf(k, t)
  BY DEF IsKey, IsKeyOf, IsPrimaryOver
<1>4. \A r \in t.refs : IsReferenceOf(r, t)
  BY DEF IsReferenceTo, IsReferenceOf
<1>5. \A c, d \in Constraints(t) : c.name = d.name => c = d
  BY DEF Constraints, Keys, AreApart
<1>6. \A k, l \in Keys(t, {"primary"}) : k = l
  BY DEF Keys, AreApart
<1>7. QED
  BY <1>1, <1>2, <1>3, <1>4, <1>5, <1>6 DEF IsDeclaredTable, HasConstraints, AreApart

LEMMA PrimaryKeysAre ==
  ASSUME NEW keys \in PrimaryKeys, keys # {}
  PROVE  \E k : keys = {k} /\ IsKey(k) /\ k.name = 5 /\ IsPrimaryOver(k, {"a", "b"})
<1>1. PICK m \in {<<"a">>, <<"b">>, <<"b", "a">>} : keys = {Key(5, "primary", m)}
  BY DEF PrimaryKeys
<1>2. PICK k : k = Key(5, "primary", m)
  OBVIOUS
<1>3. k.name = 5
  BY <1>2 DEF Key
<1>4. IsKey(k) /\ IsPrimaryOver(k, {"a", "b"})
  <2>1. CASE m = <<"a">>
    <3>1. IsKey(k) /\ IsPrimaryOver(k, {"a"})
      BY <1>2, <2>1, KeyOfOne
    <3>2. QED
      BY <3>1 DEF IsPrimaryOver
  <2>2. CASE m = <<"b">>
    <3>1. IsKey(k) /\ IsPrimaryOver(k, {"b"})
      BY <1>2, <2>2, KeyOfOne
    <3>2. QED
      BY <3>1 DEF IsPrimaryOver
  <2>3. CASE m = <<"b", "a">>
    <3>1. IsKey(k) /\ IsPrimaryOver(k, {"b", "a"})
      BY <1>2, <2>3, KeyOfTwo
    <3>2. {"b", "a"} = {"a", "b"}
      OBVIOUS
    <3>3. QED
      BY <3>1, <3>2
  <2>4. QED
    BY <1>1, <2>1, <2>2, <2>3
<1>5. QED
  BY <1>1, <1>2, <1>3, <1>4

LEMMA OtherKeysAre ==
  ASSUME NEW keys \in OtherKeys, keys # {}
  PROVE  \E k : keys = {k} /\ IsKey(k) /\ k.name = 6 /\ k.kind # "primary"
<1> DEFINE Ok(k) == IsKey(k) /\ k.name = 6 /\ k.kind # "primary"
<1>1. ASSUME NEW kind \in {"unique", "index", "plain"}, NEW x
      PROVE  Ok(Key(6, kind, <<x>>))
  <2>1. IsKey(Key(6, kind, <<x>>))
    BY KeyOfOne
  <2>2. QED
    BY <2>1 DEF Key
<1>2. ASSUME NEW kind \in {"unique", "index", "plain"}, NEW x, NEW y, x # y
      PROVE  Ok(Key(6, kind, <<x, y>>))
  <2>1. IsKey(Key(6, kind, <<x, y>>))
    BY <1>2, KeyOfTwo
  <2>2. QED
    BY <2>1 DEF Key
<1>3. Ok([Key(6, "index", <<"b">>) EXCEPT !.partial = TRUE])
  <2>1. PICK k : k = Key(6, "index", <<"b">>)
    OBVIOUS
  <2>2. Ok(k)
    BY <1>1, <2>1
  <2>3. QED
    BY <2>1, <2>2 DEF IsKey, IsOver
<1> HIDE DEF Ok
<1>4. CASE keys \in {{Key(6, kind, m)} : kind \in {"unique", "index"}, m \in {<<"a">>, <<"b", "a">>}}
  <2>1. PICK kind \in {"unique", "index"}, m \in {<<"a">>, <<"b", "a">>} : keys = {Key(6, kind, m)}
    BY <1>4
  <2>2. Ok(Key(6, kind, <<"a">>)) /\ Ok(Key(6, kind, <<"b", "a">>))
    BY <1>1, <1>2
  <2>3. QED
    BY <2>1, <2>2 DEF Ok
<1>5. CASE keys \in {{Key(6, "index", m)} : m \in {<<"a", Expression>>, <<Expression>>}}
  <2>1. PICK m \in {<<"a", Expression>>, <<Expression>>} : keys = {Key(6, "index", m)}
    BY <1>5
  <2>2. "a" # Expression
    BY DEF Expression
  <2>3. Ok(Key(6, "index", <<"a", Expression>>)) /\ Ok(Key(6, "index", <<Expression>>))
    BY <1>1, <1>2, <2>2
  <2>4. QED
    BY <2>1, <2>3 DEF Ok
<1>6. CASE keys \in {{[Key(6, "index", <<"b">>) EXCEPT !.partial = TRUE]}, {Key(6, "plain", <<"a">>)}}
  BY <1>1, <1>3, <1>6 DEF Ok
<1>7. QED
  BY <1>4, <1>5, <1>6 DEF OtherKeys

LEMMA XAndY ==
  ASSUME NEW t, t.columns = Parents.columns
  PROVE  HasColumns(t) /\ ColumnNamesOf(t) = {"x", "y"}
<1>1. PICK x, y : /\ x = DeclaredColumn("x", <<"int", "eger">>, TRUE, FALSE)
                  /\ y = DeclaredColumn("y", <<"text">>, TRUE, FALSE)
  OBVIOUS
<1>2. DOMAIN x = ColumnFields /\ DOMAIN y = ColumnFields /\ x.name = "x" /\ y.name = "y"
  BY <1>1 DEF DeclaredColumn, ColumnFields
<1>3. t.columns = <<x, y>>
  BY <1>1 DEF Parents, DeclaredTable
<1>4. QED
  BY <1>2, <1>3, TwoColumns

LEMMA AAndB ==
  ASSUME NEW t, NEW p, NEW q, NEW secret,
         t.columns = <<DeclaredColumn("a", <<"int", "eger">>, p, FALSE), DeclaredColumn("b", <<"text">>, q, secret)>>
  PROVE  HasColumns(t) /\ ColumnNamesOf(t) = {"a", "b"}
<1>1. PICK x, y : /\ x = DeclaredColumn("a", <<"int", "eger">>, p, FALSE)
                  /\ y = DeclaredColumn("b", <<"text">>, q, secret)
  OBVIOUS
<1>2. DOMAIN x = ColumnFields /\ DOMAIN y = ColumnFields /\ x.name = "a" /\ y.name = "b"
  BY <1>1, ColumnIsDeclared
<1>3. t.columns = <<x, y>>
  BY <1>1
<1>4. QED
  BY <1>2, <1>3, TwoColumns

LEMMA ParentsAreDeclared ==
  IsDeclaredTable(Parents) /\ Parents.schema = "app" /\ Parents.name = "parents"
<1>1. PICK k, l, m, n : /\ k = Key(1, "primary", <<"y", "x">>) /\ l = Key(2, "unique", <<"x">>)
                        /\ m = Key(3, "unique", <<"x", "y">>) /\ n = Key(4, "index", <<"y">>)
  OBVIOUS
<1>2. /\ Parents.schema = "app" /\ Parents.name = "parents" /\ Parents.keys = {k, l, m, n}
      /\ Parents.refs = {}
  BY <1>1 DEF Parents, DeclaredTable
<1>3. IsKey(k) /\ IsPrimaryOver(k, {"y", "x"}) /\ k.name = 1 /\ k.kind = "primary"
  BY <1>1, KeyOfTwo DEF Key
<1>4. IsKey(l) /\ l.name = 2 /\ l.kind # "primary"
  BY <1>1, KeyOfOne DEF Key
<1>5. IsKey(m) /\ m.name = 3 /\ m.kind # "primary"
  BY <1>1, KeyOfTwo DEF Key
<1>6. IsKey(n) /\ n.name = 4 /\ n.kind # "primary"
  BY <1>1, KeyOfOne DEF Key
<1>7. HasColumns(Parents) /\ ColumnNamesOf(Parents) = {"y", "x"}
  BY XAndY
<1>8. IsFiniteSet({k, l, m, n}) /\ IsFiniteSet({})
  <2>1. IsFiniteSet({k, l, m})
    BY SmallSets
  <2>2. IsFiniteSet({k, l, m} \cup {n})
    BY <2>1, FS_AddElement
  <2>3. {k, l, m} \cup {n} = {k, l, m, n}
    OBVIOUS
  <2>4. QED
    BY <2>2, <2>3, FS_EmptySet
<1>9. AreApart(Parents.keys, Parents.refs)
  BY <1>2, <1>3, <1>4, <1>5, <1>6, <1>8 DEF AreApart
<1>10. \A c \in Parents.keys : IsKey(c) /\ IsPrimaryOver(c, ColumnNamesOf(Parents))
  BY <1>2, <1>3, <1>4, <1>5, <1>6, <1>7 DEF IsPrimaryOver
<1>11. Parents.schema # None
  BY <1>2, NoneIsNoSchema
<1>12. QED
  BY <1>2, <1>7, <1>9, <1>10, <1>11, TableIsDeclared

LEMMA EmptyIsDeclared ==
  ASSUME NEW t, t.schema # None, t.columns = <<>>, t.keys = {}, t.refs = {}
  PROVE  IsDeclaredTable(t)
<1>1. HasColumns(t)
  <2>1. DOMAIN t.columns = {} /\ t.columns \in Seq({}) 
    OBVIOUS
  <2>2. ToSet(t.columns) = {}
    BY <2>1 DEF ToSet
  <2>3. QED
    BY <2>1, <2>2 DEF HasColumns
<1>2. AreApart(t.keys, t.refs)
  BY FS_EmptySet DEF AreApart
<1>3. QED
  BY <1>1, <1>2, TableIsDeclared

LEMMA TheOthersAreDeclared ==
  /\ IsDeclaredTable(View) /\ View.schema = "app" /\ View.name = "recent"
  /\ IsDeclaredTable(Internal) /\ Internal.schema = "catalog" /\ Internal.name = "internal"
  /\ IsDeclaredTable(Others) /\ Others.schema = "public" /\ Others.name = "others"
<1>1. /\ View.schema = "app" /\ View.name = "recent" /\ View.columns = <<>> /\ View.keys = {}
      /\ View.refs = {}
  BY DEF View, DeclaredTable
<1>2. /\ Internal.schema = "catalog" /\ Internal.name = "internal" /\ Internal.columns = <<>>
      /\ Internal.keys = {} /\ Internal.refs = {}
  BY DEF Internal, DeclaredTable
<1>3. PICK r : r = Reference(8, <<"x">>, <<"x">>, 2)
  OBVIOUS
<1>4. /\ Others.schema = "public" /\ Others.name = "others" /\ Others.columns = Parents.columns
      /\ Others.keys = {} /\ Others.refs = {r}
  BY <1>3 DEF Others, Parents, DeclaredTable
<1>5. IsReferenceTo(r) /\ ToSet(r.members) = {"x"}
  <2>1. r.members = <<"x">>
    BY <1>3 DEF Reference
  <2>2. ToSet(r.members) = {"x"}
    BY <2>1, OfOne
  <2>3. IsReferenceTo(r)
    BY <1>3, ReferenceOfOne
  <2>4. QED
    BY <2>2, <2>3
<1>6. HasColumns(Others) /\ ColumnNamesOf(Others) = {"x", "y"}
  BY <1>4, XAndY
<1>7. IsFiniteSet({r}) /\ IsFiniteSet({})
  BY FS_EmptySet, FS_Singleton
<1>8. AreApart(Others.keys, Others.refs)
  BY <1>4, <1>7 DEF AreApart
<1>9. IsDeclaredTable(Others)
  BY <1>4, <1>5, <1>6, <1>8, NoneIsNoSchema, TableIsDeclared
<1>10. IsDeclaredTable(View) /\ IsDeclaredTable(Internal)
  BY <1>1, <1>2, NoneIsNoSchema, EmptyIsDeclared
<1>11. QED
  BY <1>1, <1>2, <1>4, <1>9, <1>10

LEMMA DatabaseIsDeclared ==
  ASSUME NEW t, IsDeclaredTable(t), t.name = "children"
  PROVE  /\ IsDeclared(DatabaseOf(t)) /\ NamesAreApart(DatabaseOf(t))
         /\ t \in ToSet(DatabaseOf(t)) /\ Parents \in ToSet(DatabaseOf(t))
<1>1. PICK db : db = DatabaseOf(t)
  OBVIOUS
<1>2. DOMAIN db = {1, 2, 3, 4, 5} /\ db \in Seq({t, Parents, View, Internal, Others})
  BY <1>1, SMT DEF DatabaseOf
<1>3. db[1] = t /\ db[2] = Parents /\ db[3] = View /\ db[4] = Internal /\ db[5] = Others
  BY <1>1 DEF DatabaseOf
<1>4. ToSet(db) = {t, Parents, View, Internal, Others}
  BY <1>2, <1>3, Zenon DEF ToSet
<1>5. NamesAreApart(db)
  <2>1. /\ db[1].name = "children" /\ db[2].name = "parents" /\ db[3].name = "recent"
        /\ db[4].name = "internal" /\ db[5].name = "others"
    BY <1>3, ParentsAreDeclared, TheOthersAreDeclared
  <2>2. QED
    BY <1>2, <2>1 DEF NamesAreApart
<1>6. \A i \in DOMAIN db : IsDeclaredTable(db[i])
  BY <1>2, <1>3, ParentsAreDeclared, TheOthersAreDeclared
<1>7. IsDeclared(db)
  BY <1>2, <1>4, <1>5, <1>6 DEF IsDeclared, NamesAreApart
<1>8. QED
  BY <1>1, <1>4, <1>5, <1>7

Children(t, schema, p, q, secret, primary, other, refs) ==
  t = DeclaredTable(schema, "children",
        <<DeclaredColumn("a", <<"int", "eger">>, p, FALSE), DeclaredColumn("b", <<"text">>, q, secret)>>,
        primary \cup other, refs)

LEMMA ChildrenAreDeclared ==
  ASSUME NEW schema \in {"app", "public"}, NEW p, NEW q, NEW secret, NEW primary \in PrimaryKeys,
         NEW other \in OtherKeys, NEW refs \in ReferenceSets, NEW t,
         Children(t, schema, p, q, secret, primary, other, refs)
  PROVE  IsDeclaredTable(t) /\ t.name = "children" /\ t.schema = schema
<1>1. /\ t.schema = schema /\ t.name = "children" /\ t.keys = primary \cup other /\ t.refs = refs
      /\ t.columns = <<DeclaredColumn("a", <<"int", "eger">>, p, FALSE), DeclaredColumn("b", <<"text">>, q, secret)>>
  BY DEF DeclaredTable, Children
<1>2. HasColumns(t) /\ ColumnNamesOf(t) = {"a", "b"}
  BY <1>1, AAndB
<1>3. primary = {} \/ \E k : primary = {k} /\ IsKey(k) /\ k.name = 5 /\ IsPrimaryOver(k, {"a", "b"})
  BY PrimaryKeysAre
<1>4. other = {} \/ \E k : other = {k} /\ IsKey(k) /\ k.name = 6 /\ k.kind # "primary"
  BY OtherKeysAre
<1>5. AreReferences(refs)
  BY ReferencesAre
<1>6. IsFiniteSet(primary \cup other)
  <2>1. IsFiniteSet(primary) /\ IsFiniteSet(other)
    BY <1>3, <1>4, FS_EmptySet, FS_Singleton, ZenonT(60)
  <2>2. QED
    BY <2>1, FS_Union
<1>7. AreApart(t.keys, t.refs)
  <2>1. \A k \in primary : k.name = 5
    BY <1>3
  <2>2. \A k \in other : k.name = 6 /\ k.kind # "primary"
    BY <1>4
  <2>3. \A k, l \in primary : k = l
    BY <1>3
  <2>4. \A k, l \in other : k = l
    BY <1>4
  <2>5. \A k, l \in t.keys : (k.name = l.name => k = l) /\ (k.kind = "primary" /\ l.kind = "primary" => k = l)
    <3>1. \A k \in primary : \A l \in other : k.name # l.name
      BY <2>1, <2>2
    <3>2. QED
      BY <1>1, <2>2, <2>3, <2>4, <3>1
  <2>6. \A k \in t.keys : \A r \in t.refs : k.name # r.name
    <3>1. \A r \in refs : r.name # 5 /\ r.name # 6
      BY <1>5 DEF AreReferences
    <3>2. QED
      BY <1>1, <2>1, <2>2, <3>1
  <2>7. IsFiniteSet(t.keys) /\ IsFiniteSet(t.refs) /\ \A r, s \in t.refs : r.name = s.name => r = s
    BY <1>1, <1>5, <1>6 DEF AreReferences
  <2>8. QED
    BY <2>5, <2>6, <2>7 DEF AreApart
<1>8. \A k \in t.keys : IsKey(k) /\ IsPrimaryOver(k, ColumnNamesOf(t))
  BY <1>1, <1>2, <1>3, <1>4 DEF IsPrimaryOver
<1>9. \A r \in t.refs : IsReferenceTo(r) /\ ToSet(r.members) \subseteq ColumnNamesOf(t)
  BY <1>1, <1>2, <1>5 DEF AreReferences
<1>10. IsDeclaredTable(t)
  <2>1. t.schema # None
    BY <1>1, NoneIsNoSchema
  <2>2. QED
    BY <1>2, <1>7, <1>8, <1>9, <2>1, TableIsDeclared
<1>11. QED
  BY <1>1, <1>10

LEMMA TablesAreAsked ==
  ASSUME AskTable
  PROVE  IsDatabaseAround(input'.t) /\ input'.failing \subseteq BestEffort \cup Needed
<1>1. PICK primary \in PrimaryKeys, other \in OtherKeys, refs \in ReferenceSets, secret \in BOOLEAN,
           schema \in {"app", "public"}, failing \in Failures :
        /\ refs = {} \/ (failing = {} /\ ~secret)
        /\ Ask([t |-> DeclaredTable(schema, "children",
                    <<DeclaredColumn("a", <<"int", "eger">>, primary # {}, FALSE),
                      DeclaredColumn("b", <<"text">>, FALSE, secret)>>, primary \cup other, refs),
                failing |-> failing])
  BY Zenon DEF AskTable
<1>2. PICK t : /\ input' = [t |-> t, failing |-> failing]
               /\ t = DeclaredTable(schema, "children",
                    <<DeclaredColumn("a", <<"int", "eger">>, primary # {}, FALSE),
                      DeclaredColumn("b", <<"text">>, FALSE, secret)>>, primary \cup other, refs)
  BY <1>1 DEF Ask
<1>3. IsDeclaredTable(t) /\ t.name = "children" /\ t.schema # None
  <2>1. PICK p, q : p = (primary # {}) /\ q = FALSE
    OBVIOUS
  <2>2. Children(t, schema, p, q, secret, primary, other, refs)
    BY <1>2, <2>1 DEF Children
  <2>3. IsDeclaredTable(t) /\ t.name = "children" /\ t.schema = schema
    BY <2>2, ChildrenAreDeclared
  <2>4. QED
    BY <2>3, NoneIsNoSchema
<1>4. IsDatabaseAround(t)
  BY <1>3, DatabaseIsDeclared DEF IsDatabaseAround
<1>5. failing \subseteq BestEffort \cup Needed
  BY DEF Failures, BestEffort, Needed
<1>6. QED
  BY <1>2, <1>4, <1>5

LEMMA TablesFollow ==
  ASSUME IsDatabaseAround(input.t), input.failing \subseteq BestEffort \cup Needed, AskedAbout("table")
  PROVE  TablesAreReadAsDeclared
<1>1. ASSUME NEW b \in AllBackends
      PROVE  /\ IsReadAsDeclared(b, DatabaseOf(input.t), input.t.schema, input.t, DefaultSampling, input.failing)
             /\ ListsItsTables(b, DatabaseOf(input.t), input.t.schema)
             /\ b # "mysql" => ListsItsTables(b, DatabaseOf(input.t), None)
  BY TablesAreReadForAll, TablesAreListedForAll DEF IsDatabaseAround
<1>2. QED
  BY <1>1, TypesAreMeantForAll DEF TablesAreReadAsDeclared

LEMMA InputsAreSound ==
  Spec => []InputIsSound
<1>1. Init => InputIsSound
  BY DEF Init, InputIsSound, AskedAbout
<1>2. InputIsSound /\ [Next]_<<about, input>> => InputIsSound'
  <2>1. SUFFICES ASSUME InputIsSound, [Next]_<<about, input>>
                 PROVE  InputIsSound'
    OBVIOUS
  <2>2. CASE Choose
    <3>1. about' = about
      BY <2>2 DEF Choose
    <3>2. ASSUME about = "federation"
          PROVE  IsFederation(input'.fed)
      BY <2>2, <3>2, FederationsAreAsked DEF Choose
    <3>3. ASSUME about = "guard"
          PROVE  input'.first \in Texts /\ input'.second \in Texts
      BY <2>2, <3>3, BatchesAreAsked DEF Choose
    <3>4. ASSUME about = "result"
          PROVE  IsResult(input'.result) /\ input'.budget \in Int
      BY <2>2, <3>4, ResultsAreAsked DEF Choose
    <3>5. ASSUME about = "run"
          PROVE  IsStatement(input'.st) /\ input'.budget \in Int /\ input'.backend \in Runnable
      BY <2>2, <3>5, RunsAreAsked DEF Choose
    <3>6. ASSUME about = "plan"
          PROVE  IsPlan(input'.plan)
      BY <2>2, <3>6, PlansAreAsked DEF Choose
    <3>7. ASSUME about = "resolve"
          PROVE  IsComparable(input'.t, input'.like)
      BY <2>2, <3>7, TablesToResolveAreAsked DEF Choose
    <3>8. ASSUME about = "synonyms"
          PROVE  IsComparable(input'.t, input'.like) /\ input'.synonyms \in Seq(ToSet(input'.synonyms))
      BY <2>2, <3>8, SynonymsAreAsked DEF Choose
    <3>9. ASSUME about = "hint"
          PROVE  IsDatabaseToHint(input'.db, input'.like)
      BY <2>2, <3>9, DatabasesToHintAreAsked DEF Choose
    <3>10. ASSUME about = "describe"
           PROVE  /\ IsListOfTables(input'.db)
                  /\ input'.names = None \/ input'.names \in Seq({input'.names[i] : i \in DOMAIN input'.names})
                  /\ input'.budget \in Int
      BY <2>2, <3>10, DescriptionsAreAsked DEF Choose
    <3>11. ASSUME about = "column"
           PROVE  IsSampledColumn(input'.col, input'.policy)
      BY <2>2, <3>11, ColumnsAreAsked DEF Choose
    <3>12. ASSUME about = "kind"
           PROVE  \E X : input'.values \in Seq(X)
      BY <2>2, <3>12, KindsAreAsked DEF Choose
    <3>13. ASSUME about = "diff"
           PROVE  IsCompared(input'.old) /\ IsCompared(input'.new)
      BY <2>2, <3>13, DatabasesToCompareAreAsked DEF Choose
    <3>14. ASSUME about = "snapshot"
           PROVE  IsListing(input'.listed) /\ None \notin ToSet(input'.listed) /\ input'.n \in Nat
      BY <2>2, <3>14, SnapshotsAreAsked DEF Choose
    <3>15. ASSUME about = "tool"
           PROVE  AreCaches(input'.given, input'.dir)
      BY <2>2, <3>15, CachesAreAsked DEF Choose
    <3>16. ASSUME about = "document"
           PROVE  AreDocumented(input'.db)
      BY <2>2, <3>16, DocumentsAreAsked DEF Choose
    <3>17. ASSUME about = "date"
           PROVE  input'.days \in Nat
      BY <2>2, <3>17, DatesAreAsked DEF Choose
    <3>18. ASSUME about = "table"
           PROVE  IsDatabaseAround(input'.t) /\ input'.failing \subseteq BestEffort \cup Needed
      BY <2>2, <3>18, TablesAreAsked DEF Choose
    <3>19. QED
      BY <3>1, <3>2, <3>3, <3>4, <3>5, <3>6, <3>7, <3>8, <3>9, <3>10, <3>11, <3>12, <3>13, <3>14,
         <3>15, <3>16, <3>17, <3>18
         DEF InputIsSound, AskedAbout
  <2>3. CASE Answered
    BY <2>3 DEF Answered, InputIsSound, AskedAbout
  <2>4. CASE UNCHANGED <<about, input>>
    BY <2>1, <2>4 DEF InputIsSound, AskedAbout
  <2>5. QED
    BY <2>1, <2>2, <2>3, <2>4 DEF Next
<1>3. QED
  BY <1>1, <1>2, PTL DEF Spec

\* Every table a federation lists is found by the name it is listed under.
\* federation.rs
THEOREM FederationIsSearched ==
  Spec => []ListedTablesAreFound
<1>1. InputIsSound => ListedTablesAreFound
  BY EveryListedIsFound DEF InputIsSound, ListedTablesAreFound
<1>2. QED
  BY <1>1, InputsAreSound, PTL

\* The best there is answers for a name, synonyms answer in their scope only,
\* and a hint is the best of the database.  resolve.rs, synonyms.rs, hint.rs
THEOREM NamesFindTheBest ==
  Spec => []NamesAreResolved
<1>1. InputIsSound => NamesAreResolved
  BY BestAnswers, SynonymsAnswerInScope, HintsAreTheBest DEF InputIsSound, NamesAreResolved
<1>2. QED
  BY <1>1, InputsAreSound, PTL

\* The guard accepts a batch by the structure of its statements.  safety.rs
THEOREM GuardIsSound ==
  Spec => []GuardIsStructural
<1>1. InputIsSound => GuardIsStructural
  BY GuardIsStructuralForAll DEF InputIsSound, GuardIsStructural, Texts
<1>2. QED
  BY <1>1, InputsAreSound, PTL

\* What matters most to a hint is given up last.  agent.rs
THEOREM DescriptionsAreSound ==
  Spec => []DescriptionsKeepWhatMatters
<1>1. InputIsSound => DescriptionsKeepWhatMatters
  BY DescriptionIsSound DEF InputIsSound, DescriptionsKeepWhatMatters
<1>2. QED
  BY <1>1, InputsAreSound, PTL

\* What is shown of a result says when it was cut, by whichever limit and
\* backend, and a cost that is not known says why.  lib.rs, backends/
THEOREM ResultsAreShown ==
  Spec => []ResultsAreHonest
<1>1. InputIsSound => ResultsAreHonest
  <2>1. SUFFICES ASSUME InputIsSound
                 PROVE  ResultsAreHonest
    OBVIOUS
  <2>2. AskedAbout("result") => ResultIsHonest(input.result, input.budget)
    BY <2>1, RenderedIsHonest DEF InputIsSound
  <2>3. AskedAbout("run") => RunIsHonest(input.backend, input.st, 2, input.budget)
    BY <2>1, RunIsHonestForAll DEF InputIsSound
  <2>4. AskedAbout("plan") => CostIsExplained(input.backend, input.plan)
    BY <2>1, CostIsExplainedForAll DEF InputIsSound
  <2>5. QED
    BY <2>2, <2>3, <2>4 DEF ResultsAreHonest
<1>2. QED
  BY <1>1, InputsAreSound, PTL

\* What is kept of the values of a column is true of the column, and nothing is
\* kept of one whose name is denied, nor by MySQL of one whose comment is (the
\* other backends read no comments, and keep samples of such a column); what
\* values look like is what most of them are.  sampling.rs, pii.rs
THEOREM SamplesAreTrue ==
  Spec => []SamplesAreHonest
<1>1. InputIsSound => SamplesAreHonest
  BY SampleIsHonestForAll, KindIsRightForAll DEF InputIsSound, SamplesAreHonest
<1>2. QED
  BY <1>1, InputsAreSound, PTL

\* What the tools report of databases, of snapshots, of files and of dates is
\* what is there.  bin/
THEOREM ReportsAreTrue ==
  Spec => []ReportsAreExact
<1>1. InputIsSound => ReportsAreExact
  <2>1. SUFFICES ASSUME InputIsSound
                 PROVE  ReportsAreExact
    OBVIOUS
  <2>2. AskedAbout("diff") => DiffIsExact(input.old, input.new)
    BY <2>1, DiffIsExactForAll DEF InputIsSound
  <2>3. AskedAbout("snapshot") => SnapshotIsTheNth(input.listed, input.n)
    BY <2>1, SnapshotIsTheNthForAll DEF InputIsSound
  <2>4. AskedAbout("tool") => ToolsReadCaches(input.given, input.dir, input.url)
    BY <2>1, ToolsReadCachesForAll DEF InputIsSound
  <2>5. AskedAbout("document") => DocumentIsComplete(input.db, input.backend)
    BY <2>1, DocumentIsCompleteForAll DEF InputIsSound
  <2>6. AskedAbout("date") => DatesFollow(input.days)
    BY <2>1, DatesFollowForAll DEF InputIsSound
  <2>7. QED
    BY <2>2, <2>3, <2>4, <2>5, <2>6 DEF ReportsAreExact
<1>2. QED
  BY <1>1, InputsAreSound, PTL

\* A table is read from every backend as it is declared, as far as the backend
\* tells, its columns, keys and references in order and whatever optional query
\* fails; each backend lists the tables there are; and a type means the same
\* wherever it is spelled.  backends/
THEOREM TablesAreRead ==
  Spec => []TablesAreReadAsDeclared
<1>1. InputIsSound => TablesAreReadAsDeclared
  BY TablesFollow DEF InputIsSound, TablesAreReadAsDeclared
<1>2. QED
  BY <1>1, InputsAreSound, PTL
=============================================================================
