--------------------------- MODULE FunctionProofs ---------------------------
(***************************************************************************)
(* What single functions of the code answer, for every input: the          *)
(* read-only guard, the samples kept of a column, and the reports of the   *)
(* tools, a section each.                                                  *)
(***************************************************************************)
EXTENDS ReadOnly, Sampling, Reports, FiniteSetTheorems, WellFoundedInduction, TLAPS

(***************************************************************************)
(* Induction and recursion over data, in forms the provers can use: about  *)
(* sets and functions, without operators as parameters.                    *)
(***************************************************************************)

Below == {ss \in Nat \X Nat : ss[1] < ss[2]}

LEMMA BelowWellFounded == IsWellFoundedOn(Below, Nat)
  BY NatLessThanWellFounded DEF OpToRel, Below

\* A set of naturals has a least element.
LEMMA LeastExists ==
  ASSUME NEW T \in SUBSET Nat, T # {}
  PROVE  \E x \in T : \A y \in T : x <= y
<1>1. PICK x \in T : \A y \in T : <<y, x>> \notin Below
  BY WFMin, BelowWellFounded
<1>2. SUFFICES ASSUME NEW y \in T
               PROVE  x <= y
  BY <1>1
<1>3. <<y, x>> \in Nat \X Nat
  OBVIOUS
<1>4. ~(<<y, x>>[1] < <<y, x>>[2])
  BY <1>1, <1>3 DEF Below
<1>5. QED
  BY <1>4

\* Induction: a set of naturals with 0 and the successor of each of its
\* members has every natural.
LEMMA Induction ==
  ASSUME NEW T \in SUBSET Nat, 0 \in T, \A n \in T : n + 1 \in T
  PROVE  T = Nat
<1>1. SUFFICES ASSUME Nat \ T # {}
               PROVE  FALSE
  OBVIOUS
<1>2. PICK x \in Nat \ T : \A y \in Nat \ T : x <= y
  BY <1>1, LeastExists
<1>3. x - 1 \in Nat /\ x - 1 \in T
  BY <1>2
<1>4. QED
  BY <1>2, <1>3

\* The descent of data: a way to get from any element to a smaller one, until
\* there is nothing to do.
IsDescent(S, Stop, next, size) ==
  /\ Stop \in SUBSET S
  /\ next \in [S \ Stop -> S]
  /\ size \in [S -> Nat]
  /\ \A t \in S \ Stop : size[next[t]] < size[t]

\* Induction along it.
Inherits(W, S, Stop, next) ==
  /\ W \in SUBSET S
  /\ Stop \subseteq W
  /\ \A t \in S \ Stop : next[t] \in W => t \in W

LEMMA DescentInduction ==
  ASSUME NEW S, NEW Stop, NEW next, NEW size, IsDescent(S, Stop, next, size),
         NEW W, Inherits(W, S, Stop, next)
  PROVE  W = S
<1> USE DEF IsDescent, Inherits
<1>1. SUFFICES ASSUME S \ W # {}
               PROVE  FALSE
  OBVIOUS
<1> DEFINE T == {size[t] : t \in S \ W}
<1>2. T \in SUBSET Nat /\ T # {}
  BY <1>1
<1>3. PICK n \in T : \A m \in T : n <= m
  BY <1>2, LeastExists
<1>4. PICK t \in S \ W : n = size[t]
  BY <1>3
<1>5. t \in S \ Stop /\ next[t] \in S \ W
  BY <1>4
<1>6. size[next[t]] \in T /\ size[next[t]] < size[t] /\ size[next[t]] \in Nat /\ size[t] \in Nat
  BY <1>5
<1>7. n <= size[next[t]]
  BY <1>3, <1>6
<1>8. QED
  BY <1>4, <1>6, <1>7

\* A recursive definition along it.
Recurs(g, D, Stop, next, val, step) ==
  \A t \in D : g[t] = IF t \in Stop THEN val[t] ELSE step[t][g[next[t]]]

\* Two functions that recur in the same way agree where both are defined.
LEMMA RecursionIsUnique ==
  ASSUME NEW S, NEW Stop, NEW next, NEW size, IsDescent(S, Stop, next, size),
         NEW val, NEW step, NEW g, NEW h, NEW D \in SUBSET S,
         \A t \in D \ Stop : next[t] \in D,
         Recurs(g, D, Stop, next, val, step), Recurs(h, D, Stop, next, val, step)
  PROVE  \A t \in D : g[t] = h[t]
<1> DEFINE W == {t \in S : t \in D => g[t] = h[t]}
<1>1. W \in SUBSET S /\ Stop \subseteq W
  BY DEF Recurs, IsDescent
<1>2. ASSUME NEW t \in S \ Stop, next[t] \in W
      PROVE  t \in W
  BY <1>2 DEF Recurs
<1>3. Inherits(W, S, Stop, next)
  BY <1>1, <1>2 DEF Inherits
<1>4. W = S
  BY <1>3, DescentInduction
<1>5. QED
  BY <1>4

\* Definitions whose values are in V, that recur along a descent, define a function.
IsRecursion(S, Stop, next, size, V, val, step) ==
  /\ IsDescent(S, Stop, next, size)
  /\ val \in [Stop -> V]
  /\ step \in [S \ Stop -> [V -> V]]

LEMMA LinearRecursion ==
  ASSUME NEW S, NEW Stop, NEW next, NEW size, NEW V, NEW val, NEW step,
         IsRecursion(S, Stop, next, size, V, val, step)
  PROVE  \E g \in [S -> V] : Recurs(g, S, Stop, next, val, step)
<1> DEFINE Part(n) == {t \in S : size[t] < n}
           Good(n) == {g \in [Part(n) -> V] : Recurs(g, Part(n), Stop, next, val, step)}
           T == {n \in Nat : Good(n) # {}}
<1>0. /\ Stop \in SUBSET S
      /\ next \in [S \ Stop -> S]
      /\ size \in [S -> Nat]
      /\ \A t \in S \ Stop : size[next[t]] < size[t]
      /\ val \in [Stop -> V]
      /\ step \in [S \ Stop -> [V -> V]]
      /\ IsDescent(S, Stop, next, size)
  BY DEF IsDescent, IsRecursion
<1> USE <1>0
<1>1. 0 \in T
  <2>1. Part(0) = {}
    OBVIOUS
  <2>2. \E g : g \in [{} -> V]
    <3>1. [t \in {} |-> t] \in [{} -> V]
      OBVIOUS
    <3>2. QED
      BY <3>1
  <2>3. QED
    BY <2>1, <2>2 DEF Recurs
<1>2. ASSUME NEW n \in T
      PROVE  n + 1 \in T
  <2>1. PICK g \in Good(n) : TRUE
    OBVIOUS
  <2> DEFINE h == [t \in Part(n + 1) |-> IF t \in Stop THEN val[t] ELSE step[t][g[next[t]]]]
  <2>2. ASSUME NEW t \in Part(n + 1), t \notin Stop
        PROVE  next[t] \in Part(n) /\ g[next[t]] \in V
    <3>1. t \in S \ Stop /\ next[t] \in S /\ size[next[t]] < size[t] /\ size[t] < n + 1
      BY <2>2
    <3>2. size[t] \in Nat /\ size[next[t]] \in Nat /\ n \in Nat
      BY <3>1
    <3>3. next[t] \in Part(n)
      BY <3>1, <3>2
    <3>4. QED
      BY <2>1, <3>3
  <2>3. h \in [Part(n + 1) -> V]
    <3>1. SUFFICES ASSUME NEW t \in Part(n + 1)
                   PROVE  (IF t \in Stop THEN val[t] ELSE step[t][g[next[t]]]) \in V
      OBVIOUS
    <3>2. CASE t \in Stop
      BY <3>2
    <3>3. CASE t \notin Stop
      BY <3>3, <2>2
    <3>4. QED
      BY <3>2, <3>3
  <2>4. \A t \in Part(n) : h[t] = g[t]
    <3>1. SUFFICES ASSUME NEW t \in Part(n)
                   PROVE  h[t] = g[t]
      OBVIOUS
    <3>2. t \in Part(n + 1)
      OBVIOUS
    <3>3. g[t] = IF t \in Stop THEN val[t] ELSE step[t][g[next[t]]]
      BY <2>1 DEF Recurs
    <3>4. QED
      BY <3>2, <3>3
  <2>5. Recurs(h, Part(n + 1), Stop, next, val, step)
    BY <2>2, <2>4 DEF Recurs
  <2>6. h \in Good(n + 1)
    BY <2>3, <2>5
  <2>7. n + 1 \in Nat
    OBVIOUS
  <2> HIDE DEF Good
  <2>8. QED
    BY <2>6, <2>7
<1>3. T = Nat
  BY <1>1, <1>2, Induction
<1>4. ASSUME NEW n \in Nat, NEW m \in Nat, NEW g \in Good(n), NEW h \in Good(m),
             NEW t \in Part(n), t \in Part(m)
      PROVE  g[t] = h[t]
  <2> DEFINE D == Part(n) \cap Part(m)
  <2>1. \A u \in D \ Stop : next[u] \in D
    <3>1. SUFFICES ASSUME NEW u \in D \ Stop
                   PROVE  next[u] \in D
      OBVIOUS
    <3>2. u \in S \ Stop /\ next[u] \in S /\ size[next[u]] < size[u] /\ size[u] < n /\ size[u] < m
      OBVIOUS
    <3>3. size[u] \in Nat /\ size[next[u]] \in Nat
      BY <3>2
    <3>4. QED
      BY <3>2, <3>3
  <2>2. Recurs(g, D, Stop, next, val, step) /\ Recurs(h, D, Stop, next, val, step)
    BY DEF Recurs
  <2>3. D \in SUBSET S /\ t \in D
    BY <1>4
  <2> HIDE <1>0 DEF D
  <2>4. QED
    BY <1>0, <2>1, <2>2, <2>3, RecursionIsUnique
<1> DEFINE pick(t) == CHOOSE g : g \in Good(size[t] + 1)
           G == [t \in S |-> pick(t)[t]]
<1>5. ASSUME NEW t \in S
      PROVE  pick(t) \in Good(size[t] + 1) /\ t \in Part(size[t] + 1)
  <2>1. size[t] \in Nat /\ size[t] + 1 \in Nat
    OBVIOUS
  <2>2. Good(size[t] + 1) # {}
    BY <2>1, <1>3
  <2>3. t \in Part(size[t] + 1)
    BY <2>1
  <2> HIDE DEF Good, Part
  <2>4. pick(t) \in Good(size[t] + 1)
    BY <2>2
  <2>5. QED
    BY <2>3, <2>4
<1> HIDE DEF pick
<1>6. G \in [S -> V]
  BY <1>5
<1>7. Recurs(G, S, Stop, next, val, step)
  <2>1. SUFFICES ASSUME NEW t \in S
                 PROVE  G[t] = IF t \in Stop THEN val[t] ELSE step[t][G[next[t]]]
    BY DEF Recurs
  <2>2. pick(t)[t] = IF t \in Stop THEN val[t] ELSE step[t][pick(t)[next[t]]]
    BY <1>5 DEF Recurs
  <2>3. CASE t \in Stop
    BY <2>2, <2>3
  <2>4. CASE t \notin Stop
    <3>1. next[t] \in S /\ size[next[t]] < size[t] /\ size[t] \in Nat /\ size[next[t]] \in Nat
      BY <2>4
    <3>2. next[t] \in Part(size[t] + 1) /\ next[t] \in Part(size[next[t]] + 1)
      BY <3>1
    <3>3. pick(t) \in Good(size[t] + 1) /\ pick(next[t]) \in Good(size[next[t]] + 1)
      BY <1>5, <3>1
    <3>4. pick(t)[next[t]] = pick(next[t])[next[t]]
      <4>1. size[t] + 1 \in Nat /\ size[next[t]] + 1 \in Nat
        BY <3>1
      <4> HIDE DEF Part, Good
      <4>2. QED
        BY <1>4, <3>2, <3>3, <4>1
    <3>5. QED
      BY <2>2, <2>4, <3>1, <3>4
  <2>5. QED
    BY <2>3, <2>4
<1>8. QED
  BY <1>6, <1>7


\* Recursion over the places of a sequence: base, and what each step makes of
\* what there is.
IsIteration(n, V, base, step) ==
  n \in Nat /\ base \in V /\ step \in [1 .. n -> [V -> V]]

LEMMA Iteration ==
  ASSUME NEW n, NEW V, NEW base, NEW step, IsIteration(n, V, base, step)
  PROVE  \E g \in [0 .. n -> V] : g[0] = base /\ \A i \in 1 .. n : g[i] = step[i][g[i - 1]]
<1> DEFINE S == 0 .. n
           next == [i \in S \ {0} |-> i - 1]
           size == [i \in S |-> i]
           val == [i \in {0} |-> base]
<1>0. n \in Nat /\ base \in V /\ step \in [1 .. n -> [V -> V]]
  BY DEF IsIteration
<1> USE <1>0
<1>1. S \ {0} = 1 .. n /\ {0} \in SUBSET S
  OBVIOUS
<1>2. IsDescent(S, {0}, next, size)
  <2>1. next \in [S \ {0} -> S] /\ size \in [S -> Nat]
    OBVIOUS
  <2>2. \A t \in S \ {0} : size[next[t]] < size[t]
    OBVIOUS
  <2>3. QED
    BY <1>1, <2>1, <2>2 DEF IsDescent
<1>3. val \in [{0} -> V] /\ step \in [S \ {0} -> [V -> V]]
  BY <1>1
<1>4. PICK g \in [S -> V] : Recurs(g, S, {0}, next, val, step)
  <2> HIDE DEF S, next, size, val
  <2>1. IsRecursion(S, {0}, next, size, V, val, step)
    BY <1>2, <1>3 DEF IsRecursion
  <2>2. QED
    BY <2>1, LinearRecursion
<1>5. g[0] = base
  <2>1. 0 \in S /\ 0 \in {0}
    OBVIOUS
  <2>2. g[0] = val[0]
    BY <1>4, <2>1 DEF Recurs
  <2>3. QED
    BY <2>2
<1>6. ASSUME NEW i \in 1 .. n
      PROVE  g[i] = step[i][g[i - 1]]
  <2>1. i \in S /\ i \notin {0} /\ next[i] = i - 1
    OBVIOUS
  <2> HIDE DEF S, next, val
  <2>2. QED
    BY <1>4, <2>1 DEF Recurs
<1>7. QED
  BY <1>4, <1>5, <1>6

\* Induction over them.
LEMMA PlaceInduction ==
  ASSUME NEW n \in Nat, NEW W, 1 \in W, \A i \in 1 .. n - 1 : i \in W => i + 1 \in W
  PROVE  1 .. n \subseteq W
<1> DEFINE T == {k \in Nat : k + 1 \in W \/ k >= n}
<1>1. 0 \in T
  OBVIOUS
<1>2. \A k \in T : k + 1 \in T
  OBVIOUS
<1>3. T = Nat
  <2> HIDE DEF T
  <2>1. T \in SUBSET Nat
    BY DEF T
  <2>2. QED
    BY <1>1, <1>2, <2>1, Induction
<1>4. SUFFICES ASSUME NEW i \in 1 .. n
               PROVE  i \in W
  OBVIOUS
<1>5. i \in Nat /\ i - 1 \in Nat /\ i <= n
  OBVIOUS
<1>6. i - 1 \in T
  BY <1>3, <1>5
<1>7. (i - 1) + 1 \in W
  BY <1>5, <1>6
<1>8. QED
  BY <1>5, <1>7

\* The elements of sequences put end to end.
LEMMA FlattenSeqIs ==
  ASSUME NEW X, NEW seqs \in Seq(Seq(X)), seqs # <<>>
  PROVE  \E f \in [1 .. Len(seqs) -> Seq(X)] :
           /\ FlattenSeq(seqs) = f[Len(seqs)]
           /\ f[1] = seqs[1]
           /\ \A i \in 2 .. Len(seqs) : f[i] = f[i - 1] \o seqs[i]
<1> DEFINE n == Len(seqs)
           step == [i \in 1 .. n |-> [v \in Seq(X) |-> IF i = 1 THEN seqs[1] ELSE v \o seqs[i]]]
           Is(f) == f = [i \in 1 .. n |-> IF i = 1 THEN seqs[i] ELSE f[i - 1] \o seqs[i]]
<1>1. n \in Nat /\ n >= 1 /\ \A i \in 1 .. n : seqs[i] \in Seq(X)
  OBVIOUS
<1>2. step \in [1 .. n -> [Seq(X) -> Seq(X)]]
  BY <1>1
<1>3. <<>> \in Seq(X)
  OBVIOUS
<1>4. PICK g \in [0 .. n -> Seq(X)] : g[0] = <<>> /\ \A i \in 1 .. n : g[i] = step[i][g[i - 1]]
  <2>1. IsIteration(n, Seq(X), <<>>, step)
    BY <1>1, <1>2, <1>3 DEF IsIteration
  <2> HIDE DEF n, step
  <2>2. QED
    BY <2>1, Iteration
<1> DEFINE h == [i \in 1 .. n |-> g[i]]
<1>5. Is(h)
  <2>1. SUFFICES ASSUME NEW i \in 1 .. n
                 PROVE  h[i] = IF i = 1 THEN seqs[i] ELSE h[i - 1] \o seqs[i]
    OBVIOUS
  <2>2. g[i - 1] \in Seq(X)
    <3>1. i - 1 \in 0 .. n
      BY <1>1
    <3>2. QED
      BY <3>1
  <2>3. g[i] = IF i = 1 THEN seqs[1] ELSE g[i - 1] \o seqs[i]
    BY <1>4, <2>2
  <2>4. CASE i = 1
    BY <2>3, <2>4
  <2>5. CASE i # 1
    <3>1. i - 1 \in 1 .. n
      BY <1>1, <2>5
    <3>2. QED
      BY <2>3, <2>5, <3>1
  <2>6. QED
    BY <2>4, <2>5
<1>6. PICK f : f = (CHOOSE e : Is(e)) /\ Is(f)
  <2> HIDE DEF Is
  <2>1. QED
    BY <1>5
<1>7. FlattenSeq(seqs) = f[n]
  BY <1>1, <1>6 DEF FlattenSeq
<1>8. f[1] = seqs[1] /\ DOMAIN f = 1 .. n
  <2>1. \A i \in 1 .. n : f[i] = IF i = 1 THEN seqs[i] ELSE f[i - 1] \o seqs[i]
    BY <1>6
  <2>2. 1 \in 1 .. n
    BY <1>1
  <2>3. QED
    BY <1>6, <2>1, <2>2
<1>9. ASSUME NEW i \in 2 .. n
      PROVE  f[i] = f[i - 1] \o seqs[i]
  <2>1. i \in 1 .. n /\ i # 1
    BY <1>1
  <2>2. QED
    BY <1>6, <2>1
<1>10. f \in [1 .. n -> Seq(X)]
  <2> DEFINE W == {i \in 1 .. n : f[i] \in Seq(X)}
  <2>1. 1 \in W
    BY <1>1, <1>8
  <2>2. ASSUME NEW i \in 1 .. n - 1, i \in W
        PROVE  i + 1 \in W
    <3>1. i + 1 \in 2 .. n /\ i + 1 \in 1 .. n /\ (i + 1) - 1 = i
      BY <1>1
    <3>2. f[i + 1] = f[i] \o seqs[i + 1]
      BY <1>9, <3>1
    <3>3. f[i] \in Seq(X) /\ seqs[i + 1] \in Seq(X)
      BY <1>1, <2>2, <3>1
    <3>4. f[i] \o seqs[i + 1] \in Seq(X)
      BY <3>3
    <3>5. QED
      BY <3>1, <3>2, <3>4
  <2>3. 1 .. n \subseteq W
    <3> HIDE DEF W, n
    <3>1. QED
      BY <1>1, <2>1, <2>2, PlaceInduction
  <2>4. f = [i \in 1 .. n |-> f[i]]
    BY <1>6
  <2>5. QED
    BY <2>3, <2>4
<1>11. QED
  BY <1>7, <1>8, <1>9, <1>10

LEMMA ConcatElements ==
  ASSUME NEW X, NEW s \in Seq(X), NEW t \in Seq(X)
  PROVE  ToSet(s \o t) = ToSet(s) \cup ToSet(t)
<1>1. ASSUME NEW x \in ToSet(s \o t)
      PROVE  x \in ToSet(s) \cup ToSet(t)
  <2>1. PICK i \in 1 .. Len(s) + Len(t) : x = (s \o t)[i]
    BY DEF ToSet
  <2>2. CASE i <= Len(s)
    BY <2>1, <2>2 DEF ToSet
  <2>3. CASE i > Len(s)
    <3>1. i - Len(s) \in 1 .. Len(t) /\ x = t[i - Len(s)]
      BY <2>1, <2>3
    <3>2. QED
      BY <3>1 DEF ToSet
  <2>4. QED
    BY <2>1, <2>2, <2>3
<1>2. ASSUME NEW x \in ToSet(s)
      PROVE  x \in ToSet(s \o t)
  <2>1. PICK i \in 1 .. Len(s) : x = s[i]
    BY DEF ToSet
  <2>2. i \in 1 .. Len(s \o t) /\ x = (s \o t)[i] /\ s \o t \in Seq(X)
    BY <2>1
  <2>3. QED
    BY <2>2 DEF ToSet
<1>3. ASSUME NEW x \in ToSet(t)
      PROVE  x \in ToSet(s \o t)
  <2>1. PICK i \in 1 .. Len(t) : x = t[i]
    BY DEF ToSet
  <2>2. i + Len(s) \in 1 .. Len(s \o t) /\ x = (s \o t)[i + Len(s)] /\ s \o t \in Seq(X)
    BY <2>1
  <2>3. QED
    BY <2>2 DEF ToSet
<1>4. QED
  BY <1>1, <1>2, <1>3

LEMMA FlattenedElements ==
  ASSUME NEW X, NEW seqs \in Seq(Seq(X))
  PROVE  /\ FlattenSeq(seqs) \in Seq(X)
         /\ ToSet(FlattenSeq(seqs)) = UNION {ToSet(seqs[i]) : i \in DOMAIN seqs}
<1>1. CASE seqs = <<>>
  <2>1. FlattenSeq(seqs) = <<>>
    BY <1>1 DEF FlattenSeq
  <2>2. ToSet(<<>>) = {} /\ <<>> \in Seq(X) /\ DOMAIN seqs = {}
    BY <1>1 DEF ToSet
  <2>3. QED
    BY <2>1, <2>2
<1>2. CASE seqs # <<>>
  <2>1. PICK f \in [1 .. Len(seqs) -> Seq(X)] :
           /\ FlattenSeq(seqs) = f[Len(seqs)]
           /\ f[1] = seqs[1]
           /\ \A i \in 2 .. Len(seqs) : f[i] = f[i - 1] \o seqs[i]
    BY <1>2, FlattenSeqIs
  <2>2. Len(seqs) \in Nat /\ Len(seqs) >= 1 /\ \A i \in 1 .. Len(seqs) : seqs[i] \in Seq(X)
    BY <1>2
  <2> DEFINE U(i) == UNION {ToSet(seqs[j]) : j \in 1 .. i}
             W == {i \in 1 .. Len(seqs) : ToSet(f[i]) = U(i)}
  <2>3. 1 \in W
    <3>1. 1 .. 1 = {1} /\ 1 \in 1 .. Len(seqs)
      BY <2>2
    <3>2. U(1) = ToSet(seqs[1])
      BY <3>1
    <3>3. QED
      BY <2>1, <3>1, <3>2
  <2>4. ASSUME NEW i \in 1 .. Len(seqs) - 1, i \in W
        PROVE  i + 1 \in W
    <3>1. i + 1 \in 2 .. Len(seqs) /\ (i + 1) - 1 = i /\ i \in 1 .. Len(seqs) /\ i + 1 \in 1 .. Len(seqs)
      BY <2>2
    <3>2. f[i] \in Seq(X) /\ seqs[i + 1] \in Seq(X) /\ f[i + 1] = f[i] \o seqs[i + 1]
      BY <2>1, <2>2, <3>1
    <3>3. ToSet(f[i + 1]) = ToSet(f[i]) \cup ToSet(seqs[i + 1])
      BY <3>2, ConcatElements
    <3>4. U(i + 1) = U(i) \cup ToSet(seqs[i + 1])
      <4>1. \A j : j \in 1 .. i + 1 <=> j \in 1 .. i \/ j = i + 1
        BY <3>1
      <4>2. \A x : x \in U(i + 1) <=> x \in U(i) \/ x \in ToSet(seqs[i + 1])
        BY <4>1
      <4> HIDE DEF U
      <4>3. QED
        BY <4>2
    <3>5. ToSet(f[i]) = U(i)
      BY <2>4
    <3>6. ToSet(f[i + 1]) = U(i + 1)
      BY <3>3, <3>4, <3>5
    <3>7. QED
      BY <3>1, <3>6
  <2>5. 1 .. Len(seqs) \subseteq W
    <3> HIDE DEF W
    <3>1. QED
      BY <2>2, <2>3, <2>4, PlaceInduction
  <2>6. Len(seqs) \in 1 .. Len(seqs) /\ DOMAIN seqs = 1 .. Len(seqs)
    BY <2>2
  <2>7. ToSet(f[Len(seqs)]) = U(Len(seqs))
    BY <2>5, <2>6
  <2>8. QED
    BY <2>1, <2>6, <2>7
<1>3. QED
  BY <1>1, <1>2

LEMMA MinIs ==
  ASSUME NEW T \in SUBSET Nat, T # {}
  PROVE  Min(T) \in T /\ \A y \in T : Min(T) <= y
<1>1. \E x \in T : \A y \in T : x =< y
  BY LeastExists
<1>2. QED
  BY <1>1 DEF Min

\* A set of naturals with a bound has a greatest element.
LEMMA MaxIs ==
  ASSUME NEW T \in SUBSET Nat, T # {}, NEW b \in Nat, \A y \in T : y <= b
  PROVE  Max(T) \in T /\ \A y \in T : Max(T) >= y
<1> DEFINE U == {b - y : y \in T}
<1>1. U \in SUBSET Nat /\ U # {}
  <2>1. \A y \in T : b - y \in Nat
    OBVIOUS
  <2>2. PICK y \in T : TRUE
    OBVIOUS
  <2>3. b - y \in U
    OBVIOUS
  <2>4. QED
    BY <2>1, <2>3
<1>2. PICK u \in U : \A v \in U : u <= v
  BY <1>1, LeastExists
<1>3. PICK x \in T : u = b - x
  BY <1>2
<1>4. ASSUME NEW y \in T
      PROVE  x >= y
  <2>1. b - x <= b - y
    BY <1>2, <1>3
  <2>2. QED
    BY <2>1
<1>5. \E z \in T : \A y \in T : z >= y
  BY <1>4
<1>6. QED
  BY <1>5 DEF Max

\* Folds go through the subsets of a finite set, an element less at a time.
Without(D, c) == [t \in (SUBSET D) \ {{}} |-> t \ {c[t]}]

Sizes(D) == [t \in SUBSET D |-> Cardinality(t)]

Chooses(D, c) == IsFiniteSet(D) /\ \A t \in (SUBSET D) \ {{}} : c[t] \in t

LEMMA SubsetDescent ==
  ASSUME NEW D, NEW c, Chooses(D, c)
  PROVE  IsDescent(SUBSET D, {{}}, Without(D, c), Sizes(D))
<1>1. ASSUME NEW t \in SUBSET D
      PROVE  IsFiniteSet(t) /\ Cardinality(t) \in Nat
  BY FS_Subset, FS_CardinalityType DEF Chooses
<1>2. ASSUME NEW t \in (SUBSET D) \ {{}}
      PROVE  Without(D, c)[t] \in SUBSET D /\ Sizes(D)[Without(D, c)[t]] < Sizes(D)[t]
  <2>1. c[t] \in t /\ IsFiniteSet(t)
    BY <1>1 DEF Chooses
  <2>2. Cardinality(t \ {c[t]}) = Cardinality(t) - 1
    BY <2>1, FS_RemoveElement
  <2>3. Without(D, c)[t] = t \ {c[t]} /\ t \ {c[t]} \in SUBSET D
    BY DEF Without
  <2>4. Cardinality(t) \in Nat
    BY <1>1
  <2>5. QED
    BY <2>2, <2>3, <2>4 DEF Sizes
<1>3. Without(D, c) \in [(SUBSET D) \ {{}} -> SUBSET D]
  BY DEF Without
<1>4. Sizes(D) \in [SUBSET D -> Nat]
  BY <1>1 DEF Sizes
<1>5. {{}} \in SUBSET (SUBSET D)
  OBVIOUS
<1>6. \A t \in (SUBSET D) \ {{}} : Sizes(D)[Without(D, c)[t]] < Sizes(D)[t]
  BY <1>2
<1>7. QED
  BY <1>3, <1>4, <1>5, <1>6 DEF IsDescent

\* The community modules' sum of numbers is a number.
Some(t) == CHOOSE x \in t : TRUE

LEMMA SumIsInteger ==
  ASSUME NEW f, IsFiniteSet(DOMAIN f), \A x \in DOMAIN f : f[x] \in Int
  PROVE  SumFunction(f) \in Int
<1> DEFINE D == DOMAIN f
           S == SUBSET D
           c == [t \in S \ {{}} |-> Some(t)]
           next == Without(D, c)
           val == [t \in {{}} |-> 0]
           step == [t \in S \ {{}} |-> [n \in Int |-> f[Some(t)] + n]]
           Is(g) == g = [t \in S |-> IF t = {} THEN 0 ELSE f[Some(t)] + g[t \ {Some(t)}]]
<1>1. ASSUME NEW t \in S \ {{}}
      PROVE  Some(t) \in t /\ f[Some(t)] \in Int /\ t \ {Some(t)} \in S /\ next[t] = t \ {Some(t)}
  <2>1. Some(t) \in t
    BY DEF Some
  <2>2. c[t] = Some(t)
    OBVIOUS
  <2> HIDE DEF c
  <2>3. QED
    BY <2>1, <2>2 DEF Without
<1>2. IsDescent(S, {{}}, next, Sizes(D))
  <2>1. Chooses(D, c)
    BY <1>1 DEF Chooses
  <2> HIDE DEF D, c
  <2>2. QED
    BY <2>1, SubsetDescent
<1>3. val \in [{{}} -> Int] /\ step \in [S \ {{}} -> [Int -> Int]]
  <2>1. \A t \in S \ {{}} : f[Some(t)] \in Int
    BY <1>1
  <2> HIDE DEF S
  <2>2. QED
    BY <2>1
<1>4. PICK g \in [S -> Int] : Recurs(g, S, {{}}, next, val, step)
  <2> HIDE DEF S, next, val, step
  <2>1. IsRecursion(S, {{}}, next, Sizes(D), Int, val, step)
    BY <1>2, <1>3 DEF IsRecursion
  <2>2. QED
    BY <2>1, LinearRecursion
<1>5. Is(g)
  <2>1. SUFFICES ASSUME NEW t \in S
                 PROVE  g[t] = IF t = {} THEN 0 ELSE f[Some(t)] + g[t \ {Some(t)}]
    OBVIOUS
  <2>2. CASE t = {}
    BY <1>4, <2>2 DEF Recurs
  <2>3. CASE t # {}
    <3>1. next[t] = t \ {Some(t)} /\ t \ {Some(t)} \in S
      BY <1>1, <2>3
    <3>2. g[t \ {Some(t)}] \in Int
      BY <3>1
    <3>3. step[t][g[t \ {Some(t)}]] = f[Some(t)] + g[t \ {Some(t)}]
      BY <2>3, <3>2
    <3>4. t \notin {{}}
      BY <2>3
    <3> HIDE DEF S, next, step
    <3>5. g[t] = step[t][g[next[t]]]
      BY <1>4, <3>4 DEF Recurs
    <3>6. QED
      BY <2>3, <3>1, <3>3, <3>5
  <2>4. QED
    BY <2>2, <2>3
<1>6. PICK h : h = (CHOOSE e : Is(e)) /\ Is(h)
  <2> HIDE DEF Is
  <2>1. QED
    BY <1>5
<1>7. SumFunction(f) = h[D]
  BY <1>6 DEF SumFunction, SumFunctionOnSet, FoldFunctionOnSet, MapThenFoldSet, Some
<1>8. \A t \in S : h[t] = IF t = {} THEN 0 ELSE f[Some(t)] + h[t \ {Some(t)}]
  BY <1>6
<1> DEFINE W == {t \in S : h[t] \in Int}
<1>9. Inherits(W, S, {{}}, next)
  <2>1. W \in SUBSET S /\ {{}} \subseteq W
    <3>1. {} \in S
      OBVIOUS
    <3>2. h[{}] = 0
      BY <1>8, <3>1
    <3>3. QED
      BY <3>1, <3>2
  <2>2. ASSUME NEW t \in S \ {{}}, next[t] \in W
        PROVE  t \in W
    <3>1. h[t] = f[Some(t)] + h[next[t]] /\ f[Some(t)] \in Int
      BY <1>1, <1>8
    <3>2. h[next[t]] \in Int
      BY <2>2
    <3>3. QED
      BY <3>1, <3>2
  <2> HIDE DEF W, S, next
  <2>3. QED
    BY <2>1, <2>2 DEF Inherits
<1>10. W = S
  <2> HIDE DEF W, S, next
  <2>1. QED
    BY <1>2, <1>9, DescentInduction
<1>11. QED
  BY <1>7, <1>10

\* The greatest of the first k places is k.
LEMMA GreatestPlace ==
  ASSUME NEW k \in Nat \ {0}
  PROVE  Max(1 .. k) = k /\ (1 .. k) \ {Max(1 .. k)} = 1 .. k - 1
<1>1. Max(1 .. k) \in 1 .. k /\ \A y \in 1 .. k : Max(1 .. k) >= y
  <2>1. 1 .. k \in SUBSET Nat /\ 1 .. k # {} /\ \A y \in 1 .. k : y <= k
    OBVIOUS
  <2>2. QED
    BY <2>1, MaxIs
<1>2. Max(1 .. k) = k
  BY <1>1
<1>3. (1 .. k) \ {k} = 1 .. k - 1
  OBVIOUS
<1>4. QED
  BY <1>2, <1>3

\* A fold of a sequence of n elements, by the community modules' definition.
Folds(g, n, base, step) ==
  \A t \in SUBSET (1 .. n) : g[t] = IF t = {} THEN base ELSE step[Max(t)][g[t \ {Max(t)}]]

LEMMA FoldExists ==
  ASSUME NEW n, NEW V, NEW base, NEW step, IsIteration(n, V, base, step)
  PROVE  \E g \in [SUBSET (1 .. n) -> V] : Folds(g, n, base, step)
<1> DEFINE D == 1 .. n
           S == SUBSET D
           c == [t \in S \ {{}} |-> Max(t)]
           next == Without(D, c)
           val == [t \in {{}} |-> base]
           move == [t \in S \ {{}} |-> step[Max(t)]]
<1>0. n \in Nat /\ base \in V /\ step \in [1 .. n -> [V -> V]]
  BY DEF IsIteration
<1>1. ASSUME NEW t \in S \ {{}}
      PROVE  Max(t) \in t /\ t \ {Max(t)} \in S /\ next[t] = t \ {Max(t)} /\ move[t] \in [V -> V]
  <2>1. t \in SUBSET Nat /\ t # {} /\ \A y \in t : y <= n
    BY <1>0
  <2>2. Max(t) \in t
    BY <1>0, <2>1, MaxIs
  <2>3. c[t] = Max(t) /\ move[t] = step[Max(t)]
    OBVIOUS
  <2> HIDE DEF c, move
  <2>4. next[t] = t \ {Max(t)}
    BY <2>3 DEF Without
  <2>5. QED
    BY <1>0, <2>2, <2>3, <2>4
<1>2. IsDescent(S, {{}}, next, Sizes(D))
  <2>1. IsFiniteSet(D)
    BY <1>0, FS_Interval
  <2>2. \A t \in S \ {{}} : c[t] = Max(t)
    OBVIOUS
  <2>3. Chooses(D, c)
    <3> HIDE DEF c
    <3>1. QED
      BY <1>1, <2>1, <2>2 DEF Chooses
  <2> HIDE DEF D, c
  <2>4. QED
    BY <2>3, SubsetDescent
<1>3. val \in [{{}} -> V] /\ move \in [S \ {{}} -> [V -> V]]
  <2>1. val \in [{{}} -> V]
    BY <1>0
  <2>2. \A t \in S \ {{}} : step[Max(t)] \in [V -> V]
    BY <1>1
  <2> HIDE DEF S
  <2>3. QED
    BY <2>1, <2>2
<1>4. PICK g \in [S -> V] : Recurs(g, S, {{}}, next, val, move)
  <2> HIDE DEF S, next, val, move
  <2>1. IsRecursion(S, {{}}, next, Sizes(D), V, val, move)
    BY <1>2, <1>3 DEF IsRecursion
  <2>2. QED
    BY <2>1, LinearRecursion
<1>5. ASSUME NEW t \in S
      PROVE  g[t] = IF t = {} THEN base ELSE step[Max(t)][g[t \ {Max(t)}]]
  <2>1. CASE t = {}
    BY <1>4, <2>1 DEF Recurs
  <2>2. CASE t # {}
    <3>1. move[t] = step[Max(t)] /\ next[t] = t \ {Max(t)} /\ t \notin {{}}
      BY <1>1, <2>2
    <3> HIDE DEF S, next, move
    <3>2. g[t] = move[t][g[next[t]]]
      BY <1>4, <3>1 DEF Recurs
    <3>3. QED
      BY <2>2, <3>1, <3>2
  <2>3. QED
    BY <2>1, <2>2
<1>6. QED
  BY <1>4, <1>5 DEF Folds

\* What a fold comes to after each of the places.
LEMMA FoldUnrolls ==
  ASSUME NEW n \in Nat, NEW f, NEW next,
         f[{}] = next[0],
         \A k \in 1 .. n : f[(1 .. k) \ {Max(1 .. k)}] = next[k - 1] => f[1 .. k] = next[k]
  PROVE  f[1 .. n] = next[n]
<1> DEFINE W == {k \in 0 .. n : f[1 .. k] = next[k]}
<1> DEFINE T == {k \in Nat : k > n \/ k \in W}
<1>1. 0 \in T
  <2>1. 1 .. 0 = {}
    OBVIOUS
  <2>2. QED
    BY <2>1
<1>2. ASSUME NEW k \in T
      PROVE  k + 1 \in T
  <2>1. CASE k >= n
    BY <2>1
  <2>2. CASE k < n
    <3>1. k + 1 \in 1 .. n /\ k + 1 \in Nat \ {0} /\ (k + 1) - 1 = k /\ k \in W
      BY <2>2
    <3>2. (1 .. k + 1) \ {Max(1 .. k + 1)} = 1 .. k
      BY <3>1, GreatestPlace
    <3>3. f[1 .. k + 1] = next[k + 1]
      BY <3>1, <3>2
    <3>4. QED
      BY <3>1, <3>3
  <2>3. QED
    BY <2>1, <2>2
<1>3. T = Nat
  <2> HIDE DEF T
  <2>1. T \in SUBSET Nat
    BY DEF T
  <2>2. QED
    BY <1>1, <1>2, <2>1, Induction
<1>4. QED
  BY <1>3

\* Induction over the stages of an iteration.
LEMMA StageInduction ==
  ASSUME NEW n \in Nat, NEW W, 0 \in W, \A k \in 1 .. n : k - 1 \in W => k \in W
  PROVE  0 .. n \subseteq W
<1> DEFINE T == {k \in Nat : k \in W \/ k > n}
<1>1. 0 \in T
  OBVIOUS
<1>2. ASSUME NEW k \in T
      PROVE  k + 1 \in T
  <2>1. k \in Nat /\ (k + 1) - 1 = k
    OBVIOUS
  <2>2. CASE k + 1 > n
    BY <2>1, <2>2
  <2>3. CASE ~(k + 1 > n)
    <3>1. k + 1 \in 1 .. n /\ k \in W
      BY <2>1, <2>3
    <3>2. QED
      BY <2>1, <3>1
  <2>4. QED
    BY <2>2, <2>3
<1>3. T = Nat
  <2> HIDE DEF T
  <2>1. T \in SUBSET Nat
    BY DEF T
  <2>2. QED
    BY <1>1, <1>2, <2>1, Induction
<1>4. SUFFICES ASSUME NEW i \in 0 .. n
               PROVE  i \in W
  OBVIOUS
<1>5. i \in T /\ i <= n /\ i \in Nat
  BY <1>3
<1>6. QED
  BY <1>5

(***************************************************************************)
(* The elements of a set in an order, each at the place given by how many  *)
(* come before it.                                                         *)
(***************************************************************************)

Orders(S, R) ==
  \A x, y, z \in S :
    /\ <<x, x>> \notin R
    /\ <<x, y>> \in R /\ <<y, z>> \in R => <<x, z>> \in R
    /\ x = y \/ <<x, y>> \in R \/ <<y, x>> \in R

LEMMA RankGrows ==
  ASSUME NEW S, IsFiniteSet(S), NEW R, Orders(S, R), NEW x \in S, NEW y \in S, <<x, y>> \in R
  PROVE  Rank(S, R, x) < Rank(S, R, y)
<1> DEFINE A == {z \in S : <<z, x>> \in R}
           B == {z \in S : <<z, y>> \in R}
<1>1. A \subseteq B /\ A # B /\ B \in SUBSET S
  <2>1. \A z \in S : <<z, x>> \in R => <<z, y>> \in R
    BY DEF Orders
  <2>2. x \in B /\ x \notin A
    BY DEF Orders
  <2>3. QED
    BY <2>1, <2>2
<1> HIDE DEF A, B
<1>2. IsFiniteSet(B)
  BY <1>1, FS_Subset
<1>3. Cardinality(A) <= Cardinality(B) /\ Cardinality(A) # Cardinality(B) /\ IsFiniteSet(A)
  BY <1>1, <1>2, FS_Subset
<1>4. Cardinality(A) \in Nat /\ Cardinality(B) \in Nat
  BY <1>2, <1>3, FS_CardinalityType
<1>5. Cardinality(A) < Cardinality(B)
  BY <1>3, <1>4
<1>6. QED
  BY <1>5 DEF A, B, Rank

LEMMA RankIsPlace ==
  ASSUME NEW S, IsFiniteSet(S), NEW R, Orders(S, R), NEW x \in S
  PROVE  Rank(S, R, x) \in 0 .. Cardinality(S) - 1
<1> DEFINE A == {z \in S : <<z, x>> \in R}
<1>1. A \in SUBSET S /\ x \notin A
  BY DEF Orders
<1> HIDE DEF A
<1>2. Cardinality(S) \in Nat /\ IsFiniteSet(A)
  BY <1>1, FS_CardinalityType, FS_Subset
<1>3. Cardinality(A) \in Nat /\ Cardinality(A) <= Cardinality(S) /\ Cardinality(A) # Cardinality(S)
  BY <1>1, <1>2, FS_CardinalityType, FS_Subset
<1>4. Cardinality(A) \in 0 .. Cardinality(S) - 1
  BY <1>2, <1>3
<1>5. QED
  BY <1>4 DEF A, Rank

\* Every element has its place, and the places follow the order.
LEMMA OrderingIs ==
  ASSUME NEW S, IsFiniteSet(S), NEW R, Orders(S, R)
  PROVE  /\ Ordering(S, R) \in [1 .. Cardinality(S) -> S]
         /\ \A x \in S : \E k \in 1 .. Cardinality(S) : Ordering(S, R)[k] = x
         /\ \A i, j \in 1 .. Cardinality(S) : i < j => <<Ordering(S, R)[i], Ordering(S, R)[j]>> \in R
         /\ \A x \in S : \A k \in 1 .. Cardinality(S) :
              Rank(S, R, x) = k - 1 <=> x = Ordering(S, R)[k]
<1> DEFINE n == Cardinality(S)
           rank == [x \in S |-> Rank(S, R, x)]
           T == 0 .. n - 1
           s == Ordering(S, R)
<1>1. n \in Nat
  BY FS_CardinalityType
<1> HIDE DEF n
<1>2. rank \in [S -> T]
  BY RankIsPlace DEF n
<1>3. \A x, y \in S : rank[x] = rank[y] => x = y
  <2>1. SUFFICES ASSUME NEW x \in S, NEW y \in S, rank[x] = rank[y], x # y
                 PROVE  FALSE
    OBVIOUS
  <2>2. <<x, y>> \in R \/ <<y, x>> \in R
    BY <2>1 DEF Orders
  <2>3. rank[x] \in T /\ rank[y] \in T
    BY <1>2
  <2>4. rank[x] < rank[y] \/ rank[y] < rank[x]
    BY <2>2, RankGrows
  <2> HIDE DEF rank
  <2>5. QED
    BY <1>1, <2>1, <2>3, <2>4
<1>4. rank \in Injection(S, T)
  BY <1>2, <1>3 DEF Injection, IsInjective
<1>5. IsFiniteSet(T) /\ Cardinality(T) = n
  <2>1. n - 1 \in Int /\ 0 \in Int
    BY <1>1
  <2>2. IsFiniteSet(T) /\ Cardinality(T) = IF 0 > n - 1 THEN 0 ELSE (n - 1) - 0 + 1
    BY <2>1, FS_Interval
  <2>3. QED
    BY <1>1, <2>2
<1>6. rank \in Surjection(S, T)
  <2> HIDE DEF rank, T
  <2>1. Cardinality(S) = Cardinality(T)
    BY <1>5 DEF n
  <2>2. QED
    BY <1>4, <1>5, <2>1, FS_Injection
<1>7. \A k \in 1 .. n : \E x \in S : rank[x] = k - 1
  <2>1. SUFFICES ASSUME NEW k \in 1 .. n
                 PROVE  \E x \in S : rank[x] = k - 1
    OBVIOUS
  <2>2. k - 1 \in T
    BY <1>1
  <2> HIDE DEF rank, T
  <2>3. QED
    BY <1>6, <2>2 DEF Surjection
<1>8. \A k \in 1 .. n : s[k] \in S /\ rank[s[k]] = k - 1
  <2>1. SUFFICES ASSUME NEW k \in 1 .. n
                 PROVE  s[k] \in S /\ rank[s[k]] = k - 1
    OBVIOUS
  <2>2. s[k] = CHOOSE x \in S : Rank(S, R, x) = k - 1
    BY DEF Ordering, n
  <2>3. \E x \in S : Rank(S, R, x) = k - 1
    BY <1>7
  <2>4. s[k] \in S /\ Rank(S, R, s[k]) = k - 1
    BY <2>2, <2>3
  <2>5. QED
    BY <2>4
<1>9. s \in [1 .. n -> S]
  BY <1>8 DEF Ordering, n
<1> HIDE DEF rank, s
<1>10. \A x \in S : \E k \in 1 .. n : s[k] = x
  <2>1. SUFFICES ASSUME NEW x \in S
                 PROVE  \E k \in 1 .. n : s[k] = x
    OBVIOUS
  <2>2. rank[x] \in T
    BY <1>2
  <2>3. rank[x] + 1 \in 1 .. n /\ (rank[x] + 1) - 1 = rank[x]
    BY <1>1, <2>2
  <2>4. s[rank[x] + 1] = x
    BY <1>3, <1>8, <2>3
  <2>5. QED
    BY <2>3, <2>4
<1>11. \A i, j \in 1 .. n : i < j => <<s[i], s[j]>> \in R
  <2>1. SUFFICES ASSUME NEW i \in 1 .. n, NEW j \in 1 .. n, i < j
                 PROVE  <<s[i], s[j]>> \in R
    OBVIOUS
  <2>2. s[i] \in S /\ s[j] \in S /\ rank[s[i]] < rank[s[j]]
    <3>1. i - 1 < j - 1
      BY <2>1
    <3>2. QED
      BY <1>8, <3>1
  <2>3. s[i] # s[j]
    <3>1. rank[s[i]] \in T
      BY <1>2, <2>2
    <3>2. QED
      BY <1>1, <2>2, <3>1
  <2>4. CASE <<s[j], s[i]>> \in R
    <3>1. rank[s[j]] < rank[s[i]]
      BY <2>2, <2>4, RankGrows DEF rank
    <3>2. rank[s[i]] \in T /\ rank[s[j]] \in T
      BY <1>2, <2>2
    <3>3. QED
      BY <1>1, <2>2, <3>1, <3>2
  <2>5. QED
    BY <2>2, <2>3, <2>4 DEF Orders
<1>12. \A x \in S : \A k \in 1 .. n : rank[x] = k - 1 <=> x = s[k]
  BY <1>3, <1>8
<1>13. \A x \in S : \A k \in 1 .. n : Rank(S, R, x) = k - 1 <=> x = s[k]
  BY <1>12 DEF rank
<1>14. QED
  BY <1>9, <1>10, <1>11, <1>13 DEF n, s

\* Ranking is a permutation of the places that puts the better one first, the
\* earlier one of equals.
LEMMA RankingIs ==
  ASSUME NEW n \in Nat, NEW scores \in [1 .. n -> Int]
  PROVE  /\ Ranking(scores) \in [1 .. n -> 1 .. n]
         /\ \A j \in 1 .. n : \E k \in 1 .. n : Ranking(scores)[k] = j
         /\ \A k, l \in 1 .. n : k < l => Ranking(scores)[k] \in PlacesAhead(scores, Ranking(scores)[l])
<1> DEFINE S == 1 .. n
           R == {p \in S \X S : p[1] \in PlacesAhead(scores, p[2])}
<1>1. DOMAIN scores = S
  OBVIOUS
<1>2. \A x, y \in S : <<x, y>> \in R <=> x \in PlacesAhead(scores, y)
  OBVIOUS
<1> HIDE DEF R
<1>3. Orders(S, R)
  <2>1. \A x, y \in S : <<x, y>> \in R <=> scores[x] > scores[y] \/ (scores[x] = scores[y] /\ x < y)
    BY <1>1, <1>2 DEF PlacesAhead
  <2>2. \A x \in S : scores[x] \in Int /\ x \in Int
    OBVIOUS
  <2>3. SUFFICES ASSUME NEW x \in S, NEW y \in S, NEW z \in S
                 PROVE  /\ <<x, x>> \notin R
                        /\ <<x, y>> \in R /\ <<y, z>> \in R => <<x, z>> \in R
                        /\ x = y \/ <<x, y>> \in R \/ <<y, x>> \in R
    BY DEF Orders
  <2> DEFINE a == scores[x]
             b == scores[y]
             c == scores[z]
  <2>4. a \in Int /\ b \in Int /\ c \in Int /\ x \in Int /\ y \in Int /\ z \in Int
    BY <2>2
  <2>5. /\ <<x, x>> \in R <=> a > a \/ (a = a /\ x < x)
        /\ <<x, y>> \in R <=> a > b \/ (a = b /\ x < y)
        /\ <<y, x>> \in R <=> b > a \/ (b = a /\ y < x)
        /\ <<y, z>> \in R <=> b > c \/ (b = c /\ y < z)
        /\ <<x, z>> \in R <=> a > c \/ (a = c /\ x < z)
    BY <2>1
  <2> HIDE DEF a, b, c, S
  <2>6. QED
    BY <2>4, <2>5
<1>4. IsFiniteSet(S) /\ Cardinality(S) = n
  <2>1. 1 \in Int /\ n \in Int
    OBVIOUS
  <2>2. IsFiniteSet(S) /\ Cardinality(S) = IF 1 > n THEN 0 ELSE n - 1 + 1
    BY <2>1, FS_Interval
  <2>3. QED
    BY <2>2
<1>5. \A x \in S : Rank(S, R, x) = Cardinality(PlacesAhead(scores, x))
  <2>1. SUFFICES ASSUME NEW x \in S
                 PROVE  Rank(S, R, x) = Cardinality(PlacesAhead(scores, x))
    OBVIOUS
  <2>2. {y \in S : <<y, x>> \in R} = PlacesAhead(scores, x)
    BY <1>1, <1>2 DEF PlacesAhead
  <2>3. QED
    BY <2>2 DEF Rank
<1> DEFINE o == Ordering(S, R)
<1> HIDE DEF S
<1>6. /\ o \in [1 .. n -> S]
      /\ \A x \in S : \E k \in 1 .. n : o[k] = x
      /\ \A i, j \in 1 .. n : i < j => <<o[i], o[j]>> \in R
      /\ \A x \in S : \A k \in 1 .. n : Rank(S, R, x) = k - 1 <=> x = o[k]
  <2> DEFINE m == Cardinality(S)
  <2>1. /\ o \in [1 .. m -> S]
        /\ \A x \in S : \E k \in 1 .. m : o[k] = x
        /\ \A i, j \in 1 .. m : i < j => <<o[i], o[j]>> \in R
        /\ \A x \in S : \A k \in 1 .. m : Rank(S, R, x) = k - 1 <=> x = o[k]
    BY <1>3, <1>4, OrderingIs
  <2>2. m = n
    BY <1>4
  <2> HIDE DEF m, o
  <2>3. QED
    BY <2>1, <2>2
<1> HIDE DEF o
<1>7. \A k \in 1 .. n : Ranking(scores)[k] = o[k]
  <2>1. SUFFICES ASSUME NEW k \in 1 .. n
                 PROVE  Ranking(scores)[k] = o[k]
    OBVIOUS
  <2>2. o[k] \in S /\ \A x \in S : Cardinality(PlacesAhead(scores, x)) = k - 1 <=> x = o[k]
    BY <1>5, <1>6
  <2>3. k \in S
    BY DEF S
  <2>4. Ranking(scores)[k] = CHOOSE x \in S : Cardinality(PlacesAhead(scores, x)) = k - 1
    BY <1>1, <2>3 DEF Ranking
  <2>5. QED
    BY <2>2, <2>4
<1>8. DOMAIN Ranking(scores) = 1 .. n /\ Ranking(scores) = [k \in 1 .. n |-> Ranking(scores)[k]]
  BY <1>1 DEF Ranking, S
<1>9. Ranking(scores) \in [1 .. n -> 1 .. n]
  <2>1. \A k \in 1 .. n : Ranking(scores)[k] \in 1 .. n
    BY <1>6, <1>7 DEF S
  <2>2. QED
    BY <1>8, <2>1
<1>10. \A k, l \in 1 .. n : k < l => Ranking(scores)[k] \in PlacesAhead(scores, Ranking(scores)[l])
  <2>1. \A k, l \in 1 .. n : k < l => o[k] \in S /\ o[l] \in S /\ <<o[k], o[l]>> \in R
    BY <1>6
  <2>2. QED
    BY <1>2, <1>7, <2>1
<1>11. QED
  BY <1>6, <1>7, <1>9, <1>10 DEF S

(***************************************************************************)
(* Sequences.                                                              *)
(***************************************************************************)

LEMMA LesserIs ==
  ASSUME NEW a \in Int, NEW b \in Int
  PROVE  Min({a, b}) = IF a <= b THEN a ELSE b
<1>1. \E x \in {a, b} : \A y \in {a, b} : x =< y
  OBVIOUS
<1>2. Min({a, b}) \in {a, b} /\ \A y \in {a, b} : Min({a, b}) =< y
  BY <1>1 DEF Min
<1>3. QED
  BY <1>2

LEMMA GreaterIs ==
  ASSUME NEW a \in Int, NEW b \in Int
  PROVE  Max({a, b}) = IF a >= b THEN a ELSE b
<1>1. \E x \in {a, b} : \A y \in {a, b} : x >= y
  OBVIOUS
<1>2. Max({a, b}) \in {a, b} /\ \A y \in {a, b} : Max({a, b}) >= y
  BY <1>1 DEF Max
<1>3. QED
  BY <1>2

LEMMA PutTogether ==
  ASSUME NEW S, NEW h \in Seq(S), NEW s \in Seq(S)
  PROVE  /\ h \o s \in Seq(S)
         /\ Len(h \o s) = Len(h) + Len(s)
         /\ \A i \in 1 .. Len(h) : (h \o s)[i] = h[i]
         /\ \A i \in 1 .. Len(s) : (h \o s)[Len(h) + i] = s[i]
OBVIOUS

LEMMA HeadAndRest ==
  ASSUME NEW S, NEW a \in Seq(S), NEW m \in 1 .. Len(a)
  PROVE  /\ Len(<<a[1]>> \o SubSeq(a, 2, m)) = m
         /\ DOMAIN (<<a[1]>> \o SubSeq(a, 2, m)) = 1 .. m
         /\ \A i \in 1 .. m : (<<a[1]>> \o SubSeq(a, 2, m))[i] = a[i]
<1> DEFINE h == <<a[1]>>
           s == SubSeq(a, 2, m)
<1>1. Len(a) \in Nat /\ m \in Nat /\ 1 <= m /\ m <= Len(a) /\ a[1] \in S
  OBVIOUS
<1>2. s \in Seq(S) /\ Len(s) = m - 1 /\ \A i \in 1 .. m - 1 : s[i] = a[i + 1]
  BY <1>1
<1>3. h \in Seq(S) /\ Len(h) = 1 /\ h[1] = a[1]
  BY <1>1
<1> HIDE DEF h, s
<1>0. /\ h \o s \in Seq(S)
      /\ Len(h \o s) = Len(h) + Len(s)
      /\ \A i \in 1 .. Len(h) : (h \o s)[i] = h[i]
      /\ \A i \in 1 .. Len(s) : (h \o s)[Len(h) + i] = s[i]
  <2>1. h \in Seq(S)
    BY <1>3
  <2>2. s \in Seq(S)
    BY <1>2
  <2>3. QED
    BY <2>1, <2>2, PutTogether
<1>4. h \o s \in Seq(S) /\ Len(h \o s) = m
  <2>1. Len(h \o s) = 1 + (m - 1)
    BY <1>0, <1>2, <1>3
  <2>2. QED
    BY <1>0, <1>1, <2>1
<1>5. \A i \in 1 .. m : (h \o s)[i] = a[i]
  <2>1. SUFFICES ASSUME NEW i \in 1 .. m
                 PROVE  (h \o s)[i] = a[i]
    OBVIOUS
  <2>2. CASE i = 1
    <3>1. 1 \in 1 .. Len(h)
      BY <1>3
    <3>2. QED
      BY <1>0, <1>3, <2>2, <3>1
  <2>3. CASE i # 1
    <3>1. i - 1 \in 1 .. m - 1 /\ (i - 1) + 1 = i
      BY <1>1, <2>3
    <3>2. (h \o s)[i] = s[i - 1]
      <4>1. i - 1 \in 1 .. Len(s) /\ Len(h) + (i - 1) = i
        BY <1>1, <1>2, <1>3, <2>3
      <4>2. (h \o s)[Len(h) + (i - 1)] = s[i - 1]
        BY <1>0, <4>1
      <4>3. QED
        BY <4>1, <4>2
    <3>3. s[i - 1] = a[(i - 1) + 1]
      BY <1>2, <3>1
    <3>4. QED
      BY <3>1, <3>2, <3>3
  <2>4. QED
    BY <2>2, <2>3
<1>6. DOMAIN (h \o s) = 1 .. m
  BY <1>4
<1>7. QED
  BY <1>4, <1>5, <1>6 DEF h, s

LEMMA FirstOnes ==
  ASSUME NEW S, NEW s \in Seq(S), NEW n \in 0 .. Len(s)
  PROVE  /\ SubSeq(s, 1, n) \in Seq(S)
         /\ Len(SubSeq(s, 1, n)) = n
         /\ \A i \in 1 .. n : SubSeq(s, 1, n)[i] = s[i]
OBVIOUS

LEMMA LastOnes ==
  ASSUME NEW S, NEW s \in Seq(S), NEW m \in 0 .. Len(s)
  PROVE  /\ SubSeq(s, m + 1, Len(s)) \in Seq(S)
         /\ Len(SubSeq(s, m + 1, Len(s))) = Len(s) - m
         /\ \A i \in 1 .. Len(s) - m : SubSeq(s, m + 1, Len(s))[i] = s[m + i]
<1>1. Len(s) \in Nat /\ m \in Nat /\ m <= Len(s)
  OBVIOUS
<1>2. SubSeq(s, m + 1, Len(s)) \in Seq(S) /\ Len(SubSeq(s, m + 1, Len(s))) = Len(s) - m
  BY <1>1
<1>3. ASSUME NEW i \in 1 .. Len(s) - m
      PROVE  SubSeq(s, m + 1, Len(s))[i] = s[m + i]
  <2>1. i \in 1 .. Len(s) - (m + 1) + 1 /\ (m + 1) + i - 1 = m + i
    BY <1>1
  <2>2. QED
    BY <1>1, <2>1
<1>4. QED
  BY <1>2, <1>3

LEMMA RowIs ==
  ASSUME NEW S, NEW n \in Nat, NEW s \in [1 .. n -> S]
  PROVE  s \in Seq(S) /\ Len(s) = n
OBVIOUS

LEMMA PrefixIs ==
  ASSUME NEW S, NEW s \in Seq(S), NEW t \in Seq(S), Len(s) <= Len(t),
         \A i \in 1 .. Len(s) : s[i] = t[i]
  PROVE  IsPrefix(s, t)
<1> DEFINE n == Len(s)
<1>1. n \in Nat /\ n \in 0 .. Len(s) /\ n \in 0 .. Len(t)
  OBVIOUS
<1> DEFINE a == SubSeq(s, 1, n)
           b == SubSeq(t, 1, n)
<1>2. /\ a \in Seq(S) /\ Len(a) = n /\ \A i \in 1 .. n : a[i] = s[i]
      /\ b \in Seq(S) /\ Len(b) = n /\ \A i \in 1 .. n : b[i] = t[i]
  <2> HIDE DEF n
  <2>1. QED
    BY <1>1, FirstOnes
<1> HIDE DEF a, b
<1>3. \A i \in 1 .. n : a[i] = b[i]
  BY <1>2
<1>4. a = b
  <2>1. a = [i \in 1 .. n |-> a[i]] /\ b = [i \in 1 .. n |-> b[i]]
    BY <1>1, <1>2
  <2> HIDE DEF n
  <2>2. QED
    BY <1>3, <2>1
<1>5. QED
  BY <1>4 DEF IsPrefix, a, b

LEMMA SeqOfMore ==
  ASSUME NEW S, NEW T, S \subseteq T, NEW s \in Seq(S)
  PROVE  s \in Seq(T)
OBVIOUS

(***************************************************************************)
(* Filters: the places that are left, in order.                            *)
(***************************************************************************)

(***************************************************************************)
(* Filtering.                                                              *)
(***************************************************************************)

\* Sets have one size when there is a way to go through one by the other.
LEMMA SameSize ==
  ASSUME NEW S, NEW T, IsFiniteSet(S), NEW f \in [S -> T],
         \A a, b \in S : f[a] = f[b] => a = b,
         \A x \in T : \E a \in S : f[a] = x
  PROVE  IsFiniteSet(T) /\ Cardinality(T) = Cardinality(S)
<1>1. f \in Bijection(S, T)
  BY DEF Bijection, Injection, Surjection, IsInjective
<1>2. ExistsBijection(S, T)
  BY <1>1 DEF ExistsBijection
<1>3. QED
  BY <1>2, FS_Bijection

LEMMA IntervalIs ==
  ASSUME NEW n \in Nat
  PROVE  IsFiniteSet(1 .. n) /\ Cardinality(1 .. n) = n
<1>1. IsFiniteSet(1 .. n) /\ Cardinality(1 .. n) = IF 1 > n THEN 0 ELSE n - 1 + 1
  BY FS_Interval
<1>2. QED
  BY <1>1

\* at gives the numbers of P in order.
Enumerates(at, P) ==
  /\ at \in [1 .. Cardinality(P) -> P]
  /\ \A p \in P : \E k \in 1 .. Cardinality(P) : at[k] = p
  /\ \A i, j \in 1 .. Cardinality(P) : i < j => at[i] < at[j]

LEMMA RisingIs ==
  ASSUME NEW P \in SUBSET Int
  PROVE  Orders(P, Rising(P))
<1>1. \A x, y \in P : <<x, y>> \in Rising(P) <=> x < y
  BY DEF Rising
<1>2. \A x \in P : x \in Int
  OBVIOUS
<1>3. SUFFICES ASSUME NEW x \in P, NEW y \in P, NEW z \in P
               PROVE  /\ <<x, x>> \notin Rising(P)
                      /\ <<x, y>> \in Rising(P) /\ <<y, z>> \in Rising(P) => <<x, z>> \in Rising(P)
                      /\ x = y \/ <<x, y>> \in Rising(P) \/ <<y, x>> \in Rising(P)
  BY DEF Orders
<1>4. x \in Int /\ y \in Int /\ z \in Int
  BY <1>2
<1>5. /\ <<x, x>> \in Rising(P) <=> x < x
      /\ <<x, y>> \in Rising(P) <=> x < y
      /\ <<y, x>> \in Rising(P) <=> y < x
      /\ <<y, z>> \in Rising(P) <=> y < z
      /\ <<x, z>> \in Rising(P) <=> x < z
  BY <1>1
<1>6. QED
  BY <1>4, <1>5

LEMMA RisingEnumerates ==
  ASSUME NEW P \in SUBSET Int, IsFiniteSet(P)
  PROVE  Enumerates(Ordering(P, Rising(P)), P)
<1> DEFINE o == Ordering(P, Rising(P))
           n == Cardinality(P)
<1>1. /\ o \in [1 .. n -> P]
      /\ \A x \in P : \E k \in 1 .. n : o[k] = x
      /\ \A i, j \in 1 .. n : i < j => <<o[i], o[j]>> \in Rising(P)
  BY RisingIs, OrderingIs
<1>2. \A x, y \in P : <<x, y>> \in Rising(P) <=> x < y
  BY DEF Rising
<1> HIDE DEF o, n
<1>3. \A i, j \in 1 .. n : i < j => o[i] < o[j]
  BY <1>1, <1>2
<1>4. QED
  BY <1>1, <1>3 DEF Enumerates, n, o

LEMMA PlacesAreFinite ==
  ASSUME NEW n \in Nat, NEW P \in SUBSET (1 .. n)
  PROVE  IsFiniteSet(P) /\ Cardinality(P) \in Nat /\ Cardinality(P) <= n
<1>1. IsFiniteSet(1 .. n) /\ Cardinality(1 .. n) = n
  BY IntervalIs
<1>2. IsFiniteSet(P) /\ Cardinality(P) <= Cardinality(1 .. n)
  BY <1>1, FS_Subset
<1>3. Cardinality(P) \in Nat
  BY <1>2, FS_CardinalityType
<1>4. QED
  BY <1>1, <1>2, <1>3

\* What is picked of a sequence: the elements at the places, in order.
LEMMA PickedIs ==
  ASSUME NEW X, NEW s \in Seq(X), NEW P \in SUBSET (DOMAIN s)
  PROVE  /\ Picked(s, P) \in Seq(X)
         /\ Len(Picked(s, P)) = Cardinality(P)
         /\ Cardinality(P) \in Nat /\ Cardinality(P) <= Len(s)
         /\ \E at : /\ Enumerates(at, P)
                    /\ \A k \in 1 .. Cardinality(P) : Picked(s, P)[k] = s[at[k]]
<1> DEFINE at == Ordering(P, Rising(P))
           n == Cardinality(P)
<1>1. Len(s) \in Nat /\ DOMAIN s = 1 .. Len(s) /\ P \in SUBSET Int
  OBVIOUS
<1>2. IsFiniteSet(P) /\ n \in Nat /\ n <= Len(s)
  BY <1>1, PlacesAreFinite
<1>3. Enumerates(at, P)
  BY <1>1, <1>2, RisingEnumerates
<1>4. Picked(s, P) = [k \in DOMAIN at |-> s[at[k]]]
  BY DEF Picked
<1> HIDE DEF at
<1>5. DOMAIN at = 1 .. n /\ \A k \in 1 .. n : at[k] \in P /\ s[at[k]] \in X
  BY <1>1, <1>3 DEF Enumerates
<1>6. Picked(s, P) \in [1 .. n -> X] /\ \A k \in 1 .. n : Picked(s, P)[k] = s[at[k]]
  BY <1>4, <1>5
<1> HIDE DEF n
<1>7. Picked(s, P) \in Seq(X) /\ Len(Picked(s, P)) = n
  BY <1>2, <1>6, RowIs
<1>8. QED
  BY <1>2, <1>3, <1>6, <1>7 DEF n

LEMMA PickedElements ==
  ASSUME NEW X, NEW s \in Seq(X), NEW P \in SUBSET (DOMAIN s)
  PROVE  /\ \A k \in DOMAIN Picked(s, P) : \E i \in P : Picked(s, P)[k] = s[i]
         /\ \A i \in P : \E k \in DOMAIN Picked(s, P) : Picked(s, P)[k] = s[i]
         /\ ToSet(Picked(s, P)) = {s[i] : i \in P}
<1> DEFINE n == Cardinality(P)
           u == Picked(s, P)
<1>1. u \in Seq(X) /\ Len(u) = n /\ n \in Nat
  BY PickedIs
<1>2. PICK at : Enumerates(at, P) /\ \A k \in 1 .. n : u[k] = s[at[k]]
  BY PickedIs
<1>3. DOMAIN u = 1 .. n
  BY <1>1
<1> HIDE DEF u, n
<1>4. \A k \in DOMAIN u : \E i \in P : u[k] = s[i]
  BY <1>2, <1>3 DEF Enumerates, n
<1>5. \A i \in P : \E k \in DOMAIN u : u[k] = s[i]
  BY <1>2, <1>3 DEF Enumerates, n
<1>6. ToSet(u) = {s[i] : i \in P}
  BY <1>4, <1>5 DEF ToSet
<1>7. QED
  BY <1>4, <1>5, <1>6 DEF u

\* There is one way to give numbers in order.
LEMMA EnumerationIsUnique ==
  ASSUME NEW P \in SUBSET Int, IsFiniteSet(P), NEW n \in Nat, NEW e \in [1 .. n -> P],
         \A p \in P : \E k \in 1 .. n : e[k] = p,
         \A i, j \in 1 .. n : i < j => e[i] < e[j]
  PROVE  n = Cardinality(P) /\ e = Ordering(P, Rising(P))
<1> DEFINE R == Rising(P)
           o == Ordering(P, R)
<1>1. \A x, y \in P : <<x, y>> \in R <=> x < y
  BY DEF Rising
<1>2. \A i, j \in 1 .. n : e[i] = e[j] => i = j
  <2>1. SUFFICES ASSUME NEW i \in 1 .. n, NEW j \in 1 .. n, e[i] = e[j], i # j
                 PROVE  FALSE
    OBVIOUS
  <2>2. i < j \/ j < i
    BY <2>1
  <2>3. e[i] < e[j] \/ e[j] < e[i]
    BY <2>2
  <2>4. e[i] \in Int
    OBVIOUS
  <2>5. QED
    BY <2>1, <2>3, <2>4
<1>3. IsFiniteSet(1 .. n) /\ Cardinality(1 .. n) = n
  BY IntervalIs
<1>5. Cardinality(P) = n
  BY <1>2, <1>3, SameSize
<1>6. ASSUME NEW k \in 1 .. n
      PROVE  Rank(P, R, e[k]) = k - 1
  <2> DEFINE B == {y \in P : <<y, e[k]>> \in R}
             d == [i \in 1 .. k - 1 |-> e[i]]
  <2>1. \A i \in 1 .. n : e[i] \in B <=> i < k
    <3>1. SUFFICES ASSUME NEW i \in 1 .. n
                   PROVE  e[i] < e[k] <=> i < k
      BY <1>1
    <3>2. e[i] \in P /\ e[k] \in P /\ i \in Int /\ k \in Int
      OBVIOUS
    <3>3. (i < k => e[i] < e[k]) /\ (k < i => e[k] < e[i]) /\ (i = k => e[i] = e[k])
      OBVIOUS
    <3>4. e[i] \in Int /\ e[k] \in Int
      BY <3>2
    <3>5. QED
      BY <3>2, <3>3, <3>4
  <2>2. \A i \in 1 .. k - 1 : i \in 1 .. n /\ d[i] = e[i] /\ i < k
    OBVIOUS
  <2>3. d \in [1 .. k - 1 -> B]
    BY <2>1, <2>2
  <2>4. \A y \in B : \E i \in 1 .. k - 1 : d[i] = y
    <3>1. SUFFICES ASSUME NEW y \in B
                   PROVE  \E i \in 1 .. k - 1 : d[i] = y
      OBVIOUS
    <3>2. PICK i \in 1 .. n : e[i] = y
      OBVIOUS
    <3>3. i \in 1 .. k - 1
      BY <2>1, <3>2
    <3>4. QED
      BY <3>2, <3>3
  <2>5. \A i, j \in 1 .. k - 1 : d[i] = d[j] => i = j
    BY <1>2, <2>2
  <2>6. IsFiniteSet(1 .. k - 1) /\ Cardinality(1 .. k - 1) = k - 1
    BY IntervalIs
  <2>7. Cardinality(B) = k - 1
    <3> HIDE DEF B, d
    <3>1. QED
      BY <2>3, <2>4, <2>5, <2>6, SameSize
  <2>8. QED
    BY <2>7 DEF Rank
<1>7. /\ o \in [1 .. n -> P]
      /\ \A x \in P : \A k \in 1 .. n : Rank(P, R, x) = k - 1 <=> x = o[k]
  <2> DEFINE m == Cardinality(P)
  <2>1. /\ o \in [1 .. m -> P]
        /\ \A x \in P : \A k \in 1 .. m : Rank(P, R, x) = k - 1 <=> x = o[k]
    BY RisingIs, OrderingIs
  <2>2. m = n
    BY <1>5
  <2> HIDE DEF m, o, R
  <2>3. QED
    BY <2>1, <2>2
<1> HIDE DEF o, R
<1>8. \A k \in 1 .. n : e[k] = o[k]
  BY <1>6, <1>7
<1>9. e = o
  BY <1>7, <1>8
<1>10. QED
  BY <1>5, <1>9 DEF o, R

\* A sequence that has the elements at the places in order is what is picked.
\* e takes the places of t to the places P of s, in order.
Takes(X, s, P, t, e) ==
  /\ s \in Seq(X) /\ P \in SUBSET (DOMAIN s) /\ t \in Seq(X) /\ e \in [1 .. Len(t) -> P]
  /\ \A p \in P : \E k \in 1 .. Len(t) : e[k] = p
  /\ \A i, j \in 1 .. Len(t) : i < j => e[i] < e[j]
  /\ \A k \in 1 .. Len(t) : t[k] = s[e[k]]

LEMMA PickedWhen ==
  ASSUME NEW X, NEW s, NEW P, NEW t, NEW e, Takes(X, s, P, t, e)
  PROVE  Picked(s, P) = t
<1>0. /\ s \in Seq(X) /\ P \in SUBSET (DOMAIN s) /\ t \in Seq(X) /\ e \in [1 .. Len(t) -> P]
      /\ \A p \in P : \E k \in 1 .. Len(t) : e[k] = p
      /\ \A i, j \in 1 .. Len(t) : i < j => e[i] < e[j]
      /\ \A k \in 1 .. Len(t) : t[k] = s[e[k]]
  BY DEF Takes
<1>1. Len(t) \in Nat /\ t = [k \in 1 .. Len(t) |-> t[k]]
  BY <1>0
<1>2. IsFiniteSet(P) /\ P \in SUBSET Int
  BY <1>0, PlacesAreFinite
<1>3. e = Ordering(P, Rising(P))
  BY <1>0, <1>1, <1>2, EnumerationIsUnique
<1>4. DOMAIN e = 1 .. Len(t)
  BY <1>0
<1>5. Picked(s, P) = [k \in 1 .. Len(t) |-> s[e[k]]]
  BY <1>3, <1>4 DEF Picked
<1>6. QED
  BY <1>0, <1>1, <1>5

LEMMA AllPicked ==
  ASSUME NEW X, NEW s \in Seq(X)
  PROVE  Picked(s, DOMAIN s) = s
<1> DEFINE e == [k \in 1 .. Len(s) |-> k]
<1>1. DOMAIN s = 1 .. Len(s) /\ Len(s) \in Nat
  OBVIOUS
<1>2. e \in [1 .. Len(s) -> DOMAIN s] /\ \A k \in 1 .. Len(s) : e[k] = k
  BY <1>1
<1> HIDE DEF e
<1>3. /\ \A p \in DOMAIN s : \E k \in 1 .. Len(s) : e[k] = p
      /\ \A i, j \in 1 .. Len(s) : i < j => e[i] < e[j]
      /\ \A k \in 1 .. Len(s) : s[k] = s[e[k]]
  BY <1>1, <1>2
<1>4. Takes(X, s, DOMAIN s, s, e)
  BY <1>2, <1>3 DEF Takes
<1>5. QED
  BY <1>4, PickedWhen

(***************************************************************************)
(* assert_readonly follows the structure of a batch, for every text: the   *)
(* recursions of ReadOnly are unrolled by the lemmas above, the            *)
(* scan for separators is cut at a token outside literals, and what each   *)
(* rewriting of a batch does to it is read off.                            *)
(***************************************************************************)

Texts == Seq(Vocabulary)

LEMMA RestIs ==
  ASSUME NEW V, NEW s \in Seq(V), NEW i \in 0 .. Len(s)
  PROVE  /\ Rest(s, i) \in Seq(V)
         /\ Len(Rest(s, i)) = Len(s) - i
         /\ \A j \in 1 .. Len(s) - i : Rest(s, i)[j] = s[i + j]
BY DEF Rest

\* The first place of a token.
First(s, k, mark) ==
  k \in DOMAIN s /\ s[k] = mark /\ \A j \in 1 .. k - 1 : s[j] # mark

LEMMA FirstIsSelected ==
  ASSUME NEW V, NEW s \in Seq(V), NEW k, NEW mark, First(s, k, mark)
  PROVE  After(s, mark) = Rest(s, k)
<1> DEFINE I == {i \in 1 .. Len(s) : s[i] = mark}
<1>1. k \in I /\ \A j \in I : k <= j
  BY DEF First
<1>2. I \in SUBSET Nat
  OBVIOUS
<1>3. SelectInSeq(s, LAMBDA token : token = mark) = IF I # {} THEN Min(I) ELSE 0
  BY DEF SelectInSeq
<1>4. k # 0 /\ k \in Nat
  BY <1>1
<1> HIDE DEF I
<1>5. Min(I) = k
  <2>1. Min(I) \in I /\ Min(I) <= k
    BY <1>1, <1>2, MinIs
  <2>2. k <= Min(I)
    BY <1>1, <2>1
  <2>3. k \in Nat /\ Min(I) \in Nat
    BY <1>1, <1>2, <2>1
  <2>4. QED
    BY <2>1, <2>2, <2>3
<1>6. QED
  BY <1>1, <1>3, <1>4, <1>5 DEF After

\* What follows a mark is shorter.
LEMMA AfterIs ==
  ASSUME NEW V, NEW s \in Seq(V), NEW mark
  PROVE  /\ After(s, mark) \in Seq(V)
         /\ Len(After(s, mark)) <= Len(s)
         /\ s # <<>> => Len(After(s, mark)) < Len(s)
<1> DEFINE I == {i \in 1 .. Len(s) : s[i] = mark}
<1>1. I \in SUBSET Nat /\ Len(s) \in Nat /\ (s # <<>> => Len(s) > 0)
  OBVIOUS
<1>2. After(s, mark) = IF I # {} THEN (IF Min(I) = 0 THEN <<>> ELSE Rest(s, Min(I))) ELSE <<>>
  BY DEF After, SelectInSeq
<1>3. CASE I = {}
  BY <1>1, <1>2, <1>3
<1>4. CASE I # {}
  <2>1. Min(I) \in 1 .. Len(s)
    <3>1. \A i \in I : i \in 1 .. Len(s)
      OBVIOUS
    <3> HIDE DEF I
    <3>2. QED
      BY <1>1, <1>4, <3>1, MinIs
  <2> HIDE DEF I
  <2>2. After(s, mark) = Rest(s, Min(I)) /\ Min(I) \in 0 .. Len(s)
    BY <1>2, <1>4, <2>1
  <2>3. QED
    BY <1>1, <2>1, <2>2, RestIs
<1>5. QED
  BY <1>3, <1>4

LEMMA TailIs ==
  ASSUME NEW V, NEW s \in Seq(V), s # <<>>
  PROVE  Tail(s) \in Seq(V) /\ Len(Tail(s)) = Len(s) - 1 /\ \A j \in 1 .. Len(s) - 1 : Tail(s)[j] = s[j + 1]
OBVIOUS

\* The number of newlines a text begins with.
Newlines(s, k) ==
  k \in DOMAIN s /\ s[k] # "newline" /\ \A j \in 1 .. k - 1 : s[j] = "newline"

LEMMA TrimmedIs ==
  ASSUME NEW V, NEW s \in Seq(V)
  PROVE  /\ Trimmed(s) \in Seq(V)
         /\ Len(Trimmed(s)) <= Len(s)
         /\ Blank(s) => Trimmed(s) = <<>>
         /\ ~Blank(s) => \E k : Newlines(s, k) /\ Trimmed(s) = Rest(s, k - 1)
<1> DEFINE I == {i \in 1 .. Len(s) : s[i] # "newline"}
<1>1. I \in SUBSET Nat /\ Len(s) \in Nat
  OBVIOUS
<1>2. Trimmed(s) = IF I # {} THEN (IF Min(I) = 0 THEN <<>> ELSE Rest(s, Min(I) - 1)) ELSE <<>>
  BY DEF Trimmed, SelectInSeq
<1>3. Blank(s) <=> I = {}
  <2>1. Blank(s) <=> \A i \in 1 .. Len(s) : s[i] \in {"newline"}
    BY DEF Blank, ToSet
  <2>2. QED
    BY <2>1
<1>4. CASE I = {}
  BY <1>1, <1>2, <1>3, <1>4
<1>5. CASE I # {}
  <2>1. Newlines(s, Min(I))
    <3>1. Min(I) \in I /\ \A j \in I : Min(I) <= j
      <4> HIDE DEF I
      <4>1. QED
        BY <1>1, <1>5, MinIs
    <3>2. \A j \in 1 .. Min(I) - 1 : j \in 1 .. Len(s) /\ j \notin I
      BY <3>1
    <3>3. QED
      BY <3>1, <3>2 DEF Newlines
  <2>2. Min(I) \in 1 .. Len(s)
    BY <2>1 DEF Newlines
  <2> HIDE DEF I
  <2>3. Trimmed(s) = Rest(s, Min(I) - 1) /\ Min(I) - 1 \in 0 .. Len(s)
    BY <1>1, <1>2, <1>5, <2>2
  <2>4. Trimmed(s) \in Seq(V) /\ Len(Trimmed(s)) = Len(s) - (Min(I) - 1)
    BY <2>3, RestIs
  <2>5. Len(Trimmed(s)) <= Len(s)
    BY <1>1, <2>2, <2>4
  <2>6. QED
    BY <1>3, <1>5, <2>1, <2>3, <2>4, <2>5
<1>6. QED
  BY <1>4, <1>5

(***************************************************************************)
(* strip_leading_noise ends, and what it leaves.                           *)
(***************************************************************************)

LEMMA LessNoiseIsLess ==
  ASSUME NEW t \in Texts, IsNoisy(t)
  PROVE  LessNoise(t) \in Texts /\ Len(LessNoise(t)) < Len(t)
<1>1. t \in Seq(Vocabulary) /\ t # <<>> /\ Len(t) \in Nat
  BY DEF Texts, IsNoisy
<1>2. Tail(t) \in Seq(Vocabulary) /\ Len(Tail(t)) = Len(t) - 1
  BY <1>1
<1>3. CASE t[1] = "newline"
  BY <1>1, <1>2, <1>3 DEF LessNoise, Texts
<1>4. CASE t[1] = "--"
  BY <1>1, <1>4, AfterIs DEF LessNoise, Texts
<1>5. CASE t[1] = "/*"
  <2>1. After(Tail(t), "*/") \in Seq(Vocabulary) /\ Len(After(Tail(t), "*/")) <= Len(Tail(t))
    BY <1>2, AfterIs
  <2>2. LessNoise(t) = After(Tail(t), "*/")
    BY <1>5 DEF LessNoise
  <2>3. Len(After(Tail(t), "*/")) \in Nat
    BY <2>1
  <2>4. QED
    BY <1>1, <1>2, <2>1, <2>2, <2>3 DEF Texts
<1>6. QED
  BY <1>3, <1>4, <1>5 DEF IsNoisy

Quiet == {t \in Texts : ~IsNoisy(t)}
NextNoise == [t \in Texts \ Quiet |-> LessNoise(t)]
Lengths == [t \in Texts |-> Len(t)]

LEMMA NoiseDescends == IsDescent(Texts, Quiet, NextNoise, Lengths)
<1>1. ASSUME NEW t \in Texts \ Quiet
      PROVE  NextNoise[t] \in Texts /\ Lengths[NextNoise[t]] < Lengths[t]
  BY LessNoiseIsLess DEF NextNoise, Quiet, Lengths
<1>2. NextNoise \in [Texts \ Quiet -> Texts]
  BY <1>1 DEF NextNoise
<1>3. Lengths \in [Texts -> Nat]
  BY DEF Lengths, Texts
<1>4. Quiet \in SUBSET Texts
  BY DEF Quiet
<1>5. QED
  BY <1>1, <1>2, <1>3, <1>4 DEF IsDescent

\* strip_leading_noise as a loop.
LEMMA StrippedLoops ==
  ASSUME NEW t \in Texts
  PROVE  /\ ~IsNoisy(t) => Stripped(t) = t
         /\ IsNoisy(t) => Stripped(t) = Stripped(LessNoise(t))
<1> DEFINE val == [s \in Quiet |-> s]
           step == [s \in Texts \ Quiet |-> [v \in Texts |-> v]]
           Body(f, s) == IF IsNoisy(s) THEN f[LessNoise(s)] ELSE s
           Is(f) == f = [s \in Texts |-> Body(f, s)]
<1>1. ASSUME NEW f, NEW s \in Texts
      PROVE  /\ ~IsNoisy(s) => Body(f, s) = s
             /\ IsNoisy(s) => Body(f, s) = f[LessNoise(s)]
  OBVIOUS
<1>2. \E f : Is(f)
  <2>1. val \in [Quiet -> Texts] /\ step \in [Texts \ Quiet -> [Texts -> Texts]]
    BY DEF Quiet
  <2>2. PICK g \in [Texts -> Texts] : Recurs(g, Texts, Quiet, NextNoise, val, step)
    <3> HIDE DEF val, step
    <3>1. IsRecursion(Texts, Quiet, NextNoise, Lengths, Texts, val, step)
      BY <2>1, NoiseDescends DEF IsRecursion
    <3>2. QED
      BY <3>1, LinearRecursion
  <2>3. ASSUME NEW s \in Texts
        PROVE  g[s] = Body(g, s)
    <3>1. CASE IsNoisy(s)
      <4>1. s \in Texts \ Quiet /\ NextNoise[s] = LessNoise(s) /\ LessNoise(s) \in Texts
        BY <3>1, LessNoiseIsLess DEF Quiet, NextNoise
      <4>2. g[s] = step[s][g[NextNoise[s]]]
        BY <2>2, <4>1 DEF Recurs
      <4>3. g[LessNoise(s)] \in Texts
        BY <4>1
      <4>4. step[s][g[LessNoise(s)]] = g[LessNoise(s)]
        BY <4>1, <4>3
      <4> HIDE DEF Body, step
      <4>5. QED
        BY <1>1, <3>1, <4>1, <4>2, <4>4
    <3>2. CASE ~IsNoisy(s)
      <4>1. s \in Quiet
        BY <3>2 DEF Quiet
      <4>2. g[s] = val[s]
        BY <2>2, <4>1 DEF Recurs
      <4>3. val[s] = s
        BY <4>1
      <4> HIDE DEF Body, val
      <4>4. QED
        BY <1>1, <3>2, <4>2, <4>3
    <3>3. QED
      BY <3>1, <3>2
  <2>4. Is(g)
    <3> HIDE DEF Body
    <3>1. QED
      BY <2>3
  <2> HIDE DEF Is
  <2>5. QED
    BY <2>4
<1>3. PICK from : from = (CHOOSE f : Is(f)) /\ Is(from)
  <2> HIDE DEF Is
  <2>1. QED
    BY <1>2
<1>4. \A s : Stripped(s) = from[s]
  BY <1>3 DEF Stripped, Texts
<1>5. from[t] = Body(from, t)
  BY <1>3
<1> HIDE DEF Body, Is
<1>6. QED
  BY <1>1, <1>4, <1>5

LEMMA StrippedIs ==
  ASSUME NEW t \in Texts
  PROVE  Stripped(t) \in Texts /\ Len(Stripped(t)) <= Len(t)
<1> DEFINE W == {s \in Texts : Stripped(s) \in Texts /\ Len(Stripped(s)) <= Len(s)}
<1>1. ASSUME NEW s \in Quiet
      PROVE  s \in W
  <2>1. s \in Texts /\ Stripped(s) = s
    BY StrippedLoops DEF Quiet
  <2>2. Len(s) \in Nat
    BY <2>1 DEF Texts
  <2>3. QED
    BY <2>1, <2>2
<1>2. ASSUME NEW s \in Texts \ Quiet, NextNoise[s] \in W
      PROVE  s \in W
  <2>1. s \in Texts /\ IsNoisy(s) /\ NextNoise[s] = LessNoise(s)
    BY DEF Quiet, NextNoise
  <2>2. LessNoise(s) \in Texts /\ Len(LessNoise(s)) < Len(s)
    BY <2>1, LessNoiseIsLess
  <2>3. Stripped(s) = Stripped(LessNoise(s))
    BY <2>1, StrippedLoops
  <2>4. Stripped(s) \in Texts /\ Len(Stripped(s)) <= Len(LessNoise(s))
    BY <1>2, <2>1, <2>3
  <2>5. Len(s) \in Nat /\ Len(LessNoise(s)) \in Nat /\ Len(Stripped(s)) \in Nat
    BY <2>1, <2>2, <2>4 DEF Texts
  <2>6. Len(Stripped(s)) <= Len(s)
    BY <2>2, <2>4, <2>5
  <2>7. QED
    BY <2>1, <2>4, <2>6
<1>3. W \in SUBSET Texts
  OBVIOUS
<1> HIDE DEF W
<1>4. Inherits(W, Texts, Quiet, NextNoise)
  BY <1>1, <1>2, <1>3 DEF Inherits
<1>5. W = Texts
  BY <1>4, NoiseDescends, DescentInduction
<1>6. QED
  BY <1>5 DEF W

(***************************************************************************)
(* skip_explain_modifiers ends, and what it leaves.                        *)
(***************************************************************************)

LEMMA WithoutModifierIsLess ==
  ASSUME NEW t \in Texts, IsModified(t)
  PROVE  WithoutModifier(t) \in Texts /\ Len(WithoutModifier(t)) < Len(t)
<1> DEFINE rest == Trimmed(Tail(t))
<1>1. t \in Seq(Vocabulary) /\ t # <<>> /\ Len(t) \in Nat
  BY DEF Texts, IsModified
<1>2. Tail(t) \in Seq(Vocabulary) /\ Len(Tail(t)) = Len(t) - 1
  BY <1>1
<1>3. rest \in Seq(Vocabulary) /\ Len(rest) <= Len(Tail(t))
  BY <1>2, TrimmedIs
<1> HIDE DEF rest
<1>4. WithoutWord(rest) \in Seq(Vocabulary) /\ Len(WithoutWord(rest)) <= Len(rest)
  <2>1. CASE rest # <<>> /\ rest[1] \in Words
    <3>1. Tail(rest) \in Seq(Vocabulary) /\ Len(Tail(rest)) = Len(rest) - 1
      BY <1>3, <2>1
    <3>2. Trimmed(Tail(rest)) \in Seq(Vocabulary) /\ Len(Trimmed(Tail(rest))) <= Len(Tail(rest))
      BY <3>1, TrimmedIs
    <3>3. WithoutWord(rest) = Trimmed(Tail(rest))
      BY <2>1 DEF WithoutWord
    <3>4. Len(rest) \in Nat /\ Len(Trimmed(Tail(rest))) \in Nat
      BY <1>3, <3>2
    <3>5. QED
      BY <3>1, <3>2, <3>3, <3>4
  <2>2. CASE ~(rest # <<>> /\ rest[1] \in Words)
    <3>1. WithoutWord(rest) = rest /\ Len(rest) \in Nat
      BY <1>3, <2>2 DEF WithoutWord
    <3>2. QED
      BY <1>3, <3>1
  <2>3. QED
    BY <2>1, <2>2
<1>5. WithoutModifier(t) \in {rest, WithoutWord(rest)}
  BY DEF WithoutModifier, rest
<1>6. Len(rest) \in Nat /\ Len(WithoutWord(rest)) \in Nat
  BY <1>3, <1>4
<1>7. Len(rest) < Len(t) /\ Len(WithoutWord(rest)) < Len(t)
  BY <1>1, <1>2, <1>3, <1>4, <1>6
<1>8. QED
  BY <1>3, <1>4, <1>5, <1>7 DEF Texts

Unmodifiable == {t \in Texts : ~IsModified(t)}
NextModifier == [t \in Texts \ Unmodifiable |-> WithoutModifier(t)]

LEMMA ModifiersDescend == IsDescent(Texts, Unmodifiable, NextModifier, Lengths)
<1>1. ASSUME NEW t \in Texts \ Unmodifiable
      PROVE  NextModifier[t] \in Texts /\ Lengths[NextModifier[t]] < Lengths[t]
  BY WithoutModifierIsLess DEF NextModifier, Unmodifiable, Lengths
<1>2. NextModifier \in [Texts \ Unmodifiable -> Texts]
  BY <1>1 DEF NextModifier
<1>3. Lengths \in [Texts -> Nat]
  BY DEF Lengths, Texts
<1>4. Unmodifiable \in SUBSET Texts
  BY DEF Unmodifiable
<1>5. QED
  BY <1>1, <1>2, <1>3, <1>4 DEF IsDescent

LEMMA SkipWordsLoops ==
  ASSUME NEW t \in Texts
  PROVE  /\ ~IsModified(t) => SkipWords(t) = t
         /\ IsModified(t) => SkipWords(t) = SkipWords(WithoutModifier(t))
<1> DEFINE val == [s \in Unmodifiable |-> s]
           step == [s \in Texts \ Unmodifiable |-> [v \in Texts |-> v]]
           Body(f, s) == IF IsModified(s) THEN f[WithoutModifier(s)] ELSE s
           Is(f) == f = [s \in Texts |-> Body(f, s)]
<1>1. ASSUME NEW f, NEW s \in Texts
      PROVE  /\ ~IsModified(s) => Body(f, s) = s
             /\ IsModified(s) => Body(f, s) = f[WithoutModifier(s)]
  OBVIOUS
<1>2. \E f : Is(f)
  <2>1. val \in [Unmodifiable -> Texts] /\ step \in [Texts \ Unmodifiable -> [Texts -> Texts]]
    BY DEF Unmodifiable
  <2>2. PICK g \in [Texts -> Texts] : Recurs(g, Texts, Unmodifiable, NextModifier, val, step)
    <3> HIDE DEF val, step
    <3>1. IsRecursion(Texts, Unmodifiable, NextModifier, Lengths, Texts, val, step)
      BY <2>1, ModifiersDescend DEF IsRecursion
    <3>2. QED
      BY <3>1, LinearRecursion
  <2>3. ASSUME NEW s \in Texts
        PROVE  g[s] = Body(g, s)
    <3>1. CASE IsModified(s)
      <4>1. s \in Texts \ Unmodifiable /\ NextModifier[s] = WithoutModifier(s) /\ WithoutModifier(s) \in Texts
        BY <3>1, WithoutModifierIsLess DEF Unmodifiable, NextModifier
      <4>2. g[s] = step[s][g[NextModifier[s]]]
        BY <2>2, <4>1 DEF Recurs
      <4>3. g[WithoutModifier(s)] \in Texts
        BY <4>1
      <4>4. step[s][g[WithoutModifier(s)]] = g[WithoutModifier(s)]
        BY <4>1, <4>3
      <4> HIDE DEF Body, step
      <4>5. QED
        BY <1>1, <3>1, <4>1, <4>2, <4>4
    <3>2. CASE ~IsModified(s)
      <4>1. s \in Unmodifiable
        BY <3>2 DEF Unmodifiable
      <4>2. g[s] = val[s]
        BY <2>2, <4>1 DEF Recurs
      <4>3. val[s] = s
        BY <4>1
      <4> HIDE DEF Body, val
      <4>4. QED
        BY <1>1, <3>2, <4>2, <4>3
    <3>3. QED
      BY <3>1, <3>2
  <2>4. Is(g)
    <3> HIDE DEF Body
    <3>1. QED
      BY <2>3
  <2> HIDE DEF Is
  <2>5. QED
    BY <2>4
<1>3. PICK from : from = (CHOOSE f : Is(f)) /\ Is(from)
  <2> HIDE DEF Is
  <2>1. QED
    BY <1>2
<1>4. \A s : SkipWords(s) = from[s]
  BY <1>3 DEF SkipWords, Texts
<1>5. from[t] = Body(from, t)
  BY <1>3
<1> HIDE DEF Body, Is
<1>6. QED
  BY <1>1, <1>4, <1>5

LEMMA SkipWordsIs ==
  ASSUME NEW t \in Texts
  PROVE  SkipWords(t) \in Texts /\ Len(SkipWords(t)) <= Len(t)
<1> DEFINE W == {s \in Texts : SkipWords(s) \in Texts /\ Len(SkipWords(s)) <= Len(s)}
<1>1. ASSUME NEW s \in Unmodifiable
      PROVE  s \in W
  <2>1. s \in Texts /\ SkipWords(s) = s
    BY SkipWordsLoops DEF Unmodifiable
  <2>2. Len(s) \in Nat
    BY <2>1 DEF Texts
  <2>3. QED
    BY <2>1, <2>2
<1>2. ASSUME NEW s \in Texts \ Unmodifiable, NextModifier[s] \in W
      PROVE  s \in W
  <2>1. s \in Texts /\ IsModified(s) /\ NextModifier[s] = WithoutModifier(s)
    BY DEF Unmodifiable, NextModifier
  <2>2. WithoutModifier(s) \in Texts /\ Len(WithoutModifier(s)) < Len(s)
    BY <2>1, WithoutModifierIsLess
  <2>3. SkipWords(s) = SkipWords(WithoutModifier(s))
    BY <2>1, SkipWordsLoops
  <2>4. SkipWords(s) \in Texts /\ Len(SkipWords(s)) <= Len(WithoutModifier(s))
    BY <1>2, <2>1, <2>3
  <2>5. Len(s) \in Nat /\ Len(WithoutModifier(s)) \in Nat /\ Len(SkipWords(s)) \in Nat
    BY <2>1, <2>2, <2>4 DEF Texts
  <2>6. Len(SkipWords(s)) <= Len(s)
    BY <2>2, <2>4, <2>5
  <2>7. QED
    BY <2>1, <2>4, <2>6
<1>3. W \in SUBSET Texts
  OBVIOUS
<1> HIDE DEF W
<1>4. Inherits(W, Texts, Unmodifiable, NextModifier)
  BY <1>1, <1>2, <1>3 DEF Inherits
<1>5. W = Texts
  BY <1>4, ModifiersDescend, DescentInduction
<1>6. QED
  BY <1>5 DEF W

LEMMA SkipListIs ==
  ASSUME NEW t \in Texts
  PROVE  SkipList(t) \in Texts /\ Len(SkipList(t)) <= Len(t)
<1>1. t \in Seq(Vocabulary) /\ Len(t) \in Nat
  BY DEF Texts
<1>2. After(t, ")") \in Seq(Vocabulary) /\ Len(After(t, ")")) <= Len(t)
  BY <1>1, AfterIs
<1>3. Trimmed(After(t, ")")) \in Seq(Vocabulary) /\ Len(Trimmed(After(t, ")"))) <= Len(After(t, ")"))
  BY <1>2, TrimmedIs
<1>4. Len(After(t, ")")) \in Nat /\ Len(Trimmed(After(t, ")"))) \in Nat
  BY <1>2, <1>3
<1>5. Len(Trimmed(After(t, ")"))) <= Len(t)
  BY <1>1, <1>2, <1>3, <1>4
<1>6. SkipList(t) \in {Trimmed(After(t, ")")), <<>>, t}
  BY DEF SkipList
<1>7. <<>> \in Seq(Vocabulary) /\ Len(<<>>) = 0
  OBVIOUS
<1>8. CASE SkipList(t) = t
  BY <1>1, <1>8 DEF Texts
<1>9. CASE SkipList(t) = <<>>
  BY <1>1, <1>7, <1>9 DEF Texts
<1>10. CASE SkipList(t) = Trimmed(After(t, ")"))
  BY <1>3, <1>5, <1>10 DEF Texts
<1>11. QED
  BY <1>6, <1>8, <1>9, <1>10

LEMMA SkipModifiersIs ==
  ASSUME NEW t \in Texts
  PROVE  SkipModifiers(t) \in Texts /\ Len(SkipModifiers(t)) <= Len(t)
<1>1. Trimmed(t) \in Texts /\ Len(Trimmed(t)) <= Len(t)
  BY TrimmedIs DEF Texts
<1>2. SkipList(Trimmed(t)) \in Texts /\ Len(SkipList(Trimmed(t))) <= Len(Trimmed(t))
  BY <1>1, SkipListIs
<1>3. SkipModifiers(t) \in Texts /\ Len(SkipModifiers(t)) <= Len(SkipList(Trimmed(t)))
  BY <1>2, SkipWordsIs DEF SkipModifiers
<1>4. /\ Len(t) \in Nat /\ Len(Trimmed(t)) \in Nat
      /\ Len(SkipList(Trimmed(t))) \in Nat /\ Len(SkipModifiers(t)) \in Nat
  BY <1>1, <1>2, <1>3 DEF Texts
<1>5. QED
  BY <1>1, <1>2, <1>3, <1>4

LEMMA InnerIsLess ==
  ASSUME NEW t \in Texts, Explains(t)
  PROVE  Stripped(Inner(t)) \in Texts /\ Len(Stripped(Inner(t))) < Len(t)
<1>1. t \in Seq(Vocabulary) /\ t # <<>>
  BY DEF Texts, Explains
<1>2. Tail(t) \in Texts /\ Len(Tail(t)) = Len(t) - 1 /\ Len(t) \in Nat
  BY <1>1 DEF Texts
<1>3. Inner(t) \in Texts /\ Len(Inner(t)) <= Len(Tail(t))
  BY <1>2, SkipModifiersIs DEF Inner
<1>4. Stripped(Inner(t)) \in Texts /\ Len(Stripped(Inner(t))) <= Len(Inner(t))
  BY <1>3, StrippedIs
<1>5. Len(Inner(t)) \in Nat /\ Len(Stripped(Inner(t))) \in Nat
  BY <1>3, <1>4 DEF Texts
<1>6. Len(Stripped(Inner(t))) <= Len(Inner(t)) /\ Len(Inner(t)) <= Len(t) - 1 /\ Len(t) \in Nat
  BY <1>2, <1>3, <1>4
<1>7. Len(Stripped(Inner(t))) < Len(t)
  BY <1>5, <1>6
<1>8. QED
  BY <1>4, <1>7

(***************************************************************************)
(* check_single ends, and what it says.                                    *)
(***************************************************************************)

Outright == {t \in Texts : ~Explains(t)}
NextInner == [t \in Texts \ Outright |-> Stripped(Inner(t))]

LEMMA InnerDescends == IsDescent(Texts, Outright, NextInner, Lengths)
<1>1. ASSUME NEW t \in Texts \ Outright
      PROVE  NextInner[t] \in Texts /\ Lengths[NextInner[t]] < Lengths[t]
  BY InnerIsLess DEF NextInner, Outright, Lengths
<1>2. NextInner \in [Texts \ Outright -> Texts]
  BY <1>1 DEF NextInner
<1>3. Lengths \in [Texts -> Nat]
  BY DEF Lengths, Texts
<1>4. Outright \in SUBSET Texts
  BY DEF Outright
<1>5. QED
  BY <1>1, <1>2, <1>3, <1>4 DEF IsDescent

\* What check_single says of a text that begins with its first token.
LEMMA ReadsRecurs ==
  \E reads :
    /\ \A t : Reads(t) <=> reads[Stripped(t)]
    /\ \A t \in Texts : Explains(t) => reads[t] = reads[Stripped(Inner(t))]
    /\ \A t \in Texts : ~Explains(t) => (reads[t] <=> t # <<>> /\ t[1] \in Readers)
<1> DEFINE says(s) == s # <<>> /\ s[1] \in Readers
           val == [s \in Outright |-> says(s)]
           step == [s \in Texts \ Outright |-> [v \in BOOLEAN |-> v]]
           Body(f, s) == IF Explains(s) THEN f[Stripped(Inner(s))] ELSE says(s)
           Is(f) == f = [s \in Texts |-> Body(f, s)]
<1>1. ASSUME NEW f, NEW s \in Texts
      PROVE  /\ ~Explains(s) => Body(f, s) = says(s)
             /\ Explains(s) => Body(f, s) = f[Stripped(Inner(s))]
  OBVIOUS
<1>2. \E f : Is(f)
  <2>1. val \in [Outright -> BOOLEAN] /\ step \in [Texts \ Outright -> [BOOLEAN -> BOOLEAN]]
    OBVIOUS
  <2>2. PICK g \in [Texts -> BOOLEAN] : Recurs(g, Texts, Outright, NextInner, val, step)
    <3> HIDE DEF val, step
    <3>1. IsRecursion(Texts, Outright, NextInner, Lengths, BOOLEAN, val, step)
      BY <2>1, InnerDescends DEF IsRecursion
    <3>2. QED
      BY <3>1, LinearRecursion
  <2>3. ASSUME NEW s \in Texts
        PROVE  g[s] = Body(g, s)
    <3>1. CASE Explains(s)
      <4>1. s \in Texts \ Outright /\ NextInner[s] = Stripped(Inner(s)) /\ Stripped(Inner(s)) \in Texts
        BY <3>1, InnerIsLess DEF Outright, NextInner
      <4>2. g[s] = step[s][g[NextInner[s]]]
        BY <2>2, <4>1 DEF Recurs
      <4>3. g[Stripped(Inner(s))] \in BOOLEAN
        BY <4>1
      <4>4. step[s][g[Stripped(Inner(s))]] = g[Stripped(Inner(s))]
        BY <4>1, <4>3
      <4> HIDE DEF Body, step
      <4>5. QED
        BY <1>1, <3>1, <4>1, <4>2, <4>4
    <3>2. CASE ~Explains(s)
      <4>1. s \in Outright
        BY <3>2 DEF Outright
      <4>2. g[s] = val[s]
        BY <2>2, <4>1 DEF Recurs
      <4>3. val[s] = says(s)
        BY <4>1
      <4> HIDE DEF Body, val, says
      <4>4. QED
        BY <1>1, <3>2, <4>2, <4>3
    <3>3. QED
      BY <3>1, <3>2
  <2>4. Is(g)
    <3> HIDE DEF Body
    <3>1. QED
      BY <2>3
  <2> HIDE DEF Is
  <2>5. QED
    BY <2>4
<1>3. PICK reads : reads = (CHOOSE f : Is(f)) /\ Is(reads)
  <2> HIDE DEF Is
  <2>1. QED
    BY <1>2
<1>4. \A t : Reads(t) <=> reads[Stripped(t)]
  BY <1>3 DEF Reads, Texts
<1>5. \A t \in Texts : reads[t] = Body(reads, t)
  BY <1>3
<1> HIDE DEF Body, Is, says
<1>6. \A t \in Texts : Explains(t) => reads[t] = reads[Stripped(Inner(t))]
  BY <1>1, <1>5
<1>7. \A t \in Texts : ~Explains(t) => reads[t] = says(t)
  BY <1>1, <1>5
<1>8. \A t \in Texts : ~Explains(t) => (reads[t] <=> t # <<>> /\ t[1] \in Readers)
  BY <1>7 DEF says
<1>9. QED
  BY <1>4, <1>6, <1>8

(***************************************************************************)
(* Literals.                                                               *)
(***************************************************************************)

Opens == Quotes \cup {""}

\* The quote that is open, token by token.
LEMMA InsideFollows ==
  ASSUME NEW text \in Texts
  PROVE  /\ Inside(text, 1) = ""
         /\ \A i \in 1 .. Len(text) : Inside(text, i + 1) = Toggled(Inside(text, i), text[i])
<1> DEFINE n == Len(text)
           step == [j \in 1 .. n |-> [q \in Opens |-> Toggled(q, text[j])]]
           Body(f, j) == IF j = 0 THEN "" ELSE Toggled(f[j - 1], text[j])
           Is(f) == f = [j \in 0 .. n |-> Body(f, j)]
<1>1. n \in Nat
  BY DEF Texts
<1>2. \A token : \A q \in Opens : Toggled(q, token) \in Opens
  BY DEF Toggled, Opens
<1>3. \E f : Is(f)
  <2>1. "" \in Opens /\ step \in [1 .. n -> [Opens -> Opens]]
    BY <1>2 DEF Opens
  <2>2. PICK g \in [0 .. n -> Opens] : g[0] = "" /\ \A i \in 1 .. n : g[i] = step[i][g[i - 1]]
    <3> DEFINE base == ""
    <3> HIDE DEF n, step, base
    <3>1. IsIteration(n, Opens, base, step)
      BY <1>1, <2>1 DEF IsIteration, base
    <3>2. \E g \in [0 .. n -> Opens] : g[0] = base /\ \A i \in 1 .. n : g[i] = step[i][g[i - 1]]
      BY <3>1, Iteration
    <3>3. QED
      BY <3>2 DEF base
  <2>3. ASSUME NEW j \in 0 .. n
        PROVE  g[j] = Body(g, j)
    <3>1. CASE j = 0
      BY <2>2, <3>1
    <3>2. CASE j # 0
      <4>1. j \in 1 .. n /\ j - 1 \in 0 .. n
        BY <1>1, <3>2
      <4>2. step[j][g[j - 1]] = Toggled(g[j - 1], text[j])
        BY <2>2, <4>1
      <4> HIDE DEF step
      <4>3. QED
        BY <2>2, <3>2, <4>1, <4>2
    <3>3. QED
      BY <3>1, <3>2
  <2>4. Is(g)
    <3> HIDE DEF Body
    <3>1. QED
      BY <2>3
  <2> HIDE DEF Is
  <2>5. QED
    BY <2>4
<1>4. PICK quote : quote = (CHOOSE f : Is(f)) /\ Is(quote)
  <2> HIDE DEF Is
  <2>1. QED
    BY <1>3
<1>5. \A i : Inside(text, i) = quote[i - 1]
  BY <1>4 DEF Inside
<1>6. \A j \in 0 .. n : quote[j] = Body(quote, j)
  BY <1>4
<1>7. Inside(text, 1) = ""
  <2>1. 1 - 1 = 0 /\ 0 \in 0 .. n
    BY <1>1
  <2>2. quote[0] = ""
    BY <1>6, <2>1
  <2>3. QED
    BY <1>5, <2>1, <2>2
<1>8. ASSUME NEW i \in 1 .. n
      PROVE  Inside(text, i + 1) = Toggled(Inside(text, i), text[i])
  <2>1. i \in 0 .. n /\ i # 0 /\ (i + 1) - 1 = i
    BY <1>1
  <2>2. Inside(text, i + 1) = quote[i] /\ Inside(text, i) = quote[i - 1]
    BY <1>5, <2>1
  <2>3. quote[i] = Toggled(quote[i - 1], text[i])
    BY <1>6, <2>1
  <2>4. QED
    BY <2>2, <2>3
<1>9. QED
  BY <1>7, <1>8

\* a stands in t after the first d tokens, where no literal is open.
Stands(a, t, d) ==
  /\ a \in Texts /\ t \in Texts /\ d \in Nat
  /\ d + Len(a) <= Len(t)
  /\ \A i \in 1 .. Len(a) : t[d + i] = a[i]
  /\ Inside(t, d + 1) = ""

LEMMA StandsIs ==
  ASSUME NEW a, NEW t, NEW d, Stands(a, t, d)
  PROVE  /\ Len(a) \in Nat /\ Len(t) \in Nat /\ d \in Nat /\ d + Len(a) <= Len(t)
         /\ DOMAIN a = 1 .. Len(a) /\ DOMAIN t = 1 .. Len(t)
<1>1. a \in Seq(Vocabulary) /\ t \in Seq(Vocabulary)
  BY DEF Stands, Texts
<1>2. d \in Nat /\ d + Len(a) <= Len(t)
  BY DEF Stands
<1>3. /\ Len(a) \in Nat /\ Len(t) \in Nat
      /\ DOMAIN a = 1 .. Len(a) /\ DOMAIN t = 1 .. Len(t)
  BY <1>1
<1>4. QED
  BY <1>2, <1>3

LEMMA InsideIsLocal ==
  ASSUME NEW a, NEW t, NEW d, Stands(a, t, d), NEW i \in 1 .. Len(a) + 1
  PROVE  Inside(t, d + i) = Inside(a, i)
<1> DEFINE W == {k \in 1 .. Len(a) + 1 : Inside(t, d + k) = Inside(a, k)}
<1>1. Len(a) \in Nat /\ Len(t) \in Nat /\ d \in Nat /\ d + Len(a) <= Len(t)
  BY StandsIs
<1>2. 1 \in W
  <2>1. Inside(a, 1) = "" /\ Inside(t, d + 1) = ""
    BY InsideFollows DEF Stands
  <2>2. 1 \in 1 .. Len(a) + 1
    BY <1>1
  <2>3. QED
    BY <2>1, <2>2
<1>3. ASSUME NEW k \in 1 .. (Len(a) + 1) - 1, k \in W
      PROVE  k + 1 \in W
  <2>1. k \in 1 .. Len(a) /\ d + k \in 1 .. Len(t) /\ d + (k + 1) = (d + k) + 1 /\ k + 1 \in 1 .. Len(a) + 1
    BY <1>1
  <2>2. Inside(a, k + 1) = Toggled(Inside(a, k), a[k])
    BY <2>1, InsideFollows DEF Stands
  <2>3. Inside(t, (d + k) + 1) = Toggled(Inside(t, d + k), t[d + k])
    BY <2>1, InsideFollows DEF Stands
  <2>4. Inside(t, d + k) = Inside(a, k)
    BY <1>3
  <2>5. t[d + k] = a[k]
    BY <2>1 DEF Stands
  <2>6. Inside(t, d + (k + 1)) = Inside(a, k + 1)
    BY <2>1, <2>2, <2>3, <2>4, <2>5
  <2>7. QED
    BY <2>1, <2>6
<1>4. 1 .. Len(a) + 1 \subseteq W
  <2> HIDE DEF W
  <2>1. Len(a) + 1 \in Nat
    BY <1>1
  <2>2. QED
    BY <1>2, <1>3, <2>1, PlaceInduction
<1>5. QED
  BY <1>4

LEMMA SeparatorsAreLocal ==
  ASSUME NEW a, NEW t, NEW d, Stands(a, t, d), NEW i \in 1 .. Len(a)
  PROVE  d + i \in Separators(t) <=> i \in Separators(a)
<1>1. i \in 1 .. Len(a) + 1 /\ d + i \in DOMAIN t /\ i \in DOMAIN a
  BY StandsIs
<1>2. t[d + i] = a[i]
  BY DEF Stands
<1>3. Inside(t, d + i) = Inside(a, i)
  BY <1>1, InsideIsLocal
<1>4. QED
  BY <1>1, <1>2, <1>3 DEF Separators

\* A text without separators is one statement.
LEMMA OneStatementIs ==
  ASSUME NEW t \in Texts, Separators(t) = {}
  PROVE  Accepts(t) <=> Blank(t) \/ Reads(t)
<1> DEFINE ends == {0, Len(t) + 1}
<1>1. Len(t) \in Nat
  BY DEF Texts
<1>2. Statements(t) = {SubSeq(t, e[1] + 1, e[2] - 1) : e \in {e \in ends \X ends : Adjacent(e[1], e[2], ends)}}
  BY DEF Statements
<1>3. \A i, j \in ends : Adjacent(i, j, ends) <=> i = 0 /\ j = Len(t) + 1
  BY <1>1 DEF Adjacent
<1>4. {e \in ends \X ends : Adjacent(e[1], e[2], ends)} = {<<0, Len(t) + 1>>}
  BY <1>3
<1>5. Statements(t) = {SubSeq(t, 1, Len(t))}
  <2>1. 0 + 1 = 1 /\ (Len(t) + 1) - 1 = Len(t)
    BY <1>1
  <2> HIDE DEF ends
  <2>2. Statements(t) = {SubSeq(t, e[1] + 1, e[2] - 1) : e \in {<<0, Len(t) + 1>>}}
    BY <1>2, <1>4
  <2>3. QED
    BY <2>1, <2>2
<1>6. SubSeq(t, 1, Len(t)) = t
  BY DEF Texts
<1>7. QED
  BY <1>5, <1>6 DEF Accepts

LEMMA ConcatIs ==
  ASSUME NEW V, NEW s \in Seq(V), NEW u \in Seq(V)
  PROVE  /\ s \o u \in Seq(V) /\ Len(s \o u) = Len(s) + Len(u)
         /\ \A i \in 1 .. Len(s) : (s \o u)[i] = s[i]
         /\ \A i \in 1 .. Len(u) : (s \o u)[Len(s) + i] = u[i]
OBVIOUS

\* A text after another that leaves no literal open.
LEMMA StandsAfter ==
  ASSUME NEW s \in Texts, NEW a \in Texts, Closed(s)
  PROVE  Stands(a, s \o a, Len(s))
<1>1. s \in Seq(Vocabulary) /\ a \in Seq(Vocabulary)
  BY DEF Texts
<1>2. /\ s \o a \in Texts /\ Len(s \o a) = Len(s) + Len(a)
      /\ \A i \in 1 .. Len(s) : (s \o a)[i] = s[i]
      /\ \A i \in 1 .. Len(a) : (s \o a)[Len(s) + i] = a[i]
  BY <1>1, ConcatIs DEF Texts
<1>3. Len(s) \in Nat /\ Len(a) \in Nat
  BY <1>1
<1>4. Stands(s, s \o a, 0)
  <2>1. Inside(s \o a, 0 + 1) = ""
    <3>1. Inside(s \o a, 1) = ""
      BY <1>2, InsideFollows
    <3>2. 0 + 1 = 1
      OBVIOUS
    <3>3. QED
      BY <3>1, <3>2
  <2>2. 0 \in Nat /\ 0 + Len(s) <= Len(s \o a) /\ \A i \in 1 .. Len(s) : 0 + i = i
    BY <1>2, <1>3
  <2>3. \A i \in 1 .. Len(s) : (s \o a)[0 + i] = s[i]
    BY <1>2, <2>2
  <2>4. QED
    BY <1>2, <2>1, <2>2, <2>3 DEF Stands
<1>5. Inside(s \o a, Len(s) + 1) = ""
  <2>1. Len(s) + 1 \in 1 .. Len(s) + 1 /\ 0 + (Len(s) + 1) = Len(s) + 1
    BY <1>3
  <2>2. Inside(s \o a, 0 + (Len(s) + 1)) = Inside(s, Len(s) + 1)
    BY <1>4, <2>1, InsideIsLocal
  <2>3. QED
    BY <2>1, <2>2 DEF Closed
<1>6. Len(s) + Len(a) <= Len(s \o a)
  BY <1>2, <1>3
<1>7. QED
  BY <1>2, <1>3, <1>5, <1>6 DEF Stands

LEMMA StandsBefore ==
  ASSUME NEW s \in Texts, NEW a \in Texts
  PROVE  Stands(s, s \o a, 0)
<1>1. s \in Seq(Vocabulary) /\ a \in Seq(Vocabulary)
  BY DEF Texts
<1>2. /\ s \o a \in Texts /\ Len(s \o a) = Len(s) + Len(a)
      /\ \A i \in 1 .. Len(s) : (s \o a)[i] = s[i]
  BY <1>1, ConcatIs DEF Texts
<1>3. Len(s) \in Nat /\ Len(a) \in Nat
  BY <1>1
<1>4. Inside(s \o a, 0 + 1) = ""
  <2>1. Inside(s \o a, 1) = ""
    BY <1>2, InsideFollows
  <2>2. 0 + 1 = 1
    OBVIOUS
  <2>3. QED
    BY <2>1, <2>2
<1>5. 0 \in Nat /\ 0 + Len(s) <= Len(s \o a) /\ \A i \in 1 .. Len(s) : 0 + i = i
  BY <1>2, <1>3
<1>6. \A i \in 1 .. Len(s) : (s \o a)[0 + i] = s[i]
  BY <1>2, <1>5
<1>7. QED
  BY <1>2, <1>4, <1>5, <1>6 DEF Stands

\* A token more, that opens and closes nothing.
LEMMA ClosedByToken ==
  ASSUME NEW s \in Texts, NEW token \in Vocabulary \ Quotes, Closed(s)
  PROVE  s \o <<token>> \in Texts /\ Closed(s \o <<token>>)
<1>1. <<token>> \in Texts /\ s \in Seq(Vocabulary) /\ Len(<<token>>) = 1 /\ <<token>>[1] = token
  BY DEF Texts
<1>2. /\ s \o <<token>> \in Texts /\ Len(s \o <<token>>) = Len(s) + 1
      /\ (s \o <<token>>)[Len(s) + 1] = token /\ Len(s) \in Nat
  BY <1>1 DEF Texts
<1>3. Inside(s \o <<token>>, Len(s) + 1) = ""
  BY <1>1, StandsAfter DEF Stands
<1>4. Inside(s \o <<token>>, (Len(s) + 1) + 1) = Toggled("", token)
  <2>1. Len(s) + 1 \in 1 .. Len(s \o <<token>>)
    BY <1>2
  <2>2. QED
    BY <1>2, <1>3, <2>1, InsideFollows
<1>5. Toggled("", token) = ""
  BY DEF Toggled
<1>6. QED
  BY <1>2, <1>4, <1>5 DEF Closed

LEMMA EmptyIsClosed == <<>> \in Texts /\ Closed(<<>>)
<1>1. <<>> \in Texts /\ Len(<<>>) = 0
  BY DEF Texts
<1>2. Inside(<<>>, 1) = ""
  BY <1>1, InsideFollows
<1>3. Len(<<>>) + 1 = 1
  BY <1>1
<1>4. QED
  BY <1>1, <1>2, <1>3 DEF Closed

(***************************************************************************)
(* Two batches with a semicolon between them.                              *)
(***************************************************************************)

Ends(t) == {0, Len(t) + 1} \cup Separators(t)

Piece(t, i, j) == SubSeq(t, i + 1, j - 1)

LEMMA StatementsAre ==
  ASSUME NEW t, NEW x
  PROVE  x \in Statements(t) <=>
           \E i, j \in Ends(t) : Adjacent(i, j, Ends(t)) /\ x = Piece(t, i, j)
<1> DEFINE E == Ends(t)
           Pairs == {e \in E \X E : Adjacent(e[1], e[2], E)}
<1>1. Statements(t) = {Piece(t, e[1], e[2]) : e \in Pairs}
  BY DEF Statements, Ends, Piece
<1>2. ASSUME NEW e \in Pairs
      PROVE  e[1] \in E /\ e[2] \in E /\ Adjacent(e[1], e[2], E)
  OBVIOUS
<1>3. ASSUME NEW i \in E, NEW j \in E, Adjacent(i, j, E)
      PROVE  <<i, j>> \in Pairs /\ <<i, j>>[1] = i /\ <<i, j>>[2] = j
  BY <1>3
<1> HIDE DEF E, Pairs
<1>4. ASSUME x \in Statements(t)
      PROVE  \E i, j \in E : Adjacent(i, j, E) /\ x = Piece(t, i, j)
  <2>1. PICK e \in Pairs : x = Piece(t, e[1], e[2])
    BY <1>1, <1>4
  <2>2. QED
    BY <1>2, <2>1
<1>5. ASSUME NEW i \in E, NEW j \in E, Adjacent(i, j, E), x = Piece(t, i, j)
      PROVE  x \in Statements(t)
  <2>1. <<i, j>> \in Pairs /\ x = Piece(t, <<i, j>>[1], <<i, j>>[2])
    BY <1>3, <1>5
  <2>2. QED
    BY <1>1, <2>1
<1>6. QED
  BY <1>4, <1>5 DEF E

LEMMA EndsAre ==
  ASSUME NEW t \in Texts
  PROVE  /\ Len(t) \in Nat /\ Ends(t) \subseteq 0 .. Len(t) + 1
         /\ 0 \in Ends(t) /\ Len(t) + 1 \in Ends(t)
         /\ \A i \in 1 .. Len(t) : i \in Ends(t) <=> i \in Separators(t)
<1>1. t \in Seq(Vocabulary)
  BY DEF Texts
<1>2. Len(t) \in Nat /\ DOMAIN t = 1 .. Len(t)
  BY <1>1
<1>3. Separators(t) \subseteq 1 .. Len(t)
  BY <1>2 DEF Separators
<1>4. QED
  BY <1>2, <1>3 DEF Ends

LEMMA PieceIsLocal ==
  ASSUME NEW a, NEW t, NEW d, Stands(a, t, d),
         NEW i \in 0 .. Len(a) + 1, NEW j \in 0 .. Len(a) + 1, i < j
  PROVE  Piece(t, d + i, d + j) = Piece(a, i, j)
<1> DEFINE p == Piece(t, d + i, d + j)
           q == Piece(a, i, j)
           n == (j - i) - 1
<1>1. Len(a) \in Nat /\ Len(t) \in Nat /\ d \in Nat /\ d + Len(a) <= Len(t)
  BY StandsIs
<1>2. a \in Seq(Vocabulary) /\ t \in Seq(Vocabulary)
  BY DEF Stands, Texts
<1>3. n \in Nat /\ (d + j) - 1 = (d + i) + n /\ j - 1 = i + n /\ i + n <= Len(a) /\ (d + i) + n <= Len(t)
      /\ d + i \in Nat /\ i \in Nat
  BY <1>1
<1>4. ASSUME NEW s \in Seq(Vocabulary), NEW k \in Nat, NEW l \in Nat, k + l <= Len(s)
      PROVE  SubSeq(s, k + 1, k + l) = [x \in 1 .. l |-> s[k + x]]
  BY <1>4
<1>5. q = [x \in 1 .. n |-> a[i + x]]
  <2>1. q = SubSeq(a, i + 1, i + n)
    BY <1>3 DEF Piece
  <2> HIDE DEF q, n
  <2>2. QED
    BY <1>2, <1>3, <1>4, <2>1
<1>6. p = [x \in 1 .. n |-> t[(d + i) + x]]
  <2>1. p = SubSeq(t, (d + i) + 1, (d + i) + n)
    BY <1>3 DEF Piece
  <2> HIDE DEF p, n
  <2>2. QED
    BY <1>2, <1>3, <1>4, <2>1
<1>7. ASSUME NEW x \in 1 .. n
      PROVE  t[(d + i) + x] = a[i + x]
  <2>1. i + x \in 1 .. Len(a) /\ (d + i) + x = d + (i + x)
    BY <1>1, <1>3
  <2>2. t[d + (i + x)] = a[i + x]
    BY <2>1 DEF Stands
  <2>3. QED
    BY <2>1, <2>2
<1> HIDE DEF p, q, n
<1>8. p = q
  BY <1>5, <1>6, <1>7
<1>9. QED
  BY <1>8 DEF p, q

LEMMA TokenAfter ==
  ASSUME NEW s \in Texts, NEW token \in Vocabulary
  PROVE  /\ Len(s \o <<token>>) = Len(s) + 1
         /\ \A i \in 1 .. Len(s) : (s \o <<token>>)[i] = s[i]
         /\ (s \o <<token>>)[Len(s) + 1] = token
BY DEF Texts

LEMMA BatchIsSplit ==
  ASSUME NEW a \in Texts, NEW b \in Texts, Closed(a)
  PROVE  \A x : x \in Statements((a \o <<";">>) \o b) <=> x \in Statements(a) \/ x \in Statements(b)
<1> DEFINE s == a \o <<";">>
           t == s \o b
           m == Len(a) + 1
           A == Ends(a)
           B == Ends(b)
           T == Ends(t)
<1>1. ";" \in Vocabulary \ Quotes
  BY DEF Vocabulary, Marks, Breaks, Quotes
<1>2. s \in Texts /\ Closed(s)
  BY <1>1, ClosedByToken
<1>3. Len(a) \in Nat /\ Len(b) \in Nat
  BY DEF Texts
<1>4. /\ Len(s) = m
      /\ \A i \in 1 .. Len(a) : s[i] = a[i]
      /\ s[m] = ";"
  <2>1. ";" \in Vocabulary
    BY <1>1
  <2>2. QED
    BY <2>1, TokenAfter
<1>5. m \in Nat /\ m = Len(a) + 1 /\ Len(a) \in Nat /\ Len(b) \in Nat
  <2>1. Len(a) + 1 \in Nat
    BY <1>3
  <2>2. QED
    BY <1>3, <2>1
<1>6. Stands(b, t, m)
  <2> HIDE DEF s, m
  <2>1. QED
    BY <1>2, <1>4, StandsAfter
<1>7. /\ t \in Texts /\ Len(t) = m + Len(b)
      /\ \A i \in 1 .. m : t[i] = s[i]
  <2> HIDE DEF s, m
  <2>1. QED
    BY <1>2, <1>4, ConcatIs DEF Texts
<1>8. Stands(a, t, 0)
  <2> HIDE DEF s, m, t
  <2>1. \A i \in 1 .. Len(a) : i \in 1 .. m /\ 0 + i = i
    BY <1>5
  <2>2. \A i \in 1 .. Len(a) : t[0 + i] = a[i]
    BY <1>4, <1>7, <2>1
  <2>3. 0 \in Nat /\ 0 + Len(a) <= Len(t) /\ 0 + 1 = 1
    BY <1>5, <1>7
  <2>4. Inside(t, 1) = ""
    BY <1>7, InsideFollows
  <2>5. QED
    BY <1>7, <2>2, <2>3, <2>4 DEF Stands
<1>9. m \in Separators(t)
  <2> HIDE DEF s, t
  <2>1. Len(a) + 1 \in 1 .. Len(a) + 1 /\ 0 + (Len(a) + 1) = m
    BY <1>5
  <2>2. Inside(t, 0 + (Len(a) + 1)) = Inside(a, Len(a) + 1)
    BY <1>8, <2>1, InsideIsLocal
  <2>3. Inside(t, m) = ""
    BY <2>1, <2>2 DEF Closed
  <2>4. m \in 1 .. Len(t) /\ m \in 1 .. m
    BY <1>5, <1>7
  <2>5. DOMAIN t = 1 .. Len(t)
    BY <1>7 DEF Texts
  <2>6. t[m] = ";"
    BY <1>4, <1>7, <2>4
  <2> HIDE DEF m
  <2>7. QED
    BY <2>3, <2>4, <2>5, <2>6 DEF Separators
<1> HIDE DEF s, t
<1>10. /\ A \subseteq 0 .. m /\ 0 \in A /\ m \in A
       /\ \A i \in 1 .. Len(a) : i \in A <=> i \in Separators(a)
  BY EndsAre
<1>11. /\ B \subseteq 0 .. Len(b) + 1 /\ 0 \in B /\ Len(b) + 1 \in B
       /\ \A i \in 1 .. Len(b) : i \in B <=> i \in Separators(b)
  BY EndsAre
<1>12. /\ T \subseteq 0 .. Len(t) + 1 /\ 0 \in T /\ Len(t) + 1 \in T
       /\ \A i \in 1 .. Len(t) : i \in T <=> i \in Separators(t)
  BY <1>7, EndsAre
<1>13. ASSUME NEW i \in 0 .. m
       PROVE  i \in T <=> i \in A
  <2>1. CASE i = 0
    BY <1>10, <1>12, <2>1
  <2>2. CASE i = m
    <3>1. m \in 1 .. Len(t)
      BY <1>5, <1>7
    <3>2. QED
      BY <1>9, <1>10, <1>12, <2>2, <3>1
  <2>3. CASE i \in 1 .. Len(a)
    <3>1. i \in 1 .. Len(t) /\ 0 + i = i
      BY <1>5, <1>7, <2>3
    <3>2. 0 + i \in Separators(t) <=> i \in Separators(a)
      BY <1>8, <2>3, SeparatorsAreLocal
    <3> HIDE DEF m, A, T
    <3>3. QED
      BY <1>10, <1>12, <2>3, <3>1, <3>2
  <2>4. QED
    BY <1>5, <2>1, <2>2, <2>3
<1>14. ASSUME NEW i \in 0 .. Len(b) + 1
       PROVE  m + i \in T <=> i \in B
  <2>1. CASE i = 0
    <3>1. m + i = m /\ m \in 1 .. Len(t)
      BY <1>5, <1>7, <2>1
    <3>2. QED
      BY <1>9, <1>11, <1>12, <2>1, <3>1
  <2>2. CASE i = Len(b) + 1
    <3>1. m + i = Len(t) + 1
      BY <1>5, <1>7, <2>2
    <3>2. QED
      BY <1>11, <1>12, <2>2, <3>1
  <2>3. CASE i \in 1 .. Len(b)
    <3>1. m + i \in 1 .. Len(t)
      BY <1>5, <1>7, <2>3
    <3>2. m + i \in Separators(t) <=> i \in Separators(b)
      BY <1>6, <2>3, SeparatorsAreLocal
    <3> HIDE DEF m, B, T
    <3>3. QED
      BY <1>11, <1>12, <2>3, <3>1, <3>2
  <2>4. QED
    BY <1>5, <2>1, <2>2, <2>3
<1> HIDE DEF m, A, B, T
<1>15. ASSUME NEW i \in A, NEW j \in A
       PROVE  i \in T /\ j \in T /\ (Adjacent(i, j, T) <=> Adjacent(i, j, A))
  <2>1. i \in 0 .. m /\ j \in 0 .. m
    BY <1>10
  <2>2. \A k \in A : k \in T
    BY <1>10, <1>13
  <2>3. \A k \in T : k \in A \/ j <= k
    <3>1. SUFFICES ASSUME NEW k \in T, ~(j <= k)
                   PROVE  k \in A
      OBVIOUS
    <3>2. k \in 0 .. Len(t) + 1
      BY <1>12
    <3>3. k \in 0 .. m
      BY <1>5, <1>7, <2>1, <3>1, <3>2
    <3>4. QED
      BY <1>13, <3>3
  <2>4. QED
    BY <2>2, <2>3 DEF Adjacent
<1>16. ASSUME NEW i \in B, NEW j \in B
       PROVE  m + i \in T /\ m + j \in T /\ (Adjacent(m + i, m + j, T) <=> Adjacent(i, j, B))
  <2>1. i \in 0 .. Len(b) + 1 /\ j \in 0 .. Len(b) + 1
    BY <1>11
  <2>2. m + i \in T /\ m + j \in T
    BY <1>14, <2>1
  <2>3. m + i < m + j <=> i < j
    BY <1>5, <2>1
  <2>4. ASSUME Adjacent(m + i, m + j, T)
        PROVE  Adjacent(i, j, B)
    <3>1. SUFFICES ASSUME NEW k \in B
                   PROVE  k <= i \/ j <= k
      BY <2>3, <2>4 DEF Adjacent
    <3>2. k \in 0 .. Len(b) + 1
      BY <1>11
    <3>3. m + k \in T
      BY <1>14, <3>2
    <3>4. m + k <= m + i \/ m + j <= m + k
      BY <2>4, <3>3 DEF Adjacent
    <3>5. QED
      BY <1>5, <2>1, <3>2, <3>4
  <2>5. ASSUME Adjacent(i, j, B)
        PROVE  Adjacent(m + i, m + j, T)
    <3>1. SUFFICES ASSUME NEW k \in T
                   PROVE  k <= m + i \/ m + j <= k
      BY <2>3, <2>5 DEF Adjacent
    <3>2. k \in 0 .. Len(t) + 1
      BY <1>12
    <3>3. CASE k < m
      BY <1>5, <1>7, <2>1, <3>2, <3>3
    <3>4. CASE k >= m
      <4>1. k - m \in 0 .. Len(b) + 1 /\ m + (k - m) = k
        BY <1>5, <1>7, <3>2, <3>4
      <4>2. k - m \in B
        BY <1>14, <4>1
      <4>3. k - m <= i \/ j <= k - m
        BY <2>5, <4>2 DEF Adjacent
      <4>4. QED
        BY <1>5, <1>7, <2>1, <3>2, <4>3
    <3>5. QED
      BY <1>5, <1>7, <3>2, <3>3, <3>4
  <2>6. QED
    BY <2>2, <2>4, <2>5
<1>17. SUFFICES ASSUME NEW x
                PROVE  x \in Statements(t) <=> x \in Statements(a) \/ x \in Statements(b)
  BY DEF s, t
<1>18. ASSUME x \in Statements(a)
       PROVE  x \in Statements(t)
  <2>1. PICK i \in A, j \in A : Adjacent(i, j, A) /\ x = Piece(a, i, j)
    BY <1>18, StatementsAre DEF A
  <2>2. i \in 0 .. Len(a) + 1 /\ j \in 0 .. Len(a) + 1 /\ i < j
    BY <1>5, <1>10, <2>1 DEF Adjacent
  <2>3. 0 + i = i /\ 0 + j = j
    BY <2>2
  <2>4. Piece(t, 0 + i, 0 + j) = Piece(a, i, j)
    BY <1>8, <2>2, PieceIsLocal
  <2>5. x = Piece(t, i, j) /\ i \in T /\ j \in T /\ Adjacent(i, j, T)
    BY <1>15, <2>1, <2>3, <2>4
  <2>6. QED
    BY <2>5, StatementsAre DEF T
<1>19. ASSUME x \in Statements(b)
       PROVE  x \in Statements(t)
  <2>1. PICK i \in B, j \in B : Adjacent(i, j, B) /\ x = Piece(b, i, j)
    BY <1>19, StatementsAre DEF B
  <2>2. i \in 0 .. Len(b) + 1 /\ j \in 0 .. Len(b) + 1 /\ i < j
    BY <1>11, <2>1 DEF Adjacent
  <2>3. Piece(t, m + i, m + j) = Piece(b, i, j)
    BY <1>6, <2>2, PieceIsLocal
  <2>4. x = Piece(t, m + i, m + j) /\ m + i \in T /\ m + j \in T /\ Adjacent(m + i, m + j, T)
    BY <1>16, <2>1, <2>3
  <2>5. QED
    BY <2>4, StatementsAre DEF T
<1>20. ASSUME x \in Statements(t)
       PROVE  x \in Statements(a) \/ x \in Statements(b)
  <2>1. PICK i \in T, j \in T : Adjacent(i, j, T) /\ x = Piece(t, i, j)
    BY <1>20, StatementsAre DEF T
  <2>2. i \in 0 .. Len(t) + 1 /\ j \in 0 .. Len(t) + 1 /\ i < j
    BY <1>12, <2>1 DEF Adjacent
  <2>3. m \in T
    <3>1. m \in 1 .. Len(t)
      BY <1>5, <1>7
    <3>2. QED
      BY <1>9, <1>12, <3>1
  <2>4. m <= i \/ j <= m
    BY <2>1, <2>3 DEF Adjacent
  <2>5. CASE j <= m
    <3>1. i \in 0 .. m /\ j \in 0 .. m
      BY <1>5, <1>7, <2>2, <2>5
    <3>2. i \in A /\ j \in A
      BY <1>13, <2>1, <3>1
    <3>3. Adjacent(i, j, A)
      BY <1>15, <2>1, <3>2
    <3>4. i \in 0 .. Len(a) + 1 /\ j \in 0 .. Len(a) + 1 /\ 0 + i = i /\ 0 + j = j
      BY <1>5, <3>1
    <3>5. Piece(t, 0 + i, 0 + j) = Piece(a, i, j)
      BY <1>8, <2>2, <3>4, PieceIsLocal
    <3>6. x = Piece(a, i, j)
      BY <2>1, <3>4, <3>5
    <3>7. QED
      BY <3>2, <3>3, <3>6, StatementsAre DEF A
  <2>6. CASE m <= i
    <3>1. PICK k \in 0 .. Len(b) + 1, l \in 0 .. Len(b) + 1 : i = m + k /\ j = m + l
      <4>1. i - m \in 0 .. Len(b) + 1 /\ j - m \in 0 .. Len(b) + 1 /\ i = m + (i - m) /\ j = m + (j - m)
        BY <1>5, <1>7, <2>2, <2>6
      <4>2. QED
        BY <4>1
    <3>2. k \in B /\ l \in B
      BY <1>14, <2>1, <3>1
    <3>3. Adjacent(k, l, B)
      BY <1>16, <2>1, <3>1, <3>2
    <3>4. k < l
      BY <3>3 DEF Adjacent
    <3>5. Piece(t, m + k, m + l) = Piece(b, k, l)
      BY <1>6, <3>4, PieceIsLocal
    <3>6. x = Piece(b, k, l)
      BY <2>1, <3>1, <3>5
    <3>7. QED
      BY <3>2, <3>3, <3>6, StatementsAre DEF B
  <2>7. QED
    BY <2>4, <2>5, <2>6
<1>21. QED
  BY <1>18, <1>19, <1>20

(***************************************************************************)
(* One statement and what may be put in front of it.                       *)
(***************************************************************************)

LEMMA TextIs ==
  ASSUME NEW t \in Texts
  PROVE  t \in Seq(Vocabulary) /\ Len(t) \in Nat /\ DOMAIN t = 1 .. Len(t)
<1>1. t \in Seq(Vocabulary)
  BY DEF Texts
<1>2. QED
  BY <1>1

LEMMA BlankIs ==
  ASSUME NEW t \in Texts
  PROVE  Blank(t) <=> \A i \in 1 .. Len(t) : t[i] = "newline"
<1>1. DOMAIN t = 1 .. Len(t)
  BY DEF Texts
<1>2. Blank(t) <=> \A i \in 1 .. Len(t) : t[i] \in {"newline"}
  BY <1>1 DEF Blank, ToSet
<1>3. QED
  BY <1>2

LEMMA LacksIs ==
  ASSUME NEW t \in Texts, NEW tokens
  PROVE  Lacks(t, tokens) <=> \A i \in 1 .. Len(t) : t[i] \notin tokens
<1>1. DOMAIN t = 1 .. Len(t)
  BY DEF Texts
<1>2. QED
  BY <1>1 DEF Lacks, ToSet

\* Without quotes and semicolons nothing is opened or separated.
LEMMA PlainIsClosed ==
  ASSUME NEW t \in Texts, Lacks(t, Breaks)
  PROVE  Closed(t) /\ Separators(t) = {}
<1> DEFINE n == Len(t)
<1> HIDE DEF n
<1> DEFINE W == {k \in 1 .. n + 1 : Inside(t, k) = ""}
<1>1. n \in Nat
  BY TextIs DEF n
<1>2. \A i \in 1 .. n : t[i] \notin Breaks
  BY LacksIs DEF n
<1>3. 1 \in W
  <2>1. 1 \in 1 .. n + 1
    BY <1>1
  <2>2. QED
    BY <2>1, InsideFollows DEF n
<1>4. ASSUME NEW k \in 1 .. (n + 1) - 1, k \in W
      PROVE  k + 1 \in W
  <2>1. k \in 1 .. n /\ k + 1 \in 1 .. n + 1
    BY <1>1
  <2>2. Inside(t, k + 1) = Toggled(Inside(t, k), t[k])
    BY <2>1, InsideFollows DEF n
  <2>3. Inside(t, k) = "" /\ t[k] \notin Quotes
    BY <1>2, <1>4, <2>1 DEF Breaks
  <2>4. Toggled("", t[k]) = ""
    BY <2>3 DEF Toggled
  <2>5. QED
    BY <2>1, <2>2, <2>3, <2>4
<1>5. 1 .. n + 1 \subseteq W
  <2> HIDE DEF W
  <2>1. n + 1 \in Nat
    BY <1>1
  <2>2. QED
    BY <1>3, <1>4, <2>1, PlaceInduction
<1>6. Closed(t)
  <2>1. n + 1 \in 1 .. n + 1
    BY <1>1
  <2>2. QED
    BY <1>5, <2>1 DEF Closed, n
<1>7. Separators(t) = {}
  BY <1>2, TextIs DEF Separators, n, Breaks
<1>8. QED
  BY <1>6, <1>7

\* What is separated in a text after another.
LEMMA NoneSeparated ==
  ASSUME NEW s \in Texts, NEW a \in Texts, Closed(s), Separators(s) = {}, Separators(a) = {}
  PROVE  Separators(s \o a) = {}
<1> DEFINE t == s \o a
<1>1. s \in Seq(Vocabulary) /\ a \in Seq(Vocabulary)
  BY DEF Texts
<1>2. t \in Seq(Vocabulary) /\ Len(t) = Len(s) + Len(a)
  BY <1>1, ConcatIs
<1>3. Len(s) \in Nat /\ Len(a) \in Nat /\ DOMAIN t = 1 .. Len(t)
  BY <1>1, <1>2
<1>4. Stands(s, t, 0) /\ Stands(a, t, Len(s))
  BY StandsBefore, StandsAfter
<1> HIDE DEF t
<1>5. ASSUME NEW i \in 1 .. Len(t)
      PROVE  i \notin Separators(t)
  <2>1. CASE i <= Len(s)
    <3>1. i \in 1 .. Len(s) /\ 0 + i = i
      BY <1>3, <2>1
    <3>2. 0 + i \in Separators(t) <=> i \in Separators(s)
      BY <1>4, <3>1, SeparatorsAreLocal
    <3>3. QED
      BY <3>1, <3>2
  <2>2. CASE i > Len(s)
    <3>1. i - Len(s) \in 1 .. Len(a) /\ Len(s) + (i - Len(s)) = i
      BY <1>2, <1>3, <2>2
    <3>2. Len(s) + (i - Len(s)) \in Separators(t) <=> i - Len(s) \in Separators(a)
      BY <1>4, <3>1, SeparatorsAreLocal
    <3>3. QED
      BY <3>1, <3>2
  <2>3. QED
    BY <1>2, <1>3, <2>1, <2>2
<1>6. Separators(t) \subseteq 1 .. Len(t)
  BY <1>3 DEF Separators
<1>7. Separators(t) = {}
  BY <1>5, <1>6
<1>8. QED
  BY <1>7 DEF t

LEMMA PrefixedIsOne ==
  ASSUME NEW s \in Texts, NEW a \in Texts, Lacks(s, Breaks), OneStatement(a)
  PROVE  Accepts(s \o a) <=> Reads(s \o a)
<1>1. Closed(s) /\ Separators(s) = {} /\ Separators(a) = {} /\ ~Blank(a)
  BY PlainIsClosed DEF OneStatement
<1>2. Separators(s \o a) = {}
  BY <1>1, NoneSeparated
<1>3. /\ s \o a \in Texts
      /\ \A i \in 1 .. Len(a) : (s \o a)[Len(s) + i] = a[i]
      /\ Len(s \o a) = Len(s) + Len(a)
  <2>1. s \in Seq(Vocabulary) /\ a \in Seq(Vocabulary)
    BY DEF Texts
  <2>2. /\ s \o a \in Seq(Vocabulary)
        /\ \A i \in 1 .. Len(a) : (s \o a)[Len(s) + i] = a[i]
        /\ Len(s \o a) = Len(s) + Len(a)
    BY <2>1, ConcatIs
  <2>3. QED
    BY <2>2 DEF Texts
<1>4. PICK i \in 1 .. Len(a) : a[i] # "newline"
  BY <1>1, BlankIs
<1>5. Len(s) \in Nat /\ Len(a) \in Nat
  BY TextIs
<1>6. Len(s) + i \in 1 .. Len(s \o a) /\ (s \o a)[Len(s) + i] # "newline"
  <2>1. \A m, n \in Nat : \A j \in 1 .. n : m + j \in 1 .. m + n
    OBVIOUS
  <2>2. Len(s) + i \in 1 .. Len(s) + Len(a)
    BY <1>5, <2>1
  <2>3. QED
    BY <1>3, <1>4, <2>2
<1>7. ~Blank(s \o a)
  BY <1>3, <1>6, BlankIs
<1>8. QED
  BY <1>2, <1>3, <1>7, OneStatementIs

LEMMA OneIsAccepted ==
  ASSUME NEW a \in Texts, OneStatement(a)
  PROVE  Accepts(a) <=> Reads(a)
BY OneStatementIs DEF OneStatement

(***************************************************************************)
(* Comments.                                                               *)
(***************************************************************************)

LEMMA NoiseIsNotRead ==
  ASSUME NEW t \in Texts, IsNoisy(t)
  PROVE  Reads(t) <=> Reads(LessNoise(t))
<1>1. Stripped(t) = Stripped(LessNoise(t))
  BY StrippedLoops
<1>2. QED
  BY <1>1, ReadsRecurs

LEMMA RestOfConcat ==
  ASSUME NEW s \in Texts, NEW a \in Texts
  PROVE  Rest(s \o a, Len(s)) = a
<1>1. s \in Seq(Vocabulary) /\ a \in Seq(Vocabulary)
  BY DEF Texts
<1>2. /\ s \o a \in Seq(Vocabulary) /\ Len(s \o a) = Len(s) + Len(a)
      /\ \A i \in 1 .. Len(a) : (s \o a)[Len(s) + i] = a[i]
  BY <1>1, ConcatIs
<1>3. Len(s) \in Nat /\ Len(a) \in Nat /\ Len(s) \in 0 .. Len(s \o a)
  BY <1>1, <1>2
<1> DEFINE t == s \o a
<1> HIDE DEF t
<1>4. /\ Rest(t, Len(s)) \in Seq(Vocabulary)
      /\ Len(Rest(t, Len(s))) = Len(t) - Len(s)
      /\ \A j \in 1 .. Len(t) - Len(s) : Rest(t, Len(s))[j] = t[Len(s) + j]
  BY <1>2, <1>3, RestIs DEF t
<1>5. Len(t) - Len(s) = Len(a)
  BY <1>2, <1>3 DEF t
<1>6. Len(Rest(t, Len(s))) = Len(a) /\ \A j \in 1 .. Len(a) : Rest(t, Len(s))[j] = a[j]
  BY <1>2, <1>4, <1>5 DEF t
<1>7. Rest(t, Len(s)) = a
  <2> DEFINE r == Rest(t, Len(s))
  <2>1. r \in Seq(Vocabulary) /\ Len(r) = Len(a) /\ \A j \in 1 .. Len(a) : r[j] = a[j]
    BY <1>4, <1>6
  <2> HIDE DEF r
  <2>2. r = a
    BY <1>1, <2>1
  <2>3. QED
    BY <2>2 DEF r
<1>8. QED
  BY <1>7 DEF t

LEMMA ConcatInText ==
  ASSUME NEW s \in Texts, NEW u \in Texts
  PROVE  /\ s \o u \in Texts /\ Len(s \o u) = Len(s) + Len(u)
         /\ \A i \in 1 .. Len(s) : (s \o u)[i] = s[i]
         /\ \A i \in 1 .. Len(u) : (s \o u)[Len(s) + i] = u[i]
<1>1. s \in Seq(Vocabulary) /\ u \in Seq(Vocabulary)
  BY TextIs
<1>2. /\ s \o u \in Seq(Vocabulary) /\ Len(s \o u) = Len(s) + Len(u)
      /\ \A i \in 1 .. Len(s) : (s \o u)[i] = s[i]
      /\ \A i \in 1 .. Len(u) : (s \o u)[Len(s) + i] = u[i]
  BY <1>1, ConcatIs
<1>3. QED
  BY <1>2 DEF Texts

LEMMA TokenInText ==
  ASSUME NEW token \in Vocabulary
  PROVE  <<token>> \in Texts /\ Len(<<token>>) = 1 /\ <<token>>[1] = token
BY DEF Texts

LEMMA MarksAreTokens ==
  /\ Marks \subseteq Vocabulary
  /\ \A m \in {"--", "newline", "/*", "*/", "(", ")", "'", ";"} : m \in Marks
  /\ \A w \in {"SELECT", "EXPLAIN", "ANALYZE", "FORMAT", "DELETE", "json"} : w \in Words /\ w \in Vocabulary
<1>1. Marks \subseteq Vocabulary
  BY DEF Vocabulary
<1>2. \A m \in {"--", "newline", "/*", "*/", "(", ")", "'", ";"} : m \in Marks
  BY DEF Marks, Breaks, Quotes
<1>3. \A w \in {"SELECT", "EXPLAIN", "ANALYZE", "FORMAT", "DELETE", "json"} : w \in Words
  BY VocabularyAssumption DEF Readers, Modifiers
<1>4. QED
  BY <1>1, <1>2, <1>3 DEF Vocabulary

\* Where a token comes first in a text that goes on after it.
LEMMA FirstOfConcat ==
  ASSUME NEW b \in Texts, NEW mark \in Vocabulary, NEW a \in Texts, Lacks(b, {mark})
  PROVE  /\ First((b \o <<mark>>) \o a, Len(b) + 1, mark)
         /\ Rest((b \o <<mark>>) \o a, Len(b) + 1) = a
<1> DEFINE s == b \o <<mark>>
           t == s \o a
<1>1. <<mark>> \in Texts /\ Len(<<mark>>) = 1
  BY TokenInText
<1>2. s \in Texts
  BY <1>1, ConcatInText
<1>3. Len(s) = Len(b) + 1 /\ s[Len(b) + 1] = mark /\ \A i \in 1 .. Len(b) : s[i] = b[i]
  BY TokenAfter
<1> HIDE DEF s
<1>4. t \in Texts /\ Len(t) = Len(s) + Len(a) /\ \A i \in 1 .. Len(s) : t[i] = s[i]
  BY <1>2, ConcatInText
<1>5. Rest(t, Len(s)) = a
  BY <1>2, RestOfConcat
<1> DEFINE n == Len(b)
<1> HIDE DEF t, n
<1>6. n \in Nat /\ Len(a) \in Nat /\ DOMAIN t = 1 .. Len(t)
  BY <1>4, TextIs DEF n
<1>7. n + 1 \in DOMAIN t /\ t[n + 1] = mark
  <2>1. Len(s) = n + 1 /\ Len(t) = (n + 1) + Len(a) /\ s[n + 1] = mark
    BY <1>3, <1>4 DEF n
  <2>2. n + 1 \in 1 .. Len(t) /\ n + 1 \in 1 .. Len(s)
    BY <1>6, <2>1
  <2>3. QED
    BY <1>4, <1>6, <2>1, <2>2
<1>8. ASSUME NEW j \in 1 .. (n + 1) - 1
      PROVE  t[j] # mark
  <2>1. j \in 1 .. n /\ j \in 1 .. n + 1
    BY <1>6
  <2>2. t[j] = b[j]
    BY <1>3, <1>4, <2>1 DEF n
  <2>3. b[j] \notin {mark}
    BY <2>1, LacksIs DEF n
  <2>4. QED
    BY <2>2, <2>3
<1>9. First(t, n + 1, mark)
  BY <1>7, <1>8 DEF First
<1>10. QED
  BY <1>3, <1>5, <1>9 DEF t, s, n

\* A word before a text.
LEMMA WordBefore ==
  ASSUME NEW w \in Vocabulary, NEW a \in Texts
  PROVE  /\ <<w>> \o a \in Texts /\ <<w>> \o a # <<>>
         /\ (<<w>> \o a)[1] = w /\ Tail(<<w>> \o a) = a
<1>1. <<w>> \in Seq(Vocabulary) /\ a \in Seq(Vocabulary)
  BY TextIs
<1>2. <<w>> \o a \in Seq(Vocabulary) /\ <<w>> \o a # <<>> /\ (<<w>> \o a)[1] = w
  BY <1>1
<1>3. Tail(<<w>> \o a) = a
  BY <1>1
<1>4. QED
  BY <1>2, <1>3 DEF Texts

\* A comment, from its first mark to its last.
Comment(open, b, close) == (<<open>> \o b) \o <<close>>

LEMMA CommentIs ==
  ASSUME NEW open \in Vocabulary, NEW close \in Vocabulary, NEW b \in Texts, NEW a \in Texts
  PROVE  /\ Comment(open, b, close) \in Texts
         /\ Comment(open, b, close) \o a \in Texts
         /\ Comment(open, b, close) \o a # <<>>
         /\ (Comment(open, b, close) \o a)[1] = open
<1> DEFINE c == <<open>> \o b
           s == c \o <<close>>
           t == s \o a
<1>1. open \in Vocabulary /\ close \in Vocabulary
  OBVIOUS
<1>2. /\ c \in Texts /\ Len(c) = 1 + Len(b)
      /\ c[1] = open /\ \A i \in 1 .. Len(b) : c[1 + i] = b[i]
  <2>1. <<open>> \in Texts /\ Len(<<open>>) = 1
    BY <1>1, TokenInText
  <2>2. c[1] = open
    BY <1>1, WordBefore
  <2>3. QED
    BY <2>1, <2>2, ConcatInText
<1> HIDE DEF c
<1>5. s \in Texts
  <2>1. <<close>> \in Texts
    BY <1>1, TokenInText
  <2>2. QED
    BY <1>2, <2>1, ConcatInText
<1>7. t \in Texts
  <2> HIDE DEF s
  <2>1. QED
    BY <1>5, ConcatInText
<1>10. t # <<>> /\ t[1] = open
  <2>1. Len(c) \in Nat /\ 1 \in 1 .. Len(c)
    <3>1. Len(b) \in Nat
      BY TextIs
    <3>2. QED
      BY <1>2, <3>1
  <2>2. s[1] = c[1] /\ Len(s) = Len(c) + 1
    BY <1>1, <1>2, <2>1, TokenAfter
  <2> HIDE DEF s
  <2>3. t[1] = s[1] /\ Len(t) = Len(s) + Len(a)
    <3>1. 1 \in 1 .. Len(s)
      BY <2>1, <2>2
    <3>2. QED
      BY <1>5, <3>1, ConcatInText
  <2>4. Len(a) \in Nat /\ Len(t) > 0
    BY <2>1, <2>2, <2>3, TextIs
  <2>5. QED
    BY <1>2, <2>2, <2>3, <2>4
<1>11. QED
  BY <1>5, <1>7, <1>10 DEF t, s, c, Comment

LEMMA ConcatAssociates ==
  ASSUME NEW s \in Texts, NEW u \in Texts, NEW v \in Texts
  PROVE  (s \o u) \o v = s \o (u \o v)
<1>1. s \in Seq(Vocabulary) /\ u \in Seq(Vocabulary) /\ v \in Seq(Vocabulary)
  BY TextIs
<1>2. QED
  BY <1>1

\* What reads as the statement behind it is accepted as that is.
LEMMA NoiseIs ==
  ASSUME NEW c \in Texts, NEW a \in Texts, OneStatement(a), c \o a \in Texts,
         Reads(c \o a) <=> Reads(a)
  PROVE  IsNoise(c, a)
<1>1. Accepts(a) <=> Reads(a)
  BY OneIsAccepted
<1>2. CASE Lacks(c, Breaks)
  <2>1. Accepts(c \o a) <=> Reads(c \o a)
    BY <1>2, PrefixedIsOne
  <2>2. QED
    BY <1>1, <2>1 DEF IsNoise
<1>3. CASE OneStatement(c \o a)
  <2>1. Accepts(c \o a) <=> Reads(c \o a)
    BY <1>3, OneIsAccepted
  <2>2. QED
    BY <1>1, <2>1 DEF IsNoise
<1>4. QED
  BY <1>2, <1>3 DEF IsNoise

LEMMA LineComment ==
  ASSUME NEW a \in Texts, OneStatement(a), NEW b \in Texts, Lacks(b, {"newline"})
  PROVE  IsNoise(<<"--">> \o b \o <<"newline">>, a)
<1> DEFINE c == <<"--">> \o b
           t == Comment("--", b, "newline") \o a
<1>1. "--" \in Vocabulary /\ "newline" \in Vocabulary
  BY MarksAreTokens
<1>2. t \in Texts /\ t # <<>> /\ t[1] = "--" /\ Comment("--", b, "newline") \in Texts
  BY <1>1, CommentIs
<1>3. c \in Texts
  BY <1>1, WordBefore
<1>4. Lacks(c, {"newline"})
  <2>1. \A i \in 1 .. Len(b) : b[i] \notin {"newline"}
    BY LacksIs
  <2>2. /\ Len(c) = 1 + Len(b) /\ c[1] = "--" /\ Len(b) \in Nat
        /\ \A i \in 1 .. Len(b) : c[1 + i] = b[i]
    <3>1. <<"--">> \in Texts /\ Len(<<"--">>) = 1
      BY <1>1, TokenInText
    <3>2. c[1] = "--"
      BY <1>1, WordBefore
    <3>3. QED
      BY <3>1, <3>2, ConcatInText, TextIs
  <2> HIDE DEF c
  <2>3. ASSUME NEW i \in 1 .. Len(c)
        PROVE  c[i] \notin {"newline"}
    <3>1. CASE i = 1
      BY <2>2, <3>1
    <3>2. CASE i # 1
      <4>1. i - 1 \in 1 .. Len(b) /\ 1 + (i - 1) = i
        BY <2>2, <3>2
      <4>2. c[1 + (i - 1)] = b[i - 1]
        BY <2>2, <4>1
      <4>3. QED
        BY <2>1, <4>1, <4>2
    <3>3. QED
      BY <3>1, <3>2
  <2>4. QED
    BY <1>3, <2>3, LacksIs
<1>5. First(t, Len(c) + 1, "newline") /\ Rest(t, Len(c) + 1) = a
  <2> HIDE DEF c
  <2>1. t = (c \o <<"newline">>) \o a
    BY DEF Comment, c
  <2> HIDE DEF t
  <2>2. QED
    BY <1>1, <1>3, <1>4, <2>1, FirstOfConcat
<1> HIDE DEF t
<1>6. After(t, "newline") = a
  <2>1. t \in Seq(Vocabulary)
    BY <1>2, TextIs
  <2>2. QED
    BY <1>5, <2>1, FirstIsSelected
<1>7. IsNoisy(t) /\ LessNoise(t) = a
  <2>1. IsNoisy(t)
    BY <1>2 DEF IsNoisy
  <2>2. LessNoise(t) = After(t, "newline")
    BY <1>2 DEF LessNoise
  <2>3. QED
    BY <1>6, <2>1, <2>2
<1>8. Reads(t) <=> Reads(a)
  BY <1>2, <1>7, NoiseIsNotRead
<1>9. IsNoise(Comment("--", b, "newline"), a)
  BY <1>2, <1>8, NoiseIs DEF t
<1>10. QED
  BY <1>9 DEF Comment

LEMMA BlockComment ==
  ASSUME NEW a \in Texts, OneStatement(a), NEW b \in Texts, Lacks(b, {"*/"})
  PROVE  IsNoise(<<"/*">> \o b \o <<"*/">>, a)
<1> DEFINE t == Comment("/*", b, "*/") \o a
           rest == (b \o <<"*/">>) \o a
<1>1. "/*" \in Vocabulary /\ "*/" \in Vocabulary
  BY MarksAreTokens
<1>2. t \in Texts /\ t # <<>> /\ t[1] = "/*" /\ Comment("/*", b, "*/") \in Texts
  BY <1>1, CommentIs
<1>3. <<"/*">> \in Texts /\ <<"*/">> \in Texts /\ b \o <<"*/">> \in Texts /\ rest \in Texts
  <2>1. <<"/*">> \in Texts /\ <<"*/">> \in Texts
    BY <1>1, TokenInText
  <2>2. b \o <<"*/">> \in Texts
    BY <2>1, ConcatInText
  <2>3. QED
    BY <2>1, <2>2, ConcatInText
<1>4. t = <<"/*">> \o rest
  <2>1. (<<"/*">> \o b) \o <<"*/">> = <<"/*">> \o (b \o <<"*/">>)
    BY <1>3, ConcatAssociates
  <2>2. (<<"/*">> \o (b \o <<"*/">>)) \o a = <<"/*">> \o rest
    BY <1>3, ConcatAssociates
  <2>3. QED
    BY <2>1, <2>2 DEF Comment
<1> HIDE DEF t
<1>5. Tail(t) = rest
  <2> HIDE DEF rest
  <2>1. QED
    BY <1>1, <1>3, <1>4, WordBefore
<1>6. After(rest, "*/") = a
  <2>1. First(rest, Len(b) + 1, "*/") /\ Rest(rest, Len(b) + 1) = a
    BY <1>1, FirstOfConcat
  <2>2. rest \in Seq(Vocabulary)
    BY <1>3, TextIs
  <2> HIDE DEF rest
  <2>3. QED
    BY <2>1, <2>2, FirstIsSelected
<1> HIDE DEF rest
<1>7. IsNoisy(t) /\ LessNoise(t) = a
  <2>1. IsNoisy(t)
    BY <1>2 DEF IsNoisy
  <2>2. LessNoise(t) = After(Tail(t), "*/")
    BY <1>2 DEF LessNoise
  <2>3. QED
    BY <1>5, <1>6, <2>1, <2>2
<1>8. Reads(t) <=> Reads(a)
  BY <1>2, <1>7, NoiseIsNotRead
<1>9. IsNoise(Comment("/*", b, "*/"), a)
  BY <1>2, <1>8, NoiseIs DEF t
<1>10. QED
  BY <1>9 DEF Comment

(***************************************************************************)
(* Literals in a statement.                                                *)
(***************************************************************************)

\* A statement from its first word to the end of the literal in it.
Quoting(w, a, b) == ((((<<w>> \o a) \o <<"'">>) \o b) \o <<"'">>)

LEMMA QuotingIs ==
  ASSUME NEW w \in Vocabulary \ Breaks, NEW a \in Texts, Closed(a), Separators(a) = {},
         NEW b \in Texts, Lacks(b, {"'"})
  PROVE  /\ Quoting(w, a, b) \in Texts /\ Quoting(w, a, b) # <<>>
         /\ Quoting(w, a, b)[1] = w /\ Separators(Quoting(w, a, b)) = {}
<1> DEFINE s == <<w>> \o a
           u == s \o <<"'">>
           v == u \o b
           t == v \o <<"'">>
           n == Len(s)
           m == Len(b)
<1>1. "'" \in Vocabulary /\ w \in Vocabulary /\ w \notin Breaks
  BY MarksAreTokens
<1>2. <<w>> \in Texts /\ <<"'">> \in Texts /\ Len(<<w>>) = 1 /\ Len(<<"'">>) = 1 /\ <<w>>[1] = w
  BY <1>1, TokenInText
<1>3. Closed(<<w>>) /\ Separators(<<w>>) = {}
  <2>1. Lacks(<<w>>, Breaks)
    <3>1. \A i \in 1 .. Len(<<w>>) : <<w>>[i] \notin Breaks
      BY <1>1, <1>2
    <3>2. QED
      BY <1>2, <3>1, LacksIs
  <2>2. QED
    BY <1>2, <2>1, PlainIsClosed
<1>4. s \in Texts /\ Len(s) = 1 + Len(a) /\ s[1] = w
  <2>1. s \in Texts /\ s[1] = w
    BY <1>1, WordBefore
  <2>2. QED
    BY <1>2, <2>1, ConcatInText
<1>5. Separators(s) = {}
  BY <1>2, <1>3, NoneSeparated
<1>6. Inside(s, n + 1) = ""
  <2>1. Stands(a, s, 1)
    BY <1>2, <1>3, StandsAfter
  <2>2. Len(a) \in Nat
    BY TextIs
  <2>3. Len(a) + 1 \in 1 .. Len(a) + 1
    BY <2>2
  <2> HIDE DEF s
  <2>4. Inside(s, 1 + (Len(a) + 1)) = Inside(a, Len(a) + 1)
    BY <2>1, <2>3, InsideIsLocal
  <2>5. 1 + (Len(a) + 1) = n + 1
    BY <1>4, <2>2
  <2>6. QED
    BY <2>4, <2>5 DEF Closed
<1> HIDE DEF s
<1>7. u \in Texts /\ Len(u) = n + 1 /\ u[n + 1] = "'" /\ \A i \in 1 .. n : u[i] = s[i]
  BY <1>1, <1>2, <1>4, ConcatInText, TokenAfter
<1> HIDE DEF u
<1>8. v \in Texts /\ Len(v) = (n + 1) + m /\ (\A i \in 1 .. n + 1 : v[i] = u[i])
      /\ \A i \in 1 .. m : v[(n + 1) + i] = b[i]
  <2>1. /\ v \in Texts /\ Len(v) = Len(u) + Len(b)
        /\ \A i \in 1 .. Len(u) : v[i] = u[i]
        /\ \A i \in 1 .. Len(b) : v[Len(u) + i] = b[i]
    BY <1>7, ConcatInText
  <2>2. QED
    BY <1>7, <2>1
<1> HIDE DEF v
<1>9. t \in Texts /\ Len(t) = ((n + 1) + m) + 1 /\ t[((n + 1) + m) + 1] = "'"
      /\ \A i \in 1 .. (n + 1) + m : t[i] = v[i]
  <2>1. t \in Texts
    BY <1>2, <1>8, ConcatInText
  <2>2. Len(t) = Len(v) + 1 /\ t[Len(v) + 1] = "'" /\ \A i \in 1 .. Len(v) : t[i] = v[i]
    BY <1>1, <1>8, TokenAfter
  <2> HIDE DEF t
  <2>3. QED
    BY <1>8, <2>1, <2>2
<1> HIDE DEF t
<1>10. n \in Nat /\ m \in Nat /\ n >= 1
  <2>1. Len(s) \in Nat /\ Len(b) \in Nat /\ Len(a) \in Nat
    BY <1>4, TextIs
  <2>2. QED
    BY <1>4, <2>1
<1> HIDE DEF n, m
<1>11. \A i \in 1 .. n : t[i] = s[i]
  <2>1. \A i \in 1 .. n : i \in 1 .. n + 1 /\ i \in 1 .. (n + 1) + m
    BY <1>10
  <2>2. QED
    BY <1>7, <1>8, <1>9, <2>1
<1>12. t[n + 1] = "'"
  <2>1. n + 1 \in 1 .. n + 1 /\ n + 1 \in 1 .. (n + 1) + m
    BY <1>10
  <2>2. QED
    BY <1>7, <1>8, <1>9, <2>1
<1>13. \A i \in 1 .. m : t[(n + 1) + i] # "'"
  <2>1. \A i \in 1 .. m : (n + 1) + i \in 1 .. (n + 1) + m
    BY <1>10
  <2>2. \A i \in 1 .. m : b[i] \notin {"'"}
    BY LacksIs DEF m
  <2>3. QED
    BY <1>8, <1>9, <2>1, <2>2
<1>14. Stands(s, t, 0)
  <2>1. 0 + Len(s) <= Len(t) /\ 0 \in Nat /\ 0 + 1 = 1
    BY <1>9, <1>10 DEF n
  <2>2. \A i \in 1 .. Len(s) : t[0 + i] = s[i]
    <3>1. \A i \in 1 .. n : 0 + i = i
      BY <1>10
    <3>2. QED
      BY <1>11, <3>1 DEF n
  <2>3. Inside(t, 1) = ""
    BY <1>9, InsideFollows
  <2>4. QED
    BY <1>4, <1>9, <2>1, <2>2, <2>3 DEF Stands
<1>15. Inside(t, n + 1) = ""
  <2>1. n + 1 \in 1 .. n + 1 /\ 0 + (n + 1) = n + 1
    BY <1>10
  <2>2. Inside(t, 0 + (n + 1)) = Inside(s, n + 1)
    BY <1>14, <2>1, InsideIsLocal DEF n
  <2>3. QED
    BY <1>6, <2>1, <2>2
<1>16. \A i \in 1 .. ((n + 1) + m) + 1 : Inside(t, i + 1) = Toggled(Inside(t, i), t[i])
  BY <1>9, InsideFollows
<1>17. Inside(t, (n + 1) + 1) = "'"
  <2>1. n + 1 \in 1 .. ((n + 1) + m) + 1
    BY <1>10
  <2>2. Inside(t, (n + 1) + 1) = Toggled("", "'")
    BY <1>12, <1>15, <1>16, <2>1
  <2>3. QED
    BY <2>2 DEF Toggled, Quotes
<1> DEFINE W == {k \in 1 .. m + 1 : Inside(t, (n + 1) + k) = "'"}
<1>18. 1 .. m + 1 \subseteq W
  <2>1. 1 \in W
    <3>1. 1 \in 1 .. m + 1
      BY <1>10
    <3>2. QED
      BY <1>17, <3>1
  <2>2. ASSUME NEW k \in 1 .. (m + 1) - 1, k \in W
        PROVE  k + 1 \in W
    <3>1. k \in 1 .. m /\ (n + 1) + k \in 1 .. ((n + 1) + m) + 1 /\ k + 1 \in 1 .. m + 1
          /\ (n + 1) + (k + 1) = ((n + 1) + k) + 1
      BY <1>10
    <3>2. Inside(t, ((n + 1) + k) + 1) = Toggled("'", t[(n + 1) + k])
      BY <1>16, <2>2, <3>1
    <3>3. t[(n + 1) + k] # "'"
      BY <1>13, <3>1
    <3>4. Toggled("'", t[(n + 1) + k]) = "'"
      BY <3>3 DEF Toggled
    <3>5. QED
      BY <3>1, <3>2, <3>4
  <2>3. m + 1 \in Nat
    BY <1>10
  <2> HIDE DEF W
  <2>4. QED
    BY <2>1, <2>2, <2>3, PlaceInduction
<1>19. ASSUME NEW i \in 1 .. ((n + 1) + m) + 1
       PROVE  i \notin Separators(t)
  <2>1. CASE i <= n
    <3>1. i \in 1 .. Len(s) /\ 0 + i = i
      BY <1>10, <2>1 DEF n
    <3>2. 0 + i \in Separators(t) <=> i \in Separators(s)
      BY <1>14, <3>1, SeparatorsAreLocal
    <3>3. QED
      BY <1>5, <3>1, <3>2
  <2>2. CASE i = n + 1
    BY <1>12, <2>2 DEF Separators
  <2>3. CASE i > n + 1
    <3>1. i - (n + 1) \in 1 .. m + 1 /\ (n + 1) + (i - (n + 1)) = i
      BY <1>10, <2>3
    <3>2. Inside(t, (n + 1) + (i - (n + 1))) = "'"
      BY <1>18, <3>1
    <3>3. Inside(t, i) = "'"
      BY <3>1, <3>2
    <3>4. QED
      BY <3>3 DEF Separators
  <2>4. QED
    BY <1>10, <2>1, <2>2, <2>3
<1>20. Separators(t) = {}
  <2>1. DOMAIN t = 1 .. Len(t)
    BY <1>9, TextIs
  <2>2. Separators(t) \subseteq 1 .. ((n + 1) + m) + 1
    BY <1>9, <2>1 DEF Separators
  <2>3. QED
    BY <1>19, <2>2
<1>21. t # <<>> /\ t[1] = w
  <2>1. 1 \in 1 .. n /\ Len(t) > 0
    BY <1>9, <1>10
  <2>2. t # <<>>
    BY <2>1
  <2>3. QED
    BY <1>4, <1>11, <2>1, <2>2
<1>22. QED
  BY <1>9, <1>20, <1>21 DEF Quoting, t, v, u, s

LEMMA FirstWordDecides ==
  ASSUME NEW t \in Texts, t # <<>>, t[1] \in {"SELECT", "DELETE"}, Separators(t) = {}
  PROVE  Accepts(t) <=> t[1] \in Readers
<1>1. ~Blank(t)
  <2>1. 1 \in 1 .. Len(t)
    <3>1. t \in Seq(Vocabulary)
      BY TextIs
    <3>2. QED
      BY <3>1
  <2>2. t[1] # "newline"
    OBVIOUS
  <2>3. QED
    BY <2>1, <2>2, BlankIs
<1>2. ~IsNoisy(t) /\ ~Explains(t)
  BY DEF IsNoisy, Explains
<1>3. Stripped(t) = t
  BY <1>2, StrippedLoops
<1>4. Reads(t) <=> t[1] \in Readers
  BY <1>2, <1>3, ReadsRecurs
<1>5. QED
  BY <1>1, <1>4, OneStatementIs

LEMMA LiteralChangesNothing ==
  ASSUME NEW a \in Texts, OneStatement(a), Closed(a), NEW b \in Texts, Lacks(b, {"'"}),
         NEW w \in {"SELECT", "DELETE"}
  PROVE  Accepts(<<w>> \o a \o <<"'">> \o b \o <<"'">>) <=> w \in Readers
<1> DEFINE t == Quoting(w, a, b)
<1>1. w \in Vocabulary \ Breaks
  BY MarksAreTokens DEF Breaks, Quotes
<1>2. t \in Texts /\ t # <<>> /\ t[1] = w /\ Separators(t) = {}
  BY <1>1, QuotingIs DEF OneStatement
<1> HIDE DEF t
<1>3. Accepts(t) <=> w \in Readers
  BY <1>2, FirstWordDecides
<1>4. QED
  BY <1>3 DEF t, Quoting

(***************************************************************************)
(* EXPLAIN and its modifiers.                                              *)
(***************************************************************************)

\* A text that begins with something else than a newline is trimmed.
LEMMA TrimmedAlready ==
  ASSUME NEW t \in Texts, t # <<>>, t[1] # "newline"
  PROVE  Trimmed(t) = t
<1>1. t \in Seq(Vocabulary) /\ Len(t) \in Nat /\ DOMAIN t = 1 .. Len(t)
  BY TextIs
<1>2. 1 \in 1 .. Len(t)
  BY <1>1
<1>3. ~Blank(t)
  BY <1>2, BlankIs
<1>4. PICK k : Newlines(t, k) /\ Trimmed(t) = Rest(t, k - 1)
  BY <1>1, <1>3, TrimmedIs
<1>5. k = 1
  <2>1. k \in 1 .. Len(t) /\ \A j \in 1 .. k - 1 : t[j] = "newline"
    BY <1>1, <1>4 DEF Newlines
  <2>2. ~(1 \in 1 .. k - 1)
    BY <2>1
  <2>3. k \in Nat /\ k >= 1
    BY <1>2, <2>1
  <2>4. QED
    BY <2>2, <2>3
<1>6. Rest(t, 0) = t
  BY <1>1 DEF Rest
<1>7. k - 1 = 0
  BY <1>5
<1>8. QED
  BY <1>4, <1>6, <1>7

LEMMA WordIsTrimmed ==
  ASSUME NEW w \in Vocabulary, w # "newline", NEW a \in Texts
  PROVE  Trimmed(<<w>> \o a) = <<w>> \o a
<1>1. <<w>> \o a \in Texts /\ <<w>> \o a # <<>> /\ (<<w>> \o a)[1] = w
  BY WordBefore
<1>2. QED
  BY <1>1, TrimmedAlready

LEMMA TailOfRest ==
  ASSUME NEW t \in Texts, NEW k \in 1 .. Len(t)
  PROVE  /\ Rest(t, k - 1) \in Texts /\ Rest(t, k - 1) # <<>>
         /\ Rest(t, k - 1)[1] = t[k] /\ Tail(Rest(t, k - 1)) = Rest(t, k)
<1> DEFINE n == Len(t)
<1>1. t \in Seq(Vocabulary) /\ n \in Nat
  BY TextIs
<1> HIDE DEF n
<1>2. k - 1 \in 0 .. n /\ k \in 0 .. n /\ k \in Nat /\ k >= 1
  BY <1>1 DEF n
<1> DEFINE r == Rest(t, k - 1)
           q == Rest(t, k)
<1>3. r \in Seq(Vocabulary) /\ Len(r) = n - (k - 1) /\ \A j \in 1 .. n - (k - 1) : r[j] = t[(k - 1) + j]
  BY <1>1, <1>2, RestIs DEF n
<1>4. q \in Seq(Vocabulary) /\ Len(q) = n - k /\ \A j \in 1 .. n - k : q[j] = t[k + j]
  BY <1>1, <1>2, RestIs DEF n
<1> HIDE DEF r, q
<1>5. r # <<>> /\ r[1] = t[k]
  <2>1. 1 \in 1 .. n - (k - 1) /\ (k - 1) + 1 = k /\ n - (k - 1) > 0
    BY <1>1, <1>2 DEF n
  <2>2. QED
    BY <1>3, <2>1
<1>6. Tail(r) \in Seq(Vocabulary) /\ Len(Tail(r)) = Len(r) - 1 /\ \A j \in 1 .. Len(r) - 1 : Tail(r)[j] = r[j + 1]
  BY <1>3, <1>5, TailIs
<1>7. Len(Tail(r)) = n - k
  BY <1>1, <1>2, <1>3, <1>6
<1>8. \A j \in 1 .. n - k : Tail(r)[j] = q[j]
  <2>1. SUFFICES ASSUME NEW j \in 1 .. n - k
                 PROVE  Tail(r)[j] = q[j]
    OBVIOUS
  <2>2. j \in 1 .. Len(r) - 1 /\ j + 1 \in 1 .. n - (k - 1) /\ (k - 1) + (j + 1) = k + j
    BY <1>1, <1>2, <1>3
  <2>3. QED
    BY <1>3, <1>4, <1>6, <2>2
<1>9. Tail(r) = q
  <2> DEFINE p == Tail(r)
  <2>1. p \in Seq(Vocabulary) /\ Len(p) = Len(q) /\ \A j \in 1 .. Len(q) : p[j] = q[j]
    BY <1>4, <1>6, <1>7, <1>8
  <2> HIDE DEF p
  <2>2. p = q
    BY <1>4, <2>1
  <2>3. QED
    BY <2>2 DEF p
<1>10. QED
  BY <1>3, <1>5, <1>9 DEF r, q, Texts

\* Newlines are noise.
LEMMA StrippedTrimmed ==
  ASSUME NEW a \in Texts, ~Blank(a)
  PROVE  /\ Trimmed(a) \in Texts /\ Trimmed(a) # <<>> /\ Trimmed(a)[1] # "newline"
         /\ Stripped(Trimmed(a)) = Stripped(a)
<1>1. a \in Seq(Vocabulary) /\ Len(a) \in Nat /\ DOMAIN a = 1 .. Len(a)
  BY TextIs
<1>2. PICK k : Newlines(a, k) /\ Trimmed(a) = Rest(a, k - 1)
  BY <1>1, TrimmedIs
<1>3. k \in 1 .. Len(a) /\ a[k] # "newline" /\ \A j \in 1 .. k - 1 : a[j] = "newline"
  BY <1>1, <1>2 DEF Newlines
<1>4. k \in Nat /\ k >= 1 /\ k <= Len(a)
  BY <1>1, <1>3
<1> DEFINE W == {i \in 1 .. k : Stripped(Rest(a, i - 1)) = Stripped(a)}
<1>5. 1 \in W
  <2>1. 1 \in 1 .. k /\ 1 - 1 = 0
    BY <1>4
  <2>2. Rest(a, 0) = a
    BY <1>1 DEF Rest
  <2>3. QED
    BY <2>1, <2>2
<1>6. ASSUME NEW i \in 1 .. k - 1, i \in W
      PROVE  i + 1 \in W
  <2>1. i \in 1 .. Len(a) /\ i + 1 \in 1 .. k /\ (i + 1) - 1 = i
    BY <1>1, <1>4
  <2>2. /\ Rest(a, i - 1) \in Texts /\ Rest(a, i - 1) # <<>>
        /\ Rest(a, i - 1)[1] = "newline" /\ Tail(Rest(a, i - 1)) = Rest(a, i)
    BY <1>3, <2>1, TailOfRest
  <2>3. IsNoisy(Rest(a, i - 1)) /\ LessNoise(Rest(a, i - 1)) = Rest(a, i)
    BY <2>2 DEF IsNoisy, LessNoise
  <2>4. Stripped(Rest(a, i - 1)) = Stripped(Rest(a, i))
    BY <2>2, <2>3, StrippedLoops
  <2>5. QED
    BY <1>6, <2>1, <2>4
<1>7. 1 .. k \subseteq W
  <2> HIDE DEF W
  <2>1. QED
    BY <1>4, <1>5, <1>6, PlaceInduction
<1>8. k \in W
  BY <1>4, <1>7
<1>9. Rest(a, k - 1) \in Texts /\ Rest(a, k - 1) # <<>> /\ Rest(a, k - 1)[1] = a[k]
  BY <1>3, TailOfRest
<1>10. QED
  BY <1>2, <1>3, <1>8, <1>9

\* What EXPLAIN makes of a statement that begins with no modifier.
LEMMA UnmodifiedStays ==
  ASSUME NEW a \in Texts, ~Blank(a), Unmodified(a)
  PROVE  SkipWords(Trimmed(a)) = Trimmed(a) /\ SkipModifiers(a) = Trimmed(a)
<1>1. Trimmed(a) \in Texts /\ Trimmed(a)[1] \notin Modifiers /\ Trimmed(a)[1] # "("
  BY StrippedTrimmed DEF Unmodified
<1>2. SkipWords(Trimmed(a)) = Trimmed(a)
  BY <1>1, SkipWordsLoops DEF IsModified
<1>3. SkipList(Trimmed(a)) = Trimmed(a)
  BY <1>1 DEF SkipList
<1>4. QED
  BY <1>2, <1>3 DEF SkipModifiers

LEMMA ExplainedIsRead ==
  ASSUME NEW rest \in Texts, NEW a \in Texts, ~Blank(a), SkipModifiers(rest) = Trimmed(a)
  PROVE  Reads(<<"EXPLAIN">> \o rest) <=> Reads(a)
<1> DEFINE t == <<"EXPLAIN">> \o rest
<1>1. t \in Texts /\ t # <<>> /\ t[1] = "EXPLAIN" /\ Tail(t) = rest
  BY MarksAreTokens, WordBefore
<1> HIDE DEF t
<1>2. Inner(t) = Trimmed(a) /\ Trimmed(a) # <<>>
  BY <1>1, StrippedTrimmed DEF Inner
<1>3. Explains(t)
  BY <1>1, <1>2 DEF Explains
<1>4. Stripped(t) = t
  <2>1. ~IsNoisy(t)
    BY <1>1 DEF IsNoisy
  <2>2. QED
    BY <1>1, <2>1, StrippedLoops
<1>5. Stripped(Inner(t)) = Stripped(a)
  BY <1>2, StrippedTrimmed
<1>6. PICK reads : /\ \A s : Reads(s) <=> reads[Stripped(s)]
                   /\ \A s \in Texts : Explains(s) => reads[s] = reads[Stripped(Inner(s))]
  BY ReadsRecurs
<1>7. reads[t] = reads[Stripped(a)]
  BY <1>1, <1>3, <1>5, <1>6
<1>8. Reads(t) <=> Reads(a)
  BY <1>4, <1>6, <1>7
<1>9. QED
  BY <1>8 DEF t

\* Two modifiers with a word for the first, as in EXPLAIN FORMAT json ANALYZE.
LEMMA FormatIsSkipped ==
  ASSUME NEW a \in Texts, ~Blank(a), Unmodified(a)
  PROVE  SkipModifiers(<<"FORMAT">> \o (<<"json">> \o (<<"ANALYZE">> \o a))) = Trimmed(a)
<1> DEFINE x == <<"ANALYZE">> \o a
           y == <<"json">> \o x
           z == <<"FORMAT">> \o y
<1>1. x \in Texts /\ x # <<>> /\ x[1] = "ANALYZE" /\ Tail(x) = a /\ Trimmed(x) = x
  BY MarksAreTokens, WordBefore, WordIsTrimmed
<1> HIDE DEF x
<1>2. y \in Texts /\ y # <<>> /\ y[1] = "json" /\ Tail(y) = x /\ Trimmed(y) = y
  BY <1>1, MarksAreTokens, WordBefore, WordIsTrimmed
<1> HIDE DEF y
<1>3. z \in Texts /\ z # <<>> /\ z[1] = "FORMAT" /\ Tail(z) = y /\ Trimmed(z) = z
  BY <1>2, MarksAreTokens, WordBefore, WordIsTrimmed
<1> HIDE DEF z
<1>4. SkipList(z) = z
  BY <1>3 DEF SkipList
<1>5. IsModified(z) /\ WithoutModifier(z) = x
  <2>1. IsModified(z)
    BY <1>3 DEF IsModified, Modifiers
  <2>2. WithoutWord(y) = x
    <3>1. y[1] \in Words
      BY <1>2, MarksAreTokens
    <3>2. QED
      BY <1>1, <1>2, <3>1 DEF WithoutWord
  <2>3. WithoutModifier(z) = x
    BY <1>2, <1>3, <2>2 DEF WithoutModifier
  <2>4. QED
    BY <2>1, <2>3
<1>6. IsModified(x) /\ WithoutModifier(x) = Trimmed(a)
  BY <1>1 DEF IsModified, Modifiers, WithoutModifier
<1>7. SkipWords(z) = SkipWords(Trimmed(a))
  BY <1>1, <1>3, <1>5, <1>6, SkipWordsLoops
<1>8. SkipModifiers(z) = Trimmed(a)
  BY <1>3, <1>4, <1>7, UnmodifiedStays DEF SkipModifiers
<1>9. QED
  BY <1>8 DEF z, y, x

LEMMA TripleIs ==
  ASSUME NEW S, NEW x \in S, NEW y \in S, NEW z \in S
  PROVE  <<x, y>> \o <<z>> = <<x, y, z>>
<1> DEFINE p == <<x, y>> \o <<z>>
           q == <<x, y, z>>
<1>1. p \in Seq(S) /\ Len(p) = 3 /\ p[1] = x /\ p[2] = y /\ p[3] = z
  OBVIOUS
<1>2. q \in Seq(S) /\ Len(q) = 3 /\ q[1] = x /\ q[2] = y /\ q[3] = z
  OBVIOUS
<1> HIDE DEF p, q
<1>3. \A i \in 1 .. 3 : i = 1 \/ i = 2 \/ i = 3
  OBVIOUS
<1>4. p = q
  BY <1>1, <1>2, <1>3
<1>5. QED
  BY <1>4 DEF p, q

LEMMA PairIs ==
  ASSUME NEW S, NEW x \in S, NEW y \in S
  PROVE  <<x>> \o <<y>> = <<x, y>>
<1> DEFINE p == <<x>> \o <<y>>
           q == <<x, y>>
<1>1. p \in Seq(S) /\ Len(p) = 2 /\ p[1] = x /\ p[2] = y
  OBVIOUS
<1>2. q \in Seq(S) /\ Len(q) = 2 /\ q[1] = x /\ q[2] = y
  OBVIOUS
<1> HIDE DEF p, q
<1>3. \A i \in 1 .. 2 : i = 1 \/ i = 2
  OBVIOUS
<1>4. p = q
  BY <1>1, <1>2, <1>3
<1>5. QED
  BY <1>4 DEF p, q

LEMMA ListIsSkipped ==
  ASSUME NEW a \in Texts, ~Blank(a), Unmodified(a)
  PROVE  SkipModifiers(<<"(", "ANALYZE", ")">> \o a) = Trimmed(a)
<1> DEFINE b == <<"(", "ANALYZE">>
           t == (b \o <<")">>) \o a
<1>1. "(" \in Vocabulary /\ "ANALYZE" \in Vocabulary /\ ")" \in Vocabulary
  BY MarksAreTokens
<1>2. b \in Texts /\ Len(b) = 2 /\ b[1] = "(" /\ b[2] = "ANALYZE"
  BY <1>1 DEF Texts
<1>3. Lacks(b, {")"})
  <2>1. \A i \in 1 .. Len(b) : b[i] \notin {")"}
    <3>1. \A i \in 1 .. 2 : i = 1 \/ i = 2
      OBVIOUS
    <3>2. QED
      BY <1>2, <3>1
  <2>2. QED
    BY <1>2, <2>1, LacksIs
<1>4. b \o <<")">> = <<"(", "ANALYZE", ")">>
  BY <1>1, TripleIs
<1> HIDE DEF b
<1>5. First(t, Len(b) + 1, ")") /\ Rest(t, Len(b) + 1) = a
  BY <1>1, <1>2, <1>3, FirstOfConcat
<1>6. t \in Texts /\ t # <<>> /\ t[1] = "("
  <2>1. <<")">> \in Texts
    BY <1>1, TokenInText
  <2>2. b \o <<")">> \in Texts /\ Len(b \o <<")">>) = 2 + 1 /\ (b \o <<")">>)[1] = "("
    <3>1. 1 \in 1 .. 2
      OBVIOUS
    <3>2. b \o <<")">> \in Texts
      BY <1>2, <2>1, ConcatInText
    <3>3. Len(b \o <<")">>) = Len(b) + 1 /\ \A i \in 1 .. Len(b) : (b \o <<")">>)[i] = b[i]
      BY <1>1, <1>2, TokenAfter
    <3>4. 1 \in 1 .. Len(b)
      BY <1>2, <3>1
    <3>5. (b \o <<")">>)[1] = "("
      BY <1>2, <3>3, <3>4
    <3>6. Len(b \o <<")">>) = 2 + 1
      BY <1>2, <3>3
    <3>7. QED
      BY <3>2, <3>5, <3>6
  <2> DEFINE s == b \o <<")">>
  <2> HIDE DEF s
  <2>3. s \o a \in Texts /\ Len(s \o a) = Len(s) + Len(a) /\ (s \o a)[1] = s[1]
    <3>1. s \in Texts /\ 1 \in 1 .. Len(s)
      BY <2>2 DEF s
    <3>2. QED
      BY <3>1, ConcatInText
  <2>4. Len(a) \in Nat /\ Len(s \o a) > 0
    <3>1. Len(a) \in Nat
      BY TextIs
    <3>2. Len(s) = 3
      BY <2>2 DEF s
    <3>3. QED
      BY <2>3, <3>1, <3>2
  <2>5. s \o a # <<>>
    BY <2>4
  <2>6. QED
    BY <2>2, <2>3, <2>5 DEF s
<1> HIDE DEF t
<1>7. After(t, ")") = a
  <2>1. t \in Seq(Vocabulary)
    BY <1>6, TextIs
  <2>2. QED
    BY <1>5, <2>1, FirstIsSelected
<1>8. Contains(t, ")")
  <2>1. Len(b) + 1 \in DOMAIN t /\ t[Len(b) + 1] = ")"
    BY <1>5 DEF First
  <2>2. DOMAIN t = 1 .. Len(t)
    BY <1>6, TextIs
  <2>3. QED
    BY <2>1, <2>2 DEF Contains
<1>9. Trimmed(t) = t
  BY <1>6, TrimmedAlready
<1>10. SkipList(t) = Trimmed(a)
  BY <1>6, <1>7, <1>8 DEF SkipList
<1>11. SkipModifiers(t) = Trimmed(a)
  BY <1>9, <1>10, UnmodifiedStays DEF SkipModifiers
<1>12. QED
  BY <1>4, <1>11 DEF t

ModifierLists == {<<>>, <<"FORMAT", "json", "ANALYZE">>, <<"(", "ANALYZE", ")">>}

LEMMA ModifiersAreTexts ==
  ASSUME NEW m \in ModifierLists
  PROVE  m \in Texts /\ <<"EXPLAIN">> \o m \in Texts /\ Lacks(<<"EXPLAIN">> \o m, Breaks)
<1>1. /\ \A w \in {"EXPLAIN", "FORMAT", "json", "ANALYZE", "(", ")"} : w \in Vocabulary
      /\ \A w \in {"EXPLAIN", "FORMAT", "json", "ANALYZE", "(", ")"} : w \notin Breaks
  BY MarksAreTokens DEF Breaks, Quotes
<1>2. m \in Texts
  <2>1. CASE m = <<>>
    BY <2>1 DEF Texts
  <2>2. CASE m = <<"FORMAT", "json", "ANALYZE">>
    <3>1. <<"FORMAT", "json", "ANALYZE">> \in Seq(Vocabulary)
      <4>1. \A x, y, z \in Vocabulary : <<x, y, z>> \in Seq(Vocabulary)
        OBVIOUS
      <4>2. QED
        BY <1>1, <4>1
    <3>2. QED
      BY <2>2, <3>1 DEF Texts
  <2>3. CASE m = <<"(", "ANALYZE", ")">>
    <3>1. <<"(", "ANALYZE", ")">> \in Seq(Vocabulary)
      <4>1. \A x, y, z \in Vocabulary : <<x, y, z>> \in Seq(Vocabulary)
        OBVIOUS
      <4>2. QED
        BY <1>1, <4>1
    <3>2. QED
      BY <2>3, <3>1 DEF Texts
  <2>4. QED
    BY <2>1, <2>2, <2>3 DEF ModifierLists
<1>3. \A i \in 1 .. Len(m) : m[i] \notin Breaks
  <2>1. CASE m = <<>>
    BY <2>1
  <2>2. CASE m = <<"FORMAT", "json", "ANALYZE">>
    BY <1>1, <2>2
  <2>3. CASE m = <<"(", "ANALYZE", ")">>
    BY <1>1, <2>3
  <2>4. QED
    BY <2>1, <2>2, <2>3 DEF ModifierLists
<1> DEFINE w == <<"EXPLAIN">>
<1>4. w \in Texts /\ Len(w) = 1 /\ w[1] = "EXPLAIN"
  BY <1>1, TokenInText
<1> HIDE DEF w
<1>5. w \o m \in Texts /\ Len(w \o m) = Len(w) + Len(m)
      /\ (\A i \in 1 .. Len(w) : (w \o m)[i] = w[i])
      /\ \A i \in 1 .. Len(m) : (w \o m)[Len(w) + i] = m[i]
  BY <1>2, <1>4, ConcatInText
<1> DEFINE n == Len(m)
           t == w \o m
<1>6. n \in Nat
  BY <1>2, TextIs
<1>7. t \in Texts /\ Len(t) = 1 + n /\ t[1] = "EXPLAIN" /\ \A i \in 1 .. n : t[1 + i] = m[i]
  BY <1>4, <1>5
<1>8. \A i \in 1 .. n : m[i] \notin Breaks
  BY <1>3
<1> HIDE DEF n, t
<1>9. \A i \in 1 .. Len(t) : t[i] \notin Breaks
  <2>1. SUFFICES ASSUME NEW i \in 1 .. Len(t) PROVE t[i] \notin Breaks
    OBVIOUS
  <2>2. CASE i = 1
    BY <1>1, <1>7, <2>2
  <2>3. CASE i # 1
    <3>1. i - 1 \in 1 .. n /\ 1 + (i - 1) = i
      BY <1>6, <1>7, <2>3
    <3>2. QED
      BY <1>7, <1>8, <3>1
  <2>4. QED
    BY <2>2, <2>3
<1>10. Lacks(t, Breaks)
  BY <1>7, <1>9, LacksIs
<1>11. QED
  BY <1>2, <1>7, <1>10 DEF t, w

LEMMA FormatInFront ==
  ASSUME NEW a \in Texts
  PROVE  <<"FORMAT", "json", "ANALYZE">> \o a = <<"FORMAT">> \o (<<"json">> \o (<<"ANALYZE">> \o a))
<1> DEFINE f == <<"FORMAT">>
           j == <<"json">>
           z == <<"ANALYZE">>
<1>1. "FORMAT" \in Vocabulary /\ "json" \in Vocabulary /\ "ANALYZE" \in Vocabulary
  BY MarksAreTokens
<1>2. f \in Texts /\ j \in Texts /\ z \in Texts
  BY <1>1, TokenInText
<1>3. f \o j = <<"FORMAT", "json">>
  BY <1>1, PairIs
<1>4. (f \o j) \o z = <<"FORMAT", "json", "ANALYZE">>
  BY <1>1, <1>3, TripleIs
<1> HIDE DEF f, j, z
<1>5. ((f \o j) \o z) \o a = f \o (j \o (z \o a))
  <2> DEFINE Joined(s, u) == s \o u
  <2>1. \A s, u \in Texts : Joined(s, u) \in Texts
    BY ConcatInText
  <2>2. \A s, u, v \in Texts : Joined(Joined(s, u), v) = Joined(s, Joined(u, v))
    <3>1. SUFFICES ASSUME NEW s \in Texts, NEW u \in Texts, NEW v \in Texts
                   PROVE  (s \o u) \o v = s \o (u \o v)
      OBVIOUS
    <3>2. s \in Seq(Vocabulary) /\ u \in Seq(Vocabulary) /\ v \in Seq(Vocabulary)
      BY TextIs
    <3>3. QED
      BY <3>2
  <2> HIDE DEF Joined
  <2>3. Joined(Joined(Joined(f, j), z), a) = Joined(f, Joined(j, Joined(z, a)))
    BY <1>2, <2>1, <2>2
  <2>4. QED
    BY <2>3 DEF Joined
<1>6. QED
  BY <1>4, <1>5 DEF f, j, z

LEMMA ModifiersAreSkipped ==
  ASSUME NEW a \in Texts, ~Blank(a), Unmodified(a), NEW m \in ModifierLists
  PROVE  SkipModifiers(m \o a) = Trimmed(a)
<1>1. CASE m = <<>>
  <2>1. m \o a = a
    BY <1>1, TextIs
  <2>2. QED
    BY <2>1, UnmodifiedStays
<1>2. CASE m = <<"FORMAT", "json", "ANALYZE">>
  BY <1>2, FormatInFront, FormatIsSkipped
<1>3. CASE m = <<"(", "ANALYZE", ")">>
  BY <1>3, ListIsSkipped
<1>4. QED
  BY <1>1, <1>2, <1>3 DEF ModifierLists

LEMMA ExplainChangesNothing ==
  ASSUME NEW a \in Texts, OneStatement(a), Unmodified(a), NEW m \in ModifierLists
  PROVE  Accepts(<<"EXPLAIN">> \o m \o a) <=> Accepts(a)
<1> DEFINE w == <<"EXPLAIN">>
<1>1. w \in Texts /\ m \in Texts /\ w \o m \in Texts /\ Lacks(w \o m, Breaks)
  BY MarksAreTokens, TokenInText, ModifiersAreTexts
<1>2. m \o a \in Texts
  BY <1>1, ConcatInText
<1>3. ~Blank(a)
  BY DEF OneStatement
<1>4. Reads(w \o (m \o a)) <=> Reads(a)
  BY <1>2, <1>3, ModifiersAreSkipped, ExplainedIsRead
<1> HIDE DEF w
<1>5. (w \o m) \o a = w \o (m \o a)
  BY <1>1, ConcatAssociates, SMTT(60)
<1>6. Accepts((w \o m) \o a) <=> Reads((w \o m) \o a)
  BY <1>1, PrefixedIsOne
<1>7. Accepts(a) <=> Reads(a)
  BY OneIsAccepted
<1>8. Accepts((w \o m) \o a) <=> Accepts(a)
  BY <1>4, <1>5, <1>6, <1>7
<1>9. QED
  BY <1>8 DEF w

\* The guard follows the structure of every batch (assert_readonly).
THEOREM GuardIsStructuralForAll ==
  ASSUME NEW a \in Seq(Vocabulary), NEW b \in Seq(Vocabulary)
  PROVE  GuardFollowsStructure(a, b)
<1>1. a \in Texts /\ b \in Texts
  BY DEF Texts
<1>2. ASSUME Closed(a)
      PROVE  Accepts(a \o <<";">> \o b) <=> Accepts(a) /\ Accepts(b)
  BY <1>1, <1>2, BatchIsSplit DEF Accepts
<1>3. ASSUME OneStatement(a), Lacks(b, {"newline"})
      PROVE  IsNoise(<<"--">> \o b \o <<"newline">>, a)
  BY <1>1, <1>3, LineComment
<1>4. ASSUME OneStatement(a), Lacks(b, {"*/"})
      PROVE  IsNoise(<<"/*">> \o b \o <<"*/">>, a)
  BY <1>1, <1>4, BlockComment
<1>5. ASSUME OneStatement(a), Closed(a), Lacks(b, {"'"}), NEW w \in {"SELECT", "DELETE"}
      PROVE  Accepts(<<w>> \o a \o <<"'">> \o b \o <<"'">>) <=> w \in Readers
  BY <1>1, <1>5, LiteralChangesNothing
<1>6. ASSUME OneStatement(a), Unmodified(a), NEW m \in ModifierLists
      PROVE  Accepts(<<"EXPLAIN">> \o m \o a) <=> Accepts(a)
  BY <1>1, <1>6, ExplainChangesNothing
<1>7. QED
  BY <1>2, <1>3, <1>4, <1>5, <1>6 DEF GuardFollowsStructure, ModifierLists

(***************************************************************************)
(* Samples: what is kept of a column is true of it.  The counts of a query *)
(* are compared with the cells they count, place by place.                 *)
(***************************************************************************)

\* How many of the values are of a kind.
OfKind(values, kind) == {i \in DOMAIN values : kind \in values[i]}

OfKinds(values, kinds) == {i \in DOMAIN values : values[i] = kinds}

LEMMA KindsAreCounted ==
  ASSUME NEW X, NEW values \in Seq(X), NEW kind, NEW kinds
  PROVE  /\ Cardinality(OfKind(values, kind)) \in 0 .. Len(values)
         /\ Cardinality(OfKinds(values, kinds)) \in 0 .. Len(values)
         /\ kind \in kinds => Cardinality(OfKinds(values, kinds)) <= Cardinality(OfKind(values, kind))
         /\ kind \notin kinds => Cardinality(OfKinds(values, kinds)) + Cardinality(OfKind(values, kind)) <= Len(values)
<1> DEFINE n == Len(values)
           A == OfKinds(values, kinds)
           B == OfKind(values, kind)
<1>1. n \in Nat /\ DOMAIN values = 1 .. n
  OBVIOUS
<1>2. A \in SUBSET (1 .. n) /\ B \in SUBSET (1 .. n)
  BY <1>1 DEF OfKind, OfKinds
<1>3. /\ kind \in kinds => A \subseteq B
      /\ kind \notin kinds => A \cap B = {}
  BY DEF OfKind, OfKinds
<1> HIDE DEF A, B, n
<1>4. /\ IsFiniteSet(A) /\ Cardinality(A) \in Nat /\ Cardinality(A) <= n
      /\ IsFiniteSet(B) /\ Cardinality(B) \in Nat /\ Cardinality(B) <= n
  BY <1>1, <1>2, PlacesAreFinite
<1>5. kind \in kinds => Cardinality(A) <= Cardinality(B)
  BY <1>3, <1>4, FS_Subset
<1>6. ASSUME kind \notin kinds
      PROVE  Cardinality(A) + Cardinality(B) <= n
  <2>1. Cardinality(A \cup B) = Cardinality(A) + Cardinality(B) - Cardinality(A \cap B)
    BY <1>4, FS_Union
  <2>2. A \cap B = {} /\ Cardinality({}) = 0
    BY <1>3, <1>6, FS_EmptySet
  <2>3. A \cup B \in SUBSET (1 .. n)
    BY <1>2
  <2>4. Cardinality(A \cup B) <= n
    BY <1>1, <2>3, PlacesAreFinite
  <2> DEFINE a == Cardinality(A)
             b == Cardinality(B)
             c == Cardinality(A \cup B)
  <2>5. a \in Nat /\ b \in Nat /\ c = a + b - 0 /\ c <= n
    BY <1>4, <2>1, <2>2, <2>4
  <2> HIDE DEF a, b, c
  <2>6. a + b <= n
    BY <1>1, <2>5 DEF n
  <2>7. QED
    BY <2>6 DEF a, b
<1>7. QED
  BY <1>1, <1>4, <1>5, <1>6 DEF A, B, n

TwoThirds(values, kind) == 3 * Cardinality(OfKind(values, kind)) >= 2 * Len(values)

\* The first kind two thirds are of.
LEMMA KindIs ==
  ASSUME NEW X, NEW values \in Seq(X), values # <<>>
  PROVE  ClassifyColumn(values) =
           IF TwoThirds(values, "Email") THEN "Email"
           ELSE IF TwoThirds(values, "Ssn") THEN "Ssn"
           ELSE IF TwoThirds(values, "CreditCard") THEN "CreditCard"
           ELSE IF TwoThirds(values, "Phone") THEN "Phone" ELSE None
<1> DEFINE n == Len(values)
           hits(kind) == Cardinality({i \in DOMAIN values : kind \in values[i]})
           enough == (2 * n + 2) \div 3
           I == {i \in 1 .. 4 : hits(PiiKinds[i]) >= enough}
<1>1. n \in Nat /\ n # 0
  OBVIOUS
<1>2. \A kind : hits(kind) = Cardinality(OfKind(values, kind)) /\ hits(kind) \in Nat
  <2>1. SUFFICES ASSUME NEW kind
                 PROVE  hits(kind) = Cardinality(OfKind(values, kind)) /\ hits(kind) \in Nat
    OBVIOUS
  <2>2. hits(kind) = Cardinality(OfKind(values, kind))
    BY DEF OfKind
  <2>3. Cardinality(OfKind(values, kind)) \in 0 .. n
    BY KindsAreCounted
  <2>4. QED
    BY <1>1, <2>2, <2>3
<1>3. \A h \in Nat : h >= enough <=> 3 * h >= 2 * n
  BY <1>1
<1>4. \A kind : TwoThirds(values, kind) <=> hits(kind) >= enough
  BY <1>2, <1>3 DEF TwoThirds
<1>5. /\ Len(PiiKinds) = 4 /\ PiiKinds[1] = "Email" /\ PiiKinds[2] = "Ssn"
      /\ PiiKinds[3] = "CreditCard" /\ PiiKinds[4] = "Phone"
  BY DEF PiiKinds
<1>6. ClassifyColumn(values) =
        IF (IF I # {} THEN Min(I) ELSE 0) = 0 THEN None ELSE PiiKinds[IF I # {} THEN Min(I) ELSE 0]
  BY <1>5 DEF ClassifyColumn, SelectInSeq
<1>7. /\ 1 \in I <=> TwoThirds(values, "Email")
      /\ 2 \in I <=> TwoThirds(values, "Ssn")
      /\ 3 \in I <=> TwoThirds(values, "CreditCard")
      /\ 4 \in I <=> TwoThirds(values, "Phone")
  BY <1>4, <1>5
<1>8. I \subseteq 1 .. 4 /\ I \in SUBSET Nat
  OBVIOUS
<1> HIDE DEF I, hits, enough, n
<1>9. I # {} => Min(I) \in I /\ \A y \in I : Min(I) <= y
  BY <1>8, MinIs
<1> DEFINE m == Min(I)
<1>10. I # {} => m \in 1 .. 4 /\ m \in I /\ \A y \in I : m <= y
  BY <1>8, <1>9
<1> HIDE DEF m
<1>11. I = {} \/ m = 1 \/ m = 2 \/ m = 3 \/ m = 4
  BY <1>10
<1>12. I # {} => ClassifyColumn(values) = PiiKinds[m]
  BY <1>6, <1>10 DEF m
<1>13. CASE I = {}
  BY <1>6, <1>7, <1>13
<1>14. CASE I # {} /\ m = 1
  BY <1>5, <1>7, <1>10, <1>12, <1>14
<1>15. CASE I # {} /\ m = 2
  BY <1>5, <1>7, <1>10, <1>12, <1>15
<1>16. CASE I # {} /\ m = 3
  BY <1>5, <1>7, <1>10, <1>12, <1>16
<1>17. CASE I # {} /\ m = 4
  BY <1>5, <1>7, <1>10, <1>12, <1>17
<1>18. QED
  BY <1>11, <1>13, <1>14, <1>15, <1>16, <1>17

\* What most of the values are is what a column of any length is called.
\* pii.rs
THEOREM KindIsRightForAll ==
  ASSUME NEW X, NEW values \in Seq(X)
  PROVE  KindIsRight(values)
<1> DEFINE n == Len(values)
           most(kinds) == 3 * Cardinality(OfKinds(values, kinds)) >= 2 * n
           any == \E k \in ToSet(PiiKinds) : TwoThirds(values, k)
<1>1. SUFFICES ASSUME values # <<>>
               PROVE  /\ most({"Email"}) => ClassifyColumn(values) = "Email"
                      /\ most({"Ssn", "Phone"}) => ClassifyColumn(values) = "Ssn"
                      /\ most({"CreditCard", "Phone"}) => ClassifyColumn(values) = "CreditCard"
                      /\ most({}) => ClassifyColumn(values) = None
                      /\ ClassifyColumn(values) # None <=> any
  <2>1. ToSet(PiiKinds) = {"Email", "Ssn", "CreditCard", "Phone"}
    BY DEF PiiKinds, ToSet
  <2>2. \A redaction \in {None, [classifyValues |-> FALSE], [classifyValues |-> TRUE]} :
          ShouldRedactColumn(redaction, [named |-> FALSE, marked |-> FALSE], values) <=>
            redaction # None /\ redaction.classifyValues /\ ClassifyColumn(values) # None
    BY DEF ShouldRedactColumn, ShouldRedact
  <2>3. QED
    BY <2>2 DEF KindIsRight, OfKinds, TwoThirds, OfKind
<1>2. n \in Nat /\ n # 0
  BY <1>1
<1>3. \A kind, kinds :
        /\ kind \in kinds /\ most(kinds) => TwoThirds(values, kind)
        /\ kind \notin kinds /\ most(kinds) => ~TwoThirds(values, kind)
  <2>1. SUFFICES ASSUME NEW kind, NEW kinds, most(kinds)
                 PROVE  /\ kind \in kinds => TwoThirds(values, kind)
                        /\ kind \notin kinds => ~TwoThirds(values, kind)
    OBVIOUS
  <2> DEFINE a == Cardinality(OfKinds(values, kinds))
             b == Cardinality(OfKind(values, kind))
  <2>2. /\ a \in 0 .. n /\ b \in 0 .. n
        /\ kind \in kinds => a <= b
        /\ kind \notin kinds => a + b <= n
    BY KindsAreCounted
  <2>3. 3 * a >= 2 * n
    BY <2>1
  <2>4. TwoThirds(values, kind) <=> 3 * b >= 2 * n
    BY DEF TwoThirds
  <2> HIDE DEF a, b, n
  <2>5. QED
    BY <1>2, <2>2, <2>3, <2>4
<1> DEFINE what == ClassifyColumn(values)
<1>4. what = IF TwoThirds(values, "Email") THEN "Email"
             ELSE IF TwoThirds(values, "Ssn") THEN "Ssn"
             ELSE IF TwoThirds(values, "CreditCard") THEN "CreditCard"
             ELSE IF TwoThirds(values, "Phone") THEN "Phone" ELSE None
  BY <1>1, KindIs
<1>5. ToSet(PiiKinds) = {"Email", "Ssn", "CreditCard", "Phone"}
  BY DEF PiiKinds, ToSet
<1> HIDE DEF what, most
<1>6. what # None <=> any
  BY <1>4, <1>5, NoneIsNoKind
<1>7. /\ most({"Email"}) => what = "Email"
      /\ most({"Ssn", "Phone"}) => what = "Ssn"
      /\ most({"CreditCard", "Phone"}) => what = "CreditCard"
      /\ most({}) => what = None
  BY <1>3, <1>4, <1>5, NoneIsNoKind
<1>8. QED
  BY <1>6, <1>7 DEF what

\* The elements of a finite set in some order.
LEMMA SetToSeqIs ==
  ASSUME NEW S, IsFiniteSet(S)
  PROVE  /\ Cardinality(S) \in Nat
         /\ SetToSeq(S) \in [1 .. Cardinality(S) -> S]
         /\ \A i, j \in 1 .. Cardinality(S) : SetToSeq(S)[i] = SetToSeq(S)[j] => i = j
         /\ \A x \in S : \E i \in 1 .. Cardinality(S) : SetToSeq(S)[i] = x
<1> DEFINE n == Cardinality(S)
           Is(f) == f \in [1 .. n -> S] /\ IsInjective(f)
<1>1. n \in Nat /\ ExistsBijection(1 .. n, S)
  BY FS_CardinalityType
<1>2. \E f : Is(f)
  BY <1>1 DEF ExistsBijection, Bijection, Injection
<1>3. SetToSeq(S) = CHOOSE f : Is(f)
  BY DEF SetToSeq
<1>4. PICK f : f = (CHOOSE g : Is(g)) /\ Is(f)
  <2> HIDE DEF Is
  <2>1. QED
    BY <1>2
<1>5. \A i, j \in 1 .. n : f[i] = f[j] => i = j
  BY <1>4 DEF IsInjective
<1>6. IsFiniteSet(1 .. n) /\ Cardinality(1 .. n) = n
  BY <1>1, IntervalIs
<1> DEFINE T == {f[i] : i \in 1 .. n}
<1>7. T \in SUBSET S /\ f \in [1 .. n -> T] /\ \A x \in T : \E i \in 1 .. n : f[i] = x
  BY <1>4
<1>8. Cardinality(T) = n
  <2> HIDE DEF T
  <2>1. QED
    BY <1>5, <1>6, <1>7, SameSize
<1>9. \A x \in S : \E i \in 1 .. n : f[i] = x
  <2> HIDE DEF T
  <2>1. S = T
    BY <1>7, <1>8, FS_Subset
  <2>2. QED
    BY <1>7, <2>1
<1>10. QED
  BY <1>1, <1>3, <1>4, <1>5, <1>9

\* How many cells hold one of some values.
Holding(cells, V) == {i \in DOMAIN cells : cells[i] \in V}

LEMMA HoldingIs ==
  ASSUME NEW X, NEW cells \in Seq(X), NEW V
  PROVE  /\ IsFiniteSet(Holding(cells, V))
         /\ Cardinality(Holding(cells, V)) \in Nat
         /\ \A v : Holding(cells, {v}) = {i \in DOMAIN cells : cells[i] = v}
         /\ \A v : Count(cells, v) \in Nat /\ Count(cells, v) = Cardinality(Holding(cells, {v}))
<1>1. Len(cells) \in Nat /\ DOMAIN cells = 1 .. Len(cells)
  OBVIOUS
<1>2. \A v : Holding(cells, {v}) = {i \in DOMAIN cells : cells[i] = v}
  BY DEF Holding
<1>3. \A v : Holding(cells, v) \in SUBSET (1 .. Len(cells))
  BY <1>1 DEF Holding
<1>4. \A v : IsFiniteSet(Holding(cells, v)) /\ Cardinality(Holding(cells, v)) \in Nat
  BY <1>1, <1>3, PlacesAreFinite
<1>5. \A v : Count(cells, v) = Cardinality(Holding(cells, {v}))
  BY <1>2 DEF Count
<1>6. ASSUME NEW v
      PROVE  Count(cells, v) \in Nat /\ Count(cells, v) = Cardinality(Holding(cells, {v}))
  BY <1>4, <1>5
<1>7. IsFiniteSet(Holding(cells, V)) /\ Cardinality(Holding(cells, V)) \in Nat
  BY <1>4
<1>8. QED
  BY <1>2, <1>6, <1>7

\* A value more, and its cells more.
LEMMA HoldingMore ==
  ASSUME NEW X, NEW cells \in Seq(X), NEW V, NEW v, v \notin V
  PROVE  Cardinality(Holding(cells, V \cup {v})) = Cardinality(Holding(cells, V)) + Count(cells, v)
<1> DEFINE A == Holding(cells, V)
           B == Holding(cells, {v})
<1>1. IsFiniteSet(A) /\ IsFiniteSet(B) /\ Cardinality(A) \in Nat
  BY HoldingIs
<1>2. Holding(cells, V \cup {v}) = A \cup B /\ A \cap B = {}
  BY DEF Holding
<1>3. Count(cells, v) = Cardinality(B) /\ Cardinality(B) \in Nat
  BY HoldingIs
<1> HIDE DEF A, B
<1>4. Cardinality(A \cup B) = Cardinality(A) + Cardinality(B) - Cardinality(A \cap B)
  BY <1>1, FS_Union
<1>5. Cardinality(A \cap B) = 0
  BY <1>2, FS_EmptySet
<1> DEFINE a == Cardinality(A)
           b == Cardinality(B)
           c == Cardinality(A \cup B)
<1>6. a \in Nat /\ b \in Nat /\ c = a + b - 0
  BY <1>1, <1>3, <1>4, <1>5
<1> HIDE DEF a, b, c
<1>7. c = a + b
  BY <1>6
<1>8. c = a + Count(cells, v)
  BY <1>3, <1>7 DEF b
<1>9. QED
  BY <1>2, <1>8 DEF a, c, A

\* More values, no fewer cells.
LEMMA HoldingOfMore ==
  ASSUME NEW X, NEW cells \in Seq(X), NEW V, NEW W, V \subseteq W
  PROVE  Cardinality(Holding(cells, V)) <= Cardinality(Holding(cells, W))
<1>1. IsFiniteSet(Holding(cells, W))
  BY HoldingIs
<1>2. Holding(cells, V) \in SUBSET Holding(cells, W)
  BY DEF Holding
<1>3. QED
  BY <1>1, <1>2, FS_Subset

\* The cells of a column: a value or nothing each.
IsColumnOfCells(cells) == cells \in Seq(Int \cup {None})

Present(cells) == ToSet(NonNull(cells))

LEMMA NonNullIs ==
  ASSUME NEW cells, IsColumnOfCells(cells)
  PROVE  /\ NonNull(cells) \in Seq(Int)
         /\ Len(NonNull(cells)) \in Nat
         /\ Len(NonNull(cells)) = Cardinality(Holding(cells, Present(cells)))
         /\ Present(cells) \subseteq Int
         /\ IsFiniteSet(Present(cells))
         /\ Present(cells) = {cells[i] : i \in {j \in DOMAIN cells : cells[j] # None}}
<1> DEFINE P == {i \in DOMAIN cells : cells[i] # None}
           u == NonNull(cells)
           X == Int \cup {None}
<1>1. cells \in Seq(X) /\ P \in SUBSET (DOMAIN cells)
  BY DEF IsColumnOfCells
<1>2. u = Picked(cells, P)
  BY DEF NonNull
<1>3. u \in Seq(X) /\ Len(u) = Cardinality(P) /\ Len(u) \in Nat
  BY <1>1, <1>2, PickedIs
<1>4. ToSet(u) = {cells[i] : i \in P} /\ \A k \in DOMAIN u : \E i \in P : u[k] = cells[i]
  <2> HIDE DEF P
  <2>1. /\ \A k \in DOMAIN Picked(cells, P) : \E i \in P : Picked(cells, P)[k] = cells[i]
        /\ ToSet(Picked(cells, P)) = {cells[i] : i \in P}
    BY <1>1, PickedElements
  <2>2. QED
    BY <1>2, <2>1
<1>5. \A i \in P : cells[i] \in Int
  BY <1>1
<1>6. \A k \in 1 .. Len(u) : u[k] \in Int
  BY <1>3, <1>4, <1>5
<1>7. u \in Seq(Int)
  BY <1>3, <1>6
<1>8. ToSet(u) \subseteq Int
  BY <1>4, <1>5
<1>9. IsFiniteSet(ToSet(u))
  <2> DEFINE n == Len(u)
  <2>1. u \in Surjection(1 .. n, ToSet(u))
    <3>1. DOMAIN u = 1 .. n /\ u = [i \in 1 .. n |-> u[i]]
      BY <1>3
    <3>2. u \in [1 .. n -> ToSet(u)] /\ \A x \in ToSet(u) : \E i \in 1 .. n : u[i] = x
      BY <3>1 DEF ToSet
    <3>3. QED
      BY <3>2 DEF Surjection
  <2>2. IsFiniteSet(1 .. n)
    BY <1>3, IntervalIs
  <2>3. QED
    BY <2>1, <2>2, FS_Surjection
<1>10. Holding(cells, ToSet(u)) = P
  BY <1>4 DEF Holding
<1>11. QED
  BY <1>3, <1>4, <1>7, <1>8, <1>9, <1>10 DEF Present

\* The most frequent values of a column, each with how often it occurs.
GroupsAre(top, cells, k) ==
  LET V == Present(cells)
      n == Cardinality(V)
      m == IF k <= n THEN k ELSE n
  IN /\ n \in Nat /\ m \in Nat
     /\ top \in Seq([value : Int, count : Nat]) /\ Len(top) = m
     /\ \A i \in 1 .. m : top[i].value \in V /\ top[i].count = Count(cells, top[i].value)
     /\ \A i, j \in 1 .. m : top[i].value = top[j].value => i = j
     /\ \A v \in V : \/ \E i \in 1 .. m : top[i].value = v
                     \/ m = k /\ \A i \in 1 .. m : top[i].count >= Count(cells, v)

LEMMA GroupsComeBack ==
  ASSUME NEW cells, IsColumnOfCells(cells), NEW k \in Nat
  PROVE  GroupsAre(TopGroups(cells, k), cells, k)
<1> DEFINE V == Present(cells)
           n == Cardinality(V)
           m == IF k <= n THEN k ELSE n
           values == SetToSeq(V)
           scores == [i \in 1 .. n |-> Count(cells, values[i])]
           by == Ranking(scores)
           top == TopGroups(cells, k)
<1>1. IsFiniteSet(V) /\ V \subseteq Int
  BY NonNullIs
<1>2. /\ n \in Nat
      /\ values \in [1 .. n -> V]
      /\ \A i, j \in 1 .. n : values[i] = values[j] => i = j
      /\ \A x \in V : \E i \in 1 .. n : values[i] = x
  BY <1>1, SetToSeqIs
<1>3. \A v : Count(cells, v) \in Nat
  BY HoldingIs DEF IsColumnOfCells
<1>4. scores \in [1 .. n -> Int] /\ \A i \in 1 .. n : scores[i] = Count(cells, values[i])
  BY <1>3
<1>5. /\ by \in [1 .. n -> 1 .. n]
      /\ \A j \in 1 .. n : \E l \in 1 .. n : by[l] = j
      /\ \A h, l \in 1 .. n : h < l => by[h] \in PlacesAhead(scores, by[l])
  <2> HIDE DEF scores, n
  <2>1. QED
    BY <1>2, <1>4, RankingIs
<1>6. m \in Nat /\ m <= n /\ m <= k /\ (m = k \/ m = n)
  BY <1>2
<1>7. top = [i \in 1 .. m |-> [value |-> values[by[i]], count |-> Count(cells, values[by[i]])]]
  <2>1. DOMAIN values = 1 .. n
    BY <1>2
  <2>2. DOMAIN by = 1 .. n
    BY <1>5
  <2> HIDE DEF n, values
  <2>3. by = Ranking([i \in DOMAIN values |-> Count(cells, values[i])])
    BY <2>1
  <2>4. Len(by) = n
    BY <1>2, <2>2
  <2>5. Min({k, Len(by)}) = m
    BY <1>2, <2>4, LesserIs
  <2>6. values = SetToSeq(ToSet(NonNull(cells)))
    BY DEF values, Present
  <2> HIDE DEF by, m
  <2>7. QED
    BY <2>3, <2>5, <2>6 DEF TopGroups
<1> HIDE DEF n, m, values, by, top
<1>8. \A h, l \in 1 .. n : h # l => by[h] # by[l] /\ (h < l => scores[by[h]] >= scores[by[l]])
  <2>1. \A h, l \in 1 .. n : h < l =>
          \/ scores[by[h]] > scores[by[l]]
          \/ scores[by[h]] = scores[by[l]] /\ by[h] < by[l]
    BY <1>4, <1>5 DEF PlacesAhead
  <2>2. \A l \in 1 .. n : by[l] \in Int /\ scores[by[l]] \in Int /\ l \in Int
    BY <1>4, <1>5
  <2> HIDE DEF scores
  <2>3. SUFFICES ASSUME NEW h \in 1 .. n, NEW l \in 1 .. n, h # l
                 PROVE  by[h] # by[l] /\ (h < l => scores[by[h]] >= scores[by[l]])
    OBVIOUS
  <2>4. h < l \/ l < h
    BY <2>2, <2>3
  <2>5. QED
    BY <2>1, <2>2, <2>4
<1>9. \A i \in 1 .. m : i \in 1 .. n /\ by[i] \in 1 .. n /\ values[by[i]] \in V /\ values[by[i]] \in Int
  <2>1. \A i \in 1 .. m : i \in 1 .. n
    BY <1>2, <1>6
  <2>2. \A i \in 1 .. n : by[i] \in 1 .. n /\ values[by[i]] \in V
    BY <1>2, <1>5
  <2>3. QED
    BY <1>1, <2>1, <2>2
<1>10. \A i \in 1 .. m : /\ top[i] = [value |-> values[by[i]], count |-> Count(cells, values[by[i]])]
                         /\ top[i] \in [value : Int, count : Nat]
                         /\ top[i].count = scores[by[i]]
  BY <1>3, <1>4, <1>7, <1>9
<1> DEFINE value(i) == values[by[i]]
<1>10a. ASSUME NEW i \in 1 .. m
        PROVE  top[i].value = value(i) /\ top[i].count = Count(cells, value(i))
  <2>1. top[i] = [value |-> value(i), count |-> Count(cells, value(i))]
    BY <1>10
  <2> HIDE DEF value
  <2>2. QED
    BY <2>1
<1>11. top \in Seq([value : Int, count : Nat]) /\ Len(top) = m
  <2>1. top \in [1 .. m -> [value : Int, count : Nat]]
    BY <1>7, <1>10
  <2>2. QED
    BY <1>6, <2>1, RowIs
<1>12. \A i, j \in 1 .. m : top[i].value = top[j].value => i = j
  <2>1. SUFFICES ASSUME NEW i \in 1 .. m, NEW j \in 1 .. m, top[i].value = top[j].value
                 PROVE  i = j
    OBVIOUS
  <2>2. values[by[i]] = values[by[j]]
    BY <1>10a, <2>1
  <2>3. by[i] = by[j]
    BY <1>2, <1>9, <2>2
  <2>4. QED
    BY <1>8, <1>9, <2>3
<1>13. ASSUME NEW v \in V
       PROVE  \/ \E i \in 1 .. m : top[i].value = v
              \/ m = k /\ \A i \in 1 .. m : top[i].count >= Count(cells, v)
  <2>1. PICK j \in 1 .. n : values[j] = v
    BY <1>2
  <2>2. PICK l \in 1 .. n : by[l] = j
    BY <1>5
  <2>3. CASE l \in 1 .. m
    BY <1>10a, <2>1, <2>2, <2>3
  <2>4. CASE l \notin 1 .. m
    <3>1. m < l /\ m = k
      BY <1>2, <1>6, <2>4
    <3>2. \A i \in 1 .. m : i \in 1 .. n /\ i < l /\ i # l
      BY <1>2, <1>6, <3>1
    <3>3. \A i \in 1 .. m : top[i].count >= scores[by[l]]
      BY <1>8, <1>10, <3>2
    <3>4. scores[by[l]] = Count(cells, v)
      BY <1>4, <2>1, <2>2
    <3>5. QED
      BY <3>1, <3>3, <3>4
  <2>5. QED
    BY <2>3, <2>4
<1>14. \A i \in 1 .. m : top[i].value \in V /\ top[i].count = Count(cells, top[i].value)
  BY <1>9, <1>10a
<1>15. QED
  BY <1>2, <1>6, <1>11, <1>12, <1>13, <1>14 DEF GroupsAre, V, n, m, top

\* What the groups that came back hold.
LEMMA TotalIs ==
  ASSUME NEW cells, IsColumnOfCells(cells), NEW k \in Nat, NEW top, GroupsAre(top, cells, k)
  PROVE  /\ TotalNonNull(top) = Cardinality(Holding(cells, {top[i].value : i \in 1 .. Len(top)}))
         /\ TotalNonNull(top) \in Nat
         /\ TotalNonNull(top) <= Len(NonNull(cells))
         /\ \A i \in 1 .. Len(top) : top[i].count <= TotalNonNull(top)
         /\ Cardinality(Present(cells)) <= k => TotalNonNull(top) = Len(NonNull(cells))
<1> DEFINE m == Len(top)
           of(n) == {top[i].value : i \in 1 .. n}
           held(n) == Cardinality(Holding(cells, of(n)))
           step == [i \in 1 .. m |-> [v \in Nat |-> v + top[i].count]]
           Is(f) == f = [n \in 0 .. m |-> IF n = 0 THEN 0 ELSE f[n - 1] + top[n].count]
<1>1. /\ m \in Nat /\ top \in Seq([value : Int, count : Nat])
      /\ \A i \in 1 .. m : top[i].value \in Present(cells) /\ top[i].count = Count(cells, top[i].value)
      /\ \A i, j \in 1 .. m : top[i].value = top[j].value => i = j
      /\ \A v \in Present(cells) : m = k \/ \E i \in 1 .. m : top[i].value = v
      /\ m = IF k <= Cardinality(Present(cells)) THEN k ELSE Cardinality(Present(cells))
  BY DEF GroupsAre
<1>2. \A i \in 1 .. m : top[i].count \in Nat
  <2> DEFINE R == [value : Int, count : Nat]
  <2>1. top \in Seq(R)
    BY <1>1
  <2>2. \A r \in R : r.count \in Nat
    OBVIOUS
  <2> HIDE DEF R
  <2>3. \A i \in 1 .. m : top[i] \in R
    BY <2>1
  <2>4. QED
    BY <2>2, <2>3
<1>3. step \in [1 .. m -> [Nat -> Nat]]
  BY <1>2
<1>4. PICK g \in [0 .. m -> Nat] : g[0] = 0 /\ \A i \in 1 .. m : g[i] = step[i][g[i - 1]]
  <2>1. IsIteration(m, Nat, 0, step)
    BY <1>1, <1>3 DEF IsIteration
  <2> HIDE DEF m, step
  <2>2. QED
    BY <2>1, Iteration
<1>5. \A i \in 1 .. m : g[i] = g[i - 1] + top[i].count
  <2>1. SUFFICES ASSUME NEW i \in 1 .. m
                 PROVE  g[i] = g[i - 1] + top[i].count
    OBVIOUS
  <2>2. i - 1 \in 0 .. m
    BY <1>1
  <2>3. g[i - 1] \in Nat
    BY <2>2
  <2>4. QED
    BY <1>4, <2>3
<1>6. Is(g)
  <2>1. \A n \in 0 .. m : n # 0 => n \in 1 .. m
    BY <1>1
  <2>2. \A n \in 0 .. m : g[n] = IF n = 0 THEN 0 ELSE g[n - 1] + top[n].count
    BY <1>4, <1>5, <2>1
  <2>3. QED
    BY <2>2
<1>7. PICK f : f = (CHOOSE e : Is(e)) /\ Is(f)
  <2> HIDE DEF Is
  <2>1. QED
    BY <1>6
<1>8. TotalNonNull(top) = f[m]
  BY <1>7 DEF TotalNonNull
<1>9. f[0] = 0 /\ \A n \in 1 .. m : f[n] = f[n - 1] + top[n].count
  <2>1. \A n \in 0 .. m : f[n] = IF n = 0 THEN 0 ELSE f[n - 1] + top[n].count
    BY <1>7
  <2>2. 0 \in 0 .. m /\ \A n \in 1 .. m : n \in 0 .. m /\ n # 0
    BY <1>1
  <2>3. QED
    BY <2>1, <2>2
<1>10. f[0] = held(0)
  <2>1. of(0) = {}
    OBVIOUS
  <2>2. Holding(cells, {}) = {}
    BY DEF Holding
  <2>3. held(0) = 0
    BY <2>1, <2>2, FS_EmptySet
  <2>4. QED
    BY <1>9, <2>3
<1>11. ASSUME NEW n \in 1 .. m
       PROVE  held(n) = held(n - 1) + top[n].count
  <2>1. of(n) = of(n - 1) \cup {top[n].value}
    <3>1. 1 .. n = (1 .. n - 1) \cup {n}
      BY <1>1
    <3>2. QED
      BY <3>1
  <2>2. top[n].value \notin of(n - 1)
    <3>1. \A i \in 1 .. n - 1 : i \in 1 .. m /\ i # n
      BY <1>1
    <3>2. QED
      BY <1>1, <3>1
  <2>3. cells \in Seq(Int \cup {None})
    BY DEF IsColumnOfCells
  <2> HIDE DEF of
  <2>4. Cardinality(Holding(cells, of(n - 1) \cup {top[n].value})) =
          Cardinality(Holding(cells, of(n - 1))) + Count(cells, top[n].value)
    BY <2>2, <2>3, HoldingMore
  <2>5. QED
    BY <1>1, <2>1, <2>4
<1>12. \A n \in 0 .. m : f[n] = held(n)
  <2> DEFINE W == {n \in Nat : n <= m => f[n] = held(n)}
  <2>1. 0 \in W
    BY <1>10
  <2>2. ASSUME NEW n \in W
        PROVE  n + 1 \in W
    <3>1. SUFFICES ASSUME n + 1 <= m
                   PROVE  f[n + 1] = held(n + 1)
      OBVIOUS
    <3>2. n \in Nat /\ n <= m /\ f[n] = held(n)
      BY <1>1, <3>1
    <3>3. n + 1 \in 1 .. m /\ n + 1 - 1 = n
      BY <1>1, <3>1, <3>2
    <3> HIDE DEF held, of
    <3>4. held(n + 1) = held(n + 1 - 1) + top[n + 1].count /\ f[n + 1] = f[n + 1 - 1] + top[n + 1].count
      BY <1>9, <1>11, <3>3
    <3>5. QED
      BY <3>2, <3>3, <3>4
  <2>3. W = Nat
    <3>1. W \in SUBSET Nat
      OBVIOUS
    <3> HIDE DEF W
    <3>2. QED
      BY <2>1, <2>2, <3>1, Induction
  <2> HIDE DEF held
  <2>4. QED
    BY <1>1, <2>3
<1>13. TotalNonNull(top) = held(m)
  <2>1. m \in 0 .. m
    BY <1>1
  <2> HIDE DEF held, m
  <2>2. QED
    BY <1>8, <1>12, <2>1
<1>14. /\ held(m) \in Nat
       /\ of(m) \subseteq Present(cells)
       /\ held(m) <= Cardinality(Holding(cells, Present(cells)))
       /\ \A i \in 1 .. m : Count(cells, top[i].value) <= held(m)
  <2>1. cells \in Seq(Int \cup {None})
    BY DEF IsColumnOfCells
  <2>2. of(m) \subseteq Present(cells) /\ \A i \in 1 .. m : {top[i].value} \subseteq of(m)
    BY <1>1
  <2> HIDE DEF of
  <2>3. held(m) \in Nat /\ \A v : Count(cells, v) = Cardinality(Holding(cells, {v}))
    BY <2>1, HoldingIs
  <2>4. held(m) <= Cardinality(Holding(cells, Present(cells)))
    BY <2>1, <2>2, HoldingOfMore
  <2>5. \A i \in 1 .. m : Cardinality(Holding(cells, {top[i].value})) <= held(m)
    BY <2>1, <2>2, HoldingOfMore
  <2>6. QED
    BY <2>2, <2>3, <2>4, <2>5
<1>15. Len(NonNull(cells)) = Cardinality(Holding(cells, Present(cells)))
  BY NonNullIs
<1>16. ASSUME Cardinality(Present(cells)) <= k
       PROVE  of(m) = Present(cells)
  <2>1. of(m) \in SUBSET Present(cells) /\ IsFiniteSet(Present(cells))
    BY <1>14, NonNullIs
  <2>2. Cardinality(Present(cells)) \in Nat
    BY DEF GroupsAre
  <2>3. m = Cardinality(Present(cells))
    BY <1>1, <1>16, <2>2
  <2> DEFINE e == [i \in 1 .. m |-> top[i].value]
  <2>4. /\ e \in [1 .. m -> of(m)]
        /\ \A i, j \in 1 .. m : e[i] = e[j] => i = j
        /\ \A x \in of(m) : \E i \in 1 .. m : e[i] = x
    BY <1>1
  <2>5. IsFiniteSet(1 .. m) /\ Cardinality(1 .. m) = m
    BY <1>1, IntervalIs
  <2> HIDE DEF e, of
  <2>6. Cardinality(of(m)) = m
    BY <2>4, <2>5, SameSize
  <2>7. QED
    BY <2>1, <2>3, <2>6, FS_Subset
<1> HIDE DEF held, of, m
<1>17. Cardinality(Present(cells)) <= k => held(m) = Len(NonNull(cells))
  BY <1>15, <1>16 DEF held
<1>18. \A i \in 1 .. m : top[i].count <= TotalNonNull(top)
  BY <1>1, <1>13, <1>14
<1>19. QED
  BY <1>13, <1>14, <1>15, <1>17, <1>18 DEF held, of, m

\* What is kept of the values that came back.
KeptIs(s, top, cells, total) ==
  /\ s.values \in Seq(Shares) /\ Len(s.values) = Len(top)
  /\ \A i \in 1 .. Len(top) : s.values[i].share = <<Count(cells, s.values[i].value), total>>
  /\ \A i \in 1 .. Len(top) : \E j \in 1 .. Len(top) : s.values[i].value = top[j].value
  /\ \A j \in 1 .. Len(top) : \E i \in 1 .. Len(top) : s.values[i].value = top[j].value
  /\ \A v \in Present(cells) : Len(top) > 0 /\ Count(cells, v) <= Count(cells, s.values[1].value)

LEMMA CategoricalIs ==
  ASSUME NEW cells, IsColumnOfCells(cells), NEW policy, policy.topK \in Nat, policy.topK # 0,
         NEW top, GroupsAre(top, cells, policy.topK),
         NEW total \in Nat, NEW nulls, NEW distinct,
         NEW s, s = CategoricalSample(top, total, nulls, distinct, policy)
  PROVE  /\ KeptIs(s, top, cells, total)
         /\ s.nulls = NullFraction(nulls, total)
         /\ s.sentinel = IF s.values # <<>> /\ Exceeds(s.values[1].share) THEN s.values[1] ELSE None
<1> DEFINE m == Len(top)
           scores == [i \in 1 .. m |-> top[i].count]
           by == Ranking(scores)
           value(i) == top[by[i]].value
           count(i) == top[by[i]].count
           values == [i \in 1 .. m |-> [value |-> value(i), share |-> <<count(i), total>>]]
           R == [value : Int, count : Nat]
           Sample(first) ==
             LET order == Ranking([i \in DOMAIN first |-> first[i].count])
                 kept == [i \in DOMAIN order |->
                            [value |-> first[order[i]].value, share |-> <<first[order[i]].count, total>>]]
             IN [values |-> kept,
                 sentinel |-> IF kept # <<>> /\ Exceeds(kept[1].share) THEN kept[1] ELSE None,
                 nulls |-> NullFraction(nulls, total), distinct |-> distinct]
<1>1. /\ m \in Nat /\ top \in Seq(R)
      /\ \A i \in 1 .. m : top[i].value \in Present(cells) /\ top[i].count = Count(cells, top[i].value)
      /\ \A v \in Present(cells) : \/ \E i \in 1 .. m : top[i].value = v
                                   \/ m = policy.topK /\ \A i \in 1 .. m : top[i].count >= Count(cells, v)
      /\ m <= policy.topK
  BY DEF GroupsAre
<1>2. \A r \in R : r.value \in Int /\ r.count \in Nat
  OBVIOUS
<1>3. \A i \in 1 .. m : top[i] \in R
  <2> HIDE DEF R
  <2>1. QED
    BY <1>1
<1>4. \A i \in 1 .. m : top[i].value \in Int /\ top[i].count \in Nat
  <2> HIDE DEF R, m
  <2>1. QED
    BY <1>2, <1>3
<1>5. SubSeq(top, 1, Min({policy.topK, m})) = top
  <2>1. Min({policy.topK, m}) = m
    <3>1. policy.topK \in Int /\ m \in Int /\ m <= policy.topK
      BY <1>1
    <3>2. Min({policy.topK, m}) = IF policy.topK <= m THEN policy.topK ELSE m
      BY <3>1, LesserIs
    <3> HIDE DEF m
    <3>3. QED
      BY <3>1, <3>2
  <2>2. SubSeq(top, 1, m) = top
    <3> HIDE DEF R
    <3>1. SubSeq(top, 1, m) \in Seq(R) /\ Len(SubSeq(top, 1, m)) = m /\ \A i \in 1 .. m : SubSeq(top, 1, m)[i] = top[i]
      BY <1>1
    <3>2. QED
      BY <1>1, <3>1
  <2>3. QED
    BY <2>1, <2>2
<1>6. scores \in [1 .. m -> Int] /\ \A i \in 1 .. m : scores[i] = top[i].count
  BY <1>4
<1>7. /\ by \in [1 .. m -> 1 .. m]
      /\ \A j \in 1 .. m : \E k \in 1 .. m : by[k] = j
      /\ \A k, l \in 1 .. m : k < l => by[k] \in PlacesAhead(scores, by[l])
  <2> HIDE DEF scores, m
  <2>1. QED
    BY <1>1, <1>6, RankingIs
<1>8. DOMAIN top = 1 .. m /\ DOMAIN by = 1 .. m
  BY <1>1, <1>7
<1>9. /\ s.values = values
      /\ s.sentinel = IF values # <<>> /\ Exceeds(values[1].share) THEN values[1] ELSE None
      /\ s.nulls = NullFraction(nulls, total)
  <2>1. by = Ranking([i \in DOMAIN top |-> top[i].count])
    BY <1>8
  <2>2. values = [i \in DOMAIN by |-> [value |-> top[by[i]].value, share |-> <<top[by[i]].count, total>>]]
    BY <1>8
  <2>3. s = Sample(SubSeq(top, 1, Min({policy.topK, m})))
    BY DEF CategoricalSample
  <2>4. s = Sample(top)
    <3> HIDE DEF Sample
    <3>1. QED
      BY <1>5, <2>3
  <2> HIDE DEF values, by
  <2>5. s = [values |-> values,
             sentinel |-> IF values # <<>> /\ Exceeds(values[1].share) THEN values[1] ELSE None,
             nulls |-> NullFraction(nulls, total), distinct |-> distinct]
    BY <2>1, <2>2, <2>4
  <2>6. QED
    BY <2>5
<1>10. \A i \in 1 .. m : by[i] \in 1 .. m /\ value(i) \in Int /\ count(i) \in Nat /\ count(i) = Count(cells, value(i))
  BY <1>1, <1>4, <1>7
<1>11. /\ values \in [1 .. m -> Shares]
       /\ \A i \in 1 .. m : /\ values[i] = [value |-> value(i), share |-> <<count(i), total>>]
                            /\ values[i].value = value(i) /\ values[i].share = <<count(i), total>>
  <2> HIDE DEF value, count
  <2>1. \A i \in 1 .. m : [value |-> value(i), share |-> <<count(i), total>>] \in Shares
    BY <1>10 DEF Shares
  <2>2. QED
    BY <2>1
<1>12. values \in Seq(Shares) /\ Len(values) = m
  <2> HIDE DEF values
  <2>1. QED
    BY <1>1, <1>11, RowIs
<1> HIDE DEF values
<1>13. /\ \A i \in 1 .. m : values[i].share = <<Count(cells, values[i].value), total>>
       /\ \A i \in 1 .. m : \E j \in 1 .. m : values[i].value = top[j].value
  <2>1. \A i \in 1 .. m : values[i].value = top[by[i]].value /\ by[i] \in 1 .. m
    BY <1>10, <1>11
  <2> HIDE DEF value, count
  <2>2. \A i \in 1 .. m : values[i].share = <<Count(cells, values[i].value), total>>
    BY <1>10, <1>11
  <2>3. QED
    BY <2>1, <2>2
<1>14. \A j \in 1 .. m : \E i \in 1 .. m : values[i].value = top[j].value
  <2>1. \A i \in 1 .. m : values[i].value = top[by[i]].value
    BY <1>11
  <2>2. SUFFICES ASSUME NEW j \in 1 .. m
                 PROVE  \E i \in 1 .. m : values[i].value = top[j].value
    OBVIOUS
  <2>3. PICK i \in 1 .. m : by[i] = j
    BY <1>7
  <2>4. QED
    BY <2>1, <2>3
<1>15. ASSUME NEW v \in Present(cells)
       PROVE  m > 0 /\ Count(cells, v) <= Count(cells, values[1].value)
  <2>1. m > 0
    BY <1>1
  <2>2. 1 \in 1 .. m /\ values[1].value = value(1) /\ count(1) = Count(cells, value(1)) /\ by[1] \in 1 .. m
    BY <1>1, <1>10, <1>11, <2>1
  <2>3. \A j \in 1 .. m : top[j].count <= count(1)
    <3>1. SUFFICES ASSUME NEW j \in 1 .. m
                   PROVE  top[j].count <= count(1)
      OBVIOUS
    <3>2. PICK l \in 1 .. m : by[l] = j
      BY <1>7
    <3>3. CASE l = 1
      BY <1>4, <3>2, <3>3
    <3>4. CASE l # 1
      <4>1. 1 < l
        BY <1>1, <3>4
      <4>2. by[1] \in PlacesAhead(scores, j)
        BY <1>7, <2>2, <3>2, <4>1
      <4>3. scores[by[1]] >= scores[j]
        <5>1. scores[by[1]] \in Int /\ scores[j] \in Int
          BY <1>6, <2>2
        <5> HIDE DEF scores, by
        <5>2. QED
          BY <4>2, <5>1 DEF PlacesAhead
      <4>4. QED
        BY <1>4, <1>6, <2>2, <4>3
    <3>5. QED
      BY <3>3, <3>4
  <2>4. CASE \E i \in 1 .. m : top[i].value = v
    BY <1>1, <2>1, <2>2, <2>3, <2>4
  <2>5. CASE \A i \in 1 .. m : top[i].count >= Count(cells, v)
    <3>1. count(1) >= Count(cells, v)
      BY <2>2, <2>5
    <3>2. count(1) \in Nat /\ Count(cells, v) \in Nat
      BY <1>10, <2>2, HoldingIs DEF IsColumnOfCells
    <3>3. QED
      BY <2>1, <2>2, <3>1, <3>2
  <2>6. QED
    BY <1>1, <2>4, <2>5
<1>16. QED
  BY <1>9, <1>12, <1>13, <1>14, <1>15 DEF KeptIs

\* A sample of values is true of the column.
LEMMA ValuesAreKept ==
  ASSUME NEW col, IsColumnOfCells(col.cells), NEW policy, policy.topK \in Nat, policy.topK # 0,
         NEW failing, NEW distinct, NEW top, top = TopGroups(col.cells, policy.topK),
         NEW s, s = CategoricalSample(top, TotalNonNull(top), NullCount(col, failing), distinct, policy)
  PROVE  ValuesAreHonest(s, col, policy, failing)
<1> DEFINE cells == col.cells
           k == policy.topK
           total == TotalNonNull(top)
           m == Len(top)
           nulls == NullCount(col, failing)
           rows == Len(NonNull(cells))
           V == Present(cells)
<1>1. GroupsAre(top, cells, k)
  BY GroupsComeBack
<1>2. /\ total \in Nat /\ total <= rows
      /\ \A i \in 1 .. m : top[i].count <= total
      /\ Cardinality(V) <= k => total = rows
  BY <1>1, TotalIs
<1>2a. /\ KeptIs(s, top, cells, total)
       /\ s.nulls = NullFraction(nulls, total)
       /\ s.sentinel = IF s.values # <<>> /\ Exceeds(s.values[1].share) THEN s.values[1] ELSE None
  <2>1. total \in Nat
    BY <1>2
  <2> HIDE DEF total
  <2>2. s = CategoricalSample(top, total, nulls, distinct, policy)
    BY DEF total
  <2> HIDE DEF nulls
  <2>3. QED
    BY <1>1, <2>1, <2>2, CategoricalIs
<1>3. /\ s.values \in Seq(Shares) /\ Len(s.values) = m
      /\ \A i \in 1 .. m : s.values[i].share = <<Count(cells, s.values[i].value), total>>
      /\ \A v \in V : m > 0 /\ Count(cells, v) <= Count(cells, s.values[1].value)
  BY <1>2a DEF KeptIs
<1>3a. /\ \A i \in 1 .. m : \E j \in 1 .. m : s.values[i].value = top[j].value
       /\ \A j \in 1 .. m : \E i \in 1 .. m : s.values[i].value = top[j].value
  BY <1>2a DEF KeptIs
<1>4. /\ m \in Nat
      /\ \A i \in 1 .. m : top[i].value \in V /\ top[i].count = Count(cells, top[i].value)
      /\ \A v \in V : m = k \/ \E i \in 1 .. m : top[i].value = v
      /\ Cardinality(V) \in Nat /\ m = IF k <= Cardinality(V) THEN k ELSE Cardinality(V)
      /\ \A i, j \in 1 .. m : top[i].value = top[j].value => i = j
  BY <1>1 DEF GroupsAre
<1>5. V = ToSet(NonNull(cells)) /\ rows \in Nat /\ \A v : Count(cells, v) \in Nat
  BY NonNullIs, HoldingIs DEF Present, IsColumnOfCells
<1>6. DOMAIN s.values = 1 .. m
  BY <1>3
<1> DEFINE c == Count(cells, s.values[1].value)
<1>7. \A v \in V : Over(cells, v) <=> rows > 0 /\ 100 * Count(cells, v) > 40 * rows
  BY DEF Over, Exceeds, SentinelThreshold
<1>8. m > 0 => /\ s.values[1].share = <<c, total>> /\ s.values[1] \in Shares
               /\ c <= total /\ c \in Nat
               /\ Exceeds(s.values[1].share) <=> total > 0 /\ 100 * c > 40 * total
               /\ s.values # <<>>
  <2>1. SUFFICES ASSUME m > 0
                 PROVE  /\ s.values[1].share = <<c, total>> /\ s.values[1] \in Shares
                        /\ c <= total /\ c \in Nat
                        /\ Exceeds(s.values[1].share) <=> total > 0 /\ 100 * c > 40 * total
                        /\ s.values # <<>>
    OBVIOUS
  <2>2. 1 \in 1 .. m
    BY <1>4, <2>1
  <2>3. s.values[1].share = <<c, total>>
    BY <1>3, <2>2
  <2>4. s.values[1] \in Shares /\ s.values # <<>>
    BY <1>3, <2>1, <2>2
  <2>5. Exceeds(s.values[1].share) <=> total > 0 /\ 100 * c > 40 * total
    BY <2>3 DEF Exceeds, SentinelThreshold
  <2>7. PICK j \in 1 .. m : s.values[1].value = top[j].value
    BY <1>3a, <2>2
  <2>8. c = top[j].count /\ c <= total /\ c \in Nat
    <3>1. top[j].count <= total
      BY <1>2
    <3>2. top[j].count = Count(cells, top[j].value)
      BY <1>4
    <3>3. QED
      BY <1>5, <2>7, <3>1, <3>2
  <2>9. QED
    BY <2>3, <2>4, <2>5, <2>8
<1>9. ASSUME NEW v \in V, Over(cells, v)
      PROVE  s.sentinel # None /\ Count(cells, s.sentinel.value) >= Count(cells, v)
  <2> DEFINE b == Count(cells, v)
  <2>1. m > 0 /\ b <= c /\ b \in Nat /\ rows > 0 /\ 100 * b > 40 * rows
    BY <1>3, <1>5, <1>7, <1>9
  <2>2. c <= total /\ c \in Nat /\ (Exceeds(s.values[1].share) <=> total > 0 /\ 100 * c > 40 * total)
    BY <1>8, <2>1
  <2> HIDE DEF b, c, total, rows
  <2>3. total > 0 /\ 100 * c > 40 * total
    BY <1>2, <1>5, <2>1, <2>2 DEF rows, total
  <2>4. s.sentinel = s.values[1]
    BY <1>2a, <1>8, <2>1, <2>2, <2>3
  <2>5. s.sentinel # None
    BY <1>8, <2>1, <2>4, NoneIsNoShare
  <2>6. QED
    BY <2>1, <2>2, <2>4, <2>5 DEF b, c
<1>10. \A i \in DOMAIN s.values : s.values[i].share[1] = Count(cells, s.values[i].value)
  BY <1>3, <1>6
<1>11. ASSUME Cardinality(V) <= k
       PROVE  /\ {s.values[i].value : i \in DOMAIN s.values} = V
              /\ s.sentinel # None => Over(cells, s.sentinel.value)
              /\ "nulls" \notin failing => s.nulls = NullFraction(Count(cells, None), rows)
  <2>1. total = rows
    BY <1>2, <1>11
  <2>2. \A v \in V : \E i \in 1 .. m : top[i].value = v
    <3> DEFINE e == [i \in 1 .. m |-> top[i].value]
               T == {top[i].value : i \in 1 .. m}
    <3>1. /\ e \in [1 .. m -> T]
          /\ \A i, j \in 1 .. m : e[i] = e[j] => i = j
          /\ \A x \in T : \E i \in 1 .. m : e[i] = x
      BY <1>4
    <3>2. T \in SUBSET V /\ IsFiniteSet(V)
      BY <1>4, NonNullIs
    <3>3. IsFiniteSet(1 .. m) /\ Cardinality(1 .. m) = m
      BY <1>4, IntervalIs
    <3>4. m = Cardinality(V)
      BY <1>4, <1>11
    <3>5. T = V
      <4> HIDE DEF e, T, m, V
      <4>1. Cardinality(T) = m
        BY <3>1, <3>3, SameSize
      <4>2. QED
        BY <3>2, <3>4, <4>1, FS_Subset
    <3>6. QED
      BY <3>5
  <2> DEFINE kept(i) == s.values[i].value
             group(j) == top[j].value
  <2>3. /\ \A i \in 1 .. m : \E j \in 1 .. m : kept(i) = group(j)
        /\ \A j \in 1 .. m : \E i \in 1 .. m : kept(i) = group(j)
        /\ \A v \in V : \E j \in 1 .. m : group(j) = v
        /\ \A j \in 1 .. m : group(j) \in V
    BY <1>3a, <1>4, <2>2
  <2> HIDE DEF kept, group, V, m
  <2>4. (\A v \in V : \E i \in 1 .. m : kept(i) = v) /\ \A i \in 1 .. m : kept(i) \in V
    BY <2>3
  <2>5. {kept(i) : i \in DOMAIN s.values} = V
    BY <1>6, <2>4
  <2>6. ASSUME s.sentinel # None
        PROVE  Over(cells, s.sentinel.value)
    <3>1. s.values # <<>> /\ Exceeds(s.values[1].share) /\ s.sentinel = s.values[1]
      BY <1>2a, <2>6
    <3>2. m > 0
      BY <1>3, <1>4, <3>1
    <3>3. 1 \in 1 .. m
      BY <1>4, <3>2
    <3>4. s.values[1].value \in V
      BY <2>4, <3>3 DEF kept
    <3>5. QED
      BY <1>7, <1>8, <2>1, <3>1, <3>2, <3>4
  <2>7. "nulls" \notin failing => s.nulls = NullFraction(Count(cells, None), rows)
    BY <1>2a, <2>1 DEF NullCount
  <2>8. QED
    BY <2>5, <2>6, <2>7 DEF kept
<1>12. QED
  BY <1>5, <1>9, <1>10, <1>11 DEF ValuesAreHonest

InRisingOrder(values) ==
  LET by == Ranking([i \in DOMAIN values |-> -values[i]]) IN [k \in DOMAIN by |-> values[by[k]]]

\* The numbers in order, and how many lie up to each.
LEMMA SortedIs ==
  ASSUME NEW values \in Seq(Int), NEW sorted, sorted = InRisingOrder(values)
  PROVE  /\ sorted \in Seq(Int) /\ Len(sorted) = Len(values) /\ Len(values) \in Nat
         /\ \A k \in 1 .. Len(values) : sorted[k] \in ToSet(values)
         /\ \A k, l \in 1 .. Len(values) : k <= l => sorted[k] <= sorted[l]
         /\ \A k \in 1 .. Len(values) :
              LET n == Cardinality({i \in DOMAIN values : values[i] <= sorted[k]}) IN n \in Nat /\ n >= k
<1> DEFINE n == Len(values)
           scores == [i \in 1 .. n |-> -values[i]]
           by == Ranking(scores)
<1>1. n \in Nat /\ DOMAIN values = 1 .. n /\ \A i \in 1 .. n : values[i] \in Int
  OBVIOUS
<1>2. scores \in [1 .. n -> Int] /\ \A i \in 1 .. n : scores[i] = -values[i]
  BY <1>1
<1>3. sorted = [k \in DOMAIN by |-> values[by[k]]]
  BY <1>1 DEF InRisingOrder
<1>4. /\ by \in [1 .. n -> 1 .. n]
      /\ \A j \in 1 .. n : \E k \in 1 .. n : by[k] = j
      /\ \A k, l \in 1 .. n : k < l => by[k] \in PlacesAhead(scores, by[l])
  <2> HIDE DEF scores, n
  <2>1. QED
    BY <1>1, <1>2, RankingIs
<1> HIDE DEF by
<1>5. sorted = [k \in 1 .. n |-> values[by[k]]]
  BY <1>3, <1>4
<1>6. \A k \in 1 .. n : by[k] \in 1 .. n /\ sorted[k] = values[by[k]] /\ sorted[k] \in Int
  BY <1>1, <1>4, <1>5
<1>7. sorted \in Seq(Int) /\ Len(sorted) = n
  <2>1. sorted \in [1 .. n -> Int]
    BY <1>5, <1>6
  <2> HIDE DEF n
  <2>2. QED
    BY <1>1, <2>1, RowIs
<1>8. \A k \in 1 .. n : sorted[k] \in ToSet(values)
  BY <1>1, <1>6 DEF ToSet
<1>9. ASSUME NEW k \in 1 .. n, NEW l \in 1 .. n, k < l
      PROVE  sorted[k] <= sorted[l] /\ by[k] # by[l]
  <2>1. scores[by[k]] > scores[by[l]] \/ (scores[by[k]] = scores[by[l]] /\ by[k] < by[l])
    <3>1. by[k] \in PlacesAhead(scores, by[l])
      BY <1>4, <1>9
    <3> HIDE DEF scores
    <3>2. QED
      BY <3>1 DEF PlacesAhead
  <2>2. by[k] \in Int /\ by[l] \in Int /\ scores[by[k]] = -sorted[k] /\ scores[by[l]] = -sorted[l]
    <3>1. by[k] \in 1 .. n /\ by[l] \in 1 .. n /\ sorted[k] = values[by[k]] /\ sorted[l] = values[by[l]]
      BY <1>6
    <3> HIDE DEF scores
    <3>2. scores[by[k]] = -values[by[k]] /\ scores[by[l]] = -values[by[l]]
      BY <1>2, <3>1
    <3>3. QED
      BY <3>1, <3>2
  <2>3. sorted[k] \in Int /\ sorted[l] \in Int
    BY <1>6
  <2> HIDE DEF scores
  <2>4. QED
    BY <2>1, <2>2, <2>3
<1>10. \A k, l \in 1 .. n : k <= l => sorted[k] <= sorted[l]
  <2>1. SUFFICES ASSUME NEW k \in 1 .. n, NEW l \in 1 .. n, k <= l
                 PROVE  sorted[k] <= sorted[l]
    OBVIOUS
  <2>2. k = l \/ k < l
    BY <2>1
  <2>3. QED
    BY <1>6, <1>9, <2>2
<1>11. ASSUME NEW k \in 1 .. n
       PROVE  LET b == Cardinality({i \in DOMAIN values : values[i] <= sorted[k]}) IN b \in Nat /\ b >= k
  <2> DEFINE U == {i \in 1 .. n : values[i] <= sorted[k]}
             T == {by[j] : j \in 1 .. k}
             e == [j \in 1 .. k |-> by[j]]
  <2>1. U \in SUBSET (1 .. n) /\ U = {i \in DOMAIN values : values[i] <= sorted[k]}
    BY <1>1
  <2>2. \A j \in 1 .. k : j \in 1 .. n /\ j <= k
    BY <1>1
  <2>3. T \in SUBSET U
    BY <1>6, <1>10, <2>2
  <2>4. \A i, j \in 1 .. k : by[i] = by[j] => i = j
    <3>1. SUFFICES ASSUME NEW i \in 1 .. k, NEW j \in 1 .. k, by[i] = by[j], i # j
                   PROVE  FALSE
      OBVIOUS
    <3>2. i < j \/ j < i
      BY <3>1
    <3>3. QED
      BY <1>9, <2>2, <3>1, <3>2
  <2>5. /\ e \in [1 .. k -> T]
        /\ \A i, j \in 1 .. k : e[i] = e[j] => i = j
        /\ \A x \in T : \E i \in 1 .. k : e[i] = x
    BY <2>4
  <2>6. k \in Nat /\ IsFiniteSet(1 .. k) /\ Cardinality(1 .. k) = k
    BY <1>1, IntervalIs
  <2> HIDE DEF e, T, U, n
  <2>7. Cardinality(T) = k
    BY <2>5, <2>6, SameSize
  <2>8. IsFiniteSet(U) /\ Cardinality(U) \in Nat
    BY <1>1, <2>1, PlacesAreFinite
  <2>9. Cardinality(T) <= Cardinality(U)
    BY <2>3, <2>8, FS_Subset
  <2>10. Cardinality(U) >= k
    BY <2>6, <2>7, <2>8, <2>9
  <2>11. QED
    BY <2>1, <2>8, <2>10
<1>12. QED
  BY <1>1, <1>7, <1>8, <1>10, <1>11

\* Where a percentile lies.
PlaceFor(n, q) == Max({(n * q) \div 100, 1})

LEMMA PlaceIs ==
  ASSUME NEW n \in Nat, n # 0, NEW q \in 0 .. 99
  PROVE  PlaceFor(n, q) \in 1 .. n /\ 100 * PlaceFor(n, q) > q * n - 100
<1> DEFINE k == PlaceFor(n, q)
           a == n * q
           b == a \div 100
<1>1. a \in Nat /\ a <= 99 * n
  <2>1. q \in Nat /\ q <= 99 /\ 99 - q \in Nat
    OBVIOUS
  <2>2. n * q + n * (99 - q) = n * 99 /\ n * (99 - q) \in Nat /\ n * q \in Nat
    BY <2>1
  <2>3. QED
    BY <2>2
<1>2. q * n = a
  OBVIOUS
<1> HIDE DEF a
<1>3. b \in Int /\ 100 * b <= a /\ a < 100 * b + 100
  BY <1>1
<1> HIDE DEF b
<1>4. k = IF b >= 1 THEN b ELSE 1
  BY <1>3, GreaterIs DEF a, b, PlaceFor
<1> HIDE DEF k
<1>5. k \in 1 .. n /\ 100 * k > a - 100
  BY <1>1, <1>3, <1>4
<1>6. QED
  BY <1>2, <1>5 DEF k

\* Places of growing percentiles do not fall.
LEMMA PlacesGrow ==
  ASSUME NEW n \in Nat, NEW q \in Nat, NEW r \in Nat, q <= r
  PROVE  PlaceFor(n, q) <= PlaceFor(n, r)
<1> DEFINE a == n * q
           b == n * r
<1>1. a \in Nat /\ b \in Nat /\ a <= b
  <2>1. r - q \in Nat /\ n * (r - q) \in Nat /\ n * q + n * (r - q) = n * r
    OBVIOUS
  <2>2. QED
    BY <2>1
<1> HIDE DEF a, b
<1> DEFINE c == a \div 100
           d == b \div 100
<1>2. c \in Int /\ d \in Int /\ c <= d
  BY <1>1
<1> HIDE DEF c, d
<1>3. Max({c, 1}) = (IF c >= 1 THEN c ELSE 1) /\ Max({d, 1}) = (IF d >= 1 THEN d ELSE 1)
  BY <1>2, GreaterIs
<1>4. Max({c, 1}) <= Max({d, 1})
  BY <1>2, <1>3
<1>5. QED
  BY <1>4 DEF a, b, c, d, PlaceFor

LEMMA NumbersAre ==
  ASSUME NEW col, IsColumnOfCells(col.cells), NEW policy, policy.sampleRows \in Nat
  PROVE  Numbers(col, TRUE, policy) \in Seq(Int)
<1> DEFINE present == NonNull(col.cells)
           l == Min({policy.sampleRows, Len(present)})
           sampled == SubSeq(present, 1, l)
           P == {i \in DOMAIN sampled : TRUE /\ sampled[i] # NaN}
<1>1. present \in Seq(Int) /\ Len(present) \in Nat
  BY NonNullIs
<1>2. l \in Nat /\ l <= Len(present)
  BY <1>1, LesserIs
<1> HIDE DEF present, l
<1>3. sampled \in Seq(Int)
  BY <1>1, <1>2
<1>4. Numbers(col, TRUE, policy) = Picked(sampled, P)
  BY DEF Numbers, present, l
<1>5. P \in SUBSET DOMAIN sampled
  OBVIOUS
<1> HIDE DEF sampled, P
<1>6. QED
  BY <1>3, <1>4, <1>5, PickedIs

\* The points of a sample of numbers are true of the numbers.
PointsAreHonest(s, seen) ==
  LET upTo(p) == Cardinality({i \in DOMAIN seen : seen[i] <= p})
  IN s.points # <<>> =>
       /\ \A i \in 1 .. 4 : s.points[i] <= s.points[i + 1]
       /\ ToSet(s.points) \subseteq ToSet(seen)
       /\ \A i \in 2 .. 4 : 100 * upTo(s.points[i]) > <<0, 50, 95, 99>>[i] * Len(seen) - 100

LEMMA PointsAreKept ==
  ASSUME NEW values \in Seq(Int), NEW nulls, NEW s, s = NumericSample(values, nulls)
  PROVE  PointsAreHonest(s, values)
<1> DEFINE n == Len(values)
           sorted == InRisingOrder(values)
           place(q) == PlaceFor(n, q)
           points == <<sorted[1], sorted[place(50)], sorted[place(95)], sorted[place(99)], sorted[n]>>
           upTo(p) == Cardinality({i \in DOMAIN values : values[i] <= p})
<1>1. values \in Seq(Int)
  OBVIOUS
<1>2. SUFFICES ASSUME s.points # <<>>
               PROVE  /\ \A i \in 1 .. 4 : s.points[i] <= s.points[i + 1]
                      /\ ToSet(s.points) \subseteq ToSet(values)
                      /\ \A i \in 2 .. 4 : 100 * upTo(s.points[i]) > <<0, 50, 95, 99>>[i] * n - 100
  BY DEF PointsAreHonest
<1>3. values # <<>>
  <2>1. values = <<>> => s = [nulls |-> None, points |-> <<>>]
    BY DEF NumericSample
  <2>2. QED
    BY <1>2, <2>1
<1>4. /\ sorted \in Seq(Int) /\ Len(sorted) = n /\ n \in Nat
      /\ \A k \in 1 .. n : sorted[k] \in ToSet(values)
      /\ \A k, l \in 1 .. n : k <= l => sorted[k] <= sorted[l]
      /\ \A k \in 1 .. n : upTo(sorted[k]) \in Nat /\ upTo(sorted[k]) >= k
  <2> HIDE DEF sorted
  <2>1. sorted = InRisingOrder(values)
    BY DEF sorted
  <2>2. QED
    BY <1>1, <2>1, SortedIs
<1> HIDE DEF sorted
<1>5. s.points = points
  <2>1. s = [nulls |-> NullFraction(nulls, Len(values)),
             points |-> <<sorted[1], Percentile(sorted, 50), Percentile(sorted, 95),
                        Percentile(sorted, 99), sorted[Len(sorted)]>>]
    BY <1>3 DEF NumericSample, sorted, InRisingOrder
  <2>2. QED
    BY <1>4, <2>1 DEF Percentile, PlaceFor
<1>6. n # 0
  BY <1>1, <1>3
<1> HIDE DEF upTo, n
<1>7. \A q \in {50, 95, 99} : place(q) \in 1 .. n /\ 100 * place(q) > q * n - 100
  <2>1. SUFFICES ASSUME NEW q \in {50, 95, 99}
                 PROVE  place(q) \in 1 .. n /\ 100 * place(q) > q * n - 100
    OBVIOUS
  <2>2. q \in 0 .. 99
    OBVIOUS
  <2>3. n \in Nat /\ n # 0
    BY <1>4, <1>6
  <2>4. QED
    BY <2>2, <2>3, PlaceIs
<1>8. place(50) <= place(95) /\ place(95) <= place(99)
  BY <1>4, PlacesGrow
<1> DEFINE a == place(50)
           b == place(95)
           c == place(99)
<1>9. /\ a \in 1 .. n /\ b \in 1 .. n /\ c \in 1 .. n /\ 1 \in 1 .. n /\ n \in 1 .. n
      /\ 1 <= a /\ a <= b /\ b <= c /\ c <= n
      /\ 100 * a > 50 * n - 100 /\ 100 * b > 95 * n - 100 /\ 100 * c > 99 * n - 100
  BY <1>4, <1>6, <1>7, <1>8
<1>10. s.points = <<sorted[1], sorted[a], sorted[b], sorted[c], sorted[n]>>
  BY <1>5
<1> HIDE DEF points, place, a, b, c
<1>11. \A i \in 1 .. 4 : s.points[i] <= s.points[i + 1]
  <2>1. /\ sorted[1] <= sorted[a] /\ sorted[a] <= sorted[b] /\ sorted[b] <= sorted[c] /\ sorted[c] <= sorted[n]
    BY <1>4, <1>9
  <2>2. QED
    BY <1>10, <2>1
<1>12. ToSet(s.points) \subseteq ToSet(values)
  <2>1. {sorted[1], sorted[a], sorted[b], sorted[c], sorted[n]} \subseteq ToSet(values)
    BY <1>4, <1>9
  <2>2. \A i \in DOMAIN s.points : s.points[i] \in {sorted[1], sorted[a], sorted[b], sorted[c], sorted[n]}
    BY <1>10
  <2>3. ToSet(s.points) = {s.points[i] : i \in DOMAIN s.points}
    BY DEF ToSet
  <2>4. QED
    BY <2>1, <2>2, <2>3
<1>13. /\ 100 * upTo(sorted[a]) > 50 * n - 100
       /\ 100 * upTo(sorted[b]) > 95 * n - 100
       /\ 100 * upTo(sorted[c]) > 99 * n - 100
  <2> DEFINE u == upTo(sorted[a])
             v == upTo(sorted[b])
             w == upTo(sorted[c])
  <2>1. u \in Nat /\ v \in Nat /\ w \in Nat /\ u >= a /\ v >= b /\ w >= c
    BY <1>4, <1>9
  <2> HIDE DEF u, v, w
  <2>2. 100 * u > 50 * n - 100 /\ 100 * v > 95 * n - 100 /\ 100 * w > 99 * n - 100
    BY <1>4, <1>9, <2>1
  <2>3. QED
    BY <2>2 DEF u, v, w
<1>14. \A i \in 2 .. 4 : 100 * upTo(s.points[i]) > <<0, 50, 95, 99>>[i] * n - 100
  <2>1. s.points[2] = sorted[a] /\ s.points[3] = sorted[b] /\ s.points[4] = sorted[c]
    BY <1>10
  <2>2. \A i \in 2 .. 4 : i = 2 \/ i = 3 \/ i = 4
    OBVIOUS
  <2>3. QED
    BY <1>13, <2>1, <2>2
<1>15. QED
  BY <1>11, <1>12, <1>14 DEF upTo, n

\* A sample of numbers is true of the column.
LEMMA NumbersAreKept ==
  ASSUME NEW col, IsColumnOfCells(col.cells), NEW policy, policy.sampleRows \in Nat, NEW nulls,
         NEW s, s = NumericSample(Numbers(col, TRUE, policy), nulls)
  PROVE  NumbersAreHonest(s, col, policy)
<1>1. Numbers(col, TRUE, policy) \in Seq(Int)
  BY NumbersAre
<1>2. PointsAreHonest(s, Numbers(col, TRUE, policy))
  BY <1>1, PointsAreKept
<1>3. QED
  BY <1>2 DEF NumbersAreHonest, PointsAreHonest

\* A column to sample, and a policy.
IsSampledColumn(col, policy) ==
  /\ col = [class |-> col.class, stored |-> col.stored, named |-> col.named, marked |-> col.marked,
            cells |-> col.cells]
  /\ IsColumnOfCells(col.cells)
  /\ policy.topK \in Nat /\ policy.topK # 0 /\ policy.sampleRows \in Nat

LEMMA SampleOfColumn ==
  ASSUME NEW col, NEW policy, IsSampledColumn(col, policy), NEW failing,
         NEW c, c.class = col.class, c.cells = col.cells,
         NEW s, s = SampleValues(c, TRUE, policy, failing), s # None
  PROVE  IF IsNumeric(col.class) THEN NumbersAreHonest(s, col, policy)
         ELSE ValuesAreHonest(s, col, policy, failing)
<1>1. IsColumnOfCells(col.cells) /\ policy.topK \in Nat /\ policy.topK # 0 /\ policy.sampleRows \in Nat
  BY DEF IsSampledColumn
<1> DEFINE top == TopGroups(col.cells, policy.topK)
           nulls == NullCount(col, failing)
           distinct == IF "distinct" \in failing THEN None ELSE Cardinality(ToSet(NonNull(col.cells)))
<1>2. NullCount(c, failing) = nulls /\ Numbers(c, TRUE, policy) = Numbers(col, TRUE, policy)
  BY DEF NullCount, Numbers
<1>3. CASE IsNumeric(col.class)
  <2>1. s = NumericSample(Numbers(col, TRUE, policy), nulls)
    BY <1>2, <1>3 DEF SampleValues, IsNumeric, IsCategorical
  <2>2. QED
    BY <1>1, <1>3, <2>1, NumbersAreKept
<1>4. CASE ~IsNumeric(col.class)
  <2>1. IsCategorical(col.class)
    BY <1>4 DEF SampleValues
  <2>2. s = CategoricalSample(top, TotalNonNull(top), nulls, distinct, policy)
    BY <1>2, <1>4, <2>1 DEF SampleValues
  <2>3. ValuesAreHonest(s, col, policy, failing)
    BY <1>1, <2>2, ValuesAreKept
  <2>4. QED
    BY <1>4, <2>3
<1>5. QED
  BY <1>3, <1>4

\* What is kept of the values of a column, of any cells and under any policy, is
\* true of the column, and nothing is kept of one whose name is denied, nor by
\* MySQL of one whose comment is.  sampling.rs
THEOREM SampleIsHonestForAll ==
  ASSUME NEW col, NEW policy, IsSampledColumn(col, policy), NEW failing
  PROVE  SampleIsHonest(col, policy, failing)
<1> DEFINE c == [col EXCEPT !.marked = FALSE]
<1>1. c.class = col.class /\ c.cells = col.cells /\ c.stored = col.stored /\ c.named = col.named
  BY DEF IsSampledColumn
<1> HIDE DEF c
<1>2. ASSUME policy.redaction # None, col.named
      PROVE  Samples(col, policy, failing) = {None}
  <2>1. ShouldRedact(policy.redaction, col) /\ ShouldRedact(policy.redaction, c)
    BY <1>1, <1>2 DEF ShouldRedact
  <2>2. \A decodes : SampleValues(c, decodes, policy, failing) = None /\ SampleValues(col, decodes, policy, failing) = None
    BY <2>1 DEF SampleValues
  <2>3. QED
    BY <2>2 DEF Samples, SqliteSample, PostgresSample, MysqlSample, DuckdbSample, c
<1>3. policy.redaction # None /\ col.marked => MysqlSample(col, policy, failing) = None
  BY DEF MysqlSample, SampleValues, ShouldRedact
<1>4. ASSUME col.stored = (IF IsNumeric(col.class) THEN "number" ELSE "text"),
             NEW s \in Samples(col, policy, failing), s # None
      PROVE  IF IsNumeric(col.class) THEN NumbersAreHonest(s, col, policy)
             ELSE ValuesAreHonest(s, col, policy, failing)
  <2>1. (IsNumeric(col.class) \/ col.stored = "text") = TRUE
    BY <1>4
  <2>2. (IsCategorical(col.class) \/ col.stored # "decimal") = TRUE
    BY <1>4
  <2>3. \/ s = SampleValues(c, TRUE, policy, failing)
        \/ s = SampleValues(col, TRUE, policy, failing)
    <3>1. SqliteSample(col, policy, failing) = SampleValues(c, TRUE, policy, failing)
      BY <2>1 DEF SqliteSample, c
    <3>2. MysqlSample(col, policy, failing) = SampleValues(col, TRUE, policy, failing)
      BY <2>2 DEF MysqlSample
    <3>3. QED
      BY <1>4, <3>1, <3>2 DEF Samples, PostgresSample, DuckdbSample, c
  <2>4. QED
    BY <1>1, <1>4, <2>3, SampleOfColumn
<1>5. QED
  BY <1>2, <1>3, <1>4 DEF SampleIsHonest

(***************************************************************************)
(* Dates: the arithmetic of days against the calendar.  A day is a year that *)
(* begins in March and a day of it; the next day is the next of both.      *)
(***************************************************************************)

LEMMA QuotientIs ==
  ASSUME NEW x \in Nat, NEW k \in Nat, k # 0
  PROVE  x \div k \in Nat /\ k * (x \div k) <= x /\ x < k * (x \div k) + k /\ x % k = x - k * (x \div k)
OBVIOUS

\* A day of an era lies in one of its years.
LEMMA YearArithmetic ==
  ASSUME NEW doe \in Nat, doe <= 146096,
         NEW a \in Nat, 1460 * a <= doe, doe < 1460 * a + 1460,
         NEW b \in Nat, 36524 * b <= doe, doe < 36524 * b + 36524,
         NEW c \in Nat, 146096 * c <= doe, doe < 146096 * c + 146096,
         NEW y \in Nat, 365 * y <= doe - a + b - c, doe - a + b - c < 365 * y + 365,
         NEW q \in Nat, 4 * q <= y, y < 4 * q + 4,
         NEW h \in Nat, 100 * h <= y, y < 100 * h + 100
  PROVE  /\ y <= 399 /\ 365 * y + q - h <= doe /\ doe <= 365 * y + q - h + 365
BY SMTT(60)

\* q is the quotient of x by k.
Goes(q, x, k) == q \in Nat /\ k * q <= x /\ x < k * q + k

LEMMA LeapArithmetic ==
  ASSUME NEW doe \in Nat, doe <= 146096,
         NEW a, Goes(a, doe, 1460), NEW b, Goes(b, doe, 36524), NEW c, Goes(c, doe, 146096),
         NEW t, t = doe - a + b - c, NEW y, Goes(y, t, 365), NEW q, Goes(q, y, 4), NEW h, Goes(h, y, 100),
         doe = 365 * y + q - h + 365, NEW r, Goes(r, y + 1, 4), NEW s, Goes(s, y + 1, 100)
  PROVE  y + 1 = 4 * r /\ (y + 1 # 100 * s \/ y = 399)
BY SMTT(60) DEF Goes

\* Leap years come back after 400 years; within them they are told by their
\* quotients.
LEMMA LeapYears ==
  ASSUME NEW y \in Nat, y <= 399, NEW e \in Nat
  PROVE  /\ IsLeap(y + 1 + 400 * e) <=> IsLeap(y + 1)
         /\ IsLeap(y + 1) <=> (y + 1) % 4 = 0 /\ ((y + 1) % 100 # 0 \/ y = 399)
<1>1. (y + 1 + 400 * e) % 4 = (y + 1) % 4
  BY SMT
<1>2. (y + 1 + 400 * e) % 100 = (y + 1) % 100
  BY SMT
<1>3. (y + 1 + 400 * e) % 400 = (y + 1) % 400
  BY SMT
<1>4. (y + 1) % 400 = 0 <=> y = 399
  BY SMT
<1>5. y = 399 => (y + 1) % 4 = 0
  BY SMT
<1>6. QED
  BY <1>1, <1>2, <1>3, <1>4, <1>5 DEF IsLeap

\* y years of an era have gone and doy days of the next.
IsDayOfYear(doe, y, doy) ==
  /\ y \in Nat /\ y <= 399 /\ doy \in Nat /\ doy <= 365
  /\ doe = 365 * y + y \div 4 - y \div 100 + doy
  /\ doy = 365 => IsLeap(y + 1)

DayOfYear(doe) == doe - (365 * YearOfEra(doe) + YearOfEra(doe) \div 4 - YearOfEra(doe) \div 100)

LEMMA YearOfEraIs ==
  ASSUME NEW doe \in Nat, doe <= 146096
  PROVE  IsDayOfYear(doe, YearOfEra(doe), DayOfYear(doe))
<1>1. doe \in Nat /\ doe <= 146096
  BY SMT
<1>2. PICK a \in Nat : a = doe \div 1460 /\ 1460 * a <= doe /\ doe < 1460 * a + 1460
  BY <1>1, QuotientIs, SMT
<1>3. PICK b \in Nat : b = doe \div 36524 /\ 36524 * b <= doe /\ doe < 36524 * b + 36524
  BY <1>1, QuotientIs, SMT
<1>4. PICK c \in Nat : c = doe \div 146096 /\ 146096 * c <= doe /\ doe < 146096 * c + 146096
  BY <1>1, QuotientIs, SMT
<1>5. PICK t \in Nat : t = doe - a + b - c
  BY <1>1, <1>2, <1>3, <1>4, SMT
<1>6. PICK y \in Nat : y = t \div 365 /\ 365 * y <= t /\ t < 365 * y + 365
  BY QuotientIs, SMT
<1>7. PICK q \in Nat : q = y \div 4 /\ 4 * q <= y /\ y < 4 * q + 4
  BY QuotientIs, SMT
<1>8. PICK h \in Nat : h = y \div 100 /\ 100 * h <= y /\ y < 100 * h + 100
  BY QuotientIs, SMT
<1>9. YearOfEra(doe) = y
  <2>1. YearOfEra(doe) = (doe - doe \div 1460 + doe \div 36524 - doe \div 146096) \div 365
    BY DEF YearOfEra
  <2>2. doe - doe \div 1460 + doe \div 36524 - doe \div 146096 = t
    BY <1>2, <1>3, <1>4, <1>5, SMT
  <2>3. QED
    BY <1>6, <2>1, <2>2, SMT
<1>10. PICK doy \in Int : doy = DayOfYear(doe) /\ doe = 365 * y + q - h + doy
  BY <1>1, <1>7, <1>8, <1>9, SMT DEF DayOfYear
<1>11. y <= 399 /\ 365 * y + q - h <= doe /\ doe <= 365 * y + q - h + 365
  BY <1>1, <1>2, <1>3, <1>4, <1>5, <1>6, <1>7, <1>8, YearArithmetic, SMT
<1>12. y \in Nat /\ y <= 399 /\ doy \in Nat /\ doy <= 365
  BY <1>10, <1>11, SMT
<1>13. ASSUME doy = 365
       PROVE  IsLeap(y + 1)
  <2>1. y + 1 \in Nat
    OBVIOUS
  <2>2. PICK r \in Nat : 4 * r <= y + 1 /\ y + 1 < 4 * r + 4 /\ (y + 1) % 4 = y + 1 - 4 * r
    BY <2>1, QuotientIs, SMT
  <2>3. PICK s \in Nat : 100 * s <= y + 1 /\ y + 1 < 100 * s + 100 /\ (y + 1) % 100 = y + 1 - 100 * s
    BY <2>1, QuotientIs, SMT
  <2>4. doe = 365 * y + q - h + 365
    BY <1>10, <1>13, SMT
  <2>5. y + 1 = 4 * r /\ (y + 1 # 100 * s \/ y = 399)
    <3>1. Goes(a, doe, 1460) /\ Goes(b, doe, 36524) /\ Goes(c, doe, 146096) /\ Goes(y, t, 365)
      BY <1>2, <1>3, <1>4, <1>6 DEF Goes
    <3>2. Goes(q, y, 4) /\ Goes(h, y, 100) /\ Goes(r, y + 1, 4) /\ Goes(s, y + 1, 100)
      BY <1>7, <1>8, <2>2, <2>3 DEF Goes
    <3>3. QED
      BY <1>1, <1>5, <2>4, <3>1, <3>2, LeapArithmetic
  <2>6. (y + 1) % 4 = 0 /\ ((y + 1) % 100 # 0 \/ y = 399)
    BY <2>2, <2>3, <2>5, SMT
  <2>7. IsLeap(y + 1 + 400 * 0) <=> IsLeap(y + 1)
    OBVIOUS
  <2>8. QED
    BY <1>12, <2>6, LeapYears
<1>14. QED
  BY <1>7, <1>8, <1>9, <1>10, <1>12, <1>13 DEF IsDayOfYear

\* A day is the next in its year or the first of the next year.
LEMMA NextDayOfYear ==
  ASSUME NEW doe, NEW y, NEW doy, IsDayOfYear(doe, y, doy),
         NEW z, NEW w, IsDayOfYear(doe + 1, z, w)
  PROVE  \/ z = y /\ w = doy + 1 /\ (doy < 364 \/ (doy = 364 /\ IsLeap(y + 1)))
         \/ z = y + 1 /\ w = 0 /\ doy = (IF IsLeap(y + 1) THEN 365 ELSE 364)
<1>1. /\ y \in Nat /\ y <= 399 /\ doy \in Nat /\ doy <= 365
      /\ z \in Nat /\ z <= 399 /\ w \in Nat /\ w <= 365
      /\ doe = 365 * y + y \div 4 - y \div 100 + doy
      /\ doe + 1 = 365 * z + z \div 4 - z \div 100 + w
      /\ doy = 365 => IsLeap(y + 1)
      /\ w = 365 => IsLeap(z + 1)
  BY DEF IsDayOfYear
<1>2. PICK q \in Nat : q = y \div 4 /\ 4 * q <= y /\ y < 4 * q + 4
  BY <1>1, QuotientIs, SMT
<1>3. PICK h \in Nat : h = y \div 100 /\ 100 * h <= y /\ y < 100 * h + 100
  BY <1>1, QuotientIs, SMT
<1>4. PICK r \in Nat : r = z \div 4 /\ 4 * r <= z /\ z < 4 * r + 4
  BY <1>1, QuotientIs, SMT
<1>5. PICK s \in Nat : s = z \div 100 /\ 100 * s <= z /\ z < 100 * s + 100
  BY <1>1, QuotientIs, SMT
<1>6. doe = 365 * y + q - h + doy /\ doe + 1 = 365 * z + r - s + w
  BY <1>1, <1>2, <1>3, <1>4, <1>5
<1>7. 365 * z + r - s + w = 365 * y + q - h + doy + 1
  BY <1>1, <1>6, SMT
<1>8. z = y \/ z = y + 1
  BY <1>1, <1>2, <1>3, <1>4, <1>5, <1>7, SMTT(60)
<1>9. CASE z = y
  <2>1. q = r /\ h = s
    BY <1>2, <1>3, <1>4, <1>5, <1>9
  <2>2. w = doy + 1
    BY <1>1, <1>7, <1>9, <2>1, SMT
  <2>3. QED
    BY <1>1, <1>9, <2>2, SMT
<1>10. CASE z = y + 1
  <2>1. IsLeap(y + 1) <=> (y + 1) % 4 = 0 /\ ((y + 1) % 100 # 0 \/ y = 399)
    <3>1. 0 \in Nat
      OBVIOUS
    <3>2. QED
      BY <1>1, <3>1, LeapYears
  <2>2. z % 4 = z - 4 * r /\ z % 100 = z - 100 * s
    BY <1>1, <1>4, <1>5, QuotientIs, SMT
  <2>3. (IsLeap(y + 1) /\ z = 4 * r /\ z # 100 * s) \/ (~IsLeap(y + 1) /\ (z # 4 * r \/ z = 100 * s))
    BY <1>1, <1>10, <2>1, <2>2, SMT
  <2>4. (IsLeap(y + 1) => w = doy - 365) /\ (~IsLeap(y + 1) => w = doy - 364)
    BY <1>1, <1>2, <1>3, <1>4, <1>5, <1>7, <1>10, <2>3, SMTT(60)
  <2>5. QED
    BY <1>1, <1>10, <2>4, SMT
<1>11. QED
  BY <1>8, <1>9, <1>10

\* The days of the months of a year that begins in March.
MonthStarts == <<0, 31, 61, 92, 122, 153, 184, 214, 245, 275, 306, 337, 366>>

MonthOf(doy) == (5 * doy + 2) \div 153

LEMMA MonthIs ==
  ASSUME NEW doy \in Nat, doy <= 365
  PROVE  /\ MonthOf(doy) \in 0 .. 11
         /\ (153 * MonthOf(doy) + 2) \div 5 = MonthStarts[MonthOf(doy) + 1]
         /\ MonthStarts[MonthOf(doy) + 1] <= doy /\ doy < MonthStarts[MonthOf(doy) + 2]
<1>1. PICK mp \in Nat : mp = MonthOf(doy) /\ 153 * mp <= 5 * doy + 2 /\ 5 * doy + 2 < 153 * mp + 153
  <2>1. 5 * doy + 2 \in Nat
    BY SMT
  <2>2. QED
    BY <2>1, QuotientIs, SMT DEF MonthOf
<1>2. PICK b \in Nat : b = (153 * mp + 2) \div 5 /\ 5 * b <= 153 * mp + 2 /\ 153 * mp + 2 < 5 * b + 5
  <2>1. 153 * mp + 2 \in Nat
    BY SMT
  <2>2. QED
    BY <2>1, QuotientIs, SMT
<1>3. mp <= 11 /\ b <= doy
  BY <1>1, <1>2, SMT
<1>4. \/ mp = 0 \/ mp = 1 \/ mp = 2 \/ mp = 3 \/ mp = 4 \/ mp = 5 \/ mp = 6 \/ mp = 7 \/ mp = 8 \/ mp = 9
      \/ mp = 10 \/ mp = 11
  BY <1>3, SMT
<1>5. /\ mp = 0 => b = 0 /\ doy < 31
      /\ mp = 1 => b = 31 /\ doy < 61
      /\ mp = 2 => b = 61 /\ doy < 92
      /\ mp = 3 => b = 92 /\ doy < 122
      /\ mp = 4 => b = 122 /\ doy < 153
      /\ mp = 5 => b = 153 /\ doy < 184
      /\ mp = 6 => b = 184 /\ doy < 214
      /\ mp = 7 => b = 214 /\ doy < 245
      /\ mp = 8 => b = 245 /\ doy < 275
      /\ mp = 9 => b = 275 /\ doy < 306
      /\ mp = 10 => b = 306 /\ doy < 337
      /\ mp = 11 => b = 337 /\ doy < 366
  <2>1. mp = 0 => b = 0 /\ doy < 31
    BY <1>1, <1>2, SMT
  <2>2. mp = 1 => b = 31 /\ doy < 61
    BY <1>1, <1>2, SMT
  <2>3. mp = 2 => b = 61 /\ doy < 92
    BY <1>1, <1>2, SMT
  <2>4. mp = 3 => b = 92 /\ doy < 122
    BY <1>1, <1>2, SMT
  <2>5. mp = 4 => b = 122 /\ doy < 153
    BY <1>1, <1>2, SMT
  <2>6. mp = 5 => b = 153 /\ doy < 184
    BY <1>1, <1>2, SMT
  <2>7. mp = 6 => b = 184 /\ doy < 214
    BY <1>1, <1>2, SMT
  <2>8. mp = 7 => b = 214 /\ doy < 245
    BY <1>1, <1>2, SMT
  <2>9. mp = 8 => b = 245 /\ doy < 275
    BY <1>1, <1>2, SMT
  <2>10. mp = 9 => b = 275 /\ doy < 306
    BY <1>1, <1>2, SMT
  <2>11. mp = 10 => b = 306 /\ doy < 337
    BY <1>1, <1>2, SMT
  <2>12. mp = 11 => b = 337 /\ doy < 366
    BY <1>1, <1>2, SMT
  <2>13. QED
    BY <2>1, <2>2, <2>3, <2>4, <2>5, <2>6, <2>7, <2>8, <2>9, <2>10, <2>11, <2>12
<1>6. /\ MonthStarts[1] = 0 /\ MonthStarts[2] = 31 /\ MonthStarts[3] = 61 /\ MonthStarts[4] = 92
      /\ MonthStarts[5] = 122 /\ MonthStarts[6] = 153 /\ MonthStarts[7] = 184 /\ MonthStarts[8] = 214
      /\ MonthStarts[9] = 245 /\ MonthStarts[10] = 275 /\ MonthStarts[11] = 306 /\ MonthStarts[12] = 337
      /\ MonthStarts[13] = 366
  BY DEF MonthStarts
<1>7. b = MonthStarts[mp + 1] /\ doy < MonthStarts[mp + 2]
  BY <1>4, <1>5, <1>6, SMT
<1>8. QED
  BY <1>1, <1>2, <1>3, <1>7

EraOf(days) == (days + EpochDay) \div EraDays

DayOfEra(days) == (days + EpochDay) - EraOf(days) * EraDays

\* The year a day lies in when years begin in March, and the day of that year.
MarchYear(days) == YearOfEra(DayOfEra(days)) + EraOf(days) * 400

MarchDay(days) == DayOfYear(DayOfEra(days))

CalendarMonth(mp) == IF mp < 10 THEN mp + 3 ELSE mp - 9

DateOf(year, doy) ==
  <<year + (IF CalendarMonth(MonthOf(doy)) <= 2 THEN 1 ELSE 0), CalendarMonth(MonthOf(doy)),
    doy - (153 * MonthOf(doy) + 2) \div 5 + 1>>

LEMMA CivilIs ==
  ASSUME NEW days
  PROVE  CivilFromDays(days) = DateOf(MarchYear(days), MarchDay(days))
BY Zenon DEF CivilFromDays, DateOf, MarchYear, MarchDay, DayOfYear, DayOfEra, EraOf, CalendarMonth, MonthOf

LEMMA EraIs ==
  ASSUME NEW days \in Nat
  PROVE  /\ EraOf(days) \in Nat /\ DayOfEra(days) \in Nat /\ DayOfEra(days) <= 146096
         /\ \/ EraOf(days + 1) = EraOf(days) /\ DayOfEra(days + 1) = DayOfEra(days) + 1
            \/ EraOf(days + 1) = EraOf(days) + 1 /\ DayOfEra(days) = 146096 /\ DayOfEra(days + 1) = 0
<1>1. PICK e \in Nat : e = EraOf(days) /\ 146097 * e <= days + 719468 /\ days + 719468 < 146097 * e + 146097
  <2>1. days + 719468 \in Nat
    BY SMT
  <2>2. QED
    BY <2>1, QuotientIs, SMT DEF EraOf, EpochDay, EraDays
<1>2. PICK f \in Nat : f = EraOf(days + 1) /\ 146097 * f <= days + 1 + 719468 /\ days + 1 + 719468 < 146097 * f + 146097
  <2>1. days + 1 + 719468 \in Nat
    BY SMT
  <2>2. QED
    BY <2>1, QuotientIs, SMT DEF EraOf, EpochDay, EraDays
<1>3. DayOfEra(days) = days + 719468 - e * 146097 /\ DayOfEra(days + 1) = days + 1 + 719468 - f * 146097
  BY <1>1, <1>2, SMT DEF DayOfEra, EpochDay, EraDays
<1>4. f = e \/ f = e + 1
  BY <1>1, <1>2, SMT
<1>5. QED
  BY <1>1, <1>2, <1>3, <1>4, SMT

\* The day after a day is the next in its year or begins another.
FollowsInYear(y, doy, z, w) ==
  \/ z = y /\ w = doy + 1 /\ (doy < 364 \/ (doy = 364 /\ IsLeap(y + 1)))
  \/ z = y + 1 /\ w = 0 /\ doy = (IF IsLeap(y + 1) THEN 365 ELSE 364)

LEMMA NextDay ==
  ASSUME NEW days \in Nat
  PROVE  /\ MarchYear(days) \in Nat /\ MarchDay(days) \in Nat /\ MarchDay(days) <= 365
         /\ FollowsInYear(MarchYear(days), MarchDay(days), MarchYear(days + 1), MarchDay(days + 1))
<1>1. PICK e \in Nat : e = EraOf(days)
  BY EraIs
<1>2. PICK doe \in Nat : doe = DayOfEra(days) /\ doe <= 146096
  BY EraIs
<1>3. PICK y : y = YearOfEra(doe)
  OBVIOUS
<1>4. PICK doy : doy = DayOfYear(doe)
  OBVIOUS
<1>5. IsDayOfYear(doe, y, doy)
  BY <1>2, <1>3, <1>4, YearOfEraIs
<1>6. y \in Nat /\ y <= 399 /\ doy \in Nat /\ doy <= 365
  BY <1>5 DEF IsDayOfYear
<1>7. MarchYear(days) = y + e * 400 /\ MarchDay(days) = doy
  BY <1>1, <1>2, <1>3, <1>4 DEF MarchYear, MarchDay
<1>8. y + e * 400 \in Nat /\ (IsLeap(y + e * 400 + 1) <=> IsLeap(y + 1))
  <2>1. y + e * 400 + 1 = y + 1 + 400 * e /\ y + e * 400 \in Nat
    BY <1>6, SMT
  <2>2. IsLeap(y + 1 + 400 * e) <=> IsLeap(y + 1)
    BY <1>6, LeapYears
  <2>3. QED
    BY <2>1, <2>2
<1>9. CASE EraOf(days + 1) = e /\ DayOfEra(days + 1) = doe + 1
  <2>1. days + 1 \in Nat
    OBVIOUS
  <2>2. doe + 1 \in Nat /\ doe + 1 <= 146096
    BY <1>9, <2>1, EraIs
  <2>3. PICK z : z = YearOfEra(doe + 1)
    OBVIOUS
  <2>4. PICK w : w = DayOfYear(doe + 1)
    OBVIOUS
  <2>5. IsDayOfYear(doe + 1, z, w)
    BY <2>2, <2>3, <2>4, YearOfEraIs
  <2>6. FollowsInYear(y, doy, z, w)
    BY <1>5, <2>5, NextDayOfYear DEF FollowsInYear
  <2>7. MarchYear(days + 1) = z + e * 400 /\ MarchDay(days + 1) = w
    BY <1>9, <2>3, <2>4 DEF MarchYear, MarchDay
  <2>8. z \in Nat
    BY <2>5 DEF IsDayOfYear
  <2>9. FollowsInYear(y + e * 400, doy, z + e * 400, w)
    BY <1>6, <1>8, <2>6, <2>8, SMT DEF FollowsInYear
  <2>10. QED
    BY <1>6, <1>7, <1>8, <2>7, <2>9
<1>10. CASE EraOf(days + 1) = e + 1 /\ doe = 146096 /\ DayOfEra(days + 1) = 0
  <2>1. y = 399 /\ doy = 365
    <3>1. PICK q \in Nat : q = y \div 4 /\ 4 * q <= y /\ y < 4 * q + 4
      BY <1>6, QuotientIs, SMT
    <3>2. PICK h \in Nat : h = y \div 100 /\ 100 * h <= y /\ y < 100 * h + 100
      BY <1>6, QuotientIs, SMT
    <3>3. 146096 = 365 * y + q - h + doy
      BY <1>5, <1>10, <3>1, <3>2 DEF IsDayOfYear
    <3>4. QED
      BY <1>6, <3>1, <3>2, <3>3, SMT
  <2>2. YearOfEra(0) = 0 /\ DayOfYear(0) = 0
    BY SMT DEF YearOfEra, DayOfYear
  <2>3. MarchYear(days + 1) = 0 + (e + 1) * 400 /\ MarchDay(days + 1) = 0
    BY <1>10, <2>2 DEF MarchYear, MarchDay
  <2>4. MarchYear(days + 1) = y + e * 400 + 1
    BY <2>1, <2>3, SMT
  <2>5. IsLeap(y + 1)
    BY <1>5, <2>1 DEF IsDayOfYear
  <2>6. FollowsInYear(y + e * 400, doy, y + e * 400 + 1, 0)
    BY <1>8, <2>1, <2>5, SMT DEF FollowsInYear
  <2>7. QED
    BY <1>6, <1>7, <1>8, <2>3, <2>4, <2>6
<1>11. QED
  BY <1>1, <1>2, <1>9, <1>10, EraIs

\* Months have their lengths.
LEMMA MonthsHaveTheirLengths ==
  ASSUME NEW mp \in 0 .. 10, NEW leap
  PROVE  /\ MonthLengths(leap)[CalendarMonth(mp)] = MonthStarts[mp + 2] - MonthStarts[mp + 1]
         /\ MonthStarts[mp + 1] \in Nat /\ MonthStarts[mp + 2] \in Nat
         /\ MonthStarts[mp + 1] < MonthStarts[mp + 2]
<1> DEFINE ml == MonthLengths(leap)
           ms == MonthStarts
<1>1. /\ ml[3] = 31 /\ ml[4] = 30 /\ ml[5] = 31 /\ ml[6] = 30 /\ ml[7] = 31 /\ ml[8] = 31
      /\ ml[9] = 30 /\ ml[10] = 31 /\ ml[11] = 30 /\ ml[12] = 31 /\ ml[1] = 31
  BY DEF MonthLengths
<1>2. /\ ms[1] = 0 /\ ms[2] = 31 /\ ms[3] = 61 /\ ms[4] = 92
      /\ ms[5] = 122 /\ ms[6] = 153 /\ ms[7] = 184 /\ ms[8] = 214
      /\ ms[9] = 245 /\ ms[10] = 275 /\ ms[11] = 306 /\ ms[12] = 337
  BY DEF MonthStarts
<1> HIDE DEF ml, ms
<1>3. \/ mp = 0 \/ mp = 1 \/ mp = 2 \/ mp = 3 \/ mp = 4 \/ mp = 5 \/ mp = 6 \/ mp = 7 \/ mp = 8 \/ mp = 9
      \/ mp = 10
  BY SMT
<1>4. CalendarMonth(mp) = IF mp < 10 THEN mp + 3 ELSE mp - 9
  BY DEF CalendarMonth
<1>5. ml[CalendarMonth(mp)] = ms[mp + 2] - ms[mp + 1] /\ ms[mp + 1] \in Nat /\ ms[mp + 2] \in Nat /\ ms[mp + 1] < ms[mp + 2]
  BY <1>1, <1>2, <1>3, <1>4, SMT
<1>6. QED
  BY <1>5 DEF ml, ms

LEMMA DayAfterIs ==
  ASSUME NEW y \in Int, NEW m \in Int, NEW d \in Int, NEW last \in Int, last = MonthLengths(IsLeap(y))[m]
  PROVE  DayAfter(<<y, m, d>>) = IF d < last THEN <<y, m, d + 1>>
                                 ELSE IF d = last /\ m < 12 THEN <<y, m + 1, 1>> ELSE <<y + 1, 1, 1>>
<1> DEFINE t == <<y, m, d>>
<1>1. t[1] = y /\ t[2] = m /\ t[3] = d
  OBVIOUS
<1> HIDE DEF t
<1>2. DayAfter(t) = CASE t[3] < last -> <<t[1], t[2], t[3] + 1>>
                      [] t[3] = last /\ t[2] < 12 -> <<t[1], t[2] + 1, 1>>
                      [] OTHER -> <<t[1] + 1, 1, 1>>
  BY <1>1, Zenon DEF DayAfter
<1>3. DayAfter(t) = CASE d < last -> <<y, m, d + 1>>
                      [] d = last /\ m < 12 -> <<y, m + 1, 1>>
                      [] OTHER -> <<y + 1, 1, 1>>
  BY <1>1, <1>2, Zenon
<1>4. DayAfter(t) = IF d < last THEN <<y, m, d + 1>>
                    ELSE IF d = last /\ m < 12 THEN <<y, m + 1, 1>> ELSE <<y + 1, 1, 1>>
  BY <1>3, SMT
<1>5. QED
  BY <1>4 DEF t

\* How a day of a year that begins in March is called.
LEMMA DateIs ==
  ASSUME NEW y \in Nat, NEW doy \in Nat, doy <= 365
  PROVE  LET mp == MonthOf(doy)
         IN /\ mp \in 0 .. 11
            /\ DateOf(y, doy) = IF mp < 10 THEN <<y, mp + 3, doy - MonthStarts[mp + 1] + 1>>
                                ELSE <<y + 1, mp - 9, doy - MonthStarts[mp + 1] + 1>>
            /\ MonthStarts[mp + 1] \in Nat /\ MonthStarts[mp + 2] \in Nat
            /\ MonthStarts[mp + 1] <= doy /\ doy < MonthStarts[mp + 2]
<1>1. PICK mp : mp = MonthOf(doy)
  OBVIOUS
<1>2. /\ mp \in 0 .. 11 /\ (153 * mp + 2) \div 5 = MonthStarts[mp + 1]
      /\ MonthStarts[mp + 1] <= doy /\ doy < MonthStarts[mp + 2]
  BY <1>1, MonthIs
<1>3. MonthStarts[mp + 1] \in Nat /\ MonthStarts[mp + 2] \in Nat
  <2>1. MonthStarts \in [1 .. 13 -> Nat]
    BY DEF MonthStarts
  <2>2. mp + 1 \in 1 .. 13 /\ mp + 2 \in 1 .. 13
    BY <1>2
  <2>3. QED
    BY <2>1, <2>2
<1>4. DateOf(y, doy) =
        <<y + (IF CalendarMonth(mp) <= 2 THEN 1 ELSE 0), CalendarMonth(mp), doy - MonthStarts[mp + 1] + 1>>
  BY <1>1, <1>2 DEF DateOf
<1>5. /\ mp < 10 => CalendarMonth(mp) = mp + 3 /\ y + (IF CalendarMonth(mp) <= 2 THEN 1 ELSE 0) = y
      /\ ~(mp < 10) => CalendarMonth(mp) = mp - 9 /\ y + (IF CalendarMonth(mp) <= 2 THEN 1 ELSE 0) = y + 1
  BY <1>2 DEF CalendarMonth
<1>6. DateOf(y, doy) = IF mp < 10 THEN <<y, mp + 3, doy - MonthStarts[mp + 1] + 1>>
                       ELSE <<y + 1, mp - 9, doy - MonthStarts[mp + 1] + 1>>
  BY <1>4, <1>5
<1>7. QED
  BY <1>1, <1>2, <1>3, <1>6

LEMMA StartsOfMonths ==
  ASSUME NEW k \in 1 .. 13, NEW l \in 1 .. 13, k < l
  PROVE  MonthStarts[k] \in Nat /\ MonthStarts[l] \in Nat /\ MonthStarts[k] < MonthStarts[l]
<1> DEFINE ms == MonthStarts
<1>1. /\ ms[1] = 0 /\ ms[2] = 31 /\ ms[3] = 61 /\ ms[4] = 92
      /\ ms[5] = 122 /\ ms[6] = 153 /\ ms[7] = 184 /\ ms[8] = 214
      /\ ms[9] = 245 /\ ms[10] = 275 /\ ms[11] = 306 /\ ms[12] = 337 /\ ms[13] = 366
  BY DEF MonthStarts
<1>2. \A i \in 1 .. 12 : ms[i] \in Nat /\ ms[i + 1] \in Nat /\ ms[i] < ms[i + 1]
  <2>1. \A i \in 1 .. 12 : i = 1 \/ i = 2 \/ i = 3 \/ i = 4 \/ i = 5 \/ i = 6 \/ i = 7 \/ i = 8 \/ i = 9
                             \/ i = 10 \/ i = 11 \/ i = 12
    BY SMT
  <2> HIDE DEF ms
  <2>2. QED
    BY <1>1, <2>1, SMT
<1> HIDE DEF ms
<1> DEFINE W == {j \in Nat : k + 1 + j <= 13 => ms[k] < ms[k + 1 + j]}
<1>3. 0 \in W
  BY <1>2
<1>4. \A j \in W : j + 1 \in W
  <2>1. SUFFICES ASSUME NEW j \in W, k + 1 + (j + 1) <= 13
                 PROVE  ms[k] < ms[k + 1 + (j + 1)]
    OBVIOUS
  <2>2. k + 1 + j \in 1 .. 12 /\ k \in 1 .. 12 /\ k + 1 + j <= 13 /\ (k + 1 + j) + 1 = k + 1 + (j + 1)
    BY <2>1
  <2>3. ms[k] < ms[k + 1 + j] /\ ms[k + 1 + j] < ms[(k + 1 + j) + 1]
    BY <1>2, <2>1, <2>2
  <2>4. ms[k] \in Nat /\ ms[k + 1 + j] \in Nat /\ ms[(k + 1 + j) + 1] \in Nat
    BY <1>2, <2>2
  <2>5. QED
    BY <2>2, <2>3, <2>4
<1>5. W = Nat
  <2>1. W \in SUBSET Nat
    OBVIOUS
  <2> HIDE DEF W
  <2>2. QED
    BY <1>3, <1>4, <2>1, Induction
<1>6. PICK j \in Nat : k + 1 + j = l
  <2>1. l - (k + 1) \in Nat /\ k + 1 + (l - (k + 1)) = l
    OBVIOUS
  <2>2. QED
    BY <2>1
<1>7. ms[k] < ms[l]
  <2>1. j \in W
    <3> HIDE DEF W
    <3>1. QED
      BY <1>5
  <2>2. k + 1 + j <= 13
    BY <1>6
  <2>3. QED
    BY <1>6, <2>1, <2>2
<1>8. ms[k] \in Nat /\ ms[l] \in Nat
  <2>1. k \in 1 .. 12 /\ l - 1 \in 1 .. 12 /\ (l - 1) + 1 = l
    BY SMT
  <2>2. QED
    BY <1>2, <2>1
<1>9. QED
  BY <1>7, <1>8 DEF ms

LEMMA DateFollows ==
  ASSUME NEW y \in Nat, NEW doy \in Nat, doy <= 365, NEW z, NEW w, FollowsInYear(y, doy, z, w)
  PROVE  DateOf(z, w) = DayAfter(DateOf(y, doy))
<1> DEFINE ms == MonthStarts
<1>1. PICK mp : mp = MonthOf(doy)
  OBVIOUS
<1>2. /\ mp \in 0 .. 11
      /\ DateOf(y, doy) = IF mp < 10 THEN <<y, mp + 3, doy - ms[mp + 1] + 1>> ELSE <<y + 1, mp - 9, doy - ms[mp + 1] + 1>>
      /\ ms[mp + 1] \in Nat /\ ms[mp + 2] \in Nat
      /\ ms[mp + 1] <= doy /\ doy < ms[mp + 2]
  BY <1>1, DateIs
<1>3. PICK year \in Nat : year = IF mp < 10 THEN y ELSE y + 1
  BY <1>2
<1>4. PICK m \in Nat : m = CalendarMonth(mp) /\ m = (IF mp < 10 THEN mp + 3 ELSE mp - 9)
  BY <1>2 DEF CalendarMonth
<1>5. PICK d \in Nat : d = doy - ms[mp + 1] + 1
  BY <1>2
<1>6. DateOf(y, doy) = <<year, m, d>>
  BY <1>2, <1>3, <1>4, <1>5
<1>7. PICK last : last = MonthLengths(IsLeap(year))[m]
  OBVIOUS
<1>8. ms[12] = 337 /\ ms[13] = 366 /\ ms[1] = 0
  BY DEF MonthStarts
<1>9. mp # 11 => last = ms[mp + 2] - ms[mp + 1]
  <2>1. SUFFICES ASSUME mp # 11
                 PROVE  last = ms[mp + 2] - ms[mp + 1]
    OBVIOUS
  <2>2. mp \in 0 .. 10
    BY <1>2, <2>1
  <2>3. MonthLengths(IsLeap(year))[CalendarMonth(mp)] = ms[mp + 2] - ms[mp + 1]
    BY <2>2, MonthsHaveTheirLengths
  <2>4. QED
    BY <1>4, <1>7, <2>3
<1>10. mp = 11 => last = IF IsLeap(y + 1) THEN 29 ELSE 28
  <2>1. MonthLengths(IsLeap(year))[2] = IF IsLeap(year) THEN 29 ELSE 28
    BY DEF MonthLengths
  <2>2. mp = 11 => m = 2 /\ year = y + 1
    BY <1>3, <1>4
  <2>3. QED
    BY <1>7, <2>1, <2>2
<1>11. last \in Nat
  <2>1. CASE mp = 11
    BY <1>10, <2>1
  <2>2. CASE mp # 11
    <3>1. mp + 1 \in 1 .. 13 /\ mp + 2 \in 1 .. 13
      BY <1>2
    <3>2. ms[mp + 1] < ms[mp + 2]
      <4>1. mp + 1 < mp + 2
        BY <1>2
      <4>2. QED
        BY <3>1, <4>1, StartsOfMonths
    <3>3. last = ms[mp + 2] - ms[mp + 1]
      BY <1>9, <2>2
    <3> HIDE DEF ms
    <3>4. QED
      BY <1>2, <3>2, <3>3
  <2>3. QED
    BY <2>1, <2>2
<1>12. DayAfter(<<year, m, d>>) = IF d < last THEN <<year, m, d + 1>>
                                  ELSE IF d = last /\ m < 12 THEN <<year, m + 1, 1>> ELSE <<year + 1, 1, 1>>
  BY <1>7, <1>11, DayAfterIs
<1> HIDE DEF ms
<1>13. CASE z = y /\ w = doy + 1 /\ (doy < 364 \/ (doy = 364 /\ IsLeap(y + 1)))
  <2>1. w \in Nat /\ w <= 365
    BY <1>13
  <2>2. PICK np : np = MonthOf(w)
    OBVIOUS
  <2>3. /\ np \in 0 .. 11
        /\ DateOf(y, w) = IF np < 10 THEN <<y, np + 3, w - ms[np + 1] + 1>> ELSE <<y + 1, np - 9, w - ms[np + 1] + 1>>
        /\ ms[np + 1] \in Nat /\ ms[np + 2] \in Nat
        /\ ms[np + 1] <= w /\ w < ms[np + 2]
    BY <2>1, <2>2, DateIs DEF ms
  <2>4. /\ mp + 1 \in 1 .. 13 /\ mp + 2 \in 1 .. 13 /\ np + 1 \in 1 .. 13 /\ np + 2 \in 1 .. 13
    BY <1>2, <2>3
  <2>5. \A k, l \in 1 .. 13 : k < l => ms[k] \in Nat /\ ms[l] \in Nat /\ ms[k] < ms[l]
    BY StartsOfMonths DEF ms
  <2>6. CASE w < ms[mp + 2]
    <3>1. np = mp
      <4>1. ~(mp + 2 <= np + 1)
        <5>1. mp + 2 = np + 1 \/ mp + 2 < np + 1 => ms[mp + 2] <= ms[np + 1]
          BY <2>4, <2>5
        <5>2. QED
          BY <1>2, <2>1, <2>3, <2>4, <2>5, <2>6
      <4>2. ~(np + 2 <= mp + 1)
        BY <1>2, <1>13, <2>1, <2>3, <2>4, <2>5
      <4>3. QED
        BY <1>2, <2>3, <4>1, <4>2
    <3>2. DateOf(y, w) = <<year, m, d + 1>>
      BY <1>3, <1>4, <1>5, <1>13, <2>3, <3>1
    <3>3. d < last
      <4>1. CASE mp # 11
        BY <1>2, <1>5, <1>9, <1>13, <2>6, <4>1
      <4>2. CASE mp = 11
        BY <1>2, <1>5, <1>8, <1>10, <1>13, <4>2
      <4>3. QED
        BY <4>1, <4>2
    <3>4. QED
      BY <1>6, <1>12, <1>13, <3>2, <3>3
  <2>7. CASE ~(w < ms[mp + 2])
    <3>1. w = ms[mp + 2] /\ mp # 11
      BY <1>2, <1>8, <1>13, <2>1, <2>7
    <3>2. np = mp + 1
      <4>1. ~(np + 2 <= mp + 2)
        BY <1>2, <2>1, <2>3, <2>4, <2>5, <3>1
      <4>2. ~(mp + 2 < np + 1)
        BY <1>2, <2>1, <2>3, <2>4, <2>5, <3>1
      <4>3. QED
        BY <1>2, <2>3, <4>1, <4>2
    <3>3. w - ms[np + 1] + 1 = 1
      BY <2>1, <3>1, <3>2, <1>2
    <3>4. d = last
      BY <1>2, <1>5, <1>9, <1>13, <3>1
    <3>5. CASE mp = 9
      <4>1. DateOf(y, w) = <<year + 1, 1, 1>>
        BY <1>3, <2>3, <3>2, <3>3, <3>5
      <4>2. m = 12
        BY <1>4, <3>5
      <4>3. QED
        BY <1>6, <1>12, <1>13, <3>4, <4>1, <4>2
    <3>6. CASE mp # 9
      <4>1. DateOf(y, w) = <<year, m + 1, 1>> /\ m < 12
        BY <1>2, <1>3, <1>4, <2>3, <3>1, <3>2, <3>3, <3>6
      <4>2. QED
        BY <1>6, <1>12, <1>13, <3>4, <4>1
    <3>7. QED
      BY <3>5, <3>6
  <2>8. QED
    BY <2>6, <2>7
<1>14. CASE z = y + 1 /\ w = 0 /\ doy = (IF IsLeap(y + 1) THEN 365 ELSE 364)
  <2>1. DateOf(z, w) = <<y + 1, 3, 1>>
    <3>1. MonthOf(0) = 0
      BY DEF MonthOf
    <3>2. DateOf(y + 1, 0) = IF 0 < 10 THEN <<y + 1, 0 + 3, 0 - ms[0 + 1] + 1>> ELSE <<y + 1 + 1, 0 - 9, 0 - ms[0 + 1] + 1>>
      BY <3>1, DateIs DEF ms
    <3>3. QED
      BY <1>8, <1>14, <3>2
  <2>2. mp = 11
    <3>1. ~(mp + 2 < 13)
      <4>1. mp + 2 < 12 \/ mp + 2 = 12 => ms[mp + 2] <= 337
        <5>1. mp + 2 \in 1 .. 13
          BY <1>2
        <5>2. \A k \in 1 .. 11 : ms[k] < ms[12]
          BY StartsOfMonths DEF ms
        <5>3. QED
          BY <1>2, <1>8, <5>1, <5>2
      <4>2. QED
        BY <1>2, <1>14, <4>1
    <3>2. QED
      BY <1>2, <3>1
  <2>3. d = last /\ m = 2 /\ year = y + 1
    BY <1>3, <1>4, <1>5, <1>8, <1>10, <1>14, <2>2
  <2>4. QED
    BY <1>6, <1>12, <2>1, <2>3
<1>15. QED
  BY <1>13, <1>14 DEF FollowsInYear

\* The day after any day since 1970 is called by the calendar, and the time of
\* any day is split into hours, minutes and seconds.  schemadex_docs.rs
THEOREM DatesFollowForAll ==
  ASSUME NEW days \in Nat
  PROVE  DatesFollow(days)
<1>1. CivilFromDays(0) = <<1970, 1, 1>>
  <2>1. EraOf(0) = 4
    BY SMT DEF EraOf, EpochDay, EraDays
  <2>2. DayOfEra(0) = 135080
    BY <2>1, SMT DEF DayOfEra, EpochDay, EraDays
  <2>3. YearOfEra(135080) = 369
    BY SMT DEF YearOfEra
  <2>4. DayOfYear(135080) = 306
    BY <2>3, SMT DEF DayOfYear
  <2>5. MarchYear(0) = 1969 /\ MarchDay(0) = 306
    BY <2>1, <2>2, <2>3, <2>4, SMT DEF MarchYear, MarchDay
  <2>6. MonthOf(306) = 10
    BY SMT DEF MonthOf
  <2>7. CivilFromDays(0) = DateOf(1969, 306)
    BY <2>5, CivilIs
  <2>8. DateOf(1969, 306) = <<1970, 1, 1>>
    BY <2>6, SMT DEF DateOf, CalendarMonth
  <2>9. QED
    BY <2>7, <2>8
<1>2. CivilFromDays(days + 1) = DayAfter(CivilFromDays(days))
  <2>1. CivilFromDays(days) = DateOf(MarchYear(days), MarchDay(days))
    BY CivilIs
  <2>2. CivilFromDays(days + 1) = DateOf(MarchYear(days + 1), MarchDay(days + 1))
    BY CivilIs
  <2>3. QED
    BY <2>1, <2>2, NextDay, DateFollows
<1>3. ASSUME NEW secs \in Nat, NEW f, f = FormatIsoUtc(secs)
      PROVE  /\ f[4] \in 0 .. 23 /\ f[5] \in 0 .. 59 /\ f[6] \in 0 .. 59
             /\ 3600 * f[4] + 60 * f[5] + f[6] = secs % 86400
  <2> DEFINE t == secs % DaySeconds
             h == t \div HourSeconds
             m == (t % HourSeconds) \div 60
             s == secs % 60
             date == CivilFromDays(secs \div DaySeconds)
  <2>1. PICK a, b, c : date = <<a, b, c>>
    BY SMT DEF CivilFromDays
  <2>2. f = date \o <<h, m, s>>
    BY <1>3, Zenon DEF FormatIsoUtc
  <2> HIDE DEF h, m, s, date
  <2>3. f[4] = h /\ f[5] = m /\ f[6] = s
    <3>1. f = <<a, b, c>> \o <<h, m, s>>
      BY <2>1, <2>2, Zenon
    <3>2. QED
      BY <3>1, SMT
  <2>4. PICK k \in Nat : t = secs - 86400 * k /\ t \in Nat /\ t < 86400
    <3>1. secs \div 86400 \in Nat /\ t = secs - 86400 * (secs \div 86400) /\ t \in Nat /\ t < 86400
      BY QuotientIs, SMT DEF DaySeconds
    <3>2. QED
      BY <3>1, SMT
  <2> HIDE DEF t
  <2>5. PICK r \in Nat : r = t % HourSeconds /\ t = 3600 * h + r /\ r < 3600 /\ h \in Nat
    BY <2>4, QuotientIs, SMT DEF h, HourSeconds
  <2>6. PICK u \in Nat : r = 60 * m + u /\ u < 60 /\ m \in Nat
    BY <2>5, QuotientIs, SMT DEF m, HourSeconds
  <2>7. s = u
    <3>1. secs = 60 * (1440 * k + 60 * h + m) + u
      BY <2>4, <2>5, <2>6, SMT
    <3>2. 1440 * k + 60 * h + m \in Nat
      BY <2>5, <2>6, SMT
    <3>3. QED
      BY <2>6, <3>1, <3>2, SMT DEF s
  <2>8. h <= 23 /\ m <= 59 /\ u <= 59
    BY <2>4, <2>5, <2>6, SMT
  <2>9. QED
    BY <2>3, <2>4, <2>5, <2>6, <2>7, <2>8, SMT DEF t, DaySeconds
<1>4. (days % 20000) * 86400 + ((61 * days) % 86400) \in Nat
  BY SMT
<1>5. QED
  BY <1>1, <1>2, <1>3, <1>4 DEF DatesFollow

(***************************************************************************)
(* Reports: the history and the files the tools read, what changed between *)
(* two databases, and a database as a document.                            *)
(***************************************************************************)

\* Equally many values as places means that no two places have one.
LEMMA EachItsOwn ==
  ASSUME NEW S, IsFiniteSet(S), NEW T, NEW f \in [S -> T], \A x \in T : \E a \in S : f[a] = x,
         Cardinality(T) = Cardinality(S)
  PROVE  \A a, b \in S : f[a] = f[b] => a = b
<1>1. f \in Surjection(S, T)
  BY DEF Surjection
<1>2. f \in Injection(S, T)
  BY <1>1, FS_Surjection
<1>3. QED
  BY <1>2 DEF Injection, IsInjective

IsListing(listed) == \E Fs : listed \in Seq([time : Int \cup {None}, file : Fs])

Timed(listed) == {i \in DOMAIN listed : listed[i].time # None}

\* The history has every file whose name begins with a time, the latest first.
LEMMA HistoryIs ==
  ASSUME NEW Fs, NEW listed \in Seq([time : Int \cup {None}, file : Fs])
  PROVE  LET h == ListHistory(listed)
             m == Cardinality(Timed(listed))
         IN /\ m \in Nat /\ IsFiniteSet(Timed(listed))
            /\ h \in Seq([time : Int \cup {None}, file : Fs]) /\ Len(h) = m
            /\ \A k \in 1 .. m : h[k].time \in Int
            /\ \A k, l \in 1 .. m : k < l => h[k].time >= h[l].time
            /\ \E from \in [1 .. m -> Timed(listed)] :
                 /\ \A k \in 1 .. m : h[k] = listed[from[k]]
                 /\ \A i \in Timed(listed) : \E k \in 1 .. m : from[k] = i
                 /\ \A k, l \in 1 .. m : from[k] = from[l] => k = l
<1> DEFINE X == [time : Int \cup {None}, file : Fs]
           P == Timed(listed)
           m == Cardinality(P)
           files == Picked(listed, P)
           scores == [i \in DOMAIN files |-> files[i].time]
           order == Ranking(scores)
           h == ListHistory(listed)
<1>1. h = [i \in DOMAIN order |-> files[order[i]]]
  BY DEF ListHistory, Timed
<1>2. P \in SUBSET (DOMAIN listed) /\ DOMAIN listed = 1 .. Len(listed) /\ Len(listed) \in Nat
      /\ \A i \in P : listed[i] \in X /\ listed[i].time \in Int
  <2>1. P \in SUBSET (DOMAIN listed) /\ \A i \in P : listed[i].time # None
    BY DEF Timed
  <2>2. DOMAIN listed = 1 .. Len(listed) /\ Len(listed) \in Nat /\ \A i \in 1 .. Len(listed) : listed[i] \in X
    <3>1. listed \in Seq(X)
      OBVIOUS
    <3> HIDE DEF X
    <3>2. QED
      BY <3>1
  <2>3. \A f \in X : f.time \in Int \cup {None}
    OBVIOUS
  <2> HIDE DEF X, P
  <2>4. QED
    BY <2>1, <2>2, <2>3
<1>3. IsFiniteSet(P) /\ m \in Nat
  <2> HIDE DEF P
  <2>1. QED
    BY <1>2, PlacesAreFinite
<1> HIDE DEF X, P
<1>4. /\ files \in Seq(X) /\ Len(files) = m
      /\ \E at : Enumerates(at, P) /\ \A k \in 1 .. m : files[k] = listed[at[k]]
  <2>1. listed \in Seq(X)
    BY DEF X
  <2>2. QED
    BY <1>2, <2>1, PickedIs
<1>5. PICK at : Enumerates(at, P) /\ \A k \in 1 .. m : files[k] = listed[at[k]]
  BY <1>4
<1> HIDE DEF files
<1>6. /\ at \in [1 .. m -> P]
      /\ \A p \in P : \E k \in 1 .. m : at[k] = p
      /\ \A i, j \in 1 .. m : i < j => at[i] < at[j]
  BY <1>5 DEF Enumerates
<1>7. DOMAIN files = 1 .. m /\ \A k \in 1 .. m : files[k] \in X /\ files[k].time \in Int
  <2>1. DOMAIN files = 1 .. m /\ \A k \in 1 .. m : files[k] \in X
    BY <1>4
  <2> HIDE DEF m
  <2>2. QED
    BY <1>2, <1>5, <1>6, <2>1
<1> HIDE DEF m
<1>8. scores \in [1 .. m -> Int] /\ \A k \in 1 .. m : scores[k] = files[k].time
  BY <1>7
<1> HIDE DEF scores
<1>9. /\ order \in [1 .. m -> 1 .. m]
      /\ \A j \in 1 .. m : \E k \in 1 .. m : order[k] = j
      /\ \A k, l \in 1 .. m : k < l => order[k] \in PlacesAhead(scores, order[l])
  BY <1>3, <1>8, RankingIs DEF m
<1> HIDE DEF order
<1>10. h = [i \in 1 .. m |-> files[order[i]]]
  BY <1>1, <1>9
<1> HIDE DEF h
<1> DEFINE from == [k \in 1 .. m |-> at[order[k]]]
<1>11. /\ from \in [1 .. m -> P] /\ \A k \in 1 .. m : h[k] = files[order[k]] /\ h[k] = listed[from[k]]
  BY <1>5, <1>6, <1>9, <1>10
<1>12. h \in Seq(X) /\ Len(h) = m /\ \A k \in 1 .. m : h[k].time \in Int /\ h[k].time = scores[order[k]]
  <2>1. h \in [1 .. m -> X]
    BY <1>7, <1>9, <1>10
  <2>2. h \in Seq(X) /\ Len(h) = m
    BY <1>3, <2>1, RowIs DEF m
  <2>3. ASSUME NEW k \in 1 .. m
        PROVE  h[k].time \in Int /\ h[k].time = scores[order[k]]
    <3>1. order[k] \in 1 .. m
      BY <1>9
    <3>2. h[k] = files[order[k]]
      BY <1>11
    <3>3. files[order[k]].time \in Int /\ scores[order[k]] = files[order[k]].time
      BY <1>7, <1>8, <3>1
    <3>4. QED
      BY <3>2, <3>3
  <2>4. QED
    BY <2>2, <2>3
<1>13. \A i \in P : \E k \in 1 .. m : from[k] = i
  BY <1>6, <1>9
<1>14. ASSUME NEW k \in 1 .. m, NEW l \in 1 .. m, k < l
       PROVE  h[k].time >= h[l].time /\ from[k] # from[l]
  <2>1. scores[order[k]] > scores[order[l]] \/ (scores[order[k]] = scores[order[l]] /\ order[k] < order[l])
    BY <1>9, <1>14 DEF PlacesAhead
  <2>2. h[k].time >= h[l].time
    <3>1. h[k].time \in Int /\ h[l].time \in Int /\ h[k].time = scores[order[k]] /\ h[l].time = scores[order[l]]
      BY <1>12
    <3>2. QED
      BY <2>1, <3>1
  <2>3. order[k] \in 1 .. m /\ order[l] \in 1 .. m /\ order[k] # order[l]
    <3>1. order[k] \in 1 .. m /\ order[l] \in 1 .. m
      BY <1>9
    <3>2. scores[order[k]] \in Int /\ scores[order[l]] \in Int
      BY <1>8, <3>1
    <3>3. QED
      BY <2>1, <3>1, <3>2
  <2>4. at[order[k]] # at[order[l]]
    <3>1. order[k] < order[l] \/ order[l] < order[k]
      BY <1>3, <2>3 DEF m
    <3>2. at[order[k]] < at[order[l]] \/ at[order[l]] < at[order[k]]
      BY <1>6, <2>3, <3>1
    <3>3. at[order[k]] \in Int /\ at[order[l]] \in Int
      BY <1>2, <1>6, <2>3
    <3>4. QED
      BY <3>2, <3>3
  <2>5. QED
    BY <2>2, <2>4
<1>15. \A k, l \in 1 .. m : from[k] = from[l] => k = l
  <2>1. SUFFICES ASSUME NEW k \in 1 .. m, NEW l \in 1 .. m, k # l
                 PROVE  from[k] # from[l]
    OBVIOUS
  <2>2. k < l \/ l < k
    BY <1>3, <2>1 DEF m
  <2> HIDE DEF from
  <2>3. QED
    BY <1>14, <2>2
<1> HIDE DEF from
<1>16. \A k, l \in 1 .. m : k < l => h[k].time >= h[l].time
  BY <1>14
<1>17. QED
  BY <1>3, <1>11, <1>12, <1>13, <1>15, <1>16 DEF X, P, m, h

\* The nth snapshot is the nth however files are listed.  schemadex_diff.rs
THEOREM SnapshotIsTheNthForAll ==
  ASSUME NEW listed, IsListing(listed), None \notin ToSet(listed), NEW n \in Nat
  PROVE  SnapshotIsTheNth(listed, n)
<1> DEFINE P == Timed(listed)
           m == Cardinality(P)
           h == ListHistory(listed)
           times == {f.time : f \in ToSet(listed)} \ {None}
           s == ResolveSnapshot(TRUE, listed, n)
<1>1. PICK Fs : listed \in Seq([time : Int \cup {None}, file : Fs])
  BY DEF IsListing
<1>2. /\ m \in Nat /\ IsFiniteSet(P) /\ Len(h) = m
      /\ \A k \in 1 .. m : h[k].time \in Int
      /\ \A k, l \in 1 .. m : k < l => h[k].time >= h[l].time
  BY <1>1, HistoryIs
<1>3. PICK from \in [1 .. m -> P] :
        /\ \A k \in 1 .. m : h[k] = listed[from[k]]
        /\ \A i \in P : \E k \in 1 .. m : from[k] = i
        /\ \A k, l \in 1 .. m : from[k] = from[l] => k = l
  BY <1>1, HistoryIs
<1>4. P \in SUBSET (DOMAIN listed) /\ \A i \in DOMAIN listed : i \in P <=> listed[i].time # None
  BY DEF Timed
<1>5. s = IF n = 0 \/ n > m THEN None ELSE h[n]
  BY <1>2 DEF ResolveSnapshot
<1>6. {i \in DOMAIN listed : listed[i].time # None} = P
  BY <1>4
<1>7. times = {listed[i].time : i \in P}
  BY <1>4 DEF ToSet
<1> HIDE DEF P, h, s, times
<1>8. SUFFICES ASSUME Cardinality(times) = m
               PROVE  IF n \in 1 .. Cardinality(times)
                        THEN s # None /\ Cardinality({u \in times : u > s.time}) = n - 1
                        ELSE s = None
  BY <1>6 DEF SnapshotIsTheNth, times, s
<1>9. \A i, j \in P : listed[i].time = listed[j].time => i = j
  <2> DEFINE f == [i \in P |-> listed[i].time]
  <2>1. f \in [P -> times] /\ \A x \in times : \E i \in P : f[i] = x
    BY <1>7
  <2>2. \A i, j \in P : f[i] = f[j] => i = j
    <3> HIDE DEF f
    <3>1. QED
      BY <1>2, <1>8, <2>1, EachItsOwn
  <2>3. QED
    BY <2>2
<1> HIDE DEF m
<1>10. CASE n \notin 1 .. m
  <2>1. n = 0 \/ n > m
    BY <1>2, <1>10
  <2>2. QED
    BY <1>5, <1>8, <1>10, <2>1
<1>11. CASE n \in 1 .. m
  <2>1. s = h[n] /\ s.time = h[n].time
    BY <1>2, <1>5, <1>11
  <2>2. s # None
    <3>1. s = listed[from[n]] /\ from[n] \in DOMAIN listed
      BY <1>3, <1>4, <1>11, <2>1
    <3>2. QED
      BY <3>1 DEF ToSet
  <2> DEFINE U == {u \in times : u > s.time}
             g == [k \in 1 .. n - 1 |-> h[k].time]
  <2>3. \A k, l \in 1 .. m : k # l => h[k].time # h[l].time
    BY <1>3, <1>9
  <2>4. \A k \in 1 .. n - 1 : k \in 1 .. m /\ k < n
    BY <1>2, <1>11
  <2>5. \A k \in 1 .. m : h[k].time \in times
    BY <1>3, <1>7
  <2>6. g \in [1 .. n - 1 -> U]
    <3>1. SUFFICES ASSUME NEW k \in 1 .. n - 1
                   PROVE  h[k].time \in U
      OBVIOUS
    <3>2. k \in 1 .. m /\ k < n /\ k # n
      BY <2>4
    <3>3. h[k].time >= h[n].time /\ h[k].time # h[n].time
      BY <1>2, <1>11, <2>3, <3>2
    <3>4. h[k].time \in Int /\ h[n].time \in Int
      BY <1>2, <1>11, <3>2
    <3>5. h[k].time > h[n].time
      BY <3>3, <3>4
    <3>6. QED
      BY <2>1, <2>5, <3>2, <3>5
  <2>7. \A k, l \in 1 .. n - 1 : g[k] = g[l] => k = l
    BY <2>3, <2>4
  <2>8. ASSUME NEW u \in U
        PROVE  \E k \in 1 .. n - 1 : g[k] = u
    <3>1. PICK i \in P : u = listed[i].time
      BY <1>7
    <3>2. PICK k \in 1 .. m : from[k] = i
      BY <1>3
    <3>3. u = h[k].time
      BY <1>3, <3>1, <3>2
    <3>4. h[k].time > h[n].time /\ h[k].time \in Int /\ h[n].time \in Int
      BY <1>2, <1>11, <2>1, <3>3
    <3>5. ~(n < k) /\ k # n
      BY <1>2, <1>11, <3>4
    <3>6. k \in 1 .. n - 1
      BY <1>2, <1>11, <3>5
    <3>7. QED
      BY <3>3, <3>6
  <2>9. n - 1 \in Nat
    BY <1>11
  <2>10. IsFiniteSet(1 .. n - 1) /\ Cardinality(1 .. n - 1) = n - 1
    BY <2>9, IntervalIs
  <2>11. Cardinality(U) = n - 1
    <3> DEFINE K == 1 .. n - 1
    <3>1. /\ IsFiniteSet(K) /\ Cardinality(K) = n - 1 /\ g \in [K -> U]
          /\ \A k, l \in K : g[k] = g[l] => k = l
          /\ \A u \in U : \E k \in K : g[k] = u
      <4> HIDE DEF U, g
      <4>1. QED
        BY <2>6, <2>7, <2>8, <2>10
    <3> HIDE DEF U, g, K
    <3>2. Cardinality(U) = Cardinality(K)
      BY <3>1, SameSize
    <3>3. QED
      BY <3>1, <3>2
  <2>12. QED
    BY <1>8, <1>11, <2>2, <2>11
<1>12. QED
  BY <1>10, <1>11

\* A file as a tool reads it, or none; Ds are the databases there are.
IsCacheFile(f, Ds) ==
  f # None => f.called \in BOOLEAN /\ f.compressed \in BOOLEAN /\ f.database \in Ds

IsDirectory(dir, Ds) ==
  dir # None => /\ IsCacheFile(dir.current, Ds)
                /\ IsListing(dir.listed) /\ None \notin ToSet(dir.listed)
                /\ \A f \in ToSet(dir.listed) : f.file # None /\ IsCacheFile(f.file, Ds)

AreCaches(given, dir) ==
  /\ given.n \in Nat \cup {None}
  /\ \E Ds : /\ None \notin Ds /\ None \notin Ds \X Ds
             /\ IsCacheFile(given.from, Ds) /\ IsCacheFile(given.to, Ds) /\ IsDirectory(dir, Ds)

LEMMA LoadedIs ==
  ASSUME NEW Ds, None \notin Ds, NEW f, f # None, IsCacheFile(f, Ds), f.called = f.compressed
  PROVE  LoadDatabase(f) = f.database /\ LoadDatabase(f) \in Ds
BY DEF IsCacheFile, LoadDatabase

LEMMA BothLoaded ==
  ASSUME NEW a, NEW b, NEW databases, databases = [i \in DOMAIN <<a, b>> |-> LoadDatabase(<<a, b>>[i])]
  PROVE  /\ databases = <<LoadDatabase(a), LoadDatabase(b)>>
         /\ databases[2] = LoadDatabase(b)
         /\ ToSet(databases) = {LoadDatabase(a), LoadDatabase(b)}
<1>1. DOMAIN <<a, b>> = 1 .. 2 /\ <<a, b>>[1] = a /\ <<a, b>>[2] = b
  OBVIOUS
<1>2. databases = [i \in 1 .. 2 |-> LoadDatabase(IF i = 1 THEN a ELSE b)]
  <2>1. \A i \in 1 .. 2 : i = 1 \/ i = 2
    OBVIOUS
  <2>2. \A i \in 1 .. 2 : <<a, b>>[i] = IF i = 1 THEN a ELSE b
    BY <1>1, <2>1
  <2>3. QED
    BY <1>1, <2>2
<1> DEFINE x == LoadDatabase(a)
           y == LoadDatabase(b)
<1>3. databases = [i \in 1 .. 2 |-> IF i = 1 THEN x ELSE y]
  BY <1>2
<1> HIDE DEF x, y
<1>4. databases = <<x, y>> /\ databases[2] = y /\ DOMAIN databases = 1 .. 2 /\ databases[1] = x
  BY <1>3
<1>5. ToSet(databases) = {x, y}
  <2>1. \A i \in 1 .. 2 : i = 1 \/ i = 2
    OBVIOUS
  <2>2. QED
    BY <1>4, <2>1 DEF ToSet
<1>6. QED
  BY <1>4, <1>5 DEF x, y

\* What is compared, by what is given.
LEMMA ComparesIs ==
  ASSUME NEW given, NEW dir
  PROVE  LET plain == dir = None \/ given.n = None
             s == ResolveSnapshot(dir.current # None, dir.listed, given.n)
             both(a, b) == IF LoadDatabase(a) = None \/ LoadDatabase(b) = None THEN None
                           ELSE <<LoadDatabase(a), LoadDatabase(b)>>
         IN /\ plain /\ (given.from = None \/ given.to = None) => Compares(given, dir) = None
            /\ plain /\ given.from # None /\ given.to # None => Compares(given, dir) = both(given.from, given.to)
            /\ ~plain /\ s = None => Compares(given, dir) = None
            /\ ~plain /\ s # None => Compares(given, dir) = both(s.file, dir.current)
<1> DEFINE plain == dir = None \/ given.n = None
           command == DiffArgs(given.from, given.to, dir, given.n)
           s == ResolveSnapshot(dir.current # None, dir.listed, given.n)
           found == IF command = "snapshot" THEN s ELSE None
           files == CASE command = "pair" -> <<given.from, given.to>>
                      [] command = "snapshot" /\ found # None -> <<found.file, dir.current>>
                      [] OTHER -> <<>>
           loaded(fs) == [i \in DOMAIN fs |-> LoadDatabase(fs[i])]
           answer(fs) == IF fs = <<>> \/ None \in ToSet(loaded(fs)) THEN None ELSE loaded(fs)
           both(a, b) == IF LoadDatabase(a) = None \/ LoadDatabase(b) = None THEN None
                         ELSE <<LoadDatabase(a), LoadDatabase(b)>>
<1>1. Compares(given, dir) = answer(files)
  BY Zenon DEF Compares
<1>2. ASSUME NEW a, NEW b
      PROVE  answer(<<a, b>>) = both(a, b)
  <2>1. /\ loaded(<<a, b>>) = <<LoadDatabase(a), LoadDatabase(b)>>
        /\ ToSet(loaded(<<a, b>>)) = {LoadDatabase(a), LoadDatabase(b)}
    BY BothLoaded
  <2>2. <<a, b>> # <<>>
    OBVIOUS
  <2> HIDE DEF loaded
  <2>3. QED
    BY <2>1, <2>2
<1>3. answer(<<>>) = None
  OBVIOUS
<1>4. None # "pair" /\ None # "snapshot" /\ "pair" # "snapshot"
  BY NoneIsNoArgument
<1>5. /\ plain /\ given.from # None /\ given.to # None => command = "pair"
      /\ plain /\ (given.from = None \/ given.to = None) => command = None
      /\ ~plain => command = "snapshot"
  BY DEF DiffArgs
<1> HIDE DEF command, s, answer, both
<1>6. /\ plain /\ (given.from = None \/ given.to = None) => files = <<>>
      /\ plain /\ given.from # None /\ given.to # None => files = <<given.from, given.to>>
      /\ ~plain /\ s = None => files = <<>>
      /\ ~plain /\ s # None => files = <<s.file, dir.current>>
  BY <1>4, <1>5
<1> HIDE DEF files
<1>7. /\ plain /\ (given.from = None \/ given.to = None) => Compares(given, dir) = None
      /\ plain /\ given.from # None /\ given.to # None => Compares(given, dir) = both(given.from, given.to)
      /\ ~plain /\ s = None => Compares(given, dir) = None
      /\ ~plain /\ s # None => Compares(given, dir) = both(s.file, dir.current)
  BY <1>1, <1>2, <1>3, <1>6
<1>8. QED
  BY <1>7 DEF both, s

LEMMA DocumentsIs ==
  ASSUME NEW cache, NEW url
  PROVE  Documents(cache, url, "out") =
           CASE cache # None /\ url = None -> cache.database
             [] cache = None /\ url # None -> url
             [] OTHER -> None
<1>1. None # "out" /\ None # "cache" /\ None # "url" /\ "cache" # "url"
  BY NoneIsNoArgument
<1>2. DocsArgs(cache, url, "out") = CASE cache # None /\ url = None -> "cache"
                                      [] cache = None /\ url # None -> "url"
                                      [] OTHER -> None
  BY <1>1 DEF DocsArgs
<1>3. QED
  BY <1>1, <1>2 DEF Documents, LoadCache

\* Files are read alike by the tools that take them.  schemadex_diff.rs
THEOREM ToolsReadCachesForAll ==
  ASSUME NEW given, NEW dir, AreCaches(given, dir), NEW url
  PROVE  ToolsReadCaches(given, dir, url)
<1> DEFINE pair == Compares(given, dir)
           written(f) == f.called /\ f.compressed
           plain == dir = None \/ given.n = None
           s == ResolveSnapshot(dir.current # None, dir.listed, given.n)
<1>1. /\ plain /\ (given.from = None \/ given.to = None) => pair = None
      /\ plain /\ given.from # None /\ given.to # None =>
           pair = IF LoadDatabase(given.from) = None \/ LoadDatabase(given.to) = None THEN None
                  ELSE <<LoadDatabase(given.from), LoadDatabase(given.to)>>
      /\ ~plain /\ s # None =>
           pair = IF LoadDatabase(s.file) = None \/ LoadDatabase(dir.current) = None THEN None
                  ELSE <<LoadDatabase(s.file), LoadDatabase(dir.current)>>
  BY ComparesIs
<1> HIDE DEF pair
<1>d. PICK Ds : /\ None \notin Ds /\ None \notin Ds \X Ds
                /\ IsCacheFile(given.from, Ds) /\ IsCacheFile(given.to, Ds) /\ IsDirectory(dir, Ds)
  BY DEF AreCaches
<1>2. ASSUME pair # None, plain
      PROVE  pair = <<Documents(given.from, None, "out"), Documents(given.to, None, "out")>>
  <2>1. /\ given.from # None /\ given.to # None
        /\ LoadDatabase(given.from) # None /\ LoadDatabase(given.to) # None
        /\ pair = <<LoadDatabase(given.from), LoadDatabase(given.to)>>
    BY <1>1, <1>2
  <2>2. LoadDatabase(given.from) = given.from.database /\ LoadDatabase(given.to) = given.to.database
    BY <2>1 DEF LoadDatabase
  <2>3. Documents(given.from, None, "out") = given.from.database /\ Documents(given.to, None, "out") = given.to.database
    BY <2>1, DocumentsIs
  <2>4. QED
    BY <2>1, <2>2, <2>3
<1>3. ASSUME dir # None, dir.current # None, given.n \in DOMAIN dir.listed, written(dir.current),
             \A f \in ToSet(dir.listed) : f.time # None /\ written(f.file)
      PROVE  pair # None /\ pair[2] = dir.current.database
  <2> DEFINE listed == dir.listed
             n == given.n
             h == ListHistory(listed)
  <2>1. PICK Fs : listed \in Seq([time : Int \cup {None}, file : Fs])
    BY <1>3, <1>d DEF IsDirectory, IsListing
  <2>2. DOMAIN listed = 1 .. Len(listed) /\ Len(listed) \in Nat
    BY <2>1
  <2>3. Timed(listed) = 1 .. Len(listed)
    BY <1>3, <2>2 DEF Timed, ToSet
  <2>4. Cardinality(Timed(listed)) = Len(listed)
    BY <2>2, <2>3, IntervalIs
  <2>5. /\ Len(h) = Len(listed)
        /\ \E from \in [1 .. Len(listed) -> Timed(listed)] : \A k \in 1 .. Len(listed) : h[k] = listed[from[k]]
    <3> HIDE DEF listed
    <3> DEFINE m == Cardinality(Timed(listed))
    <3>1. /\ Len(h) = m
          /\ \E from \in [1 .. m -> Timed(listed)] :
               /\ \A k \in 1 .. m : h[k] = listed[from[k]]
               /\ \A i \in Timed(listed) : \E k \in 1 .. m : from[k] = i
               /\ \A k, l \in 1 .. m : from[k] = from[l] => k = l
      BY <2>1, HistoryIs, ZenonT(60)
    <3> HIDE DEF h
    <3>2. QED
      BY <2>4, <3>1
  <2>6. n \in 1 .. Len(listed)
    BY <1>3, <2>2
  <2>7. h[n] \in ToSet(listed)
    <3>1. PICK from \in [1 .. Len(listed) -> Timed(listed)] : \A k \in 1 .. Len(listed) : h[k] = listed[from[k]]
      BY <2>5
    <3>2. from[n] \in DOMAIN listed /\ h[n] = listed[from[n]]
      BY <2>2, <2>3, <2>6, <3>1
    <3> HIDE DEF h
    <3>3. QED
      BY <3>2 DEF ToSet
  <2>8. n # None
    BY <2>2, <2>6, NoneIsNoArgument
  <2>9. s = h[n]
    <3>1. n # 0 /\ ~(n > Len(h))
      BY <2>2, <2>5, <2>6
    <3> HIDE DEF h
    <3>2. QED
      BY <1>3, <3>1 DEF ResolveSnapshot, h
  <2>10. s # None /\ s.file # None /\ IsCacheFile(s.file, Ds) /\ IsCacheFile(dir.current, Ds)
    BY <1>3, <1>d, <2>7, <2>9 DEF IsDirectory
  <2>11. written(s.file)
    BY <1>3, <2>7, <2>9
  <2>12. s.file.called = s.file.compressed /\ dir.current.called = dir.current.compressed
    BY <1>3, <2>10, <2>11 DEF IsCacheFile
  <2>13. LoadDatabase(s.file) \in Ds /\ LoadDatabase(dir.current) \in Ds /\ LoadDatabase(dir.current) = dir.current.database
    BY <1>3, <1>d, <2>10, <2>12, LoadedIs
  <2> HIDE DEF s
  <2>14. pair = <<LoadDatabase(s.file), LoadDatabase(dir.current)>>
    BY <1>1, <1>3, <1>d, <2>8, <2>10, <2>13
  <2>15. pair # None
    <3>1. pair \in Ds \X Ds
      BY <2>13, <2>14
    <3>2. QED
      BY <1>d, <3>1
  <2>16. QED
    BY <2>13, <2>14, <2>15
<1>4. Documents(given.from, url, "out") # None <=> (given.from = None) # (url = None)
  <2>1. given.from # None => given.from.database # None
    BY <1>d DEF IsCacheFile
  <2>2. QED
    BY <2>1, DocumentsIs
<1>5. QED
  BY <1>2, <1>3, <1>4 DEF ToolsReadCaches, pair

\* What a map collected from pairs holds.
LEMMA CollectIs ==
  ASSUME NEW pairs, NEW n \in Nat, DOMAIN pairs = 1 .. n, Len(pairs) = n
  PROVE  /\ \A k : k \in DOMAIN Collect(pairs) <=> \E i \in 1 .. n : pairs[i][1] = k
         /\ \A k \in DOMAIN Collect(pairs) : \E i \in 1 .. n : pairs[i][1] = k /\ Collect(pairs)[k] = pairs[i][2]
<1> DEFINE K == {pairs[i][1] : i \in 1 .. n}
           I(k) == {i \in 1 .. n : pairs[i][1] = k}
           last(k) == IF I(k) # {} THEN Max(I(k)) ELSE 0
<1>1. {p[1] : p \in ToSet(pairs)} = K
  BY DEF ToSet
<1>2. Collect(pairs) = [k \in K |-> pairs[last(k)][2]]
  BY <1>1 DEF Collect, SelectLastInSeq
<1>3. ASSUME NEW k \in K
      PROVE  last(k) \in 1 .. n /\ pairs[last(k)][1] = k
  <2>1. I(k) \in SUBSET Nat /\ I(k) # {} /\ \A y \in I(k) : y <= n
    OBVIOUS
  <2> DEFINE T == I(k)
  <2>2. T \in SUBSET Nat /\ T # {} /\ \A y \in T : y <= n
    BY <2>1
  <2> HIDE DEF T
  <2>3. Max(T) \in T
    BY <2>2, MaxIs
  <2>4. last(k) \in I(k)
    BY <2>2, <2>3 DEF T
  <2>5. QED
    BY <2>4
<1> HIDE DEF last, K
<1>4. DOMAIN Collect(pairs) = K /\ \A k \in K : Collect(pairs)[k] = pairs[last(k)][2]
  BY <1>2
<1>5. \A k \in K : \E i \in 1 .. n : pairs[i][1] = k /\ Collect(pairs)[k] = pairs[i][2]
  BY <1>3, <1>4
<1>6. \A k : k \in DOMAIN Collect(pairs) <=> \E i \in 1 .. n : pairs[i][1] = k
  BY <1>4 DEF K
<1>7. QED
  BY <1>4, <1>5, <1>6

IsRow(s) == Len(s) \in Nat /\ DOMAIN s = 1 .. Len(s)

\* A database to compare: tables and their columns in order.
IsCompared(db) == IsRow(db) /\ \A t \in ToSet(db) : IsRow(t.columns)

SpelledLower(name) == [i \in DOMAIN name |-> name[i][1]]

LEMMA LowerIs ==
  ASSUME NEW t
  PROVE  Lower(t) = SpelledLower(QualifiedName(t))
BY DEF Lower, SpelledLower

LEMMA ByNameIs ==
  ASSUME NEW db, IsCompared(db)
  PROVE  /\ IsFiniteSet(DOMAIN ByName(db))
         /\ \A k \in DOMAIN ByName(db) : ByName(db)[k] \in ToSet(db) /\ Lower(ByName(db)[k]) = k
<1> DEFINE n == Len(db)
           pairs == [i \in DOMAIN db |-> <<Lower(db[i]), db[i]>>]
           m == ByName(db)
<1>1. n \in Nat /\ DOMAIN db = 1 .. n
  BY DEF IsCompared, IsRow
<1>2. DOMAIN pairs = 1 .. n /\ \A i \in 1 .. n : pairs[i][1] = Lower(db[i]) /\ pairs[i][2] = db[i]
  BY <1>1
<1>3. Len(pairs) = n
  <2>1. pairs = [i \in 1 .. n |-> <<Lower(db[i]), db[i]>>]
    BY <1>1
  <2> HIDE DEF n
  <2>2. QED
    BY <1>1, <2>1
<1>4. m = Collect(pairs)
  BY DEF ByName
<1> HIDE DEF pairs, n, m
<1>5. /\ DOMAIN m = {pairs[i][1] : i \in 1 .. n}
      /\ \A k \in DOMAIN m : \E i \in 1 .. n : pairs[i][1] = k /\ m[k] = pairs[i][2]
  <2> DEFINE c == Collect(pairs)
  <2>1. /\ \A k : k \in DOMAIN c <=> \E i \in 1 .. n : pairs[i][1] = k
        /\ \A k \in DOMAIN c : \E i \in 1 .. n : pairs[i][1] = k /\ c[k] = pairs[i][2]
    BY <1>1, <1>2, <1>3, CollectIs
  <2>2. m = c
    BY <1>4
  <2> HIDE DEF c
  <2>3. QED
    BY <2>1, <2>2
<1>6. IsFiniteSet(DOMAIN m)
  <2> DEFINE f == [i \in 1 .. n |-> pairs[i][1]]
  <2>1. f \in Surjection(1 .. n, DOMAIN m)
    BY <1>5 DEF Surjection
  <2>2. IsFiniteSet(1 .. n)
    BY <1>1, IntervalIs
  <2>3. QED
    BY <2>1, <2>2, FS_Surjection
<1>7. \A k \in DOMAIN m : m[k] \in ToSet(db) /\ Lower(m[k]) = k
  BY <1>1, <1>2, <1>5 DEF ToSet
<1>8. QED
  BY <1>6, <1>7 DEF m

LEMMA ColumnsAre ==
  ASSUME NEW t, IsRow(t.columns)
  PROVE  /\ DOMAIN Columns(t) = {c.name[1] : c \in ToSet(t.columns)}
         /\ \A x \in DOMAIN Columns(t) : Columns(t)[x] \in ToSet(t.columns) /\ Columns(t)[x].name[1] = x
<1> DEFINE cs == t.columns
           n == Len(cs)
           pairs == [i \in DOMAIN cs |-> <<cs[i].name[1], cs[i]>>]
           m == Columns(t)
<1>1. n \in Nat /\ DOMAIN cs = 1 .. n
  BY DEF IsRow
<1>2. m = Collect(pairs)
  BY DEF Columns
<1> HIDE DEF cs
<1>3. DOMAIN pairs = 1 .. n /\ \A i \in 1 .. n : pairs[i][1] = cs[i].name[1] /\ pairs[i][2] = cs[i]
  BY <1>1
<1>4. Len(pairs) = n
  <2>1. pairs = [i \in 1 .. n |-> <<cs[i].name[1], cs[i]>>]
    BY <1>1
  <2> HIDE DEF n
  <2>2. QED
    BY <1>1, <2>1
<1> HIDE DEF pairs, n, m
<1>5. /\ DOMAIN m = {pairs[i][1] : i \in 1 .. n}
      /\ \A k \in DOMAIN m : \E i \in 1 .. n : pairs[i][1] = k /\ m[k] = pairs[i][2]
  <2> DEFINE c == Collect(pairs)
  <2>1. /\ \A k : k \in DOMAIN c <=> \E i \in 1 .. n : pairs[i][1] = k
        /\ \A k \in DOMAIN c : \E i \in 1 .. n : pairs[i][1] = k /\ c[k] = pairs[i][2]
    BY <1>1, <1>3, <1>4, CollectIs
  <2>2. m = c
    BY <1>2
  <2> HIDE DEF c
  <2>3. QED
    BY <2>1, <2>2
<1>6. DOMAIN m = {c.name[1] : c \in ToSet(cs)}
  BY <1>1, <1>3, <1>5 DEF ToSet
<1>7. ASSUME NEW x \in DOMAIN m
      PROVE  m[x] \in ToSet(cs) /\ m[x].name[1] = x
  <2>1. PICK i \in 1 .. n : pairs[i][1] = x /\ m[x] = pairs[i][2]
    BY <1>5
  <2>2. m[x] = cs[i] /\ cs[i].name[1] = x
    BY <1>3, <2>1
  <2>3. cs[i] \in ToSet(cs)
    BY <1>1 DEF ToSet
  <2>4. QED
    BY <2>2, <2>3
<1>8. QED
  BY <1>6, <1>7 DEF m, cs

\* Two tables are told apart whichever comes first.
LEMMA DiffIsSymmetric ==
  ASSUME NEW a, NEW b
  PROVE  DiffColumns(a, b) = NoChange <=> DiffColumns(b, a) = NoChange
<1> DEFINE o == Columns(a)
           n == Columns(b)
           New(p, q) == {<<p[k].name, p[k].type>> : k \in DOMAIN p \ DOMAIN q}
           Re(p, q) == {<<q[k].name, p[k].type, q[k].type>> :
                          k \in {k \in DOMAIN p \cap DOMAIN q : p[k].type # q[k].type}}
<1>1. /\ DiffColumns(a, b) = [added |-> New(n, o), removed |-> New(o, n), retyped |-> Re(o, n)]
      /\ DiffColumns(b, a) = [added |-> New(o, n), removed |-> New(n, o), retyped |-> Re(n, o)]
  BY DEF DiffColumns
<1>2. Re(o, n) = {} <=> Re(n, o) = {}
  <2> DEFINE D == {k \in DOMAIN o \cap DOMAIN n : o[k].type # n[k].type}
             E == {k \in DOMAIN n \cap DOMAIN o : n[k].type # o[k].type}
  <2>1. D = E
    OBVIOUS
  <2>2. Re(o, n) = {} <=> D = {}
    OBVIOUS
  <2>3. Re(n, o) = {} <=> E = {}
    OBVIOUS
  <2>4. QED
    BY <2>1, <2>2, <2>3
<1> HIDE DEF New, Re
<1>3. QED
  BY <1>1, <1>2 DEF NoChange

\* The difference, by the names of the tables.
LEMMA DiffIs ==
  ASSUME NEW old, NEW new
  PROVE  LET o == ByName(old)
             n == ByName(new)
             d == Diff(old, new)
         IN /\ d.added = {QualifiedName(n[k]) : k \in DOMAIN n \ DOMAIN o}
            /\ d.removed = {QualifiedName(o[k]) : k \in DOMAIN o \ DOMAIN n}
            /\ d.changed = {<<QualifiedName(n[k]), DiffColumns(o[k], n[k])>> :
                              k \in {k \in DOMAIN o \cap DOMAIN n : DiffColumns(o[k], n[k]) # NoChange}}
            /\ d = [added |-> d.added, removed |-> d.removed, changed |-> d.changed]
<1> DEFINE o == ByName(old)
           n == ByName(new)
           A == {QualifiedName(n[k]) : k \in DOMAIN n \ DOMAIN o}
           R == {QualifiedName(o[k]) : k \in DOMAIN o \ DOMAIN n}
           C == {<<QualifiedName(n[k]), DiffColumns(o[k], n[k])>> :
                   k \in {k \in DOMAIN o \cap DOMAIN n : DiffColumns(o[k], n[k]) # NoChange}}
<1>1. Diff(old, new) = [added |-> A, removed |-> R, changed |-> C]
  BY DEF Diff
<1> HIDE DEF A, R, C
<1>2. /\ Diff(old, new).added = A /\ Diff(old, new).removed = R /\ Diff(old, new).changed = C
      /\ Diff(old, new) = [added |-> Diff(old, new).added, removed |-> Diff(old, new).removed,
                           changed |-> Diff(old, new).changed]
  BY <1>1
<1>3. QED
  BY <1>2 DEF A, R, C

\* How many tables are reported, and that the other way round it is the same.
LEMMA CountsAreExact ==
  ASSUME NEW old, IsCompared(old), NEW new, IsCompared(new)
  PROVE  LET d == Diff(old, new)
             back == Diff(new, old)
             kept == DOMAIN ByName(old) \cap DOMAIN ByName(new)
         IN /\ Cardinality(d.added) = Cardinality(DOMAIN ByName(new) \ kept)
            /\ d = NoChanges <=> back = NoChanges
            /\ Cardinality(d.added) = Cardinality(back.removed) /\ Cardinality(d.changed) = Cardinality(back.changed)
<1> DEFINE o == ByName(old)
           n == ByName(new)
           d == Diff(old, new)
           back == Diff(new, old)
           kept == DOMAIN o \cap DOMAIN n
           C == {k \in kept : DiffColumns(o[k], n[k]) # NoChange}
           name(k) == QualifiedName(n[k])
<1>1. /\ IsFiniteSet(DOMAIN o) /\ IsFiniteSet(DOMAIN n)
      /\ \A k \in DOMAIN o : SpelledLower(QualifiedName(o[k])) = k
      /\ \A k \in DOMAIN n : SpelledLower(QualifiedName(n[k])) = k
  BY ByNameIs, LowerIs
<1>2. /\ d.added = {QualifiedName(n[k]) : k \in DOMAIN n \ DOMAIN o}
      /\ d.removed = {QualifiedName(o[k]) : k \in DOMAIN o \ DOMAIN n}
      /\ d.changed = {<<QualifiedName(n[k]), DiffColumns(o[k], n[k])>> : k \in C}
      /\ d = [added |-> d.added, removed |-> d.removed, changed |-> d.changed]
  BY DiffIs
<1>3. /\ back.added = {QualifiedName(o[k]) : k \in DOMAIN o \ DOMAIN n}
      /\ back.removed = {QualifiedName(n[k]) : k \in DOMAIN n \ DOMAIN o}
      /\ back.changed = {<<QualifiedName(o[k]), DiffColumns(n[k], o[k])>> : k \in C}
      /\ back = [added |-> back.added, removed |-> back.removed, changed |-> back.changed]
  <2>1. {k \in DOMAIN n \cap DOMAIN o : DiffColumns(n[k], o[k]) # NoChange} = C
    BY DiffIsSymmetric
  <2>2. back.changed = {<<QualifiedName(o[k]), DiffColumns(n[k], o[k])>> :
                          k \in {k \in DOMAIN n \cap DOMAIN o : DiffColumns(n[k], o[k]) # NoChange}}
    BY DiffIs
  <2>3. QED
    BY <2>1, <2>2, DiffIs
<1>4. kept \in SUBSET (DOMAIN o) /\ kept \in SUBSET (DOMAIN n) /\ C \in SUBSET kept
      /\ DOMAIN n \ kept = DOMAIN n \ DOMAIN o
  OBVIOUS
<1> HIDE DEF o, n, d, back, kept, C
<1>5. Cardinality(d.added) = Cardinality(DOMAIN n \ kept)
  <2> DEFINE S == DOMAIN n \ DOMAIN o
             f == [k \in S |-> QualifiedName(n[k])]
  <2>1. IsFiniteSet(S)
    BY <1>1, FS_Subset
  <2>2. f \in [S -> d.added] /\ \A x \in d.added : \E k \in S : f[k] = x
    BY <1>2
  <2>3. \A k, l \in S : f[k] = f[l] => k = l
    BY <1>1
  <2> HIDE DEF S, f
  <2>4. Cardinality(d.added) = Cardinality(S)
    BY <2>1, <2>2, <2>3, SameSize
  <2>5. QED
    BY <1>4, <2>4 DEF S
<1>6. Cardinality(d.changed) = Cardinality(C) /\ Cardinality(back.changed) = Cardinality(C)
  <2>1. IsFiniteSet(C)
    <3>1. IsFiniteSet(kept)
      BY <1>1, <1>4, FS_Subset
    <3>2. QED
      BY <1>4, <3>1, FS_Subset
  <2> DEFINE f == [k \in C |-> <<QualifiedName(n[k]), DiffColumns(o[k], n[k])>>]
             g == [k \in C |-> <<QualifiedName(o[k]), DiffColumns(n[k], o[k])>>]
  <2>2. f \in [C -> d.changed] /\ \A x \in d.changed : \E k \in C : f[k] = x
    BY <1>2
  <2>3. \A k, l \in C : f[k] = f[l] => k = l
    <3>1. \A k \in C : f[k][1] = QualifiedName(n[k]) /\ k \in DOMAIN n
      BY <1>4
    <3> HIDE DEF f
    <3>2. QED
      BY <1>1, <3>1
  <2>4. g \in [C -> back.changed] /\ \A x \in back.changed : \E k \in C : g[k] = x
    BY <1>3
  <2>5. \A k, l \in C : g[k] = g[l] => k = l
    <3>1. \A k \in C : g[k][1] = QualifiedName(o[k]) /\ k \in DOMAIN o
      BY <1>4
    <3> HIDE DEF g
    <3>2. QED
      BY <1>1, <3>1
  <2> HIDE DEF f, g
  <2>6. Cardinality(d.changed) = Cardinality(C)
    BY <2>1, <2>2, <2>3, SameSize
  <2>7. Cardinality(back.changed) = Cardinality(C)
    BY <2>1, <2>4, <2>5, SameSize
  <2>8. QED
    BY <2>6, <2>7
<1>7. d.added = back.removed /\ d.removed = back.added
  BY <1>2, <1>3
<1>8. d.changed = {} <=> back.changed = {}
  <2>1. \A D, f : D = {f[k] : k \in C} => (D = {} <=> C = {})
    OBVIOUS
  <2>2. d.changed = {} <=> C = {}
    <3> DEFINE f == [k \in C |-> <<QualifiedName(n[k]), DiffColumns(o[k], n[k])>>]
    <3>1. d.changed = {f[k] : k \in C}
      BY <1>2
    <3> HIDE DEF f
    <3>2. QED
      BY <2>1, <3>1
  <2>3. back.changed = {} <=> C = {}
    <3> DEFINE f == [k \in C |-> <<QualifiedName(o[k]), DiffColumns(n[k], o[k])>>]
    <3>1. back.changed = {f[k] : k \in C}
      BY <1>3
    <3> HIDE DEF f
    <3>2. QED
      BY <2>1, <3>1
  <2>4. QED
    BY <2>2, <2>3
<1>9. d = NoChanges <=> back = NoChanges
  <2>1. d = NoChanges <=> d.added = {} /\ d.removed = {} /\ d.changed = {}
    BY <1>2 DEF NoChanges
  <2>2. back = NoChanges <=> back.added = {} /\ back.removed = {} /\ back.changed = {}
    BY <1>3 DEF NoChanges
  <2>3. QED
    BY <1>7, <1>8, <2>1, <2>2
<1>10. QED
  BY <1>5, <1>6, <1>7, <1>9 DEF o, n, d, back, kept

\* The columns of a table as a set of pairs of a name and a type.
Typed(m) == {<<x, m[x].type>> : x \in DOMAIN m}

\* What is reported of a table, done to its old columns, gives its new ones.
LEMMA ColumnsPatched ==
  ASSUME NEW old, NEW new, IsRow(old.columns), IsRow(new.columns)
  PROVE  LET o == Columns(old)
             c == DiffColumns(old, new)
             types == [x \in DOMAIN o |-> o[x].type]
             kept == DOMAIN types \ {r[1][1] : r \in c.removed}
         IN {<<x, types[x]>> : x \in kept \ {r[1][1] : r \in c.retyped}}
              \cup {<<r[1][1], r[3]>> : r \in c.retyped} \cup {<<a[1][1], a[2]>> : a \in c.added}
            = Typed(Columns(new))
<1> DEFINE o == Columns(old)
           n == Columns(new)
           c == DiffColumns(old, new)
           types == [x \in DOMAIN o |-> o[x].type]
           kept == DOMAIN types \ {r[1][1] : r \in c.removed}
           R == {k \in DOMAIN o \cap DOMAIN n : o[k].type # n[k].type}
           left == kept \ {r[1][1] : r \in c.retyped}
           A == {<<x, types[x]>> : x \in left}
           B == {<<r[1][1], r[3]>> : r \in c.retyped}
           C == {<<a[1][1], a[2]>> : a \in c.added}
<1>1. /\ c.added = {<<n[k].name, n[k].type>> : k \in DOMAIN n \ DOMAIN o}
      /\ c.removed = {<<o[k].name, o[k].type>> : k \in DOMAIN o \ DOMAIN n}
      /\ c.retyped = {<<n[k].name, o[k].type, n[k].type>> : k \in R}
  BY DEF DiffColumns
<1>2. /\ \A x \in DOMAIN o : o[x].name[1] = x
      /\ \A x \in DOMAIN n : n[x].name[1] = x
  BY ColumnsAre
<1> HIDE DEF o, n, c
<1>3. {r[1][1] : r \in c.removed} = DOMAIN o \ DOMAIN n
  <2> DEFINE p(k) == <<o[k].name, o[k].type>>
  <2>1. \A k \in DOMAIN o \ DOMAIN n : p(k)[1][1] = k
    BY <1>2
  <2>2. c.removed = {p(k) : k \in DOMAIN o \ DOMAIN n}
    BY <1>1
  <2> HIDE DEF p, R
  <2>3. \A r \in c.removed : \E k \in DOMAIN o \ DOMAIN n : r = p(k)
    BY <2>2
  <2>4. \A k \in DOMAIN o \ DOMAIN n : p(k) \in c.removed
    BY <2>2
  <2>5. QED
    BY <2>1, <2>3, <2>4
<1>4. {r[1][1] : r \in c.retyped} = R
  <2> DEFINE p(k) == <<n[k].name, o[k].type, n[k].type>>
  <2>1. \A k \in R : p(k)[1][1] = k
    BY <1>2
  <2>2. c.retyped = {p(k) : k \in R}
    BY <1>1
  <2> HIDE DEF p, R
  <2>3. \A r \in c.retyped : \E k \in R : r = p(k)
    BY <2>2
  <2>4. \A k \in R : p(k) \in c.retyped
    BY <2>2
  <2>5. QED
    BY <2>1, <2>3, <2>4
<1>5. left = (DOMAIN o \cap DOMAIN n) \ R
  BY <1>3, <1>4
<1>6. A = {<<x, n[x].type>> : x \in (DOMAIN o \cap DOMAIN n) \ R}
  <2>1. \A x \in left : types[x] = n[x].type
    BY <1>5
  <2> HIDE DEF left, types, R
  <2>2. QED
    BY <1>5, <2>1
<1>7. B = {<<x, n[x].type>> : x \in R}
  <2> DEFINE p(k) == <<n[k].name, o[k].type, n[k].type>>
  <2>1. \A k \in R : p(k)[1][1] = k /\ p(k)[3] = n[k].type
    BY <1>2
  <2>2. c.retyped = {p(k) : k \in R}
    BY <1>1
  <2> HIDE DEF p, R
  <2>3. \A r \in c.retyped : \E k \in R : r = p(k)
    BY <2>2
  <2>4. \A k \in R : p(k) \in c.retyped
    BY <2>2
  <2>5. QED
    BY <2>1, <2>3, <2>4
<1>8. C = {<<x, n[x].type>> : x \in DOMAIN n \ DOMAIN o}
  <2> DEFINE p(k) == <<n[k].name, n[k].type>>
  <2>1. \A k \in DOMAIN n \ DOMAIN o : p(k)[1][1] = k /\ p(k)[2] = n[k].type
    BY <1>2
  <2>2. c.added = {p(k) : k \in DOMAIN n \ DOMAIN o}
    BY <1>1
  <2> HIDE DEF p, R
  <2>3. \A r \in c.added : \E k \in DOMAIN n \ DOMAIN o : r = p(k)
    BY <2>2
  <2>4. \A k \in DOMAIN n \ DOMAIN o : p(k) \in c.added
    BY <2>2
  <2>5. QED
    BY <2>1, <2>3, <2>4
<1>9. A \cup B \cup C = Typed(n)
  <2>1. \A x : x \in DOMAIN n <=> \/ x \in (DOMAIN o \cap DOMAIN n) \ R
                                  \/ x \in R \/ x \in DOMAIN n \ DOMAIN o
    OBVIOUS
  <2> HIDE DEF A, B, C, R
  <2>2. QED
    BY <1>6, <1>7, <1>8, <2>1 DEF Typed
<1>10. QED
  BY <1>9 DEF o, n, c

LEMMA ColumnTypes ==
  ASSUME NEW t, IsRow(t.columns), IsInjective([i \in DOMAIN t.columns |-> t.columns[i].name[1]])
  PROVE  {<<c.name[1], c.type>> : c \in ToSet(t.columns)} = Typed(Columns(t))
<1> DEFINE m == Columns(t)
           cs == t.columns
<1>1. /\ DOMAIN m = {c.name[1] : c \in ToSet(cs)}
      /\ \A x \in DOMAIN m : m[x] \in ToSet(cs) /\ m[x].name[1] = x
  BY ColumnsAre
<1>2. \A i, j \in DOMAIN cs : cs[i].name[1] = cs[j].name[1] => i = j
  BY DEF IsInjective
<1> HIDE DEF m, cs
<1>3. \A c \in ToSet(cs) : c.name[1] \in DOMAIN m /\ m[c.name[1]] = c
  <2>1. \A b, c \in ToSet(cs) : b.name[1] = c.name[1] => b = c
    BY <1>2 DEF ToSet
  <2>2. QED
    BY <1>1, <2>1
<1>4. QED
  BY <1>1, <1>3 DEF Typed, m, cs

LEMMA DatabasePatched ==
  ASSUME NEW old, IsCompared(old), NEW new, IsCompared(new), Distinguished(new)
  PROVE  Patched(old, Diff(old, new)) = TypesOf(new, DOMAIN ByName(old) \cap DOMAIN ByName(new))
<1> DEFINE o == ByName(old)
           n == ByName(new)
           d == Diff(old, new)
           keys == DOMAIN o \cap DOMAIN n
           gone(k) == \E name \in d.removed : Lower(o[k]) = [i \in DOMAIN name |-> name[i][1]]
           about(k) == {c \in d.changed : [i \in DOMAIN c[1] |-> c[1][i][1]] = k}
           types(k) == [x \in DOMAIN Columns(o[k]) |-> Columns(o[k])[x].type]
           said(k) == IF about(k) = {} THEN NoChange ELSE (CHOOSE c \in about(k) : TRUE)[2]
           kept(k) == DOMAIN types(k) \ {r[1][1] : r \in said(k).removed}
           edited(k) == {<<x, types(k)[x]>> : x \in kept(k) \ {r[1][1] : r \in said(k).retyped}}
                          \cup {<<r[1][1], r[3]>> : r \in said(k).retyped} \cup {<<a[1][1], a[2]>> : a \in said(k).added}
<1>1. Patched(old, d) = [k \in {k \in DOMAIN o : ~gone(k)} |-> edited(k)]
  BY Zenon DEF Patched
<1>2. /\ \A k \in DOMAIN o : o[k] \in ToSet(old) /\ Lower(o[k]) = k /\ SpelledLower(QualifiedName(o[k])) = k
      /\ \A k \in DOMAIN n : n[k] \in ToSet(new) /\ SpelledLower(QualifiedName(n[k])) = k
  BY ByNameIs, LowerIs
<1>3. /\ d.removed = {QualifiedName(o[k]) : k \in DOMAIN o \ DOMAIN n}
      /\ d.changed = {<<QualifiedName(n[k]), DiffColumns(o[k], n[k])>> :
                        k \in {k \in keys : DiffColumns(o[k], n[k]) # NoChange}}
  BY DiffIs
<1>4. \A k \in DOMAIN o : IsRow(o[k].columns)
  BY <1>2 DEF IsCompared
<1>5. \A k \in DOMAIN n : IsRow(n[k].columns) /\ IsInjective([i \in DOMAIN n[k].columns |-> n[k].columns[i].name[1]])
  BY <1>2 DEF IsCompared, Distinguished
<1> HIDE DEF o, n, d
<1>6. \A k \in DOMAIN o : gone(k) <=> k \notin DOMAIN n
  <2>1. \A k \in DOMAIN o : gone(k) <=> \E l \in DOMAIN o \ DOMAIN n : k = SpelledLower(QualifiedName(o[l]))
    BY <1>2, <1>3 DEF SpelledLower
  <2> HIDE DEF gone
  <2>2. QED
    BY <1>2, <2>1
<1>7. ASSUME NEW k \in keys
      PROVE  said(k) = DiffColumns(o[k], n[k])
  <2> DEFINE C == {l \in keys : DiffColumns(o[l], n[l]) # NoChange}
             p(l) == <<QualifiedName(n[l]), DiffColumns(o[l], n[l])>>
  <2>1. \A c : c \in about(k) <=> \E l \in C : c = p(l) /\ l = k
    <3>1. \A l \in C : SpelledLower(p(l)[1]) = l
      BY <1>2
    <3>2. d.changed = {p(l) : l \in C}
      BY <1>3
    <3>3. \A c : c \in about(k) <=> c \in d.changed /\ SpelledLower(c[1]) = k
      BY DEF SpelledLower
    <3> HIDE DEF C, p, about
    <3>4. QED
      BY <3>1, <3>2, <3>3
  <2>2. CASE k \in C
    <3>1. about(k) = {p(k)}
      <4> HIDE DEF C, p, about
      <4>1. QED
        BY <2>1, <2>2
    <3>2. said(k) = p(k)[2]
      <4> HIDE DEF p, about
      <4>1. QED
        BY <3>1
    <3>3. QED
      BY <3>2
  <2>3. CASE k \notin C
    <3>1. about(k) = {}
      <4> HIDE DEF C, p, about
      <4>1. QED
        BY <2>1, <2>3
    <3>2. said(k) = NoChange
      <4> HIDE DEF about
      <4>1. QED
        BY <3>1
    <3>3. QED
      BY <2>3, <3>2
  <2>4. QED
    BY <2>2, <2>3
<1> HIDE DEF said
<1>8. ASSUME NEW k \in keys
      PROVE  edited(k) = {<<c.name[1], c.type>> : c \in ToSet(n[k].columns)}
  <2>1. edited(k) = Typed(Columns(n[k]))
    <3>1. said(k) = DiffColumns(o[k], n[k])
      BY <1>7
    <3>2. IsRow(o[k].columns) /\ IsRow(n[k].columns)
      BY <1>4, <1>5
    <3>3. QED
      BY <3>1, <3>2, ColumnsPatched
  <2>2. Typed(Columns(n[k])) = {<<c.name[1], c.type>> : c \in ToSet(n[k].columns)}
    BY <1>5, ColumnTypes
  <2>3. QED
    BY <2>1, <2>2
<1>9. {k \in DOMAIN o : ~gone(k)} = keys
  <2> HIDE DEF gone
  <2>1. QED
    BY <1>6
<1> DEFINE new2(k) == {<<c.name[1], c.type>> : c \in ToSet(n[k].columns)}
<1>10. TypesOf(new, keys) = [k \in keys |-> new2(k)]
  BY DEF TypesOf, n
<1> HIDE DEF edited, keys, gone, new2
<1>11. \A k \in keys : edited(k) = new2(k)
  BY <1>8 DEF new2
<1>12. Patched(old, d) = TypesOf(new, keys)
  BY <1>1, <1>9, <1>10, <1>11
<1>13. QED
  BY <1>12 DEF o, n, d, keys

\* What changed is all that changed.  schemadex_diff.rs
THEOREM DiffIsExactForAll ==
  ASSUME NEW old, IsCompared(old), NEW new, IsCompared(new)
  PROVE  DiffIsExact(old, new)
<1>1. Distinguished(new) =>
        Patched(old, Diff(old, new)) = TypesOf(new, DOMAIN ByName(old) \cap DOMAIN ByName(new))
  BY DatabasePatched
<1>2. QED
  BY <1>1, CountsAreExact DEF DiffIsExact

Differs(a, b, i) ==
  /\ i \in Nat \ {0} /\ i <= Len(b) /\ i <= Len(a) + 1
  /\ \A j \in 1 .. i - 1 : a[j] = b[j]
  /\ i = Len(a) + 1 \/ a[i] < b[i]

LEMMA BeforeIs ==
  ASSUME NEW a \in Seq(Int), NEW b \in Seq(Int)
  PROVE  Before(a, b) <=> \E i : Differs(a, b, i)
<1>1. Len(a) \in Nat /\ Len(b) \in Nat /\ Len(a) + 1 \in Int
  OBVIOUS
<1>2. Min({Len(b), Len(a) + 1}) = IF Len(b) <= Len(a) + 1 THEN Len(b) ELSE Len(a) + 1
  <2>1. PICK x \in Int : x = Len(b)
    BY <1>1
  <2>2. PICK y \in Int : y = Len(a) + 1
    BY <1>1
  <2>3. Min({x, y}) = IF x <= y THEN x ELSE y
    BY LesserIs
  <2>4. QED
    BY <2>1, <2>2, <2>3
<1>3. \A i : i \in 1 .. Min({Len(b), Len(a) + 1}) <=> i \in Nat \ {0} /\ i <= Len(b) /\ i <= Len(a) + 1
  BY <1>1, <1>2
<1>4. ASSUME NEW i \in Nat \ {0}, i <= Len(b), i <= Len(a) + 1
      PROVE  SubSeq(a, 1, i - 1) = SubSeq(b, 1, i - 1) <=> \A j \in 1 .. i - 1 : a[j] = b[j]
  <2> DEFINE x == SubSeq(a, 1, i - 1)
             y == SubSeq(b, 1, i - 1)
  <2>1. i - 1 \in 0 .. Len(a) /\ i - 1 \in 0 .. Len(b)
    BY <1>1, <1>4
  <2>2. x \in Seq(Int) /\ Len(x) = i - 1 /\ \A j \in 1 .. i - 1 : x[j] = a[j]
    BY <2>1, FirstOnes
  <2>3. y \in Seq(Int) /\ Len(y) = i - 1 /\ \A j \in 1 .. i - 1 : y[j] = b[j]
    BY <2>1, FirstOnes
  <2> HIDE DEF x, y
  <2>4. x = y <=> \A j \in 1 .. i - 1 : x[j] = y[j]
    <3>1. x = [j \in 1 .. i - 1 |-> x[j]] /\ y = [j \in 1 .. i - 1 |-> y[j]]
      BY <2>2, <2>3
    <3>2. QED
      BY <3>1
  <2>5. QED
    BY <2>2, <2>3, <2>4 DEF x, y
<1>5. QED
  BY <1>3, <1>4 DEF Before, Differs

LEMMA NotBeforeItself ==
  ASSUME NEW a \in Seq(Int)
  PROVE  ~Before(a, a)
<1>1. SUFFICES ASSUME NEW i, Differs(a, a, i)
               PROVE  FALSE
  BY BeforeIs
<1>2. i \in 1 .. Len(a) /\ i # Len(a) + 1 /\ Len(a) \in Nat
  BY <1>1 DEF Differs
<1>3. a[i] \in Int /\ a[i] < a[i]
  BY <1>1, <1>2 DEF Differs
<1>4. QED
  BY <1>3

LEMMA BeforeIsTransitive ==
  ASSUME NEW a \in Seq(Int), NEW b \in Seq(Int), NEW c \in Seq(Int), Before(a, b), Before(b, c)
  PROVE  Before(a, c)
<1>1. PICK i : Differs(a, b, i)
  BY BeforeIs
<1>2. PICK k : Differs(b, c, k)
  BY BeforeIs
<1>3. Len(a) \in Nat /\ Len(b) \in Nat /\ Len(c) \in Nat
  OBVIOUS
<1>4. /\ \A j \in 1 .. Len(a) : a[j] \in Int
      /\ \A j \in 1 .. Len(b) : b[j] \in Int
      /\ \A j \in 1 .. Len(c) : c[j] \in Int
  OBVIOUS
<1>5. /\ i \in Nat \ {0} /\ i <= Len(b) /\ i <= Len(a) + 1
      /\ \A j \in 1 .. i - 1 : a[j] = b[j]
      /\ i = Len(a) + 1 \/ a[i] < b[i]
  BY <1>1 DEF Differs
<1>6. /\ k \in Nat \ {0} /\ k <= Len(c) /\ k <= Len(b) + 1
      /\ \A j \in 1 .. k - 1 : b[j] = c[j]
      /\ k = Len(b) + 1 \/ b[k] < c[k]
  BY <1>2 DEF Differs
<1>7. CASE i < k
  <2>1. i <= Len(c) /\ \A j \in 1 .. i - 1 : a[j] = c[j]
    <3>1. i <= Len(c)
      BY <1>3, <1>5, <1>6, <1>7
    <3>2. \A j \in 1 .. i - 1 : j \in 1 .. k - 1
      BY <1>5, <1>6, <1>7
    <3>3. QED
      BY <1>5, <1>6, <3>1, <3>2
  <2>2. b[i] = c[i]
    BY <1>5, <1>6, <1>7
  <2>3. Differs(a, c, i)
    BY <1>5, <2>1, <2>2 DEF Differs
  <2>4. QED
    BY <2>3, BeforeIs
<1>8. CASE k < i
  <2>1. k <= Len(a) + 1 /\ k # Len(b) + 1 /\ \A j \in 1 .. k - 1 : a[j] = c[j]
    <3>1. k \in Nat /\ i \in Nat /\ i <= Len(b) /\ i <= Len(a) + 1 /\ k < i
      BY <1>5, <1>6, <1>8
    <3>2. k <= Len(a) + 1 /\ k # Len(b) + 1
      BY <1>3, <3>1
    <3>3. \A j \in 1 .. k - 1 : j \in 1 .. i - 1
      BY <3>1
    <3>4. QED
      BY <1>5, <1>6, <3>2, <3>3
  <2>2. a[k] = b[k]
    BY <1>5, <1>6, <1>8
  <2>3. Differs(a, c, k)
    BY <1>6, <2>1, <2>2 DEF Differs
  <2>4. QED
    BY <2>3, BeforeIs
<1>9. CASE i = k
  <2>1. b[i] < c[i]
    BY <1>3, <1>5, <1>6, <1>9
  <2>2. i = Len(a) + 1 \/ a[i] < c[i]
    <3>1. i # Len(a) + 1 => i \in 1 .. Len(a) /\ i \in 1 .. Len(b) /\ i \in 1 .. Len(c)
      <4>1. i \in Nat \ {0} /\ i <= Len(b) /\ i <= Len(a) + 1 /\ i <= Len(c)
        BY <1>5, <1>6, <1>9
      <4>2. i \in Int /\ 1 <= i
        BY <4>1
      <4>3. i # Len(a) + 1 => i <= Len(a)
        <5>1. PICK la \in Nat : la = Len(a)
          BY <1>3
        <5>2. i # la + 1 /\ i <= la + 1 => i <= la
          BY <4>2
        <5>3. QED
          BY <4>1, <5>1, <5>2
      <4>4. QED
        BY <1>3, <4>1, <4>2, <4>3
    <3>2. i # Len(a) + 1 => a[i] < b[i] /\ a[i] \in Int /\ b[i] \in Int /\ c[i] \in Int
      BY <1>4, <1>5, <3>1
    <3>3. \A x, y, z \in Int : x < y /\ y < z => x < z
      OBVIOUS
    <3>4. QED
      BY <2>1, <3>2, <3>3
  <2>3. \A j \in 1 .. i - 1 : a[j] = c[j]
    BY <1>5, <1>6, <1>9
  <2>4. Differs(a, c, i)
    BY <1>5, <1>6, <1>9, <2>2, <2>3 DEF Differs
  <2>5. QED
    BY <2>4, BeforeIs
<1>10. QED
  BY <1>5, <1>6, <1>7, <1>8, <1>9

LEMMA BeforeIsTotal ==
  ASSUME NEW a \in Seq(Int), NEW b \in Seq(Int), ~Before(a, b), ~Before(b, a)
  PROVE  a = b
<1> DEFINE D == {i \in Nat : i # 0 /\ i <= Len(a) /\ i <= Len(b) /\ a[i] # b[i]}
<1>1. Len(a) \in Nat /\ Len(b) \in Nat
  OBVIOUS
<1>2. \A i : ~Differs(a, b, i) /\ ~Differs(b, a, i)
  BY BeforeIs
<1>3. D = {}
  <2>1. SUFFICES ASSUME D # {}
                 PROVE  FALSE
    OBVIOUS
  <2>2. D \in SUBSET Nat
    OBVIOUS
  <2>3. PICK i \in D : \A k \in D : i <= k
    <3> HIDE DEF D
    <3>1. QED
      BY <2>1, <2>2, LeastExists
  <2>4. i \in Nat \ {0} /\ i <= Len(a) /\ i <= Len(b) /\ a[i] # b[i] /\ i \in 1 .. Len(a) /\ i \in 1 .. Len(b)
    BY <2>3
  <2>5. \A j \in 1 .. i - 1 : a[j] = b[j]
    <3>1. SUFFICES ASSUME NEW j \in 1 .. i - 1, a[j] # b[j]
                   PROVE  FALSE
      OBVIOUS
    <3>2. j \in Nat /\ j # 0 /\ j <= Len(a) /\ j <= Len(b) /\ ~(i <= j)
      BY <1>1, <2>4
    <3>3. j \in D
      BY <3>1, <3>2
    <3>4. QED
      BY <2>3, <3>2, <3>3
  <2>6. a[i] \in Int /\ b[i] \in Int
    BY <2>4
  <2>7. a[i] < b[i] \/ b[i] < a[i]
    BY <2>4, <2>6
  <2>8. Differs(a, b, i) \/ Differs(b, a, i)
    BY <1>1, <2>4, <2>5, <2>7 DEF Differs
  <2>9. QED
    BY <1>2, <2>8
<1>4. \A j : j \in Nat /\ j # 0 /\ j <= Len(a) /\ j <= Len(b) => a[j] = b[j]
  BY <1>3
<1> HIDE DEF D
<1>5. Len(a) = Len(b)
  <2>1. ASSUME Len(a) < Len(b)
        PROVE  FALSE
    <3>1. Differs(a, b, Len(a) + 1)
      <4>1. Len(a) + 1 \in Nat \ {0} /\ Len(a) + 1 <= Len(b) /\ Len(a) + 1 <= Len(a) + 1
        BY <1>1, <2>1
      <4>2. ASSUME NEW j \in 1 .. Len(a) + 1 - 1
            PROVE  a[j] = b[j]
        <5>1. j \in Nat /\ j # 0 /\ j <= Len(a) /\ j <= Len(b)
          BY <1>1, <2>1
        <5>2. QED
          BY <1>4, <5>1
      <4>3. QED
        BY <4>1, <4>2 DEF Differs
    <3>2. QED
      BY <1>2, <3>1
  <2>2. ASSUME Len(b) < Len(a)
        PROVE  FALSE
    <3>1. Differs(b, a, Len(b) + 1)
      <4>1. Len(b) + 1 \in Nat \ {0} /\ Len(b) + 1 <= Len(a) /\ Len(b) + 1 <= Len(b) + 1
        BY <1>1, <2>2
      <4>2. ASSUME NEW j \in 1 .. Len(b) + 1 - 1
            PROVE  b[j] = a[j]
        <5>1. j \in Nat /\ j # 0 /\ j <= Len(a) /\ j <= Len(b)
          BY <1>1, <2>2
        <5>2. QED
          BY <1>4, <5>1
      <4>3. QED
        BY <4>1, <4>2 DEF Differs
    <3>2. QED
      BY <1>2, <3>1
  <2>3. QED
    BY <1>1, <2>1, <2>2
<1>6. a = [j \in 1 .. Len(a) |-> a[j]] /\ b = [j \in 1 .. Len(a) |-> b[j]]
  BY <1>5
<1>7. \A j \in 1 .. Len(a) : a[j] = b[j]
  <2>1. \A j \in 1 .. Len(a) : j \in Nat /\ j # 0 /\ j <= Len(a) /\ j <= Len(b)
    BY <1>1, <1>5
  <2>2. QED
    BY <1>4, <2>1
<1>8. QED
  BY <1>6, <1>7

\* A table to write about.  Only a schema has a dot in its name.
IsDocumented(t) ==
  /\ t.schema = None \/ t.schema \in Seq(Int)
  /\ t.name \in Seq(Int) /\ Dot \notin ToSet(t.name)
  /\ IsRow(t.columns) /\ IsRow(t.fks)

AreDocumented(db) == IsRow(db) /\ \A t \in ToSet(db) : IsDocumented(t)

\* What stands before the name of a table.
Prefix(schema, backend) ==
  CASE schema # None -> schema \o <<Dot>>
    [] schema = None /\ backend \in {"sqlite", "duckdb"} -> <<Main, Dot>>
    [] OTHER -> <<>>

LEMMA TitleIs ==
  ASSUME NEW t, IsDocumented(t), NEW backend
  PROVE  /\ Prefix(t.schema, backend) \in Seq(Int)
         /\ DisplayName(t, backend) = Prefix(t.schema, backend) \o t.name
         /\ DisplayName(t, backend) \in Seq(Int)
<1> DEFINE p == Prefix(t.schema, backend)
<1>1. t.name \in Seq(Int) /\ (t.schema = None \/ t.schema \in Seq(Int))
  BY DEF IsDocumented
<1>2. <<Dot>> \in Seq(Int) /\ <<Main, Dot>> \in Seq(Int) /\ <<>> \in Seq(Int)
  BY DEF Main, Dot
<1>3. p \in Seq(Int)
  <2>1. t.schema # None => t.schema \o <<Dot>> \in Seq(Int)
    BY <1>1, <1>2, PutTogether
  <2>2. QED
    BY <1>2, <2>1 DEF Prefix
<1>4. DisplayName(t, backend) = p \o t.name
  <2>1. CASE t.schema # None
    <3>1. DisplayName(t, backend) = t.schema \o <<Dot>> \o t.name
      BY <2>1 DEF DisplayName
    <3>2. p = t.schema \o <<Dot>>
      BY <2>1 DEF Prefix
    <3> HIDE DEF p
    <3>3. QED
      BY <3>1, <3>2
  <2>2. CASE t.schema = None /\ backend \in {"sqlite", "duckdb"}
    <3>1. DisplayName(t, backend) = <<Main, Dot>> \o t.name
      BY <2>2 DEF DisplayName
    <3>2. p = <<Main, Dot>>
      BY <2>2 DEF Prefix
    <3> HIDE DEF p
    <3>3. QED
      BY <3>1, <3>2
  <2>3. CASE t.schema = None /\ backend \notin {"sqlite", "duckdb"}
    <3>1. DisplayName(t, backend) = t.name
      BY <2>3 DEF DisplayName
    <3>2. p = <<>>
      BY <2>3 DEF Prefix
    <3>3. <<>> \o t.name = t.name
      BY <1>1
    <3> HIDE DEF p
    <3>4. QED
      BY <3>1, <3>2, <3>3
  <2>4. QED
    BY <2>1, <2>2, <2>3
<1> HIDE DEF p
<1>5. p \o t.name \in Seq(Int)
  BY <1>1, <1>3, PutTogether
<1>6. QED
  BY <1>3, <1>4, <1>5 DEF p

\* What comes after the same is told apart by what is put together.
LEMMA SamePrefix ==
  ASSUME NEW p \in Seq(Int), NEW a \in Seq(Int), NEW b \in Seq(Int), p \o a = p \o b
  PROVE  a = b
<1>1. /\ Len(p) \in Nat /\ Len(a) \in Nat /\ Len(b) \in Nat
      /\ Len(p \o a) = Len(p) + Len(a) /\ Len(p \o b) = Len(p) + Len(b)
      /\ \A i \in 1 .. Len(a) : (p \o a)[Len(p) + i] = a[i]
      /\ \A i \in 1 .. Len(b) : (p \o b)[Len(p) + i] = b[i]
  BY PutTogether
<1>2. Len(a) = Len(b)
  BY <1>1
<1>3. \A i \in 1 .. Len(a) : a[i] = b[i]
  BY <1>1, <1>2
<1>4. a = [i \in 1 .. Len(a) |-> a[i]] /\ b = [i \in 1 .. Len(a) |-> b[i]]
  BY <1>2
<1>5. QED
  BY <1>3, <1>4

\* An anchor has the whole of a name without a dot.
LEMMA AnchorIs ==
  ASSUME NEW p \in Seq(Int), NEW a \in Seq(Int), Dot \notin ToSet(a)
  PROVE  AnchorOf(p) \in Seq(Int) /\ AnchorOf(p \o a) = AnchorOf(p) \o a
<1> DEFINE P == {i \in DOMAIN p : p[i] # Dot}
           s == p \o a
           Q == {i \in DOMAIN s : s[i] # Dot}
           u == AnchorOf(p)
           m == Cardinality(P)
           t == u \o a
           l == Len(p)
           n == Len(a)
<1>1. P \in SUBSET (DOMAIN p) /\ u = Picked(p, P)
  BY DEF AnchorOf
<1>2. /\ u \in Seq(Int) /\ Len(u) = m /\ m \in Nat
      /\ \E at : Enumerates(at, P) /\ \A k \in 1 .. m : u[k] = p[at[k]]
  <2> HIDE DEF P, u
  <2> DEFINE v == Picked(p, P)
  <2>1. /\ v \in Seq(Int) /\ Len(v) = Cardinality(P) /\ Cardinality(P) \in Nat
        /\ \E at : Enumerates(at, P) /\ \A k \in 1 .. Cardinality(P) : v[k] = p[at[k]]
    BY <1>1, PickedIs
  <2>2. u = v
    BY <1>1
  <2> HIDE DEF v
  <2>3. QED
    BY <2>1, <2>2
<1>3. PICK at : Enumerates(at, P) /\ \A k \in 1 .. m : u[k] = p[at[k]]
  BY <1>2
<1>4. /\ at \in [1 .. m -> P] /\ \A i \in P : \E k \in 1 .. m : at[k] = i
      /\ \A i, j \in 1 .. m : i < j => at[i] < at[j]
  BY <1>3 DEF Enumerates
<1>5. l \in Nat /\ DOMAIN p = 1 .. l /\ n \in Nat /\ DOMAIN a = 1 .. n
  OBVIOUS
<1>6. /\ s \in Seq(Int) /\ Len(s) = l + n /\ DOMAIN s = 1 .. l + n
      /\ \A i \in 1 .. l : s[i] = p[i]
      /\ \A i \in 1 .. n : s[l + i] = a[i]
  <2>1. /\ s \in Seq(Int) /\ Len(s) = l + n
        /\ \A i \in 1 .. l : s[i] = p[i]
        /\ \A i \in 1 .. n : s[l + i] = a[i]
    BY PutTogether
  <2> HIDE DEF s
  <2>2. DOMAIN s = 1 .. Len(s)
    BY <2>1
  <2>3. QED
    BY <2>1, <2>2
<1> HIDE DEF u, m, P
<1>7. /\ t \in Seq(Int) /\ Len(t) = m + n
      /\ \A i \in 1 .. m : t[i] = u[i]
      /\ \A i \in 1 .. n : t[m + i] = a[i]
  <2>1. u \in Seq(Int) /\ Len(u) = m
    BY <1>2
  <2>2. /\ t \in Seq(Int) /\ Len(t) = Len(u) + Len(a)
        /\ \A i \in 1 .. Len(u) : t[i] = u[i]
        /\ \A i \in 1 .. Len(a) : t[Len(u) + i] = a[i]
    <3>1. PICK h \in Seq(Int) : h = u
      BY <2>1
    <3>2. PICK r : r = h \o a
      OBVIOUS
    <3>3. /\ r \in Seq(Int) /\ Len(r) = Len(h) + Len(a)
          /\ \A i \in 1 .. Len(h) : r[i] = h[i]
          /\ \A i \in 1 .. Len(a) : r[Len(h) + i] = a[i]
      BY <3>2, PutTogether
    <3>4. t = r
      BY <3>1, <3>2
    <3> HIDE DEF t
    <3>5. QED
      BY <3>1, <3>3, <3>4
  <2> HIDE DEF t
  <2>3. QED
    BY <2>1, <2>2
<1>8. \A i \in 1 .. n : a[i] # Dot
  BY <1>5 DEF ToSet
<1> HIDE DEF s, t, l, n, m
<1>9. \A i : i \in P <=> i \in 1 .. l /\ p[i] # Dot
  BY <1>5 DEF P
<1>10. \A i : i \in Q <=> i \in 1 .. l + n /\ s[i] # Dot
  BY <1>6
<1> HIDE DEF P, Q
<1> DEFINE e == [k \in 1 .. m + n |-> IF k <= m THEN at[k] ELSE l + (k - m)]
<1>11. \A k \in 1 .. m : at[k] \in P /\ at[k] \in 1 .. l /\ p[at[k]] # Dot
  BY <1>4, <1>9
<1>12. ASSUME NEW k \in 1 .. m + n
       PROVE  \/ k \in 1 .. m /\ e[k] = at[k] /\ e[k] \in 1 .. l /\ e[k] \in Q /\ t[k] = s[e[k]]
              \/ k - m \in 1 .. n /\ k = m + (k - m) /\ e[k] = l + (k - m) /\ e[k] \in Q /\ t[k] = s[e[k]]
  <2>1. CASE k <= m
    <3>1. k \in 1 .. m /\ e[k] = at[k]
      BY <1>2, <1>5, <2>1 DEF m, n
    <3>2. at[k] \in 1 .. l /\ p[at[k]] # Dot /\ at[k] \in 1 .. l + n
      BY <1>5, <1>11, <3>1
    <3>3. t[k] = p[at[k]] /\ s[at[k]] = p[at[k]]
      BY <1>3, <1>6, <1>7, <3>1, <3>2
    <3>4. QED
      BY <1>10, <3>1, <3>2, <3>3
  <2>2. CASE ~(k <= m)
    <3>1. PICK j \in 1 .. n : k = m + j /\ j = k - m
      BY <1>2, <1>5, <2>2
    <3>2. e[k] = l + j
      BY <2>2, <3>1
    <3>3. l + j \in 1 .. l + n
      BY <1>5, <3>1
    <3>4. s[l + j] = a[j] /\ t[k] = a[j] /\ a[j] # Dot
      BY <1>6, <1>7, <1>8, <3>1
    <3>5. l + j \in Q
      BY <1>10, <3>3, <3>4
    <3> HIDE DEF e
    <3>6. QED
      BY <3>1, <3>2, <3>4, <3>5
  <2>3. QED
    BY <2>1, <2>2
<1>13. e \in [1 .. m + n -> Q] /\ \A k \in 1 .. m + n : t[k] = s[e[k]]
  <2>1. \A k \in 1 .. m + n : e[k] \in Q /\ t[k] = s[e[k]]
    BY <1>12
  <2>2. e = [k \in 1 .. m + n |-> e[k]]
    OBVIOUS
  <2> HIDE DEF e
  <2>3. QED
    BY <2>1, <2>2
<1>14. ASSUME NEW q \in Q
       PROVE  \E k \in 1 .. m + n : e[k] = q
  <2>1. q \in 1 .. l + n /\ s[q] # Dot
    BY <1>10
  <2>2. CASE q <= l
    <3>1. q \in 1 .. l /\ s[q] = p[q]
      BY <1>5, <1>6, <2>1, <2>2
    <3>2. q \in P
      BY <1>9, <2>1, <3>1
    <3>3. PICK k \in 1 .. m : at[k] = q
      BY <1>4, <3>2
    <3>4. k \in 1 .. m + n /\ k <= m
      BY <1>2, <1>5
    <3>5. QED
      BY <3>3, <3>4
  <2>3. CASE ~(q <= l)
    <3>1. PICK k \in 1 .. m + n : k = m + (q - l) /\ ~(k <= m) /\ l + (k - m) = q
      BY <1>2, <1>5, <2>1, <2>3
    <3>2. QED
      BY <3>1
  <2>4. QED
    BY <2>2, <2>3
<1>15. ASSUME NEW i \in 1 .. m + n, NEW j \in 1 .. m + n, i < j
       PROVE  e[i] < e[j]
  <2>1. i \in Int /\ j \in Int /\ m \in Int /\ l \in Int
    BY <1>2, <1>5
  <2>2. CASE j <= m
    <3>1. i \in 1 .. m /\ j \in 1 .. m /\ i <= m
      BY <1>2, <1>15, <2>1, <2>2
    <3>2. e[i] = at[i] /\ e[j] = at[j]
      BY <2>2, <3>1
    <3>3. QED
      BY <1>4, <1>15, <3>1, <3>2
  <2>3. CASE i <= m /\ ~(j <= m)
    <3>1. i \in 1 .. m /\ e[i] = at[i] /\ e[j] = l + (j - m)
      BY <2>1, <2>3
    <3>2. at[i] \in Int /\ at[i] <= l
      BY <1>11, <3>1
    <3> HIDE DEF e
    <3>3. QED
      BY <2>1, <2>3, <3>1, <3>2
  <2>4. CASE ~(i <= m)
    <3>1. ~(j <= m)
      BY <1>15, <2>1, <2>4
    <3>2. e[i] = l + (i - m) /\ e[j] = l + (j - m)
      BY <2>4, <3>1
    <3> HIDE DEF e
    <3>3. QED
      BY <1>15, <2>1, <3>2
  <2>5. QED
    BY <2>1, <2>2, <2>3, <2>4
<1> HIDE DEF e
<1>16. Picked(s, Q) = t
  <2>1. Q \in SUBSET (DOMAIN s)
    BY <1>6, <1>10
  <2>2. e \in [1 .. Len(t) -> Q] /\ \A k \in 1 .. Len(t) : t[k] = s[e[k]]
    BY <1>7, <1>13
  <2>3. \A q \in Q : \E k \in 1 .. Len(t) : e[k] = q
    BY <1>7, <1>14
  <2>4. \A i, j \in 1 .. Len(t) : i < j => e[i] < e[j]
    BY <1>7, <1>15
  <2>5. QED
    <3>1. s \in Seq(Int) /\ t \in Seq(Int)
      BY <1>6, <1>7
    <3>2. e \in [1 .. Len(t) -> Q]
      BY <2>2
    <3>3. \A k \in 1 .. Len(t) : t[k] = s[e[k]]
      BY <2>2
    <3>4. Takes(Int, s, Q, t, e)
      BY <2>1, <2>3, <2>4, <3>1, <3>2, <3>3 DEF Takes
    <3>5. QED
      BY <3>4, PickedWhen
<1>17. AnchorOf(s) = t
  BY <1>16 DEF AnchorOf, Q
<1>18. QED
  BY <1>2, <1>17 DEF s, t, u

LEMMA TitlesOrder ==
  ASSUME NEW db, AreDocumented(db), NEW backend
  PROVE  LET o == Ordering(DOMAIN db, InTitleOrder(db, backend))
             n == Len(db)
             title(i) == DisplayName(db[i], backend)
         IN /\ n \in Nat /\ DOMAIN db = 1 .. n /\ o \in [1 .. n -> 1 .. n]
            /\ \A x \in 1 .. n : \E k \in 1 .. n : o[k] = x
            /\ \A i, j \in 1 .. n : o[i] = o[j] => i = j
            /\ \A i, j \in 1 .. n : i < j => ~Before(title(o[j]), title(o[i]))
<1> DEFINE n == Len(db)
           S == 1 .. n
           title(i) == DisplayName(db[i], backend)
           R == InTitleOrder(db, backend)
           o == Ordering(S, R)
<1>1. n \in Nat /\ DOMAIN db = S
  BY DEF AreDocumented, IsRow
<1>2. \A i \in S : title(i) \in Seq(Int)
  <2>1. \A i \in S : IsDocumented(db[i])
    BY <1>1 DEF AreDocumented, ToSet
  <2>2. QED
    BY <2>1, TitleIs
<1>3. R = {p \in S \X S : \/ Before(title(p[1]), title(p[2]))
                          \/ ~Before(title(p[2]), title(p[1])) /\ p[1] < p[2]}
  BY <1>1 DEF InTitleOrder
<1> HIDE DEF title, R
<1>4. \A x, y \in S : <<x, y>> \in R <=> \/ Before(title(x), title(y))
                                         \/ ~Before(title(y), title(x)) /\ x < y
  BY <1>3
<1>5. ASSUME NEW x \in S, NEW y \in S
      PROVE  <<x, y>> \in R <=> Before(title(x), title(y)) \/ (title(x) = title(y) /\ x < y)
  <2>1. title(x) \in Seq(Int) /\ title(y) \in Seq(Int)
    BY <1>2
  <2>2. ~Before(title(x), title(x))
    BY <2>1, NotBeforeItself
  <2>3. ~Before(title(x), title(y)) /\ ~Before(title(y), title(x)) => title(x) = title(y)
    BY <2>1, BeforeIsTotal
  <2>4. QED
    BY <1>4, <2>2, <2>3
<1>6. Orders(S, R)
  <2>1. SUFFICES ASSUME NEW x \in S, NEW y \in S, NEW z \in S
                 PROVE  /\ <<x, x>> \notin R
                        /\ <<x, y>> \in R /\ <<y, z>> \in R => <<x, z>> \in R
                        /\ x = y \/ <<x, y>> \in R \/ <<y, x>> \in R
    BY DEF Orders
  <2>2. title(x) \in Seq(Int) /\ title(y) \in Seq(Int) /\ title(z) \in Seq(Int)
    BY <1>2
  <2>3. x \in Int /\ y \in Int /\ z \in Int
    BY <1>1
  <2>4. <<x, x>> \notin R
    <3>1. ~Before(title(x), title(x))
      BY <2>2, NotBeforeItself
    <3>2. QED
      BY <1>5, <2>3, <3>1
  <2>5. ASSUME <<x, y>> \in R, <<y, z>> \in R
        PROVE  <<x, z>> \in R
    <3>1. Before(title(x), title(y)) \/ (title(x) = title(y) /\ x < y)
      BY <1>5, <2>5
    <3>2. Before(title(y), title(z)) \/ (title(y) = title(z) /\ y < z)
      BY <1>5, <2>5
    <3>3. Before(title(x), title(y)) /\ Before(title(y), title(z)) => Before(title(x), title(z))
      BY <2>2, BeforeIsTransitive
    <3>4. Before(title(x), title(z)) \/ (title(x) = title(z) /\ x < z)
      BY <2>3, <3>1, <3>2, <3>3
    <3>5. QED
      BY <1>5, <3>4
  <2>6. x = y \/ <<x, y>> \in R \/ <<y, x>> \in R
    <3>1. title(x) = title(y) \/ Before(title(x), title(y)) \/ Before(title(y), title(x))
      BY <2>2, BeforeIsTotal
    <3>2. x = y \/ x < y \/ y < x
      BY <2>3
    <3>3. QED
      BY <1>5, <3>1, <3>2
  <2>7. QED
    BY <2>4, <2>5, <2>6
<1>7. IsFiniteSet(S) /\ Cardinality(S) = n
  BY <1>1, IntervalIs
<1>8. /\ o \in [1 .. n -> S]
      /\ \A x \in S : \E k \in 1 .. n : o[k] = x
      /\ \A i, j \in 1 .. n : i < j => <<o[i], o[j]>> \in R
  <2> HIDE DEF S
  <2>1. QED
    BY <1>6, <1>7, OrderingIs
<1> HIDE DEF o
<1>9. ASSUME NEW i \in 1 .. n, NEW j \in 1 .. n, i < j
      PROVE  o[i] # o[j] /\ ~Before(title(o[j]), title(o[i]))
  <2>1. o[i] \in S /\ o[j] \in S /\ <<o[i], o[j]>> \in R
    BY <1>8, <1>9
  <2>2. title(o[i]) \in Seq(Int) /\ title(o[j]) \in Seq(Int)
    BY <1>2, <2>1
  <2>3. Before(title(o[i]), title(o[j])) \/ (title(o[i]) = title(o[j]) /\ o[i] < o[j])
    BY <1>5, <2>1
  <2>4. ~(Before(title(o[i]), title(o[j])) /\ Before(title(o[j]), title(o[i])))
    BY <2>2, BeforeIsTransitive, NotBeforeItself
  <2>5. ~Before(title(o[i]), title(o[i])) /\ ~Before(title(o[j]), title(o[j]))
    BY <2>2, NotBeforeItself
  <2>6. ~Before(title(o[j]), title(o[i]))
    BY <2>3, <2>4, <2>5
  <2>7. o[i] # o[j]
    <3>1. o[i] \in Int
      BY <1>1, <2>1
    <3>2. QED
      BY <2>3, <2>5, <3>1
  <2>8. QED
    BY <2>6, <2>7
<1>10. \A i, j \in 1 .. n : o[i] = o[j] => i = j
  <2>1. SUFFICES ASSUME NEW i \in 1 .. n, NEW j \in 1 .. n, i # j
                 PROVE  o[i] # o[j]
    OBVIOUS
  <2>2. i < j \/ j < i
    BY <1>1, <2>1
  <2>3. QED
    BY <1>9, <2>2
<1>11. QED
  BY <1>1, <1>8, <1>9, <1>10 DEF o, R, title

Grows(X, seqs, f) ==
  /\ f \in [1 .. Len(seqs) -> Seq(X)]
  /\ FlattenSeq(seqs) = f[Len(seqs)]
  /\ f[1] = seqs[1]
  /\ \A i \in 2 .. Len(seqs) : f[i] = f[i - 1] \o seqs[i]

LEMMA FlattenedByStages ==
  ASSUME NEW X, NEW seqs \in Seq(Seq(X)), seqs # <<>>
  PROVE  \E f : Grows(X, seqs, f)
<1>1. PICK f \in [1 .. Len(seqs) -> Seq(X)] :
         /\ FlattenSeq(seqs) = f[Len(seqs)]
         /\ f[1] = seqs[1]
         /\ \A i \in 2 .. Len(seqs) : f[i] = f[i - 1] \o seqs[i]
  BY FlattenSeqIs
<1>2. QED
  BY <1>1 DEF Grows

\* The places in lists, each with what its list is called.
Spots(order, seqs) == UNION {{<<order[i], k>> : k \in DOMAIN seqs[i]} : i \in 1 .. Len(seqs)}

\* How much a list of lists has in all, by the places in them.
LEMMA FlattenedLength ==
  ASSUME NEW X, NEW seqs \in Seq(Seq(X)), NEW order, NEW T, order \in [1 .. Len(seqs) -> T],
         \A i, j \in 1 .. Len(seqs) : order[i] = order[j] => i = j
  PROVE  Len(FlattenSeq(seqs)) = Cardinality(Spots(order, seqs))
<1> DEFINE n == Len(seqs)
           places(i) == {<<order[i], k>> : k \in DOMAIN seqs[i]}
           all(m) == UNION {places(i) : i \in 1 .. m}
<1>1. n \in Nat /\ \A i \in 1 .. n : seqs[i] \in Seq(X) /\ Len(seqs[i]) \in Nat /\ DOMAIN seqs[i] = 1 .. Len(seqs[i])
  OBVIOUS
<1>2. ASSUME NEW i \in 1 .. n
      PROVE  IsFiniteSet(places(i)) /\ Cardinality(places(i)) = Len(seqs[i])
  <2> DEFINE S == 1 .. Len(seqs[i])
             T1 == places(i)
             f == [k \in S |-> <<order[i], k>>]
  <2>1. IsFiniteSet(S) /\ Cardinality(S) = Len(seqs[i])
    BY <1>1, IntervalIs
  <2>2. f \in [S -> T1] /\ (\A x \in T1 : \E k \in S : f[k] = x) /\ \A k, l \in S : f[k] = f[l] => k = l
    BY <1>1
  <2> HIDE DEF S, T1, f
  <2>3. IsFiniteSet(T1) /\ Cardinality(T1) = Cardinality(S)
    BY <2>1, <2>2, SameSize
  <2>4. QED
    BY <2>1, <2>3 DEF T1
<1>3. ASSUME NEW m \in 1 .. n
      PROVE  all(m) = all(m - 1) \cup places(m) /\ all(m - 1) \cap places(m) = {}
  <2>1. 1 .. m = (1 .. m - 1) \cup {m} /\ \A i \in 1 .. m - 1 : i \in 1 .. n /\ i # m
    BY <1>1
  <2>2. \A i \in 1 .. m - 1 : order[i] # order[m]
    BY <2>1
  <2>3. \A i : \A x \in places(i) : x[1] = order[i]
    OBVIOUS
  <2>4. all(m) = all(m - 1) \cup places(m)
    <3> HIDE DEF places
    <3>1. QED
      BY <2>1
  <2>5. all(m - 1) \cap places(m) = {}
    <3> HIDE DEF places
    <3>1. QED
      BY <2>2, <2>3
  <2>6. QED
    BY <2>4, <2>5
<1>4. all(0) = {}
  <2>1. 1 .. 0 = {}
    OBVIOUS
  <2> HIDE DEF places
  <2>2. QED
    BY <2>1
<1> HIDE DEF all, places
<1>5. CASE n = 0
  <2>1. seqs = <<>>
    BY <1>5
  <2>2. Len(FlattenSeq(seqs)) = 0
    <3>1. FlattenSeq(<<>>) = <<>>
      BY DEF FlattenSeq
    <3>2. QED
      BY <2>1, <3>1
  <2>3. IsFiniteSet(all(n)) /\ Cardinality(all(n)) = 0
    BY <1>4, <1>5, FS_EmptySet
  <2>4. QED
    BY <2>2, <2>3 DEF all, places, Spots
<1>6. CASE n # 0
  <2>1. seqs # <<>>
    BY <1>6
  <2>2. PICK f : Grows(X, seqs, f)
    BY <2>1, FlattenedByStages
  <2>s. /\ f \in [1 .. n -> Seq(X)] /\ FlattenSeq(seqs) = f[n] /\ f[1] = seqs[1]
        /\ \A i \in 2 .. n : f[i] = f[i - 1] \o seqs[i]
    BY <2>2 DEF Grows
  <2> DEFINE W == {i \in 1 .. n : IsFiniteSet(all(i)) /\ Cardinality(all(i)) = Len(f[i])}
  <2>3. 1 \in W
    <3>1. 1 \in 1 .. n /\ 1 - 1 = 0
      BY <1>1, <1>6
    <3>2. all(1) = places(1)
      BY <1>3, <1>4, <3>1
    <3>3. QED
      BY <1>2, <2>s, <3>1, <3>2
  <2>4. ASSUME NEW i \in 1 .. n - 1, i \in W
        PROVE  i + 1 \in W
    <3>1. i + 1 \in 1 .. n /\ i + 1 \in 2 .. n /\ (i + 1) - 1 = i /\ i \in 1 .. n
      BY <1>1
    <3>2. all(i + 1) = all(i) \cup places(i + 1) /\ all(i) \cap places(i + 1) = {}
      BY <1>3, <3>1
    <3>3. IsFiniteSet(all(i)) /\ Cardinality(all(i)) = Len(f[i])
      BY <2>4
    <3>4. IsFiniteSet(places(i + 1)) /\ Cardinality(places(i + 1)) = Len(seqs[i + 1])
      BY <1>2, <3>1
    <3>5. IsFiniteSet(all(i + 1)) /\ Cardinality(all(i + 1)) = Len(f[i]) + Len(seqs[i + 1])
      <4> DEFINE A == all(i)
                 B == places(i + 1)
      <4>1. /\ IsFiniteSet(A \cup B)
            /\ Cardinality(A \cup B) = Cardinality(A) + Cardinality(B) - Cardinality(A \cap B)
        BY <3>3, <3>4, FS_Union
      <4>2. Cardinality(A \cap B) = 0
        BY <3>2, FS_EmptySet
      <4>3. Len(f[i]) \in Nat /\ Len(seqs[i + 1]) \in Nat
        <5>1. f[i] \in Seq(X)
          BY <2>s, <3>1
        <5>2. QED
          BY <1>1, <3>1, <5>1
      <4> HIDE DEF A, B
      <4>4. Cardinality(A \cup B) = Len(f[i]) + Len(seqs[i + 1])
        <5>1. Cardinality(A) = Len(f[i]) /\ Cardinality(B) = Len(seqs[i + 1])
          BY <3>3, <3>4 DEF A, B
        <5>2. QED
          BY <4>1, <4>2, <4>3, <5>1
      <4>5. QED
        BY <3>2, <4>1, <4>4 DEF A, B
    <3>6. Len(f[i + 1]) = Len(f[i]) + Len(seqs[i + 1])
      <4>1. f[i] \in Seq(X) /\ seqs[i + 1] \in Seq(X) /\ f[i + 1] = f[i] \o seqs[i + 1]
        BY <1>1, <2>s, <3>1
      <4>2. QED
        BY <4>1, PutTogether
    <3>7. QED
      BY <3>1, <3>5, <3>6
  <2>5. n \in W
    <3> HIDE DEF W
    <3>1. 1 .. n \subseteq W
      BY <1>1, <2>3, <2>4, PlaceInduction
    <3>2. n \in 1 .. n
      BY <1>1, <1>6
    <3>3. QED
      BY <3>1, <3>2
  <2>6. QED
    BY <2>s, <2>5 DEF all, places, Spots
<1>7. QED
  BY <1>5, <1>6

\* A document in terms of the order of its tables.
Follows(r, db, backend, n, o) ==
  /\ Len(r.sections) = n /\ DOMAIN r.sections = 1 .. n
  /\ \A i \in 1 .. n : r.sections[i].title = DisplayName(db[o[i]], backend)
  /\ \A i \in 1 .. n : r.contents[i] = AnchorOf(DisplayName(db[o[i]], backend))
  /\ \E seqs : /\ r.edges = FlattenSeq(seqs) /\ DOMAIN seqs = 1 .. n
               /\ seqs = [i \in 1 .. n |-> r.sections[i].edges]
               /\ \A i \in 1 .. n : /\ DOMAIN seqs[i] = DOMAIN db[o[i]].fks
                                    /\ seqs[i] = [k \in DOMAIN db[o[i]].fks |-> seqs[i][k]]

LEMMA RenderIs ==
  ASSUME NEW db, NEW backend, NEW n \in Nat, NEW o, o \in [1 .. n -> DOMAIN db],
         o = Ordering(DOMAIN db, InTitleOrder(db, backend))
  PROVE  Follows(Render(db, backend), db, backend, n, o)
<1> DEFINE sections == [i \in 1 .. n |-> Section(db[o[i]], backend)]
           seqs == [i \in 1 .. n |-> sections[i].edges]
           contents == [i \in 1 .. n |-> AnchorOf(sections[i].title)]
           r == Render(db, backend)
<1>1. DOMAIN o = 1 .. n
  OBVIOUS
<1>2. DOMAIN sections = 1 .. n
  OBVIOUS
<1>3. r = [contents |-> contents, sections |-> sections, edges |-> FlattenSeq(seqs)]
  <2>1. r = LET order == o
                ss == [i \in DOMAIN order |-> Section(db[order[i]], backend)]
            IN [contents |-> [i \in DOMAIN ss |-> AnchorOf(ss[i].title)],
                sections |-> ss, edges |-> FlattenSeq([i \in DOMAIN ss |-> ss[i].edges])]
    BY Zenon DEF Render
  <2>2. [i \in DOMAIN o |-> Section(db[o[i]], backend)] = sections
    BY <1>1
  <2> HIDE DEF sections
  <2>3. r = [contents |-> [i \in DOMAIN sections |-> AnchorOf(sections[i].title)],
             sections |-> sections, edges |-> FlattenSeq([i \in DOMAIN sections |-> sections[i].edges])]
    BY <2>1, <2>2
  <2>4. [i \in DOMAIN sections |-> AnchorOf(sections[i].title)] = contents /\ [i \in DOMAIN sections |-> sections[i].edges] = seqs
    BY <1>2
  <2> HIDE DEF contents, seqs
  <2>5. QED
    BY <2>3, <2>4
<1>4. \A t : /\ Section(t, backend).title = DisplayName(t, backend)
             /\ DOMAIN Section(t, backend).edges = DOMAIN t.fks
             /\ Section(t, backend).edges = [k \in DOMAIN t.fks |-> Section(t, backend).edges[k]]
  BY DEF Section
<1>5. \A i \in 1 .. n : sections[i] = Section(db[o[i]], backend)
  OBVIOUS
<1> HIDE DEF sections
<1>6. /\ \A i \in 1 .. n : contents[i] = AnchorOf(sections[i].title)
      /\ DOMAIN seqs = 1 .. n /\ \A i \in 1 .. n : seqs[i] = sections[i].edges
  OBVIOUS
<1>7. Len(sections) = n
  <2>1. sections = [i \in 1 .. n |-> Section(db[o[i]], backend)]
    BY DEF sections
  <2>2. QED
    BY <2>1
<1> HIDE DEF contents, r
<1>8. seqs = [i \in 1 .. n |-> r.sections[i].edges]
  <2>1. r.sections = sections
    BY <1>3
  <2>2. QED
    BY <2>1
<1> HIDE DEF seqs
<1>9. r.contents = contents /\ r.sections = sections /\ r.edges = FlattenSeq(seqs)
  BY <1>3
<1>10. \A i \in 1 .. n : DOMAIN seqs[i] = DOMAIN db[o[i]].fks /\ seqs[i] = [k \in DOMAIN db[o[i]].fks |-> seqs[i][k]]
  <2>1. SUFFICES ASSUME NEW i \in 1 .. n
                 PROVE  DOMAIN seqs[i] = DOMAIN db[o[i]].fks /\ seqs[i] = [k \in DOMAIN db[o[i]].fks |-> seqs[i][k]]
    OBVIOUS
  <2>2. PICK e : e = Section(db[o[i]], backend).edges
    OBVIOUS
  <2>3. DOMAIN e = DOMAIN db[o[i]].fks /\ e = [k \in DOMAIN db[o[i]].fks |-> e[k]]
    BY <1>4, <2>2
  <2>4. seqs[i] = e
    BY <1>5, <1>6, <2>2
  <2>5. QED
    BY <2>3, <2>4
<1>11. \A i \in 1 .. n : sections[i].title = DisplayName(db[o[i]], backend)
  BY <1>4, <1>5
<1>12. \E e : /\ r.edges = FlattenSeq(e) /\ DOMAIN e = 1 .. n
              /\ e = [i \in 1 .. n |-> r.sections[i].edges]
              /\ \A i \in 1 .. n : DOMAIN e[i] = DOMAIN db[o[i]].fks /\ e[i] = [k \in DOMAIN db[o[i]].fks |-> e[i][k]]
  <2>1. DOMAIN seqs = 1 .. n
    BY <1>6
  <2>2. QED
    BY <1>8, <1>9, <1>10, <2>1
<1>13. /\ Len(r.sections) = n /\ DOMAIN r.sections = 1 .. n
       /\ \A i \in 1 .. n : r.sections[i].title = DisplayName(db[o[i]], backend)
       /\ \A i \in 1 .. n : r.contents[i] = AnchorOf(DisplayName(db[o[i]], backend))
  <2>1. \A i \in 1 .. n : r.contents[i] = AnchorOf(DisplayName(db[o[i]], backend))
    BY <1>6, <1>9, <1>11
  <2>2. QED
    BY <1>2, <1>7, <1>9, <1>11, <2>1
<1>14. Follows(r, db, backend, n, o)
  BY <1>12, <1>13 DEF Follows
<1>15. QED
  BY <1>14 DEF r

\* Every table and every edge is in the document.  schemadex_docs.rs
THEOREM DocumentIsCompleteForAll ==
  ASSUME NEW db, AreDocumented(db), NEW backend
  PROVE  DocumentIsComplete(db, backend)
<1> DEFINE o == Ordering(DOMAIN db, InTitleOrder(db, backend))
           n == Len(db)
           title(i) == DisplayName(db[i], backend)
           r == Render(db, backend)
           titles == {DisplayName(t, backend) : t \in ToSet(db)}
<1>1. /\ n \in Nat /\ DOMAIN db = 1 .. n /\ o \in [1 .. n -> 1 .. n]
      /\ \A x \in 1 .. n : \E k \in 1 .. n : o[k] = x
      /\ \A i, j \in 1 .. n : o[i] = o[j] => i = j
      /\ \A i, j \in 1 .. n : i < j => ~Before(title(o[j]), title(o[i]))
  BY TitlesOrder
<1>2. \A i \in 1 .. n : IsDocumented(db[i]) /\ db[i] \in ToSet(db)
  BY <1>1 DEF AreDocumented, ToSet
<1>3. /\ Len(r.sections) = n /\ DOMAIN r.sections = 1 .. n
      /\ \A i \in 1 .. n : r.sections[i].title = title(o[i])
      /\ \A i \in 1 .. n : r.contents[i] = AnchorOf(title(o[i]))
      /\ \E seqs : /\ r.edges = FlattenSeq(seqs) /\ DOMAIN seqs = 1 .. n
                   /\ seqs = [i \in 1 .. n |-> r.sections[i].edges]
                   /\ \A i \in 1 .. n : /\ DOMAIN seqs[i] = DOMAIN db[o[i]].fks
                                        /\ seqs[i] = [k \in DOMAIN db[o[i]].fks |-> seqs[i][k]]
  <2>1. n \in Nat /\ o \in [1 .. n -> DOMAIN db]
    BY <1>1
  <2>2. Follows(r, db, backend, n, o)
    BY <2>1, RenderIs
  <2> HIDE DEF o, n, r
  <2>3. QED
    BY <2>2 DEF Follows
<1> HIDE DEF o, n, title, r
<1>4. {s.title : s \in ToSet(r.sections)} = titles
  <2>1. \A s \in ToSet(r.sections) : \E i \in 1 .. n : s = r.sections[i]
    BY <1>3 DEF ToSet
  <2>2. \A i \in 1 .. n : r.sections[i] \in ToSet(r.sections)
    BY <1>3 DEF ToSet
  <2>3. \A t \in ToSet(db) : \E i \in 1 .. n : t = db[i]
    BY <1>1 DEF ToSet
  <2>4. \A i \in 1 .. n : o[i] \in 1 .. n
    BY <1>1
  <2>5. ASSUME NEW s \in ToSet(r.sections)
        PROVE  s.title \in titles
    BY <1>2, <1>3, <2>1, <2>4, <2>5 DEF title
  <2>6. ASSUME NEW t \in ToSet(db)
        PROVE  \E s \in ToSet(r.sections) : s.title = DisplayName(t, backend)
    <3>1. PICK x \in 1 .. n : t = db[x]
      BY <2>3
    <3>2. PICK i \in 1 .. n : o[i] = x
      BY <1>1
    <3>3. r.sections[i].title = DisplayName(t, backend)
      BY <1>3, <3>1, <3>2 DEF title
    <3>4. QED
      BY <2>2, <3>3
  <2>7. QED
    BY <2>5, <2>6
<1>5. Len(r.edges) = Cardinality(UNION {{<<i, k>> : k \in DOMAIN db[i].fks} : i \in DOMAIN db})
  <2>1. PICK seqs : /\ r.edges = FlattenSeq(seqs) /\ DOMAIN seqs = 1 .. n
                    /\ seqs = [i \in 1 .. n |-> r.sections[i].edges]
                    /\ \A i \in 1 .. n : /\ DOMAIN seqs[i] = DOMAIN db[o[i]].fks
                                         /\ seqs[i] = [k \in DOMAIN db[o[i]].fks |-> seqs[i][k]]
    BY <1>3
  <2> DEFINE X == UNION {{seqs[i][k] : k \in DOMAIN seqs[i]} : i \in 1 .. n}
             all == UNION {{<<o[i], k>> : k \in DOMAIN seqs[i]} : i \in 1 .. n}
             wanted == UNION {{<<i, k>> : k \in DOMAIN db[i].fks} : i \in DOMAIN db}
  <2>2. \A i \in 1 .. n : Len(db[o[i]].fks) \in Nat /\ DOMAIN db[o[i]].fks = 1 .. Len(db[o[i]].fks)
    BY <1>1, <1>2 DEF IsDocumented, IsRow
  <2>3. \A i \in 1 .. n : \A k \in DOMAIN seqs[i] : seqs[i][k] \in X
    OBVIOUS
  <2>4. ASSUME NEW i \in 1 .. n
        PROVE  seqs[i] \in Seq(X)
    <3> HIDE DEF X
    <3> DEFINE l == Len(db[o[i]].fks)
    <3>1. l \in Nat /\ DOMAIN seqs[i] = 1 .. l /\ seqs[i] = [k \in 1 .. l |-> seqs[i][k]]
      BY <2>1, <2>2
    <3>2. seqs[i] \in [1 .. l -> X]
      BY <2>3, <3>1
    <3> HIDE DEF l
    <3>3. QED
      BY <3>1, <3>2, RowIs
  <2> HIDE DEF X
  <2>5. seqs \in Seq(Seq(X)) /\ Len(seqs) = n
    <3>1. seqs \in [1 .. n -> Seq(X)]
      BY <2>1, <2>4
    <3>2. QED
      BY <1>1, <3>1, RowIs
  <2>6. Len(FlattenSeq(seqs)) = Cardinality(all)
    <3>1. o \in [1 .. Len(seqs) -> 1 .. n] /\ \A i, j \in 1 .. Len(seqs) : o[i] = o[j] => i = j
      BY <1>1, <2>5
    <3>2. Len(FlattenSeq(seqs)) = Cardinality(Spots(o, seqs))
      BY <2>5, <3>1, FlattenedLength
    <3>3. Spots(o, seqs) = all
      BY <2>5 DEF Spots
    <3> HIDE DEF all
    <3>4. QED
      BY <3>2, <3>3
  <2>7. all = wanted
    <3>1. ASSUME NEW x \in all
          PROVE  x \in wanted
      <4>1. PICK i \in 1 .. n : \E k \in DOMAIN seqs[i] : x = <<o[i], k>>
        OBVIOUS
      <4>k. PICK k \in DOMAIN seqs[i] : x = <<o[i], k>>
        BY <4>1
      <4>2. o[i] \in DOMAIN db /\ k \in DOMAIN db[o[i]].fks
        BY <1>1, <2>1
      <4>3. QED
        BY <4>k, <4>2
    <3>2. ASSUME NEW x \in wanted
          PROVE  x \in all
      <4>1. PICK j \in DOMAIN db : \E k \in DOMAIN db[j].fks : x = <<j, k>>
        OBVIOUS
      <4>k. PICK k \in DOMAIN db[j].fks : x = <<j, k>>
        BY <4>1
      <4>2. PICK i \in 1 .. n : o[i] = j
        BY <1>1
      <4>3. k \in DOMAIN seqs[i]
        BY <2>1, <4>k, <4>2
      <4>4. QED
        BY <4>k, <4>2, <4>3
    <3> HIDE DEF all, wanted
    <3>3. QED
      BY <3>1, <3>2
  <2>8. QED
    BY <2>1, <2>6, <2>7
<1>6. \A i \in 1 .. n - 1 : ~Before(r.sections[i + 1].title, r.sections[i].title)
  <2>1. \A i \in 1 .. n - 1 : i \in 1 .. n /\ i + 1 \in 1 .. n /\ i < i + 1
    BY <1>1
  <2>2. QED
    <3>1. SUFFICES ASSUME NEW i \in 1 .. n - 1
                   PROVE  ~Before(r.sections[i + 1].title, r.sections[i].title)
      OBVIOUS
    <3>2. ~Before(title(o[i + 1]), title(o[i]))
      BY <1>1, <2>1
    <3>3. r.sections[i + 1].title = title(o[i + 1]) /\ r.sections[i].title = title(o[i])
      BY <1>3, <2>1
    <3>4. QED
      BY <3>2, <3>3
<1>7. ASSUME Cardinality({t.schema : t \in ToSet(db)}) = 1, NEW i \in DOMAIN db, NEW j \in DOMAIN db
      PROVE  r.contents[i] = r.contents[j] <=> r.sections[i].title = r.sections[j].title
  <2> DEFINE S == {t.schema : t \in ToSet(db)}
             f == [x \in 1 .. n |-> db[x].schema]
  <2>1. IsFiniteSet(S)
    <3>1. f \in Surjection(1 .. n, S)
      <4>1. \A x \in 1 .. n : db[x].schema \in S
        BY <1>2
      <4>2. ASSUME NEW y \in S
            PROVE  \E x \in 1 .. n : y = db[x].schema
        <5>1. PICK t \in ToSet(db) : y = t.schema
          OBVIOUS
        <5>2. PICK x \in 1 .. n : t = db[x]
          BY <1>1 DEF ToSet
        <5>3. QED
          BY <5>1, <5>2
      <4> HIDE DEF S
      <4>3. QED
        BY <4>1, <4>2 DEF Surjection
    <3>2. IsFiniteSet(1 .. n)
      BY <1>1, IntervalIs
    <3>3. QED
      BY <3>1, <3>2, FS_Surjection
  <2>2. PICK s : S = {s}
    <3> HIDE DEF S
    <3>1. QED
      BY <1>7, <2>1, FS_Singleton DEF S
  <2>3. i \in 1 .. n /\ j \in 1 .. n /\ o[i] \in 1 .. n /\ o[j] \in 1 .. n
    BY <1>1
  <2> DEFINE a == db[o[i]]
             b == db[o[j]]
             p == Prefix(s, backend)
  <2>4. a.schema = s /\ b.schema = s /\ IsDocumented(a) /\ IsDocumented(b)
    BY <1>2, <2>2, <2>3
  <2> HIDE DEF a, b, p
  <2>5. title(o[i]) = p \o a.name /\ title(o[j]) = p \o b.name /\ p \in Seq(Int)
    BY <2>4, TitleIs DEF p, title, a, b
  <2>6. a.name \in Seq(Int) /\ Dot \notin ToSet(a.name) /\ b.name \in Seq(Int) /\ Dot \notin ToSet(b.name)
    BY <2>4 DEF IsDocumented
  <2>7. /\ AnchorOf(p) \in Seq(Int)
        /\ AnchorOf(p \o a.name) = AnchorOf(p) \o a.name
        /\ AnchorOf(p \o b.name) = AnchorOf(p) \o b.name
    BY <2>5, <2>6, AnchorIs
  <2>8. p \o a.name = p \o b.name <=> a.name = b.name
    BY <2>5, <2>6, SamePrefix
  <2>9. AnchorOf(p) \o a.name = AnchorOf(p) \o b.name <=> a.name = b.name
    BY <2>6, <2>7, SamePrefix
  <2>10. r.contents[i] = AnchorOf(p) \o a.name /\ r.contents[j] = AnchorOf(p) \o b.name
    BY <1>3, <2>3, <2>5, <2>7, ZenonT(60)
  <2>11. r.sections[i].title = p \o a.name /\ r.sections[j].title = p \o b.name
    BY <1>3, <2>3, <2>5
  <2>12. QED
    BY <2>8, <2>9, <2>10, <2>11
<1>8. QED
  BY <1>3, <1>4, <1>5, <1>6, <1>7 DEF DocumentIsComplete, r, n
=============================================================================
