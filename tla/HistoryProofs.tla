---------------------------- MODULE HistoryProofs ----------------------------
(***************************************************************************)
(* Proofs about History, for any writers and readers, any max_history and  *)
(* every bound: type correctness, that rotations bound the directory, that *)
(* they keep the newest snapshots, and that a reader misses none it had to *)
(* report.                                                                 *)
(***************************************************************************)
EXTENDS History, FunctionTheorems, FiniteSetTheorems, TLAPS

(***************************************************************************)
(* Sets that are finite.                                                   *)
(***************************************************************************)
LEMMA NamesAreFinite == IsFiniteSet(Names)
<1> DEFINE Pairs == Seconds \X (0 .. MaxSnapshots)
           f == [x \in Pairs |-> [second |-> x[1], nonce |-> x[2]]]
<1>1. IsFiniteSet(Pairs)
  <2>1. IsFiniteSet(0 .. MaxTime) /\ IsFiniteSet(0 .. MaxSnapshots)
    BY BoundsAssumption, FS_Interval
  <2>2. QED
    BY <2>1, FS_Product DEF Seconds
<1>2. f \in [Pairs -> Names]
  BY DEF Names
<1>3. ASSUME NEW g \in Names
      PROVE  \E x \in Pairs : f[x] = g
  <2>1. <<g.second, g.nonce>> \in Pairs
    BY DEF Names
  <2>2. f[<<g.second, g.nonce>>] = g
    BY <2>1 DEF Names
  <2>3. QED
    BY <2>1, <2>2
<1>4. f \in Surjection(Pairs, Names)
  BY <1>2, <1>3 DEF Surjection
<1> HIDE DEF Pairs, f
<1>5. QED
  BY <1>1, <1>4, FS_Surjection

\* The directory holds finitely many files, and no more than one that has
\* all of them.
LEMMA PresentIsFinite ==
  /\ IsFiniteSet(Present) /\ Cardinality(Present) \in Nat
  /\ \A some \in SUBSET Present :
       /\ IsFiniteSet(some) /\ Cardinality(some) \in Nat
       /\ Cardinality(some) <= Cardinality(Present)
<1>1. Present \subseteq Names
  BY DEF Present
<1>2. IsFiniteSet(Present)
  BY <1>1, NamesAreFinite, FS_Subset
<1>3. QED
  BY <1>2, FS_Subset, FS_CardinalityType

LEMMA NewerIsFinite ==
  ASSUME NEW s \in Seconds
  PROVE  IsFiniteSet(Newer(s)) /\ Cardinality(Newer(s)) \in Nat
<1>1. IsFiniteSet(Seconds) /\ Newer(s) \subseteq Seconds
  BY BoundsAssumption, FS_Interval DEF Seconds, Newer
<1>2. QED
  BY <1>1, FS_Subset, FS_CardinalityType

(***************************************************************************)
(* Types.  A snapshot counts a second up once for each name it found taken,*)
(* so the number in a name stays below the number of files created in that *)
(* second; and those, with the snapshots on their way, were all started.   *)
(***************************************************************************)
Naming(p) == pc[p] \in {"probe", "create"}
InFlight(s) == {p \in Writers : Naming(p) /\ name[p].second = s}

Counted ==
  \A s \in Seconds :
    /\ IsFiniteSet(InFlight(s))
    /\ created[s] + Cardinality(InFlight(s)) <= started

Numbered ==
  /\ \A f \in Present : f.nonce < created[f.second]
  /\ \A p \in Writers : Naming(p) => name[p].nonce <= created[name[p].second]

CountInv == TypeOK /\ Counted /\ Numbered

LEMMA InitCounts == Init => CountInv
<1> SUFFICES ASSUME Init
             PROVE  CountInv
  OBVIOUS
<1>1. TypeOK
  <2>1. 0 \in Seconds /\ 0 \in 0 .. MaxSnapshots
    BY BoundsAssumption DEF Seconds
  <2>2. NoName \in Names
    BY <2>1 DEF NoName, Names
  <2>3. QED
    BY <2>1, <2>2 DEF Init, TypeOK
<1>2. Counted
  <2>1. \A s \in Seconds : InFlight(s) = {}
    BY DEF Init, InFlight, Naming
  <2>2. QED
    BY <2>1, FS_EmptySet DEF Init, Counted
<1>3. Numbered
  BY DEF Init, Numbered, Present, Naming
<1>4. QED
  BY <1>1, <1>2, <1>3 DEF CountInv

\* A snapshot on its way leaves room for one more file of its second.
LEMMA RoomForOne ==
  ASSUME CountInv, NEW p \in Writers, Naming(p)
  PROVE  created[name[p].second] + 1 <= started
<1> DEFINE s == name[p].second
<1>1. s \in Seconds /\ p \in InFlight(s) /\ created[s] \in Nat
  BY DEF CountInv, TypeOK, Names, InFlight
<1>2. IsFiniteSet(InFlight(s)) /\ created[s] + Cardinality(InFlight(s)) <= started
  BY <1>1 DEF CountInv, Counted
<1>3. Cardinality(InFlight(s)) \in Nat /\ Cardinality(InFlight(s)) # 0
  BY <1>1, <1>2, FS_CardinalityType, FS_EmptySet
<1>4. QED
  BY <1>1, <1>2, <1>3 DEF CountInv, TypeOK

\* A step in which no snapshot gets on its way and none creates a file.
LEMMA CountsKept ==
  ASSUME CountInv, TypeOK', started' = started, created' = created,
         Present' \subseteq Present,
         \A p \in Writers :
           Naming(p)' => /\ Naming(p)
                         /\ name'[p].second = name[p].second
                         /\ name'[p].nonce <= created[name[p].second]
  PROVE  CountInv'
<1>1. ASSUME NEW s \in Seconds
      PROVE  /\ IsFiniteSet(InFlight(s)')
             /\ created'[s] + Cardinality(InFlight(s)') <= started'
  <2>1. InFlight(s)' \subseteq InFlight(s)
    BY DEF InFlight
  <2>2. IsFiniteSet(InFlight(s)) /\ created[s] + Cardinality(InFlight(s)) <= started
    BY DEF CountInv, Counted
  <2>3. /\ IsFiniteSet(InFlight(s)')
        /\ Cardinality(InFlight(s)') <= Cardinality(InFlight(s))
        /\ Cardinality(InFlight(s)') \in Nat /\ Cardinality(InFlight(s)) \in Nat
    BY <2>1, <2>2, FS_Subset, FS_CardinalityType
  <2>4. QED
    BY <2>2, <2>3 DEF CountInv, TypeOK
<1>2. Counted'
  BY <1>1 DEF Counted
<1>3. Numbered'
  BY DEF CountInv, Numbered
<1>4. QED
  BY <1>2, <1>3 DEF CountInv

LEMMA SnapshotCounts ==
  ASSUME CountInv, NEW p \in Writers, Snapshot(p)
  PROVE  CountInv'
<1> USE DEF CountInv
<1>1. FirstName \in Names /\ FirstName.second = now /\ FirstName.nonce = 0
  BY BoundsAssumption DEF FirstName, Names, TypeOK
<1>2. TypeOK'
  BY <1>1, BoundsAssumption DEF Snapshot, TypeOK, readers
<1>3. /\ ~Naming(p) /\ Naming(p)' /\ name'[p] = FirstName
      /\ \A q \in Writers \ {p} : Naming(q)' = Naming(q) /\ name'[q] = name[q]
      /\ created' = created /\ started' = started + 1
      /\ Present' = Present
  BY DEF Snapshot, TypeOK, Naming, Present
<1>4. ASSUME NEW s \in Seconds
      PROVE  /\ IsFiniteSet(InFlight(s)')
             /\ created'[s] + Cardinality(InFlight(s)') <= started'
  <2>1. IsFiniteSet(InFlight(s)) /\ created[s] + Cardinality(InFlight(s)) <= started
    BY DEF Counted
  <2>2. InFlight(s)' \subseteq InFlight(s) \cup {p}
    BY <1>3 DEF InFlight
  <2>3. /\ IsFiniteSet(InFlight(s) \cup {p})
        /\ Cardinality(InFlight(s) \cup {p}) <= Cardinality(InFlight(s)) + 1
    <3>1. /\ IsFiniteSet(InFlight(s) \cup {p})
          /\ Cardinality(InFlight(s) \cup {p}) =
               IF p \in InFlight(s) THEN Cardinality(InFlight(s))
               ELSE Cardinality(InFlight(s)) + 1
      BY <2>1, FS_AddElement
    <3>2. Cardinality(InFlight(s)) \in Nat
      BY <2>1, FS_CardinalityType
    <3>3. QED
      BY <3>1, <3>2
  <2>4. /\ IsFiniteSet(InFlight(s)')
        /\ Cardinality(InFlight(s)') <= Cardinality(InFlight(s) \cup {p})
    BY <2>2, <2>3, FS_Subset
  <2>5. /\ Cardinality(InFlight(s)') \in Nat
        /\ Cardinality(InFlight(s)) \in Nat
        /\ Cardinality(InFlight(s) \cup {p}) \in Nat
    BY <2>1, <2>3, <2>4, FS_CardinalityType
  <2>6. QED
    BY <1>3, <2>1, <2>3, <2>4, <2>5 DEF TypeOK
<1>5. Numbered'
  <2>1. created[now] \in Nat
    BY DEF TypeOK
  <2>2. QED
    BY <1>1, <1>3, <2>1 DEF Numbered
<1>6. QED
  BY <1>2, <1>4, <1>5 DEF Counted

LEMMA ProbeCounts ==
  ASSUME CountInv, NEW p \in Writers, Probe(p)
  PROVE  CountInv'
<1> USE DEF CountInv
<1>1. Naming(p) /\ name[p] \in Names /\ UNCHANGED <<dir, created, started>>
  BY DEF Probe, Naming, TypeOK, ghosts
<1>2. CASE name[p] \in Present
  <2>1. name[p].nonce < created[name[p].second]
    BY <1>2 DEF Numbered
  <2>2. created[name[p].second] + 1 <= started
    BY <1>1, RoomForOne
  <2>3. /\ name' = [name EXCEPT ![p].nonce = name[p].nonce + 1]
        /\ UNCHANGED pc
    BY <1>2 DEF Probe
  <2>4. /\ name[p].nonce \in Nat /\ name[p].second \in Seconds
        /\ created[name[p].second] \in Nat
    BY <1>1 DEF Names, TypeOK
  <2>5. name[p].nonce + 1 <= created[name[p].second]
    BY <2>1, <2>4
  <2>6. name[p].nonce + 1 \in 0 .. MaxSnapshots
    BY <2>2, <2>4, <2>5, BoundsAssumption DEF TypeOK
  <2>7. /\ name'[p] \in Names /\ name' \in [Writers -> Names]
        /\ name'[p].second = name[p].second
        /\ name'[p].nonce = name[p].nonce + 1
        /\ \A q \in Writers \ {p} : name'[q] = name[q]
    BY <2>3, <2>6 DEF TypeOK, Names
  <2>8. TypeOK'
    BY <2>3, <2>7 DEF Probe, TypeOK, readers, ghosts
  <2>9. \A q \in Writers :
          Naming(q)' => /\ Naming(q) /\ name'[q].second = name[q].second
                        /\ name'[q].nonce <= created[name[q].second]
    BY <2>3, <2>5, <2>7 DEF Naming, Numbered
  <2>10. QED
    BY <1>1, <2>8, <2>9, CountsKept DEF Present
<1>3. CASE name[p] \notin Present
  <2>1. pc' = [pc EXCEPT ![p] = "create"] /\ UNCHANGED name
    BY <1>3 DEF Probe
  <2>2. TypeOK'
    BY <2>1 DEF Probe, TypeOK, readers, ghosts
  <2>3. \A q \in Writers : Naming(q)' => Naming(q)
    BY <1>1, <2>1 DEF Naming, TypeOK
  <2>4. QED
    BY <1>1, <2>1, <2>2, <2>3, CountsKept DEF Present, Numbered
<1>4. QED
  BY <1>2, <1>3

\* Assumptions give every writer a mark of its own in the directory.
LEMMA WritersAreMarks ==
  \A p \in Writers : p # NotFound
BY TasksAssumption

LEMMA CreateCounts ==
  ASSUME CountInv, NEW p \in Writers, Create(p)
  PROVE  CountInv'
<1> USE DEF CountInv
<1> DEFINE t == name[p].second
<1>1. /\ Naming(p) /\ ~Naming(p)' /\ name[p] \in Names /\ t \in Seconds
      /\ \A q \in Writers \ {p} : Naming(q)' = Naming(q)
      /\ name' = name /\ started' = started
      /\ Present' = Present \cup {name[p]}
  BY WritersAreMarks, ZenonT(60) DEF Create, Naming, TypeOK, Names, Present
<1>2. /\ created' = [created EXCEPT ![t] = created[t] + 1]
      /\ created[t] + 1 <= started /\ created[t] \in Nat
      /\ created \in [Seconds -> 0 .. MaxSnapshots]
  BY <1>1, RoomForOne DEF Create, TypeOK
<1>3. created' \in [Seconds -> 0 .. MaxSnapshots]
  <2>1. created[t] + 1 \in 0 .. MaxSnapshots
    BY <1>2, BoundsAssumption DEF TypeOK
  <2>2. QED
    BY <1>1, <1>2, <2>1
<1>4. TypeOK'
  BY <1>3 DEF Create, TypeOK, readers
<1>5. ASSUME NEW s \in Seconds
      PROVE  /\ IsFiniteSet(InFlight(s)')
             /\ created'[s] + Cardinality(InFlight(s)') <= started'
  <2>1. IsFiniteSet(InFlight(s)) /\ created[s] + Cardinality(InFlight(s)) <= started
    BY DEF Counted
  <2>2. InFlight(s)' = InFlight(s) \ {p}
    BY <1>1 DEF InFlight
  <2>3. p \in InFlight(s) <=> s = t
    BY <1>1 DEF InFlight
  <2>4. /\ IsFiniteSet(InFlight(s)')
        /\ Cardinality(InFlight(s)') =
             IF s = t THEN Cardinality(InFlight(s)) - 1 ELSE Cardinality(InFlight(s))
        /\ Cardinality(InFlight(s)) \in Nat
    BY <2>1, <2>2, <2>3, FS_RemoveElement, FS_CardinalityType
  <2>5. created'[s] = IF s = t THEN created[s] + 1 ELSE created[s]
    BY <1>2
  <2>6. created[s] \in Nat /\ started \in Nat
    BY DEF TypeOK
  <2>7. QED
    BY <1>1, <2>1, <2>4, <2>5, <2>6
<1>6. \A s \in Seconds : created[s] \in Nat /\ created'[s] \in Nat /\ created[s] <= created'[s]
  BY <1>1, <1>2
<1>7. created'[t] = created[t] + 1
  BY <1>1, <1>2
<1>8. Numbered'
  <2>1. \A f \in Present : f.nonce < created[f.second] /\ f.second \in Seconds /\ f.nonce \in Nat
    BY DEF Numbered, Present, Names
  <2>2. name[p].nonce <= created[t] /\ name[p].nonce \in Nat
    BY <1>1 DEF Numbered, Names
  <2>3. \A f \in Present' : f.nonce < created'[f.second]
    BY <1>1, <1>2, <1>6, <1>7, <2>1, <2>2
  <2>4. \A q \in Writers :
          Naming(q) => name[q].nonce <= created[name[q].second]
    BY DEF Numbered
  <2>5. \A q \in Writers : name[q].second \in Seconds /\ name[q].nonce \in Nat
    BY DEF TypeOK, Names
  <2>6. \A q \in Writers :
          Naming(q)' => name'[q].nonce <= created'[name'[q].second]
    BY <1>1, <1>6, <2>4, <2>5
  <2>7. QED
    BY <2>3, <2>6 DEF Numbered
<1>9. QED
  BY <1>4, <1>5, <1>8 DEF Counted

\* Writing, or stopping to, makes no file appear and none disappear.
LEMMA ContentOnly ==
  ASSUME TypeOK, NEW p \in Writers, Write(p) \/ (Stop(p) /\ pc[p] = "write")
  PROVE  Present' = Present /\ dir' \in [Names -> {NotFound, Torn, Whole} \cup Writers]
<1>1. PICK left \in Written(p) \cup Abandoned(p) : dir' = [dir EXCEPT ![name[p]] = left]
  BY DEF Write, Stop
<1>2. /\ left \in {NotFound, Torn, Whole} \cup Writers
      /\ left = NotFound <=> name[p] \notin Present
  BY TasksAssumption DEF Written, Abandoned, TypeOK, Present
<1>3. QED
  BY <1>1, <1>2 DEF TypeOK, Present

LEMMA WriterCounts ==
  ASSUME CountInv, NEW p \in Writers, Write(p) \/ Rotate(p) \/ Remove(p) \/ Stop(p)
  PROVE  CountInv'
<1> USE DEF CountInv
<1>1. NoName \in Names /\ NoName.nonce = 0
  BY BoundsAssumption DEF NoName, Names, Seconds
<1>2. CASE Write(p)
  <2>1. TypeOK'
    BY <1>2, ContentOnly DEF Write, TypeOK, readers, ghosts
  <2>2. \A q \in Writers : Naming(q)' => Naming(q)
    BY <1>2 DEF Write, Naming, TypeOK
  <2>3. QED
    BY <1>2, <2>1, <2>2, ContentOnly, CountsKept DEF Write, Numbered, ghosts
<1>3. CASE Rotate(p)
  <2>1. PICK some \in ToRemove(Present) :
          IF some = {} THEN End(p, "ok")
          ELSE /\ todo' = [todo EXCEPT ![p] = some]
               /\ pc' = [pc EXCEPT ![p] = "remove"]
               /\ UNCHANGED <<name, outcome>>
    BY <1>3 DEF Rotate
  <2>2. some \subseteq Names
    BY DEF ToRemove, Present
  <2>3. TypeOK'
    BY <1>1, <1>3, <2>1, <2>2 DEF Rotate, End, Leave, TypeOK, readers, ghosts
  <2>4. \A q \in Writers : Naming(q)' => Naming(q) /\ name'[q] = name[q]
    BY <1>3, <2>1 DEF Rotate, End, Leave, Naming, TypeOK
  <2>5. QED
    BY <1>3, <2>3, <2>4, CountsKept DEF Rotate, Numbered, ghosts, Present
<1>4. CASE Remove(p)
  <2>1. PICK f \in Oldest(todo[p]) :
       /\ \/ dir' = [dir EXCEPT ![f] = NotFound] /\ UNCHANGED stuck
          \/ stuck' = TRUE /\ UNCHANGED dir
       /\ IF todo[p] = {f} THEN End(p, "ok")
          ELSE /\ todo' = [todo EXCEPT ![p] = @ \ {f}]
               /\ UNCHANGED <<pc, name, outcome>>
    BY <1>4 DEF Remove
  <2>2. TypeOK'
    <3>1. f \in Names /\ todo[p] \ {f} \subseteq Names
      BY DEF Oldest, TypeOK
    <3>2. dir' \in [Names -> {NotFound, Torn, Whole} \cup Writers] /\ stuck' \in BOOLEAN
      BY <2>1 DEF TypeOK
    <3>3. CASE todo[p] = {f}
      BY <1>1, <1>4, <2>1, <3>2, <3>3 DEF Remove, End, Leave, TypeOK, readers
    <3>4. CASE todo[p] # {f}
      BY <1>4, <2>1, <3>1, <3>2, <3>4 DEF Remove, TypeOK, readers
    <3>5. QED
      BY <3>3, <3>4
  <2>3. \A q \in Writers : Naming(q)' => Naming(q) /\ name'[q] = name[q]
    BY <1>4, <2>1 DEF Remove, End, Leave, Naming, TypeOK
  <2>4. Present' \subseteq Present
    BY <2>1 DEF Present, TypeOK
  <2>5. QED
    BY <1>4, <2>2, <2>3, <2>4, CountsKept DEF Remove, Numbered
<1>5. CASE Stop(p)
  <2>1. Present' = Present /\ dir' \in [Names -> {NotFound, Torn, Whole} \cup Writers]
    BY <1>5, ContentOnly DEF Stop, Present, TypeOK
  <2>2. TypeOK'
    BY <1>1, <1>5, <2>1 DEF Stop, End, Leave, TypeOK, readers, ghosts
  <2>3. \A q \in Writers : Naming(q)' => Naming(q) /\ name'[q] = name[q]
    BY <1>5 DEF Stop, End, Leave, Naming, TypeOK
  <2>4. QED
    BY <1>5, <2>1, <2>2, <2>3, CountsKept DEF Stop, Numbered, ghosts
<1>6. QED
  BY <1>2, <1>3, <1>4, <1>5

\* A reader leaves the directory and the writers alone.
LEMMA ReaderStep ==
  ASSUME TypeOK, NEW r \in Readers,
         ListHistory(r) \/ ReadFile(r) \/ ReadFails(r) \/ Return(r)
  PROVE  /\ TypeOK'
         /\ UNCHANGED <<now, dir, name, outcome, started, created, raced, stuck>>
         /\ \A p \in Writers \cup Readers :
              p # r => pc'[p] = pc[p] /\ todo'[p] = todo[p]
         /\ \A p \in Writers : pc'[p] = pc[p] /\ todo'[p] = todo[p]
         /\ \A q \in Readers \ {r} : listed'[q] = listed[q] /\ result'[q] = result[q]
<1>1. r \notin Writers
  BY TasksAssumption
<1>2. CASE ListHistory(r)
  BY <1>1, <1>2 DEF ListHistory, TypeOK, ghosts, Present
<1>3. CASE ReadFile(r)
  <2>1. PICK f \in Oldest(todo[r]) :
          /\ todo' = [todo EXCEPT ![r] = After(r, f)]
          /\ result' = [result EXCEPT ![r] = IF f \in Present THEN @ \cup {f} ELSE @]
    BY <1>3 DEF ReadFile
  <2>2. UNCHANGED <<now, dir, pc, name, listed, outcome, started, created, raced, stuck>>
    BY <1>3 DEF ReadFile, ghosts
  <2>3. f \in Names /\ After(r, f) \subseteq Names
    BY DEF Oldest, After, TypeOK
  <2>4. /\ todo' \in [Writers \cup Readers -> SUBSET Names]
        /\ \A p \in Writers \cup Readers : p # r => todo'[p] = todo[p]
    BY <2>1, <2>3 DEF TypeOK
  <2>5. /\ result' \in [Readers -> SUBSET Names]
        /\ \A q \in Readers \ {r} : result'[q] = result[q]
    BY <2>1, <2>3 DEF TypeOK
  <2>6. QED
    BY <1>1, <2>2, <2>4, <2>5 DEF TypeOK
<1>4. CASE ReadFails(r) \/ Return(r)
  BY <1>1, <1>4 DEF ReadFails, Return, Forget, Leave, TypeOK, ghosts
<1>5. QED
  BY <1>2, <1>3, <1>4

LEMMA CountStep == CountInv /\ [Next]_vars => CountInv'
<1> SUFFICES ASSUME CountInv, [Next]_vars
             PROVE  CountInv'
  OBVIOUS
<1>1. ASSUME NEW p \in Writers, Snapshot(p) \/ Proceed(p) \/ Stop(p)
      PROVE  CountInv'
  BY <1>1, SnapshotCounts, ProbeCounts, CreateCounts, WriterCounts DEF Proceed
<1>2. ASSUME NEW r \in Readers,
             ListHistory(r) \/ ReadFile(r) \/ ReadFails(r) \/ Return(r)
      PROVE  CountInv'
  <2>1. /\ TypeOK'
        /\ UNCHANGED <<dir, name, started, created>>
        /\ \A p \in Writers : pc'[p] = pc[p]
    BY <1>2, ReaderStep DEF CountInv
  <2>2. QED
    BY <2>1, CountsKept DEF CountInv, Numbered, Naming, Present
<1>3. CASE Tick
  <2>1. TypeOK'
    BY <1>3, BoundsAssumption DEF CountInv, Tick, TypeOK, Seconds, readers, ghosts
  <2>2. QED
    BY <1>3, <2>1, CountsKept DEF CountInv, Tick, Numbered, Naming, Present, ghosts
<1>4. CASE UNCHANGED vars
  <2>1. TypeOK'
    BY <1>4 DEF CountInv, vars, TypeOK
  <2>2. QED
    BY <1>4, <2>1, CountsKept DEF CountInv, vars, Numbered, Naming, Present
<1>5. QED
  BY <1>1, <1>2, <1>3, <1>4 DEF Next

LEMMA Counts == Spec => []CountInv
<1>1. QED
  BY InitCounts, CountStep, PTL DEF Spec

\* History, whose snapshots count a second up in their names, stays within
\* its types: a name's number is less than the number of snapshots.
THEOREM TypeCorrect == Spec => []TypeOK
<1>1. CountInv => TypeOK
  BY DEF CountInv
<1>2. QED
  BY <1>1, Counts, PTL

(***************************************************************************)
(* The bound.  While the directory holds more than max_history files some  *)
(* task stands for it: one that has created a file and not yet listed the  *)
(* directory, one whose last call ended with an error, or one that removes *)
(* a surplus without which the bound holds.                                *)
(***************************************************************************)
AfterRemoval(p) == Cardinality(Present \ todo[p]) <= MaxHistory

StandsFor(p) ==
  \/ pc[p] \in {"write", "rotate"}
  \/ outcome[p] = "error" /\ pc[p] \in {"idle", "probe", "create"}
  \/ pc[p] = "remove" /\ AfterRemoval(p)

Bounded ==
  ~stuck => Cardinality(Present) <= MaxHistory \/ \E p \in Writers : StandsFor(p)

BoundInv == CountInv /\ Bounded

LEMMA BoundedImpliesProperty == BoundInv => RotationBounds
BY DEF BoundInv, Bounded, StandsFor, RotationBounds

LEMMA InitBound == Init => BoundInv
<1> SUFFICES ASSUME Init
             PROVE  Bounded
  BY InitCounts DEF BoundInv
<1>1. Present = {}
  BY DEF Init, Present
<1>2. QED
  BY <1>1, FS_EmptySet, BoundsAssumption DEF Bounded

\* A step of p after which p stands for the directory if it did before,
\* and which adds no file.
LEMMA BoundKept ==
  ASSUME BoundInv, NEW p \in Writers, stuck' = stuck, Present' \subseteq Present,
         \A q \in Writers \ {p} :
           pc'[q] = pc[q] /\ todo'[q] = todo[q] /\ outcome'[q] = outcome[q],
         StandsFor(p) => StandsFor(p)' \/ Cardinality(Present') <= MaxHistory
  PROVE  Bounded'
<1> SUFFICES ASSUME ~stuck
             PROVE  \/ Cardinality(Present') <= MaxHistory
                    \/ \E q \in Writers : StandsFor(q)'
  BY DEF Bounded
<1>1. CASE Cardinality(Present) <= MaxHistory
  <2>1. Cardinality(Present') <= Cardinality(Present) /\ Cardinality(Present') \in Nat
    BY PresentIsFinite
  <2>2. QED
    BY <1>1, <2>1, PresentIsFinite, BoundsAssumption
<1>2. CASE StandsFor(p)
  BY <1>2
<1>3. ASSUME NEW q \in Writers \ {p}, StandsFor(q)
      PROVE  StandsFor(q)'
  <2>1. ASSUME AfterRemoval(q)
        PROVE  AfterRemoval(q)'
    <3>1. Present' \ todo'[q] \subseteq Present \ todo[q]
      OBVIOUS
    <3>2. IsFiniteSet(Present \ todo[q]) /\ Cardinality(Present \ todo[q]) \in Nat
      BY PresentIsFinite
    <3>3. /\ Cardinality(Present' \ todo'[q]) <= Cardinality(Present \ todo[q])
          /\ Cardinality(Present' \ todo'[q]) \in Nat
      BY <3>1, <3>2, FS_Subset, FS_CardinalityType
    <3>4. QED
      BY <2>1, <3>2, <3>3, BoundsAssumption DEF AfterRemoval
  <2>2. QED
    BY <1>3, <2>1 DEF StandsFor
<1>4. QED
  BY <1>1, <1>2, <1>3 DEF BoundInv, Bounded

\* What a rotation leaves: the surplus and no more goes.
LEMMA RotationLeaves ==
  ASSUME NEW some \in ToRemove(Present)
  PROVE  /\ some \subseteq Present
         /\ Cardinality(Present \ some) <= MaxHistory
         /\ some # {} => Cardinality(Present \ some) = MaxHistory
<1>1. some \subseteq Present /\ Cardinality(some) = Surplus(Present)
  BY DEF ToRemove
<1>2. /\ IsFiniteSet(some) /\ Cardinality(some) \in Nat
      /\ Cardinality(Present) \in Nat /\ IsFiniteSet(Present)
  BY <1>1, PresentIsFinite
<1>3. Present \cap some = some
  BY <1>1
<1>4. Cardinality(Present \ some) = Cardinality(Present) - Cardinality(some)
  BY <1>2, <1>3, FS_Difference
<1>5. some # {} => Cardinality(some) # 0
  BY <1>2, FS_EmptySet
<1>6. QED
  BY <1>1, <1>2, <1>4, <1>5, BoundsAssumption DEF Surplus

LEMMA WriterBound ==
  ASSUME BoundInv, NEW p \in Writers, Snapshot(p) \/ Proceed(p) \/ Stop(p)
  PROVE  Bounded'
<1> USE DEF BoundInv, CountInv
<1>1. CASE Snapshot(p) \/ Probe(p)
  <2>1. /\ UNCHANGED <<dir, todo, outcome, stuck>>
        /\ \A q \in Writers \ {p} : pc'[q] = pc[q]
        /\ pc[p] \in {"idle", "probe"} /\ pc'[p] \in {"probe", "create"}
    BY <1>1 DEF Snapshot, Probe, ghosts, TypeOK
  <2>2. QED
    BY <2>1, BoundKept DEF StandsFor, Present
<1>2. CASE Create(p)
  <2>1. pc'[p] = "write"
    BY <1>2 DEF Create, TypeOK
  <2>2. QED
    BY <2>1 DEF Bounded, StandsFor
<1>3. CASE Write(p)
  <2>1. pc'[p] = "rotate"
    BY <1>3 DEF Write, TypeOK
  <2>2. QED
    BY <2>1 DEF Bounded, StandsFor
<1>4. CASE Rotate(p)
  <2>1. PICK some \in ToRemove(Present) :
          IF some = {} THEN End(p, "ok")
          ELSE /\ todo' = [todo EXCEPT ![p] = some]
               /\ pc' = [pc EXCEPT ![p] = "remove"]
               /\ UNCHANGED <<name, outcome>>
    BY <1>4 DEF Rotate
  <2>2. /\ some \subseteq Present
        /\ Cardinality(Present \ some) <= MaxHistory
    BY RotationLeaves
  <2>3. Present' = Present
    BY <1>4 DEF Rotate, Present
  <2>4. CASE some = {}
    <3>1. Present \ some = Present
      BY <2>4
    <3>2. QED
      BY <2>2, <2>3, <3>1 DEF Bounded
  <2>5. CASE some # {}
    <3>1. pc'[p] = "remove" /\ todo'[p] = some
      BY <2>1, <2>5 DEF TypeOK
    <3>2. QED
      BY <2>2, <2>3, <3>1 DEF Bounded, StandsFor, AfterRemoval
  <2>6. QED
    BY <2>4, <2>5
<1>5. CASE Remove(p)
  <2> SUFFICES ASSUME ~stuck'
               PROVE  Bounded'
    BY DEF Bounded
  <2>1. PICK f \in Oldest(todo[p]) :
       /\ \/ dir' = [dir EXCEPT ![f] = NotFound] /\ UNCHANGED stuck
          \/ stuck' = TRUE /\ UNCHANGED dir
       /\ IF todo[p] = {f} THEN End(p, "ok")
          ELSE /\ todo' = [todo EXCEPT ![p] = @ \ {f}]
               /\ UNCHANGED <<pc, name, outcome>>
    BY <1>5 DEF Remove
  <2>2. f \in Names /\ f \in todo[p]
    BY DEF Oldest, TypeOK
  <2>3. Present' = Present \ {f} /\ stuck' = stuck
    BY <2>1, <2>2 DEF Present, TypeOK
  <2>4. \A q \in Writers \ {p} :
          pc'[q] = pc[q] /\ todo'[q] = todo[q] /\ outcome'[q] = outcome[q]
    BY <2>1 DEF End, Leave, TypeOK
  <2>5. StandsFor(p) => AfterRemoval(p)
    BY <1>5 DEF Remove, StandsFor
  <2>6. CASE todo[p] = {f}
    BY <2>3, <2>4, <2>5, <2>6, BoundKept DEF AfterRemoval
  <2>7. CASE todo[p] # {f}
    <3>1. pc'[p] = "remove" /\ todo'[p] = todo[p] \ {f}
      BY <1>5, <2>1, <2>7 DEF Remove, TypeOK
    <3>2. Present' \ todo'[p] = Present \ todo[p]
      BY <2>2, <2>3, <3>1
    <3>3. QED
      BY <2>3, <2>4, <2>5, <3>1, <3>2, BoundKept DEF AfterRemoval, StandsFor
  <2>8. QED
    BY <2>6, <2>7
<1>6. CASE Stop(p)
  <2>1. pc'[p] = "idle" /\ outcome'[p] = "error"
    BY <1>6 DEF Stop, End, Leave, TypeOK
  <2>2. QED
    BY <2>1 DEF Bounded, StandsFor
<1>7. QED
  BY <1>1, <1>2, <1>3, <1>4, <1>5, <1>6 DEF Proceed

LEMMA BoundStep == BoundInv /\ [Next]_vars => BoundInv'
<1> SUFFICES ASSUME BoundInv, [Next]_vars
             PROVE  Bounded'
  BY CountStep DEF BoundInv
<1>1. ASSUME NEW p \in Writers, Snapshot(p) \/ Proceed(p) \/ Stop(p)
      PROVE  Bounded'
  BY <1>1, WriterBound
<1>2. ASSUME NEW r \in Readers,
             ListHistory(r) \/ ReadFile(r) \/ ReadFails(r) \/ Return(r)
      PROVE  Bounded'
  <2>1. /\ UNCHANGED <<dir, outcome, stuck>>
        /\ \A p \in Writers : pc'[p] = pc[p] /\ todo'[p] = todo[p]
    BY <1>2, ReaderStep DEF BoundInv, CountInv
  <2>2. QED
    BY <2>1 DEF BoundInv, Bounded, StandsFor, AfterRemoval, Present
<1>3. CASE Tick \/ UNCHANGED vars
  BY <1>3 DEF Tick, vars, ghosts, BoundInv, Bounded, StandsFor, AfterRemoval, Present
<1>4. QED
  BY <1>1, <1>2, <1>3 DEF Next

\* snapshot and rotate_history: however many snapshots and rotations
\* interleave, once all have returned without an error, and every removal
\* worked, the directory holds at most max_history files.
THEOREM RotationsBoundTheDirectory == Spec => []RotationBounds
<1>1. QED
  BY InitBound, BoundStep, BoundedImpliesProperty, PTL DEF Spec

(***************************************************************************)
(* What stays.  With at most one snapshot a second a file is known by its  *)
(* second: it has been superseded once max_history later seconds have one. *)
(* That is so of every file that is gone, of every file a rotation still   *)
(* means to remove, and of every file a reader has listed and not found.   *)
(***************************************************************************)
Superseded(s) == Cardinality(Newer(s)) >= MaxHistory

DoomedAreSuperseded ==
  Distinct => \A p \in Writers : \A f \in todo[p] : Superseded(f.second)

ReadersHaveThem ==
  \A r \in Readers :
    \A f \in listed[r] :
      /\ f.nonce < created[f.second]
      /\ pc[r] = "read" /\ Distinct =>
           f \in todo[r] \/ f \in result[r] \/ Superseded(f.second)

NewestInv == CountInv /\ NewestKept /\ DoomedAreSuperseded /\ ReadersHaveThem

LEMMA InitNewest == Init => NewestInv
<1>1. Init => NewestKept /\ DoomedAreSuperseded /\ ReadersHaveThem
  BY DEF Init, NewestKept, DoomedAreSuperseded, ReadersHaveThem
<1>2. QED
  BY <1>1, InitCounts DEF NewestInv

\* Without a new file, nothing about the seconds changes.
LEMMA SecondsKept ==
  ASSUME created' = created
  PROVE  /\ Distinct' = Distinct
         /\ \A s \in Seconds : Newer(s)' = Newer(s) /\ Superseded(s)' = Superseded(s)
BY DEF Distinct, Newer, Superseded

\* With at most one snapshot a second a file has the number 0, and two files
\* of a second are one.
LEMMA OneFileASecond ==
  ASSUME CountInv, Distinct, NEW f \in Names, NEW g \in Names,
         f.nonce < created[f.second], g.nonce < created[g.second],
         f.second = g.second
  PROVE  f = g
<1>1. ASSUME NEW h \in Names, h.nonce < created[h.second]
      PROVE  h.nonce = 0
  <2>1. h.second \in Seconds /\ h.nonce \in Nat
    BY DEF Names
  <2>2. created[h.second] \in Nat /\ created[h.second] <= 1
    BY <2>1 DEF CountInv, TypeOK, Distinct
  <2>3. QED
    BY <1>1, <2>1, <2>2
<1>2. QED
  BY <1>1 DEF Names

\* A file that was there and is gone has been superseded.
LEMMA GoneAreSuperseded ==
  ASSUME NewestInv, Distinct, NEW f \in Names, f.nonce < created[f.second],
         f \notin Present
  PROVE  Superseded(f.second)
<1>1. created[f.second] > 0 /\ f.second \in Seconds
  BY DEF NewestInv, CountInv, TypeOK, Names
<1>2. ASSUME NEW g \in Present, g.second = f.second
      PROVE  FALSE
  BY <1>2, OneFileASecond DEF NewestInv, CountInv, Numbered, Present
<1>3. QED
  BY <1>1, <1>2 DEF NewestInv, NewestKept, Superseded

\* What a rotation removes has been superseded: each of the files it leaves
\* is of a later second.
LEMMA SurplusIsSuperseded ==
  ASSUME CountInv, Distinct, NEW some \in ToRemove(Present), NEW f \in some
  PROVE  Superseded(f.second)
<1> DEFINE Rest == Present \ some
           Second == [g \in Rest |-> g.second]
<1>1. some \subseteq Present /\ Cardinality(Rest) = MaxHistory /\ IsFiniteSet(Rest)
  BY RotationLeaves, PresentIsFinite
<1>2. f \in Names /\ f \in Present
  BY <1>1 DEF Present
<1>3. ASSUME NEW g \in Rest
      PROVE  g \in Names /\ g.second \in Newer(f.second)
  <2>1. g \in Names /\ g \in Present /\ g # f /\ f.second <= g.second
    BY DEF ToRemove, OldestOf, Present
  <2>2. f.nonce < created[f.second] /\ g.nonce < created[g.second]
    BY <1>2, <2>1 DEF CountInv, Numbered
  <2>3. f.second # g.second
    BY <1>2, <2>1, <2>2, OneFileASecond
  <2>4. QED
    BY <1>2, <2>1, <2>2, <2>3, BoundsAssumption DEF Newer, Names, Seconds, CountInv, TypeOK
<1>4. ASSUME NEW g \in Rest, NEW h \in Rest, g.second = h.second
      PROVE  g = h
  BY <1>3, <1>4, OneFileASecond DEF CountInv, Numbered
<1>5. Second \in Injection(Rest, Newer(f.second))
  BY <1>3, <1>4 DEF Injection, IsInjective
<1>6. IsFiniteSet(Newer(f.second)) /\ Cardinality(Newer(f.second)) \in Nat
  BY <1>2, NewerIsFinite DEF Names
<1> HIDE DEF Second, Rest
<1>7. Cardinality(Rest) <= Cardinality(Newer(f.second))
  BY <1>5, <1>6, FS_Injection
<1>8. QED
  BY <1>1, <1>6, <1>7, BoundsAssumption DEF Superseded

\* A new file supersedes, and keeps what was superseded so.
LEMMA CreateKeepsNewest ==
  ASSUME NewestInv, NEW p \in Writers, Create(p)
  PROVE  NewestKept' /\ DoomedAreSuperseded' /\ ReadersHaveThem'
<1> USE DEF NewestInv, CountInv
<1> DEFINE t == name[p].second
<1>1. /\ t \in Seconds /\ UNCHANGED <<todo, listed, result>>
      /\ created' = [created EXCEPT ![t] = created[t] + 1]
      /\ Present' = Present \cup {name[p]}
      /\ \A r \in Readers : pc'[r] = pc[r]
  <2>1. name[p] \in Names /\ p \notin Readers
    BY TasksAssumption DEF TypeOK
  <2>2. /\ dir' = [dir EXCEPT ![name[p]] = p] /\ p # NotFound
        /\ created' = [created EXCEPT ![t] = created[t] + 1]
        /\ pc' = [pc EXCEPT ![p] = "write"]
        /\ UNCHANGED <<todo, listed, result>>
    BY WritersAreMarks DEF Create, readers
  <2>3. Present' = Present \cup {name[p]}
    BY <2>1, <2>2 DEF Present, TypeOK
  <2>4. QED
    BY <2>1, <2>2, <2>3 DEF Names, TypeOK
<1>2. \A s \in Seconds :
        /\ created[s] \in Nat /\ created'[s] \in Nat /\ created[s] <= created'[s]
        /\ s # t => created'[s] = created[s]
  BY <1>1 DEF TypeOK
<1>3. Distinct' => Distinct
  BY <1>2 DEF Distinct
<1>4. ASSUME NEW s \in Seconds, Superseded(s)
      PROVE  Superseded(s)'
  <2>1. Newer(s) \subseteq Newer(s)'
    BY <1>2 DEF Newer
  <2>2. IsFiniteSet(Newer(s)') /\ Newer(s)' \subseteq Seconds
    <3>1. IsFiniteSet(Seconds) /\ Newer(s)' \subseteq Seconds
      BY BoundsAssumption, FS_Interval DEF Newer, Seconds
    <3>2. QED
      BY <3>1, FS_Subset
  <2>3. /\ Cardinality(Newer(s)) <= Cardinality(Newer(s)')
        /\ Cardinality(Newer(s)) \in Nat /\ Cardinality(Newer(s)') \in Nat
    BY <2>1, <2>2, NewerIsFinite, FS_Subset, FS_CardinalityType
  <2>4. QED
    BY <1>4, <2>3, BoundsAssumption DEF Superseded
<1>5. NewestKept'
  <2> SUFFICES ASSUME Distinct', NEW s \in Seconds, created'[s] > 0,
                      \A f \in Present' : f.second # s
               PROVE  Superseded(s)'
    BY DEF NewestKept, Superseded
  <2>1. s # t /\ created[s] > 0 /\ \A f \in Present : f.second # s
    BY <1>1, <1>2
  <2>2. QED
    BY <1>3, <1>4, <2>1 DEF NewestKept, Superseded
<1>6. DoomedAreSuperseded'
  BY <1>1, <1>3, <1>4 DEF DoomedAreSuperseded, TypeOK, Names
<1>7. ReadersHaveThem'
  <2> SUFFICES ASSUME NEW r \in Readers, NEW f \in listed[r]
               PROVE  /\ f.nonce < created'[f.second]
                      /\ pc[r] = "read" /\ Distinct' =>
                           f \in todo[r] \/ f \in result[r] \/ Superseded(f.second)'
    BY <1>1 DEF ReadersHaveThem
  <2>1. f.second \in Seconds /\ f.nonce \in Nat
    BY DEF TypeOK, Names
  <2>2. /\ f.nonce < created[f.second]
        /\ pc[r] = "read" /\ Distinct =>
             f \in todo[r] \/ f \in result[r] \/ Superseded(f.second)
    BY DEF ReadersHaveThem
  <2>3. f.nonce < created'[f.second]
    BY <1>2, <2>1, <2>2
  <2>4. QED
    BY <1>3, <1>4, <2>1, <2>2, <2>3
<1>8. QED
  BY <1>5, <1>6, <1>7

\* A step that creates no file, and removes none but what was superseded.
LEMMA NewestUntouched ==
  ASSUME NewestInv, created' = created,
         \A f \in Present : f \notin Present' /\ Distinct => Superseded(f.second)
  PROVE  NewestKept'
<1> SUFFICES ASSUME Distinct, NEW s \in Seconds, created[s] > 0,
                    \A f \in Present' : f.second # s
             PROVE  Superseded(s)
  BY SecondsKept DEF NewestKept, Superseded
<1>1. CASE \A f \in Present : f.second # s
  BY <1>1 DEF NewestInv, NewestKept, Superseded
<1>2. CASE \E f \in Present : f.second = s
  BY <1>2
<1>3. QED
  BY <1>1, <1>2

\* The other steps of a snapshot.
LEMMA WriterNewest ==
  ASSUME NewestInv, NEW p \in Writers, Snapshot(p) \/ Proceed(p) \/ Stop(p)
  PROVE  NewestKept' /\ DoomedAreSuperseded' /\ ReadersHaveThem'
<1> USE DEF NewestInv, CountInv
<1>1. CASE Create(p)
  BY <1>1, CreateKeepsNewest
<1> SUFFICES ASSUME ~Create(p)
             PROVE  NewestKept' /\ DoomedAreSuperseded' /\ ReadersHaveThem'
  BY <1>1
<1>2. created' = created /\ UNCHANGED readers
  BY DEF Snapshot, Proceed, Probe, Write, Rotate, Remove, Stop, ghosts
<1>3. \A r \in Readers : pc'[r] = pc[r] /\ todo'[r] = todo[r]
  BY TasksAssumption DEF Snapshot, Proceed, Probe, Write, Rotate, Remove, Stop,
     End, Leave, TypeOK
<1>4. ReadersHaveThem'
  <2>1. \A r \in Readers : \A f \in listed[r] : f.second \in Seconds
    BY DEF TypeOK, Names
  <2>2. QED
    BY <1>2, <1>3, <2>1, SecondsKept DEF ReadersHaveThem, readers
<1>5. \A q \in Writers : \A f \in todo[q] : f \in Names /\ f.second \in Seconds
  BY DEF TypeOK, Names
<1>6. CASE Snapshot(p) \/ Probe(p)
  <2>1. UNCHANGED <<dir, todo>>
    BY <1>6 DEF Snapshot, Probe
  <2>2. QED
    BY <1>2, <1>4, <1>5, <2>1, SecondsKept, NewestUntouched
    DEF DoomedAreSuperseded, Present
<1>7. CASE Write(p) \/ Stop(p)
  <2>1. Present' = Present
    BY <1>7, ContentOnly DEF Stop, Present
  <2>2. \A q \in Writers : todo'[q] \subseteq todo[q]
    BY <1>7 DEF Write, Stop, End, Leave, TypeOK
  <2>3. QED
    BY <1>2, <1>4, <1>5, <2>1, <2>2, SecondsKept, NewestUntouched
    DEF DoomedAreSuperseded
<1>8. CASE Rotate(p)
  <2>1. PICK some \in ToRemove(Present) :
          IF some = {} THEN End(p, "ok")
          ELSE /\ todo' = [todo EXCEPT ![p] = some]
               /\ pc' = [pc EXCEPT ![p] = "remove"]
               /\ UNCHANGED <<name, outcome>>
    BY <1>8 DEF Rotate
  <2>2. todo'[p] \subseteq some /\ \A q \in Writers \ {p} : todo'[q] = todo[q]
    BY <2>1 DEF End, Leave, TypeOK
  <2>3. \A f \in some : f.second \in Seconds /\ (Distinct => Superseded(f.second))
    BY SurplusIsSuperseded DEF ToRemove, Present, Names
  <2>4. DoomedAreSuperseded'
    BY <1>2, <1>5, <2>2, <2>3, SecondsKept DEF DoomedAreSuperseded
  <2>5. Present' = Present
    BY <1>8 DEF Rotate, Present
  <2>6. QED
    BY <1>2, <1>4, <2>4, <2>5, NewestUntouched
<1>9. CASE Remove(p)
  <2>1. PICK f \in Oldest(todo[p]) :
       /\ \/ dir' = [dir EXCEPT ![f] = NotFound] /\ UNCHANGED stuck
          \/ stuck' = TRUE /\ UNCHANGED dir
       /\ IF todo[p] = {f} THEN End(p, "ok")
          ELSE /\ todo' = [todo EXCEPT ![p] = @ \ {f}]
               /\ UNCHANGED <<pc, name, outcome>>
    BY <1>9 DEF Remove
  <2>2. f \in todo[p] /\ f \in Names
    BY DEF Oldest, TypeOK
  <2>3. \A g \in Present : g \notin Present' => g = f
    BY <2>1 DEF Present, TypeOK
  <2>4. \A q \in Writers : todo'[q] \subseteq todo[q]
    BY <2>1 DEF End, Leave, TypeOK
  <2>5. QED
    BY <1>2, <1>4, <1>5, <2>2, <2>3, <2>4, SecondsKept, NewestUntouched
    DEF DoomedAreSuperseded
<1>10. QED
  BY <1>6, <1>7, <1>8, <1>9 DEF Proceed

\* A reader finds each file or it has been superseded.
LEMMA ReaderNewest ==
  ASSUME NewestInv, NEW r \in Readers,
         ListHistory(r) \/ ReadFile(r) \/ ReadFails(r) \/ Return(r)
  PROVE  NewestKept' /\ DoomedAreSuperseded' /\ ReadersHaveThem'
<1> USE DEF NewestInv, CountInv
<1>1. /\ UNCHANGED <<dir, created>> /\ Present' = Present
      /\ \A p \in Writers : todo'[p] = todo[p]
      /\ \A q \in Readers \ {r} :
           /\ pc'[q] = pc[q] /\ todo'[q] = todo[q]
           /\ listed'[q] = listed[q] /\ result'[q] = result[q]
  BY ReaderStep DEF Present
<1>2. \A q \in Readers : \A f \in listed[q] : f \in Names /\ f.second \in Seconds
  BY DEF TypeOK, Names
<1>3. NewestKept' /\ DoomedAreSuperseded'
  <2>1. \A p \in Writers : \A f \in todo[p] : f.second \in Seconds
    BY DEF TypeOK, Names
  <2>2. QED
    BY <1>1, <2>1, SecondsKept, NewestUntouched DEF DoomedAreSuperseded
<1>4. ASSUME NEW f \in listed'[r]
      PROVE  /\ f.second \in Seconds
             /\ f.nonce < created[f.second]
             /\ pc'[r] = "read" /\ Distinct =>
                  f \in todo'[r] \/ f \in result'[r] \/ Superseded(f.second)
  <2>1. CASE ListHistory(r)
    <3>1. listed'[r] = Present /\ todo'[r] = Present
      BY <2>1 DEF ListHistory, TypeOK
    <3>2. QED
      BY <3>1 DEF Numbered, Present, Names
  <2>2. CASE ReadFile(r)
    <3>1. PICK g \in Oldest(todo[r]) :
            /\ todo' = [todo EXCEPT ![r] = After(r, g)]
            /\ result' = [result EXCEPT ![r] = IF g \in Present THEN @ \cup {g} ELSE @]
      BY <2>2 DEF ReadFile
    <3>2. /\ todo'[r] = todo[r] \ {g}
          /\ result'[r] = IF g \in Present THEN result[r] \cup {g} ELSE result[r]
      BY <3>1 DEF After, TypeOK
    <3>3. listed' = listed /\ pc' = pc /\ pc[r] = "read"
      BY <2>2 DEF ReadFile
    <3>4. f \in Names /\ f.second \in Seconds
      BY <1>2, <3>3
    <3>5. /\ f.nonce < created[f.second]
          /\ Distinct => f \in todo[r] \/ f \in result[r] \/ Superseded(f.second)
      BY <3>3 DEF ReadersHaveThem
    <3>6. f \notin Present /\ Distinct => Superseded(f.second)
      BY <3>4, <3>5, GoneAreSuperseded
    <3>7. QED
      BY <3>2, <3>4, <3>5, <3>6
  <2>3. CASE ReadFails(r) \/ Return(r)
    BY <2>3 DEF ReadFails, Return, Forget, TypeOK
  <2>4. QED
    BY <2>1, <2>2, <2>3
<1>5. ReadersHaveThem'
  BY <1>1, <1>2, <1>4, SecondsKept DEF ReadersHaveThem
<1>6. QED
  BY <1>3, <1>5

LEMMA NewestStep == NewestInv /\ [Next]_vars => NewestInv'
<1> SUFFICES ASSUME NewestInv, [Next]_vars
             PROVE  NewestKept' /\ DoomedAreSuperseded' /\ ReadersHaveThem'
  BY CountStep DEF NewestInv
<1>1. ASSUME NEW p \in Writers, Snapshot(p) \/ Proceed(p) \/ Stop(p)
      PROVE  NewestKept' /\ DoomedAreSuperseded' /\ ReadersHaveThem'
  BY <1>1, WriterNewest
<1>2. ASSUME NEW r \in Readers,
             ListHistory(r) \/ ReadFile(r) \/ ReadFails(r) \/ Return(r)
      PROVE  NewestKept' /\ DoomedAreSuperseded' /\ ReadersHaveThem'
  BY <1>2, ReaderNewest
<1>3. CASE Tick \/ UNCHANGED vars
  BY <1>3 DEF Tick, vars, readers, ghosts, NewestInv, NewestKept, Distinct, Newer,
     DoomedAreSuperseded, ReadersHaveThem, Superseded, Present
<1>4. QED
  BY <1>1, <1>2, <1>3 DEF Next

\* rotate_history: with at most one snapshot a second, no interleaving of
\* rotations with stale listings removes one of the max_history newest.
THEOREM NewestSnapshotsStay == Spec => []NewestKept
<1>1. NewestInv => NewestKept
  BY DEF NewestInv
<1>2. QED
  BY <1>1, InitNewest, NewestStep, PTL DEF Spec

\* SchemaCache::history: a reader that races rotations and returns has every
\* file it listed that no rotation may remove.
THEOREM NewestAreReported == Spec => NewestReported
<1> DEFINE Reported ==
      \A r \in Readers :
        Return(r) /\ Distinct =>
          \A f \in listed[r] :
            Cardinality(Newer(f.second)) < MaxHistory => f \in result[r]
<1>1. NewestInv => Reported
  <2> SUFFICES ASSUME NewestInv, NEW r \in Readers, Return(r), Distinct,
                      NEW f \in listed[r], Cardinality(Newer(f.second)) < MaxHistory
               PROVE  f \in result[r]
    OBVIOUS
  <2>1. f \in todo[r] \/ f \in result[r] \/ Superseded(f.second)
    BY DEF NewestInv, ReadersHaveThem, Return
  <2>2. Cardinality(Newer(f.second)) \in Nat
    BY NewerIsFinite DEF NewestInv, CountInv, TypeOK, Names
  <2>3. QED
    BY <2>1, <2>2, BoundsAssumption DEF Return, Superseded
<1>2. NewestInv /\ [Next]_vars => [Reported]_vars
  BY <1>1
<1>3. QED
  BY <1>2, InitNewest, NewestStep, PTL DEF Spec, NewestReported

(***************************************************************************)
(* Snapshots one at a time.  The name that was probed is still free when   *)
(* the file is created, so each adds one, and a rotation that removes      *)
(* leaves max_history.                                                     *)
(***************************************************************************)
OneAtATime == \A p, q \in Writers : pc[p] # "idle" /\ pc[q] # "idle" => p = q
FreeName == \A p \in Writers : pc[p] = "create" => name[p] \notin Present
RemovesSurplus ==
  \A p \in Writers :
    pc[p] = "remove" => Cardinality(Present \ todo[p]) >= MaxHistory
Apart == ~raced => OneAtATime /\ FreeName /\ RemovesSurplus

EnoughInv == CountInv /\ Apart /\ EnoughIsKept

LEMMA InitEnough == Init => EnoughInv
<1>1. ASSUME Init
      PROVE  Apart /\ EnoughIsKept
  <2>1. OneAtATime /\ FreeName /\ RemovesSurplus
    BY <1>1 DEF Init, OneAtATime, FreeName, RemovesSurplus
  <2>2. \A s \in Seconds : created[s] = 0
    BY <1>1 DEF Init
  <2>3. EnoughIsKept
    BY <2>2, BoundsAssumption DEF EnoughIsKept
  <2>4. QED
    BY <2>1, <2>3 DEF Apart
<1>2. QED
  BY <1>1, InitCounts DEF EnoughInv

LEMMA WriterEnough ==
  ASSUME EnoughInv, ~raced', NEW p \in Writers, Snapshot(p) \/ Proceed(p) \/ Stop(p)
  PROVE  OneAtATime' /\ FreeName' /\ RemovesSurplus' /\ EnoughIsKept'
<1> USE DEF EnoughInv, CountInv
<1>1. /\ ~raced /\ OneAtATime /\ FreeName /\ RemovesSurplus
      /\ \A q \in Writers \ {p} :
           pc'[q] = pc[q] /\ todo'[q] = todo[q] /\ name'[q] = name[q]
  BY DEF Apart, Snapshot, Proceed, Probe, Create, Write, Rotate, Remove, Stop,
     End, Leave, TypeOK, ghosts
<1>2. \A q \in Writers \ {p} : pc[q] = "idle"
  BY <1>1 DEF Snapshot, Proceed, Probe, Create, Write, Rotate, Remove, Stop,
     OneAtATime
<1>3. OneAtATime'
  BY <1>1, <1>2 DEF OneAtATime
\* A step that neither adds nor removes a file.
<1>4. ASSUME Present' = Present, created' = created
      PROVE  EnoughIsKept'
  BY <1>1, <1>4 DEF EnoughIsKept
<1>5. CASE Snapshot(p) \/ Probe(p)
  <2>1. /\ UNCHANGED <<dir, created>> /\ pc'[p] \in {"probe", "create"}
        /\ pc'[p] = "create" => name'[p] \notin Present
    BY <1>5 DEF Snapshot, Probe, ghosts, TypeOK
  <2>2. Present' = Present
    BY <2>1 DEF Present
  <2>3. QED
    BY <1>2, <1>1, <1>3, <1>4, <2>1, <2>2 DEF FreeName, RemovesSurplus
<1>6. CASE Create(p)
  <2> DEFINE t == name[p].second
  <2>1. /\ name[p] \in Names /\ t \in Seconds /\ name[p] \notin Present
        /\ created' = [created EXCEPT ![t] = created[t] + 1]
        /\ pc'[p] = "write" /\ Present' = Present \cup {name[p]}
    <3>1. name[p] \in Names /\ name[p] \notin Present
      BY <1>1, <1>6 DEF Create, TypeOK, FreeName
    <3>2. /\ dir' = [dir EXCEPT ![name[p]] = p] /\ p # NotFound
          /\ created' = [created EXCEPT ![t] = created[t] + 1]
          /\ pc' = [pc EXCEPT ![p] = "write"]
      BY <1>6, WritersAreMarks DEF Create
    <3>3. Present' = Present \cup {name[p]}
      BY <3>1, <3>2 DEF Present, TypeOK
    <3>4. QED
      BY <3>1, <3>2, <3>3 DEF Names, TypeOK
  <2>2. Cardinality(Present') = Cardinality(Present) + 1
    BY <2>1, PresentIsFinite, FS_AddElement
  <2>3. ASSUME NEW n \in 1 .. MaxHistory, NEW s \in Seconds, created'[s] >= n
        PROVE  Cardinality(Present') >= n
    <3>1. created[s] \in Nat /\ created[s] >= n - 1 /\ n \in Nat
      BY <2>1, <2>3, BoundsAssumption DEF TypeOK
    <3>2. CASE n = 1
      BY <2>2, <3>2, PresentIsFinite
    <3>3. CASE n # 1
      <4>1. n - 1 \in 1 .. MaxHistory
        BY <3>1, <3>3, BoundsAssumption
      <4>2. Cardinality(Present) >= n - 1
        BY <1>1, <3>1, <4>1 DEF EnoughIsKept
      <4>3. QED
        BY <2>2, <3>1, <4>2, PresentIsFinite
    <3>4. QED
      BY <3>2, <3>3
  <2>4. EnoughIsKept'
    BY <2>3 DEF EnoughIsKept
  <2>5. QED
    BY <1>2, <1>1, <1>3, <2>1, <2>4 DEF FreeName, RemovesSurplus
<1>7. CASE Write(p) \/ Stop(p)
  <2>1. /\ Present' = Present /\ created' = created
        /\ pc'[p] \in {"rotate", "idle"}
    <3>1. Present' = Present
      BY <1>7, ContentOnly DEF Stop, Present
    <3>2. QED
      BY <1>7, <3>1 DEF Write, Stop, End, Leave, TypeOK, ghosts
  <2>2. QED
    BY <1>2, <1>1, <1>3, <1>4, <2>1 DEF FreeName, RemovesSurplus
<1>8. CASE Rotate(p)
  <2>1. PICK some \in ToRemove(Present) :
          IF some = {} THEN End(p, "ok")
          ELSE /\ todo' = [todo EXCEPT ![p] = some]
               /\ pc' = [pc EXCEPT ![p] = "remove"]
               /\ UNCHANGED <<name, outcome>>
    BY <1>8 DEF Rotate
  <2>2. Present' = Present /\ created' = created
    BY <1>8 DEF Rotate, Present, ghosts
  <2>3. \/ pc'[p] = "idle"
        \/ pc'[p] = "remove" /\ todo'[p] = some /\ some # {}
    BY <2>1 DEF End, Leave, TypeOK
  <2>4. some # {} => Cardinality(Present \ some) >= MaxHistory
    BY RotationLeaves, BoundsAssumption
  <2>5. QED
    BY <1>2, <1>1, <1>3, <1>4, <2>2, <2>3, <2>4 DEF FreeName, RemovesSurplus
<1>9. CASE Remove(p)
  <2>1. PICK f \in Oldest(todo[p]) :
       /\ \/ dir' = [dir EXCEPT ![f] = NotFound] /\ UNCHANGED stuck
          \/ stuck' = TRUE /\ UNCHANGED dir
       /\ IF todo[p] = {f} THEN End(p, "ok")
          ELSE /\ todo' = [todo EXCEPT ![p] = @ \ {f}]
               /\ UNCHANGED <<pc, name, outcome>>
    BY <1>9 DEF Remove
  <2>2. f \in todo[p] /\ f \in Names /\ pc[p] = "remove" /\ created' = created
    BY <1>9 DEF Remove, Oldest, TypeOK
  <2>3. Present \ todo[p] \subseteq Present' /\ Present' \subseteq Present
    BY <2>1, <2>2 DEF Present, TypeOK
  <2>4. /\ pc'[p] \in {"idle", "remove"}
        /\ pc'[p] = "remove" => Present \ todo[p] \subseteq Present' \ todo'[p]
    BY <2>1, <2>2, <2>3 DEF End, Leave, TypeOK
  <2>5. ASSUME NEW some, Present \ todo[p] \subseteq some, some \subseteq Present
        PROVE  Cardinality(some) >= MaxHistory /\ Cardinality(some) \in Nat
    <3>1. Cardinality(Present \ todo[p]) >= MaxHistory
      BY <1>1, <2>2 DEF RemovesSurplus
    <3>2. IsFiniteSet(some) /\ Cardinality(some) \in Nat
      BY <2>5, PresentIsFinite
    <3>3. /\ Cardinality(Present \ todo[p]) <= Cardinality(some)
          /\ Cardinality(Present \ todo[p]) \in Nat
      BY <2>5, <3>2, FS_Subset, FS_CardinalityType
    <3>4. QED
      BY <3>1, <3>2, <3>3, BoundsAssumption
  <2>6. Cardinality(Present') >= MaxHistory /\ Cardinality(Present') \in Nat
    BY <2>3, <2>5
  <2>7. EnoughIsKept'
    BY <2>6, BoundsAssumption DEF EnoughIsKept
  <2>8. pc'[p] = "remove" => Cardinality(Present' \ todo'[p]) >= MaxHistory
    BY <2>3, <2>4, <2>5
  <2>9. QED
    BY <1>2, <1>1, <1>3, <2>4, <2>7, <2>8 DEF FreeName, RemovesSurplus
<1>10. QED
  BY <1>5, <1>6, <1>7, <1>8, <1>9 DEF Proceed

LEMMA EnoughStep == EnoughInv /\ [Next]_vars => EnoughInv'
<1> SUFFICES ASSUME EnoughInv, [Next]_vars
             PROVE  Apart' /\ EnoughIsKept'
  BY CountStep DEF EnoughInv
<1>1. ASSUME NEW p \in Writers, Snapshot(p) \/ Proceed(p) \/ Stop(p)
      PROVE  Apart' /\ EnoughIsKept'
  <2>1. CASE raced'
    BY <2>1 DEF Apart, EnoughIsKept
  <2>2. CASE ~raced'
    BY <1>1, <2>2, WriterEnough DEF Apart
  <2>3. QED
    BY <2>1, <2>2
<1>2. ASSUME NEW r \in Readers,
             ListHistory(r) \/ ReadFile(r) \/ ReadFails(r) \/ Return(r)
      PROVE  Apart' /\ EnoughIsKept'
  <2>1. /\ UNCHANGED <<dir, name, created, raced>>
        /\ \A p \in Writers : pc'[p] = pc[p] /\ todo'[p] = todo[p]
    BY <1>2, ReaderStep DEF EnoughInv, CountInv
  <2>2. Present' = Present
    BY <2>1 DEF Present
  <2>3. QED
    BY <2>1, <2>2 DEF EnoughInv, Apart, OneAtATime, FreeName, RemovesSurplus, EnoughIsKept
<1>3. CASE Tick \/ UNCHANGED vars
  <2>1. /\ UNCHANGED <<name, created, raced, pc, todo>> /\ Present' = Present
    BY <1>3 DEF Tick, vars, ghosts, Present
  <2>2. QED
    BY <2>1 DEF EnoughInv, Apart, OneAtATime, FreeName, RemovesSurplus, EnoughIsKept
<1>4. QED
  BY <1>1, <1>2, <1>3 DEF Next

\* snapshot and rotate_history: snapshots that do not overlap never remove
\* more than the surplus, however many of them a second has and in whatever
\* order the directory is listed.
THEOREM EnoughRemains == Spec => []EnoughIsKept
<1>1. EnoughInv => EnoughIsKept
  BY DEF EnoughInv
<1>2. QED
  BY <1>1, InitEnough, EnoughStep, PTL DEF Spec
=============================================================================
