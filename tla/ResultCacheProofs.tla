------------------------- MODULE ResultCacheProofs -------------------------
(***************************************************************************)
(* Proofs about ResultCache, for every set of keys, values and threads and *)
(* every capacity.  When clear runs only under an exclusive borrow: the    *)
(* capacity bound, the absence of orphans, at most one ghost of a key, and *)
(* the refinement of BoundedMap.  When it overlaps other calls: by how     *)
(* much the map can outgrow its capacity.                                  *)
(***************************************************************************)
EXTENDS ResultCache, FiniteSetTheorems, SequenceTheorems, TLAPS

QueuedIn(q) == {q[i] : i \in DOMAIN q}

(***************************************************************************)
(* What the two queue operations return.                                   *)
(***************************************************************************)

\* Removing a position leaves a queue of keys that holds every other key.
LEMMA WithoutAtProperties ==
  ASSUME order \in Seq(Keys), NEW i \in DOMAIN order
  PROVE  /\ WithoutAt(i) \in Seq(Keys)
         /\ Len(WithoutAt(i)) = Len(order) - 1
         /\ Queued \subseteq QueuedIn(WithoutAt(i)) \cup {order[i]}
         /\ QueuedIn(WithoutAt(i)) \subseteq Queued
<1>1. DOMAIN order = 1 .. Len(order) /\ Len(order) \in Nat /\ i \in 1 .. Len(order)
  BY LenProperties
<1>2. \A j \in 1 .. Len(order) : order[j] \in Keys
  BY ElementOfSeq
<1>3. WithoutAt(i) \in [1 .. Len(order) - 1 -> Keys]
  BY <1>1, <1>2 DEF WithoutAt
<1>4. WithoutAt(i) \in Seq(Keys) /\ Len(WithoutAt(i)) = Len(order) - 1
  <2>1. Len(order) - 1 \in Nat
    BY <1>1
  <2>2. WithoutAt(i) \in Seq(Keys)
    BY <1>3, <2>1, SeqDef
  <2>3. QED
    BY <1>3, <2>1, <2>2, LenProperties
<1>5. ASSUME NEW j \in 1 .. Len(order), j # i
      PROVE  order[j] \in QueuedIn(WithoutAt(i))
  <2>1. CASE j < i
    <3>1. j \in 1 .. Len(order) - 1 /\ WithoutAt(i)[j] = order[j]
      BY <1>1, <2>1 DEF WithoutAt
    <3>2. QED
      BY <1>3, <3>1 DEF QueuedIn
  <2>2. CASE j > i
    <3>1. j - 1 \in 1 .. Len(order) - 1 /\ WithoutAt(i)[j - 1] = order[j]
      BY <1>1, <2>2 DEF WithoutAt
    <3>2. QED
      BY <1>3, <3>1 DEF QueuedIn
  <2>3. QED
    BY <1>1, <1>5, <2>1, <2>2
<1>6. QueuedIn(WithoutAt(i)) \subseteq Queued
  BY <1>1, <1>3 DEF QueuedIn, Queued, WithoutAt
<1>7. QED
  BY <1>1, <1>4, <1>5, <1>6 DEF Queued

\* A push adds its key to the queue and nothing else.
LEMMA AppendQueued ==
  ASSUME NEW q \in Seq(Keys), NEW k \in Keys
  PROVE  /\ Append(q, k) \in Seq(Keys)
         /\ QueuedIn(Append(q, k)) = QueuedIn(q) \cup {k}
<1>1. /\ Append(q, k) \in Seq(Keys)
      /\ Len(Append(q, k)) = Len(q) + 1
      /\ \A i \in 1 .. Len(q) : Append(q, k)[i] = q[i]
      /\ Append(q, k)[Len(q) + 1] = k
  BY AppendProperties
<1>2. Len(q) \in Nat /\ DOMAIN q = 1 .. Len(q)
  BY LenProperties
<1>3. DOMAIN Append(q, k) = 1 .. Len(q) + 1
  BY <1>1, LenProperties
<1>4. QED
  BY <1>1, <1>2, <1>3 DEF QueuedIn

\* A promotion keeps every key of the queue and adds its own.
LEMMA PromotedProperties ==
  ASSUME order \in Seq(Keys), NEW k \in Keys, NEW new, Promoted(k, new)
  PROVE  new \in Seq(Keys) /\ QueuedIn(new) = Queued \cup {k}
<1>1. CASE k \notin Queued /\ new = Append(order, k)
  BY <1>1, AppendQueued DEF QueuedIn, Queued
<1>2. CASE \E i \in DOMAIN order : order[i] = k /\ new = Append(WithoutAt(i), k)
  <2>1. PICK i \in DOMAIN order : order[i] = k /\ new = Append(WithoutAt(i), k)
    BY <1>2
  <2>2. k \in Queued
    BY <2>1 DEF Queued
  <2>3. QED
    BY <2>1, <2>2, WithoutAtProperties, AppendQueued
<1>3. QED
  BY <1>1, <1>2 DEF Promoted

\* Popping n keys and pushing one keeps the keys behind the n-th.
LEMMA PushedAfterPopsProperties ==
  ASSUME order \in Seq(Keys), NEW n \in 0 .. Len(order), NEW k \in Keys
  PROVE  /\ PushedAfterPops(n, k) \in Seq(Keys)
         /\ Queued \subseteq
              QueuedIn(PushedAfterPops(n, k)) \cup {order[i] : i \in 1 .. n}
         /\ k \in QueuedIn(PushedAfterPops(n, k))
<1> DEFINE rest == SubSeq(order, n + 1, Len(order))
<1>1. Len(order) \in Nat /\ DOMAIN order = 1 .. Len(order)
  BY LenProperties
<1>2. \A i \in n + 1 .. Len(order) : order[i] \in Keys
  BY <1>1, ElementOfSeq
<1>3. /\ rest \in Seq(Keys)
      /\ Len(rest) = Len(order) - n
      /\ \A i \in 1 .. Len(order) - n : rest[i] = order[n + i]
  <2>1. n + 1 \in Int /\ Len(order) \in Int
    BY <1>1
  <2>2. /\ rest \in Seq(Keys)
        /\ Len(rest) = IF n + 1 <= Len(order) THEN Len(order) - (n + 1) + 1 ELSE 0
        /\ \A i \in 1 .. Len(order) - (n + 1) + 1 : rest[i] = order[n + 1 + i - 1]
    BY <1>2, <2>1, SubSeqProperties
  <2> HIDE DEF rest
  <2>3. Len(rest) = Len(order) - n
    <3>1. Len(rest) = IF n + 1 <= Len(order) THEN Len(order) - (n + 1) + 1 ELSE 0
      BY <2>2
    <3> DEFINE l == Len(order)
    <3>2. l \in Nat /\ n \in 0 .. l
      BY <1>1
    <3> HIDE DEF l
    <3>3. (IF n + 1 <= l THEN l - (n + 1) + 1 ELSE 0) = l - n
      BY <3>2
    <3>4. QED
      BY <3>1, <3>3 DEF l
  <2>4. ASSUME NEW i \in 1 .. Len(order) - n
        PROVE  rest[i] = order[n + i]
    <3>1. i \in 1 .. Len(order) - (n + 1) + 1 /\ n + 1 + i - 1 = n + i
      BY <1>1
    <3>2. QED
      BY <2>2, <3>1
  <2>5. QED
    BY <2>2, <2>3, <2>4
<1>4. ASSUME NEW i \in 1 .. Len(order), i > n
      PROVE  order[i] \in QueuedIn(rest)
  <2>1. i - n \in 1 .. Len(order) - n /\ order[i] = order[n + (i - n)]
    BY <1>1, <1>4
  <2>2. DOMAIN rest = 1 .. Len(order) - n
    BY <1>3, LenProperties
  <2> HIDE DEF rest
  <2>3. rest[i - n] = order[i]
    BY <1>3, <2>1
  <2>4. QED
    BY <2>1, <2>2, <2>3 DEF QueuedIn
<1>5. Queued \subseteq QueuedIn(rest) \cup {order[i] : i \in 1 .. n}
  <2> HIDE DEF rest
  <2>1. QED
    BY <1>1, <1>4 DEF Queued
<1>6. PushedAfterPops(n, k) = Append(rest, k)
  BY DEF PushedAfterPops
<1> HIDE DEF rest
<1>7. QED
  BY <1>3, <1>5, <1>6, AppendQueued

(***************************************************************************)
(* Type correctness.                                                       *)
(***************************************************************************)

\* The locals of a call in progress, which its later steps rely on.
CallInv ==
  \A t \in Threads :
    /\ pc[t] = "promote" => key[t] \in Keys
    /\ pc[t] = "put" => /\ key[t] \in Keys
                        /\ val[t] \in Values
                        /\ Capacity > 0
                        /\ entriesLock = t

Typed == TypeOK /\ CallInv

LEMMA InitTyped == Init => Typed
<1>1. << >> \in Seq(Keys)
  BY EmptySeq
<1>2. QED
  BY <1>1 DEF Init, Typed, TypeOK, CallInv

\* What a put leaves behind, whichever branch it takes.
LEMMA PutReplaceTyped ==
  ASSUME Typed, NEW t \in Threads, PutReplace(t)
  PROVE  Typed'
<1>1. key[t] \in Keys /\ val[t] \in Values
  BY DEF Typed, CallInv, PutReplace
<1>2. order' \in Seq(Keys)
  BY <1>1, PromotedProperties DEF PutReplace, Typed, TypeOK
<1>3. entries' \in [Keys -> Values \cup {None}]
  BY <1>1 DEF PutReplace, Replaced, Typed, TypeOK
<1>4. TypeOK'
  BY <1>2, <1>3 DEF PutReplace, Return, Typed, TypeOK
<1>5. CallInv'
  BY NoneAssumption DEF PutReplace, Return, Typed, TypeOK, CallInv
<1>6. QED
  BY <1>4, <1>5 DEF Typed

LEMMA PutInsertTyped ==
  ASSUME Typed, NEW t \in Threads, PutInsert(t)
  PROVE  Typed'
<1>1. key[t] \in Keys /\ val[t] \in Values
  BY DEF Typed, CallInv, PutInsert
<1>2. PICK n \in 0 .. Len(order) :
        /\ entries' = [k \in Keys |-> IF k = key[t] THEN val[t]
                                      ELSE IF k \in Surviving(n) THEN entries[k]
                                      ELSE None]
        /\ order' = PushedAfterPops(n, key[t])
  BY DEF PutInsert
<1>3. order' \in Seq(Keys)
  BY <1>1, <1>2, PushedAfterPopsProperties DEF Typed, TypeOK
<1>4. entries' \in [Keys -> Values \cup {None}]
  BY <1>1, <1>2 DEF Typed, TypeOK
<1>5. TypeOK'
  BY <1>3, <1>4 DEF PutInsert, Return, Typed, TypeOK
<1>6. CallInv'
  BY NoneAssumption DEF PutInsert, Return, Typed, TypeOK, CallInv
<1>7. QED
  BY <1>5, <1>6 DEF Typed

LEMMA NextTyped == Typed /\ [Next]_vars => Typed'
<1> SUFFICES ASSUME Typed, [Next]_vars
             PROVE  Typed'
  OBVIOUS
<1>1. ASSUME NEW t \in Threads, NEW k \in Keys, GetMiss(t, k)
      PROVE  Typed'
  BY <1>1 DEF GetMiss, Typed, TypeOK, CallInv
<1>2. ASSUME NEW t \in Threads, NEW k \in Keys, GetHit(t, k)
      PROVE  Typed'
  BY <1>2 DEF GetHit, MayStart, Typed, TypeOK, CallInv
<1>3. ASSUME NEW t \in Threads, GetPromote(t)
      PROVE  Typed'
  <2>1. order' \in Seq(Keys)
    BY <1>3, PromotedProperties DEF GetPromote, Typed, TypeOK, CallInv
  <2>2. QED
    BY <1>3, <2>1 DEF GetPromote, Return, Typed, TypeOK, CallInv
<1>4. ASSUME NEW t \in Threads, NEW k \in Keys, NEW v \in Values, PutLock(t, k, v)
      PROVE  Typed'
  BY <1>4, NoneAssumption DEF PutLock, MayStart, Typed, TypeOK, CallInv
<1>5. ASSUME NEW t \in Threads, ClearEntries(t)
      PROVE  Typed'
  BY <1>5 DEF ClearEntries, MayClear, Typed, TypeOK, CallInv
<1>6. ASSUME NEW t \in Threads, ClearOrder(t)
      PROVE  Typed'
  BY <1>6, EmptySeq DEF ClearOrder, Return, Typed, TypeOK, CallInv
<1>7. CASE UNCHANGED vars
  BY <1>7 DEF vars, Typed, TypeOK, CallInv
<1>8. QED
  BY <1>1, <1>2, <1>3, <1>4, <1>5, <1>6, <1>7, PutReplaceTyped, PutInsertTyped
     DEF Next, Finish

\* Every variable keeps its type: the queue holds keys, the map values, and
\* a call in progress a key.
THEOREM TypeCorrect == Spec => []TypeOK
<1>1. Typed => TypeOK
  BY DEF Typed
<1>2. QED
  BY <1>1, InitTyped, NextTyped, PTL DEF Spec

(***************************************************************************)
(* The capacity bound, when refresh and invalidate are the only callers of *)
(* clear: nobody else is inside the memo while they run.                   *)
(*                                                                         *)
(* CapacityBound is not inductive alone: an eviction makes room only if    *)
(* the queue leads it to a cached key, which is NoOrphan; and ClearOrder   *)
(* keeps NoOrphan only because the map is still empty when it runs.        *)
(***************************************************************************)
AloneInClear ==
  \A t, u \in Threads : pc[t] = "clear" /\ pc[u] # "idle" => u = t

EmptyInClear == Clearing => Cached = {}

BoundInv == Typed /\ AloneInClear /\ EmptyInClear /\ NoOrphan /\ CapacityBound

LEMMA InitBoundInv == Init => BoundInv
<1> SUFFICES ASSUME Init PROVE BoundInv
  OBVIOUS
<1>1. Cached = {}
  BY DEF Init, Cached
<1>2. CapacityBound
  BY <1>1, FS_EmptySet, CapacityAssumption DEF CapacityBound
<1>3. QED
  BY <1>1, <1>2, InitTyped DEF BoundInv, AloneInClear, EmptyInClear, NoOrphan, Init

\* What is left of the map after n pops is finite and no larger than before.
LEMMA SurvivingFinite ==
  ASSUME NEW n \in Nat
  PROVE  /\ IsFiniteSet(Surviving(n))
         /\ Cardinality(Surviving(n)) \in Nat
<1>1. Surviving(n) \subseteq Keys
  BY DEF Surviving, Cached
<1>2. QED
  BY <1>1, FiniteKeysAssumption, FS_Subset, FS_CardinalityType

\* The eviction loop always ends with room for one more key.
LEMMA EvictionMakesRoom ==
  ASSUME BoundInv, Capacity > 0, NEW n \in 0 .. Len(order), EvictionStops(n)
  PROVE  Cardinality(Surviving(n)) < Capacity
<1>1. Len(order) \in Nat /\ DOMAIN order = 1 .. Len(order)
  BY LenProperties DEF BoundInv, Typed, TypeOK
<1>2. CASE n = Len(order)
  <2>1. Surviving(n) = {}
    BY <1>1, <1>2 DEF Surviving, BoundInv, NoOrphan, Queued
  <2>2. QED
    BY <2>1, FS_EmptySet, CapacityAssumption
<1>3. QED
  BY <1>2 DEF EvictionStops

LEMMA PutInsertBound ==
  ASSUME BoundInv, NEW t \in Threads, PutInsert(t)
  PROVE  BoundInv'
<1>1. key[t] \in Keys /\ val[t] \in Values /\ Capacity > 0
  BY DEF BoundInv, Typed, CallInv, PutInsert
<1>2. PICK n \in 0 .. Len(order) :
        /\ EvictionStops(n)
        /\ entries' = [k \in Keys |-> IF k = key[t] THEN val[t]
                                      ELSE IF k \in Surviving(n) THEN entries[k]
                                      ELSE None]
        /\ order' = PushedAfterPops(n, key[t])
  BY DEF PutInsert
<1>3. Len(order) \in Nat /\ n \in Nat
  BY LenProperties DEF BoundInv, Typed, TypeOK
<1>4. Cached' = Surviving(n) \cup {key[t]}
  BY <1>1, <1>2, NoneAssumption DEF Cached, Surviving
<1>5. NoOrphan'
  <2>1. /\ Queued \subseteq Queued' \cup {order[i] : i \in 1 .. n}
        /\ key[t] \in Queued'
    <3>1. QueuedIn(order') = Queued'
      BY DEF QueuedIn, Queued
    <3>2. order \in Seq(Keys)
      BY DEF BoundInv, Typed, TypeOK
    <3>3. QED
      BY <1>1, <1>2, <3>1, <3>2, PushedAfterPopsProperties
  <2>2. QED
    BY <1>4, <2>1 DEF NoOrphan, BoundInv, Surviving
<1>6. CapacityBound'
  <2>1. Cardinality(Surviving(n)) < Capacity
    BY <1>1, <1>2, EvictionMakesRoom
  <2>2. /\ IsFiniteSet(Surviving(n))
        /\ Cardinality(Surviving(n)) \in Nat
    BY <1>3, SurvivingFinite
  <2>3. Cardinality(Surviving(n) \cup {key[t]}) =
          IF key[t] \in Surviving(n) THEN Cardinality(Surviving(n))
                                     ELSE Cardinality(Surviving(n)) + 1
    BY <2>2, FS_AddElement
  <2>4. Cardinality(Surviving(n) \cup {key[t]}) <= Capacity
    BY <2>1, <2>2, <2>3, CapacityAssumption
  <2>5. QED
    BY <1>4, <2>4 DEF CapacityBound
<1>7. AloneInClear' /\ EmptyInClear'
  <2>1. pc[t] = "put" /\ pc' = [pc EXCEPT ![t] = "idle"]
    BY DEF PutInsert, Return
  <2>2. \A u \in Threads : pc[u] # "clear"
    BY <2>1 DEF BoundInv, AloneInClear
  <2>3. QED
    BY <2>1, <2>2 DEF AloneInClear, EmptyInClear, Clearing, BoundInv, Typed, TypeOK
<1>8. Typed'
  BY PutInsertTyped DEF BoundInv
<1>9. QED
  BY <1>5, <1>6, <1>7, <1>8 DEF BoundInv

LEMMA PutReplaceBound ==
  ASSUME BoundInv, NEW t \in Threads, PutReplace(t)
  PROVE  BoundInv'
<1>1. key[t] \in Keys /\ val[t] \in Values
  BY DEF BoundInv, Typed, CallInv, PutReplace
<1>2. Cached' = Cached
  BY <1>1, NoneAssumption DEF PutReplace, Replaced, Cached, BoundInv, Typed, TypeOK
<1>3. Queued' = Queued \cup {key[t]}
  <2>1. QueuedIn(order') = Queued'
    BY DEF QueuedIn, Queued
  <2>2. order \in Seq(Keys) /\ Promoted(key[t], order')
    BY DEF PutReplace, BoundInv, Typed, TypeOK
  <2>3. QED
    BY <1>1, <2>1, <2>2, PromotedProperties
<1>4. NoOrphan' /\ CapacityBound'
  BY <1>2, <1>3 DEF NoOrphan, CapacityBound, BoundInv
<1>5. AloneInClear' /\ EmptyInClear'
  <2>1. pc' = [pc EXCEPT ![t] = "idle"]
    BY DEF PutReplace, Return
  <2>2. QED
    BY <1>2, <2>1 DEF AloneInClear, EmptyInClear, Clearing, BoundInv, Typed, TypeOK
<1>6. Typed'
  BY PutReplaceTyped DEF BoundInv
<1>7. QED
  BY <1>4, <1>5, <1>6 DEF BoundInv

LEMMA NextBoundInv ==
  ASSUME SharedClear = FALSE, BoundInv, [Next]_vars
  PROVE  BoundInv'
<1>1. Typed'
  BY NextTyped DEF BoundInv
<1>2. ASSUME NEW t \in Threads, NEW k \in Keys, GetMiss(t, k)
      PROVE  BoundInv'
  BY <1>1, <1>2 DEF GetMiss, BoundInv, AloneInClear, EmptyInClear, Clearing, NoOrphan,
                    CapacityBound, Cached, Queued
<1>3. ASSUME NEW t \in Threads, entries' = entries, order' = order, MayStart(t),
             pc' = [pc EXCEPT ![t] = "promote"] \/ pc' = [pc EXCEPT ![t] = "put"]
      PROVE  BoundInv'
  <2>1. \A u \in Threads : pc[u] # "clear" /\ pc'[u] # "clear"
    BY <1>3 DEF MayStart, BoundInv, Typed, TypeOK
  <2>2. AloneInClear' /\ EmptyInClear'
    BY <2>1 DEF AloneInClear, EmptyInClear, Clearing
  <2>3. NoOrphan' /\ CapacityBound'
    BY <1>3 DEF NoOrphan, CapacityBound, Cached, Queued, BoundInv
  <2>4. QED
    BY <1>1, <2>2, <2>3 DEF BoundInv
<1>4. ASSUME NEW t \in Threads, GetPromote(t)
      PROVE  BoundInv'
  <2>1. Queued \subseteq Queued' /\ Cached' = Cached
    <3>1. QueuedIn(order') = Queued'
      BY DEF QueuedIn, Queued
    <3>2. order \in Seq(Keys) /\ key[t] \in Keys /\ Promoted(key[t], order')
      BY <1>4 DEF GetPromote, BoundInv, Typed, TypeOK, CallInv
    <3>3. Queued \subseteq Queued'
      BY <3>1, <3>2, PromotedProperties
    <3>4. QED
      BY <1>4, <3>3 DEF GetPromote, Cached
  <2>2. pc' = [pc EXCEPT ![t] = "idle"]
    BY <1>4 DEF GetPromote, Return
  <2>3. AloneInClear' /\ EmptyInClear'
    BY <2>1, <2>2 DEF AloneInClear, EmptyInClear, Clearing, BoundInv, Typed, TypeOK
  <2>4. QED
    BY <1>1, <2>1, <2>3 DEF NoOrphan, CapacityBound, BoundInv
<1>5. ASSUME NEW t \in Threads, ClearEntries(t)
      PROVE  BoundInv'
  <2>1. Cached' = {}
    BY <1>5 DEF ClearEntries, Cached
  <2>2. CapacityBound' /\ NoOrphan' /\ EmptyInClear'
    BY <2>1, FS_EmptySet, CapacityAssumption
       DEF CapacityBound, NoOrphan, EmptyInClear
  <2>3. AloneInClear'
    BY <1>5 DEF ClearEntries, MayClear, AloneInClear, BoundInv, Typed, TypeOK
  <2>4. QED
    BY <1>1, <2>2, <2>3 DEF BoundInv
<1>6. ASSUME NEW t \in Threads, ClearOrder(t)
      PROVE  BoundInv'
  <2>1. Cached = {} /\ Cached' = {}
    BY <1>6 DEF ClearOrder, BoundInv, EmptyInClear, Clearing, Cached
  <2>2. pc' = [pc EXCEPT ![t] = "idle"]
    BY <1>6 DEF ClearOrder, Return
  <2>3. AloneInClear' /\ EmptyInClear'
    BY <2>1, <2>2 DEF AloneInClear, EmptyInClear, BoundInv, Typed, TypeOK
  <2>4. QED
    BY <1>1, <2>1, <2>3 DEF BoundInv, NoOrphan, CapacityBound
<1>7. CASE UNCHANGED vars
  BY <1>1, <1>7 DEF vars, BoundInv, AloneInClear, EmptyInClear, Clearing, NoOrphan,
                    CapacityBound, Cached, Queued
<1>8. ASSUME NEW t \in Threads, NEW k \in Keys, GetHit(t, k)
      PROVE  BoundInv'
  BY <1>3, <1>8 DEF GetHit
<1>9. ASSUME NEW t \in Threads, NEW k \in Keys, NEW v \in Values, PutLock(t, k, v)
      PROVE  BoundInv'
  BY <1>3, <1>9 DEF PutLock
<1>10. QED
  BY <1>2, <1>4, <1>5, <1>6, <1>7, <1>8, <1>9, PutReplaceBound, PutInsertBound
     DEF Next, Finish

\* For every capacity and any number of callers, the map stays within the
\* capacity, as long as no clear overlaps another call.
THEOREM ExclusiveClearBounds == SharedClear = FALSE => (Spec => []CapacityBound)
<1> SUFFICES ASSUME SharedClear = FALSE PROVE Spec => []CapacityBound
  OBVIOUS
<1>1. BoundInv /\ [Next]_vars => BoundInv'
  BY NextBoundInv
<1>2. BoundInv => CapacityBound
  BY DEF BoundInv
<1>3. QED
  BY <1>1, <1>2, InitBoundInv, PTL DEF Spec

\* And every cached key stays within the eviction's reach: none waits in the
\* map for the next clear.
THEOREM CachedKeysAreQueued == SharedClear = FALSE => (Spec => []NoOrphan)
<1> SUFFICES ASSUME SharedClear = FALSE PROVE Spec => []NoOrphan
  OBVIOUS
<1>1. BoundInv /\ [Next]_vars => BoundInv'
  BY NextBoundInv
<1>2. BoundInv => NoOrphan
  BY DEF BoundInv
<1>3. QED
  BY <1>1, <1>2, InitBoundInv, PTL DEF Spec

(***************************************************************************)
(* Ghosts.  Positions of equal keys are compared in pairs and in threes:   *)
(* two positions of one key need a cached key, three are never of one key. *)
(***************************************************************************)
PairsCached(q, cached) ==
  \A i, j \in DOMAIN q : i # j /\ q[i] = q[j] => q[i] \in cached

NoTriples(q) ==
  \A i, j, l \in DOMAIN q :
    i # j /\ j # l /\ i # l /\ q[i] = q[j] => q[l] # q[i]

FewGhosts(q, cached) == PairsCached(q, cached) /\ NoTriples(q)

\* Where the elements of a queue are after one is pushed.
LEMMA AppendPositions ==
  ASSUME NEW q \in Seq(Keys), NEW k \in Keys
  PROVE  /\ Append(q, k)[Len(q) + 1] = k
         /\ \A a \in DOMAIN Append(q, k) :
              a # Len(q) + 1 => a \in DOMAIN q /\ Append(q, k)[a] = q[a]
<1>1. /\ Append(q, k) \in Seq(Keys)
      /\ Len(Append(q, k)) = Len(q) + 1
      /\ \A i \in 1 .. Len(q) : Append(q, k)[i] = q[i]
      /\ Append(q, k)[Len(q) + 1] = k
  BY AppendProperties
<1>2. Len(q) \in Nat /\ DOMAIN q = 1 .. Len(q)
  BY LenProperties
<1>3. DOMAIN Append(q, k) = 1 .. Len(q) + 1
  BY <1>1, LenProperties
<1>4. QED
  BY <1>1, <1>2, <1>3

\* A key that is not queued is no ghost when it is pushed.
LEMMA AppendFewGhosts ==
  ASSUME NEW q \in Seq(Keys), NEW k \in Keys, NEW cached,
         FewGhosts(q, cached), k \notin QueuedIn(q)
  PROVE  FewGhosts(Append(q, k), cached)
<1> DEFINE new == Append(q, k)
           last == Len(q) + 1
<1>1. /\ new[last] = k
      /\ \A a \in DOMAIN new : a # last => a \in DOMAIN q /\ new[a] = q[a] /\ new[a] # k
  BY AppendPositions DEF QueuedIn
<1> HIDE DEF new, last
<1>2. PairsCached(new, cached)
  BY <1>1 DEF PairsCached, FewGhosts
<1>3. NoTriples(new)
  BY <1>1 DEF NoTriples, FewGhosts
<1>4. QED
  BY <1>2, <1>3 DEF FewGhosts, new

\* Removing a position moves what is behind it by one.
LEMMA WithoutAtPositions ==
  ASSUME order \in Seq(Keys), NEW i \in DOMAIN order
  PROVE  \E f \in [DOMAIN WithoutAt(i) -> DOMAIN order \ {i}] :
           /\ \A a \in DOMAIN WithoutAt(i) : WithoutAt(i)[a] = order[f[a]]
           /\ \A a, b \in DOMAIN WithoutAt(i) : a # b => f[a] # f[b]
<1>1. DOMAIN order = 1 .. Len(order) /\ Len(order) \in Nat
  BY LenProperties
<1>2. DOMAIN WithoutAt(i) = 1 .. Len(order) - 1
  BY DEF WithoutAt
<1> DEFINE f == [a \in 1 .. Len(order) - 1 |-> IF a < i THEN a ELSE a + 1]
<1>3. f \in [DOMAIN WithoutAt(i) -> DOMAIN order \ {i}]
  BY <1>1, <1>2
<1>4. \A a \in DOMAIN WithoutAt(i) : WithoutAt(i)[a] = order[f[a]]
  BY <1>2 DEF WithoutAt
<1>5. \A a, b \in DOMAIN WithoutAt(i) : a # b => f[a] # f[b]
  BY <1>1, <1>2
<1>6. QED
  BY <1>3, <1>4, <1>5

\* A promotion makes no ghost.
LEMMA PromotedFewGhosts ==
  ASSUME order \in Seq(Keys), NEW k \in Keys, NEW new, Promoted(k, new),
         NEW cached, FewGhosts(order, cached)
  PROVE  FewGhosts(new, cached)
<1>1. CASE k \notin Queued /\ new = Append(order, k)
  BY <1>1, AppendFewGhosts DEF QueuedIn, Queued
<1>2. CASE \E i \in DOMAIN order : order[i] = k /\ new = Append(WithoutAt(i), k)
  <2>1. PICK i \in DOMAIN order : order[i] = k /\ new = Append(WithoutAt(i), k)
    BY <1>2
  <2>2. WithoutAt(i) \in Seq(Keys)
    BY <2>1, WithoutAtProperties
  <2>3. PICK f \in [DOMAIN WithoutAt(i) -> DOMAIN order \ {i}] :
          /\ \A a \in DOMAIN WithoutAt(i) : WithoutAt(i)[a] = order[f[a]]
          /\ \A a, b \in DOMAIN WithoutAt(i) : a # b => f[a] # f[b]
    BY WithoutAtPositions
  <2> DEFINE last == Len(WithoutAt(i)) + 1
             g == [a \in DOMAIN new |-> IF a = last THEN i ELSE f[a]]
  <2>4. \A a \in DOMAIN new : a # last =>
          a \in DOMAIN WithoutAt(i) /\ new[a] = WithoutAt(i)[a]
    BY <2>1, <2>2, AppendPositions
  <2>5. new[last] = k
    BY <2>1, <2>2, AppendPositions
  <2> HIDE DEF last
  <2>6. \A a \in DOMAIN new : g[a] \in DOMAIN order /\ new[a] = order[g[a]]
    BY <2>1, <2>3, <2>4, <2>5
  <2>7. \A a, b \in DOMAIN new : a # b => g[a] # g[b]
    BY <2>3, <2>4
  <2> HIDE DEF g
  <2>8. PairsCached(new, cached)
    BY <2>6, <2>7 DEF PairsCached, FewGhosts
  <2>9. NoTriples(new)
    BY <2>6, <2>7 DEF NoTriples, FewGhosts
  <2>10. QED
    BY <2>8, <2>9 DEF FewGhosts
<1>3. QED
  BY <1>1, <1>2 DEF Promoted

\* Where the elements are after n pops and a push.
LEMMA PushedAfterPopsPositions ==
  ASSUME order \in Seq(Keys), NEW n \in 0 .. Len(order), NEW k \in Keys
  PROVE  LET new == PushedAfterPops(n, k)
             last == Len(order) - n + 1
         IN  /\ new[last] = k
             /\ \A a \in DOMAIN new : a # last =>
                  /\ a \in Nat
                  /\ n + a \in DOMAIN order
                  /\ n + a > n
                  /\ new[a] = order[n + a]
<1> DEFINE rest == SubSeq(order, n + 1, Len(order))
<1>1. Len(order) \in Nat /\ DOMAIN order = 1 .. Len(order)
  BY LenProperties
<1>2. \A i \in n + 1 .. Len(order) : order[i] \in Keys
  BY <1>1, ElementOfSeq
<1>3. /\ rest \in Seq(Keys)
      /\ Len(rest) = IF n + 1 <= Len(order) THEN Len(order) - (n + 1) + 1 ELSE 0
      /\ \A i \in 1 .. Len(order) - (n + 1) + 1 : rest[i] = order[n + 1 + i - 1]
  <2>1. n + 1 \in Int /\ Len(order) \in Int
    BY <1>1
  <2>2. QED
    BY <1>2, <2>1, SubSeqProperties
<1>4. PushedAfterPops(n, k) = Append(rest, k)
  BY DEF PushedAfterPops
<1> HIDE DEF rest
<1> DEFINE l == Len(order)
<1>5. l \in Nat /\ n \in 0 .. l
  BY <1>1
<1>6. (IF n + 1 <= l THEN l - (n + 1) + 1 ELSE 0) = l - n
  <2> HIDE DEF l
  <2>1. QED
    BY <1>5
<1>7. Len(rest) = l - n /\ DOMAIN rest = 1 .. l - n
  BY <1>3, <1>6, LenProperties
<1>8. \A i \in 1 .. l - n : rest[i] = order[n + i]
  <2>1. ASSUME NEW i \in 1 .. l - n
        PROVE  i \in 1 .. l - (n + 1) + 1 /\ n + 1 + i - 1 = n + i
    <3> HIDE DEF l
    <3>1. QED
      BY <1>5
  <2>2. QED
    BY <1>3, <2>1
<1>9. /\ Append(rest, k)[l - n + 1] = k
      /\ \A a \in DOMAIN Append(rest, k) :
           a # l - n + 1 => a \in DOMAIN rest /\ Append(rest, k)[a] = rest[a]
  BY <1>3, <1>7, AppendPositions
<1>10. \A a \in 1 .. l - n : a \in Nat /\ n + a \in 1 .. l /\ n + a > n
  <2> HIDE DEF l
  <2>1. QED
    BY <1>5
<1>11. QED
  BY <1>1, <1>4, <1>7, <1>8, <1>9, <1>10

\* An eviction of a key that is queued twice makes its second entry a ghost,
\* the only one of its key.
LEMMA PushedFewGhosts ==
  ASSUME order \in Seq(Keys), NEW n \in 0 .. Len(order), NEW k \in Keys,
         FewGhosts(order, Cached), k \notin Cached
  PROVE  FewGhosts(PushedAfterPops(n, k), Surviving(n) \cup {k})
<1> DEFINE new == PushedAfterPops(n, k)
           last == Len(order) - n + 1
<1>1. /\ new[last] = k
      /\ \A a \in DOMAIN new : a # last =>
           a \in Nat /\ n + a \in DOMAIN order /\ n + a > n /\ new[a] = order[n + a]
  BY PushedAfterPopsPositions
<1>2. /\ 1 .. n \subseteq DOMAIN order
      /\ n \in Nat
  BY LenProperties
<1> HIDE DEF new, last
<1>3. \A a, b \in DOMAIN new : a # last /\ b # last /\ a # b => n + a # n + b
  BY <1>1, <1>2
<1>4. \A a \in DOMAIN new : \A i \in 1 .. n : a # last => n + a # i
  BY <1>1, <1>2
<1>5. ASSUME NEW a \in DOMAIN new, NEW b \in DOMAIN new, a # b, new[a] = new[b],
             a # last, b # last
      PROVE  new[a] \in Surviving(n)
  <2>1. new[a] \in Cached
    BY <1>1, <1>3, <1>5 DEF FewGhosts, PairsCached
  <2>2. \A i \in 1 .. n : order[i] # new[a]
    BY <1>1, <1>2, <1>3, <1>4, <1>5 DEF FewGhosts, NoTriples
  <2>3. QED
    BY <2>1, <2>2 DEF Surviving
<1>6. PairsCached(new, Surviving(n) \cup {k})
  BY <1>1, <1>5 DEF PairsCached
<1>7. \A a, b \in DOMAIN new :
        a # b /\ new[a] = new[b] /\ a # last /\ b # last => new[a] # k
  BY <1>5 DEF Surviving
<1>8. NoTriples(new)
  <2> SUFFICES ASSUME NEW a \in DOMAIN new, NEW b \in DOMAIN new, NEW c \in DOMAIN new,
                      a # b, b # c, a # c, new[a] = new[b], new[c] = new[a]
               PROVE  FALSE
    BY DEF NoTriples
  <2>1. CASE a = last \/ b = last \/ c = last
    BY <1>1, <1>7, <2>1
  <2>2. CASE a # last /\ b # last /\ c # last
    BY <1>1, <1>3, <2>2 DEF FewGhosts, NoTriples
  <2>3. QED
    BY <2>1, <2>2
<1>9. QED
  BY <1>6, <1>8 DEF FewGhosts, new

\* Between the halves of an exclusive clear nothing is said of the queue.
GhostInv == BoundInv /\ (~Clearing => FewGhosts(order, Cached))

LEMMA GhostsAreFew == GhostInv => OneGhostPerKey
<1> SUFFICES ASSUME GhostInv, ~Clearing, NEW i \in DOMAIN order, NEW j \in DOMAIN order,
                    i < j, order[i] = order[j]
             PROVE  /\ order[i] \in Cached
                    /\ \A l \in DOMAIN order : order[l] = order[i] => l \in {i, j}
  BY DEF OneGhostPerKey
<1>1. DOMAIN order = 1 .. Len(order) /\ Len(order) \in Nat
  BY LenProperties DEF GhostInv, BoundInv, Typed, TypeOK
<1>2. i # j
  BY <1>1
<1>3. QED
  BY <1>2 DEF GhostInv, FewGhosts, PairsCached, NoTriples

LEMMA NextGhostInv ==
  ASSUME SharedClear = FALSE, GhostInv, [Next]_vars
  PROVE  GhostInv'
<1>1. BoundInv'
  BY NextBoundInv DEF GhostInv
<1> SUFFICES ASSUME ~Clearing' PROVE FewGhosts(order', Cached')
  BY <1>1 DEF GhostInv
<1> USE DEF GhostInv, BoundInv, Typed
<1>2. ASSUME NEW t \in Threads, GetPromote(t) \/ PutReplace(t) \/ PutInsert(t)
      PROVE  ~Clearing /\ key[t] \in Keys /\ order \in Seq(Keys)
  BY <1>2 DEF GetPromote, PutReplace, PutInsert, AloneInClear, Clearing, CallInv, TypeOK
<1>3. CASE \E t \in Threads : GetPromote(t)
  <2>1. PICK t \in Threads : GetPromote(t)
    BY <1>3
  <2>2. Promoted(key[t], order') /\ Cached' = Cached
    BY <2>1 DEF GetPromote, Cached
  <2>3. QED
    BY <1>2, <2>1, <2>2, PromotedFewGhosts
<1>4. CASE \E t \in Threads : PutReplace(t)
  <2>1. PICK t \in Threads : PutReplace(t)
    BY <1>4
  <2>2. Cached' = Cached
    BY <2>1, NoneAssumption DEF PutReplace, Replaced, Cached, CallInv, TypeOK
  <2>3. Promoted(key[t], order')
    BY <2>1 DEF PutReplace
  <2>4. QED
    BY <1>2, <2>1, <2>2, <2>3, PromotedFewGhosts
<1>5. CASE \E t \in Threads : PutInsert(t)
  <2>1. PICK t \in Threads : PutInsert(t)
    BY <1>5
  <2>2. PICK n \in 0 .. Len(order) :
          /\ entries' = [k \in Keys |-> IF k = key[t] THEN val[t]
                                        ELSE IF k \in Surviving(n) THEN entries[k]
                                        ELSE None]
          /\ order' = PushedAfterPops(n, key[t])
    BY <2>1 DEF PutInsert
  <2>3. key[t] \notin Cached /\ val[t] \in Values
    BY <2>1 DEF PutInsert, Cached, CallInv
  <2>4. Cached' = Surviving(n) \cup {key[t]}
    BY <1>2, <2>1, <2>2, <2>3, NoneAssumption DEF Cached, Surviving
  <2>5. FewGhosts(order, Cached)
    BY <1>2, <2>1
  <2>6. FewGhosts(PushedAfterPops(n, key[t]), Surviving(n) \cup {key[t]})
    BY <1>2, <2>1, <2>3, <2>5, PushedFewGhosts
  <2>7. QED
    BY <2>2, <2>4, <2>6
<1>6. CASE \E t \in Threads : ClearEntries(t)
  BY <1>6 DEF ClearEntries, Clearing, TypeOK
<1>7. CASE \E t \in Threads : ClearOrder(t)
  <2>1. order' = << >>
    BY <1>7 DEF ClearOrder
  <2>2. DOMAIN << >> = {}
    OBVIOUS
  <2>3. QED
    BY <2>1, <2>2 DEF FewGhosts, PairsCached, NoTriples
<1>8. CASE UNCHANGED <<entries, order>>
           /\ (UNCHANGED pc \/ \E t \in Threads : pc[t] = "idle" /\ \A u \in Threads \ {t} : pc'[u] = pc[u])
  <2>1. ~Clearing
    BY <1>8 DEF Clearing
  <2>2. QED
    BY <1>8, <2>1 DEF Cached
<1>9. CASE \E t \in Threads : \/ \E k \in Keys : GetMiss(t, k) \/ GetHit(t, k)
                              \/ \E k \in Keys, v \in Values : PutLock(t, k, v)
  BY <1>8, <1>9 DEF GetMiss, GetHit, PutLock, MayStart, TypeOK
<1>10. CASE UNCHANGED vars
  BY <1>8, <1>10 DEF vars
<1>11. QED
  BY <1>3, <1>4, <1>5, <1>6, <1>7, <1>9, <1>10 DEF Next, Finish

\* However gets race with evictions, a key is queued at most twice, and twice
\* only while it is cached: the queue cannot grow beyond what the map and one
\* ghost for each key account for.
THEOREM GhostsStaySingle == SharedClear = FALSE => (Spec => []OneGhostPerKey)
<1> SUFFICES ASSUME SharedClear = FALSE PROVE Spec => []OneGhostPerKey
  OBVIOUS
<1>1. Init => GhostInv
  <2>1. Init => FewGhosts(order, Cached)
    BY DEF Init, FewGhosts, PairsCached, NoTriples
  <2>2. QED
    BY <2>1, InitBoundInv DEF GhostInv
<1>2. GhostInv /\ [Next]_vars => GhostInv'
  BY NextGhostInv
<1>3. QED
  BY <1>1, <1>2, GhostsAreFew, PTL DEF Spec

(***************************************************************************)
(* Clears that overlap other calls.  A key that was put between the halves *)
(* of a clear is cached and, after the second half, not queued: an orphan, *)
(* which no eviction reaches.  A put can exceed the capacity only beside   *)
(* orphans, and each time by one; and orphans are made only by the second  *)
(* half of a clear, of which there are at most as many as threads between  *)
(* two first halves, which empty the map.                                  *)
(***************************************************************************)
InClear == {t \in Threads : pc[t] = "clear"}

Orphans == Cached \ Queued

OverrunInv ==
  /\ Typed
  /\ Cached # {} =>
       Cardinality(Cached) + Cardinality(InClear) < Capacity + Cardinality(Threads)
  /\ Orphans # {} =>
       Cardinality(Orphans) + Cardinality(InClear) + 1 < Capacity + Cardinality(Threads)

\* The sets that are counted are finite.
LEMMA OverrunCounts ==
  ASSUME IsFiniteSet(Threads)
  PROVE  /\ IsFiniteSet(Cached) /\ Cardinality(Cached) \in Nat
         /\ IsFiniteSet(Orphans) /\ Cardinality(Orphans) \in Nat
         /\ IsFiniteSet(InClear) /\ Cardinality(InClear) \in Nat
         /\ Cardinality(Threads) \in Nat
<1>1. Cached \subseteq Keys /\ Orphans \subseteq Keys /\ InClear \subseteq Threads
  BY DEF Cached, Orphans, InClear
<1>2. QED
  BY <1>1, FiniteKeysAssumption, FS_Subset, FS_CardinalityType

\* A step that adds no key, no orphan and no clear.
LEMMA FewerCounts ==
  ASSUME IsFiniteSet(Threads), OverrunInv,
         Cached' \subseteq Cached, Orphans' \subseteq Orphans, InClear' \subseteq InClear,
         Typed'
  PROVE  OverrunInv'
<1>1. /\ Cardinality(Cached') \in Nat /\ Cardinality(Cached') <= Cardinality(Cached)
      /\ Cardinality(Orphans') \in Nat /\ Cardinality(Orphans') <= Cardinality(Orphans)
      /\ Cardinality(InClear') \in Nat /\ Cardinality(InClear') <= Cardinality(InClear)
  BY OverrunCounts, FS_Subset, FS_CardinalityType
<1>2. (Cached' # {} => Cached # {}) /\ (Orphans' # {} => Orphans # {})
  OBVIOUS
<1>3. QED
  BY <1>1, <1>2, OverrunCounts, CapacityAssumption DEF OverrunInv

\* Where the keys are after a put that evicts.
LEMMA PutInsertPlaces ==
  ASSUME Typed, NEW t \in Threads, PutInsert(t)
  PROVE  \E n \in 0 .. Len(order) :
           /\ EvictionStops(n)
           /\ Cached' = Surviving(n) \cup {key[t]}
           /\ Orphans' \subseteq Orphans
<1>1. key[t] \in Keys /\ val[t] \in Values /\ order \in Seq(Keys)
  BY DEF Typed, TypeOK, CallInv, PutInsert
<1>2. PICK n \in 0 .. Len(order) :
        /\ EvictionStops(n)
        /\ entries' = [k \in Keys |-> IF k = key[t] THEN val[t]
                                      ELSE IF k \in Surviving(n) THEN entries[k]
                                      ELSE None]
        /\ order' = PushedAfterPops(n, key[t])
  BY DEF PutInsert
<1>3. Cached' = Surviving(n) \cup {key[t]}
  BY <1>1, <1>2, NoneAssumption DEF Cached, Surviving
<1>4. /\ Queued \subseteq Queued' \cup {order[i] : i \in 1 .. n}
      /\ key[t] \in Queued'
  <2>1. QueuedIn(order') = Queued'
    BY DEF QueuedIn, Queued
  <2>2. QED
    BY <1>1, <1>2, <2>1, PushedAfterPopsProperties
<1>5. Orphans' \subseteq Orphans
  BY <1>3, <1>4 DEF Orphans, Surviving
<1>6. QED
  BY <1>2, <1>3, <1>5

LEMMA PutInsertOverrun ==
  ASSUME IsFiniteSet(Threads), OverrunInv, NEW t \in Threads, PutInsert(t)
  PROVE  OverrunInv'
<1>1. PICK n \in 0 .. Len(order) :
        /\ EvictionStops(n)
        /\ Cached' = Surviving(n) \cup {key[t]}
        /\ Orphans' \subseteq Orphans
  BY PutInsertPlaces DEF OverrunInv
<1>2. Typed' /\ Capacity > 0 /\ order \in Seq(Keys)
  BY PutInsertTyped DEF OverrunInv, Typed, TypeOK, CallInv, PutInsert
<1>3. InClear' = InClear /\ t \notin InClear
  BY DEF PutInsert, Return, InClear, OverrunInv, Typed, TypeOK
<1>4. Cardinality(InClear) + 1 <= Cardinality(Threads)
  <2>1. InClear \cup {t} \subseteq Threads
    BY DEF InClear
  <2>2. Cardinality(InClear \cup {t}) = Cardinality(InClear) + 1
    BY <1>3, OverrunCounts, FS_AddElement
  <2>3. QED
    BY <2>1, <2>2, FS_Subset
<1>5. /\ IsFiniteSet(Surviving(n)) /\ Cardinality(Surviving(n)) \in Nat
  <2>1. n \in Nat
    BY <1>2, LenProperties
  <2>2. QED
    BY <2>1, SurvivingFinite
<1>6. Cardinality(Cached') \in Nat /\ Cardinality(Cached') <= Cardinality(Surviving(n)) + 1
  <2>1. Cardinality(Surviving(n) \cup {key[t]}) =
          IF key[t] \in Surviving(n) THEN Cardinality(Surviving(n))
                                     ELSE Cardinality(Surviving(n)) + 1
    BY <1>5, FS_AddElement
  <2>2. QED
    BY <1>1, <1>5, <2>1
<1>7. \/ Cardinality(Surviving(n)) < Capacity
      \/ Surviving(n) = Orphans
  <2>1. CASE n = Len(order)
    <3>1. {order[i] : i \in 1 .. n} = Queued
      BY <1>2, <2>1, LenProperties DEF Queued
    <3>2. QED
      BY <3>1 DEF Surviving, Orphans
  <2>2. QED
    BY <1>1, <2>1 DEF EvictionStops
<1>8. \/ Cardinality(Surviving(n)) < Capacity
      \/ Cardinality(Surviving(n)) + Cardinality(InClear) + 1 < Capacity + Cardinality(Threads)
  <2>1. CASE Surviving(n) = Orphans /\ Orphans # {}
    BY <2>1 DEF OverrunInv
  <2>2. CASE Surviving(n) = {}
    BY <1>2, <2>2, FS_EmptySet, CapacityAssumption
  <2>3. QED
    BY <1>7, <2>1, <2>2
<1>9. Cardinality(Cached') + Cardinality(InClear) < Capacity + Cardinality(Threads)
  BY <1>4, <1>5, <1>6, <1>8, OverrunCounts, CapacityAssumption, SMTT(60)
<1>10. Orphans' # {} =>
         Cardinality(Orphans') + Cardinality(InClear) + 1 < Capacity + Cardinality(Threads)
  <2>1. Cardinality(Orphans') \in Nat /\ Cardinality(Orphans') <= Cardinality(Orphans)
    BY <1>1, OverrunCounts, FS_Subset, FS_CardinalityType
  <2>2. QED
    BY <1>1, <2>1, OverrunCounts, CapacityAssumption DEF OverrunInv
<1>11. QED
  BY <1>2, <1>3, <1>9, <1>10 DEF OverrunInv

LEMMA NextOverrun ==
  ASSUME IsFiniteSet(Threads), OverrunInv, [Next]_vars
  PROVE  OverrunInv'
<1>1. Typed'
  BY NextTyped DEF OverrunInv
<1> USE DEF OverrunInv, Typed, TypeOK
<1>2. ASSUME NEW t \in Threads, GetPromote(t) \/ PutReplace(t)
      PROVE  OverrunInv'
  <2>1. /\ order \in Seq(Keys) /\ key[t] \in Keys /\ Promoted(key[t], order')
        /\ pc[t] # "clear"
    BY <1>2 DEF GetPromote, PutReplace, CallInv
  <2>2. Queued \subseteq Queued'
    <3>1. QueuedIn(order') = Queued'
      BY DEF QueuedIn, Queued
    <3>2. QED
      BY <2>1, <3>1, PromotedProperties
  <2>3. Cached' = Cached
    <3>1. CASE GetPromote(t)
      BY <3>1 DEF GetPromote, Cached
    <3>2. CASE PutReplace(t)
      BY <3>2, NoneAssumption DEF PutReplace, Replaced, Cached, CallInv
    <3>3. QED
      BY <1>2, <3>1, <3>2
  <2>4. InClear' = InClear
    BY <1>2, <2>1 DEF GetPromote, PutReplace, Return, InClear
  <2>5. QED
    BY <1>1, <2>2, <2>3, <2>4, FewerCounts DEF Orphans
<1>3. ASSUME NEW t \in Threads, ClearEntries(t)
      PROVE  OverrunInv'
  <2>1. Cached' = {}
    BY <1>3 DEF ClearEntries, Cached
  <2>2. QED
    BY <1>1, <2>1 DEF Orphans
<1>4. ASSUME NEW t \in Threads, ClearOrder(t)
      PROVE  OverrunInv'
  <2>1. Cached' = Cached
    BY <1>4 DEF ClearOrder, Cached
  <2>2. InClear' = InClear \ {t} /\ t \in InClear
    BY <1>4 DEF ClearOrder, Return, InClear
  <2>3. Cardinality(InClear') = Cardinality(InClear) - 1
    BY <2>2, OverrunCounts, FS_RemoveElement
  <2>4. Orphans' \subseteq Cached
    BY <2>1 DEF Orphans
  <2>5. Cardinality(Orphans') \in Nat /\ Cardinality(Orphans') <= Cardinality(Cached)
    BY <2>4, OverrunCounts, FS_Subset, FS_CardinalityType
  <2>6. Orphans' # {} => Cached # {}
    BY <2>4
  <2>7. QED
    BY <1>1, <2>1, <2>3, <2>5, <2>6, OverrunCounts, CapacityAssumption, SMTT(60)
<1>5. ASSUME NEW t \in Threads, NEW k \in Keys, GetMiss(t, k) \/ GetHit(t, k)
      PROVE  OverrunInv'
  <2>1. Cached' = Cached /\ Orphans' = Orphans /\ InClear' = InClear
    BY <1>5 DEF GetMiss, GetHit, MayStart, Cached, Queued, Orphans, InClear
  <2>2. QED
    BY <1>1, <2>1, FewerCounts
<1>6. ASSUME NEW t \in Threads, NEW k \in Keys, NEW v \in Values, PutLock(t, k, v)
      PROVE  OverrunInv'
  <2>1. Cached' = Cached /\ Orphans' = Orphans /\ InClear' = InClear
    BY <1>6 DEF PutLock, MayStart, Cached, Queued, Orphans, InClear
  <2>2. QED
    BY <1>1, <2>1, FewerCounts
<1>7. CASE UNCHANGED vars
  <2>1. Cached' = Cached /\ Orphans' = Orphans /\ InClear' = InClear
    BY <1>7 DEF vars, Cached, Queued, Orphans, InClear
  <2>2. QED
    BY <1>1, <2>1, FewerCounts
<1>8. QED
  BY <1>2, <1>3, <1>4, <1>5, <1>6, <1>7, PutInsertOverrun DEF Next, Finish

\* Whoever calls clear, and whatever it overlaps: the map holds fewer results
\* than its capacity and the number of callers together.
THEOREM OverrunIsBounded ==
  IsFiniteSet(Threads) /\ Threads # {} => (Spec => []OverrunBounded)
<1> SUFFICES ASSUME IsFiniteSet(Threads), Threads # {} PROVE Spec => []OverrunBounded
  OBVIOUS
<1>1. Init => OverrunInv
  <2>1. Init => Cached = {} /\ Orphans = {}
    BY DEF Init, Cached, Orphans
  <2>2. QED
    BY <2>1, InitTyped DEF OverrunInv
<1>2. OverrunInv /\ [Next]_vars => OverrunInv'
  BY NextOverrun
<1>3. OverrunInv => OverrunBounded
  <2> SUFFICES ASSUME OverrunInv PROVE OverrunBounded
    OBVIOUS
  <2>1. CASE Cached # {}
    BY <2>1, OverrunCounts, CapacityAssumption DEF OverrunInv, OverrunBounded
  <2>2. CASE Cached = {}
    <3>1. Cardinality(Cached) = 0 /\ Cardinality(Threads) # 0
      BY <2>2, FS_EmptySet
    <3>2. QED
      BY <3>1, OverrunCounts, CapacityAssumption DEF OverrunBounded
  <2>3. QED
    BY <2>1, <2>2
<1>4. QED
  BY <1>1, <1>2, <1>3, PTL DEF Spec

(***************************************************************************)
(* The refinement.  Every step of the two structures is a step of one map, *)
(* or none of its business: an eviction drops one key, and only when the   *)
(* map is full.                                                            *)
(***************************************************************************)

\* The abstract map counts as the memo does.
LEMMA SameCount ==
  ASSUME NEW S
  PROVE  Shared!Cardinality(S) = Cardinality(S)
BY DEF Shared!Cardinality, Cardinality

\* What the last pop of an eviction took, if it took a cached key.
LEMMA EvictionTakesOne ==
  ASSUME BoundInv, NEW t \in Threads, NEW n \in 0 .. Len(order),
         pc[t] = "put", EvictionStops(n), \A m \in 0 .. n - 1 : ~EvictionStops(m)
  PROVE  \/ Cardinality(Cached) < Capacity /\ Surviving(n) = Cached
         \/ /\ Cardinality(Cached) = Capacity
            /\ \E victim \in Cached : Surviving(n) = Cached \ {victim}
<1> USE DEF BoundInv, Typed
<1>1. Capacity > 0 /\ Capacity \in Nat /\ n \in Nat /\ Len(order) \in Nat
  BY CapacityAssumption, LenProperties DEF CallInv, TypeOK
<1>2. IsFiniteSet(Cached) /\ Cardinality(Cached) \in Nat
  <2>1. Cached \subseteq Keys
    BY DEF Cached
  <2>2. QED
    BY <2>1, FiniteKeysAssumption, FS_Subset, FS_CardinalityType
<1>3. Surviving(0) = Cached
  BY DEF Surviving
<1>4. CASE n = 0
  <2>1. Cardinality(Cached) < Capacity
    BY <1>1, <1>3, <1>4, EvictionMakesRoom
  <2>2. QED
    BY <1>3, <1>4, <2>1
<1>5. CASE n # 0
  <2>1. 0 \in 0 .. n - 1 /\ n - 1 \in 0 .. n - 1
    BY <1>1, <1>5
  <2>2. /\ ~(Cardinality(Cached) < Capacity)
        /\ ~(Cardinality(Surviving(n - 1)) < Capacity)
    BY <1>3, <2>1 DEF EvictionStops
  <2>3. Cardinality(Cached) = Capacity
    BY <1>1, <1>2, <2>2 DEF CapacityBound
  <2>4. Surviving(n - 1) = Cached
    <3>1. Surviving(n - 1) \subseteq Cached
      BY DEF Surviving
    <3>2. Cardinality(Surviving(n - 1)) \in Nat
      BY <1>2, <3>1, FS_Subset, FS_CardinalityType
    <3>3. Cardinality(Surviving(n - 1)) <= Cardinality(Cached)
      BY <1>2, <3>1, FS_Subset
    <3>4. Cardinality(Surviving(n - 1)) = Cardinality(Cached)
      BY <1>1, <2>2, <2>3, <3>2, <3>3
    <3>5. QED
      BY <1>2, <3>1, <3>4, FS_Subset
  <2>5. 1 .. n = (1 .. n - 1) \cup {n}
    BY <1>1, <1>5
  <2>6. Surviving(n) = Cached \ {order[n]}
    BY <2>4, <2>5 DEF Surviving
  <2>7. Cardinality(Surviving(n)) < Capacity
    BY <1>1, EvictionMakesRoom
  <2>8. order[n] \in Cached
    <3>1. Surviving(n) # Cached
      BY <1>1, <2>3, <2>7
    <3>2. QED
      BY <2>6, <3>1
  <2>9. QED
    BY <2>3, <2>6, <2>8
<1>6. QED
  BY <1>4, <1>5

LEMMA PutInsertRefines ==
  ASSUME BoundInv, NEW t \in Threads, PutInsert(t)
  PROVE  Shared!Put(t)
<1>1. /\ pc[t] = "put" /\ key[t] \in Keys /\ val[t] \in Values
      /\ entries[key[t]] = None
      /\ entries \in [Keys -> Values \cup {None}]
  BY DEF BoundInv, Typed, TypeOK, CallInv, PutInsert
<1>2. PICK n \in 0 .. Len(order) :
        /\ EvictionStops(n)
        /\ \A m \in 0 .. n - 1 : ~EvictionStops(m)
        /\ entries' = [k \in Keys |-> IF k = key[t] THEN val[t]
                                      ELSE IF k \in Surviving(n) THEN entries[k]
                                      ELSE None]
  BY DEF PutInsert
<1>3. \/ Cardinality(Cached) < Capacity /\ Surviving(n) = Cached
      \/ /\ Cardinality(Cached) = Capacity
         /\ \E victim \in Cached : Surviving(n) = Cached \ {victim}
  BY <1>1, <1>2, EvictionTakesOne
<1>4. Cached = Shared!Held
  BY DEF Cached, Shared!Held
<1>5. Shared!PutWithRoom(key[t], val[t]) \/ Shared!PutEvicting(key[t], val[t])
  <2>1. CASE Cardinality(Cached) < Capacity /\ Surviving(n) = Cached
    <3>1. entries' = [entries EXCEPT ![key[t]] = val[t]]
      BY <1>1, <1>2, <2>1 DEF Cached
    <3>2. Shared!Cardinality(Shared!Held) < Capacity
      BY <1>4, <2>1, SameCount
    <3>3. Shared!PutWithRoom(key[t], val[t])
      BY <3>1, <3>2 DEF Shared!PutWithRoom
    <3>4. QED
      BY <3>3
  <2>2. CASE /\ Cardinality(Cached) = Capacity
             /\ \E victim \in Cached : Surviving(n) = Cached \ {victim}
    <3>1. PICK victim \in Cached : Surviving(n) = Cached \ {victim}
      BY <2>2
    <3>2. victim # key[t] /\ victim \in Keys
      BY <1>1, <3>1 DEF Cached
    <3>3. entries' = [entries EXCEPT ![key[t]] = val[t], ![victim] = None]
      BY <1>1, <1>2, <3>1, <3>2 DEF Cached
    <3>4. Shared!Cardinality(Shared!Held) = Capacity /\ victim \in Shared!Held
      BY <1>4, <2>2, SameCount
    <3>5. Shared!PutEvicting(key[t], val[t])
      BY <1>1, <3>3, <3>4 DEF Shared!PutEvicting
    <3>6. QED
      BY <3>5
  <2>3. QED
    BY <1>3, <2>1, <2>2
<1>6. Asked[t] = <<key[t], val[t]>> /\ Asked[t] # None
  BY <1>1, NoneAssumption DEF Asked
<1>7. Asked' = [Asked EXCEPT ![t] = None] /\ got' = got
  BY DEF PutInsert, Return, Asked, BoundInv, Typed, TypeOK
<1>8. QED
  BY <1>5, <1>6, <1>7 DEF Shared!Put

LEMMA StepRefines ==
  ASSUME SharedClear = FALSE, BoundInv, [Next]_vars
  PROVE  [Shared!Next]_(Shared!vars)
<1> USE DEF BoundInv, Typed, TypeOK
<1>1. ASSUME NEW t \in Threads, NEW k \in Keys, GetMiss(t, k)
      PROVE  Shared!Get(t, k)
  <2>1. entries[k] = None
    <3>1. CASE Capacity = 0
      <4>1. IsFiniteSet(Cached) /\ Cardinality(Cached) \in Nat
        <5>1. Cached \subseteq Keys
          BY DEF Cached
        <5>2. QED
          BY <5>1, FiniteKeysAssumption, FS_Subset, FS_CardinalityType
      <4>2. Cardinality(Cached) = 0
        BY <3>1, <4>1 DEF CapacityBound
      <4>3. Cached = {}
        BY <4>1, <4>2, FS_EmptySet
      <4>4. QED
        BY <4>3 DEF Cached
    <3>2. QED
      BY <1>1, <3>1 DEF GetMiss
  <2>2. QED
    BY <1>1, <2>1 DEF GetMiss, Asked, Shared!Get
<1>2. ASSUME NEW t \in Threads, NEW k \in Keys, GetHit(t, k)
      PROVE  Shared!Get(t, k)
  BY <1>2 DEF GetHit, MayStart, Asked, Shared!Get
<1>3. ASSUME NEW t \in Threads, GetPromote(t) \/ ClearOrder(t)
      PROVE  UNCHANGED Shared!vars
  BY <1>3 DEF GetPromote, ClearOrder, Return, Asked, Shared!vars
<1>4. ASSUME NEW t \in Threads, NEW k \in Keys, NEW v \in Values, PutLock(t, k, v)
      PROVE  Shared!Ask(t, k, v)
  BY <1>4 DEF PutLock, MayStart, Asked, Shared!Ask
<1>5. ASSUME NEW t \in Threads, PutReplace(t)
      PROVE  Shared!Put(t)
  <2>1. Shared!PutWithRoom(key[t], val[t])
    BY <1>5 DEF PutReplace, Replaced, Shared!PutWithRoom
  <2>2. Asked[t] = <<key[t], val[t]>> /\ Asked[t] # None
    BY <1>5, NoneAssumption DEF PutReplace, Asked, CallInv
  <2>3. Asked' = [Asked EXCEPT ![t] = None] /\ got' = got
    BY <1>5 DEF PutReplace, Return, Asked
  <2>4. QED
    BY <2>1, <2>2, <2>3 DEF Shared!Put
<1>6. ASSUME NEW t \in Threads, ClearEntries(t)
      PROVE  Shared!Clear
  BY <1>6 DEF ClearEntries, MayClear, Asked, Shared!Clear
<1>7. CASE UNCHANGED vars
  BY <1>7 DEF vars, Asked, Shared!vars
<1>8. ASSUME NEW t \in Threads, PutInsert(t)
      PROVE  Shared!Put(t)
  BY <1>8, PutInsertRefines
<1>9. QED
  BY <1>1, <1>2, <1>3, <1>4, <1>5, <1>6, <1>7, <1>8 DEF Next, Finish, Shared!Next

\* To callers that share it, and whatever their calls interleave with, the
\* memo is one map in which each call is atomic and which drops a key only to
\* make room for another.
THEOREM MemoIsABoundedMap == SharedClear = FALSE => (Spec => ImplementsBoundedMap)
<1> SUFFICES ASSUME SharedClear = FALSE PROVE Spec => ImplementsBoundedMap
  OBVIOUS
<1>1. Init => Shared!Init
  BY DEF Init, Asked, Shared!Init
<1>2. BoundInv /\ [Next]_vars => BoundInv'
  BY NextBoundInv
<1>3. BoundInv /\ [Next]_vars => [Shared!Next]_(Shared!vars)
  BY StepRefines
<1>4. QED
  BY <1>1, <1>2, <1>3, InitBoundInv, PTL DEF Spec, ImplementsBoundedMap, Shared!Spec

(***************************************************************************)
(* Proof that ResultCache, called by one thread, implements LruQueue, for  *)
(* every set of keys and values and every capacity.                        *)
(***************************************************************************)

OneCaller == \E t \in Threads : Threads = {t}

Distinct(q) == \A i, j \in DOMAIN q : q[i] = q[j] => i = j

\* The entries a recency queue and a map make together.
View(q, m) == [i \in DOMAIN q |-> [key |-> q[i], value |-> m[q[i]]]]

(***************************************************************************)
(* The view of a queue that is appended to, shortened or reordered.        *)
(***************************************************************************)
LEMMA ViewIsASequence ==
  ASSUME NEW q \in Seq(Keys), NEW m, \A i \in DOMAIN q : m[q[i]] \in Values
  PROVE  /\ View(q, m) \in Seq(Sequential!Entry)
         /\ Len(View(q, m)) = Len(q)
         /\ DOMAIN View(q, m) = 1 .. Len(q)
         /\ \A i \in 1 .. Len(q) : View(q, m)[i] = [key |-> q[i], value |-> m[q[i]]]
<1>1. Len(q) \in Nat /\ DOMAIN q = 1 .. Len(q)
  BY LenProperties
<1>2. \A i \in 1 .. Len(q) : q[i] \in Keys
  BY ElementOfSeq
<1>3. View(q, m) \in [1 .. Len(q) -> Sequential!Entry]
  BY <1>1, <1>2 DEF View, Sequential!Entry
<1>4. View(q, m) \in Seq(Sequential!Entry)
  BY <1>1, <1>3, SeqDef
<1>5. Len(View(q, m)) = Len(q)
  BY <1>1, <1>3, <1>4, LenProperties
<1>6. QED
  BY <1>1, <1>3, <1>4, <1>5 DEF View

\* Two maps that agree on the queued keys make the same entries of them.
LEMMA ViewOfTheSame ==
  ASSUME NEW q, NEW m, NEW m2, \A i \in DOMAIN q : m2[q[i]] = m[q[i]]
  PROVE  View(q, m2) = View(q, m)
BY DEF View

\* A key pushed with its value is an entry appended.
LEMMA ViewOfAppend ==
  ASSUME NEW q \in Seq(Keys), NEW k \in Keys, NEW m, m[k] \in Values,
         \A i \in DOMAIN q : m[q[i]] \in Values
  PROVE  View(Append(q, k), m) = Append(View(q, m), [key |-> k, value |-> m[k]])
<1> DEFINE new == Append(q, k)
           e == [key |-> k, value |-> m[k]]
<1>1. Len(q) \in Nat /\ DOMAIN q = 1 .. Len(q)
  BY LenProperties
<1>2. /\ new \in Seq(Keys)
      /\ Len(new) = Len(q) + 1
      /\ \A i \in 1 .. Len(q) : new[i] = q[i]
      /\ new[Len(q) + 1] = k
  BY AppendProperties
<1>3. DOMAIN new = 1 .. Len(q) + 1
  BY <1>2, LenProperties
<1> HIDE DEF new
<1>4. \A i \in DOMAIN new : m[new[i]] \in Values
  BY <1>1, <1>2, <1>3
<1>5. /\ View(new, m) \in Seq(Sequential!Entry)
      /\ Len(View(new, m)) = Len(q) + 1
      /\ \A i \in 1 .. Len(q) + 1 :
           View(new, m)[i] = [key |-> new[i], value |-> m[new[i]]]
  BY <1>2, <1>4, ViewIsASequence
<1>6. /\ View(q, m) \in Seq(Sequential!Entry)
      /\ Len(View(q, m)) = Len(q)
      /\ \A i \in 1 .. Len(q) : View(q, m)[i] = [key |-> q[i], value |-> m[q[i]]]
  BY ViewIsASequence
<1>7. e \in Sequential!Entry
  BY DEF Sequential!Entry
<1> HIDE DEF e
<1>8. /\ Append(View(q, m), e) \in Seq(Sequential!Entry)
      /\ Len(Append(View(q, m), e)) = Len(q) + 1
      /\ \A i \in 1 .. Len(q) : Append(View(q, m), e)[i] = View(q, m)[i]
      /\ Append(View(q, m), e)[Len(q) + 1] = e
  BY <1>6, <1>7, AppendProperties
<1>9. \A i \in 1 .. Len(q) + 1 : View(new, m)[i] = Append(View(q, m), e)[i]
  <2>1. TAKE i \in 1 .. Len(q) + 1
  <2>2. CASE i = Len(q) + 1
    BY <1>2, <1>5, <1>8, <2>2 DEF e
  <2>3. CASE i # Len(q) + 1
    <3>1. i \in 1 .. Len(q)
      BY <1>1, <2>3
    <3>2. QED
      BY <1>2, <1>5, <1>6, <1>8, <3>1
  <2>4. QED
    BY <2>2, <2>3
<1>10. QED
  BY <1>5, <1>8, <1>9, SeqEqual DEF new, e

\* Taking a position out of the queue takes an entry out of the view.
LEMMA ViewOfWithoutAt ==
  ASSUME order \in Seq(Keys), NEW i \in DOMAIN order, NEW m,
         \A j \in DOMAIN order : m[order[j]] \in Values
  PROVE  View(WithoutAt(i), m) =
           [j \in 1 .. Len(View(order, m)) - 1 |->
              IF j < i THEN View(order, m)[j] ELSE View(order, m)[j + 1]]
<1>1. Len(order) \in Nat /\ DOMAIN order = 1 .. Len(order)
  BY LenProperties
<1>2. /\ Len(View(order, m)) = Len(order)
      /\ \A j \in 1 .. Len(order) :
           View(order, m)[j] = [key |-> order[j], value |-> m[order[j]]]
  BY ViewIsASequence
<1>3. DOMAIN WithoutAt(i) = 1 .. Len(order) - 1
  BY DEF WithoutAt
<1>4. \A j \in 1 .. Len(order) - 1 :
        j \in 1 .. Len(order) /\ j + 1 \in 1 .. Len(order)
  BY <1>1
<1>5. \A j \in 1 .. Len(order) - 1 :
        WithoutAt(i)[j] = IF j < i THEN order[j] ELSE order[j + 1]
  BY DEF WithoutAt
<1>6. \A j \in 1 .. Len(order) - 1 :
        [key |-> WithoutAt(i)[j], value |-> m[WithoutAt(i)[j]]] =
          IF j < i THEN View(order, m)[j] ELSE View(order, m)[j + 1]
  BY <1>2, <1>4, <1>5
<1>7. QED
  BY <1>2, <1>3, <1>6 DEF View

\* The oldest key popped is the first entry dropped.
LEMMA ViewOfTail ==
  ASSUME NEW q \in Seq(Keys), q # << >>, NEW m,
         \A i \in DOMAIN q : m[q[i]] \in Values
  PROVE  View(Tail(q), m) = Tail(View(q, m))
<1>1. Len(q) \in Nat \ {0} /\ DOMAIN q = 1 .. Len(q)
  BY EmptySeq, LenProperties
<1>2. /\ Tail(q) \in Seq(Keys)
      /\ Len(Tail(q)) = Len(q) - 1
      /\ \A i \in 1 .. Len(q) - 1 : Tail(q)[i] = q[i + 1]
  BY HeadTailProperties
<1>3. DOMAIN Tail(q) = 1 .. Len(q) - 1
  BY <1>2, LenProperties
<1>4. \A i \in 1 .. Len(q) - 1 : i + 1 \in 1 .. Len(q)
  BY <1>1
<1>5. /\ View(q, m) \in Seq(Sequential!Entry)
      /\ Len(View(q, m)) = Len(q)
      /\ \A i \in 1 .. Len(q) : View(q, m)[i] = [key |-> q[i], value |-> m[q[i]]]
  BY ViewIsASequence
<1>6. View(q, m) # << >>
  BY <1>1, <1>5, EmptySeq
<1>7. /\ Tail(View(q, m)) \in Seq(Sequential!Entry)
      /\ Len(Tail(View(q, m))) = Len(q) - 1
      /\ \A i \in 1 .. Len(q) - 1 : Tail(View(q, m))[i] = View(q, m)[i + 1]
  BY <1>5, <1>6, HeadTailProperties
<1>8. \A i \in DOMAIN Tail(q) : m[Tail(q)[i]] \in Values
  BY <1>1, <1>2, <1>3, <1>4
<1>9. /\ View(Tail(q), m) \in Seq(Sequential!Entry)
      /\ Len(View(Tail(q), m)) = Len(q) - 1
      /\ \A i \in 1 .. Len(q) - 1 :
           View(Tail(q), m)[i] = [key |-> Tail(q)[i], value |-> m[Tail(q)[i]]]
  <2> DEFINE rest == Tail(q)
  <2>1. rest \in Seq(Keys) /\ \A i \in DOMAIN rest : m[rest[i]] \in Values
    BY <1>2, <1>8
  <2> HIDE DEF rest
  <2>2. /\ View(rest, m) \in Seq(Sequential!Entry)
        /\ Len(View(rest, m)) = Len(rest)
        /\ \A i \in 1 .. Len(rest) :
             View(rest, m)[i] = [key |-> rest[i], value |-> m[rest[i]]]
    BY <2>1, ViewIsASequence
  <2>3. Len(rest) = Len(q) - 1
    BY <1>2 DEF rest
  <2>4. /\ View(rest, m) \in Seq(Sequential!Entry)
        /\ Len(View(rest, m)) = Len(q) - 1
        /\ \A i \in 1 .. Len(q) - 1 :
             View(rest, m)[i] = [key |-> rest[i], value |-> m[rest[i]]]
    BY <2>2, <2>3
  <2>5. QED
    BY <2>4 DEF rest
<1>10. \A i \in 1 .. Len(q) - 1 : View(Tail(q), m)[i] = Tail(View(q, m))[i]
  BY <1>2, <1>4, <1>5, <1>7, <1>9, ZenonT(60)
<1>11. QED
  BY <1>7, <1>9, <1>10, SeqEqual

(***************************************************************************)
(* The invariant of one caller.  It adds to BoundInv that the queue holds  *)
(* each cached key once and nothing else: a promotion finds its key still  *)
(* cached, because no put ran since the get read it.                       *)
(***************************************************************************)
PromotesCached == \A t \in Threads : pc[t] = "promote" => key[t] \in Cached

QueueIsExact == ~Clearing => Distinct(order) /\ Queued = Cached

LruInv == BoundInv /\ PromotesCached /\ QueueIsExact

\* A promotion of a queued key takes its position out and pushes it.
LEMMA PromotedMovesBack ==
  ASSUME NEW k \in Queued, NEW new, Promoted(k, new)
  PROVE  \E i \in DOMAIN order : order[i] = k /\ new = Append(WithoutAt(i), k)
BY DEF Promoted

\* A key moved to the back is still queued once.
LEMMA MovedBackDistinct ==
  ASSUME order \in Seq(Keys), Distinct(order), NEW i \in DOMAIN order
  PROVE  Distinct(Append(WithoutAt(i), order[i]))
<1> DEFINE new == Append(WithoutAt(i), order[i])
           last == Len(WithoutAt(i)) + 1
<1>1. WithoutAt(i) \in Seq(Keys) /\ order[i] \in Keys
  BY WithoutAtProperties, LenProperties, ElementOfSeq
<1>2. PICK f \in [DOMAIN WithoutAt(i) -> DOMAIN order \ {i}] :
        /\ \A a \in DOMAIN WithoutAt(i) : WithoutAt(i)[a] = order[f[a]]
        /\ \A a, b \in DOMAIN WithoutAt(i) : a # b => f[a] # f[b]
  BY WithoutAtPositions
<1>3. /\ new[last] = order[i]
      /\ \A a \in DOMAIN new :
           a # last => a \in DOMAIN WithoutAt(i) /\ new[a] = WithoutAt(i)[a]
  BY <1>1, AppendPositions
<1> HIDE DEF new, last
<1> DEFINE g == [a \in DOMAIN new |-> IF a = last THEN i ELSE f[a]]
<1>4. \A a \in DOMAIN new : g[a] \in DOMAIN order /\ new[a] = order[g[a]]
  BY <1>2, <1>3
<1>5. \A a, b \in DOMAIN new : a # b => g[a] # g[b]
  BY <1>2, <1>3
<1> HIDE DEF g
<1>6. QED
  BY <1>4, <1>5 DEF Distinct, new

\* A queue that holds each cached key once is as long as the map is large.
LEMMA QueueLength ==
  ASSUME LruInv, ~Clearing
  PROVE  Len(order) = Cardinality(Cached)
<1>1. Len(order) \in Nat /\ DOMAIN order = 1 .. Len(order)
  BY LenProperties DEF LruInv, BoundInv, Typed, TypeOK
<1>2. Distinct(order) /\ Queued = Cached
  BY DEF LruInv, QueueIsExact
<1>3. order \in [1 .. Len(order) -> Cached]
  BY <1>1, <1>2, LenProperties DEF Queued, LruInv, BoundInv, Typed, TypeOK
<1>4. order \in Bijection(1 .. Len(order), Cached)
  BY <1>1, <1>2, <1>3 DEF Distinct, Queued, Bijection, Injection, Surjection, IsInjective
<1>5. ExistsBijection(1 .. Len(order), Cached)
  BY <1>4 DEF ExistsBijection
<1>6. QED
  BY <1>1, <1>5, FS_CountingElements

\* The eviction loop pops nothing, or the oldest key alone of a full map.
LEMMA EvictionTakesTheOldest ==
  ASSUME LruInv, ~Clearing, NEW t \in Threads, pc[t] = "put", NEW n \in 0 .. Len(order),
         EvictionStops(n), \A m \in 0 .. n - 1 : ~EvictionStops(m)
  PROVE  \/ n = 0 /\ Len(order) < Capacity
         \/ n = 1 /\ Len(order) = Capacity /\ order # << >>
<1> USE DEF LruInv
<1>1. Capacity > 0 /\ Capacity \in Nat /\ n \in Nat /\ Len(order) \in Nat
  BY CapacityAssumption, LenProperties DEF BoundInv, Typed, CallInv, TypeOK
<1>2. Surviving(0) = Cached /\ Len(order) = Cardinality(Cached)
  BY QueueLength DEF Surviving
<1>3. CASE n = 0
  <2>1. Cardinality(Surviving(n)) < Capacity
    BY <1>1, EvictionMakesRoom
  <2>2. QED
    BY <1>2, <1>3, <2>1
<1>4. CASE n # 0
  <2>1. 0 \in 0 .. n - 1
    BY <1>1, <1>4
  <2>2. ~(Len(order) < Capacity)
    BY <1>2, <2>1 DEF EvictionStops
  <2>3. Len(order) <= Capacity
    BY <1>2 DEF BoundInv, CapacityBound
  <2>4. Len(order) = Capacity
    BY <1>1, <2>2, <2>3
  <2>5. Surviving(1) = Cached \ {order[1]} /\ order[1] \in Cached
    <3>1. 1 \in DOMAIN order
      BY <1>1, <2>4, LenProperties DEF BoundInv, Typed, TypeOK
    <3>2. order[1] \in Cached
      BY <3>1 DEF QueueIsExact, Queued
    <3>3. 1 .. 1 = {1}
      OBVIOUS
    <3>4. QED
      BY <3>2, <3>3 DEF Surviving
  <2>6. Cardinality(Surviving(1)) = Capacity - 1
    <3>1. IsFiniteSet(Cached)
      BY FiniteKeysAssumption, FS_Subset DEF Cached
    <3>2. QED
      BY <1>2, <2>4, <2>5, <3>1, FS_RemoveElement
  <2>7. EvictionStops(1)
    BY <1>1, <2>6 DEF EvictionStops
  <2>8. n = 1
    <3>1. ~(1 \in 0 .. n - 1)
      BY <2>7
    <3>2. QED
      BY <1>1, <1>4, <3>1
  <2>9. order # << >>
    BY <1>1, <2>4, EmptySeq
  <2>10. QED
    BY <2>4, <2>8, <2>9
<1>5. QED
  BY <1>3, <1>4

\* What a put pushes onto, by whether the map was full.
LEMMA PushedWithRoom ==
  ASSUME order \in Seq(Keys), NEW k
  PROVE  PushedAfterPops(0, k) = Append(order, k)
<1>1. SubSeq(order, 1, Len(order)) = order
  BY SubSeqFull
<1>2. 0 + 1 = 1
  OBVIOUS
<1>3. QED
  BY <1>1, <1>2 DEF PushedAfterPops

LEMMA PushedWhenFull ==
  ASSUME order \in Seq(Keys), order # << >>, NEW k
  PROVE  PushedAfterPops(1, k) = Append(Tail(order), k)
<1>1. SubSeq(order, 2, Len(order)) = Tail(order)
  BY TailIsSubSeq
<1>2. 1 + 1 = 2
  OBVIOUS
<1>3. QED
  BY <1>1, <1>2 DEF PushedAfterPops

LEMMA InitLruInv == Init => LruInv
<1> SUFFICES ASSUME Init PROVE LruInv
  OBVIOUS
<1>1. Queued = {} /\ Cached = {} /\ Distinct(order)
  BY DEF Init, Queued, Cached, Distinct
<1>2. QED
  BY <1>1, InitBoundInv DEF LruInv, PromotesCached, QueueIsExact, Init

\* A push behind the keys that survive keeps queue and map of one mind.
LEMMA PutInsertExact ==
  ASSUME LruInv, ~Clearing, NEW t \in Threads, PutInsert(t)
  PROVE  Distinct(order') /\ Queued' = Cached'
<1> USE DEF LruInv, BoundInv, Typed, TypeOK
<1>1. key[t] \in Keys /\ val[t] \in Values /\ key[t] \notin Cached
  BY DEF CallInv, PutInsert, Cached
<1>2. PICK n \in 0 .. Len(order) :
        /\ entries' = [k \in Keys |-> IF k = key[t] THEN val[t]
                                      ELSE IF k \in Surviving(n) THEN entries[k]
                                      ELSE None]
        /\ order' = PushedAfterPops(n, key[t])
  BY DEF PutInsert
<1>3. Cached' = Surviving(n) \cup {key[t]}
  BY <1>1, <1>2, NoneAssumption DEF Cached, Surviving
<1> DEFINE k == key[t]
           new == PushedAfterPops(n, k)
           last == Len(order) - n + 1
<1>4. /\ new[last] = k
      /\ \A a \in DOMAIN new : a # last =>
           a \in Nat /\ n + a \in DOMAIN order /\ n + a > n /\ new[a] = order[n + a]
  BY <1>1, PushedAfterPopsPositions
<1>5. Distinct(order) /\ Queued = Cached /\ k \notin Cached
  BY <1>1 DEF QueueIsExact
<1>6. n \in Nat /\ 1 .. n \subseteq DOMAIN order
  BY LenProperties
<1>7. Queued \subseteq QueuedIn(new) \cup {order[i] : i \in 1 .. n} /\ k \in QueuedIn(new)
  BY <1>1, PushedAfterPopsProperties
<1>8. order' = new /\ Cached' = Surviving(n) \cup {k}
  BY <1>2, <1>3
<1> HIDE DEF new, last, k
<1>9. ASSUME NEW a \in DOMAIN new, a # last
      PROVE  new[a] \in Surviving(n) /\ new[a] # k
  <2>1. new[a] = order[n + a] /\ n + a \in DOMAIN order
    BY <1>4, <1>9
  <2>2. new[a] \in Cached
    BY <1>5, <2>1 DEF Queued
  <2>3. \A i \in 1 .. n : order[i] # new[a]
    <3>1. \A i \in 1 .. n : i # n + a
      BY <1>4, <1>6, <1>9
    <3>2. QED
      BY <1>5, <1>6, <2>1, <3>1 DEF Distinct
  <2>4. QED
    BY <1>5, <2>2, <2>3 DEF Surviving
<1>10. Distinct(new)
  <2>1. \A a, b \in DOMAIN new : a # last /\ b # last /\ new[a] = new[b] => a = b
    BY <1>4, <1>5, <1>6 DEF Distinct
  <2>2. QED
    BY <1>4, <1>9, <2>1 DEF Distinct
<1>11. QueuedIn(new) \subseteq Surviving(n) \cup {k}
  BY <1>4, <1>9 DEF QueuedIn
<1>12. Surviving(n) \cup {k} \subseteq QueuedIn(new)
  BY <1>5, <1>7 DEF Surviving
<1>13. Queued' = QueuedIn(new)
  BY <1>8 DEF Queued, QueuedIn
<1>14. QED
  BY <1>8, <1>10, <1>11, <1>12, <1>13

\* A promotion, of a get or of a put on a cached key, reorders the queue.
LEMMA PromotionExact ==
  ASSUME LruInv, ~Clearing, NEW t \in Threads, key[t] \in Cached,
         Promoted(key[t], order'), Cached' = Cached
  PROVE  Distinct(order') /\ Queued' = Cached'
<1> USE DEF LruInv, BoundInv, Typed, TypeOK
<1>1. key[t] \in Queued /\ key[t] \in Keys /\ Distinct(order) /\ Queued = Cached
  BY DEF QueueIsExact, Cached
<1>2. PICK i \in DOMAIN order :
        order[i] = key[t] /\ order' = Append(WithoutAt(i), key[t])
  BY <1>1, PromotedMovesBack
<1>3. Distinct(order')
  BY <1>1, <1>2, MovedBackDistinct
<1>4. QueuedIn(order') = Queued \cup {key[t]}
  BY <1>1, PromotedProperties
<1>5. QED
  BY <1>1, <1>3, <1>4 DEF Queued, QueuedIn

LEMMA NextLruInv ==
  ASSUME SharedClear = FALSE, OneCaller, LruInv, [Next]_vars
  PROVE  LruInv'
<1> USE DEF LruInv, BoundInv, Typed, TypeOK
<1>1. BoundInv'
  BY NextBoundInv
<1>2. PICK caller \in Threads : Threads = {caller}
  BY DEF OneCaller
<1> SUFFICES PromotesCached' /\ QueueIsExact'
  BY <1>1
<1>3. ASSUME NEW t \in Threads, NEW k \in Keys, GetMiss(t, k)
      PROVE  PromotesCached' /\ QueueIsExact'
  BY <1>3 DEF GetMiss, PromotesCached, QueueIsExact, Clearing, Cached, Queued
<1>4. ASSUME NEW t \in Threads, NEW k \in Keys, GetHit(t, k)
      PROVE  PromotesCached' /\ QueueIsExact'
  <2>1. ~Clearing /\ Cached' = Cached /\ order' = order
    BY <1>2, <1>4 DEF GetHit, MayStart, Clearing, Cached
  <2>2. PromotesCached'
    BY <1>2, <1>4 DEF GetHit, PromotesCached, Cached
  <2>3. QED
    BY <2>1, <2>2 DEF QueueIsExact, Queued
<1>5. ASSUME NEW t \in Threads, GetPromote(t)
      PROVE  PromotesCached' /\ QueueIsExact'
  <2>1. ~Clearing /\ Cached' = Cached /\ key[t] \in Cached
    BY <1>2, <1>5 DEF GetPromote, Clearing, Cached, PromotesCached
  <2>2. PromotesCached'
    BY <1>2, <1>5 DEF GetPromote, Return, PromotesCached
  <2>3. Promoted(key[t], order')
    BY <1>5 DEF GetPromote
  <2>4. QED
    BY <2>1, <2>2, <2>3, PromotionExact DEF QueueIsExact
<1>6. ASSUME NEW t \in Threads, NEW k \in Keys, NEW v \in Values, PutLock(t, k, v)
      PROVE  PromotesCached' /\ QueueIsExact'
  <2>1. ~Clearing /\ Cached' = Cached /\ order' = order
    BY <1>2, <1>6 DEF PutLock, MayStart, Clearing, Cached
  <2>2. PromotesCached'
    BY <1>2, <1>6 DEF PutLock, PromotesCached
  <2>3. QED
    BY <2>1, <2>2 DEF QueueIsExact, Queued
<1>7. ASSUME NEW t \in Threads, PutReplace(t)
      PROVE  PromotesCached' /\ QueueIsExact'
  <2>1. key[t] \in Keys /\ val[t] \in Values
    BY <1>7 DEF PutReplace, CallInv
  <2>2. ~Clearing /\ key[t] \in Cached
    BY <1>2, <1>7, <2>1 DEF PutReplace, Clearing, Cached
  <2>3. Cached' = Cached
    BY <1>7, <2>1, <2>2, NoneAssumption DEF PutReplace, Replaced, Cached
  <2>4. PromotesCached'
    BY <1>2, <1>7 DEF PutReplace, Return, PromotesCached
  <2>5. Promoted(key[t], order')
    BY <1>7 DEF PutReplace
  <2>6. QED
    BY <2>2, <2>3, <2>4, <2>5, PromotionExact DEF QueueIsExact
<1>8. ASSUME NEW t \in Threads, PutInsert(t)
      PROVE  PromotesCached' /\ QueueIsExact'
  <2>1. ~Clearing
    BY <1>2, <1>8 DEF PutInsert, Clearing
  <2>2. PromotesCached'
    BY <1>2, <1>8 DEF PutInsert, Return, PromotesCached
  <2>3. QED
    BY <1>8, <2>1, <2>2, PutInsertExact DEF QueueIsExact
<1>9. ASSUME NEW t \in Threads, ClearEntries(t)
      PROVE  PromotesCached' /\ QueueIsExact'
  BY <1>2, <1>9 DEF ClearEntries, PromotesCached, QueueIsExact, Clearing
<1>10. ASSUME NEW t \in Threads, ClearOrder(t)
      PROVE  PromotesCached' /\ QueueIsExact'
  <2>1. Cached = {} /\ Cached' = Cached /\ order' = << >>
    BY <1>10 DEF ClearOrder, EmptyInClear, Clearing, Cached
  <2>2. PromotesCached'
    BY <1>2, <1>10 DEF ClearOrder, Return, PromotesCached
  <2>3. Queued' = {} /\ Distinct(order')
    BY <2>1 DEF Queued, Distinct
  <2>4. QED
    BY <2>1, <2>2, <2>3 DEF QueueIsExact
<1>11. CASE UNCHANGED vars
  BY <1>11 DEF vars, PromotesCached, QueueIsExact, Clearing, Cached, Queued
<1>12. QED
  BY <1>3, <1>4, <1>5, <1>6, <1>7, <1>8, <1>9, <1>10, <1>11 DEF Next, Finish

(***************************************************************************)
(* The refinement.                                                         *)
(***************************************************************************)
LEMMA LruViewIsView ==
  ~Clearing => LruView = View(order, entries)
BY DEF LruView, View

LEMMA ViewedValues ==
  ASSUME LruInv, ~Clearing
  PROVE  \A i \in DOMAIN order : order[i] \in Cached /\ entries[order[i]] \in Values
BY DEF LruInv, BoundInv, Typed, TypeOK, QueueIsExact, Queued, Cached

\* A promotion moves an entry back, with the value the map has now.
LEMMA PromotionMovesTheEntry ==
  ASSUME LruInv, ~Clearing, ~Clearing', NEW k \in Cached, Promoted(k, order'),
         entries' \in [Keys -> Values \cup {None}], entries'[k] \in Values,
         \A j \in Keys : j # k => entries'[j] = entries[j]
  PROVE  \E i \in DOMAIN LruView :
           /\ LruView[i] = [key |-> k, value |-> entries[k]]
           /\ LruView' = Sequential!MovedBack(i, [key |-> k, value |-> entries'[k]])
<1> USE DEF LruInv, BoundInv, Typed, TypeOK
<1>1. k \in Queued /\ k \in Keys /\ Distinct(order)
  BY DEF QueueIsExact, Cached
<1>2. PICK i \in DOMAIN order : order[i] = k /\ order' = Append(WithoutAt(i), k)
  BY <1>1, PromotedMovesBack
<1>3. \A j \in DOMAIN order : order[j] \in Keys /\ entries[order[j]] \in Values
  BY ViewedValues DEF Cached
<1>4. /\ DOMAIN View(order, entries) = 1 .. Len(order)
      /\ \A j \in 1 .. Len(order) :
           View(order, entries)[j] = [key |-> order[j], value |-> entries[order[j]]]
  BY <1>3, ViewIsASequence
<1>5. LruView = View(order, entries) /\ LruView' = View(order', entries')
  BY LruViewIsView DEF LruView, View
<1>6. i \in DOMAIN LruView /\ LruView[i] = [key |-> k, value |-> entries[k]]
  BY <1>2, <1>4, <1>5, LenProperties
<1>7. \A j \in DOMAIN WithoutAt(i) :
        entries[WithoutAt(i)[j]] \in Values
          /\ entries'[WithoutAt(i)[j]] = entries[WithoutAt(i)[j]]
  <2>1. PICK f \in [DOMAIN WithoutAt(i) -> DOMAIN order \ {i}] :
          \A a \in DOMAIN WithoutAt(i) : WithoutAt(i)[a] = order[f[a]]
    BY WithoutAtPositions
  <2>2. \A j \in DOMAIN WithoutAt(i) : order[f[j]] # k /\ f[j] \in DOMAIN order
    BY <1>1, <1>2, <2>1 DEF Distinct
  <2>3. QED
    BY <1>3, <2>1, <2>2
<1>8. WithoutAt(i) \in Seq(Keys)
  BY WithoutAtProperties
<1>9. View(order', entries') =
        Append(View(WithoutAt(i), entries), [key |-> k, value |-> entries'[k]])
  <2>1. View(WithoutAt(i), entries') = View(WithoutAt(i), entries)
    BY <1>7, ViewOfTheSame
  <2>2. \A j \in DOMAIN WithoutAt(i) : entries'[WithoutAt(i)[j]] \in Values
    BY <1>7
  <2>3. View(Append(WithoutAt(i), k), entries') =
          Append(View(WithoutAt(i), entries'), [key |-> k, value |-> entries'[k]])
    BY <1>1, <1>8, <2>2, ViewOfAppend
  <2>4. QED
    BY <1>2, <2>1, <2>3
<1>10. View(WithoutAt(i), entries) =
         [j \in 1 .. Len(View(order, entries)) - 1 |->
            IF j < i THEN View(order, entries)[j] ELSE View(order, entries)[j + 1]]
  BY <1>3, ViewOfWithoutAt
<1>11. LruView' = Sequential!MovedBack(i, [key |-> k, value |-> entries'[k]])
  BY <1>5, <1>9, <1>10 DEF Sequential!MovedBack
<1>12. QED
  BY <1>6, <1>11

\* A put of a new key adds an entry, at the cost of the first when full.
LEMMA PutInsertAdds ==
  ASSUME LruInv, ~Clearing, ~Clearing', NEW t \in Threads, PutInsert(t)
  PROVE  Sequential!Add([key |-> key[t], value |-> val[t]])
<1> USE DEF LruInv, BoundInv, Typed, TypeOK
<1>1. /\ key[t] \in Keys /\ key[t] \notin Cached
      /\ val[t] \in Values
      /\ pc[t] = "put"
  BY DEF CallInv, PutInsert, Cached
<1> PICK k \in Keys : k = key[t]
  BY <1>1
<1> DEFINE e == [key |-> k, value |-> val[t]]
<1>2. PICK n \in 0 .. Len(order) :
        /\ EvictionStops(n)
        /\ \A m \in 0 .. n - 1 : ~EvictionStops(m)
        /\ entries' = [x \in Keys |-> IF x = k THEN val[t]
                                      ELSE IF x \in Surviving(n) THEN entries[x]
                                      ELSE None]
        /\ order' = PushedAfterPops(n, k)
  BY DEF PutInsert
<1>3. \/ n = 0 /\ Len(order) < Capacity
      \/ n = 1 /\ Len(order) = Capacity /\ order # << >>
  BY <1>1, <1>2, EvictionTakesTheOldest
<1>4. LruView = View(order, entries) /\ LruView' = View(order', entries')
  BY LruViewIsView DEF LruView, View
<1>5. \A i \in DOMAIN order :
        order[i] \in Cached /\ order[i] \in Keys /\ entries[order[i]] \in Values
  BY ViewedValues DEF Cached
<1>6. /\ View(order, entries) \in Seq(Sequential!Entry)
      /\ Len(View(order, entries)) = Len(order)
      /\ DOMAIN View(order, entries) = 1 .. Len(order)
      /\ \A i \in 1 .. Len(order) :
           View(order, entries)[i] = [key |-> order[i], value |-> entries[order[i]]]
  BY <1>5, ViewIsASequence
<1>7. Len(order) \in Nat /\ DOMAIN order = 1 .. Len(order)
  BY LenProperties
<1>8. k \notin Sequential!Held
  BY <1>1, <1>4, <1>5, <1>6, <1>7 DEF Sequential!Held
<1>9. entries'[k] = val[t]
  BY <1>1, <1>2
<1>10. CASE n = 0 /\ Len(order) < Capacity
  <2>1. order' = Append(order, k)
    BY <1>2, <1>10, PushedWithRoom
  <2>2. Surviving(0) = Cached
    BY DEF Surviving
  <2>3. \A i \in DOMAIN order : entries'[order[i]] = entries[order[i]]
    BY <1>1, <1>2, <1>5, <1>10, <2>2
  <2>4. View(order', entries') = Append(View(order, entries), e)
    <3>1. View(order, entries') = View(order, entries)
      BY <2>3, ViewOfTheSame
    <3>2. /\ \A i \in DOMAIN order : entries'[order[i]] \in Values
          /\ entries'[k] \in Values
      BY <1>1, <1>5, <1>9, <2>3
    <3>3. View(Append(order, k), entries') =
            Append(View(order, entries'), [key |-> k, value |-> entries'[k]])
      BY <3>2, ViewOfAppend
    <3>4. QED
      BY <1>9, <2>1, <3>1, <3>3
  <2>5. Len(LruView) < Capacity /\ LruView' = Append(LruView, e)
    BY <1>4, <1>6, <1>10, <2>4
  <2>6. QED
    BY <1>8, <2>5 DEF Sequential!Add
<1>11. CASE n = 1 /\ Len(order) = Capacity /\ order # << >>
  <2>1. order' = Append(Tail(order), k)
    BY <1>2, <1>11, PushedWhenFull
  <2>2. /\ Tail(order) \in Seq(Keys)
        /\ Len(Tail(order)) = Len(order) - 1
        /\ \A i \in 1 .. Len(order) - 1 : Tail(order)[i] = order[i + 1]
    BY <1>11, HeadTailProperties
  <2>3. Len(order) # 0
    BY <1>11, EmptySeq
  <2>4. DOMAIN Tail(order) = 1 .. Len(order) - 1
    BY <2>2, LenProperties
  <2>5. \A i \in DOMAIN Tail(order) :
          /\ i + 1 \in DOMAIN order
          /\ i + 1 # 1
          /\ Tail(order)[i] = order[i + 1]
    BY <1>7, <2>2, <2>4
  <2>6. 1 \in DOMAIN order /\ 1 .. 1 = {1}
    BY <1>7, <2>3
  <2>7. \A i \in DOMAIN Tail(order) : Tail(order)[i] \in Surviving(1)
    BY <1>5, <2>5, <2>6 DEF Surviving, QueueIsExact, Distinct
  <2>8. \A i \in DOMAIN Tail(order) :
          /\ entries[Tail(order)[i]] \in Values
          /\ entries'[Tail(order)[i]] = entries[Tail(order)[i]]
    BY <1>1, <1>2, <1>5, <1>11, <2>5, <2>7
  <2>9. View(order', entries') = Append(View(Tail(order), entries), e)
    <3>1. View(Tail(order), entries') = View(Tail(order), entries)
      BY <2>8, ViewOfTheSame
    <3>2. /\ \A i \in DOMAIN Tail(order) : entries'[Tail(order)[i]] \in Values
          /\ entries'[k] \in Values
      BY <1>1, <1>9, <2>8
    <3>3. View(Append(Tail(order), k), entries') =
            Append(View(Tail(order), entries'), [key |-> k, value |-> entries'[k]])
      BY <2>2, <3>2, ViewOfAppend
    <3>4. QED
      BY <1>9, <2>1, <3>1, <3>3
  <2>10. View(Tail(order), entries) = Tail(View(order, entries))
    BY <1>5, <1>11, ViewOfTail
  <2>11. Len(LruView) = Capacity /\ LruView' = Append(Tail(LruView), e)
    BY <1>4, <1>6, <1>11, <2>9, <2>10
  <2>12. LruView # << >>
    BY <1>4, <1>6, <2>3, EmptySeq
  <2>13. QED
    BY <1>8, <2>11, <2>12 DEF Sequential!Add
<1>12. QED
  BY <1>3, <1>10, <1>11

LEMMA StepRefinesLru ==
  ASSUME OneCaller, LruInv, [Next]_vars
  PROVE  [Sequential!Next]_LruView
<1> USE DEF LruInv, BoundInv, Typed, TypeOK
<1>1. PICK caller \in Threads : Threads = {caller}
  BY DEF OneCaller
<1>2. ASSUME NEW t \in Threads, NEW k \in Keys, GetMiss(t, k)
      PROVE  UNCHANGED LruView
  BY <1>2 DEF GetMiss, LruView, Clearing
<1>3. ASSUME NEW t \in Threads, pc[t] = "idle", pc'[t] # "clear",
             entries' = entries, order' = order
      PROVE  UNCHANGED LruView
  <2>1. ~Clearing /\ ~Clearing'
    BY <1>1, <1>3 DEF Clearing
  <2>2. QED
    BY <1>3, <2>1 DEF LruView
<1>4. ASSUME NEW t \in Threads, NEW k \in Keys, GetHit(t, k)
      PROVE  UNCHANGED LruView
  BY <1>3, <1>4 DEF GetHit, MayStart
<1>5. ASSUME NEW t \in Threads, NEW k \in Keys, NEW v \in Values, PutLock(t, k, v)
      PROVE  UNCHANGED LruView
  BY <1>3, <1>5 DEF PutLock, MayStart
<1>6. ASSUME NEW t \in Threads, GetPromote(t)
      PROVE  \E k \in Keys : Sequential!Get(k)
  <2>1. ~Clearing /\ ~Clearing' /\ entries' = entries
    BY <1>1, <1>6 DEF GetPromote, Return, Clearing
  <2>2. key[t] \in Cached /\ key[t] \in Keys /\ entries[key[t]] \in Values
    BY <1>6 DEF GetPromote, PromotesCached, Cached
  <2>3. PICK i \in DOMAIN LruView :
          /\ LruView[i] = [key |-> key[t], value |-> entries[key[t]]]
          /\ LruView' = Sequential!MovedBack(i, [key |-> key[t], value |-> entries'[key[t]]])
    BY <1>6, <2>1, <2>2, PromotionMovesTheEntry DEF GetPromote
  <2>4. LruView[i].key = key[t] /\ LruView' = Sequential!MovedBack(i, LruView[i])
    BY <2>1, <2>3
  <2>5. Sequential!Get(key[t])
    BY <2>4 DEF Sequential!Get
  <2>6. QED
    BY <2>2, <2>5
<1>7. ASSUME NEW t \in Threads, PutReplace(t)
      PROVE  \E e \in Sequential!Entry : Sequential!Replace(e)
  <2> DEFINE e == [key |-> key[t], value |-> val[t]]
  <2>1. ~Clearing /\ ~Clearing'
    BY <1>1, <1>7 DEF PutReplace, Return, Clearing
  <2>2. key[t] \in Keys /\ val[t] \in Values /\ key[t] \in Cached
    BY <1>7 DEF PutReplace, CallInv, Cached
  <2>3. /\ entries' \in [Keys -> Values \cup {None}]
        /\ entries'[key[t]] = val[t]
        /\ \A j \in Keys : j # key[t] => entries'[j] = entries[j]
    BY <1>7, <2>2 DEF PutReplace, Replaced
  <2>4. PICK i \in DOMAIN LruView :
          /\ LruView[i] = [key |-> key[t], value |-> entries[key[t]]]
          /\ LruView' = Sequential!MovedBack(i, [key |-> key[t], value |-> entries'[key[t]]])
    BY <1>7, <2>1, <2>2, <2>3, PromotionMovesTheEntry DEF PutReplace
  <2>5. LruView[i].key = e.key /\ LruView' = Sequential!MovedBack(i, e)
    BY <2>3, <2>4
  <2>6. Sequential!Replace(e)
    BY <2>5 DEF Sequential!Replace
  <2>7. e \in Sequential!Entry
    BY <2>2 DEF Sequential!Entry
  <2>8. QED
    BY <2>6, <2>7
<1>8. ASSUME NEW t \in Threads, PutInsert(t)
      PROVE  \E e \in Sequential!Entry : Sequential!Add(e)
  <2>1. ~Clearing /\ ~Clearing'
    BY <1>1, <1>8 DEF PutInsert, Return, Clearing
  <2>2. key[t] \in Keys /\ val[t] \in Values
    BY <1>8 DEF PutInsert, CallInv
  <2>3. [key |-> key[t], value |-> val[t]] \in Sequential!Entry
    BY <2>2 DEF Sequential!Entry
  <2>4. QED
    BY <1>8, <2>1, <2>3, PutInsertAdds
<1>9. ASSUME NEW t \in Threads, ClearEntries(t)
      PROVE  Sequential!Clear
  BY <1>9 DEF ClearEntries, Clearing, LruView, Sequential!Clear
<1>10. ASSUME NEW t \in Threads, ClearOrder(t)
      PROVE  UNCHANGED LruView
  <2>1. Clearing /\ ~Clearing' /\ order' = << >>
    BY <1>1, <1>10 DEF ClearOrder, Return, Clearing
  <2>2. LruView = << >>
    BY <2>1 DEF LruView
  <2>3. View(order', entries') = << >>
    BY <2>1 DEF View
  <2>4. LruView' = View(order', entries')
    BY <2>1 DEF LruView, View
  <2>5. QED
    BY <2>2, <2>3, <2>4
<1>11. CASE UNCHANGED vars
  BY <1>11 DEF vars, LruView, Clearing
<1>12. QED
  BY <1>2, <1>4, <1>5, <1>6, <1>7, <1>8, <1>9, <1>10, <1>11
     DEF Next, Finish, Sequential!Next

\* Called by one thread at a time, the hash map and the recency queue, kept
\* behind two locks, are the LRU cache memo.rs describes: what a put evicts
\* is the entry that was used longest ago.
THEOREM MemoIsAnLruQueue ==
  SharedClear = FALSE /\ OneCaller => (Spec => ImplementsLru)
<1> SUFFICES ASSUME SharedClear = FALSE, OneCaller PROVE Spec => ImplementsLru
  OBVIOUS
<1>1. Init => Sequential!Init
  <2> SUFFICES ASSUME Init PROVE LruView = << >>
    BY DEF Sequential!Init
  <2>1. ~Clearing /\ order = << >>
    BY DEF Init, Clearing
  <2>2. QED
    BY <2>1 DEF LruView
<1>2. LruInv /\ [Next]_vars => LruInv'
  BY NextLruInv
<1>3. LruInv /\ [Next]_vars => [Sequential!Next]_LruView
  BY StepRefinesLru
<1>4. QED
  BY <1>1, <1>2, <1>3, InitLruInv, PTL DEF Spec, ImplementsLru, Sequential!Spec
=============================================================================
