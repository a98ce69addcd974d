---------------------------- MODULE ResultCache ----------------------------
(***************************************************************************)
(* The memo of run_sql results: memo.rs, ResultCache.                      *)
(*                                                                         *)
(* The cache is two structures behind two mutexes, the hash map `entries`  *)
(* and the deque `order` that records recency, oldest first.  `get` takes  *)
(* the locks one after the other, `put` holds both, `clear` takes them one *)
(* after the other.  A step of this module is what a thread does between   *)
(* two points where another thread can run:                                *)
(*                                                                         *)
(*   get    GetMiss, or GetHit and then GetPromote                         *)
(*   put    PutLock (entries locked), then PutReplace or PutInsert         *)
(*   clear  ClearEntries, then ClearOrder                                  *)
(*                                                                         *)
(* A key stands for a pair (fingerprint, sql).  With Capacity = 0 the code *)
(* makes `put` return at once, which is a stutter here.                    *)
(***************************************************************************)
EXTENDS Naturals, Sequences, FiniteSets

CONSTANTS
  Keys,        \* memo keys
  Values,      \* rendered results
  Threads,     \* callers that share the cache through its Arc
  Capacity,    \* CacheOptions::memo_capacity
  SharedClear, \* TRUE: clear is called through the handle SchemaCache::memo()
               \* gives out.  FALSE: only by refresh and invalidate, whose
               \* &mut self keeps every other caller out while they run
  None         \* no value, no thread

ASSUME CapacityAssumption == Capacity \in Nat
ASSUME NoneAssumption ==
  None \notin Values /\ None \notin Threads /\ None \notin Keys \X Values
ASSUME SharedClearAssumption == SharedClear \in BOOLEAN
ASSUME FiniteKeysAssumption == IsFiniteSet(Keys)

VARIABLES
  entries,     \* the map: entries[k] = None when k is not a key of it
  order,       \* the recency queue, oldest key first
  entriesLock, \* the thread that holds the entries mutex between two steps
  pc,          \* where each thread is in its call
  key,         \* the key a call in progress is about
  val,         \* the value a put in progress stores
  got          \* what the last get of each thread returned; None for a miss

vars == <<entries, order, entriesLock, pc, key, val, got>>

Cached == {k \in Keys : entries[k] # None}
Queued == {order[i] : i \in DOMAIN order}

TypeOK ==
  /\ entries \in [Keys -> Values \cup {None}]
  /\ order \in Seq(Keys)
  /\ entriesLock \in Threads \cup {None}
  /\ pc \in [Threads -> {"idle", "promote", "put", "clear"}]
  /\ key \in [Threads -> Keys \cup {None}]
  /\ val \in [Threads -> Values \cup {None}]
  /\ got \in [Threads -> Values \cup {None}]

Init ==
  /\ entries = [k \in Keys |-> None]
  /\ order = << >>
  /\ entriesLock = None
  /\ pc = [t \in Threads |-> "idle"]
  /\ key = [t \in Threads |-> None]
  /\ val = [t \in Threads |-> None]
  /\ got = [t \in Threads |-> None]

(***************************************************************************)
(* Helpers on the two structures.  A definition whose comment starts with  *)
(* "Mutant" is a bug this code could have: it stands for the definition    *)
(* after it when the properties are tested, and nothing uses it.           *)
(***************************************************************************)

\* The queue without its i-th element.
WithoutAt(i) ==
  [j \in 1 .. Len(order) - 1 |-> IF j < i THEN order[j] ELSE order[j + 1]]

\* Mutants: the position found is not removed before the key is pushed; the
\* key was moved out before the push; a hit refreshes nothing.
PushedOnly(k, new) == new = Append(order, k)
PushedMoved(k, new) == new = Append(order, None)
NotPromoted(k, new) == new = order

\* order with the first occurrence of k, if any, moved to the back.
Promoted(k, new) ==
  \/ /\ k \notin Queued
     /\ new = Append(order, k)
  \/ \E i \in DOMAIN order :
       /\ order[i] = k
       /\ \A j \in 1 .. i - 1 : order[j] # k
       /\ new = Append(WithoutAt(i), k)

\* The keys still cached once the n oldest queue elements are popped.
Surviving(n) == Cached \ {order[i] : i \in 1 .. n}

\* Mutant: the loop test is > in place of >=.
EvictionStopsLate(n) == Cardinality(Surviving(n)) <= Capacity \/ n = Len(order)

\* The eviction loop ends after n pops: there is room, or the queue ran out.
EvictionStops(n) == Cardinality(Surviving(n)) < Capacity \/ n = Len(order)

\* Mutant: one more key is popped than was evicted.
PushedAfterOverPop(n, k) == Append(SubSeq(order, n + 2, Len(order)), k)

\* The queue once the n oldest are popped and k is pushed.
PushedAfterPops(n, k) == Append(SubSeq(order, n + 1, Len(order)), k)

\* Mutant: a put on a cached key refreshes its position only.
NotReplaced(k, v) == entries

\* The map with the value of a cached key replaced.
Replaced(k, v) == [entries EXCEPT ![k] = v]

(***************************************************************************)
(* Who may start a call.  A clear that holds &mut SchemaCache excludes     *)
(* every other call.                                                       *)
(***************************************************************************)
MayStart(t) ==
  /\ pc[t] = "idle"
  /\ SharedClear \/ \A u \in Threads : pc[u] # "clear"

MayClear(t) ==
  /\ pc[t] = "idle"
  /\ SharedClear \/ \A u \in Threads : pc[u] = "idle"

(***************************************************************************)
(* get                                                                     *)
(***************************************************************************)
GetMiss(t, k) ==
  /\ MayStart(t)
  /\ \/ Capacity = 0
     \/ entriesLock = None /\ entries[k] = None
  /\ got' = [got EXCEPT ![t] = None]
  /\ UNCHANGED <<entries, order, entriesLock, pc, key, val>>

GetHit(t, k) ==
  /\ MayStart(t)
  /\ Capacity > 0
  /\ entriesLock = None
  /\ entries[k] # None
  /\ pc' = [pc EXCEPT ![t] = "promote"]
  /\ key' = [key EXCEPT ![t] = k]
  /\ got' = [got EXCEPT ![t] = entries[k]]
  /\ UNCHANGED <<entries, order, entriesLock, val>>

\* The end of a call: the thread's locals go out of scope.
Return(t) ==
  /\ pc' = [pc EXCEPT ![t] = "idle"]
  /\ key' = [key EXCEPT ![t] = None]
  /\ val' = [val EXCEPT ![t] = None]
  /\ UNCHANGED got

\* The entries lock was dropped before this step: the key may be gone from
\* the map by now, and the code pushes it all the same.
GetPromote(t) ==
  /\ pc[t] = "promote"
  /\ Promoted(key[t], order')
  /\ Return(t)
  /\ UNCHANGED <<entries, entriesLock>>

(***************************************************************************)
(* put                                                                     *)
(***************************************************************************)
PutLock(t, k, v) ==
  /\ MayStart(t)
  /\ Capacity > 0
  /\ entriesLock = None
  /\ entriesLock' = t
  /\ pc' = [pc EXCEPT ![t] = "put"]
  /\ key' = [key EXCEPT ![t] = k]
  /\ val' = [val EXCEPT ![t] = v]
  /\ UNCHANGED <<entries, order, got>>

PutReplace(t) ==
  /\ pc[t] = "put"
  /\ entries[key[t]] # None
  /\ entries' = Replaced(key[t], val[t])
  /\ Promoted(key[t], order')
  /\ entriesLock' = None
  /\ Return(t)

PutInsert(t) ==
  /\ pc[t] = "put"
  /\ entries[key[t]] = None
  /\ \E n \in 0 .. Len(order) :
       /\ EvictionStops(n)
       /\ \A m \in 0 .. n - 1 : ~EvictionStops(m)
       /\ entries' = [k \in Keys |-> IF k = key[t] THEN val[t]
                                     ELSE IF k \in Surviving(n) THEN entries[k]
                                     ELSE None]
       /\ order' = PushedAfterPops(n, key[t])
  /\ entriesLock' = None
  /\ Return(t)

(***************************************************************************)
(* clear                                                                   *)
(***************************************************************************)
ClearEntries(t) ==
  /\ MayClear(t)
  /\ entriesLock = None
  /\ entries' = [k \in Keys |-> None]
  /\ pc' = [pc EXCEPT ![t] = "clear"]
  /\ UNCHANGED <<order, entriesLock, key, val, got>>

ClearOrder(t) ==
  /\ pc[t] = "clear"
  /\ order' = << >>
  /\ Return(t)
  /\ UNCHANGED <<entries, entriesLock>>

(***************************************************************************)
(* The specification.                                                      *)
(***************************************************************************)
Finish(t) == GetPromote(t) \/ PutReplace(t) \/ PutInsert(t) \/ ClearOrder(t)

Next ==
  \E t \in Threads :
    \/ \E k \in Keys : GetMiss(t, k) \/ GetHit(t, k)
    \/ \E k \in Keys, v \in Values : PutLock(t, k, v)
    \/ ClearEntries(t)
    \/ Finish(t)

Spec == Init /\ [][Next]_vars

(***************************************************************************)
(* Properties.                                                             *)
(***************************************************************************)

Clearing == \E t \in Threads : pc[t] = "clear"

\* The map never holds more than Capacity results (memo.rs: "Bounded by
\* capacity"), whatever gets and puts race with the eviction loop.
CapacityBound == Cardinality(Cached) <= Capacity

\* Every cached key can still be evicted: it is in the recency queue.  A key
\* in the map and not in the queue would stay until the next clear.
NoOrphan == Cached \subseteq Queued

\* A get that promotes a key evicted in the meantime leaves a ghost of it in
\* the queue, and a later put a second entry for it.  It stops there: a key
\* is queued at most twice, and twice only while it is cached.  Nothing else
\* bounds the queue.
OneGhostPerKey ==
  ~Clearing =>
    \A i, j \in DOMAIN order :
      i < j /\ order[i] = order[j] =>
        /\ order[i] \in Cached
        /\ \A l \in DOMAIN order : order[l] = order[i] => l \in {i, j}

\* With clears that overlap puts the map can outgrow its capacity, by at most
\* one entry for every thread but one.
OverrunBounded == Cardinality(Cached) < Capacity + Cardinality(Threads)

\* What a put in progress has been asked.
Asked ==
  [t \in Threads |-> IF pc[t] = "put" THEN <<key[t], val[t]>> ELSE None]

Shared ==
  INSTANCE BoundedMap WITH map <- entries, asked <- Asked, result <- got

\* For callers that share the cache, the map alone is what they see: get
\* takes effect when it reads the map, put when it returns, clear when it
\* empties the map.  Recency is an internal matter.
ImplementsBoundedMap == Shared!Spec

\* For one caller, map and queue together are one LRU queue: its entries are
\* the queued keys with their values, and none from the first half of a clear
\* on.
LruView ==
  IF Clearing THEN << >>
  ELSE [i \in DOMAIN order |-> [key |-> order[i], value |-> entries[order[i]]]]

Sequential == INSTANCE LruQueue WITH queue <- LruView

\* memo.rs keeps recency in a structure of its own, and calls itself an LRU
\* cache all the same: a get moves its entry to the back, and what a put
\* evicts is the entry used longest ago.
ImplementsLru == Sequential!Spec
=============================================================================
