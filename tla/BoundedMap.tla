---------------------------- MODULE BoundedMap -----------------------------
(***************************************************************************)
(* What the memo promises to callers that share it: a map of at most       *)
(* Capacity results, each call atomic.  A get returns the value last put   *)
(* under its key or nothing, a put makes room by dropping one other key    *)
(* and only when the map is full, a clear empties the map.                 *)
(***************************************************************************)
EXTENDS Naturals, FiniteSets

CONSTANTS Keys, Values, Threads, Capacity, None

VARIABLES
  map,     \* map[k] = None when k is not a key of it
  asked,   \* the <<key, value>> each thread is putting; None when it is not
  result   \* what the last get of each thread returned; None for a miss

vars == <<map, asked, result>>

Held == {k \in Keys : map[k] # None}

Init ==
  /\ map = [k \in Keys |-> None]
  /\ asked = [t \in Threads |-> None]
  /\ result = [t \in Threads |-> None]

Get(t, k) ==
  /\ result' = [result EXCEPT ![t] = map[k]]
  /\ UNCHANGED <<map, asked>>

Ask(t, k, v) ==
  /\ asked[t] = None
  /\ asked' = [asked EXCEPT ![t] = <<k, v>>]
  /\ UNCHANGED <<map, result>>

\* Replacing a value, or adding one while there is room, drops nothing.
PutWithRoom(k, v) ==
  /\ map[k] # None \/ Cardinality(Held) < Capacity
  /\ map' = [map EXCEPT ![k] = v]

PutEvicting(k, v) ==
  /\ map[k] = None
  /\ Cardinality(Held) = Capacity
  /\ \E victim \in Held : map' = [map EXCEPT ![k] = v, ![victim] = None]

Put(t) ==
  /\ asked[t] # None
  /\ PutWithRoom(asked[t][1], asked[t][2]) \/ PutEvicting(asked[t][1], asked[t][2])
  /\ asked' = [asked EXCEPT ![t] = None]
  /\ UNCHANGED result

Clear ==
  /\ map' = [k \in Keys |-> None]
  /\ UNCHANGED <<asked, result>>

Next ==
  \/ \E t \in Threads, k \in Keys : Get(t, k)
  \/ \E t \in Threads, k \in Keys, v \in Values : Ask(t, k, v)
  \/ \E t \in Threads : Put(t)
  \/ Clear

Spec == Init /\ [][Next]_vars
=============================================================================
