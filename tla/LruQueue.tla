----------------------------- MODULE LruQueue ------------------------------
(***************************************************************************)
(* A least-recently-used cache as memo.rs describes it: one queue of       *)
(* entries, oldest first, no key twice.  A get moves its entry to the      *)
(* back, a put adds or replaces at the back and drops the front entry when *)
(* the queue is full, a clear empties it.                                  *)
(***************************************************************************)
EXTENDS Naturals, Sequences

CONSTANTS Keys, Values, Capacity

VARIABLE queue   \* a sequence of [key, value] records

Entry == [key : Keys, value : Values]

Held == {queue[i].key : i \in DOMAIN queue}

\* The queue with its i-th entry taken out and e put at the back.
MovedBack(i, e) ==
  Append([j \in 1 .. Len(queue) - 1 |-> IF j < i THEN queue[j] ELSE queue[j + 1]], e)

Init == queue = << >>

Get(k) ==
  \E i \in DOMAIN queue : queue[i].key = k /\ queue' = MovedBack(i, queue[i])

Replace(e) ==
  \E i \in DOMAIN queue : queue[i].key = e.key /\ queue' = MovedBack(i, e)

Add(e) ==
  /\ e.key \notin Held
  /\ \/ Len(queue) < Capacity /\ queue' = Append(queue, e)
     \/ Len(queue) = Capacity /\ queue # << >> /\ queue' = Append(Tail(queue), e)

Clear == queue' = << >>

Next ==
  \/ \E k \in Keys : Get(k)
  \/ \E e \in Entry : Replace(e) \/ Add(e)
  \/ Clear

Spec == Init /\ [][Next]_queue
=============================================================================
