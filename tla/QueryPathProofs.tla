-------------------------- MODULE QueryPathProofs --------------------------
(***************************************************************************)
(* Proofs about QueryPath, for any callers, statements and schemas: its    *)
(* types, the one runner that callers share, and the age of what they are  *)
(* answered.                                                               *)
(***************************************************************************)
EXTENDS QueryPath, TLAPS

USE BoundsAssumption, DdlAssumption, CallersAssumption

(***************************************************************************)
(* Type correctness.                                                       *)
(***************************************************************************)

\* A request to run a statement names one.
LEMMA QueryType ==
  ASSUME NEW r \in Requests, r.op = "run_sql"
  PROVE  r.sql \in Statements /\ r.memoize \in BOOLEAN /\ r.write \in BOOLEAN
BY DEF Requests, Queries

\* What a call leaves behind when it ends is well typed.
LEMMA LeaveType ==
  ASSUME TypeOK, NEW p \in Callers, Leave(p)
  PROVE  /\ gil' \in Sync \cup {None}
         /\ mutex' \in Callers \cup {None}
         /\ pc' \in [Callers -> {"idle", "pool", "connect", "lock", "locked",
                                 "read", "deliver"}]
         /\ request' \in [Callers -> Requests \cup {None}]
         /\ runner' \in [Callers -> Callers \cup {None}]
         /\ got' \in [Callers -> Versions \cup {None}]
         /\ taken' \in [Callers -> 0 .. MaxClears]
         /\ since' \in [Callers -> Versions]
BY DEF TypeOK, Leave, Forget, HolderAfter, Versions

\* A caller whose read is done has something to show for it.
HasRead == \A p \in Callers : pc[p] = "read" => got[p] # None

Typed == TypeOK /\ HasRead

LEMMA InitTyped == Init => Typed
BY DEF Init, Typed, TypeOK, HasRead, NothingKept, Versions

LEMMA NextType == Typed /\ [Next]_vars => TypeOK'
<1> SUFFICES ASSUME TypeOK, HasRead, [Next]_vars
             PROVE  TypeOK'
  BY DEF Typed
<1>1. ASSUME NEW p \in Callers, NEW r \in Requests, Call(p, r)
      PROVE  TypeOK'
  BY <1>1 DEF TypeOK, Call, shared, pooling, Requests, Queries
<1>2. ASSUME NEW p \in Callers, LookUp(p)
      PROVE  TypeOK'
  BY <1>2 DEF TypeOK, LookUp, Take, shared, pooling
<1>3. ASSUME NEW p \in Callers, Connect(p)
      PROVE  TypeOK'
  BY <1>3, SMTT(60) DEF TypeOK, Connect, Take, SharedRunner, shared
<1>4. ASSUME NEW p \in Callers, Lock(p)
      PROVE  TypeOK'
  BY <1>4 DEF TypeOK, Lock, shared, pooling
<1>5. ASSUME NEW p \in Callers,
             Inspect(p) \/ Refuse(p) \/ Hit(p) \/ ReadFails(p) \/ ConnectFails(p)
      PROVE  TypeOK'
  <2>1. Leave(p) /\ UNCHANGED <<live, shared, pooling>>
    BY <1>5 DEF Inspect, Refuse, Hit, ReadFails, ConnectFails
  <2>2. QED
    BY <2>1, LeaveType DEF TypeOK, shared, pooling
<1>6. ASSUME NEW p \in Callers, Execute(p)
      PROVE  TypeOK'
  <2>1. live' \in Versions
    BY <1>6 DEF TypeOK, Execute, Versions
  <2>2. QED
    BY <1>6, <2>1 DEF TypeOK, Execute, shared, pooling
<1>7. ASSUME NEW p \in Callers, Answer(p)
      PROVE  TypeOK'
  <2>1. memo' \in [Ddls -> [Statements -> Versions \cup {None}]]
    BY <1>7, QueryType DEF TypeOK, Answer, Asks, Memoized
  <2>2. QED
    BY <1>7, <2>1, LeaveType DEF TypeOK, Answer, pooling
<1>8. ASSUME NEW p \in Callers, Gather(p)
      PROVE  TypeOK'
  BY <1>8 DEF TypeOK, Gather, shared, pooling
<1>9. ASSUME NEW p \in Callers, Replace(p) \/ ReplaceFails(p)
      PROVE  TypeOK'
  <2>1. got[p] \in Versions /\ Ddl[got[p]] \in Ddls \cup {None}
    BY <1>9 DEF TypeOK, HasRead, Replace, ReplaceFails
  <2>2. Leave(p) /\ UNCHANGED <<live, pooling>> /\ known' = Ddl[got[p]]
    BY <1>9 DEF Replace, ReplaceFails
  <2>3. memo' \in [Ddls -> [Statements -> Versions \cup {None}]] /\ fresh' \in Versions
    BY <1>9, <2>1 DEF TypeOK, Replace, ReplaceFails, Emptied, NothingKept
  <2>4. QED
    BY <2>1, <2>2, <2>3, LeaveType DEF TypeOK, pooling
<1>10. ASSUME NEW p \in Callers, Deliver(p)
       PROVE  TypeOK'
  BY <1>10 DEF TypeOK, Deliver, shared, pooling
<1>11. ASSUME ClearPool
       PROVE  TypeOK'
  BY <1>11 DEF TypeOK, ClearPool, shared
<1>12. ASSUME Alter
       PROVE  TypeOK'
  BY <1>12 DEF TypeOK, Alter, shared, pooling, Versions
<1>13. CASE UNCHANGED vars
  BY <1>13 DEF TypeOK, vars
<1>14. QED
  BY <1>1, <1>2, <1>3, <1>4, <1>5, <1>6, <1>7, <1>8, <1>9, <1>10, <1>11, <1>12, <1>13
  DEF Next, Proceed

LEMMA NextHasRead == Typed /\ [Next]_vars => HasRead'
<1> SUFFICES ASSUME TypeOK, HasRead, [Next]_vars
             PROVE  HasRead'
  BY DEF Typed
<1>1. ASSUME NEW p \in Callers, Leave(p)
      PROVE  HasRead'
  BY <1>1 DEF TypeOK, HasRead, Leave, Forget
<1>2. ASSUME NEW p \in Callers, Execute(p) \/ Gather(p)
      PROVE  HasRead'
  <2>1. live' \in Versions /\ live \in Versions
    BY <1>2 DEF TypeOK, Execute, Gather, Versions
  <2>2. None \notin Versions
    BY NoneAssumption DEF Versions
  <2>3. QED
    BY <1>2, <2>1, <2>2 DEF TypeOK, HasRead, Execute, Gather
<1>3. ASSUME NEW p \in Callers, NEW r \in Requests, Call(p, r)
      PROVE  HasRead'
  BY <1>3 DEF TypeOK, HasRead, Call, Requests, Queries
<1>4. ASSUME NEW p \in Callers,
             LookUp(p) \/ Connect(p) \/ Lock(p) \/ Deliver(p)
      PROVE  HasRead'
  BY <1>4 DEF TypeOK, HasRead, LookUp, Connect, Take, Lock, Deliver
<1>5. ASSUME ClearPool \/ Alter \/ UNCHANGED vars
      PROVE  HasRead'
  BY <1>5 DEF HasRead, ClearPool, Alter, vars
<1>6. QED
  BY <1>1, <1>2, <1>3, <1>4, <1>5
  DEF Next, Proceed, Inspect, Refuse, Hit, Answer, Replace, ReplaceFails, ReadFails,
      ConnectFails

\* The query path is type-correct: in particular run_sql keeps and returns
\* only what was read from the database.
THEOREM TypeCorrect == Spec => []TypeOK
<1>1. Typed /\ [Next]_vars => Typed'
  BY NextType, NextHasRead DEF Typed
<1>2. Typed => TypeOK
  BY DEF Typed
<1>3. QED
  BY InitTyped, <1>1, <1>2, PTL DEF Spec

(***************************************************************************)
(* One runner.                                                             *)
(***************************************************************************)

\* Whoever was given a runner since the pool was last cleared has the pooled
\* one, and nobody has one of a time to come.
RunnerIsPooled ==
  \A p \in Callers :
    runner[p] # None =>
      /\ taken[p] <= cleared
      /\ taken[p] = cleared => runner[p] = pool

RunnerInv == Typed /\ RunnerIsPooled /\ OneRunner

LEMMA InitRunner == Init => RunnerInv
BY InitTyped DEF Init, RunnerInv, RunnerIsPooled, OneRunner

\* A caller is given what is in the pool, or what then is in the pool.
LEMMA TakeRunner ==
  ASSUME RunnerInv, NEW p \in Callers, NEW id \in Callers, Take(p, id),
         pool' = id, pool = None \/ pool = id, UNCHANGED cleared
  PROVE  RunnerIsPooled' /\ OneRunner'
<1>1. \A q \in Callers \ {p} : runner'[q] = runner[q] /\ taken'[q] = taken[q]
  BY DEF Take, RunnerInv, Typed, TypeOK
<1>2. runner'[p] = id /\ taken'[p] = cleared
  BY DEF Take, RunnerInv, Typed, TypeOK
<1>3. \A q \in Callers \ {p} : runner[q] # None /\ taken[q] = cleared => runner[q] = id
  BY DEF RunnerInv, RunnerIsPooled
<1>4. cleared \in Nat
  BY DEF RunnerInv, Typed, TypeOK
<1>5. RunnerIsPooled'
  BY <1>1, <1>2, <1>3, <1>4 DEF RunnerInv, RunnerIsPooled
<1>6. OneRunner'
  BY <1>1, <1>2, <1>3 DEF RunnerInv, OneRunner
<1>7. QED
  BY <1>5, <1>6

LEMMA NextRunner == RunnerInv /\ [Next]_vars => RunnerInv'
<1> SUFFICES ASSUME RunnerInv, [Next]_vars
             PROVE  RunnerIsPooled' /\ OneRunner'
  BY NextType, NextHasRead DEF RunnerInv, Typed
<1> USE DEF RunnerInv, RunnerIsPooled, OneRunner
<1>1. ASSUME NEW p \in Callers, LookUp(p)
      PROVE  RunnerIsPooled' /\ OneRunner'
  <2>1. CASE pool # None
    <3>1. pool \in Callers /\ Take(p, pool) /\ UNCHANGED <<pool, cleared>>
      BY <1>1, <2>1 DEF LookUp, pooling, Typed, TypeOK
    <3>2. QED
      BY <3>1, TakeRunner
  <2>2. CASE pool = None
    BY <1>1, <2>2 DEF LookUp, pooling
  <2>3. QED
    BY <2>1, <2>2
<1>2. ASSUME NEW p \in Callers, Connect(p)
      PROVE  RunnerIsPooled' /\ OneRunner'
  <2>1. CASE Asks(p, "run_sql")
    <3>1. /\ SharedRunner(p) \in Callers /\ Take(p, SharedRunner(p))
          /\ pool' = SharedRunner(p) /\ UNCHANGED cleared
          /\ pool = None \/ pool = SharedRunner(p)
      BY <1>2, <2>1 DEF Connect, SharedRunner, Typed, TypeOK
    <3>2. QED
      BY <3>1, TakeRunner
  <2>2. CASE ~Asks(p, "run_sql")
    BY <1>2, <2>2 DEF Connect
  <2>3. QED
    BY <2>1, <2>2
<1>3. ASSUME NEW p \in Callers, Leave(p), UNCHANGED pooling
      PROVE  RunnerIsPooled' /\ OneRunner'
  <2>1. runner'[p] = None /\ UNCHANGED <<pool, cleared>>
    BY <1>3 DEF Leave, Forget, pooling, Typed, TypeOK
  <2>2. \A q \in Callers \ {p} : runner'[q] = runner[q] /\ taken'[q] = taken[q]
    BY <1>3 DEF Leave, Forget, Typed, TypeOK
  <2>3. QED
    BY <2>1, <2>2
<1>4. ASSUME ClearPool
      PROVE  RunnerIsPooled' /\ OneRunner'
  <2>1. cleared' = cleared + 1 /\ cleared \in Nat /\ UNCHANGED <<runner, taken>>
    BY <1>4 DEF ClearPool, Typed, TypeOK
  <2>2. \A p \in Callers : taken[p] \in Nat
    BY DEF Typed, TypeOK
  <2>3. QED
    BY <2>1, <2>2
<1>5. ASSUME UNCHANGED <<pool, cleared, runner, taken>>
      PROVE  RunnerIsPooled' /\ OneRunner'
  BY <1>5
<1>6. ASSUME NEW p \in Callers,
             \/ \E r \in Requests : Call(p, r)
             \/ Lock(p) \/ Execute(p) \/ Gather(p) \/ Deliver(p)
      PROVE  UNCHANGED <<pool, cleared, runner, taken>>
  BY <1>6 DEF Call, Lock, Execute, Gather, Deliver, pooling
<1>7. ASSUME Alter \/ UNCHANGED vars
      PROVE  UNCHANGED <<pool, cleared, runner, taken>>
  BY <1>7 DEF Alter, pooling, vars
<1>8. ASSUME NEW p \in Callers,
             \/ Inspect(p) \/ Refuse(p) \/ Hit(p) \/ Answer(p) \/ Replace(p)
             \/ ReplaceFails(p) \/ ReadFails(p) \/ ConnectFails(p)
      PROVE  Leave(p) /\ UNCHANGED pooling
  BY <1>8 DEF Inspect, Refuse, Hit, Answer, Replace, ReplaceFails, ReadFails,
              ConnectFails
<1> HIDE DEF RunnerInv, RunnerIsPooled, OneRunner
<1>9. QED
  BY <1>1, <1>2, <1>3, <1>4, <1>5, <1>6, <1>7, <1>8 DEF Next, Proceed

\* Callers share one runner for as long as the pool is not cleared, however
\* many race to build it.
THEOREM RunnerIsShared == Spec => []OneRunner
<1>1. RunnerInv => OneRunner
  BY DEF RunnerInv
<1>2. QED
  BY InitRunner, NextRunner, <1>1, PTL DEF Spec

(***************************************************************************)
(* The age of answers.                                                     *)
(***************************************************************************)

\* Only the caller that has the cache is between Lock and Leave.
Exclusive == \A p \in Callers : pc[p] \in {"locked", "read"} => mutex = p

\* Nothing that is kept, or about to be, is older than the last refresh.
NothingOlder ==
  /\ fresh <= live
  /\ \A p \in Callers : since[p] <= fresh
  /\ \A p \in Callers : pc[p] = "read" => got[p] >= fresh /\ got[p] <= live
  /\ \A f \in Ddls, s \in Statements : memo[f][s] # None => memo[f][s] >= fresh

AgeInv == Typed /\ Exclusive /\ NothingOlder

LEMMA InitAge == Init => AgeInv
BY InitTyped DEF Init, AgeInv, Exclusive, NothingOlder, NothingKept

LEMMA NextExclusive == AgeInv /\ [Next]_vars => Exclusive'
<1> SUFFICES ASSUME AgeInv, [Next]_vars
             PROVE  Exclusive'
  OBVIOUS
<1> USE DEF AgeInv, Typed, TypeOK, Exclusive
<1>1. ASSUME NEW p \in Callers, Leave(p)
      PROVE  Exclusive'
  <2>1. \A q \in Callers : pc'[q] \in {"locked", "read"} => q # p /\ pc'[q] = pc[q]
    BY <1>1 DEF Leave
  <2>2. mutex # p => mutex' = mutex
    BY <1>1 DEF Leave
  <2>3. QED
    BY <2>1, <2>2
<1>2. ASSUME NEW p \in Callers, NEW r \in Requests, Call(p, r)
      PROVE  Exclusive'
  BY <1>2 DEF Call, Requests, Queries
<1>3. ASSUME NEW p \in Callers, LookUp(p) \/ Connect(p)
      PROVE  Exclusive'
  BY <1>3 DEF LookUp, Connect, Take
<1>4. ASSUME NEW p \in Callers, Lock(p)
      PROVE  Exclusive'
  BY <1>4 DEF Lock, Free
<1>5. ASSUME NEW p \in Callers, Execute(p) \/ Gather(p)
      PROVE  Exclusive'
  BY <1>5 DEF Execute, Gather
<1>6. ASSUME NEW p \in Callers, Deliver(p)
      PROVE  Exclusive'
  <2>1. pc[p] = "deliver" /\ mutex' = IF mutex = p THEN None ELSE mutex
    BY <1>6 DEF Deliver
  <2>2. \A q \in Callers : pc'[q] \in {"locked", "read"} => q # p /\ pc'[q] = pc[q]
    BY <1>6 DEF Deliver
  <2>3. QED
    BY <2>1, <2>2
<1>7. ASSUME ClearPool \/ Alter \/ UNCHANGED vars
      PROVE  Exclusive'
  BY <1>7 DEF ClearPool, Alter, vars
<1> HIDE DEF AgeInv, Typed, TypeOK, Exclusive
<1>8. QED
  BY <1>1, <1>2, <1>3, <1>4, <1>5, <1>6, <1>7
  DEF Next, Proceed, Inspect, Refuse, Hit, Answer, Replace, ReplaceFails, ReadFails,
      ConnectFails

\* The step that ends a block changes nothing of what callers have read but
\* its own.
LEMMA LeaveReads ==
  ASSUME AgeInv, NEW p \in Callers, Leave(p)
  PROVE  /\ \A q \in Callers : since'[q] <= fresh
         /\ \A q \in Callers : pc'[q] = "read" =>
              pc[q] = "read" /\ q # p /\ got'[q] = got[q]
BY DEF AgeInv, NothingOlder, Typed, TypeOK, Leave, Forget, Versions

LEMMA NextOlder == AgeInv /\ [Next]_vars => NothingOlder'
<1> SUFFICES ASSUME AgeInv, [Next]_vars
             PROVE  NothingOlder'
  OBVIOUS
<1>0. /\ live \in Nat /\ fresh \in Nat
      /\ \A q \in Callers : since[q] \in Nat /\ (got[q] # None => got[q] \in Nat)
      /\ \A f \in Ddls, s \in Statements : memo[f][s] # None => memo[f][s] \in Nat
  BY DEF AgeInv, Typed, TypeOK, Versions
<1>1. ASSUME NEW p \in Callers, Leave(p), UNCHANGED <<live, memo, fresh>>
      PROVE  NothingOlder'
  BY <1>1, LeaveReads DEF AgeInv, NothingOlder
<1>2. ASSUME NEW p \in Callers, Answer(p)
      PROVE  NothingOlder'
  <2>1. got[p] >= fresh /\ Leave(p) /\ UNCHANGED <<live, fresh>>
    BY <1>2 DEF AgeInv, NothingOlder, Answer
  <2>2. ASSUME NEW f \in Ddls, NEW s \in Statements, memo'[f][s] # None
        PROVE  memo'[f][s] >= fresh
    <3>1. memo'[f][s] = memo[f][s] \/ memo'[f][s] = got[p]
      BY <1>2 DEF Answer, AgeInv, Typed, TypeOK
    <3>2. QED
      BY <2>1, <2>2, <3>1 DEF AgeInv, NothingOlder
  <2>3. QED
    BY <2>1, <2>2, LeaveReads DEF AgeInv, NothingOlder
<1>3. ASSUME NEW p \in Callers, Replace(p)
      PROVE  NothingOlder'
  <2>1. /\ Leave(p) /\ fresh' = got[p] /\ UNCHANGED live /\ memo' = NothingKept
        /\ pc[p] = "read"
    BY <1>3 DEF Replace, Emptied
  <2>2. got[p] \in Nat /\ got[p] >= fresh
    BY <2>1, <1>0 DEF AgeInv, NothingOlder, Typed, HasRead
  <2>3. \A q \in Callers : pc[q] = "read" => q = p
    BY <2>1 DEF AgeInv, Exclusive
  <2>4. \A q \in Callers : pc'[q] # "read"
    BY <2>1, <2>3, LeaveReads
  <2>5. \A q \in Callers : since'[q] <= got[p]
    <3>1. \A q \in Callers : since'[q] <= fresh /\ since'[q] \in Nat
      BY <2>1, LeaveReads, LeaveType DEF AgeInv, Typed, Versions
    <3>2. QED
      BY <3>1, <2>2, <1>0
  <2>6. got[p] <= live
    BY <2>1, <1>0 DEF AgeInv, NothingOlder
  <2>7. QED
    BY <2>1, <2>4, <2>5, <2>6 DEF NothingOlder, NothingKept
<1>4. ASSUME NEW p \in Callers, Execute(p) \/ Gather(p)
      PROVE  NothingOlder'
  <2>1. /\ live' \in Nat /\ live' >= live
        /\ got'[p] = live'
        /\ \A q \in Callers \ {p} : got'[q] = got[q] /\ pc'[q] = pc[q]
        /\ UNCHANGED <<fresh, since, memo>>
    BY <1>4, <1>0 DEF Execute, Gather, shared, AgeInv, Typed, TypeOK
  <2>2. live' >= fresh
    BY <2>1, <1>0 DEF AgeInv, NothingOlder
  <2>3. ASSUME NEW q \in Callers, pc'[q] = "read"
        PROVE  got'[q] >= fresh /\ got'[q] <= live'
    <3>1. CASE q = p
      BY <2>1, <2>2, <3>1
    <3>2. CASE q # p
      <4>1. /\ pc[q] = "read" /\ got'[q] = got[q]
            /\ got[q] >= fresh /\ got[q] <= live
        BY <2>1, <2>3, <3>2 DEF AgeInv, NothingOlder
      <4>2. got[q] \in Nat
        BY <4>1, <1>0 DEF AgeInv, Typed, HasRead
      <4>3. QED
        BY <4>1, <4>2, <2>1, <1>0
    <3>3. QED
      BY <3>1, <3>2
  <2>4. QED
    BY <2>1, <2>2, <2>3 DEF AgeInv, NothingOlder
<1>5. ASSUME NEW p \in Callers, NEW r \in Requests, Call(p, r)
      PROVE  NothingOlder'
  <2>1. /\ \A q \in Callers : since'[q] = IF q = p THEN fresh ELSE since[q]
        /\ \A q \in Callers : pc'[q] = "read" => pc[q] = "read"
        /\ UNCHANGED <<live, memo, fresh, got>>
    BY <1>5 DEF Call, shared, AgeInv, Typed, TypeOK, Requests, Queries
  <2>2. QED
    BY <2>1, <1>0 DEF AgeInv, NothingOlder
<1>6. ASSUME NEW p \in Callers,
             LookUp(p) \/ Connect(p) \/ Lock(p) \/ Deliver(p)
      PROVE  NothingOlder'
  <2>1. /\ \A q \in Callers : pc'[q] = "read" => pc[q] = "read"
        /\ UNCHANGED <<live, memo, fresh, got, since>>
    BY <1>6 DEF LookUp, Connect, Take, Lock, Deliver, shared, AgeInv, Typed, TypeOK
  <2>2. QED
    BY <2>1 DEF AgeInv, NothingOlder
<1>7. ASSUME Alter
      PROVE  NothingOlder'
  <2>1. live' = live + 1 /\ UNCHANGED <<memo, fresh, got, since, pc>>
    BY <1>7 DEF Alter, shared
  <2>2. \A q \in Callers : pc[q] = "read" => got[q] \in Nat
    BY <1>0 DEF AgeInv, Typed, HasRead
  <2>3. QED
    BY <2>1, <2>2, <1>0 DEF AgeInv, NothingOlder
<1>8. ASSUME ClearPool \/ UNCHANGED vars
      PROVE  NothingOlder'
  BY <1>8 DEF ClearPool, shared, vars, AgeInv, NothingOlder
<1>9. ASSUME NEW p \in Callers,
             \/ Inspect(p) \/ Refuse(p) \/ Hit(p) \/ ReplaceFails(p)
             \/ ReadFails(p) \/ ConnectFails(p)
      PROVE  Leave(p) /\ UNCHANGED <<live, memo, fresh>>
  BY <1>9 DEF Inspect, Refuse, Hit, ReplaceFails, ReadFails, ConnectFails, shared
<1>10. QED
  BY <1>1, <1>2, <1>3, <1>4, <1>5, <1>6, <1>7, <1>8, <1>9 DEF Next, Proceed

LEMMA AgeOfAnswers ==
  ASSUME AgeInv, NEW p \in Callers
  PROVE  /\ Hit(p) => Kept(p) >= since[p]
         /\ Answer(p) => got[p] >= since[p]
<1>1. fresh \in Nat /\ since[p] \in Nat /\ since[p] <= fresh
  BY DEF AgeInv, NothingOlder, Typed, TypeOK, Versions
<1>2. ASSUME Hit(p)
      PROVE  Kept(p) >= since[p]
  <2>1. known \in Ddls /\ request[p].sql \in Statements /\ Kept(p) # None
    BY <1>2, QueryType DEF Hit, Memoized, Asks, AgeInv, Typed, TypeOK
  <2>2. Kept(p) \in Nat /\ Kept(p) >= fresh
    BY <2>1 DEF Kept, AgeInv, NothingOlder, Typed, TypeOK, Versions
  <2>3. QED
    BY <1>1, <2>2
<1>3. ASSUME Answer(p)
      PROVE  got[p] >= since[p]
  <2>1. got[p] \in Nat /\ got[p] >= fresh
    BY <1>3 DEF Answer, AgeInv, NothingOlder, Typed, HasRead, TypeOK, Versions
  <2>2. QED
    BY <1>1, <2>1
<1>4. QED
  BY <1>2, <1>3

\* Nobody is answered with something older than the last refresh that had
\* returned when the call began, whoever shares the cache.
THEOREM AnswersFollowRefresh == Spec => NothingOlderThanRefresh
<1>1. AgeInv /\ [Next]_vars => AgeInv'
  BY NextType, NextHasRead, NextExclusive, NextOlder DEF AgeInv, Typed
<1>2. AgeInv /\ [Next]_vars =>
        [\A p \in Callers :
           /\ Hit(p) => Kept(p) >= since[p]
           /\ Answer(p) => got[p] >= since[p]]_vars
  BY AgeOfAnswers
<1>3. QED
  BY InitAge, <1>1, <1>2, PTL DEF Spec, NothingOlderThanRefresh
=============================================================================
