--------------------------- MODULE SessionPoolProofs ---------------------------
(***************************************************************************)
(* Theorems about SessionPool, for any number of items and groups.          *)
(*                                                                         *)
(* Every item at work has a task of its own among the active ones, and what *)
(* is left to do has one that is active or queued until the run stops or    *)
(* breaks; so a group is at one item at a time, and when no task is left    *)
(* nothing is.                                                             *)
(***************************************************************************)
EXTENDS SessionPool, FiniteSetTheorems, SequenceTheorems, WellFoundedInduction, TLAPS

Elements(q) == {q[k] : k \in DOMAIN q}
Distinct(q) == \A k, m \in DOMAIN q : q[k] = q[m] => k = m

Flags == aborted \in BOOLEAN /\ paused \in BOOLEAN /\ awaited \in BOOLEAN /\ alive \in BOOLEAN

\* Nothing waits twice, and a re-run only of what was put off.
Queues ==
  /\ Distinct(queue) /\ Distinct(gate)
  /\ \A i \in Items : Retry(i) \in active \cup Waiting => i \in requeued

\* The governor's ceiling holds whatever becomes of the permits.
Ceiling == IsFiniteSet(active) /\ Cardinality(active) <= Configured

\* What the standing of an item says of its re-run, of the run and of its group.
Standing ==
  \A i \in Items :
    /\ at[i] = "todo" => i \notin requeued
    /\ at[i] = "again" => i \in requeued
    /\ at[i] = "parked" => paused
    /\ at[i] = "broken" => /\ ~alive \/ pool # "running"
                           /\ i \notin requeued => GroupTask(i) \notin active \cup Waiting

\* An item at work has an active task of its own, and the gate's head folds.
Working ==
  /\ \A i \in Items : at[i] \in AtWork => TaskOf(i) \in active
  /\ \A i, k \in Items : at[i] \in AtWork /\ at[k] \in AtWork /\ TaskOf(i) = TaskOf(k) => i = k
  /\ \A i \in Items : at[i] = "folding" => gate # <<>> /\ Head(gate) = i

\* Until the run stops or breaks, whatever is left to do has a task to do it.
Covered ==
  alive /\ pool = "running" /\ ~Stopped =>
    \A i \in Items : /\ at[i] = "todo" => GroupTask(i) \in active \cup Waiting
                     /\ at[i] = "again" => Retry(i) \in active \cup Waiting

Inv == TypeOK /\ Flags /\ Queues /\ Ceiling /\ Standing /\ Working /\ Covered

-------------------------------------------------------------------------------
(* Sequences without duplicates *)

LEMMA TailOfDistinct ==
  ASSUME NEW S, NEW q \in Seq(S), q # <<>>, Distinct(q)
  PROVE  /\ Head(q) \in S /\ Head(q) \in Elements(q) /\ Tail(q) \in Seq(S)
         /\ Elements(Tail(q)) = Elements(q) \ {Head(q)} /\ Distinct(Tail(q))
<1>1. /\ Len(q) \in Nat \ {0} /\ DOMAIN q = 1 .. Len(q) /\ Head(q) = q[1]
  BY EmptySeq, LenProperties
<1>2. /\ Head(q) \in S /\ Tail(q) \in Seq(S) /\ Len(Tail(q)) = Len(q) - 1
      /\ \A i \in 1 .. Len(Tail(q)) : Tail(q)[i] = q[i + 1]
  BY HeadTailProperties
<1>3. DOMAIN Tail(q) = 1 .. Len(q) - 1
  BY <1>2, LenProperties
<1>4. Distinct(Tail(q))
  BY <1>1, <1>2, <1>3 DEF Distinct
<1>5. ASSUME NEW x \in Elements(Tail(q))  PROVE x \in Elements(q) \ {Head(q)}
  <2>1. PICK k \in 1 .. Len(q) - 1 : x = q[k + 1]
    BY <1>2, <1>3, <1>5 DEF Elements
  <2>2. k + 1 \in DOMAIN q /\ 1 \in DOMAIN q /\ k + 1 # 1
    BY <1>1, <2>1
  <2> QED  BY <1>1, <2>1, <2>2 DEF Elements, Distinct
<1>6. ASSUME NEW x \in Elements(q) \ {Head(q)}  PROVE x \in Elements(Tail(q))
  <2>1. PICK k \in 1 .. Len(q) : x = q[k]
    BY <1>1, <1>6 DEF Elements
  <2>2. k - 1 \in 1 .. Len(q) - 1
    BY <1>1, <1>6, <2>1
  <2>3. Tail(q)[k - 1] = q[k]
    BY <1>1, <1>2, <2>1, <2>2
  <2> QED  BY <1>3, <2>1, <2>2, <2>3 DEF Elements
<1>7. Elements(Tail(q)) = Elements(q) \ {Head(q)}
  BY <1>5, <1>6
<1>8. Head(q) \in Elements(q)
  BY <1>1 DEF Elements
<1> QED  BY <1>2, <1>4, <1>7, <1>8

LEMMA AppendToDistinct ==
  ASSUME NEW S, NEW q \in Seq(S), Distinct(q), NEW x \in S, x \notin Elements(q)
  PROVE  /\ Append(q, x) \in Seq(S) /\ Elements(Append(q, x)) = Elements(q) \cup {x}
         /\ Distinct(Append(q, x)) /\ Append(q, x) # <<>>
         /\ q # <<>> => Head(Append(q, x)) = Head(q)
<1> DEFINE r == Append(q, x)
<1>1. /\ r \in Seq(S) /\ r # <<>> /\ Len(r) = Len(q) + 1
      /\ \A i \in 1 .. Len(q) : r[i] = q[i]
      /\ r[Len(q) + 1] = x
  BY AppendProperties
<1>2. Len(q) \in Nat /\ DOMAIN q = 1 .. Len(q) /\ DOMAIN r = 1 .. Len(q) + 1
  BY <1>1, LenProperties
<1>3. q # <<>> => Head(r) = Head(q)
  BY HeadTailAppend
<1> HIDE DEF r
<1>4. \A k \in DOMAIN r : (k \in DOMAIN q /\ r[k] = q[k]) \/ (k = Len(q) + 1 /\ r[k] = x)
  BY <1>1, <1>2
<1>5. \A k \in DOMAIN q : k \in DOMAIN r /\ r[k] = q[k] /\ q[k] # x
  BY <1>1, <1>2 DEF Elements
<1>6. Distinct(r)
  BY <1>4, <1>5 DEF Distinct
<1>7. Elements(r) = Elements(q) \cup {x}
  <2>1. Len(q) + 1 \in DOMAIN r
    BY <1>2
  <2> QED  BY <1>1, <1>4, <1>5, <2>1 DEF Elements
<1> QED  BY <1>1, <1>3, <1>6, <1>7 DEF r

-------------------------------------------------------------------------------
(* Groups and their tasks *)

LEMMA EveryGroupHasALeader ==
  ASSUME NEW i \in Items
  PROVE  \E k \in Group(i) : k \in Leaders
<1>1. Group(i) \subseteq Nat /\ i \in Group(i)
  BY PoolAssumption DEF Group, Items
<1>2. PICK k \in Group(i) : \A m \in Group(i) : ~ <<m, k>> \in OpToRel(<, Nat)
  BY <1>1, WFMin, NatLessThanWellFounded
<1>3. \A m \in Group(i) : k <= m
  <2>1. k \in Nat /\ \A m \in Group(i) : m \in Nat /\ ~ (m < k)
    BY <1>1, <1>2, Zenon DEF OpToRel
  <2> QED  BY <2>1
<1>4. Group(k) = Group(i)
  BY <1>2 DEF Group
<1> QED  BY <1>2, <1>3, <1>4 DEF Leaders, Group

LEMMA TasksTell ==
  ASSUME NEW i \in Items
  PROVE  /\ GroupTask(i) \in Tasks /\ Retry(i) \in Tasks
         /\ ~GroupTask(i).re /\ GroupTask(i).of \in Group(i) /\ GroupTask(i).of \in Leaders
         /\ Retry(i).re /\ Retry(i).of = i
         /\ \A k \in Items : /\ GroupTask(i) # Retry(k)
                             /\ Retry(i) = Retry(k) => i = k
                             /\ k \in Group(i) => GroupTask(k) = GroupTask(i)
<1>1. (CHOOSE k \in Group(i) : k \in Leaders) \in Group(i) \cap Leaders
  BY EveryGroupHasALeader
<1>2. ASSUME NEW k \in Group(i)  PROVE GroupTask(k) = GroupTask(i)
  <2>1. Group(k) = Group(i)
    BY DEF Group
  <2> QED  BY <2>1 DEF GroupTask
<1>3. ASSUME NEW k \in Items  PROVE GroupTask(i) # Retry(k) /\ (Retry(i) = Retry(k) => i = k)
  BY DEF GroupTask, Retry
<1> QED  BY <1>1, <1>2, <1>3 DEF GroupTask, Retry, Tasks

\* A group's task is the task of each of its members, a re-run's of its item.
LEMMA TaskIsOf ==
  ASSUME NEW t \in Tasks
  PROVE  /\ t.re \in BOOLEAN /\ t.of \in Items
         /\ ~t.re => \A i \in Group(t.of) : i \in Items /\ GroupTask(i) = t
         /\ \A i \in Items : GroupTask(i) = t => ~t.re /\ i \in Group(t.of)
         /\ t.re => t = Retry(t.of)
         /\ \A i \in Items : Retry(i) = t => t.re /\ t.of = i
<1>1. CASE \E k \in Items : t = GroupTask(k)
  <2>1. PICK k \in Items : t = GroupTask(k)
    BY <1>1
  <2>2. t.re = FALSE /\ t.of \in Group(k) /\ t.of \in Items
    BY <2>1, TasksTell DEF Group, GroupTask
  <2>3. Group(t.of) = Group(k)
    BY <2>2 DEF Group
  <2>4. \A i \in Group(t.of) : i \in Items /\ GroupTask(i) = t
    BY <2>1, <2>3, TasksTell DEF Group
  <2>5. ASSUME NEW i \in Items, GroupTask(i) = t  PROVE i \in Group(t.of)
    BY <2>5, TasksTell DEF Group
  <2>6. \A i \in Items : Retry(i) # t
    BY <2>1, TasksTell
  <2> QED  BY <2>2, <2>4, <2>5, <2>6
<1>2. CASE \E k \in Items : t = Retry(k)
  <2>1. PICK k \in Items : t = Retry(k)
    BY <1>2
  <2>2. t.re = TRUE /\ t.of = k
    BY <2>1 DEF Retry
  <2> QED  BY <2>1, <2>2, TasksTell
<1> QED  BY <1>1, <1>2 DEF Tasks

-------------------------------------------------------------------------------
(* The limit and its tasks *)

LEMMA FewerStayBelow ==
  ASSUME Ceiling, active' \in SUBSET active
  PROVE  Ceiling'
<1>1. /\ IsFiniteSet(active') /\ Cardinality(active') <= Cardinality(active)
      /\ Cardinality(active) <= Configured
  BY FS_Subset DEF Ceiling
<1>2. Cardinality(active) \in Nat /\ Cardinality(active') \in Nat /\ Configured \in Nat
  BY <1>1, FS_CardinalityType, PoolAssumption DEF Ceiling
<1> QED  BY <1>1, <1>2 DEF Ceiling

LEMMA InitEstablishes ==
  ASSUME Init
  PROVE  Inv
<1> DEFINE n == Cardinality(Leaders)
           f == [k \in 1 .. n |-> queue[k].of]
<1>1. IsFiniteSet(Leaders) /\ n \in Nat
  <2>1. Leaders \in SUBSET Items /\ IsFiniteSet(Items)
    BY PoolAssumption, FS_Interval DEF Leaders, Items
  <2> QED  BY <2>1, FS_Subset, FS_CardinalityType
<1>2. queue \in Seq(Tasks) /\ DOMAIN queue = 1 .. n
  BY <1>1 DEF Init
<1>3. \A k, m \in 1 .. n : queue[k].of = queue[m].of => k = m
  <2>1. \A k \in 1 .. n : queue[k].of \in Nat
    <3>1. \A k \in 1 .. n : queue[k].of \in Leaders
      BY <1>2 DEF Init
    <3>2. Leaders \subseteq Nat
      BY PoolAssumption DEF Leaders, Items
    <3> QED  BY <3>1, <3>2
  <2>2. \A k, m \in 1 .. n : k < m => queue[k].of < queue[m].of
    BY <1>2 DEF Init
  <2> QED  BY <1>1, <2>1, <2>2
<1>4. f \in Injection(1 .. n, Leaders)
  <2>1. f \in [1 .. n -> Leaders]
    BY <1>2 DEF Init
  <2>2. \A k, m \in 1 .. n : f[k] = f[m] => k = m
    BY <1>3
  <2> QED  BY <2>1, <2>2 DEF Injection, IsInjective
<1>5. f \in Surjection(1 .. n, Leaders)
  <2>1. Cardinality(1 .. n) = n
    BY <1>1, FS_Interval
  <2> QED  BY <1>1, <1>4, <2>1, FS_Injection
<1>6. ASSUME NEW i \in Items  PROVE GroupTask(i) \in Waiting
  <2>1. PICK k \in 1 .. n : f[k] = GroupTask(i).of
    BY <1>5, TasksTell DEF Surjection
  <2>2. queue[k] \in Tasks /\ ~queue[k].re /\ queue[k].of = GroupTask(i).of
    BY <1>2, <2>1 DEF Init
  <2>3. queue[k] = GroupTask(i)
    BY <2>2, TasksTell, TaskIsOf
  <2> QED  BY <1>2, <2>3 DEF Waiting
<1>7. TypeOK
  BY <1>2, PoolAssumption DEF Init, TypeOK
<1>8. Flags /\ Standing /\ Working
  BY DEF Init, Flags, Standing, Working, AtWork
<1>9. Queues
  <2>1. \A i \in Items : Retry(i) \notin active \cup Waiting
    BY <1>2, TasksTell DEF Init, Waiting
  <2> QED  BY <1>2, <1>3, <2>1 DEF Init, Queues, Distinct
<1>10. Ceiling
  BY FS_EmptySet, PoolAssumption DEF Init, Ceiling
<1>11. Covered
  BY <1>6 DEF Init, Covered
<1> QED  BY <1>7, <1>8, <1>9, <1>10, <1>11 DEF Inv

LEMMA DequeueKeeps ==
  ASSUME Inv, Dequeue
  PROVE  Inv'
<1>1. /\ Head(queue) \in Tasks /\ Head(queue) \in Waiting /\ Tail(queue) \in Seq(Tasks)
      /\ Waiting' = Waiting \ {Head(queue)} /\ Distinct(queue)'
  <2>1. queue \in Seq(Tasks) /\ queue # <<>> /\ Distinct(queue) /\ queue' = Tail(queue)
    BY DEF Inv, TypeOK, Queues, Dequeue
  <2>2. Waiting = Elements(queue) /\ Waiting' = Elements(queue') /\ Distinct(queue)' = Distinct(queue')
    BY DEF Waiting, Elements, Distinct
  <2> QED  BY <2>1, <2>2, TailOfDistinct
<1>2. active' \cup Waiting' = active \cup Waiting /\ active \subseteq active'
  BY <1>1 DEF Dequeue
<1>3. TypeOK'
  BY <1>1 DEF Inv, TypeOK, Dequeue, governor
<1>4. Flags' /\ Standing' /\ Working'
  BY <1>2 DEF Inv, Flags, Standing, Working, TaskOf, Dequeue
<1>5. Queues'
  BY <1>1, <1>2 DEF Inv, Queues, Distinct, Dequeue
<1>6. Ceiling'
  <2>1. Cardinality(active) \in Nat /\ Cardinality(active) < permits /\ permits <= Configured
    BY FS_CardinalityType, PoolAssumption DEF Inv, Ceiling, TypeOK, Dequeue
  <2>2. IsFiniteSet(active') /\ Cardinality(active') <= Cardinality(active) + 1
    <3>1. IsFiniteSet(active) /\ active' = active \cup {Head(queue)}
      BY DEF Inv, Ceiling, Dequeue
    <3> QED  BY <2>1, <3>1, FS_AddElement
  <2>3. permits \in Nat /\ Configured \in Nat /\ Cardinality(active') \in Nat
    BY <2>2, FS_CardinalityType, PoolAssumption DEF Inv, TypeOK
  <2> QED  BY <2>1, <2>2, <2>3 DEF Ceiling
<1>7. Covered'
  BY <1>2 DEF Inv, Covered, Stopped, Dequeue
<1> QED  BY <1>3, <1>4, <1>5, <1>6, <1>7 DEF Inv

LEMMA StartItemKeeps ==
  ASSUME Inv, NEW t \in active, StartItem(t)
  PROVE  Inv'
<1>1. PICK i \in Items : /\ at[i] \in {"todo", "again"} /\ TaskOf(i) = t
                        /\ at' = [at EXCEPT ![i] = "session"]
  <2>1. CASE t.re /\ at[t.of] = "again" /\ at' = [at EXCEPT ![t.of] = "session"]
    BY <2>1, TaskIsOf DEF Inv, TypeOK, Standing, TaskOf
  <2>2. CASE ~t.re /\ \E i \in Left(t) : at' = [at EXCEPT ![i] = "session"]
    BY <2>2, TaskIsOf DEF Inv, TypeOK, Standing, TaskOf, Left
  <2> QED  BY <2>1, <2>2 DEF StartItem
<1>2. UNCHANGED <<queue, active, requeued, gate, governor, aborted, paused, awaited, pool, alive>>
  BY DEF StartItem
<1>3. TypeOK'
  BY <1>1, <1>2 DEF Inv, TypeOK, governor, Waiting
<1>4. Flags' /\ Queues' /\ Ceiling'
  BY <1>2 DEF Inv, Flags, Queues, Ceiling, Waiting, Distinct
<1>5. Standing'
  BY <1>1, <1>2 DEF Inv, TypeOK, Standing, Waiting
<1>6. Working'
  BY <1>1, <1>2 DEF Inv, TypeOK, Working, TaskOf, AtWork, Doing, StartItem
<1>7. Covered'
  BY <1>1, <1>2 DEF Inv, TypeOK, Covered, Stopped, Waiting
<1> QED  BY <1>3, <1>4, <1>5, <1>6, <1>7 DEF Inv

LEMMA EndTaskKeeps ==
  ASSUME Inv, NEW t \in active, EndTask(t)
  PROVE  Inv'
<1>1. TypeOK' /\ Flags'
  BY DEF Inv, TypeOK, Flags, Waiting, EndTask, governor
<1>2. Queues'
  BY DEF Inv, Queues, Distinct, Waiting, EndTask
<1>3. Ceiling'
  <2>1. active' \in SUBSET active
    BY DEF EndTask
  <2> QED  BY <2>1, FewerStayBelow DEF Inv
<1>4. Standing'
  BY DEF Inv, Standing, Waiting, EndTask
<1>5. Working'
  BY DEF Inv, Working, TaskOf, Doing, EndTask
<1>6. Covered'
  <2>1. t \in Tasks
    BY DEF Inv, TypeOK
  <2>2. ASSUME NEW i \in Items, ~Stopped, at[i] = "todo"  PROVE GroupTask(i) # t
    BY <2>1, <2>2, TaskIsOf DEF EndTask, Left
  <2>3. ASSUME NEW i \in Items, ~Stopped, at[i] = "again"  PROVE Retry(i) # t
    BY <2>1, <2>3, TaskIsOf DEF EndTask
  <2> QED  BY <2>2, <2>3 DEF Inv, Covered, Stopped, Waiting, EndTask
<1> QED  BY <1>1, <1>2, <1>3, <1>4, <1>5, <1>6 DEF Inv

-------------------------------------------------------------------------------
(* The sessions, the governor and the fold *)

LEMMA ProviderRetryKeeps ==
  ASSUME Inv, NEW i \in Items, ProviderRetry(i)
  PROVE  Inv'
<1>1. TypeOK'
  <2>1. permits' \in 1 .. Configured
    BY PoolAssumption DEF Inv, TypeOK, ProviderRetry, Halve
  <2> QED  BY <2>1, PoolAssumption DEF Inv, TypeOK, Waiting, ProviderRetry
<1> QED  BY <1>1 DEF Inv, Flags, Queues, Ceiling, Standing, Working, Covered,
                     Distinct, TaskOf, Stopped, Waiting, ProviderRetry

LEMMA AssistantTurnKeeps ==
  ASSUME Inv, NEW i \in Items, AssistantTurn(i)
  PROVE  Inv'
<1>1. TypeOK'
  <2>1. permits' \in 1 .. Configured /\ cleanTurns' \in 0 .. RestoreTurns - 1
    BY PoolAssumption DEF Inv, TypeOK, AssistantTurn
  <2> QED  BY <2>1 DEF Inv, TypeOK, Waiting, AssistantTurn
<1> QED  BY <1>1 DEF Inv, Flags, Queues, Ceiling, Standing, Working, Covered,
                     Distinct, TaskOf, Stopped, Waiting, AssistantTurn

LEMMA ParkKeeps ==
  ASSUME Inv, NEW i \in Items, Park(i)
  PROVE  Inv'
<1>1. TypeOK'
  BY DEF Inv, TypeOK, Waiting, governor, Park
<1>2. Flags' /\ Queues' /\ Ceiling'
  BY DEF Inv, Flags, Queues, Ceiling, Distinct, Waiting, Park
<1>3. Standing'
  BY DEF Inv, TypeOK, Standing, Waiting, Park
<1>4. Working'
  BY DEF Inv, TypeOK, Working, TaskOf, AtWork, Park
<1>5. Covered'
  BY DEF Covered, Stopped, Park
<1> QED  BY <1>1, <1>2, <1>3, <1>4, <1>5 DEF Inv

LEMMA RequeueKeeps ==
  ASSUME Inv, NEW i \in Items, Requeue(i)
  PROVE  Inv'
<1>1. /\ queue' \in Seq(Tasks) /\ Waiting' = Waiting \cup {Retry(i)} /\ Distinct(queue)'
      /\ Retry(i) \notin active
  <2>1. /\ queue \in Seq(Tasks) /\ Distinct(queue) /\ queue' = Append(queue, Retry(i))
        /\ Retry(i) \in Tasks /\ Retry(i) \notin active \cup Waiting
    BY TasksTell DEF Inv, TypeOK, Queues, Requeue
  <2>2. Waiting = Elements(queue) /\ Waiting' = Elements(queue') /\ Distinct(queue)' = Distinct(queue')
    BY DEF Waiting, Elements, Distinct
  <2> QED  BY <2>1, <2>2, AppendToDistinct
<1>2. \A k \in Items : GroupTask(k) # Retry(i) /\ (Retry(k) = Retry(i) => k = i)
  BY TasksTell
<1>3. TypeOK'
  BY <1>1 DEF Inv, TypeOK, governor, Requeue
<1>4. Flags' /\ Ceiling'
  BY DEF Inv, Flags, Ceiling, Requeue
<1>5. Queues'
  BY <1>1, <1>2 DEF Inv, Queues, Distinct, Requeue
<1>6. Standing'
  BY <1>1, <1>2 DEF Inv, TypeOK, Standing, Requeue
<1>7. Working'
  BY DEF Inv, TypeOK, Working, TaskOf, AtWork, Requeue
<1>8. Covered'
  BY <1>1 DEF Inv, TypeOK, Covered, Stopped, Requeue
<1> QED  BY <1>3, <1>4, <1>5, <1>6, <1>7, <1>8 DEF Inv

LEMMA CompleteKeeps ==
  ASSUME Inv, NEW i \in Items, Complete(i)
  PROVE  Inv'
<1>1. /\ gate' \in Seq(Items) /\ Elements(gate') = Elements(gate) \cup {i} /\ Distinct(gate)'
      /\ gate' # <<>> /\ gate # <<>> => Head(gate') = Head(gate)
  <2>1. /\ gate \in Seq(Items) /\ Distinct(gate) /\ gate' = Append(gate, i)
        /\ i \notin Elements(gate)
    BY DEF Inv, TypeOK, Queues, Elements, Complete
  <2>2. Distinct(gate)' = Distinct(gate')
    BY DEF Distinct
  <2> QED  BY <2>1, <2>2, AppendToDistinct
<1>2. TypeOK'
  <2>1. /\ at' \in [Items -> {"todo", "session", "again", "gate", "folding", "folded", "broken", "parked"}]
        /\ {k \in Items : at'[k] \in {"gate", "folding"}} = {k \in Items : at[k] \in {"gate", "folding"}} \cup {i}
    BY DEF Inv, TypeOK, Complete
  <2>2. Elements(gate) = {k \in Items : at[k] \in {"gate", "folding"}}
    BY DEF Inv, TypeOK, Elements
  <2>3. gate' \in Seq(Items) /\ {gate[k] : k \in DOMAIN gate}' = {k \in Items : at'[k] \in {"gate", "folding"}}
    BY <1>1, <2>1, <2>2 DEF Elements
  <2> QED  BY <2>1, <2>3 DEF Inv, TypeOK, Waiting, governor, Complete
<1>3. Flags' /\ Queues' /\ Ceiling'
  BY <1>1 DEF Inv, Flags, Queues, Ceiling, Distinct, Waiting, Complete
<1>4. Standing'
  BY DEF Inv, TypeOK, Standing, Waiting, Complete
<1>5. Working'
  BY <1>1 DEF Inv, TypeOK, Working, TaskOf, AtWork, Complete
<1>6. Covered'
  BY DEF Inv, TypeOK, Covered, Stopped, Waiting, Complete
<1> QED  BY <1>2, <1>3, <1>4, <1>5, <1>6 DEF Inv

LEMMA BeginFoldKeeps ==
  ASSUME Inv, NEW i \in Items, BeginFold(i)
  PROVE  Inv'
<1>1. TypeOK'
  BY DEF Inv, TypeOK, Waiting, governor, BeginFold
<1>2. Flags' /\ Queues' /\ Ceiling'
  BY DEF Inv, Flags, Queues, Ceiling, Distinct, Waiting, BeginFold
<1>3. Standing'
  BY DEF Inv, TypeOK, Standing, Waiting, BeginFold
<1>4. Working'
  <2>1. gate # <<>>
    BY DEF Inv, TypeOK, BeginFold
  <2> QED  BY <2>1 DEF Inv, TypeOK, Working, TaskOf, AtWork, BeginFold
<1>5. Covered'
  BY DEF Inv, TypeOK, Covered, Stopped, Waiting, BeginFold
<1> QED  BY <1>1, <1>2, <1>3, <1>4, <1>5 DEF Inv

\* The item that folds is at the gate's head, and leaves it.
LEMMA GateOpens ==
  ASSUME Inv, NEW i \in Items, at[i] = "folding", gate' = Tail(gate)
  PROVE  /\ gate' \in Seq(Items) /\ Elements(gate') = Elements(gate) \ {i} /\ Distinct(gate)'
         /\ \A k \in Items : at[k] = "folding" => k = i
<1>1. gate \in Seq(Items) /\ Distinct(gate) /\ gate # <<>> /\ Head(gate) = i
  BY DEF Inv, TypeOK, Queues, Working
<1>2. Distinct(gate)' = Distinct(gate')
  BY DEF Distinct
<1>3. \A k \in Items : at[k] = "folding" => k = i
  BY <1>1 DEF Inv, Working
<1> QED  BY <1>1, <1>2, <1>3, TailOfDistinct

LEMMA EndFoldKeeps ==
  ASSUME Inv, NEW i \in Items, EndFold(i)
  PROVE  Inv'
<1>1. /\ gate' \in Seq(Items) /\ Elements(gate') = Elements(gate) \ {i} /\ Distinct(gate)'
      /\ \A k \in Items : at[k] = "folding" => k = i
  BY GateOpens DEF EndFold
<1>2. TypeOK'
  <2>1. /\ at' \in [Items -> {"todo", "session", "again", "gate", "folding", "folded", "broken", "parked"}]
        /\ {k \in Items : at'[k] \in {"gate", "folding"}} = {k \in Items : at[k] \in {"gate", "folding"}} \ {i}
    BY DEF Inv, TypeOK, EndFold
  <2>2. Elements(gate) = {k \in Items : at[k] \in {"gate", "folding"}}
    BY DEF Inv, TypeOK, Elements
  <2>3. gate' \in Seq(Items) /\ {gate[k] : k \in DOMAIN gate}' = {k \in Items : at'[k] \in {"gate", "folding"}}
    BY <1>1, <2>1, <2>2 DEF Elements
  <2> QED  BY <2>1, <2>3 DEF Inv, TypeOK, Waiting, governor, EndFold
<1>3. Flags' /\ Queues' /\ Ceiling'
  BY <1>1 DEF Inv, Flags, Queues, Ceiling, Distinct, Waiting, EndFold
<1>4. Standing'
  BY DEF Inv, TypeOK, Standing, Waiting, EndFold
<1>5. Working'
  BY <1>1 DEF Inv, TypeOK, Working, TaskOf, AtWork, EndFold
<1>6. Covered'
  BY DEF Inv, TypeOK, Covered, Stopped, Waiting, EndFold
<1> QED  BY <1>2, <1>3, <1>4, <1>5, <1>6 DEF Inv

LEMMA BreakFoldKeeps ==
  ASSUME Inv, NEW i \in Items, BreakFold(i)
  PROVE  Inv'
<1>1. /\ gate' \in Seq(Items) /\ Elements(gate') = Elements(gate) \ {i} /\ Distinct(gate)'
      /\ \A k \in Items : at[k] = "folding" => k = i
  BY GateOpens DEF BreakFold
<1>2. ~alive' \/ pool' # "running"
  BY DEF BreakFold
<1>3. TypeOK'
  <2>1. /\ at' \in [Items -> {"todo", "session", "again", "gate", "folding", "folded", "broken", "parked"}]
        /\ {k \in Items : at'[k] \in {"gate", "folding"}} = {k \in Items : at[k] \in {"gate", "folding"}} \ {i}
    BY DEF Inv, TypeOK, BreakFold
  <2>2. Elements(gate) = {k \in Items : at[k] \in {"gate", "folding"}}
    BY DEF Inv, TypeOK, Elements
  <2>3. gate' \in Seq(Items) /\ {gate[k] : k \in DOMAIN gate}' = {k \in Items : at'[k] \in {"gate", "folding"}}
    BY <1>1, <2>1, <2>2 DEF Elements
  <2> QED  BY <2>1, <2>3 DEF Inv, TypeOK, Waiting, governor, BreakFold
<1>4. Flags'
  BY DEF Inv, Flags, BreakFold
<1>5. Queues'
  BY <1>1 DEF Inv, Queues, Distinct, Waiting, BreakFold
<1>6. Ceiling'
  BY FewerStayBelow DEF Inv, BreakFold
<1>7. Standing'
  BY <1>2 DEF Inv, TypeOK, Standing, Working, TaskOf, AtWork, Waiting, BreakFold
<1>8. Working'
  BY <1>1 DEF Inv, TypeOK, Working, TaskOf, AtWork, BreakFold
<1>9. Covered'
  BY <1>2 DEF Covered
<1> QED  BY <1>3, <1>4, <1>5, <1>6, <1>7, <1>8, <1>9 DEF Inv

-------------------------------------------------------------------------------
(* The pool's own promise *)

LEMMA AbortKeeps ==
  ASSUME Inv, Abort
  PROVE  Inv'
BY DEF Inv, TypeOK, Flags, Queues, Ceiling, Standing, Working, Covered,
       Distinct, TaskOf, Stopped, Waiting, governor, Abort

LEMMA AwaitRetriesKeeps ==
  ASSUME Inv, AwaitRetries
  PROVE  Inv'
BY DEF Inv, TypeOK, Flags, Queues, Ceiling, Standing, Working, Covered,
       Distinct, TaskOf, Stopped, Waiting, governor, AwaitRetries

LEMMA SettleKeeps ==
  ASSUME Inv, Settle
  PROVE  Inv'
<1>1. TypeOK' /\ Flags'
  BY DEF Inv, TypeOK, Flags, Waiting, governor, Settle
<1> QED  BY <1>1 DEF Inv, Queues, Ceiling, Standing, Working, Covered,
                     Distinct, TaskOf, Waiting, Settle

THEOREM InvHolds == Spec => []Inv
<1>1. Init => Inv
  BY InitEstablishes
<1>2. Inv /\ [Next]_vars => Inv'
  <2> SUFFICES ASSUME Inv, [Next]_vars  PROVE Inv'
    OBVIOUS
  <2>1. CASE Dequeue \/ AwaitRetries \/ Settle \/ Abort
    BY <2>1, DequeueKeeps, AwaitRetriesKeeps, SettleKeeps, AbortKeeps
  <2>2. CASE \E t \in active : Task(t)
    BY <2>2, StartItemKeeps, EndTaskKeeps DEF Task
  <2>3. CASE \E i \in Items : ProviderRetry(i) \/ AssistantTurn(i)
    BY <2>3, ProviderRetryKeeps, AssistantTurnKeeps
  <2>4. CASE \E i \in Items : Session(i)
    BY <2>4, ParkKeeps, RequeueKeeps, CompleteKeeps DEF Session
  <2>5. CASE \E i \in Items : Folding(i)
    BY <2>5, BeginFoldKeeps, EndFoldKeeps, BreakFoldKeeps DEF Folding
  <2>6. CASE UNCHANGED vars
    BY <2>6 DEF vars, Inv, TypeOK, Flags, Queues, Ceiling, Standing, Working, Covered,
                Distinct, TaskOf, Stopped, Waiting
  <2> QED  BY <2>1, <2>2, <2>3, <2>4, <2>5, <2>6 DEF Next
<1> QED  BY <1>1, <1>2, PTL DEF Spec

\* TypeOK, for every number of items and groups.
THEOREM TypesHold == Spec => []TypeOK
BY InvHolds, PTL DEF Inv

\* At most the configured number of tasks run, and two items of one group are at
\* work together only when one of them had its second chance.
Serial ==
  /\ Cardinality(active) <= Configured
  /\ \A i \in Items : \A k \in Group(i) :
       at[i] \in AtWork /\ at[k] \in AtWork /\ i \notin requeued /\ k \notin requeued => i = k
THEOREM GroupsAreSerial == Spec => []Serial
<1>1. Inv => Serial
  BY TasksTell DEF Inv, Ceiling, Working, TaskOf, Serial, Group
<1> QED  BY <1>1, InvHolds, PTL

-------------------------------------------------------------------------------
(* BriefedOnPredecessors *)

\* Only StartItem begins an item that waits, as the first its group has left.
LEMMA OnlyStartBegins ==
  ASSUME Inv, [Next]_vars, NEW i \in Items, at[i] = "todo", at'[i] = "session"
  PROVE  \E t \in active : /\ ~t.re /\ i \in Left(t) /\ (\A k \in Left(t) : i <= k)
                            /\ Doing(t) = {} /\ ~Stopped
<1>1. CASE \E t \in active : StartItem(t)
  BY <1>1 DEF Inv, TypeOK, StartItem
<1>2. CASE Dequeue \/ AwaitRetries \/ Settle \/ Abort \/ UNCHANGED vars
  BY <1>2 DEF Dequeue, AwaitRetries, Settle, Abort, vars
<1>3. CASE \E t \in active : EndTask(t)
  BY <1>3 DEF EndTask
<1>4. CASE \E k \in Items : ProviderRetry(k) \/ AssistantTurn(k)
  BY <1>4 DEF ProviderRetry, AssistantTurn
<1>5. CASE \E k \in Items : Session(k)
  BY <1>5 DEF Inv, TypeOK, Session, Park, Requeue, Complete
<1>6. CASE \E k \in Items : Folding(k)
  BY <1>6 DEF Inv, TypeOK, Folding, BeginFold, EndFold, BreakFold
<1> QED  BY <1>1, <1>2, <1>3, <1>4, <1>5, <1>6 DEF Next, Task

\* BriefedOnPredecessors, for every number of items and groups: an earlier item
\* that is neither folded nor put off would hold or end the group's one task.
THEOREM BriefedHolds == Spec => BriefedOnPredecessors
<1> DEFINE Briefed == \A i \in Items : at[i] = "todo" /\ at'[i] = "session" =>
                        \A k \in Group(i) : k < i => at[k] = "folded" \/ k \in requeued
<1>1. Inv /\ [Next]_vars => Briefed
  <2> SUFFICES ASSUME Inv, [Next]_vars, NEW i \in Items, at[i] = "todo", at'[i] = "session",
                      NEW k \in Group(i), k < i, k \notin requeued
               PROVE  at[k] = "folded"
    OBVIOUS
  <2>1. PICK t \in active : /\ ~t.re /\ i \in Left(t) /\ (\A m \in Left(t) : i <= m)
                            /\ Doing(t) = {} /\ ~Stopped
    BY OnlyStartBegins
  <2>2. k \in Items /\ i \in Nat /\ k \in Nat /\ k \in Group(t.of) /\ GroupTask(k) = t
    BY <2>1, TaskIsOf, PoolAssumption DEF Inv, TypeOK, Left, Group, Items
  <2>3. at[k] # "todo"
    BY <2>1, <2>2 DEF Left
  <2>4. at[k] \notin AtWork
    BY <2>1, <2>2 DEF Doing, TaskOf
  <2>5. at[k] \notin {"again", "parked", "broken"}
    BY <2>1, <2>2 DEF Inv, Standing, Stopped
  <2> QED  BY <2>2, <2>3, <2>4, <2>5 DEF Inv, TypeOK, AtWork
<1>2. Inv /\ [Next]_vars => [Briefed]_vars
  BY <1>1
<1> QED  BY <1>2, InvHolds, PTL DEF Spec, BriefedOnPredecessors

-------------------------------------------------------------------------------
(* ImplementsItemPool *)

item == [i \in Items |-> ItemState(i)]
result == IF pool = "running" THEN "none" ELSE pool

\* A step of one item is a step of its state in the promise.
LEMMA OneItemMoves ==
  ASSUME NEW i \in Items, \A k \in Items \ {i} : ItemState(k)' = ItemState(k)
  PROVE  item' = [item EXCEPT ![i] = ItemState(i)']
BY DEF item

LEMMA OthersStand ==
  ASSUME Inv, NEW i \in Items, NEW v, at' = [at EXCEPT ![i] = v],
         requeued' = requeued \/ requeued' = requeued \cup {i}
  PROVE  /\ at'[i] = v
         /\ item' = [item EXCEPT ![i] = ItemState(i)']
<1>1. \A k \in Items \ {i} : ItemState(k)' = ItemState(k)
  BY DEF Inv, TypeOK, ItemState
<1> QED  BY <1>1, OneItemMoves DEF Inv, TypeOK

\* What the promise sees stands, unless an item, the stop or the pool moves.
LEMMA NothingSeen ==
  ASSUME UNCHANGED <<at, requeued, aborted, paused, pool>>
  PROVE  UNCHANGED <<item, Stopped, result>>
BY DEF item, ItemState, Stopped, result

LEMMA BeginPromised ==
  ASSUME Inv, NEW t \in active, StartItem(t)
  PROVE  \E i \in Items : Promise!Begin(i)
<1>1. PICK i \in Items : at[i] \in {"todo", "again"} /\ at' = [at EXCEPT ![i] = "session"]
  BY TaskIsOf DEF Inv, TypeOK, StartItem, Left
<1>2. /\ at'[i] = "session" /\ item' = [item EXCEPT ![i] = ItemState(i)']
      /\ ~Stopped /\ UNCHANGED <<requeued, Stopped, result>>
  BY <1>1, OthersStand DEF StartItem, Stopped, result
<1>3. \/ item[i] = "todo" /\ ItemState(i)' = "working"
      \/ item[i] = "off" /\ ItemState(i)' = "reworking"
  BY <1>1, <1>2 DEF Inv, Standing, item, ItemState
<1> QED  BY <1>2, <1>3 DEF Promise!Begin, item, result

LEMMA LeavePromised ==
  ASSUME Inv, NEW i \in Items, Park(i)
  PROVE  Promise!Leave(i)
<1>1. at'[i] = "parked" /\ item' = [item EXCEPT ![i] = ItemState(i)']
  BY OthersStand DEF Park
<1>2. ItemState(i)' = "parked" /\ item[i] \in {"working", "reworking"}
  BY <1>1 DEF item, ItemState, Park
<1>3. Stopped' = TRUE /\ UNCHANGED result
  BY DEF Stopped, result, Park
<1> QED  BY <1>1, <1>2, <1>3 DEF Promise!Leave, Promise!AtWork, item, result

LEMMA PutOffPromised ==
  ASSUME Inv, NEW i \in Items, Requeue(i)
  PROVE  Promise!PutOff(i)
<1>1. at'[i] = "again" /\ item' = [item EXCEPT ![i] = ItemState(i)']
  BY OthersStand DEF Requeue
<1>2. ItemState(i)' = "off" /\ item[i] = "working"
  BY <1>1 DEF item, ItemState, Requeue
<1>3. UNCHANGED <<Stopped, result>>
  BY DEF Stopped, result, Requeue
<1> QED  BY <1>1, <1>2, <1>3 DEF Promise!PutOff, item, result

LEMMA CompleteUnseen ==
  ASSUME Inv, NEW i \in Items, Complete(i)
  PROVE  UNCHANGED Promise!poolVars
<1>1. at'[i] = "gate" /\ item' = [item EXCEPT ![i] = ItemState(i)']
  BY OthersStand DEF Complete
<1>2. ItemState(i)' = ItemState(i)
  BY <1>1 DEF ItemState, Complete
<1>3. UNCHANGED <<Stopped, result>>
  BY DEF Stopped, result, Complete
<1> QED  BY <1>1, <1>2, <1>3 DEF Promise!poolVars, item, result

\* The gate's head begins to fold: nobody else does, or it would be the head.
LEMMA FoldPromised ==
  ASSUME Inv, NEW i \in Items, BeginFold(i)
  PROVE  Promise!Fold(i)
<1>1. at'[i] = "folding" /\ item' = [item EXCEPT ![i] = ItemState(i)']
  BY OthersStand DEF BeginFold
<1>2. ItemState(i)' = "folding" /\ item[i] \in {"working", "reworking"}
  BY <1>1 DEF item, ItemState, BeginFold
<1>3. \A k \in Items : at[k] # "folding"
  BY DEF Inv, Working, BeginFold
<1>4. \A k \in Items : item[k] # "folding"
  BY <1>3 DEF Inv, TypeOK, item, ItemState
<1>5. UNCHANGED <<Stopped, result>>
  BY DEF Stopped, result, BeginFold
<1> QED  BY <1>1, <1>2, <1>4, <1>5 DEF Promise!Fold, Promise!AtWork, item, result

LEMMA LandPromised ==
  ASSUME Inv, NEW i \in Items, EndFold(i) \/ BreakFold(i)
  PROVE  Promise!Land(i)
<1>1. item[i] = "folding"
  BY DEF item, ItemState, EndFold, BreakFold
<1>2. CASE EndFold(i)
  <2>1. at'[i] = "folded" /\ item' = [item EXCEPT ![i] = ItemState(i)']
    BY <1>2, OthersStand DEF EndFold
  <2>2. ItemState(i)' = "folded" /\ UNCHANGED <<Stopped, result>>
    BY <1>2, <2>1 DEF ItemState, Stopped, result, EndFold
  <2> QED  BY <1>1, <2>1, <2>2 DEF Promise!Land, item, result
<1>3. CASE BreakFold(i)
  <2>1. at'[i] = "broken" /\ item' = [item EXCEPT ![i] = ItemState(i)']
    BY <1>3, OthersStand DEF BreakFold
  <2>2. ItemState(i)' = "broken" /\ UNCHANGED Stopped
    BY <1>3, <2>1 DEF ItemState, Stopped, BreakFold
  <2>3. result' \in {result} \cup (IF result = "none" THEN {"rejected"} ELSE {})
    BY <1>3 DEF result, BreakFold
  <2> QED  BY <1>1, <2>1, <2>2, <2>3 DEF Promise!Land, item, result
<1> QED  BY <1>2, <1>3

\* With no task left nobody is at work; unless the run was stopped nothing is
\* left to do either, and a broken fold would have settled the pool.
LEMMA ReturnPromised ==
  ASSUME Inv, Settle
  PROVE  Promise!Return
<1>1. \A i \in Items : at[i] \notin AtWork /\ at[i] # "broken"
  BY DEF Inv, Working, Standing, Settle
<1>2. \A i \in Items : item[i] \notin {"working", "reworking", "folding", "broken"}
  BY <1>1 DEF Inv, TypeOK, AtWork, item, ItemState
<1>3. ~Stopped => \A i \in Items : item[i] = "folded"
  <2> SUFFICES ASSUME ~Stopped, NEW i \in Items  PROVE item[i] = "folded"
    OBVIOUS
  <2>1. at[i] \notin {"todo", "again", "parked"}
    BY DEF Inv, Covered, Standing, Stopped, Settle
  <2> QED  BY <1>1, <2>1 DEF Inv, TypeOK, AtWork, item, ItemState
<1>4. UNCHANGED <<item, Stopped>>
  BY DEF item, ItemState, Stopped, Settle
<1>5. result = "none" /\ result' = IF paused THEN "paused" ELSE "returned"
  BY DEF result, Settle
<1> QED  BY <1>2, <1>3, <1>4, <1>5 DEF Promise!Return, Promise!AtWork, item, result, Stopped, Inv, Flags

LEMMA StepsArePromised ==
  ASSUME Inv, [Next]_vars
  PROVE  [Promise!Next]_(Promise!poolVars)
<1>1. CASE Dequeue \/ AwaitRetries \/ UNCHANGED vars
  <2>1. UNCHANGED <<at, requeued, aborted, paused, pool>>
    BY <1>1 DEF Dequeue, AwaitRetries, vars
  <2> QED  BY <2>1, NothingSeen DEF Promise!poolVars, item, result
<1>2. CASE \E t \in active : EndTask(t)
  <2>1. UNCHANGED <<at, requeued, aborted, paused, pool>>
    BY <1>2 DEF EndTask
  <2> QED  BY <2>1, NothingSeen DEF Promise!poolVars, item, result
<1>3. CASE \E i \in Items : ProviderRetry(i) \/ AssistantTurn(i)
  <2>1. UNCHANGED <<at, requeued, aborted, paused, pool>>
    BY <1>3 DEF ProviderRetry, AssistantTurn
  <2> QED  BY <2>1, NothingSeen DEF Promise!poolVars, item, result
<1>4. CASE \E t \in active : StartItem(t)
  BY <1>4, BeginPromised DEF Promise!Next
<1>5. CASE \E i \in Items : Session(i)
  BY <1>5, LeavePromised, PutOffPromised, CompleteUnseen DEF Session, Promise!Next
<1>6. CASE \E i \in Items : Folding(i)
  BY <1>6, FoldPromised, LandPromised DEF Folding, Promise!Next
<1>7. CASE Abort
  <2>1. Promise!Stop
    BY <1>7 DEF Abort, Promise!Stop, ItemState, Stopped
  <2> QED  BY <2>1 DEF Promise!Next
<1>8. CASE Settle
  BY <1>8, ReturnPromised DEF Promise!Next
<1> QED  BY <1>1, <1>2, <1>3, <1>4, <1>5, <1>6, <1>7, <1>8 DEF Next, Task

\* ImplementsItemPool, for every number of items and groups.
THEOREM PoolImplements == Spec => ImplementsItemPool
<1>1. Init => Promise!Init
  BY DEF Init, Promise!Init, ItemState, Stopped
<1>2. Inv /\ [Next]_vars => [Promise!Next]_(Promise!poolVars)
  BY StepsArePromised
<1> QED  BY <1>1, <1>2, InvHolds, PTL DEF Spec, ImplementsItemPool, Promise!Spec
===============================================================================
