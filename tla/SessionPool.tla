------------------------------ MODULE SessionPool ------------------------------
(***************************************************************************)
(* The session pool (core/services/agent/session-pool.ts): one agent        *)
(* session per work item, groups of items one after another, at most the    *)
(* governed number of groups at a time, and a fold that runs alone.         *)
(*                                                                         *)
(* A statement up to the next await is a step.  A session is what the pool  *)
(* sees of it: its turns, its 429s and how it ends.                         *)
(***************************************************************************)
EXTENDS Naturals, Sequences, FiniteSets

CONSTANTS
  N,             \* work items, numbered in work-list order
  KeyOf,         \* the serial group of each
  Configured,    \* the ceiling on groups at a time
  RestoreTurns,  \* GOVERNOR_RESTORE_TURNS
  Faults         \* what may go wrong: "credits", "transient", "abort", "fold"

Items == 1 .. N
AllFaults == {"credits", "transient", "abort", "fold"}

ASSUME PoolAssumption ==
  /\ N \in Nat /\ DOMAIN KeyOf = Items
  /\ Configured \in Nat \ {0} /\ RestoreTurns \in Nat \ {0}
  /\ Faults \subseteq AllFaults

VARIABLES
  queue,     \* the limit's queue
  active,    \* the tasks the limit runs
  at,        \* where each item is
  requeued,  \* the items that were queued again
  gate,      \* the outcomes waiting for the fold, the head's turn
  permits, cleanTurns, halvedSinceTurn,  \* the governor
  aborted, paused,
  awaited,   \* whether the pool has come to wait for the re-runs
  pool,      \* how the pool's own promise stands
  alive      \* whether the process lives

governor == <<permits, cleanTurns, halvedSinceTurn>>
vars == <<queue, active, at, requeued, gate, permits, cleanTurns, halvedSinceTurn,
          aborted, paused, awaited, pool, alive>>

-------------------------------------------------------------------------------
\* The members of an item's group, and the item that leads it.
Group(i) == {k \in Items : KeyOf[k] = KeyOf[i]}
Leaders == {i \in Items : \A k \in Group(i) : i <= k}
GroupTask(i) == [re |-> FALSE, of |-> CHOOSE k \in Group(i) : k \in Leaders]
Retry(i) == [re |-> TRUE, of |-> i]
TaskOf(i) == IF i \in requeued THEN Retry(i) ELSE GroupTask(i)
Tasks == {GroupTask(i) : i \in Items} \cup {Retry(i) : i \in Items}

AtWork == {"session", "gate", "folding"}
\* The item a task is at, if it is at one.
Doing(t) == {i \in Items : at[i] \in AtWork /\ TaskOf(i) = t}
\* What a group has left.
Left(t) == {i \in Group(t.of) : at[i] = "todo"}
Waiting == {queue[k] : k \in DOMAIN queue}

Init ==
  \* One task per group, in the order the groups first appear.
  /\ queue \in [1 .. Cardinality(Leaders) -> Tasks]
  /\ \A k \in DOMAIN queue : /\ ~queue[k].re /\ queue[k].of \in Leaders
                             /\ \A m \in DOMAIN queue : k < m => queue[k].of < queue[m].of
  /\ active = {} /\ at = [i \in Items |-> "todo"] /\ requeued = {} /\ gate = <<>>
  /\ permits = Configured /\ cleanTurns = 0 /\ halvedSinceTurn = FALSE
  /\ aborted = FALSE /\ paused = FALSE /\ awaited = FALSE
  /\ pool = "running" /\ alive = TRUE

-------------------------------------------------------------------------------
(* The limit and its tasks *)

\* The limit takes the next task while fewer than the permits run.
Dequeue ==
  /\ alive /\ queue # <<>> /\ Cardinality(active) < permits
  /\ active' = active \cup {Head(queue)}
  /\ queue' = Tail(queue)
  /\ UNCHANGED <<at, requeued, gate, governor, aborted, paused, awaited, pool, alive>>

Stopped == aborted \/ paused

\* Mutant of StartItem: a group does not wait for the item it is at.
StartItemTogether(t) ==
  /\ alive /\ t \in active /\ ~Stopped
  /\ \/ \E i \in Left(t) : (\A k \in Left(t) : i <= k) /\ ~t.re /\ at' = [at EXCEPT ![i] = "session"]
     \/ t.re /\ at[t.of] = "again" /\ at' = [at EXCEPT ![t.of] = "session"]
  /\ UNCHANGED <<queue, active, requeued, gate, governor, aborted, paused, awaited, pool, alive>>
\* A group starts its next item, a re-run its own, unless the run was stopped.
StartItem(t) ==
  /\ alive /\ t \in active /\ Doing(t) = {} /\ ~Stopped
  /\ \/ \E i \in Left(t) : (\A k \in Left(t) : i <= k) /\ ~t.re /\ at' = [at EXCEPT ![i] = "session"]
     \/ t.re /\ at[t.of] = "again" /\ at' = [at EXCEPT ![t.of] = "session"]
  /\ UNCHANGED <<queue, active, requeued, gate, governor, aborted, paused, awaited, pool, alive>>

\* A task ends when it has nothing left to do or may not start it.
EndTask(t) ==
  /\ alive /\ t \in active /\ Doing(t) = {}
  /\ Stopped \/ (~t.re /\ Left(t) = {}) \/ (t.re /\ at[t.of] # "again")
  /\ active' = active \ {t}
  /\ UNCHANGED <<queue, at, requeued, gate, governor, aborted, paused, awaited, pool, alive>>

-------------------------------------------------------------------------------
(* What the pool sees of a session *)

\* Mutant of Halve: the floor of one is forgotten.
HalveToZero(p) == p \div 2
Halve(p) == IF p \div 2 = 0 THEN 1 ELSE p \div 2

\* A 429: the permits are halved, once until some turn lands.
ProviderRetry(i) ==
  /\ alive /\ at[i] = "session"
  /\ cleanTurns' = 0 /\ halvedSinceTurn' = TRUE
  /\ permits' = IF halvedSinceTurn THEN permits ELSE Halve(permits)
  /\ UNCHANGED <<queue, active, at, requeued, gate, aborted, paused, awaited, pool, alive>>

\* A turn landed: below the ceiling it counts, and the fourth restores a permit.
AssistantTurn(i) ==
  /\ alive /\ at[i] = "session"
  /\ halvedSinceTurn' = FALSE
  /\ IF permits = Configured THEN UNCHANGED <<permits, cleanTurns>>
     ELSE IF cleanTurns + 1 >= RestoreTurns THEN cleanTurns' = 0 /\ permits' = permits + 1
     ELSE cleanTurns' = cleanTurns + 1 /\ UNCHANGED permits
  /\ UNCHANGED <<queue, active, at, requeued, gate, aborted, paused, awaited, pool, alive>>

\* The workspace can no longer pay: the item stays as it is and the pool ends.
Park(i) ==
  /\ "credits" \in Faults /\ alive /\ at[i] = "session"
  /\ at' = [at EXCEPT ![i] = "parked"] /\ paused' = TRUE
  /\ UNCHANGED <<queue, active, requeued, gate, governor, aborted, awaited, pool, alive>>

\* Mutant of Requeue: nothing remembers that the item had its second chance.
RequeueAgain(i) ==
  /\ "transient" \in Faults /\ alive /\ at[i] = "session" /\ ~aborted
  /\ at' = [at EXCEPT ![i] = "again"] /\ requeued' = requeued \cup {i}
  /\ queue' = Append(queue, Retry(i)) /\ active' = active \ {Retry(i)}
  /\ UNCHANGED <<gate, governor, aborted, paused, awaited, pool, alive>>
\* A session the provider throttled to death goes back on the queue, once; its
\* group goes on.
Requeue(i) ==
  /\ "transient" \in Faults /\ alive /\ at[i] = "session" /\ i \notin requeued /\ ~aborted
  /\ at' = [at EXCEPT ![i] = "again"] /\ requeued' = requeued \cup {i}
  /\ queue' = Append(queue, Retry(i))
  /\ UNCHANGED <<active, gate, governor, aborted, paused, awaited, pool, alive>>

\* Any other end, a failure too, is for the fold, in completion order.
Complete(i) ==
  /\ alive /\ at[i] = "session"
  /\ at' = [at EXCEPT ![i] = "gate"] /\ gate' = Append(gate, i)
  /\ UNCHANGED <<queue, active, requeued, governor, aborted, paused, awaited, pool, alive>>

-------------------------------------------------------------------------------
(* The fold *)

\* Mutant of BeginFold: the gate lets everybody through.
BeginFoldAtOnce(i) ==
  /\ alive /\ at[i] = "gate"
  /\ at' = [at EXCEPT ![i] = "folding"]
  /\ UNCHANGED <<queue, active, requeued, gate, governor, aborted, paused, awaited, pool, alive>>
BeginFold(i) ==
  /\ alive /\ at[i] = "gate" /\ Head(gate) = i
  /\ at' = [at EXCEPT ![i] = "folding"]
  /\ UNCHANGED <<queue, active, requeued, gate, governor, aborted, paused, awaited, pool, alive>>

EndFold(i) ==
  /\ alive /\ at[i] = "folding"
  /\ at' = [at EXCEPT ![i] = "folded"]
  /\ gate' = Tail(gate)
  /\ UNCHANGED <<queue, active, requeued, governor, aborted, paused, awaited, pool, alive>>

\* A fold that throws rejects its task; the gate opens for the next.  The
\* rejection is the pool's when the pool waits for that task; a re-run's that
\* nobody waits for is unhandled, which ends the process.
BreakFold(i) ==
  /\ "fold" \in Faults /\ alive /\ at[i] = "folding"
  /\ at' = [at EXCEPT ![i] = "broken"] /\ gate' = Tail(gate)
  /\ active' = active \ {TaskOf(i)}
  /\ alive' = ~(i \in requeued /\ ~awaited)
  /\ pool' = IF alive' /\ pool = "running" THEN "rejected" ELSE pool
  /\ UNCHANGED <<queue, requeued, governor, aborted, paused, awaited>>

-------------------------------------------------------------------------------
(* The pool's own promise *)

Abort ==
  /\ "abort" \in Faults /\ alive /\ ~aborted /\ aborted' = TRUE
  /\ UNCHANGED <<queue, active, at, requeued, gate, governor, paused, awaited, pool, alive>>

\* The main wave is over: the re-runs are waited for.
AwaitRetries ==
  /\ alive /\ pool = "running" /\ ~awaited
  /\ \A t \in active \cup Waiting : t.re
  /\ awaited' = TRUE
  /\ UNCHANGED <<queue, active, at, requeued, gate, governor, aborted, paused, pool, alive>>

\* Both waves are over.
Settle ==
  /\ alive /\ pool = "running" /\ awaited
  /\ active \cup Waiting = {}
  /\ pool' = IF paused THEN "paused" ELSE "returned"
  /\ UNCHANGED <<queue, active, at, requeued, gate, governor, aborted, paused, awaited, alive>>

Task(t) == StartItem(t) \/ EndTask(t)
Session(i) == Park(i) \/ Requeue(i) \/ Complete(i)
Folding(i) == BeginFold(i) \/ EndFold(i) \/ BreakFold(i)

Next ==
  \/ Dequeue \/ AwaitRetries \/ Settle \/ Abort
  \/ \E t \in active : Task(t)
  \/ \E i \in Items : ProviderRetry(i) \/ AssistantTurn(i) \/ Session(i) \/ Folding(i)

Spec == Init /\ [][Next]_vars

\* The loop resumes what may go on, and every session and fold comes to its end.
FairSpec ==
  /\ Spec /\ WF_vars(Dequeue) /\ WF_vars(AwaitRetries) /\ WF_vars(Settle)
  /\ \A t \in Tasks : WF_vars(Task(t))
  /\ \A i \in Items : WF_vars(Session(i)) /\ WF_vars(Folding(i))

-------------------------------------------------------------------------------
(* Properties *)

TypeOK ==
  /\ queue \in Seq(Tasks) /\ active \subseteq Tasks /\ active \cap Waiting = {}
  /\ at \in [Items -> {"todo", "session", "again", "gate", "folding", "folded", "broken", "parked"}]
  /\ requeued \subseteq Items
  /\ gate \in Seq(Items) /\ {gate[k] : k \in DOMAIN gate} = {i \in Items : at[i] \in {"gate", "folding"}}
  /\ permits \in 1 .. Configured /\ cleanTurns \in 0 .. RestoreTurns - 1
  /\ pool \in {"running", "returned", "paused", "rejected"}

\* An item is briefed when every earlier one of its group is folded, or waits
\* for (or is in, or is through with) its one re-run.
BriefedOnPredecessors ==
  [][\A i \in Items : at[i] = "todo" /\ at'[i] = "session" =>
       \A k \in Group(i) : k < i => at[k] = "folded" \/ k \in requeued]_vars

\* Whatever the provider throttles, kills or refuses, the pool's promise settles
\* and everything it started comes to its end.
PoolEnds == <>(~alive \/ (pool # "running" /\ \A i \in Items : at[i] \notin AtWork))

\* The pool keeps the promise of ItemPool: once begun, an item is begun again only
\* after a throttled session and once, folded once and alone, and the pool
\* returns after both waves drained, with no session or fold behind its back.
ItemState(i) ==
  CASE at[i] \in {"session", "gate"} -> IF i \in requeued THEN "reworking" ELSE "working"
    [] at[i] = "again" -> "off"
    [] OTHER -> at[i]
Promise == INSTANCE ItemPool WITH
  item <- [i \in Items |-> ItemState(i)], stopped <- Stopped,
  result <- IF pool = "running" THEN "none" ELSE pool
ImplementsItemPool == Promise!Spec
===============================================================================
