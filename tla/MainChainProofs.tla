---------------------------- MODULE MainChainProofs ----------------------------
(***************************************************************************)
(* Theorems about MainChain, for any number of hooks.                       *)
(*                                                                         *)
(* TypesHold has no condition.                                              *)
(*                                                                         *)
(* PushKeepsChain is about one push and no restart (Single): every row and  *)
(* every call is then about that push, so a link refused as busy was        *)
(* refused by a row of the same chain.  With a second push, or a restart    *)
(* between two links, a chain is lost.                                      *)
(*                                                                         *)
(* StartedOnce is about calls that outrun every body (Prompt): a setup that *)
(* is active when a call looks is active until that call is over, so the    *)
(* commit it was to start is one no chain was started for, or the key of    *)
(* the setup refuses it.  A restart undoes the start of what it kills, but  *)
(* for a chain that goes back to a restart itself: with one restart there   *)
(* is none to kill, and with one push such a chain is alone.                *)
(***************************************************************************)
EXTENDS MainChain, SequenceTheorems, TLAPS

-------------------------------------------------------------------------------
(* Types *)

HookSet == [pc : Pcs, link : Links, commit : Commits, since : Nat,
            ripple : BOOLEAN, recovery : BOOLEAN]
LaneSet == [pc : {"free", "body", "hook"}, job : Jobs, commit : Commits]
SyncSet == [st : {"none", "queued", "read", "stamped"}, read : Commits, stamp : Nat]
ScanSet == [st : {"none", "queued", "started", "read"}, read : Commits, since : Nat]

Shapes ==
  /\ pushed \in Commits /\ recorded \in Commits
  /\ sync \in SyncSet /\ scan \in ScanSet
  /\ docs \in Commits /\ corpus \in Commits /\ changedAt \in Nat /\ clock \in Nat
  /\ queue \in Seq(Jobs) /\ lane \in LaneSet
  /\ at \in [Callers -> HookSet]
  /\ chain \in [Commits -> {"none", "started", "ended"}] /\ restarts \in 0 .. MaxRestarts

\* Nobody knows a commit that is not pushed, or a stamp that is not given.
Known ==
  /\ recorded <= pushed /\ sync.read <= pushed /\ scan.read <= pushed
  /\ docs <= pushed /\ corpus <= pushed /\ lane.commit <= pushed
  /\ \A k \in Callers : at[k].commit <= pushed
  /\ changedAt <= clock /\ sync.stamp <= clock

\* The lane is held by a hook exactly as long as its hook has something to do,
\* which is never a sync's or a scan's.
LaneHook ==
  /\ at[Lane].pc \in {"idle", "next", "owed", "repo"} \cup Starting
  /\ ~at[Lane].ripple
  /\ (lane.pc = "hook") <=> (at[Lane].pc # "idle")

Types == Shapes /\ Known /\ LaneHook
RowsKnown == \A job \in Rows : job.commit <= pushed

-------------------------------------------------------------------------------
(* One push *)

\* No chain was started for commit n or a later one.
Unstarted(n) == \A c \in Commits : c >= n => chain[c] = "none"

AtRest ==
  /\ sync.st = "none" /\ scan.st = "none"
  /\ \A k \in Callers : at[k].pc = "idle"
  /\ queue = <<>> /\ lane.pc = "free"

\* Before the push nothing moves; after it everything is about it, and a chain
\* that was started is at work until it has ended.
OnePush ==
  /\ pushed = 0 => AtRest /\ Unstarted(0)
  /\ \A k \in Callers : at[k].pc \in {"setup", "record"} => at[k].commit = pushed
  /\ \A k \in Callers : at[k].pc = "record" => chain[pushed] # "none"
  /\ lane.pc # "free" => lane.commit = pushed
  /\ recorded = pushed /\ pushed # 0 => chain[pushed] # "none"
  /\ chain[pushed] = "started" => queue # <<>> \/ lane.pc = "body" \/ at[Lane].pc = "next"

-------------------------------------------------------------------------------
(* No chain twice *)

SetUp == \E job \in Rows : job.link = "setup"

\* What a call that looks for a chain knows at each of its statements.
Looking ==
  \A k \in Callers :
    /\ at[k].pc \in {"look", "read"} => pushed # 0 /\ (Unstarted(pushed) \/ SetUp)
    /\ at[k].pc = "setup" => at[k].commit # 0 /\ (Unstarted(at[k].commit) \/ SetUp)
    /\ at[k].pc = "record" =>
         /\ at[k].commit # 0 /\ Unstarted(at[k].commit + 1)
         /\ \E job \in Rows : job.link = "setup" /\ job.commit = at[k].commit

OneRecords ==
  \A k, m \in Callers : at[k].pc = "record" /\ at[m].pc = "record" => k = m

\* The newest push has no chain, or is recorded, or is about to be, or is left
\* to the next push by a restart that killed its second chain.
Newest ==
  /\ Unstarted(pushed + 1)
  /\ \/ Unstarted(pushed) \/ recorded = pushed \/ AtRest
     \/ \E k \in Callers : at[k].pc = "record" /\ at[k].commit = pushed

\* A call or a job that goes back to the boot's restart of a chain.
Recovering ==
  \/ \E k \in Callers : at[k].recovery
  \/ \E job \in Rows : job.recovery
  \/ lane.pc = "hook" /\ lane.job.recovery

\* After the one push there can be, such a chain is alone.
Alone ==
  /\ pushed = MaxPushes /\ sync.st = "none" /\ scan.st = "none"
  /\ \A h \in Hooks : /\ at[h].pc \in {"idle", "owed", "repo"} \cup Starting /\ ~at[h].ripple
                      /\ at[h].pc # "idle" => at[h].recovery
  /\ at[Lane].pc \in {"idle", "next", "owed", "repo"}
  /\ \A job \in Rows : job.recovery /\ job.commit = pushed
  /\ lane.pc # "free" => lane.job.recovery /\ lane.commit = pushed
  /\ Rows # {} \/ lane.pc # "free" => chain[pushed] # "none"
  /\ lane.pc = "hook" => recorded = pushed

Restarted ==
  /\ restarts = 0 => ~Recovering
  /\ MaxPushes <= 1 /\ Recovering => Alone

Once == Types /\ RowsKnown /\ Looking /\ OneRecords /\ Newest /\ Restarted

-------------------------------------------------------------------------------
(* What each action writes *)

\* A call moves on, to what it does next; it is over; it has a scan's ripple left.
Sets(c, x) == at' \in [Callers -> HookSet] /\ at'[c] = x /\ \A k \in Callers \ {c} : at'[k] = at[k]
Moves(c, pc) ==
  /\ at' \in [Callers -> HookSet] /\ \A k \in Callers \ {c} : at'[k] = at[k]
  /\ at'[c].pc = pc /\ at'[c].commit = at[c].commit
  /\ at'[c].recovery = at[c].recovery /\ at'[c].ripple = at[c].ripple
Over(c) ==
  /\ at' \in [Callers -> HookSet] /\ \A k \in Callers \ {c} : at'[k] = at[k]
  /\ at'[c].pc \in {"idle", "ripple"}
  /\ at'[c].pc = "ripple" => at[c].ripple
  /\ at'[c].commit = 0 /\ ~at'[c].recovery /\ ~at'[c].ripple
  /\ lane' = IF c = Lane THEN NoLane ELSE lane

LEMMA NoHookFields ==
  /\ NoHook \in HookSet /\ NoHook.pc = "idle" /\ NoHook.commit = 0
  /\ ~NoHook.recovery /\ ~NoHook.ripple
  /\ NoLane \in LaneSet /\ NoLane.pc = "free" /\ NoLane.commit = 0 /\ NoJob \in Jobs
  /\ NoLane.job = NoJob
PROOF BY ChainAssumption DEF NoHook, NoLane, NoJob, HookSet, LaneSet, Jobs, Links, Commits, Pcs, Starting

LEMMA GotoMoves ==
  ASSUME Shapes, NEW c \in Callers, NEW pc \in Pcs, Goto(c, pc)
  PROVE  Moves(c, pc)
PROOF
<1>1. at[c] \in HookSet  BY DEF Shapes
<1>2. PICK x : x = [at[c] EXCEPT !.pc = pc]  OBVIOUS
<1>3. x \in HookSet  BY <1>1, <1>2 DEF HookSet
<1>4. x.pc = pc /\ x.commit = at[c].commit /\ x.recovery = at[c].recovery /\ x.ripple = at[c].ripple
  BY <1>1, <1>2 DEF HookSet
<1>5. at' = [at EXCEPT ![c] = x]  BY <1>2 DEF Goto
<1>6. at'[c] = x /\ at' \in [Callers -> HookSet] /\ \A k \in Callers \ {c} : at'[k] = at[k]
  BY <1>3, <1>5 DEF Shapes
<1>. QED  BY <1>4, <1>6 DEF Moves

LEMMA ReturnOver ==
  ASSUME Types, NEW c \in Callers, Return(c)
  PROVE  Over(c) /\ at'[c].pc = "idle"
PROOF BY NoHookFields DEF Types, Shapes, Return, Over

LEMMA ServedOver ==
  ASSUME Types, NEW c \in Callers, Served(c)
  PROVE  Over(c)
PROOF
<1>1. CASE at[c].ripple
  <2>1. c # Lane  BY <1>1 DEF Types, LaneHook
  <2>2. PICK x : x = [NoHook EXCEPT !.pc = "ripple"]  OBVIOUS
  <2>3. x \in HookSet /\ x.pc = "ripple" /\ x.commit = 0 /\ ~x.recovery /\ ~x.ripple
    BY <2>2, NoHookFields DEF HookSet, Pcs, NoHook
  <2>4. at' = [at EXCEPT ![c] = x] /\ UNCHANGED lane  BY <1>1, <2>2 DEF Served
  <2>. QED  BY <1>1, <2>1, <2>3, <2>4 DEF Types, Shapes, Over
<1>2. CASE ~at[c].ripple  BY <1>2, ReturnOver DEF Served
<1>. QED  BY <1>1, <1>2

\* The rows are as they were, but for one that is new.
NewRow(link, n, r) ==
  \E job \in Jobs :
    /\ job.link = link /\ job.commit = n /\ job.recovery = r
    /\ queue' \in Seq(Jobs) /\ queue' # <<>>
    /\ \A x \in DOMAIN queue' \ DOMAIN queue : queue'[x] = job
    /\ {queue'[i] : i \in DOMAIN queue'} = {queue[i] : i \in DOMAIN queue} \cup {job}

\* The row that an enqueue adds, and the one a worker claims.
LEMMA EnqueueRow ==
  ASSUME Shapes, NEW link \in Links, NEW n \in Commits, NEW r \in BOOLEAN, Enqueue(link, n, r)
  PROVE  NewRow(link, n, r)
PROOF
<1>1. PICK job : job = [link |-> link, commit |-> n, recovery |-> r]  OBVIOUS
<1>2. job \in Jobs /\ job.link = link /\ job.commit = n /\ job.recovery = r  BY <1>1 DEF Jobs
<1>3. queue \in Seq(Jobs) /\ queue' = Append(queue, job)  BY <1>1 DEF Shapes, Enqueue
<1>4. /\ queue' \in Seq(Jobs) /\ queue' # <<>> /\ Len(queue') = Len(queue) + 1
      /\ \A i \in 1 .. Len(queue) : queue'[i] = queue[i]
      /\ queue'[Len(queue) + 1] = job
  BY <1>2, <1>3, AppendProperties
<1>5. DOMAIN queue = 1 .. Len(queue) /\ DOMAIN queue' = 1 .. Len(queue') /\ Len(queue) \in Nat
  BY <1>3, <1>4
<1>6. DOMAIN queue' = DOMAIN queue \cup {Len(queue) + 1}  BY <1>4, <1>5
<1>7. \A x \in DOMAIN queue' \ DOMAIN queue : queue'[x] = job  BY <1>4, <1>6
<1>8. {queue'[i] : i \in DOMAIN queue'} = {queue[i] : i \in DOMAIN queue} \cup {job}
  BY <1>4, <1>5, <1>6
<1>. QED  BY <1>2, <1>4, <1>7, <1>8 DEF NewRow

LEMMA QueueMembers ==
  ASSUME Shapes
  PROVE  /\ \A i \in DOMAIN queue : queue[i] \in Jobs
         /\ Rows \subseteq Jobs
         /\ queue = <<>> <=> {queue[i] : i \in DOMAIN queue} = {}
         /\ SetUp <=> Active("setup")
PROOF
<1>1. queue \in Seq(Jobs) /\ lane.job \in Jobs  BY DEF Shapes, LaneSet
<1>2. DOMAIN queue = 1 .. Len(queue) /\ Len(queue) \in Nat  BY <1>1
<1>3. \A i \in DOMAIN queue : queue[i] \in Jobs  BY <1>1, <1>2
<1>4. Rows \subseteq Jobs  BY <1>1, <1>3 DEF Rows
<1>5. queue = <<>> <=> {queue[i] : i \in DOMAIN queue} = {}
  <2>1. queue = <<>> <=> Len(queue) = 0  BY <1>1, EmptySeq
  <2>2. DOMAIN queue = {} <=> Len(queue) = 0  BY <1>2
  <2>. QED  BY <2>1, <2>2
<1>6. SetUp <=> Active("setup")  BY DEF SetUp, Active, Rows
<1>. QED  BY <1>3, <1>4, <1>5, <1>6

LEMMA ClaimFacts ==
  ASSUME Types, Claim
  PROVE  /\ lane.pc = "free" /\ queue # <<>> /\ queue' \in Seq(Jobs)
         /\ DOMAIN queue' \subseteq DOMAIN queue
         /\ lane' \in LaneSet /\ lane'.pc = "body" /\ lane'.job \in Rows
         /\ lane'.commit = IF lane'.job.commit = 0 THEN pushed ELSE lane'.job.commit
         /\ Rows' = Rows
         /\ UNCHANGED <<pushed, recorded, contextVars, at, chain, restarts>>
PROOF
<1>1. lane.pc = "free" /\ queue # <<>> /\ queue \in Seq(Jobs)  BY DEF Claim, Types, Shapes
<1>2. /\ Head(queue) \in Jobs /\ Tail(queue) \in Seq(Jobs) /\ Len(Tail(queue)) = Len(queue) - 1
      /\ \A i \in 1 .. Len(Tail(queue)) : Tail(queue)[i] = queue[i + 1]
  BY <1>1, HeadTailProperties
<1>3. PICK job \in Jobs : job = Head(queue)  BY <1>2
<1>4. PICK n \in Commits : n = IF job.commit = 0 THEN pushed ELSE job.commit
  BY DEF Jobs, Types, Shapes
<1>5. queue' = Tail(queue) /\ lane' = [NoLane EXCEPT !.pc = "body", !.job = job, !.commit = n]
  BY <1>3, <1>4 DEF Claim
<1>6. lane' \in LaneSet /\ lane'.pc = "body" /\ lane'.job = job /\ lane'.commit = n
  BY <1>5, NoHookFields DEF LaneSet
<1>7. /\ DOMAIN queue = 1 .. Len(queue) /\ DOMAIN queue' = 1 .. Len(queue') /\ Len(queue) \in Nat \ {0}
      /\ Len(queue') = Len(queue) - 1 /\ job = queue[1]
      /\ \A i \in DOMAIN queue' : queue'[i] = queue[i + 1]
  BY <1>1, <1>2, <1>3, <1>5, EmptySeq, LenProperties
<1>8. {queue[i] : i \in DOMAIN queue} = {job} \cup {queue'[i] : i \in DOMAIN queue'}
  <2>1. \A i \in DOMAIN queue : i = 1 \/ (i - 1 \in DOMAIN queue' /\ queue'[i - 1] = queue[i])
    BY <1>7
  <2>2. 1 \in DOMAIN queue /\ \A i \in DOMAIN queue' : i + 1 \in DOMAIN queue  BY <1>7
  <2>. QED  BY <1>7, <2>1, <2>2
<1>9. Rows = {queue[i] : i \in DOMAIN queue}  BY <1>1 DEF Rows
<1>10. Rows' = {queue'[i] : i \in DOMAIN queue'} \cup {job}  BY <1>6 DEF Rows
<1>11. DOMAIN queue' \subseteq DOMAIN queue  BY <1>7
<1>12. UNCHANGED <<pushed, recorded, contextVars, at, chain, restarts>>  BY DEF Claim
<1>13. queue' \in Seq(Jobs)  BY <1>2, <1>5
<1>. QED  BY <1>1, <1>3, <1>4, <1>6, <1>8, <1>9, <1>10, <1>11, <1>12, <1>13

\* A step of the context store, or of a hook that has only to do with it.
ContextStep ==
  /\ UNCHANGED <<pushed, recorded, queue, lane, at, chain, restarts>>
  /\ sync.st # "none" \/ scan.st # "none"
Aside(h) ==
  /\ UNCHANGED <<pushed, recorded, queue, lane, chain, restarts>>
  /\ at' \in [Callers -> HookSet] /\ \A k \in Callers \ {h} : at'[k] = at[k]
  /\ sync.st # "none" \/ scan.st # "none" \/ at[h].pc \in {"sync", "scan", "coalesce", "ripple"}
  /\ at'[h].pc \in Starting => at'[h].pc = "look" /\ "no_sync" \in Faults
  /\ at'[h].commit \in {0, at[h].commit}
  /\ at'[h].recovery => at[h].recovery

Context4 ==
  /\ sync' \in SyncSet /\ scan' \in ScanSet
  /\ docs' \in Commits /\ corpus' \in Commits /\ changedAt' \in Nat /\ clock' \in Nat
  /\ sync'.read <= pushed /\ scan'.read <= pushed /\ docs' <= pushed /\ corpus' <= pushed
  /\ changedAt' <= clock' /\ sync'.stamp <= clock'

LEMMA AsideTyped ==
  ASSUME Types, NEW h \in Hooks, Aside(h), Context4
  PROVE  Types'
PROOF
<1>1. h \in Callers /\ h # Lane /\ Lane \in Callers  BY ChainAssumption DEF Callers
<1>2. Shapes'  BY DEF Types, Shapes, Aside, Context4
<1>3. Known'
  <2>1. pushed \in Nat /\ 0 <= pushed  BY ChainAssumption DEF Types, Shapes, Commits
  <2>2. \A k \in Callers : at'[k].commit <= pushed  BY <1>1, <2>1 DEF Types, Known, Aside
  <2>. QED  BY <2>2 DEF Types, Known, Aside, Context4
<1>4. LaneHook'  BY <1>1 DEF Types, LaneHook, Aside
<1>. QED  BY <1>2, <1>3, <1>4 DEF Types

LEMMA ContextTyped ==
  ASSUME Types, Context
  PROVE  ContextStep /\ Types'
PROOF
<1>1. ContextStep  BY DEF Context, ContextStep, SyncRead, SyncStamp, ScanBegin, ScanRead
<1>c. Commits \subseteq Nat /\ clock \in Nat  BY DEF Types, Shapes, Commits
<1>2. ASSUME SyncRead  PROVE Context4
  <2>0. sync' = [st |-> "read", read |-> pushed, stamp |-> sync.stamp]
    BY <1>2 DEF SyncRead, SyncSet, Types, Shapes
  <2>1. sync' \in SyncSet /\ sync'.read <= pushed /\ sync'.stamp <= clock'
    BY <1>2, <1>c, <2>0 DEF SyncRead, SyncSet, Types, Shapes, Known
  <2>2. UNCHANGED <<scan, docs, corpus, changedAt, clock>> /\ clock' = clock  BY <1>2 DEF SyncRead
  <2>. QED  BY <1>c, <2>1, <2>2 DEF Context4, Types, Shapes, Known
<1>3. ASSUME SyncStamp  PROVE Context4
  <2>0. sync' = [st |-> "stamped", read |-> sync.read, stamp |-> clock + 1]
    BY <1>3 DEF SyncStamp, SyncSet, Types, Shapes
  <2>1. sync' \in SyncSet /\ sync'.read <= pushed /\ sync'.stamp <= clock'
    BY <1>3, <1>c, <2>0 DEF SyncStamp, SyncSet, Types, Shapes, Known
  <2>2. UNCHANGED <<scan, docs, corpus, changedAt>> /\ clock' = clock + 1  BY <1>3 DEF SyncStamp
  <2>. QED  BY <1>c, <2>1, <2>2 DEF Context4, Types, Shapes, Known
<1>4. ASSUME ScanBegin  PROVE Context4
  <2>0. scan' = [st |-> "started", read |-> scan.read, since |-> clock + 1]
    BY <1>4 DEF ScanBegin, ScanSet, Types, Shapes
  <2>1. scan' \in ScanSet /\ scan'.read <= pushed
    BY <1>4, <1>c, <2>0 DEF ScanBegin, ScanSet, Types, Shapes, Known
  <2>2. UNCHANGED <<sync, docs, corpus, changedAt>> /\ clock' = clock + 1  BY <1>4 DEF ScanBegin
  <2>3. sync \in SyncSet /\ sync.stamp \in Nat /\ changedAt \in Nat  BY DEF Types, Shapes, SyncSet
  <2>4. sync'.stamp <= clock' /\ changedAt' <= clock'  BY <1>c, <2>2, <2>3 DEF Types, Known
  <2>. QED  BY <1>c, <2>1, <2>2, <2>4 DEF Context4, Types, Shapes, Known
<1>5. ASSUME ScanRead  PROVE Context4
  <2>1. scan' \in ScanSet /\ scan'.read <= pushed
    BY <1>5, <1>c DEF ScanRead, ScanSet, Types, Shapes, Known
  <2>2. UNCHANGED <<sync, docs, corpus, changedAt, clock>> /\ clock' = clock  BY <1>5 DEF ScanRead
  <2>. QED  BY <1>c, <2>1, <2>2 DEF Context4, Types, Shapes, Known
<1>6. Context4  BY <1>2, <1>3, <1>4, <1>5 DEF Context
<1>7. Shapes'  BY <1>1, <1>6 DEF Types, Shapes, ContextStep, Context4
<1>8. Known'  BY <1>1, <1>6 DEF Types, Known, ContextStep, Context4
<1>9. LaneHook'  BY <1>1 DEF Types, LaneHook, ContextStep
<1>. QED  BY <1>1, <1>7, <1>8, <1>9 DEF Types

LEMMA AsideFacts ==
  ASSUME Types, NEW h \in Hooks,
         Settle(h) \/ SyncAfterPush(h) \/ ChainScan(h) \/ Coalesce(h) \/ CheckSettingUp(h)
  PROVE  Aside(h) /\ Types'
PROOF
<1>t. h \in Callers /\ h # Lane /\ Shapes  BY ChainAssumption DEF Callers, Types
<1>n. \A pc \in Pcs : Goto(h, pc) => Moves(h, pc)  BY <1>t, GotoMoves
<1>p. {"scan", "owed", "look", "generate"} \subseteq Pcs  BY DEF Pcs, Starting
<1>r. at' = [at EXCEPT ![h] = NoHook] =>
        /\ at' \in [Callers -> HookSet] /\ \A k \in Callers \ {h} : at'[k] = at[k]
        /\ at'[h].pc = "idle" /\ at'[h].commit = 0 /\ ~at'[h].recovery
  BY <1>t, NoHookFields DEF Shapes
<1>1. ASSUME SyncAfterPush(h)  PROVE Aside(h) /\ Context4
  <2>1. Context4  BY <1>1 DEF SyncAfterPush, Context4, Types, Shapes, Known, SyncSet
  <2>2. Aside(h)
    BY <1>1, <1>t, <1>n, <1>p, <1>r DEF SyncAfterPush, Aside, Moves, Starting
  <2>. QED  BY <2>1, <2>2
<1>2. ASSUME SyncEnd(h)  PROVE Aside(h) /\ Context4
  <2>1. Context4
    BY <1>2, ChainAssumption DEF SyncEnd, Context4, Types, Shapes, Known, Commits, SyncSet, ScanSet
  <2>2. Goto(h, "scan") \/ Goto(h, "owed")  BY <1>2 DEF SyncEnd
  <2>3. Moves(h, "scan") \/ Moves(h, "owed")  BY <2>2, <1>n, <1>p
  <2>4. UNCHANGED <<pushed, recorded, queue, lane, chain, restarts>> /\ sync.st # "none"
    BY <1>2 DEF SyncEnd
  <2>. QED  BY <2>1, <2>3, <2>4 DEF Aside, Moves, Starting
<1>3. ASSUME ScanEnd(h)  PROVE Aside(h) /\ Context4
  <2>0. scan.read \in Commits /\ scan.read <= pushed /\ 0 \in Commits /\ 0 <= pushed
    BY ChainAssumption DEF Types, Shapes, Known, Commits, ScanSet
  <2>1. Context4  BY <1>3, <2>0 DEF ScanEnd, Context4, Types, Shapes, Known, ScanSet
  <2>2. UNCHANGED <<pushed, recorded, queue, lane, chain, restarts>> /\ scan.st # "none"
    BY <1>3 DEF ScanEnd
  <2>3. CASE Goto(h, "owed")
    <3>1. Moves(h, "owed")  BY <1>n, <1>p, <2>3
    <3>. QED  BY <2>1, <2>2, <3>1 DEF Aside, Moves, Starting
  <2>4. CASE \E conflicts \in BOOLEAN :
               at' = [at EXCEPT ![h] = [NoHook EXCEPT !.pc = "coalesce", !.since = scan.since,
                                          !.ripple = scan.read # corpus /\ ~conflicts]]
    <3>1. PICK b \in BOOLEAN :
            at' = [at EXCEPT ![h] = [NoHook EXCEPT !.pc = "coalesce", !.since = scan.since, !.ripple = b]]
      BY <2>4
    <3>2. PICK x : x = [NoHook EXCEPT !.pc = "coalesce", !.since = scan.since, !.ripple = b]  OBVIOUS
    <3>3. x \in HookSet /\ x.pc = "coalesce" /\ x.commit = 0 /\ ~x.recovery
      BY <1>t, <3>2, NoHookFields DEF HookSet, Pcs, Shapes, ScanSet
    <3>4. at' = [at EXCEPT ![h] = x]  BY <3>1, <3>2
    <3>5. /\ at' \in [Callers -> HookSet] /\ at'[h] = x
          /\ \A k \in Callers \ {h} : at'[k] = at[k]
      BY <1>t, <3>3, <3>4 DEF Shapes
    <3>. QED  BY <2>1, <2>2, <3>3, <3>5 DEF Aside, Starting
  <2>. QED  BY <1>3, <2>1, <2>3, <2>4 DEF ScanEnd
<1>4. ASSUME ChainScan(h)  PROVE Aside(h) /\ Context4
  <2>1. Context4  BY <1>4 DEF ChainScan, RequestScan, Context4, Types, Shapes, Known, ScanSet
  <2>2. Moves(h, "owed")  BY <1>4, <1>n, <1>p DEF ChainScan
  <2>. QED  BY <1>4, <2>1, <2>2 DEF ChainScan, Aside, Moves, Starting
<1>5. ASSUME Coalesce(h)  PROVE Aside(h) /\ Context4
  <2>1. Context4  BY <1>5 DEF Coalesce, RequestScan, Context4, Types, Shapes, Known, ScanSet
  <2>2. Moves(h, "owed")  BY <1>5, <1>n, <1>p DEF Coalesce
  <2>. QED  BY <1>5, <2>1, <2>2 DEF Coalesce, Aside, Moves, Starting
<1>6. ASSUME CheckSettingUp(h)  PROVE Aside(h) /\ Context4
  <2>1. Context4  BY <1>6 DEF CheckSettingUp, contextVars, Context4, Types, Shapes, Known
  <2>2. UNCHANGED <<pushed, recorded, queue, lane, chain, restarts>> /\ at[h].pc = "ripple"
    BY <1>6, <1>t DEF CheckSettingUp, Return
  <2>3. Return(h) \/ Goto(h, "generate")  BY <1>6 DEF CheckSettingUp
  <2>4. CASE Return(h)
    <3>1. at' = [at EXCEPT ![h] = NoHook]  BY <2>4 DEF Return
    <3>. QED  BY <1>r, <2>1, <2>2, <3>1 DEF Aside, Starting
  <2>5. CASE Goto(h, "generate")
    <3>1. Moves(h, "generate")  BY <1>n, <1>p, <2>5
    <3>. QED  BY <2>1, <2>2, <3>1 DEF Moves, Aside, Starting
  <2>. QED  BY <2>1, <2>3, <2>4, <2>5
<1>7. Aside(h) /\ Context4  BY <1>1, <1>2, <1>3, <1>4, <1>5, <1>6 DEF Settle
<1>. QED  BY <1>7, AsideTyped


\* The other hook steps: the push, the ripple's generate, and the calls that serve.
LEMMA PushFacts ==
  ASSUME Types, NEW h \in Hooks, Push(h)
  PROVE  /\ at[h].pc = "idle" /\ pushed < MaxPushes /\ pushed' = pushed + 1
         /\ Moves(h, "sync") /\ Types'
         /\ UNCHANGED <<recorded, sync, scan, queue, lane, chain, restarts>>
PROOF
<1>t. h \in Callers /\ h # Lane /\ Lane \in Callers /\ Shapes  BY ChainAssumption DEF Callers, Types
<1>1. Moves(h, "sync")  BY <1>t, GotoMoves DEF Push, Pcs
<1>2. /\ at[h].pc = "idle" /\ pushed < MaxPushes /\ pushed' = pushed + 1
      /\ UNCHANGED <<recorded, contextVars, queue, lane, chain, restarts>>
  BY DEF Push
<1>3. Shapes'  BY <1>1, <1>2, ChainAssumption DEF Types, Shapes, contextVars, Moves, Commits
<1>4. Known'
  <2>1. /\ recorded \in Nat /\ sync.read \in Nat /\ scan.read \in Nat /\ docs \in Nat /\ corpus \in Nat
        /\ lane.commit \in Nat /\ pushed \in Nat
    BY DEF Types, Shapes, SyncSet, ScanSet, LaneSet, Commits
  <2>2. /\ recorded' <= pushed' /\ sync'.read <= pushed' /\ scan'.read <= pushed'
        /\ docs' <= pushed' /\ corpus' <= pushed' /\ lane'.commit <= pushed'
        /\ changedAt' <= clock' /\ sync'.stamp <= clock'
    BY <1>2, <2>1 DEF Types, Known, contextVars
  <2>3. ASSUME NEW k \in Callers  PROVE at'[k].commit <= pushed'
    <3>1. at'[k].commit = at[k].commit  BY <1>1 DEF Moves
    <3>2. at[k].commit \in Nat /\ at[k].commit <= pushed
      BY DEF Types, Shapes, Known, HookSet, Commits
    <3>. QED  BY <1>2, <2>1, <3>1, <3>2
  <2>. QED  BY <2>2, <2>3 DEF Known
<1>5. LaneHook'  BY <1>1, <1>2, <1>t DEF Types, LaneHook, Moves
<1>. QED  BY <1>1, <1>2, <1>3, <1>4, <1>5 DEF Types, contextVars

LEMMA RippleFacts ==
  ASSUME Types, NEW h \in Hooks, RippleGenerate(h)
  PROVE  /\ at[h].pc = "generate" /\ Over(h) /\ UNCHANGED lane /\ Types'
         /\ UNCHANGED queue \/ NewRow("generate", 0, FALSE)
         /\ UNCHANGED <<pushed, recorded, sync, scan, chain, restarts>>
PROOF
<1>t. h \in Callers /\ h # Lane /\ Lane \in Callers /\ Shapes  BY ChainAssumption DEF Callers, Types
<1>1. Over(h)  BY <1>t, ReturnOver DEF RippleGenerate
<1>2. /\ at[h].pc = "generate" /\ UNCHANGED <<pushed, recorded, contextVars, chain, restarts>>
  BY DEF RippleGenerate
<1>3. UNCHANGED lane  BY <1>1, <1>t DEF Over
<1>4. UNCHANGED queue \/ NewRow("generate", 0, FALSE)
  <2>1. 0 \in Commits /\ "generate" \in Links /\ FALSE \in BOOLEAN  BY ChainAssumption DEF Commits, Links
  <2>2. CASE Enqueue("generate", 0, FALSE)  BY <1>t, <2>1, <2>2, EnqueueRow
  <2>. QED  BY <2>2 DEF RippleGenerate
<1>5. queue' \in Seq(Jobs)  BY <1>4, <1>t DEF NewRow, Shapes
<1>6. Shapes'  BY <1>1, <1>2, <1>3, <1>5 DEF Types, Shapes, contextVars, Over
<1>7. Known'
  <2>1. 0 <= pushed  BY ChainAssumption DEF Types, Shapes, Commits
  <2>2. \A k \in Callers : at'[k].commit <= pushed  BY <1>1, <2>1 DEF Types, Known, Over
  <2>. QED  BY <1>2, <1>3, <2>2 DEF Types, Known, contextVars
<1>8. LaneHook'  BY <1>1, <1>3, <1>t DEF Types, LaneHook, Over
<1>. QED  BY <1>1, <1>2, <1>3, <1>4, <1>6, <1>7, <1>8 DEF Types, contextVars

\* Nothing but the rows, the call and what is recorded.
Beside == UNCHANGED <<pushed, sync, docs, scan, corpus, changedAt, clock, restarts>>

\* What becomes of the types: a call in the middle of serving goes on, or is over.
LEMMA ServingTyped ==
  ASSUME Types, NEW c \in Callers, Beside, queue' \in Seq(Jobs),
         recorded' \in Commits, recorded' <= pushed,
         chain' \in [Commits -> {"none", "started", "ended"}],
         at[c].pc \in {"owed", "repo"} \cup Starting,
         \/ Over(c)
         \/ /\ UNCHANGED lane /\ at' \in [Callers -> HookSet]
            /\ \A k \in Callers \ {c} : at'[k] = at[k]
            /\ at'[c].pc \in {"repo"} \cup Starting /\ at'[c].commit <= pushed
            /\ at'[c].ripple = at[c].ripple
  PROVE  Types'
PROOF
<1>t. Lane \in Callers /\ pushed \in Nat /\ 0 <= pushed
  BY ChainAssumption DEF Callers, Types, Shapes, Commits
<1>1. CASE Over(c)
  <2>1. Shapes'  BY <1>1, NoHookFields DEF Types, Shapes, Beside, Over
  <2>2. Known'
    <3>1. \A k \in Callers : at'[k].commit <= pushed  BY <1>1, <1>t DEF Types, Known, Over
    <3>2. lane'.commit <= pushed  BY <1>1, <1>t, NoHookFields DEF Types, Known, Over
    <3>. QED  BY <3>1, <3>2 DEF Types, Known, Beside
  <2>3. LaneHook'
    <3>1. CASE c = Lane
      BY <1>1, <1>t, <3>1, NoHookFields DEF Types, LaneHook, Over
    <3>2. CASE c # Lane  BY <1>1, <1>t, <3>2 DEF Types, LaneHook, Over
    <3>. QED  BY <3>1, <3>2
  <2>. QED  BY <2>1, <2>2, <2>3 DEF Types
<1>2. CASE /\ UNCHANGED lane /\ at' \in [Callers -> HookSet]
           /\ \A k \in Callers \ {c} : at'[k] = at[k]
           /\ at'[c].pc \in {"repo"} \cup Starting /\ at'[c].commit <= pushed
           /\ at'[c].ripple = at[c].ripple
  <2>1. Shapes'  BY <1>2 DEF Types, Shapes, Beside
  <2>2. Known'
    <3>1. \A k \in Callers : at'[k].commit <= pushed  BY <1>2 DEF Types, Known
    <3>. QED  BY <1>2, <3>1 DEF Types, Known, Beside
  <2>3. LaneHook'
    <3>1. CASE c = Lane  BY <1>2, <1>t, <3>1 DEF Types, LaneHook, Starting
    <3>2. CASE c # Lane  BY <1>2, <1>t, <3>2 DEF Types, LaneHook
    <3>. QED  BY <3>1, <3>2
  <2>. QED  BY <2>1, <2>2, <2>3 DEF Types
<1>. QED  BY <1>1, <1>2


LEMMA CheckScanFacts ==
  ASSUME Types, NEW c \in Callers, CheckScan(c)
  PROVE  /\ at[c].pc = "owed" /\ Beside /\ UNCHANGED <<recorded, queue, chain>> /\ Types'
         /\ \/ Over(c) /\ scan.st # "none"
            \/ Moves(c, "repo") /\ UNCHANGED lane
PROOF
<1>t. Shapes  BY DEF Types
<1>1. at[c].pc = "owed" /\ Beside /\ UNCHANGED <<recorded, queue, chain>>
  BY DEF CheckScan, Beside, contextVars
<1>2. \/ Over(c) /\ scan.st # "none"
      \/ Moves(c, "repo") /\ UNCHANGED lane
  BY <1>t, ServedOver, GotoMoves DEF CheckScan, Pcs
<1>3. Types'
  BY <1>1, <1>2, ServingTyped DEF Types, Shapes, Known, Moves
<1>. QED  BY <1>1, <1>2, <1>3

LEMMA CheckOwedFacts ==
  ASSUME Types, NEW c \in Callers, CheckOwed(c)
  PROVE  /\ at[c].pc = "repo" /\ Beside /\ UNCHANGED <<recorded, queue, chain>> /\ Types'
         /\ \/ Over(c) /\ pushed \in {0, recorded}
            \/ Moves(c, "look") /\ UNCHANGED lane /\ pushed \notin {0, recorded}
PROOF
<1>t. Shapes  BY DEF Types
<1>1. at[c].pc = "repo" /\ Beside /\ UNCHANGED <<recorded, queue, chain>>
  BY DEF CheckOwed, Beside, contextVars
<1>2. \/ Over(c) /\ pushed \in {0, recorded}
      \/ Moves(c, "look") /\ UNCHANGED lane /\ pushed \notin {0, recorded}
  BY <1>t, ServedOver, GotoMoves DEF CheckOwed, Pcs, Starting
<1>3. Types'
  BY <1>1, <1>2, ServingTyped DEF Types, Shapes, Known, Moves, Starting
<1>. QED  BY <1>1, <1>2, <1>3

LEMMA LookForHeavyFacts ==
  ASSUME Types, NEW c \in Callers, LookForHeavy(c)
  PROVE  /\ at[c].pc = "look" /\ Beside /\ UNCHANGED <<recorded, queue, chain>> /\ Types'
         /\ \/ Over(c)
            \/ Moves(c, "look") /\ UNCHANGED lane
            \/ Moves(c, "read") /\ UNCHANGED lane
PROOF
<1>t. Shapes /\ at[c] \in HookSet  BY DEF Types, Shapes
<1>1. at[c].pc = "look" /\ Beside /\ UNCHANGED <<recorded, queue, chain>>
  BY DEF LookForHeavy, Beside, contextVars
<1>2. CASE Served(c)  BY <1>1, <1>2, ServedOver, ServingTyped DEF Types, Shapes, Known, Starting
<1>3. CASE Goto(c, "read") /\ UNCHANGED lane
  <2>1. Moves(c, "read")  BY <1>t, <1>3, GotoMoves DEF Pcs, Starting
  <2>2. Types'  BY <1>1, <1>3, <2>1, ServingTyped DEF Types, Shapes, Known, Moves, Starting
  <2>. QED  BY <1>1, <1>3, <2>1, <2>2
<1>4. CASE at' = [at EXCEPT ![c].link = After(at[c].link)] /\ UNCHANGED lane
  <2>1. PICK x : x = [at[c] EXCEPT !.link = After(at[c].link)]  OBVIOUS
  <2>2. After(at[c].link) \in Links  BY DEF After, Links
  <2>3. x \in HookSet  BY <1>t, <2>1, <2>2 DEF HookSet
  <2>4. x.pc = at[c].pc /\ x.commit = at[c].commit /\ x.recovery = at[c].recovery /\ x.ripple = at[c].ripple
    BY <1>t, <2>1 DEF HookSet
  <2>5. at' = [at EXCEPT ![c] = x]  BY <1>4, <2>1
  <2>6. at'[c] = x /\ at' \in [Callers -> HookSet] /\ \A k \in Callers \ {c} : at'[k] = at[k]
    BY <1>t, <2>3, <2>5 DEF Shapes
  <2>7. Moves(c, "look")  BY <1>1, <2>4, <2>6 DEF Moves
  <2>8. Types'  BY <1>1, <1>4, <2>7, ServingTyped DEF Types, Shapes, Known, Moves, Starting
  <2>. QED  BY <1>1, <1>4, <2>7, <2>8
<1>. QED  BY <1>1, <1>2, <1>3, <1>4 DEF LookForHeavy

LEMMA ReadPushedFacts ==
  ASSUME Types, NEW c \in Callers, ReadPushed(c)
  PROVE  /\ at[c].pc = "read" /\ Beside /\ UNCHANGED <<recorded, queue, chain, lane>> /\ Types'
         /\ at' \in [Callers -> HookSet] /\ \A k \in Callers \ {c} : at'[k] = at[k]
         /\ at'[c].pc = "setup" /\ at'[c].commit = pushed
         /\ at'[c].recovery = at[c].recovery /\ at'[c].ripple = at[c].ripple
PROOF
<1>t. Shapes /\ at[c] \in HookSet /\ pushed \in Commits  BY DEF Types, Shapes
<1>1. at[c].pc = "read" /\ Beside /\ UNCHANGED <<recorded, queue, chain, lane>>
  BY DEF ReadPushed, Beside, contextVars
<1>2. PICK x : x = [at[c] EXCEPT !.pc = "setup", !.commit = pushed]  OBVIOUS
<1>3. x \in HookSet  BY <1>t, <1>2 DEF HookSet, Pcs, Starting
<1>4. x.pc = "setup" /\ x.commit = pushed /\ x.recovery = at[c].recovery /\ x.ripple = at[c].ripple
  BY <1>t, <1>2 DEF HookSet
<1>5. at' = [at EXCEPT ![c] = x]  BY <1>t, <1>2 DEF ReadPushed, Shapes
<1>6. at'[c] = x /\ at' \in [Callers -> HookSet] /\ \A k \in Callers \ {c} : at'[k] = at[k]
  BY <1>t, <1>3, <1>5 DEF Shapes
<1>7. at'[c].commit <= pushed  BY <1>t, <1>4, <1>6 DEF Commits
<1>8. Types'
  BY <1>1, <1>4, <1>6, <1>7, ServingTyped DEF Types, Shapes, Known, Starting
<1>. QED  BY <1>1, <1>4, <1>6, <1>8

\* The start: a setup on the commit the call has read, or nothing.
Begins(c) ==
  /\ ~SetUp /\ Moves(c, "record") /\ UNCHANGED lane
  /\ NewRow("setup", at[c].commit, at[c].recovery)
  /\ chain' = [chain EXCEPT ![at[c].commit] = "started"]

LEMMA StartSetupFacts ==
  ASSUME Types, NEW c \in Callers, StartSetup(c)
  PROVE  /\ at[c].pc = "setup" /\ Beside /\ UNCHANGED recorded /\ Types'
         /\ Begins(c) \/ (Over(c) /\ UNCHANGED <<queue, chain>>)
PROOF
<1>t. /\ Shapes /\ at[c] \in HookSet /\ at[c].commit \in Commits /\ at[c].recovery \in BOOLEAN
      /\ "setup" \in Links
  BY DEF Types, Shapes, HookSet, Links
<1>1. at[c].pc = "setup" /\ Beside /\ UNCHANGED recorded  BY DEF StartSetup, Beside, contextVars
<1>2. CASE Served(c) /\ UNCHANGED <<queue, chain>>
  <2>1. Over(c)  BY <1>2, ServedOver
  <2>2. Types'  BY <1>1, <1>2, <2>1, ServingTyped DEF Types, Shapes, Known, Starting
  <2>. QED  BY <1>1, <1>2, <2>1, <2>2
<1>3. CASE /\ ~Active("setup") /\ Enqueue("setup", at[c].commit, at[c].recovery)
           /\ chain' = [chain EXCEPT ![at[c].commit] = "started"]
           /\ Goto(c, "record") /\ UNCHANGED lane
  <2>1. Moves(c, "record")  BY <1>t, <1>3, GotoMoves DEF Pcs, Starting
  <2>2. NewRow("setup", at[c].commit, at[c].recovery)  BY <1>t, <1>3, EnqueueRow
  <2>3. Begins(c)  BY <1>t, <1>3, <2>1, <2>2, QueueMembers DEF Begins
  <2>4. queue' \in Seq(Jobs)  BY <2>2 DEF NewRow
  <2>5. chain' \in [Commits -> {"none", "started", "ended"}]  BY <1>t, <1>3 DEF Shapes
  <2>6. at' \in [Callers -> HookSet] /\ \A k \in Callers \ {c} : at'[k] = at[k]  BY <2>1 DEF Moves
  <2>7. at'[c].pc \in Starting /\ at'[c].commit <= pushed /\ at'[c].ripple = at[c].ripple
    BY <2>1 DEF Moves, Starting, Types, Known
  <2>8. recorded' \in Commits /\ recorded' <= pushed  BY <1>1 DEF Types, Shapes, Known
  <2>9. Types'
    BY <1>1, <1>3, <2>4, <2>5, <2>6, <2>7, <2>8, ServingTyped DEF Starting
  <2>. QED  BY <1>1, <2>3, <2>9
<1>. QED  BY <1>2, <1>3 DEF StartSetup

LEMMA RecordFacts ==
  ASSUME Types, NEW c \in Callers, RecordMainChain(c)
  PROVE  /\ at[c].pc = "record" /\ Beside /\ UNCHANGED <<queue, chain>> /\ Types'
         /\ recorded' = at[c].commit /\ Over(c)
PROOF
<1>1. /\ at[c].pc = "record" /\ Beside /\ UNCHANGED <<queue, chain>> /\ recorded' = at[c].commit
  BY DEF RecordMainChain, Beside, contextVars
<1>2. Over(c)  BY ServedOver DEF RecordMainChain
<1>3. recorded' \in Commits /\ recorded' <= pushed  BY <1>1 DEF Types, Shapes, Known, HookSet
<1>4. Types'  BY <1>1, <1>2, <1>3, ServingTyped DEF Types, Shapes, Starting
<1>. QED  BY <1>1, <1>2, <1>4


\* The lane: the job's body ends, and its hook goes on.
Reported ==
  /\ chain' \in [Commits -> {"none", "started", "ended"}]
  /\ \A n \in Commits : chain'[n] = IF n = lane.commit /\ chain[n] = "started" THEN "ended" ELSE chain[n]
Handed(pc) ==
  /\ lane' \in LaneSet /\ lane'.pc = "hook" /\ lane'.job = lane.job /\ lane'.commit = lane.commit
  /\ Moves(Lane, pc)

LEMMA ReportEndReports ==
  ASSUME Shapes, ReportEnd
  PROVE  Reported
PROOF
<1>1. lane.commit \in Commits  BY DEF Shapes, LaneSet
<1>2. PICK n \in Commits : n = lane.commit  BY <1>1
<1>3. PICK x \in {"none", "started", "ended"} : x = IF chain[n] = "started" THEN "ended" ELSE chain[n]
  BY <1>2 DEF Shapes
<1>4. chain' = [chain EXCEPT ![n] = x]  BY <1>2, <1>3 DEF ReportEnd, Shapes
<1>. QED  BY <1>2, <1>3, <1>4 DEF Reported, Shapes

LEMMA LaneTyped ==
  ASSUME Types, Beside, UNCHANGED recorded, queue' \in Seq(Jobs),
         chain' \in [Commits -> {"none", "started", "ended"}],
         \/ Over(Lane)
         \/ \E pc \in {"next", "owed"} : Handed(pc)
         \/ UNCHANGED lane /\ lane.pc = "hook" /\ Moves(Lane, "owed")
  PROVE  Types'
PROOF
<1>t. Lane \in Callers /\ pushed \in Nat /\ 0 <= pushed
  BY ChainAssumption DEF Callers, Types, Shapes, Commits
<1>1. CASE Over(Lane)
  <2>1. Shapes'  BY <1>1, NoHookFields DEF Types, Shapes, Beside, Over
  <2>2. Known'
    <3>1. \A k \in Callers : at'[k].commit <= pushed  BY <1>1, <1>t DEF Types, Known, Over
    <3>2. lane'.commit <= pushed  BY <1>1, <1>t, NoHookFields DEF Over
    <3>. QED  BY <3>1, <3>2 DEF Types, Known, Beside
  <2>3. LaneHook'  BY <1>1, <1>t, NoHookFields DEF Types, LaneHook, Over
  <2>. QED  BY <2>1, <2>2, <2>3 DEF Types
<1>2. CASE (\E pc \in {"next", "owed"} : Handed(pc)) \/ (UNCHANGED lane /\ lane.pc = "hook" /\ Moves(Lane, "owed"))
  <2>1. /\ lane' \in LaneSet /\ lane'.pc = "hook" /\ lane'.commit = lane.commit
        /\ at' \in [Callers -> HookSet] /\ \A k \in Callers \ {Lane} : at'[k] = at[k]
        /\ at'[Lane].pc \in {"next", "owed"} /\ at'[Lane].commit = at[Lane].commit
        /\ at'[Lane].ripple = at[Lane].ripple
    BY <1>2 DEF Handed, Moves, Types, Shapes
  <2>2. Shapes'  BY <2>1 DEF Types, Shapes, Beside
  <2>3. Known'
    <3>1. \A k \in Callers : at'[k].commit <= pushed  BY <2>1 DEF Types, Known
    <3>. QED  BY <2>1, <3>1 DEF Types, Known, Beside
  <2>4. LaneHook'  BY <2>1, <1>t DEF Types, LaneHook
  <2>. QED  BY <2>2, <2>3, <2>4 DEF Types
<1>. QED  BY <1>1, <1>2

LEMMA EndFacts ==
  ASSUME Types, EndLink \/ EndChain \/ CancelChain
  PROVE  /\ lane.pc = "body" /\ BodyMayEnd /\ Beside /\ UNCHANGED <<recorded, queue>> /\ Types'
         /\ \/ EndLink /\ Handed("next") /\ UNCHANGED chain
            \/ EndChain /\ Handed("owed") /\ Reported
            \/ CancelChain /\ Over(Lane) /\ Reported
PROOF
<1>t. Shapes /\ Lane \in Callers  BY DEF Types, Callers
<1>1. lane.pc = "body" /\ BodyMayEnd /\ Beside /\ UNCHANGED <<recorded, queue>>
  BY DEF EndLink, EndChain, CancelChain, BodyMayEnd, Beside, contextVars
<1>2. lane' = [lane EXCEPT !.pc = "hook"] =>
        lane' \in LaneSet /\ lane'.pc = "hook" /\ lane'.job = lane.job /\ lane'.commit = lane.commit
  BY <1>t DEF Shapes, LaneSet
<1>3. ASSUME EndLink  PROVE Handed("next") /\ UNCHANGED chain
  <2>1. Moves(Lane, "next")  BY <1>3, <1>t, GotoMoves DEF EndLink, Pcs
  <2>. QED  BY <1>3, <1>2, <2>1 DEF EndLink, Handed
<1>4. ASSUME EndChain  PROVE Handed("owed") /\ Reported
  <2>1. Moves(Lane, "owed")  BY <1>4, <1>t, GotoMoves DEF EndChain, Pcs
  <2>2. Reported  BY <1>4, <1>t, ReportEndReports DEF EndChain
  <2>. QED  BY <1>4, <1>2, <2>1, <2>2 DEF EndChain, Handed
<1>5. ASSUME CancelChain  PROVE Over(Lane) /\ Reported
  BY <1>5, <1>t, ReturnOver, ReportEndReports DEF CancelChain
<1>6. \/ EndLink /\ Handed("next") /\ UNCHANGED chain
      \/ EndChain /\ Handed("owed") /\ Reported
      \/ CancelChain /\ Over(Lane) /\ Reported
  BY <1>3, <1>4, <1>5
<1>7. queue' \in Seq(Jobs) /\ chain' \in [Commits -> {"none", "started", "ended"}]
  BY <1>1, <1>6, <1>t DEF Reported, Shapes
<1>8. Types'  BY <1>1, <1>6, <1>7, LaneTyped
<1>. QED  BY <1>1, <1>6, <1>8

LEMMA ChainNextFacts ==
  ASSUME Types, ChainNext
  PROVE  /\ at[Lane].pc = "next" /\ lane.pc = "hook" /\ Beside /\ UNCHANGED recorded /\ Types'
         /\ \/ Over(Lane) /\ UNCHANGED chain
               /\ \E link \in {"generate", "run"} : NewRow(link, lane.commit, lane.job.recovery)
            \/ Over(Lane) /\ UNCHANGED <<queue, chain>> /\ queue # <<>>
            \/ Moves(Lane, "owed") /\ Reported /\ UNCHANGED <<queue, lane>>
PROOF
<1>t. /\ Shapes /\ Lane \in Callers /\ lane.commit \in Commits /\ lane.job.recovery \in BOOLEAN
  BY DEF Types, Callers, Shapes, LaneSet, Jobs
<1>1. at[Lane].pc = "next" /\ Beside /\ UNCHANGED recorded  BY DEF ChainNext, Beside, contextVars
<1>2. lane.pc = "hook"  BY <1>1 DEF Types, LaneHook
<1>3. PICK link \in {"generate", "run"} : link = After(lane.job.link)  BY DEF After
<1>4. CASE /\ Enqueue(link, lane.commit, lane.job.recovery) /\ Return(Lane) /\ UNCHANGED chain
  <2>1. link \in Links  BY DEF Links
  <2>2. NewRow(link, lane.commit, lane.job.recovery)  BY <1>t, <1>4, <2>1, EnqueueRow
  <2>3. Over(Lane)  BY <1>t, <1>4, ReturnOver
  <2>4. queue' \in Seq(Jobs)  BY <2>2 DEF NewRow
  <2>5. Types'  BY <1>1, <1>4, <2>3, <2>4, LaneTyped DEF Types, Shapes
  <2>. QED  BY <1>1, <1>2, <1>4, <2>2, <2>3, <2>5
<1>5. CASE Active(link) /\ Return(Lane) /\ UNCHANGED <<queue, chain>>
  <2>1. Over(Lane)  BY <1>t, <1>5, ReturnOver
  <2>2. queue # <<>>
    <3>1. \E i \in DOMAIN queue : TRUE  BY <1>2, <1>5 DEF Active
    <3>. QED  BY <3>1, EmptySeq
  <2>3. Types'  BY <1>1, <1>5, <2>1, LaneTyped DEF Types, Shapes
  <2>. QED  BY <1>1, <1>2, <1>5, <2>1, <2>2, <2>3
<1>6. CASE Goto(Lane, "owed") /\ ReportEnd /\ UNCHANGED <<queue, lane>>
  <2>1. Moves(Lane, "owed")  BY <1>6, <1>t, GotoMoves DEF Pcs
  <2>2. Reported  BY <1>6, <1>t, ReportEndReports
  <2>3. Types'  BY <1>1, <1>2, <1>6, <2>1, <2>2, LaneTyped DEF Types, Shapes, Reported
  <2>. QED  BY <1>1, <1>2, <1>6, <2>1, <2>2, <2>3
<1>. QED  BY <1>3, <1>4, <1>5, <1>6 DEF ChainNext

LEMMA RestartFacts ==
  ASSUME Types, Restart
  PROVE  /\ restarts < MaxRestarts /\ restarts' = restarts + 1 /\ UNCHANGED pushed
         /\ recorded' = IF \E job \in Killed : job.commit = recorded THEN 0 ELSE recorded
         /\ sync'.st = "none" /\ scan'.st = "none" /\ queue' = <<>> /\ lane'.pc = "free" /\ Rows' = {}
         /\ at' \in [Callers -> HookSet]
         /\ \A k \in Callers : /\ at'[k].pc \in {"idle", "owed"} /\ ~at'[k].ripple
                               /\ at'[k].pc = "owed" => k \in Hooks /\ Killed # {} /\ at'[k].recovery
                               /\ at'[k].recovery => at'[k].pc = "owed"
         /\ chain' \in [Commits -> {"none", "started", "ended"}]
         /\ \A n \in Commits : chain'[n] = Fate(n)
         /\ Types'
PROOF
<1>t. /\ Shapes /\ Lane \in Callers /\ Lane \notin Hooks /\ pushed \in Nat /\ 0 <= pushed
      /\ 0 \in Commits /\ restarts \in 0 .. MaxRestarts /\ MaxRestarts \in Nat
  BY ChainAssumption DEF Types, Callers, Shapes, Commits
<1>1. /\ restarts < MaxRestarts /\ restarts' = restarts + 1
      /\ UNCHANGED <<pushed, docs, corpus, changedAt, clock>>
      /\ recorded' = IF \E job \in Killed : job.commit = recorded THEN 0 ELSE recorded
      /\ queue' = <<>> /\ lane' = NoLane
      /\ sync' = [st |-> "none", read |-> 0, stamp |-> 0]
      /\ scan' = [st |-> "none", read |-> 0, since |-> 0]
      /\ chain' = [n \in Commits |-> Fate(n)]
  BY DEF Restart
<1>2. PICK h \in Hooks :
        at' = [k \in Callers |-> IF k = h /\ Killed # {}
                                 THEN [NoHook EXCEPT !.pc = "owed", !.recovery = TRUE]
                                 ELSE NoHook]
  BY DEF Restart
<1>3. PICK x : x = [NoHook EXCEPT !.pc = "owed", !.recovery = TRUE]  OBVIOUS
<1>4. x \in HookSet /\ x.pc = "owed" /\ x.commit = 0 /\ x.recovery /\ ~x.ripple
  BY <1>3, NoHookFields DEF HookSet, Pcs
<1>5. at' = [k \in Callers |-> IF k = h /\ Killed # {} THEN x ELSE NoHook]  BY <1>2, <1>3
<1>6. /\ at' \in [Callers -> HookSet]
      /\ \A k \in Callers : /\ at'[k].pc \in {"idle", "owed"} /\ ~at'[k].ripple /\ at'[k].commit = 0
                            /\ at'[k].pc = "owed" => k \in Hooks /\ Killed # {} /\ at'[k].recovery
                            /\ at'[k].recovery => at'[k].pc = "owed"
  BY <1>4, <1>5, NoHookFields
<1>7. /\ sync' \in SyncSet /\ sync'.st = "none" /\ sync'.read = 0 /\ sync'.stamp = 0
      /\ scan' \in ScanSet /\ scan'.st = "none" /\ scan'.read = 0
  BY <1>1, <1>t DEF SyncSet, ScanSet
<1>8. lane' \in LaneSet /\ lane'.pc = "free" /\ lane'.commit = 0  BY <1>1, NoHookFields
<1>9. queue' \in Seq(Jobs) /\ Rows' = {}
  <2>1. queue' \in Seq(Jobs) /\ DOMAIN queue' = {}  BY <1>1, EmptySeq
  <2>. QED  BY <1>8, <2>1 DEF Rows
<1>10. chain' \in [Commits -> {"none", "started", "ended"}] /\ \A n \in Commits : chain'[n] = Fate(n)
  <2>1. \A n \in Commits : Fate(n) \in {"none", "started", "ended"}  BY <1>t DEF Fate, Shapes
  <2>. QED  BY <1>1, <2>1
<1>11. Shapes'  BY <1>1, <1>6, <1>7, <1>8, <1>9, <1>10, <1>t DEF Shapes
<1>12. Known'
  <2>1. recorded' <= pushed  BY <1>1, <1>t DEF Types, Known
  <2>2. changedAt' <= clock' /\ 0 <= clock'  BY <1>1, <1>t DEF Types, Known, Shapes
  <2>. QED  BY <1>1, <1>6, <1>7, <1>8, <1>t, <2>1, <2>2 DEF Types, Known
<1>13. LaneHook'  BY <1>6, <1>8, <1>t DEF LaneHook
<1>. QED  BY <1>1, <1>6, <1>7, <1>8, <1>9, <1>10, <1>11, <1>12, <1>13 DEF Types

-------------------------------------------------------------------------------
(* The types hold *)

LEMMA ClaimTyped ==
  ASSUME Types, RowsKnown, Claim
  PROVE  Types'
PROOF
<1>1. /\ lane.pc = "free" /\ queue' \in Seq(Jobs) /\ lane' \in LaneSet /\ lane'.pc = "body"
      /\ UNCHANGED <<pushed, recorded, contextVars, at, chain, restarts>>
  BY ClaimFacts
<1>2. Shapes'  BY <1>1 DEF Types, Shapes, contextVars
<1>3. lane'.commit <= pushed
  <2>1. PICK job \in Rows : job = lane'.job  BY ClaimFacts
  <2>2. lane'.commit = IF job.commit = 0 THEN pushed ELSE job.commit  BY <2>1, ClaimFacts
  <2>3. job.commit <= pushed /\ pushed \in Nat  BY ChainAssumption DEF RowsKnown, Types, Shapes, Commits
  <2>. QED  BY <2>2, <2>3
<1>4. Known'  BY <1>1, <1>3 DEF Types, Known, contextVars
<1>5. LaneHook'  BY <1>1 DEF Types, LaneHook
<1>. QED  BY <1>2, <1>4, <1>5 DEF Types


\* What a step makes of the rows: the new row is beside the ones that were there.
LEMMA NewRowRows ==
  ASSUME NEW link, NEW n, NEW r, NewRow(link, n, r),
         UNCHANGED lane \/ (lane.pc # "body" /\ lane'.pc # "body")
  PROVE  \E job \in Jobs : /\ job.link = link /\ job.commit = n /\ job.recovery = r
                           /\ Rows' = Rows \cup {job}
PROOF
<1>1. PICK job \in Jobs :
        /\ job.link = link /\ job.commit = n /\ job.recovery = r
        /\ {queue'[i] : i \in DOMAIN queue'} = {queue[i] : i \in DOMAIN queue} \cup {job}
  BY DEF NewRow
<1>2. Rows' = Rows \cup {job}  BY <1>1 DEF Rows
<1>. QED  BY <1>1, <1>2

\* A call at work has a lane, or no lane to let go, so no body is its.
LEMMA OverRows ==
  ASSUME Types, NEW c \in Callers, at[c].pc # "idle", Over(c)
  PROVE  UNCHANGED lane \/ (c = Lane /\ lane.pc = "hook" /\ lane'.pc = "free")
PROOF
<1>1. CASE c = Lane  BY <1>1, NoHookFields DEF Over, Types, LaneHook
<1>2. CASE c # Lane  BY <1>2 DEF Over
<1>. QED  BY <1>1, <1>2

LEMMA SameRows ==
  ASSUME UNCHANGED queue, UNCHANGED lane \/ (lane.pc # "body" /\ lane'.pc # "body")
  PROVE  Rows' = Rows
PROOF BY DEF Rows


\* The steps, by what their facts say.
NextStep ==
  \/ \E h \in Hooks : \/ Push(h) \/ RippleGenerate(h)
                      \/ Settle(h) \/ SyncAfterPush(h) \/ ChainScan(h) \/ Coalesce(h) \/ CheckSettingUp(h)
  \/ \E c \in Callers : \/ CheckScan(c) \/ CheckOwed(c) \/ LookForHeavy(c) \/ ReadPushed(c)
                        \/ StartSetup(c) \/ RecordMainChain(c)
  \/ Context \/ Claim \/ EndLink \/ EndChain \/ CancelChain \/ ChainNext \/ Restart

LEMMA StepIsNextStep == ASSUME Next PROVE NextStep
PROOF BY DEF Next, NextStep, Hook, Serve, LaneStep

LEMMA TypesStep ==
  ASSUME Types, RowsKnown, NextStep
  PROVE  Types'
PROOF
<1>1. ASSUME NEW h \in Hooks, Push(h)  PROVE Types'  BY <1>1, PushFacts
<1>2. ASSUME NEW h \in Hooks, RippleGenerate(h)  PROVE Types'  BY <1>2, RippleFacts
<1>3. ASSUME NEW h \in Hooks,
             Settle(h) \/ SyncAfterPush(h) \/ ChainScan(h) \/ Coalesce(h) \/ CheckSettingUp(h)
      PROVE  Types'
  BY <1>3, AsideFacts
<1>4. ASSUME NEW c \in Callers, \/ CheckScan(c) \/ CheckOwed(c) \/ LookForHeavy(c) \/ ReadPushed(c)
                                \/ StartSetup(c) \/ RecordMainChain(c)
      PROVE  Types'
  BY <1>4, CheckScanFacts, CheckOwedFacts, LookForHeavyFacts, ReadPushedFacts, StartSetupFacts, RecordFacts
<1>5. ASSUME EndLink \/ EndChain \/ CancelChain  PROVE Types'  BY <1>5, EndFacts
<1>. QED
  BY <1>1, <1>2, <1>3, <1>4, <1>5, ContextTyped, ClaimTyped, ChainNextFacts, RestartFacts DEF NextStep

LEMMA RowsKnownStep ==
  ASSUME Types, RowsKnown, NextStep
  PROVE  RowsKnown'
PROOF
<1>t. /\ pushed \in Nat /\ 0 <= pushed /\ Shapes /\ Lane \in Callers /\ Hooks \subseteq Callers
      /\ Rows \subseteq Jobs
  BY ChainAssumption, QueueMembers DEF Types, Shapes, Commits, Callers
<1>n. ASSUME NEW link, NEW n, NEW r, NewRow(link, n, r), n <= pushed, UNCHANGED pushed,
             UNCHANGED lane \/ (lane.pc # "body" /\ lane'.pc # "body")
      PROVE  RowsKnown'
  <2>1. PICK job \in Jobs : job.commit = n /\ Rows' = Rows \cup {job}  BY <1>n, NewRowRows
  <2>. QED  BY <1>n, <2>1 DEF RowsKnown
<1>s. ASSUME UNCHANGED <<queue, pushed>>, UNCHANGED lane \/ (lane.pc # "body" /\ lane'.pc # "body")
      PROVE  RowsKnown'
  <2>1. Rows' = Rows  BY <1>s, SameRows
  <2>. QED  BY <1>s, <2>1 DEF RowsKnown
<1>o. ASSUME NEW c \in Callers, at[c].pc # "idle", Over(c)
      PROVE  UNCHANGED lane \/ (lane.pc # "body" /\ lane'.pc # "body")
  BY <1>o, OverRows
<1>1. ASSUME NEW h \in Hooks, Push(h)  PROVE RowsKnown'
  <2>1. UNCHANGED <<queue, lane>> /\ pushed' = pushed + 1  BY <1>1, PushFacts
  <2>2. Rows' = Rows  BY <2>1, SameRows
  <2>3. \A job \in Rows : job.commit \in Nat  BY <1>t DEF Jobs, Commits
  <2>. QED  BY <1>t, <2>1, <2>2, <2>3 DEF RowsKnown
<1>2. ASSUME NEW h \in Hooks, RippleGenerate(h)  PROVE RowsKnown'
  BY <1>2, <1>n, <1>s, <1>t, RippleFacts
<1>3. ASSUME NEW h \in Hooks,
             Settle(h) \/ SyncAfterPush(h) \/ ChainScan(h) \/ Coalesce(h) \/ CheckSettingUp(h)
      PROVE  RowsKnown'
  BY <1>3, <1>s, AsideFacts DEF Aside
<1>4. ASSUME Context  PROVE RowsKnown'  BY <1>4, <1>s, ContextTyped DEF ContextStep
<1>5. ASSUME NEW c \in Callers, CheckScan(c)  PROVE RowsKnown'
  BY <1>5, <1>s, <1>o, CheckScanFacts DEF Beside
<1>6. ASSUME NEW c \in Callers, CheckOwed(c)  PROVE RowsKnown'
  BY <1>6, <1>s, <1>o, CheckOwedFacts DEF Beside
<1>7. ASSUME NEW c \in Callers, LookForHeavy(c)  PROVE RowsKnown'
  BY <1>7, <1>s, <1>o, LookForHeavyFacts DEF Beside
<1>8. ASSUME NEW c \in Callers, ReadPushed(c)  PROVE RowsKnown'
  BY <1>8, <1>s, <1>o, ReadPushedFacts DEF Beside
<1>9. ASSUME NEW c \in Callers, StartSetup(c)  PROVE RowsKnown'
  <2>1. at[c].commit <= pushed  BY DEF Types, Known
  <2>2. at[c].pc = "setup" /\ Beside  BY <1>9, StartSetupFacts
  <2>3. CASE Begins(c)  BY <1>n, <2>1, <2>2, <2>3 DEF Begins, Beside
  <2>4. CASE Over(c) /\ UNCHANGED <<queue, chain>>  BY <1>o, <1>s, <2>2, <2>4 DEF Beside
  <2>. QED  BY <1>9, <2>3, <2>4, StartSetupFacts
<1>10. ASSUME NEW c \in Callers, RecordMainChain(c)  PROVE RowsKnown'
  BY <1>10, <1>s, <1>o, RecordFacts DEF Beside
<1>11. ASSUME Claim  PROVE RowsKnown'  BY <1>11, ClaimFacts DEF RowsKnown
<1>12. ASSUME EndLink \/ EndChain \/ CancelChain  PROVE RowsKnown'
  <2>1. UNCHANGED <<queue, pushed>> /\ lane'.pc # "body"
    BY <1>12, EndFacts, NoHookFields DEF Beside, Handed, Over
  <2>2. Rows' \subseteq Rows  BY <2>1 DEF Rows
  <2>. QED  BY <2>1, <2>2 DEF RowsKnown
<1>13. ASSUME ChainNext  PROVE RowsKnown'
  <2>1. lane.commit <= pushed  BY DEF Types, Known
  <2>2. lane.pc = "hook" /\ at[Lane].pc = "next" /\ UNCHANGED pushed  BY <1>13, ChainNextFacts DEF Beside
  <2>3. CASE Over(Lane) /\ \E link \in {"generate", "run"} : NewRow(link, lane.commit, lane.job.recovery)
    BY <1>n, <1>o, <1>t, <2>1, <2>2, <2>3
  <2>4. CASE UNCHANGED queue /\ (Over(Lane) \/ UNCHANGED lane)  BY <1>s, <1>o, <1>t, <2>2, <2>4
  <2>. QED  BY <1>13, <2>3, <2>4, ChainNextFacts
<1>14. ASSUME Restart  PROVE RowsKnown'  BY <1>14, RestartFacts DEF RowsKnown
<1>. QED  BY <1>1, <1>2, <1>3, <1>4, <1>5, <1>6, <1>7, <1>8, <1>9, <1>10, <1>11, <1>12, <1>13, <1>14 DEF NextStep

LEMMA InitTypes ==
  ASSUME Init
  PROVE  Types /\ RowsKnown /\ AtRest
PROOF
<1>1. 0 \in Commits /\ Lane \in Callers /\ MaxRestarts \in Nat  BY ChainAssumption DEF Commits, Callers
<1>2. queue \in Seq(Jobs) /\ DOMAIN queue = {}  BY EmptySeq DEF Init
<1>3. Shapes  BY <1>1, <1>2, NoHookFields DEF Init, Shapes, SyncSet, ScanSet
<1>4. Known  BY <1>1, NoHookFields DEF Init, Known
<1>5. LaneHook  BY <1>1, NoHookFields DEF Init, LaneHook
<1>6. RowsKnown  BY <1>2, NoHookFields DEF Init, RowsKnown, Rows
<1>. QED  BY <1>3, <1>4, <1>5, <1>6, NoHookFields DEF Init, Types, AtRest

LEMMA StutterTypes ==
  ASSUME Types, RowsKnown, UNCHANGED vars
  PROVE  Types' /\ RowsKnown'
PROOF
<1>1. Shapes'  BY DEF Types, Shapes, vars, contextVars
<1>2. Known'  BY DEF Types, Known, vars, contextVars
<1>3. LaneHook'  BY DEF Types, LaneHook, vars
<1>4. RowsKnown'  BY DEF RowsKnown, Rows, vars
<1>. QED  BY <1>1, <1>2, <1>3, <1>4 DEF Types

LEMMA TypesInvariant == Spec => [](Types /\ RowsKnown)
PROOF
<1>1. Init => Types /\ RowsKnown  BY InitTypes
<1>2. Types /\ RowsKnown /\ [Next]_vars => (Types /\ RowsKnown)'
  BY StepIsNextStep, TypesStep, RowsKnownStep, StutterTypes
<1>. QED  BY <1>1, <1>2, PTL DEF Spec

\* The rows of the repository, of the sync, the scan and the heavy jobs, and what each
\* hook remembers, hold the values TypeOK names: nobody knows a commit that was not
\* pushed, and the lane is held exactly as long as its hook has something to do.
THEOREM TypesHold == Spec => []TypeOK
PROOF
<1>1. Types => TypeOK
  <2>. SUFFICES ASSUME Types  PROVE TypeOK  OBVIOUS
  <2>1. /\ pushed \in Commits /\ recorded \in 0 .. pushed
        /\ sync.st \in {"none", "queued", "read", "stamped"} /\ sync.read \in 0 .. pushed
        /\ scan.st \in {"none", "queued", "started", "read"} /\ scan.read \in 0 .. pushed
        /\ docs \in 0 .. pushed /\ corpus \in 0 .. pushed /\ changedAt \in 0 .. clock
    BY DEF Types, Shapes, Known, SyncSet, ScanSet, Commits
  <2>2. /\ queue \in Seq(Jobs)
        /\ lane.pc \in {"free", "body", "hook"} /\ lane.job \in Jobs /\ lane.commit \in 0 .. pushed
    BY DEF Types, Shapes, Known, LaneSet, Commits
  <2>3. \A c \in Callers : at[c].pc \in Pcs /\ at[c].link \in Links /\ at[c].commit \in 0 .. pushed
    BY DEF Types, Shapes, Known, HookSet, Commits
  <2>. QED  BY <2>1, <2>2, <2>3 DEF Types, Shapes, LaneHook, TypeOK
<1>. QED  BY <1>1, TypesInvariant, PTL


-------------------------------------------------------------------------------
(* One push keeps its chain *)

\* One push and no restart, with any number of hooks and every fault.
Single == MaxPushes = 1 /\ MaxRestarts = 0

\* The hooks' steps that start and record nothing.
LEMMA OnePushAside ==
  ASSUME OnePush, Types, pushed # 0, UNCHANGED <<pushed, recorded, queue, chain>>,
         UNCHANGED lane \/ (lane.pc = "hook" /\ lane'.pc = "free"),
         at'[Lane].pc = at[Lane].pc \/ at[Lane].pc # "next",
         NEW c \in Callers, \A k \in Callers \ {c} : at'[k] = at[k],
         at'[c].pc \in {"setup", "record"} => at'[c].pc = "setup" /\ at'[c].commit = pushed,
         lane.pc = "hook" /\ lane'.pc = "free" => at[Lane].pc # "next"
  PROVE  OnePush'
PROOF
<1>1. \A k \in Callers : at'[k].pc \in {"setup", "record"} => at'[k].commit = pushed'
  BY DEF OnePush
<1>2. \A k \in Callers : at'[k].pc = "record" => chain'[pushed'] # "none"
  BY DEF OnePush
<1>3. lane'.pc # "free" => lane'.commit = pushed'  BY DEF OnePush
<1>4. recorded' = pushed' /\ pushed' # 0 => chain'[pushed'] # "none"  BY DEF OnePush
<1>5. chain'[pushed'] = "started" => queue' # <<>> \/ lane'.pc = "body" \/ at'[Lane].pc = "next"
  BY DEF OnePush
<1>. QED  BY <1>1, <1>2, <1>3, <1>4, <1>5 DEF OnePush

LEMMA OnePushStep ==
  ASSUME Single, Types, RowsKnown, OnePush, NextStep
  PROVE  OnePush'
PROOF
<1>t. /\ pushed \in {0, 1} /\ Commits = {0, 1} /\ Shapes /\ Lane \in Callers /\ Lane \notin Hooks
      /\ Hooks \subseteq Callers /\ recorded \in Nat /\ recorded <= pushed
  BY ChainAssumption DEF Single, Types, Shapes, Known, Commits, Callers
<1>r. ~Restart  BY RestartFacts, ChainAssumption DEF Single, Types, Shapes
<1>1. ASSUME NEW h \in Hooks, Push(h)  PROVE OnePush'
  <2>1. /\ pushed = 0 /\ pushed' = 1 /\ Moves(h, "sync")
        /\ UNCHANGED <<recorded, queue, lane, chain>>
    BY <1>1, <1>t, PushFacts DEF Single
  <2>2. AtRest /\ chain[1] = "none"  BY <2>1, <1>t DEF OnePush, Unstarted
  <2>3. \A k \in Callers : at'[k].pc \notin {"setup", "record"}  BY <2>1, <2>2 DEF AtRest, Moves
  <2>4. recorded' # 1 /\ lane'.pc = "free" /\ chain'[1] = "none"  BY <1>t, <2>1, <2>2 DEF AtRest
  <2>. QED  BY <2>1, <2>3, <2>4 DEF OnePush
<1>a. pushed = 0 => AtRest  BY DEF OnePush
<1>2. ASSUME NEW h \in Hooks, RippleGenerate(h)  PROVE OnePush'
  <2>1. /\ at[h].pc = "generate" /\ Over(h) /\ UNCHANGED <<pushed, recorded, lane, chain>>
        /\ UNCHANGED queue \/ NewRow("generate", 0, FALSE)
    BY <1>2, RippleFacts
  <2>2. pushed # 0  BY <1>a, <1>t, <2>1 DEF AtRest
  <2>3. queue # <<>> => queue' # <<>>  BY <2>1 DEF NewRow
  <2>4. at'[h].pc \in {"idle", "ripple"} /\ \A k \in Callers \ {h} : at'[k] = at[k]  BY <2>1 DEF Over
  <2>. QED  BY <1>t, <2>1, <2>2, <2>3, <2>4 DEF OnePush
<1>3. ASSUME NEW h \in Hooks,
             Settle(h) \/ SyncAfterPush(h) \/ ChainScan(h) \/ Coalesce(h) \/ CheckSettingUp(h)
      PROVE  OnePush'
  <2>1. Aside(h)  BY <1>3, AsideFacts
  <2>2. pushed # 0  BY <1>a, <1>t, <2>1 DEF AtRest, Aside
  <2>3. at'[h].pc \notin {"setup", "record"}  BY <2>1 DEF Aside, Starting
  <2>. QED  BY <1>t, <2>1, <2>2, <2>3, OnePushAside DEF Aside
<1>4. ASSUME Context  PROVE OnePush'
  <2>1. ContextStep  BY <1>4, ContextTyped
  <2>2. pushed # 0  BY <1>a, <2>1 DEF AtRest, ContextStep
  <2>. QED  BY <2>1, <2>2 DEF OnePush, ContextStep
<1>o. ASSUME NEW c \in Callers, at[c].pc \in {"owed", "repo"} \cup Starting, Over(c),
             UNCHANGED <<pushed, recorded, queue, chain>>
      PROVE  OnePush'
  <2>1. pushed # 0  BY <1>a, <1>o DEF AtRest, Starting
  <2>2. at[c].pc \notin {"idle", "next"}  BY <1>o DEF Starting
  <2>3. UNCHANGED lane \/ (c = Lane /\ lane.pc = "hook" /\ lane'.pc = "free")  BY <1>o, <2>2, OverRows
  <2>4. at'[c].pc \in {"idle", "ripple"} /\ \A k \in Callers \ {c} : at'[k] = at[k]  BY <1>o DEF Over
  <2>. QED  BY <1>o, <1>t, <2>1, <2>2, <2>3, <2>4, OnePushAside
<1>m. ASSUME NEW c \in Callers, at[c].pc \in {"owed", "repo"} \cup Starting, UNCHANGED lane,
             \/ \E pc \in {"repo", "look", "read"} : Moves(c, pc)
             \/ /\ \A k \in Callers \ {c} : at'[k] = at[k]
                /\ at'[c].pc = "setup" /\ at'[c].commit = pushed,
             UNCHANGED <<pushed, recorded, queue, chain>>
      PROVE  OnePush'
  <2>1. pushed # 0  BY <1>a, <1>m DEF AtRest, Starting
  <2>2. at[c].pc # "next"  BY <1>m DEF Starting
  <2>3. /\ \A k \in Callers \ {c} : at'[k] = at[k]
        /\ at'[c].pc \in {"setup", "record"} => at'[c].pc = "setup" /\ at'[c].commit = pushed
    BY <1>m DEF Moves
  <2>. QED  BY <1>m, <1>t, <2>1, <2>2, <2>3, OnePushAside
<1>5. ASSUME NEW c \in Callers, CheckScan(c)  PROVE OnePush'
  BY <1>5, <1>o, <1>m, CheckScanFacts DEF Beside
<1>6. ASSUME NEW c \in Callers, CheckOwed(c)  PROVE OnePush'
  BY <1>6, <1>o, <1>m, CheckOwedFacts DEF Beside
<1>7. ASSUME NEW c \in Callers, LookForHeavy(c)  PROVE OnePush'
  BY <1>7, <1>o, <1>m, LookForHeavyFacts DEF Beside, Starting
<1>8. ASSUME NEW c \in Callers, ReadPushed(c)  PROVE OnePush'
  BY <1>8, <1>m, ReadPushedFacts DEF Beside, Starting
<1>9. ASSUME NEW c \in Callers, StartSetup(c)  PROVE OnePush'
  <2>1. at[c].pc = "setup" /\ Beside /\ UNCHANGED recorded  BY <1>9, StartSetupFacts
  <2>2. CASE Over(c) /\ UNCHANGED <<queue, chain>>  BY <1>o, <2>1, <2>2 DEF Beside, Starting
  <2>3. CASE Begins(c)
    <3>1. pushed = 1 /\ at[c].commit = pushed  BY <1>a, <1>t, <2>1 DEF AtRest, OnePush
    <3>2. chain'[1] = "started" /\ queue' # <<>> /\ UNCHANGED lane /\ Moves(c, "record")
      BY <1>t, <2>3, <3>1 DEF Begins, NewRow, Shapes
    <3>3. \A k \in Callers : at'[k].pc \in {"setup", "record"} => at'[k].commit = pushed
      BY <2>1, <3>1, <3>2 DEF Moves, OnePush
    <3>. QED  BY <2>1, <3>1, <3>2, <3>3 DEF OnePush, Beside
  <2>. QED  BY <1>9, <2>2, <2>3, StartSetupFacts
<1>10. ASSUME NEW c \in Callers, RecordMainChain(c)  PROVE OnePush'
  <2>1. /\ at[c].pc = "record" /\ Beside /\ UNCHANGED <<queue, chain>> /\ Over(c)
        /\ recorded' = at[c].commit
    BY <1>10, RecordFacts
  <2>2. pushed # 0 /\ chain[pushed] # "none"  BY <1>a, <2>1 DEF AtRest, OnePush
  <2>3. UNCHANGED lane \/ (c = Lane /\ lane.pc = "hook" /\ lane'.pc = "free")  BY <2>1, OverRows
  <2>4. at'[c].pc \in {"idle", "ripple"} /\ \A k \in Callers \ {c} : at'[k] = at[k]  BY <2>1 DEF Over
  <2>5. \A k \in Callers : at'[k].pc \in {"setup", "record"} => at'[k].commit = pushed
    BY <2>4 DEF OnePush
  <2>6. chain[pushed] = "started" => queue # <<>> \/ lane'.pc = "body" \/ at'[Lane].pc = "next"
    BY <1>t, <2>1, <2>3, <2>4 DEF OnePush, Types, LaneHook
  <2>7. lane'.pc # "free" => lane'.commit = pushed  BY <2>3 DEF OnePush
  <2>. QED  BY <2>1, <2>2, <2>5, <2>6, <2>7 DEF OnePush, Beside
<1>11. ASSUME Claim  PROVE OnePush'
  <2>1. /\ queue # <<>> /\ lane'.pc = "body" /\ lane'.job \in Rows
        /\ lane'.commit = IF lane'.job.commit = 0 THEN pushed ELSE lane'.job.commit
        /\ UNCHANGED <<pushed, recorded, contextVars, at, chain, restarts>>
    BY <1>11, ClaimFacts
  <2>2. pushed = 1  BY <1>a, <1>t, <2>1 DEF AtRest
  <2>3. lane'.job.commit \in {0, 1}  BY <1>t, <2>1, QueueMembers DEF Jobs
  <2>4. lane'.commit = pushed  BY <2>1, <2>2, <2>3
  <2>. QED  BY <2>1, <2>2, <2>4 DEF OnePush
<1>12. ASSUME EndLink \/ EndChain \/ CancelChain  PROVE OnePush'
  <2>1. /\ lane.pc = "body" /\ Beside /\ UNCHANGED <<recorded, queue>>
        /\ \/ Handed("next") /\ UNCHANGED chain
           \/ Handed("owed") /\ Reported
           \/ Over(Lane) /\ Reported
    BY <1>12, EndFacts
  <2>2. pushed = 1 /\ lane.commit = pushed  BY <1>a, <1>t, <2>1 DEF AtRest, OnePush
  <2>3. /\ \A k \in Callers \ {Lane} : at'[k] = at[k]
        /\ at'[Lane].pc \in {"next", "owed", "idle", "ripple"}
        /\ lane'.pc # "free" => lane'.commit = lane.commit
        /\ chain'[pushed] # "none" <=> chain[pushed] # "none"
        /\ chain'[pushed] = "started" => at'[Lane].pc = "next"
    BY <1>t, <2>1, <2>2, NoHookFields DEF Handed, Moves, Over, Reported
  <2>4. \A k \in Callers : at'[k].pc \in {"setup", "record"} => at'[k] = at[k]  BY <2>3
  <2>. QED  BY <2>1, <2>2, <2>3, <2>4 DEF OnePush, Beside
<1>13. ASSUME ChainNext  PROVE OnePush'
  <2>1. /\ at[Lane].pc = "next" /\ lane.pc = "hook" /\ Beside /\ UNCHANGED recorded
        /\ \/ Over(Lane) /\ UNCHANGED chain /\ queue' # <<>>
           \/ Moves(Lane, "owed") /\ Reported /\ UNCHANGED <<queue, lane>>
    BY <1>13, ChainNextFacts DEF NewRow
  <2>2. pushed = 1 /\ lane.commit = pushed  BY <1>a, <1>t, <2>1 DEF AtRest, OnePush
  <2>3. /\ \A k \in Callers \ {Lane} : at'[k] = at[k]
        /\ at'[Lane].pc \in {"owed", "idle", "ripple"}
        /\ lane'.pc # "free" => lane'.commit = lane.commit
        /\ chain'[pushed] # "none" <=> chain[pushed] # "none"
        /\ chain'[pushed] = "started" => queue' # <<>>
    BY <1>t, <2>1, <2>2, NoHookFields DEF Moves, Over, Reported
  <2>4. \A k \in Callers : at'[k].pc \in {"setup", "record"} => at'[k] = at[k]  BY <2>3
  <2>. QED  BY <2>1, <2>2, <2>3, <2>4 DEF OnePush, Beside
<1>. QED
  BY <1>r, <1>1, <1>2, <1>3, <1>4, <1>5, <1>6, <1>7, <1>8, <1>9, <1>10, <1>11, <1>12, <1>13 DEF NextStep

\* A push that a chain was started for keeps its chain until that chain has ended or
\* was stopped, whatever hooks race for it, fail or are cancelled: a link that is
\* refused as busy was refused by a row of the same chain.
THEOREM PushKeepsChain == ASSUME Single PROVE Spec => []NewestHasChain
PROOF
<1>1. Init => OnePush
  <2>. SUFFICES ASSUME Init  PROVE OnePush  OBVIOUS
  <2>1. AtRest /\ Types  BY InitTypes
  <2>2. pushed = 0 /\ \A c \in Commits : chain[c] = "none"  BY DEF Init
  <2>3. 0 \in Commits  BY ChainAssumption DEF Commits
  <2>. QED  BY <2>1, <2>2, <2>3 DEF OnePush, Unstarted, AtRest
<1>2. (Types /\ RowsKnown) /\ OnePush /\ [Next]_vars => OnePush'
  <2>1. ASSUME UNCHANGED vars, OnePush  PROVE OnePush'
    BY <2>1 DEF OnePush, AtRest, Unstarted, vars, contextVars
  <2>. QED  BY <2>1, StepIsNextStep, OnePushStep
<1>3. Types /\ OnePush => NewestHasChain
  <2>. SUFFICES ASSUME Types, OnePush, recorded = pushed, pushed # 0, chain[pushed] # "ended"
                PROVE  InChain(pushed)
    BY DEF NewestHasChain
  <2>1. /\ pushed = 1 /\ Commits = {0, 1} /\ chain[pushed] = "started"
    BY ChainAssumption DEF Single, Types, Shapes, Commits, OnePush
  <2>2. CASE queue # <<>>
    <3>1. \E i \in DOMAIN queue : TRUE  BY <2>2, QueueMembers DEF Types
    <3>2. \A i \in DOMAIN queue : queue[i].commit \in {0, 1}  BY <2>1, QueueMembers DEF Types, Jobs
    <3>. QED  BY <2>1, <3>1, <3>2 DEF InChain
  <2>3. CASE lane.pc # "free"  BY <2>3 DEF InChain, OnePush
  <2>. QED  BY <2>1, <2>2, <2>3 DEF OnePush, Types, LaneHook
<1>4. Spec => []OnePush  BY <1>1, <1>2, TypesInvariant, PTL DEF Spec
<1>. QED  BY <1>3, <1>4, TypesInvariant, PTL


-------------------------------------------------------------------------------
(* No chain twice *)

\* A start is prompt, whoever finds a push has a sync to wait for, and a chain is killed
\* once, or there is one push.
Careful == Prompt /\ "no_sync" \notin Faults /\ (MaxRestarts <= 1 \/ MaxPushes <= 1)

\* What a step does to the rows, to the history and to the calls, short of a restart:
\* an end of a body alone takes a row away, and a start alone begins a commit's chain.
LEMMA RowsStep ==
  ASSUME Types, NextStep, ~Restart
  PROVE  Rows \subseteq Rows' \/ (lane.pc = "body" /\ BodyMayEnd)
PROOF
<1>t. Lane \in Callers /\ Hooks \subseteq Callers  BY DEF Callers
<1>n. ASSUME NEW link, NEW n, NEW r, NewRow(link, n, r),
             UNCHANGED lane \/ (lane.pc # "body" /\ lane'.pc # "body")
      PROVE  Rows \subseteq Rows'
  BY <1>n, NewRowRows
<1>s. ASSUME UNCHANGED queue, UNCHANGED lane \/ (lane.pc # "body" /\ lane'.pc # "body")
      PROVE  Rows \subseteq Rows'
  BY <1>s, SameRows
<1>o. ASSUME NEW c \in Callers, at[c].pc # "idle", Over(c)
      PROVE  UNCHANGED lane \/ (lane.pc # "body" /\ lane'.pc # "body")
  BY <1>o, OverRows
<1>1. ASSUME NEW h \in Hooks, Push(h)  PROVE Rows \subseteq Rows'  BY <1>1, <1>s, PushFacts
<1>2. ASSUME NEW h \in Hooks, RippleGenerate(h)  PROVE Rows \subseteq Rows'
  BY <1>2, <1>n, <1>s, RippleFacts
<1>3. ASSUME NEW h \in Hooks,
             Settle(h) \/ SyncAfterPush(h) \/ ChainScan(h) \/ Coalesce(h) \/ CheckSettingUp(h)
      PROVE  Rows \subseteq Rows'
  BY <1>3, <1>s, AsideFacts DEF Aside
<1>4. ASSUME Context  PROVE Rows \subseteq Rows'  BY <1>4, <1>s, ContextTyped DEF ContextStep
<1>5. ASSUME NEW c \in Callers, CheckScan(c)  PROVE Rows \subseteq Rows'
  BY <1>5, <1>s, <1>o, CheckScanFacts
<1>6. ASSUME NEW c \in Callers, CheckOwed(c)  PROVE Rows \subseteq Rows'
  BY <1>6, <1>s, <1>o, CheckOwedFacts
<1>7. ASSUME NEW c \in Callers, LookForHeavy(c)  PROVE Rows \subseteq Rows'
  BY <1>7, <1>s, <1>o, LookForHeavyFacts
<1>8. ASSUME NEW c \in Callers, ReadPushed(c)  PROVE Rows \subseteq Rows'
  BY <1>8, <1>s, ReadPushedFacts
<1>9. ASSUME NEW c \in Callers, StartSetup(c)  PROVE Rows \subseteq Rows'
  <2>1. at[c].pc = "setup"  BY <1>9, StartSetupFacts
  <2>2. CASE Begins(c)  BY <1>n, <2>2 DEF Begins
  <2>3. CASE Over(c) /\ UNCHANGED <<queue, chain>>  BY <1>o, <1>s, <2>1, <2>3
  <2>. QED  BY <1>9, <2>2, <2>3, StartSetupFacts
<1>10. ASSUME NEW c \in Callers, RecordMainChain(c)  PROVE Rows \subseteq Rows'
  BY <1>10, <1>s, <1>o, RecordFacts
<1>11. ASSUME Claim  PROVE Rows \subseteq Rows'  BY <1>11, ClaimFacts
<1>12. ASSUME EndLink \/ EndChain \/ CancelChain  PROVE lane.pc = "body" /\ BodyMayEnd
  BY <1>12, EndFacts
<1>13. ASSUME ChainNext  PROVE Rows \subseteq Rows'
  <2>1. lane.pc = "hook" /\ at[Lane].pc = "next"  BY <1>13, ChainNextFacts
  <2>2. CASE Over(Lane) /\ \E link \in {"generate", "run"} : NewRow(link, lane.commit, lane.job.recovery)
    BY <1>n, <1>o, <1>t, <2>1, <2>2
  <2>3. CASE UNCHANGED queue /\ (Over(Lane) \/ UNCHANGED lane)  BY <1>s, <1>o, <1>t, <2>1, <2>3
  <2>. QED  BY <1>13, <2>2, <2>3, ChainNextFacts
<1>. QED
  BY <1>1, <1>2, <1>3, <1>4, <1>5, <1>6, <1>7, <1>8, <1>9, <1>10, <1>11, <1>12, <1>13 DEF NextStep

\* The history: what no chain was started for stays so, but for the commit of a start.
StaysUnstarted == \A n \in Commits : chain[n] = "none" => chain'[n] = "none"

LEMMA ChainStep ==
  ASSUME Types, NextStep, ~Restart
  PROVE  StaysUnstarted \/ \E c \in Callers : StartSetup(c) /\ Begins(c)
PROOF
<1>1. ASSUME UNCHANGED chain  PROVE StaysUnstarted  BY <1>1 DEF StaysUnstarted
<1>2. ASSUME Reported  PROVE StaysUnstarted  BY <1>2 DEF Reported, StaysUnstarted
<1>3. ASSUME NEW h \in Hooks, \/ Push(h) \/ RippleGenerate(h)
                              \/ Settle(h) \/ SyncAfterPush(h) \/ ChainScan(h) \/ Coalesce(h)
                              \/ CheckSettingUp(h)
      PROVE  StaysUnstarted
  BY <1>3, <1>1, PushFacts, RippleFacts, AsideFacts DEF Aside
<1>4. ASSUME NEW c \in Callers, \/ CheckScan(c) \/ CheckOwed(c) \/ LookForHeavy(c) \/ ReadPushed(c)
                                \/ RecordMainChain(c)
      PROVE  StaysUnstarted
  BY <1>4, <1>1, CheckScanFacts, CheckOwedFacts, LookForHeavyFacts, ReadPushedFacts, RecordFacts
<1>5. ASSUME NEW c \in Callers, StartSetup(c)
      PROVE  StaysUnstarted \/ \E k \in Callers : StartSetup(k) /\ Begins(k)
  BY <1>5, <1>1, StartSetupFacts
<1>6. ASSUME Context \/ Claim  PROVE StaysUnstarted
  BY <1>6, <1>1, ContextTyped, ClaimFacts DEF ContextStep
<1>7. ASSUME EndLink \/ EndChain \/ CancelChain  PROVE StaysUnstarted  BY <1>7, <1>1, <1>2, EndFacts
<1>8. ASSUME ChainNext  PROVE StaysUnstarted  BY <1>8, <1>1, <1>2, ChainNextFacts
<1>. QED  BY <1>3, <1>4, <1>5, <1>6, <1>7, <1>8 DEF NextStep

\* The commits: pushed grows.
LEMMA PushedGrows ==
  ASSUME Types, NextStep
  PROVE  pushed \in Nat /\ pushed' \in Nat /\ pushed <= pushed'
PROOF
<1>t. pushed \in Nat  BY ChainAssumption DEF Types, Shapes, Commits
<1>1. ASSUME NEW h \in Hooks, Push(h)  PROVE pushed' = pushed + 1  BY <1>1, PushFacts
<1>2. ASSUME NEW h \in Hooks, \/ RippleGenerate(h)
                              \/ Settle(h) \/ SyncAfterPush(h) \/ ChainScan(h) \/ Coalesce(h)
                              \/ CheckSettingUp(h)
      PROVE  pushed' = pushed
  BY <1>2, RippleFacts, AsideFacts DEF Aside
<1>3. ASSUME NEW c \in Callers, \/ CheckScan(c) \/ CheckOwed(c) \/ LookForHeavy(c) \/ ReadPushed(c)
                                \/ StartSetup(c) \/ RecordMainChain(c)
      PROVE  pushed' = pushed
  BY <1>3, CheckScanFacts, CheckOwedFacts, LookForHeavyFacts, ReadPushedFacts, StartSetupFacts, RecordFacts
     DEF Beside
<1>4. ASSUME Context \/ Claim \/ EndLink \/ EndChain \/ CancelChain \/ ChainNext \/ Restart
      PROVE  pushed' = pushed
  BY <1>4, ContextTyped, ClaimFacts, EndFacts, ChainNextFacts, RestartFacts DEF ContextStep, Beside
<1>. QED  BY <1>t, <1>1, <1>2, <1>3, <1>4 DEF NextStep

\* While somebody looks, whatever is being set up stays, and what was not started is
\* not, or is being set up.
LEMMA SetUpStays ==
  ASSUME Careful, Types, NextStep, ~Restart, NEW k \in Callers, at[k].pc \in Starting
  PROVE  Rows \subseteq Rows'
PROOF
<1>1. ASSUME lane.pc = "body", BodyMayEnd  PROVE FALSE
  <2>1. CASE k = Lane  BY <1>1, <2>1 DEF Types, LaneHook, Starting
  <2>2. CASE k # Lane  BY <1>1, <2>2 DEF BodyMayEnd, Careful, Callers
  <2>. QED  BY <2>1, <2>2
<1>. QED  BY <1>1, RowsStep

LEMMA BeginsSetsUp ==
  ASSUME Types, NEW c \in Callers, Begins(c)
  PROVE  \E job \in Jobs : /\ job.link = "setup" /\ job.commit = at[c].commit
                           /\ job.recovery = at[c].recovery /\ Rows' = Rows \cup {job}
PROOF BY NewRowRows DEF Begins

Looks(k) ==
  /\ at[k].pc \in {"look", "read"} => pushed # 0 /\ (Unstarted(pushed) \/ SetUp)
  /\ at[k].pc = "setup" => at[k].commit # 0 /\ (Unstarted(at[k].commit) \/ SetUp)
  /\ at[k].pc = "record" =>
       /\ at[k].commit # 0 /\ Unstarted(at[k].commit + 1)
       /\ \E job \in Rows : job.link = "setup" /\ job.commit = at[k].commit

LEMMA LookingOn ==
  ASSUME Careful, Types, Looking, NextStep, ~Restart,
         NEW k \in Callers, at[k].pc \in Starting, NEW n \in Nat
  PROVE  /\ Unstarted(n) \/ SetUp => Unstarted(n)' \/ SetUp'
         /\ Rows \subseteq Rows'
PROOF
<1>1. Rows \subseteq Rows'  BY SetUpStays
<1>2. SetUp => SetUp'  BY <1>1 DEF SetUp
<1>3. CASE StaysUnstarted  BY <1>1, <1>2, <1>3 DEF StaysUnstarted, Unstarted
<1>4. CASE \E c \in Callers : StartSetup(c) /\ Begins(c)
  <2>1. PICK c \in Callers : Begins(c)  BY <1>4
  <2>2. SetUp'  BY <2>1, BeginsSetsUp DEF SetUp
  <2>. QED  BY <1>1, <2>2
<1>. QED  BY <1>3, <1>4, ChainStep

LEMMA UnstartedLater ==
  ASSUME NEW m \in Nat, NEW n \in Nat, m <= n, Unstarted(m)
  PROVE  Unstarted(n)
PROOF BY ChainAssumption DEF Unstarted, Commits

LEMMA LooksStay ==
  ASSUME Careful, Types, Looking, NextStep, ~Restart, NEW k \in Callers, at'[k] = at[k]
  PROVE  Looks(k)'
PROOF
<1>1. CASE at[k].pc \notin Starting  BY <1>1 DEF Looks, Starting
<1>2. CASE at[k].pc \in Starting
  <2>t. /\ pushed \in Nat /\ pushed' \in Nat /\ pushed <= pushed'
        /\ at[k].commit \in Nat /\ at[k].commit + 1 \in Nat
    BY PushedGrows DEF Types, Shapes, HookSet, Commits
  <2>1. Looks(k)  BY DEF Looking, Looks
  <2>2. ASSUME at[k].pc \in {"look", "read"}  PROVE pushed' # 0 /\ (Unstarted(pushed)' \/ SetUp')
    <3>1. pushed' # 0  BY <2>t, <2>1, <2>2 DEF Looks
    <3>2. PICK n \in Nat : n = pushed  BY <2>t
    <3>3. Unstarted(n)' \/ SetUp'  BY <1>2, <2>1, <2>2, <3>2, LookingOn DEF Looks
    <3>4. ASSUME Unstarted(n)'  PROVE Unstarted(pushed)'
      BY <2>t, <3>2, <3>4, ChainAssumption DEF Unstarted, Commits
    <3>. QED  BY <3>1, <3>3, <3>4
  <2>3. ASSUME at[k].pc = "setup"
        PROVE  at'[k].commit # 0 /\ (Unstarted(at[k].commit)' \/ SetUp')
    <3>1. PICK n \in Nat : n = at[k].commit  BY <2>t
    <3>2. Unstarted(n)' \/ SetUp'  BY <1>2, <2>1, <2>3, <3>1, LookingOn DEF Looks
    <3>3. at'[k].commit = n  BY <3>1
    <3>. QED  BY <2>1, <2>3, <3>1, <3>2, <3>3 DEF Looks, Unstarted
  <2>4. ASSUME at[k].pc = "record"
        PROVE  /\ at'[k].commit # 0 /\ Unstarted(at[k].commit + 1)'
               /\ \E job \in Rows' : job.link = "setup" /\ job.commit = at'[k].commit
    <3>1. /\ at[k].commit # 0 /\ Unstarted(at[k].commit + 1)
          /\ \E job \in Rows : job.link = "setup" /\ job.commit = at[k].commit
      BY <2>1, <2>4 DEF Looks
    <3>2. Rows \subseteq Rows'  BY <1>2, SetUpStays
    <3>3. SetUp  BY <3>1 DEF SetUp
    <3>4. StaysUnstarted  BY <3>3, ChainStep DEF Begins
    <3>5. Unstarted(at[k].commit + 1)'  BY <3>1, <3>4 DEF Unstarted, StaysUnstarted
    <3>. QED  BY <3>1, <3>2, <3>5
  <2>. QED  BY <2>2, <2>3, <2>4 DEF Looks
<1>. QED  BY <1>1, <1>2


\* Where a step leads whoever takes it.
Acts(c) ==
  /\ \A k \in Callers \ {c} : at'[k] = at[k]
  /\ at'[c].pc \in Starting =>
       \/ CheckOwed(c) /\ at'[c].pc = "look" /\ pushed \notin {0, recorded} /\ at[c].pc = "repo"
       \/ LookForHeavy(c) /\ at'[c].pc \in {"look", "read"} /\ at[c].pc = "look"
       \/ ReadPushed(c) /\ at'[c].pc = "setup" /\ at'[c].commit = pushed /\ at[c].pc = "read"
       \/ StartSetup(c) /\ Begins(c) /\ at'[c].pc = "record" /\ at'[c].commit = at[c].commit
  /\ at[c].pc = "record" => RecordMainChain(c)

LEMMA CallersStep ==
  ASSUME Careful, Types, NextStep, ~Restart
  PROVE  UNCHANGED at \/ \E c \in Callers : Acts(c)
PROOF
<1>t. Lane \in Callers /\ Hooks \subseteq Callers  BY DEF Callers
<1>o. ASSUME NEW c \in Callers, Over(c), at[c].pc # "record" \/ RecordMainChain(c)  PROVE Acts(c)
  BY <1>o DEF Over, Acts, Starting
<1>1. ASSUME NEW h \in Hooks, Push(h)  PROVE Acts(h)
  BY <1>1, PushFacts DEF Acts, Moves, Starting
<1>2. ASSUME NEW h \in Hooks, RippleGenerate(h)  PROVE Acts(h)
  BY <1>2, <1>o, <1>t, RippleFacts
<1>3. ASSUME NEW h \in Hooks,
             Settle(h) \/ SyncAfterPush(h) \/ ChainScan(h) \/ Coalesce(h) \/ CheckSettingUp(h)
      PROVE  Acts(h)
  <2>1. Aside(h)  BY <1>3, AsideFacts
  <2>2. at[h].pc # "record"
    BY <1>3 DEF Settle, SyncEnd, ScanEnd, SyncAfterPush, ChainScan, Coalesce, CheckSettingUp
  <2>. QED  BY <2>1, <2>2 DEF Acts, Aside, Careful
<1>4. ASSUME Context  PROVE UNCHANGED at  BY <1>4, ContextTyped DEF ContextStep
<1>5. ASSUME NEW c \in Callers, CheckScan(c)  PROVE Acts(c)
  <2>1. at[c].pc = "owed" /\ (Over(c) \/ Moves(c, "repo"))  BY <1>5, CheckScanFacts
  <2>2. CASE Over(c)  BY <1>o, <2>1, <2>2
  <2>3. CASE Moves(c, "repo")  BY <2>1, <2>3 DEF Moves, Acts, Starting
  <2>. QED  BY <2>1, <2>2, <2>3
<1>6. ASSUME NEW c \in Callers, CheckOwed(c)  PROVE Acts(c)
  <2>1. at[c].pc = "repo" /\ (Over(c) \/ (Moves(c, "look") /\ pushed \notin {0, recorded}))
    BY <1>6, CheckOwedFacts
  <2>2. CASE Over(c)  BY <1>o, <2>1, <2>2
  <2>3. CASE Moves(c, "look") /\ pushed \notin {0, recorded}  BY <1>6, <2>1, <2>3 DEF Moves, Acts, Starting
  <2>. QED  BY <2>1, <2>2, <2>3
<1>7. ASSUME NEW c \in Callers, LookForHeavy(c)  PROVE Acts(c)
  <2>1. at[c].pc = "look" /\ (Over(c) \/ Moves(c, "look") \/ Moves(c, "read"))  BY <1>7, LookForHeavyFacts
  <2>2. CASE Over(c)  BY <1>o, <2>1, <2>2
  <2>3. CASE Moves(c, "look") \/ Moves(c, "read")  BY <1>7, <2>1, <2>3 DEF Moves, Acts, Starting
  <2>. QED  BY <2>1, <2>2, <2>3
<1>8. ASSUME NEW c \in Callers, ReadPushed(c)  PROVE Acts(c)
  BY <1>8, ReadPushedFacts DEF Acts, Starting
<1>9. ASSUME NEW c \in Callers, StartSetup(c)  PROVE Acts(c)
  <2>1. at[c].pc = "setup" /\ (Over(c) \/ Begins(c))  BY <1>9, StartSetupFacts
  <2>2. CASE Over(c)  BY <1>o, <2>1, <2>2
  <2>3. CASE Begins(c)
    <3>1. /\ \A k \in Callers \ {c} : at'[k] = at[k]
          /\ at'[c].pc = "record" /\ at'[c].commit = at[c].commit
      BY <2>3 DEF Begins, Moves
    <3>. QED  BY <1>9, <2>1, <2>3, <3>1 DEF Acts
  <2>. QED  BY <2>1, <2>2, <2>3
<1>10. ASSUME NEW c \in Callers, RecordMainChain(c)  PROVE Acts(c)  BY <1>10, <1>o, RecordFacts
<1>11. ASSUME Claim  PROVE UNCHANGED at  BY <1>11, ClaimFacts
<1>12. ASSUME EndLink \/ EndChain \/ CancelChain  PROVE Acts(Lane)
  <2>1. lane.pc = "body" /\ (Handed("next") \/ Handed("owed") \/ Over(Lane))  BY <1>12, EndFacts
  <2>2. at[Lane].pc = "idle"  BY <2>1 DEF Types, LaneHook
  <2>3. CASE Over(Lane)  BY <1>o, <1>t, <2>2, <2>3
  <2>4. CASE Handed("next") \/ Handed("owed")  BY <2>2, <2>4 DEF Handed, Moves, Acts, Starting
  <2>. QED  BY <2>1, <2>3, <2>4
<1>13. ASSUME ChainNext  PROVE Acts(Lane)
  <2>1. at[Lane].pc = "next" /\ (Over(Lane) \/ Moves(Lane, "owed"))  BY <1>13, ChainNextFacts
  <2>2. CASE Over(Lane)  BY <1>o, <1>t, <2>1, <2>2
  <2>3. CASE Moves(Lane, "owed")  BY <2>1, <2>3 DEF Moves, Acts, Starting
  <2>. QED  BY <2>1, <2>2, <2>3
<1>. QED
  BY <1>t, <1>1, <1>2, <1>3, <1>4, <1>5, <1>6, <1>7, <1>8, <1>9, <1>10, <1>11, <1>12, <1>13 DEF NextStep

LEMMA LookingStep ==
  ASSUME Careful, Once, NextStep, ~Restart
  PROVE  Looking' /\ OneRecords'
PROOF
<1>t. Types /\ Looking /\ OneRecords /\ Newest  BY DEF Once
<1>p. pushed \in Nat /\ pushed' \in Nat /\ pushed <= pushed'  BY <1>t, PushedGrows
<1>1. CASE UNCHANGED at
  <2>1. \A k \in Callers : Looks(k)'  BY <1>1, <1>t, LooksStay
  <2>2. OneRecords'  BY <1>1, <1>t DEF OneRecords
  <2>. QED  BY <2>1, <2>2 DEF Looking, Looks
<1>2. CASE \E c \in Callers : Acts(c)
  <2>1. PICK c \in Callers : Acts(c)  BY <1>2
  <2>2. \A k \in Callers \ {c} : at'[k] = at[k]  BY <2>1 DEF Acts
  <2>3. \A k \in Callers \ {c} : Looks(k)'  BY <1>t, <2>2, LooksStay
  <2>4. Looks(c)' /\ (at'[c].pc = "record" => \A k \in Callers : at[k].pc # "record")
    <3>1. CASE at'[c].pc \notin Starting  BY <3>1 DEF Looks, Starting
    <3>2. CASE CheckOwed(c) /\ at'[c].pc = "look" /\ pushed \notin {0, recorded} /\ at[c].pc = "repo"
      <4>1. UNCHANGED <<pushed, queue, chain, lane>>
        <5>1. Beside /\ UNCHANGED <<queue, chain>> /\ (Over(c) \/ UNCHANGED lane)
          BY <1>t, <3>2, CheckOwedFacts
        <5>. QED  BY <3>2, <5>1 DEF Beside, Over
      <4>2. Unstarted(pushed) \/ SetUp
        <5>1. CASE \E k \in Callers : at[k].pc = "record" /\ at[k].commit = pushed
          BY <1>t, <5>1 DEF Looking, SetUp
        <5>2. ~AtRest  BY <3>2 DEF AtRest
        <5>. QED  BY <1>t, <3>2, <5>1, <5>2 DEF Newest
      <4>3. Unstarted(pushed)' \/ SetUp'  BY <4>1, <4>2 DEF Unstarted, SetUp, Rows
      <4>. QED  BY <3>2, <4>1, <4>3 DEF Looks
    <3>3. CASE LookForHeavy(c) /\ at'[c].pc \in {"look", "read"} /\ at[c].pc = "look"
      <4>1. UNCHANGED <<pushed, queue, chain, lane>>
        <5>1. Beside /\ UNCHANGED <<queue, chain>> /\ (Over(c) \/ UNCHANGED lane)
          BY <1>t, <3>3, LookForHeavyFacts
        <5>. QED  BY <3>3, <5>1 DEF Beside, Over
      <4>2. pushed # 0 /\ (Unstarted(pushed) \/ SetUp)  BY <1>t, <3>3 DEF Looking
      <4>3. Unstarted(pushed)' \/ SetUp'  BY <4>1, <4>2 DEF Unstarted, SetUp, Rows
      <4>. QED  BY <3>3, <4>1, <4>2, <4>3 DEF Looks
    <3>4. CASE ReadPushed(c) /\ at'[c].pc = "setup" /\ at'[c].commit = pushed /\ at[c].pc = "read"
      <4>1. UNCHANGED <<pushed, queue, chain, lane>>  BY <1>t, <3>4, ReadPushedFacts DEF Beside
      <4>2. pushed # 0 /\ (Unstarted(pushed) \/ SetUp)  BY <1>t, <3>4 DEF Looking
      <4>3. Unstarted(at[c].commit)' \/ SetUp'
        BY <3>4, <4>1, <4>2 DEF Unstarted, SetUp, Rows
      <4>. QED  BY <3>4, <4>1, <4>2, <4>3 DEF Looks
    <3>5. CASE StartSetup(c) /\ Begins(c) /\ at'[c].pc = "record" /\ at'[c].commit = at[c].commit
      <4>1. at[c].pc = "setup" /\ ~SetUp  BY <1>t, <3>5, StartSetupFacts DEF Begins
      <4>2. at[c].commit # 0 /\ Unstarted(at[c].commit)  BY <1>t, <4>1 DEF Looking
      <4>3. at[c].commit \in Commits /\ Commits \subseteq Nat  BY <1>t DEF Types, Shapes, HookSet, Commits
      <4>4. PICK m \in Nat : m = at[c].commit  BY <4>3
      <4>5. chain' = [chain EXCEPT ![m] = "started"] /\ at'[c].commit = m
        BY <3>5, <4>4 DEF Begins
      <4>6. \A n \in Commits : n >= m + 1 => chain'[n] = "none"
        BY <1>t, <4>2, <4>3, <4>4, <4>5 DEF Unstarted, Types, Shapes
      <4>7. Unstarted(at[c].commit + 1)'  BY <4>5, <4>6 DEF Unstarted
      <4>8. \E job \in Rows' : job.link = "setup" /\ job.commit = at'[c].commit
        BY <1>t, <3>5, BeginsSetsUp
      <4>9. \A k \in Callers : at[k].pc # "record"  BY <1>t, <4>1 DEF Looking, SetUp
      <4>. QED  BY <3>5, <4>2, <4>7, <4>8, <4>9 DEF Looks
    <3>6. at'[c].pc = "record" => \A k \in Callers : at[k].pc # "record"
      BY <2>1, <3>1, <3>5 DEF Acts, Starting
    <3>. QED  BY <2>1, <3>1, <3>2, <3>3, <3>4, <3>5, <3>6 DEF Acts
  <2>5. OneRecords'  BY <1>t, <2>2, <2>4 DEF OneRecords
  <2>6. \A k \in Callers : Looks(k)'  BY <2>3, <2>4
  <2>. QED  BY <2>5, <2>6 DEF Looking, Looks
<1>. QED  BY <1>1, <1>2, <1>t, CallersStep


\* At rest there is nothing to do but to push, or to restart.
LEMMA RestsOn ==
  ASSUME Types, AtRest, NextStep, ~Restart
  PROVE  \E h \in Hooks : Push(h)
PROOF
<1>t. Lane \in Callers /\ Hooks \subseteq Callers  BY DEF Callers
<1>1. ASSUME NEW h \in Hooks, RippleGenerate(h)  PROVE FALSE  BY <1>1, <1>t, RippleFacts DEF AtRest
<1>2. ASSUME NEW h \in Hooks,
             Settle(h) \/ SyncAfterPush(h) \/ ChainScan(h) \/ Coalesce(h) \/ CheckSettingUp(h)
      PROVE  FALSE
  BY <1>2, <1>t, AsideFacts DEF AtRest, Aside
<1>3. ASSUME NEW c \in Callers, \/ CheckScan(c) \/ CheckOwed(c) \/ LookForHeavy(c) \/ ReadPushed(c)
                                \/ StartSetup(c) \/ RecordMainChain(c)
      PROVE  FALSE
  BY <1>3, CheckScanFacts, CheckOwedFacts, LookForHeavyFacts, ReadPushedFacts, StartSetupFacts, RecordFacts
     DEF AtRest
<1>4. ASSUME Context \/ Claim \/ EndLink \/ EndChain \/ CancelChain \/ ChainNext  PROVE FALSE
  BY <1>4, <1>t, ContextTyped, ClaimFacts, EndFacts, ChainNextFacts DEF AtRest, ContextStep
<1>. QED  BY <1>1, <1>2, <1>3, <1>4 DEF NextStep

\* Who writes the two columns.
LEMMA ColumnsStep ==
  ASSUME Types, NextStep, ~Restart
  PROVE  \/ UNCHANGED <<pushed, recorded>>
         \/ (\E h \in Hooks : Push(h)) /\ pushed' = pushed + 1 /\ UNCHANGED <<recorded, chain>>
         \/ (\E c \in Callers : RecordMainChain(c) /\ recorded' = at[c].commit /\ at[c].pc = "record")
              /\ UNCHANGED <<pushed, chain>>
PROOF
<1>1. ASSUME NEW h \in Hooks, Push(h)  PROVE pushed' = pushed + 1 /\ UNCHANGED <<recorded, chain>>
  BY <1>1, PushFacts
<1>2. ASSUME NEW h \in Hooks, \/ RippleGenerate(h)
                              \/ Settle(h) \/ SyncAfterPush(h) \/ ChainScan(h) \/ Coalesce(h)
                              \/ CheckSettingUp(h)
      PROVE  UNCHANGED <<pushed, recorded>>
  BY <1>2, RippleFacts, AsideFacts DEF Aside
<1>3. ASSUME NEW c \in Callers, \/ CheckScan(c) \/ CheckOwed(c) \/ LookForHeavy(c) \/ ReadPushed(c)
                                \/ StartSetup(c)
      PROVE  UNCHANGED <<pushed, recorded>>
  BY <1>3, CheckScanFacts, CheckOwedFacts, LookForHeavyFacts, ReadPushedFacts, StartSetupFacts DEF Beside
<1>4. ASSUME NEW c \in Callers, RecordMainChain(c)
      PROVE  recorded' = at[c].commit /\ at[c].pc = "record" /\ UNCHANGED <<pushed, chain>>
  BY <1>4, RecordFacts DEF Beside
<1>5. ASSUME Context \/ Claim \/ EndLink \/ EndChain \/ CancelChain \/ ChainNext
      PROVE  UNCHANGED <<pushed, recorded>>
  BY <1>5, ContextTyped, ClaimFacts, EndFacts, ChainNextFacts DEF ContextStep, Beside
<1>. QED  BY <1>1, <1>2, <1>3, <1>4, <1>5 DEF NextStep

LEMMA NewestStep ==
  ASSUME Careful, Once, NextStep, ~Restart
  PROVE  Newest'
PROOF
<1>t. Types /\ Looking /\ OneRecords /\ Newest  BY DEF Once
<1>p. /\ pushed \in Nat /\ Commits \subseteq Nat /\ chain \in [Commits -> {"none", "started", "ended"}]
      /\ \A k \in Callers : at[k].commit \in Commits /\ at[k].commit \in Nat /\ at[k].commit <= pushed
  BY <1>t, ChainAssumption DEF Types, Shapes, Known, HookSet, Commits
<1>1. CASE (\E h \in Hooks : Push(h)) /\ pushed' = pushed + 1 /\ UNCHANGED <<recorded, chain>>
  <2>1. \A n \in Commits : n >= pushed + 1 => chain[n] = "none"  BY <1>t DEF Newest, Unstarted
  <2>2. Unstarted(pushed)' /\ Unstarted(pushed + 1)'  BY <1>1, <1>p, <2>1 DEF Unstarted
  <2>. QED  BY <2>2 DEF Newest
<1>2. CASE \E c \in Callers : StartSetup(c) /\ Begins(c)
  <2>1. PICK c \in Callers : StartSetup(c) /\ Begins(c)  BY <1>2
  <2>2. /\ at[c].pc = "setup" /\ ~SetUp /\ UNCHANGED <<pushed, recorded>>
        /\ at'[c].pc = "record" /\ at'[c].commit = at[c].commit
    BY <1>t, <2>1, StartSetupFacts DEF Begins, Moves, Beside
  <2>3. PICK m \in Commits : m = at[c].commit  BY <1>p
  <2>4. \A n \in Commits : n >= m => chain[n] = "none"  BY <1>t, <2>2, <2>3 DEF Looking, Unstarted
  <2>5. chain' = [chain EXCEPT ![m] = "started"]  BY <2>1, <2>3 DEF Begins
  <2>6. \A n \in Commits : n >= m + 1 => chain'[n] = "none"  BY <1>p, <2>4, <2>5
  <2>7. m <= pushed  BY <1>p, <2>3
  <2>8. Unstarted(pushed + 1)'  BY <1>p, <2>2, <2>6, <2>7 DEF Unstarted
  <2>9. CASE m = pushed  BY <2>2, <2>3, <2>8, <2>9 DEF Newest
  <2>10. CASE m # pushed
    <3>1. Unstarted(pushed)'  BY <1>p, <2>2, <2>6, <2>7, <2>10 DEF Unstarted
    <3>. QED  BY <2>8, <3>1 DEF Newest
  <2>. QED  BY <2>9, <2>10
<1>3. CASE /\ \E c \in Callers : RecordMainChain(c) /\ recorded' = at[c].commit /\ at[c].pc = "record"
           /\ UNCHANGED <<pushed, chain>>
  <2>1. PICK c \in Callers : recorded' = at[c].commit /\ at[c].pc = "record"  BY <1>3
  <2>2. PICK m \in Commits : m = at[c].commit  BY <1>p
  <2>3. \A n \in Commits : n >= m + 1 => chain[n] = "none"  BY <1>t, <2>1, <2>2 DEF Looking, Unstarted
  <2>4. Unstarted(pushed + 1)'  BY <1>3, <1>t DEF Newest, Unstarted
  <2>5. CASE m = pushed  BY <1>3, <2>1, <2>2, <2>4, <2>5 DEF Newest
  <2>6. CASE m # pushed
    <3>1. m <= pushed  BY <1>p, <2>2
    <3>2. \A n \in Commits : n >= pushed => chain[n] = "none"  BY <1>p, <2>3, <2>6, <3>1
    <3>3. Unstarted(pushed)'  BY <1>3, <3>2 DEF Unstarted
    <3>. QED  BY <2>4, <3>3 DEF Newest
  <2>. QED  BY <2>5, <2>6
<1>4. CASE UNCHANGED <<pushed, recorded>> /\ StaysUnstarted /\ ~(\E c \in Callers : RecordMainChain(c))
            /\ ~(\E h \in Hooks : Push(h))
  <2>1. Unstarted(pushed + 1)' /\ (Unstarted(pushed) => Unstarted(pushed)')
    BY <1>4, <1>t DEF Newest, Unstarted, StaysUnstarted
  <2>2. ~AtRest  BY <1>t, <1>4, RestsOn
  <2>3. ASSUME NEW k \in Callers, at[k].pc = "record"  PROVE at'[k] = at[k]
    BY <1>4, <1>t, <2>3, CallersStep DEF Acts
  <2>. QED  BY <1>4, <1>t, <2>1, <2>2, <2>3 DEF Newest
<1>5. CASE UNCHANGED <<pushed, recorded>> /\ StaysUnstarted /\ (\E c \in Callers : RecordMainChain(c))
  <2>1. PICK c \in Callers : RecordMainChain(c)  BY <1>5
  <2>2. recorded' = at[c].commit /\ at[c].pc = "record" /\ UNCHANGED chain  BY <1>t, <2>1, RecordFacts
  <2>. QED  BY <1>3, <1>5, <2>1, <2>2
<1>6. CASE UNCHANGED <<pushed, recorded>> /\ StaysUnstarted /\ (\E h \in Hooks : Push(h))
  BY <1>6, <1>p, PushFacts, <1>t
<1>. QED  BY <1>1, <1>2, <1>3, <1>4, <1>5, <1>6, <1>t, ColumnsStep, ChainStep

-------------------------------------------------------------------------------
(* A chain that goes back to a restart *)

LEMMA RecoveringStep ==
  ASSUME Careful, Types, NextStep, ~Restart, Recovering'
  PROVE  Recovering
PROOF
<1>t. Lane \in Callers /\ Hooks \subseteq Callers  BY DEF Callers
<1>n. ASSUME NEW link, NEW n, NEW r, NewRow(link, n, r), r => Recovering,
             UNCHANGED lane \/ (lane.pc # "body" /\ lane'.pc # "body"),
             lane'.pc = "hook" => UNCHANGED lane,
             \A k \in Callers : at'[k].recovery => at[k].recovery
      PROVE  Recovering
  <2>1. PICK job \in Jobs : job.recovery = r /\ Rows' = Rows \cup {job}  BY <1>n, NewRowRows
  <2>. QED  BY <1>n, <2>1 DEF Recovering
<1>s. ASSUME UNCHANGED queue, UNCHANGED lane \/ (lane.pc # "body" /\ lane'.pc # "body"),
             lane'.pc = "hook" => UNCHANGED lane,
             \A k \in Callers : at'[k].recovery => at[k].recovery
      PROVE  Recovering
  <2>1. Rows' = Rows  BY <1>s, SameRows
  <2>. QED  BY <1>s, <2>1 DEF Recovering
<1>o. ASSUME NEW c \in Callers, at[c].pc # "idle", Over(c)
      PROVE  /\ UNCHANGED lane \/ (lane.pc # "body" /\ lane'.pc # "body")
             /\ lane'.pc = "hook" => UNCHANGED lane
             /\ \A k \in Callers : at'[k].recovery => at[k].recovery
  BY <1>o, OverRows DEF Over
<1>m. ASSUME NEW c \in Callers, NEW pc, Moves(c, pc)
      PROVE  \A k \in Callers : at'[k].recovery => at[k].recovery
  BY <1>m DEF Moves
<1>1. ASSUME NEW h \in Hooks, Push(h)  PROVE Recovering  BY <1>1, <1>t, <1>s, <1>m, PushFacts
<1>2. ASSUME NEW h \in Hooks, RippleGenerate(h)  PROVE Recovering
  BY <1>2, <1>t, <1>n, <1>s, <1>o, RippleFacts
<1>3. ASSUME NEW h \in Hooks,
             Settle(h) \/ SyncAfterPush(h) \/ ChainScan(h) \/ Coalesce(h) \/ CheckSettingUp(h)
      PROVE  Recovering
  <2>1. Aside(h)  BY <1>3, AsideFacts
  <2>2. \A k \in Callers : at'[k].recovery => at[k].recovery  BY <2>1 DEF Aside
  <2>. QED  BY <2>1, <2>2, <1>s DEF Aside
<1>4. ASSUME Context  PROVE Recovering  BY <1>4, <1>s, ContextTyped DEF ContextStep
<1>5. ASSUME NEW c \in Callers, CheckScan(c)  PROVE Recovering
  BY <1>5, <1>s, <1>o, <1>m, CheckScanFacts
<1>6. ASSUME NEW c \in Callers, CheckOwed(c)  PROVE Recovering
  BY <1>6, <1>s, <1>o, <1>m, CheckOwedFacts
<1>7. ASSUME NEW c \in Callers, LookForHeavy(c)  PROVE Recovering
  BY <1>7, <1>s, <1>o, <1>m, LookForHeavyFacts
<1>8. ASSUME NEW c \in Callers, ReadPushed(c)  PROVE Recovering
  <2>1. /\ UNCHANGED <<queue, lane>> /\ \A k \in Callers \ {c} : at'[k] = at[k]
        /\ at'[c].recovery = at[c].recovery
    BY <1>8, ReadPushedFacts
  <2>2. \A k \in Callers : at'[k].recovery => at[k].recovery  BY <2>1
  <2>. QED  BY <2>1, <2>2, <1>s
<1>9. ASSUME NEW c \in Callers, StartSetup(c)  PROVE Recovering
  <2>1. at[c].pc = "setup"  BY <1>9, StartSetupFacts
  <2>2. CASE Begins(c)
    <3>1. NewRow("setup", at[c].commit, at[c].recovery) /\ UNCHANGED lane /\ Moves(c, "record")
      BY <2>2 DEF Begins
    <3>2. at[c].recovery => Recovering  BY DEF Recovering
    <3>. QED  BY <1>m, <1>n, <3>1, <3>2
  <2>3. CASE Over(c) /\ UNCHANGED <<queue, chain>>  BY <1>o, <1>s, <2>1, <2>3
  <2>. QED  BY <1>9, <2>2, <2>3, StartSetupFacts
<1>10. ASSUME NEW c \in Callers, RecordMainChain(c)  PROVE Recovering
  BY <1>10, <1>s, <1>o, RecordFacts
<1>11. ASSUME Claim  PROVE Recovering
  <2>1. Rows' = Rows /\ UNCHANGED at /\ lane'.pc = "body"  BY <1>11, ClaimFacts
  <2>. QED  BY <2>1 DEF Recovering
<1>12. ASSUME EndLink \/ EndChain \/ CancelChain  PROVE Recovering
  <2>1. /\ lane.pc = "body" /\ UNCHANGED queue
        /\ Handed("next") \/ Handed("owed") \/ Over(Lane)
    BY <1>12, EndFacts
  <2>2. lane'.pc # "body" /\ lane'.pc = "hook" => lane'.job = lane.job
    BY <2>1, NoHookFields DEF Handed, Over
  <2>3. \A k \in Callers : at'[k].recovery => at[k].recovery  BY <2>1, <1>t DEF Handed, Moves, Over
  <2>4. lane.job \in Rows  BY <2>1 DEF Rows
  <2>5. lane'.pc # "body"  BY <2>1, NoHookFields DEF Handed, Over
  <2>6. Rows' \subseteq Rows  BY <2>1, <2>5 DEF Rows
  <2>. QED  BY <2>1, <2>2, <2>3, <2>4, <2>5, <2>6 DEF Recovering
<1>13. ASSUME ChainNext  PROVE Recovering
  <2>1. lane.pc = "hook" /\ at[Lane].pc = "next"  BY <1>13, ChainNextFacts
  <2>2. lane.job.recovery => Recovering  BY <2>1 DEF Recovering
  <2>3. CASE Over(Lane) /\ \E link \in {"generate", "run"} : NewRow(link, lane.commit, lane.job.recovery)
    BY <1>n, <1>o, <1>t, <2>1, <2>2, <2>3
  <2>4. CASE UNCHANGED queue /\ Over(Lane)  BY <1>s, <1>o, <1>t, <2>1, <2>4
  <2>5. CASE UNCHANGED <<queue, lane>> /\ Moves(Lane, "owed")  BY <1>s, <1>m, <1>t, <2>5
  <2>. QED  BY <1>13, <2>3, <2>4, <2>5, ChainNextFacts
<1>. QED
  BY <1>1, <1>2, <1>3, <1>4, <1>5, <1>6, <1>7, <1>8, <1>9, <1>10, <1>11, <1>12, <1>13 DEF NextStep


\* A call's own step leaves such a chain alone.
LEMMA AloneServes ==
  ASSUME Types, Alone, NEW c \in Callers, at[c].pc # "idle",
         Beside, UNCHANGED <<recorded, queue, chain>>,
         \/ Over(c)
         \/ /\ UNCHANGED lane /\ \A k \in Callers \ {c} : at'[k] = at[k]
            /\ at'[c].pc \in {"repo"} \cup Starting /\ (at'[c].pc # "repo" => c # Lane)
            /\ at'[c].recovery = at[c].recovery /\ at'[c].ripple = at[c].ripple
  PROVE  Alone'
PROOF
<1>t. Lane \in Callers /\ Lane \notin Hooks /\ Hooks \subseteq Callers  BY ChainAssumption DEF Callers
<1>1. UNCHANGED lane \/ (c = Lane /\ lane.pc = "hook" /\ lane'.pc = "free")  BY OverRows
<1>2. Rows' = Rows  BY <1>1, SameRows
<1>3. ASSUME NEW h \in Hooks
      PROVE  /\ at'[h].pc \in {"idle", "owed", "repo"} \cup Starting /\ ~at'[h].ripple
             /\ at'[h].pc # "idle" => at'[h].recovery
  <2>1. CASE Over(c) /\ h = c  BY <2>1, <1>3 DEF Over, Alone
  <2>2. CASE Over(c) /\ h # c  BY <2>2, <1>3, <1>t DEF Over, Alone
  <2>3. CASE ~Over(c)  BY <2>3, <1>3, <1>t DEF Alone
  <2>. QED  BY <2>1, <2>2, <2>3
<1>4. at'[Lane].pc \in {"idle", "next", "owed", "repo"}
  <2>1. CASE Over(c)  BY <2>1, <1>t DEF Over, Alone, Types, LaneHook
  <2>2. CASE ~Over(c)  BY <2>2, <1>t DEF Alone
  <2>. QED  BY <2>1, <2>2
<1>. QED  BY <1>1, <1>2, <1>3, <1>4 DEF Alone, Beside

LEMMA AloneStep ==
  ASSUME Careful, MaxPushes <= 1, Once, Alone, NextStep, ~Restart
  PROVE  Alone'
PROOF
<1>t. /\ Types /\ Looking /\ Newest /\ Lane \in Callers /\ Lane \notin Hooks /\ Hooks \subseteq Callers
      /\ pushed \in Nat /\ MaxPushes \in Nat /\ pushed = MaxPushes
  BY ChainAssumption DEF Once, Callers, Types, Shapes, Commits, Alone
<1>1. ASSUME NEW h \in Hooks, Push(h)  PROVE Alone'  BY <1>1, <1>t, PushFacts
<1>2. ASSUME NEW h \in Hooks, RippleGenerate(h)  PROVE Alone'
  BY <1>2, <1>t, RippleFacts DEF Alone, Starting
<1>3. ASSUME NEW h \in Hooks,
             Settle(h) \/ SyncAfterPush(h) \/ ChainScan(h) \/ Coalesce(h) \/ CheckSettingUp(h)
      PROVE  Alone'
  BY <1>3, <1>t, AsideFacts DEF Aside, Alone, Starting
<1>4. ASSUME Context  PROVE Alone'  BY <1>4, <1>t, ContextTyped DEF ContextStep, Alone
<1>5. ASSUME NEW c \in Callers, CheckScan(c)  PROVE Alone'
  <2>1. /\ at[c].pc = "owed" /\ Beside /\ UNCHANGED <<recorded, queue, chain>>
        /\ Over(c) \/ (Moves(c, "repo") /\ UNCHANGED lane)
    BY <1>5, <1>t, CheckScanFacts
  <2>. QED  BY <1>t, <2>1, AloneServes DEF Moves
<1>6. ASSUME NEW c \in Callers, CheckOwed(c)  PROVE Alone'
  <2>1. /\ at[c].pc = "repo" /\ Beside /\ UNCHANGED <<recorded, queue, chain>>
        /\ \/ Over(c)
           \/ Moves(c, "look") /\ UNCHANGED lane /\ pushed \notin {0, recorded}
    BY <1>6, <1>t, CheckOwedFacts
  <2>2. CASE Over(c)  BY <1>t, <2>1, <2>2, AloneServes
  <2>3. CASE Moves(c, "look") /\ UNCHANGED lane /\ pushed \notin {0, recorded}
    <3>1. c # Lane  BY <1>t, <2>1, <2>3 DEF Alone, Types, LaneHook
    <3>. QED  BY <1>t, <2>1, <2>3, <3>1, AloneServes DEF Moves, Starting
  <2>. QED  BY <2>1, <2>2, <2>3
<1>7. ASSUME NEW c \in Callers, LookForHeavy(c)  PROVE Alone'
  <2>1. /\ at[c].pc = "look" /\ Beside /\ UNCHANGED <<recorded, queue, chain>>
        /\ \/ Over(c)
           \/ Moves(c, "look") /\ UNCHANGED lane
           \/ Moves(c, "read") /\ UNCHANGED lane
    BY <1>7, <1>t, LookForHeavyFacts
  <2>2. c # Lane  BY <2>1 DEF Alone
  <2>. QED  BY <1>t, <2>1, <2>2, AloneServes DEF Moves, Starting
<1>8. ASSUME NEW c \in Callers, ReadPushed(c)  PROVE Alone'
  <2>1. /\ at[c].pc = "read" /\ Beside /\ UNCHANGED <<recorded, queue, chain, lane>>
        /\ \A k \in Callers \ {c} : at'[k] = at[k]
        /\ at'[c].pc = "setup" /\ at'[c].recovery = at[c].recovery /\ at'[c].ripple = at[c].ripple
    BY <1>8, <1>t, ReadPushedFacts
  <2>2. c # Lane  BY <2>1 DEF Alone
  <2>. QED  BY <1>t, <2>1, <2>2, AloneServes DEF Starting
<1>9. ASSUME NEW c \in Callers, StartSetup(c)  PROVE Alone'
  <2>1. at[c].pc = "setup" /\ Beside /\ UNCHANGED recorded  BY <1>9, <1>t, StartSetupFacts
  <2>2. c # Lane /\ c \in Hooks  BY <2>1 DEF Alone, Callers
  <2>3. CASE Over(c) /\ UNCHANGED <<queue, chain>>  BY <1>t, <2>1, <2>3, AloneServes
  <2>4. CASE Begins(c)
    <3>1. at[c].commit \in Commits /\ at[c].commit # 0 /\ at[c].commit <= pushed
      BY <1>t, <2>1 DEF Types, Shapes, Known, HookSet, Looking
    <3>2. at[c].commit = pushed  BY <1>t, <3>1 DEF Commits
    <3>3. at[c].recovery  BY <2>1, <2>2 DEF Alone
    <3>4. PICK job \in Jobs : /\ job.commit = pushed /\ job.recovery /\ Rows' = Rows \cup {job}
      BY <1>t, <2>4, <3>2, <3>3, BeginsSetsUp
    <3>5. /\ UNCHANGED lane /\ \A k \in Callers \ {c} : at'[k] = at[k]
          /\ at'[c].pc = "record" /\ at'[c].recovery = at[c].recovery /\ at'[c].ripple = at[c].ripple
      BY <2>4 DEF Begins, Moves
    <3>6. chain'[pushed] = "started"  BY <1>t, <2>4, <3>1, <3>2 DEF Begins, Types, Shapes
    <3>7. \A h \in Hooks : /\ at'[h].pc \in {"idle", "owed", "repo"} \cup Starting /\ ~at'[h].ripple
                           /\ at'[h].pc # "idle" => at'[h].recovery
      BY <1>t, <2>2, <3>3, <3>5 DEF Alone, Starting
    <3>8. at'[Lane].pc = at[Lane].pc  BY <1>t, <2>2, <3>5
    <3>. QED  BY <2>1, <3>4, <3>5, <3>6, <3>7, <3>8 DEF Alone, Beside
  <2>. QED  BY <1>9, <1>t, <2>3, <2>4, StartSetupFacts
<1>10. ASSUME NEW c \in Callers, RecordMainChain(c)  PROVE Alone'
  <2>1. /\ at[c].pc = "record" /\ Beside /\ UNCHANGED <<queue, chain>>
        /\ recorded' = at[c].commit /\ Over(c)
    BY <1>10, <1>t, RecordFacts
  <2>2. c # Lane  BY <2>1 DEF Alone
  <2>3. at[c].commit \in Commits /\ at[c].commit # 0 /\ at[c].commit <= pushed
    BY <1>t, <2>1 DEF Types, Shapes, Known, HookSet, Looking
  <2>4. recorded' = pushed  BY <1>t, <2>1, <2>3 DEF Commits
  <2>5. UNCHANGED lane  BY <2>1, <2>2 DEF Over
  <2>6. Rows' = Rows  BY <2>1, <2>5, SameRows
  <2>7. \A h \in Hooks : /\ at'[h].pc \in {"idle", "owed", "repo"} \cup Starting /\ ~at'[h].ripple
                         /\ at'[h].pc # "idle" => at'[h].recovery
    BY <1>t, <2>1 DEF Alone, Over
  <2>8. at'[Lane].pc = at[Lane].pc  BY <1>t, <2>1, <2>2 DEF Over
  <2>. QED  BY <2>1, <2>4, <2>5, <2>6, <2>7, <2>8 DEF Alone, Beside
<1>11. ASSUME Claim  PROVE Alone'
  <2>1. /\ lane'.pc = "body" /\ lane'.job \in Rows /\ Rows' = Rows
        /\ lane'.commit = IF lane'.job.commit = 0 THEN pushed ELSE lane'.job.commit
        /\ UNCHANGED <<pushed, recorded, contextVars, at, chain>>
    BY <1>11, <1>t, ClaimFacts
  <2>2. lane'.job.recovery /\ lane'.commit = pushed /\ chain[pushed] # "none"
    BY <2>1 DEF Alone
  <2>. QED  BY <2>1, <2>2 DEF Alone, contextVars
<1>12. ASSUME EndLink \/ EndChain \/ CancelChain  PROVE Alone'
  <2>1. /\ lane.pc = "body" /\ BodyMayEnd /\ Beside /\ UNCHANGED <<recorded, queue>>
        /\ \/ Handed("next") /\ UNCHANGED chain
           \/ Handed("owed") /\ Reported
           \/ Over(Lane) /\ Reported
    BY <1>12, <1>t, EndFacts
  <2>2. chain[pushed] # "none"  BY <2>1 DEF Alone
  <2>3. recorded = pushed
    <3>1. \A h \in Hooks : at[h].pc # "record"  BY <2>1 DEF BodyMayEnd, Careful, Starting
    <3>2. at[Lane].pc # "record" /\ ~AtRest  BY <2>1 DEF Alone, AtRest
    <3>3. ~Unstarted(pushed)  BY <1>t, <2>2 DEF Unstarted, Types, Shapes
    <3>. QED  BY <1>t, <3>1, <3>2, <3>3 DEF Newest, Callers
  <2>4. chain'[pushed] # "none"  BY <1>t, <2>1, <2>2 DEF Reported, Types, Shapes
  <2>5. /\ \A k \in Callers \ {Lane} : at'[k] = at[k]
        /\ at'[Lane].pc \in {"idle", "next", "owed"}
        /\ lane'.pc # "body" /\ (lane'.pc # "free" => lane'.job = lane.job /\ lane'.commit = lane.commit)
    BY <1>t, <2>1, NoHookFields DEF Handed, Moves, Over, Types, LaneHook
  <2>6. Rows' \subseteq Rows  BY <2>1, <2>5 DEF Rows
  <2>7. \A h \in Hooks : at'[h] = at[h]  BY <1>t, <2>5
  <2>. QED  BY <2>1, <2>3, <2>4, <2>5, <2>6, <2>7 DEF Alone, Beside
<1>13. ASSUME ChainNext  PROVE Alone'
  <2>1. /\ at[Lane].pc = "next" /\ lane.pc = "hook" /\ Beside /\ UNCHANGED recorded
        /\ \/ Over(Lane) /\ UNCHANGED chain
              /\ \E link \in {"generate", "run"} : NewRow(link, lane.commit, lane.job.recovery)
           \/ Over(Lane) /\ UNCHANGED <<queue, chain>>
           \/ Moves(Lane, "owed") /\ Reported /\ UNCHANGED <<queue, lane>>
    BY <1>13, <1>t, ChainNextFacts
  <2>2. lane.job.recovery /\ lane.commit = pushed /\ chain[pushed] # "none"  BY <2>1 DEF Alone
  <2>3. UNCHANGED lane \/ lane'.pc = "free"  BY <2>1, NoHookFields DEF Over
  <2>4. \A job \in Rows' : job.recovery /\ job.commit = pushed
    <3>1. CASE \E link \in {"generate", "run"} : NewRow(link, lane.commit, lane.job.recovery)
      <4>1. PICK link \in {"generate", "run"} : NewRow(link, lane.commit, lane.job.recovery)
        BY <3>1
      <4>2. UNCHANGED lane \/ (lane.pc # "body" /\ lane'.pc # "body")  BY <2>1, <2>3
      <4>3. PICK job \in Jobs : /\ job.commit = lane.commit /\ job.recovery = lane.job.recovery
                                /\ Rows' = Rows \cup {job}
        BY <4>1, <4>2, NewRowRows
      <4>4. job.recovery /\ job.commit = pushed  BY <2>2, <4>3
      <4>. QED  BY <2>1, <4>3, <4>4 DEF Alone
    <3>2. CASE UNCHANGED queue
      <4>1. Rows' = Rows  BY <2>1, <2>3, <3>2, SameRows
      <4>. QED  BY <4>1 DEF Alone
    <3>. QED  BY <2>1, <3>1, <3>2
  <2>5. chain'[pushed] # "none"  BY <1>t, <2>1, <2>2 DEF Reported, Types, Shapes
  <2>6. /\ \A h \in Hooks : at'[h] = at[h]
        /\ at'[Lane].pc \in {"idle", "owed"}
    BY <1>t, <2>1 DEF Moves, Over, Types, LaneHook
  <2>. QED  BY <2>1, <2>2, <2>3, <2>4, <2>5, <2>6 DEF Alone, Beside
<1>. QED
  BY <1>1, <1>2, <1>3, <1>4, <1>5, <1>6, <1>7, <1>8, <1>9, <1>10, <1>11, <1>12, <1>13 DEF NextStep

LEMMA RestartedStep ==
  ASSUME Careful, Once, NextStep, ~Restart
  PROVE  Restarted'
PROOF
<1>1. Types /\ Restarted  BY DEF Once
<1>2. restarts' = 0 => restarts = 0
  <2>1. UNCHANGED restarts
    <3>1. ASSUME NEW h \in Hooks, \/ Push(h) \/ RippleGenerate(h)
                                  \/ Settle(h) \/ SyncAfterPush(h) \/ ChainScan(h) \/ Coalesce(h)
                                  \/ CheckSettingUp(h)
          PROVE  UNCHANGED restarts
      BY <3>1, <1>1, PushFacts, RippleFacts, AsideFacts DEF Aside
    <3>2. ASSUME NEW c \in Callers, \/ CheckScan(c) \/ CheckOwed(c) \/ LookForHeavy(c) \/ ReadPushed(c)
                                    \/ StartSetup(c) \/ RecordMainChain(c)
          PROVE  UNCHANGED restarts
      BY <3>2, <1>1, CheckScanFacts, CheckOwedFacts, LookForHeavyFacts, ReadPushedFacts, StartSetupFacts,
         RecordFacts DEF Beside
    <3>3. ASSUME Context \/ Claim \/ EndLink \/ EndChain \/ CancelChain \/ ChainNext
          PROVE  UNCHANGED restarts
      BY <3>3, <1>1, ContextTyped, ClaimFacts, EndFacts, ChainNextFacts DEF ContextStep, Beside
    <3>. QED  BY <3>1, <3>2, <3>3 DEF NextStep
  <2>. QED  BY <2>1
<1>3. Recovering' => Recovering  BY <1>1, RecoveringStep
<1>4. MaxPushes <= 1 /\ Recovering => Alone'  BY <1>1, AloneStep DEF Restarted
<1>. QED  BY <1>1, <1>2, <1>3, <1>4 DEF Restarted

\* A restart undoes the start of every chain it kills, but for one that goes back to a
\* restart itself.
LEMMA RestartOnce ==
  ASSUME Careful, Once, Restart
  PROVE  Looking' /\ OneRecords' /\ Newest' /\ Restarted'
PROOF
<1>t. /\ Types /\ Looking /\ Newest /\ Restarted /\ RowsKnown
      /\ pushed \in Commits /\ pushed \in Nat /\ Commits = 0 .. MaxPushes /\ MaxPushes \in Nat
      /\ chain \in [Commits -> {"none", "started", "ended"}] /\ Rows \subseteq Jobs
      /\ Lane \in Callers /\ Lane \notin Hooks /\ Hooks \subseteq Callers /\ recorded \in Nat
      /\ restarts \in Nat /\ MaxRestarts \in Nat
  BY ChainAssumption, QueueMembers DEF Once, Types, Shapes, Commits, Callers
<1>f. /\ restarts < MaxRestarts /\ restarts' = restarts + 1 /\ UNCHANGED pushed
      /\ recorded' = IF \E job \in Killed : job.commit = recorded THEN 0 ELSE recorded
      /\ sync'.st = "none" /\ scan'.st = "none" /\ queue' = <<>> /\ lane'.pc = "free" /\ Rows' = {}
      /\ \A k \in Callers : /\ at'[k].pc \in {"idle", "owed"} /\ ~at'[k].ripple
                            /\ at'[k].pc = "owed" => k \in Hooks /\ Killed # {} /\ at'[k].recovery
                            /\ at'[k].recovery => at'[k].pc = "owed"
      /\ \A n \in Commits : chain'[n] = Fate(n)
  BY <1>t, RestartFacts
<1>1. Looking' /\ OneRecords'  BY <1>f DEF Looking, OneRecords
<1>k. \A job \in Killed : job \in Rows /\ job.commit \in Commits /\ job.commit # 0 /\ job.commit <= pushed
  BY <1>t DEF Killed, Jobs, RowsKnown
<1>2. Restarted'
  <2>1. restarts' # 0  BY <1>t, <1>f
  <2>2. ASSUME MaxPushes <= 1, Recovering'  PROVE Alone'
    <3>1. Killed # {}  BY <2>2, <1>f DEF Recovering
    <3>2. pushed = MaxPushes  BY <1>t, <1>k, <2>2, <3>1
    <3>3. \A h \in Hooks : /\ at'[h].pc \in {"idle", "owed", "repo"} \cup Starting /\ ~at'[h].ripple
                           /\ at'[h].pc # "idle" => at'[h].recovery
      BY <1>t, <1>f
    <3>4. at'[Lane].pc \in {"idle", "next", "owed", "repo"}  BY <1>t, <1>f
    <3>. QED  BY <1>f, <3>2, <3>3, <3>4 DEF Alone
  <2>. QED  BY <2>1, <2>2 DEF Restarted
<1>n. ASSUME \A n \in Commits : n >= pushed + 1 => chain'[n] = "none",
             \/ \A n \in Commits : n >= pushed => chain'[n] = "none"
             \/ recorded' = pushed
             \/ AtRest'
      PROVE  Newest'
  <2>1. pushed' = pushed  BY <1>f
  <2>. QED  BY <1>n, <2>1 DEF Newest, Unstarted
<1>3. CASE Recovering
  <2>1. MaxPushes <= 1 /\ Alone  BY <1>3, <1>t, <1>f DEF Careful, Restarted
  <2>2. Killed = {}  BY <2>1 DEF Killed, Alone
  <2>3. AtRest'  BY <1>f, <2>2 DEF AtRest
  <2>4. \A n \in Commits : n >= pushed + 1 => chain'[n] = "none"  BY <1>t, <1>f, <2>1 DEF Alone
  <2>5. Newest'  BY <1>n, <2>3, <2>4
  <2>. QED  BY <1>1, <1>2, <2>5
<1>4. CASE ~Recovering
  <2>. SUFFICES Newest'  BY <1>1, <1>2
  <2>1. \A job \in Rows : ~job.recovery  BY <1>4 DEF Recovering
  <2>2. \A n \in Commits : chain'[n] \in {"none", chain[n]}  BY <1>f, <2>1 DEF Fate
  <2>3. \A job \in Rows : job.commit # 0 => chain'[job.commit] = "none" /\ job \in Killed
    BY <1>t, <1>f, <2>1 DEF Fate, Jobs, Killed
  <2>4. \A n \in Commits : n >= pushed + 1 => chain'[n] = "none"
    BY <1>t, <2>2 DEF Newest, Unstarted
  <2>5. ASSUME NEW job \in Rows, job.commit = pushed, pushed # 0  PROVE Newest'
    <3>1. chain'[pushed] = "none"  BY <2>3, <2>5
    <3>2. \A n \in Commits : n >= pushed => n = pushed \/ n >= pushed + 1  BY <1>t
    <3>3. \A n \in Commits : n >= pushed => chain'[n] = "none"  BY <2>4, <3>1, <3>2
    <3>. QED  BY <1>n, <2>4, <3>3
  <2>6. CASE Unstarted(pushed)
    <3>1. \A n \in Commits : n >= pushed => chain'[n] = "none"  BY <2>2, <2>6 DEF Unstarted
    <3>. QED  BY <1>n, <2>4, <3>1
  <2>7. CASE recorded = pushed
    <3>1. CASE pushed = 0
      <4>1. recorded' = pushed  BY <1>f, <2>7, <3>1
      <4>. QED  BY <1>n, <2>4, <4>1
    <3>2. CASE pushed # 0 /\ \E job \in Rows : job.commit = pushed
      <4>1. PICK job \in Rows : job.commit = pushed  BY <3>2
      <4>. QED  BY <2>5, <3>2, <4>1
    <3>3. CASE ~\E job \in Rows : job.commit = pushed
      <4>1. recorded' = pushed  BY <1>f, <1>k, <2>7, <3>3
      <4>. QED  BY <1>n, <2>4, <4>1
    <3>. QED  BY <3>1, <3>2, <3>3
  <2>8. CASE AtRest
    <3>1. Rows = {}  BY <2>8, QueueMembers, <1>t DEF AtRest, Types, Rows
    <3>2. Killed = {}  BY <3>1 DEF Killed
    <3>3. AtRest'  BY <1>f, <3>2 DEF AtRest
    <3>. QED  BY <1>n, <2>4, <3>3
  <2>9. CASE \E k \in Callers : at[k].pc = "record" /\ at[k].commit = pushed
    <3>1. PICK k \in Callers : at[k].pc = "record" /\ at[k].commit = pushed  BY <2>9
    <3>2. pushed # 0 /\ \E job \in Rows : job.commit = pushed  BY <1>t, <3>1 DEF Looking
    <3>3. PICK job \in Rows : job.commit = pushed  BY <3>2
    <3>. QED  BY <2>5, <3>2, <3>3
  <2>. QED  BY <1>t, <2>6, <2>7, <2>8, <2>9 DEF Newest
<1>. QED  BY <1>3, <1>4

LEMMA OnceStep ==
  ASSUME Careful
  PROVE  Once /\ [Next]_vars => Once'
PROOF
<1>1. ASSUME Once, NextStep  PROVE Once'
  <2>1. Types' /\ RowsKnown'  BY <1>1, TypesStep, RowsKnownStep DEF Once
  <2>2. Looking' /\ OneRecords' /\ Newest' /\ Restarted'
    BY <1>1, LookingStep, NewestStep, RestartedStep, RestartOnce
  <2>. QED  BY <2>1, <2>2 DEF Once
<1>2. ASSUME Once, UNCHANGED vars  PROVE Once'
  <2>1. Types' /\ RowsKnown'  BY <1>2, StutterTypes DEF Once
  <2>2. Rows' = Rows  BY <1>2 DEF Rows, vars
  <2>3. AtRest => AtRest'  BY <1>2 DEF AtRest, vars, contextVars
  <2>4. Looking' /\ OneRecords'  BY <1>2, <2>2 DEF Once, Looking, OneRecords, Unstarted, SetUp, vars
  <2>5. Newest'  BY <1>2, <2>3 DEF Once, Newest, Unstarted, vars
  <2>6. Restarted'  BY <1>2, <2>2 DEF Once, Restarted, Recovering, Alone, vars, contextVars
  <2>. QED  BY <2>1, <2>4, <2>5, <2>6 DEF Once
<1>. QED  BY <1>1, <1>2, StepIsNextStep

\* A commit's setup is queued once, however many hooks look for a chain at once: while
\* a call looks, no body ends, so whoever it raced with is still set up and refuses it.
THEOREM StartedOnce == ASSUME Careful PROVE Spec => NotStartedAgain
PROOF
<1>1. Init => Once
  <2>. SUFFICES ASSUME Init  PROVE Once  OBVIOUS
  <2>1. Types /\ RowsKnown /\ AtRest  BY InitTypes
  <2>2. \A k \in Callers : at[k] = NoHook  BY DEF Init
  <2>3. Rows = {} /\ lane.pc = "free"  BY <2>1, QueueMembers DEF AtRest, Types, Rows
  <2>4. Unstarted(pushed) /\ Unstarted(pushed + 1)  BY DEF Init, Unstarted
  <2>5. ~Recovering  BY <2>2, <2>3, NoHookFields DEF Recovering
  <2>6. Looking /\ OneRecords  BY <2>1 DEF AtRest, Looking, OneRecords
  <2>. QED  BY <2>1, <2>4, <2>5, <2>6 DEF Once, Newest, Restarted
<1>2. Once /\ [Next]_vars => Once'  BY OnceStep
<1>3. Once /\ [Next]_vars =>
        [ \A i \in DOMAIN queue' \ DOMAIN queue :
            queue'[i].link = "setup" => chain[queue'[i].commit] = "none" ]_vars
  <2>. SUFFICES ASSUME Once, NextStep, NEW i \in DOMAIN queue' \ DOMAIN queue, queue'[i].link = "setup"
                PROVE  chain[queue'[i].commit] = "none"
    BY StepIsNextStep
  <2>t. Types /\ Looking  BY DEF Once
  <2>n. ASSUME NEW link, NEW n, NEW r, NewRow(link, n, r)
        PROVE  link = "setup" /\ queue'[i].commit = n
    BY <2>n DEF NewRow
  <2>u. ~UNCHANGED queue  OBVIOUS
  <2>1. ASSUME NEW c \in Callers, StartSetup(c)  PROVE chain[queue'[i].commit] = "none"
    <3>1. at[c].pc = "setup" /\ Begins(c)  BY <2>1, <2>t, <2>u, StartSetupFacts
    <3>2. NewRow("setup", at[c].commit, at[c].recovery) /\ ~SetUp  BY <3>1 DEF Begins
    <3>3. queue'[i].commit = at[c].commit  BY <2>n, <3>2
    <3>4. Unstarted(at[c].commit)  BY <2>t, <3>1, <3>2 DEF Looking
    <3>5. at[c].commit \in Commits /\ Commits \subseteq Nat  BY <2>t DEF Types, Shapes, HookSet, Commits
    <3>6. PICK n \in Nat : n = at[c].commit  BY <3>5
    <3>7. n \in Commits /\ n >= n /\ Unstarted(n)  BY <3>4, <3>5, <3>6
    <3>8. chain[n] = "none"  BY <3>7 DEF Unstarted
    <3>. QED  BY <3>3, <3>6, <3>8
  <2>2. ASSUME NEW h \in Hooks, \/ Push(h) \/ RippleGenerate(h)
                                \/ Settle(h) \/ SyncAfterPush(h) \/ ChainScan(h) \/ Coalesce(h)
                                \/ CheckSettingUp(h)
        PROVE  FALSE
    BY <2>2, <2>t, <2>u, <2>n, PushFacts, RippleFacts, AsideFacts DEF Aside
  <2>3. ASSUME NEW c \in Callers, \/ CheckScan(c) \/ CheckOwed(c) \/ LookForHeavy(c) \/ ReadPushed(c)
                                  \/ RecordMainChain(c)
        PROVE  FALSE
    BY <2>3, <2>t, <2>u, CheckScanFacts, CheckOwedFacts, LookForHeavyFacts, ReadPushedFacts, RecordFacts
  <2>4. ASSUME Context \/ Claim \/ EndLink \/ EndChain \/ CancelChain  PROVE FALSE
    BY <2>4, <2>t, <2>u, ContextTyped, ClaimFacts, EndFacts DEF ContextStep
  <2>5. ASSUME ChainNext  PROVE FALSE
    BY <2>5, <2>t, <2>u, <2>n, ChainNextFacts
  <2>6. ASSUME Restart  PROVE FALSE
    <3>1. DOMAIN queue' = {}  BY <2>6, <2>t, RestartFacts, EmptySeq
    <3>. QED  BY <3>1
  <2>. QED  BY <2>1, <2>2, <2>3, <2>4, <2>5, <2>6 DEF NextStep
<1>4. Spec => []Once  BY <1>1, <1>2, PTL DEF Spec
<1>. QED  BY <1>3, <1>4, PTL DEF Spec, NotStartedAgain

===============================================================================
