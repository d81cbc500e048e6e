------------------------------- MODULE MainChain -------------------------------
(***************************************************************************)
(* The main chain of one connected repository (server jobs/index.ts and    *)
(* the tasks it mounts): a push syncs the repository's documents, the sync  *)
(* scans the workspace's corpus, and whoever settles last starts the chain  *)
(* setup -> generate -> run that the push is owed, at the pushed commit.    *)
(*                                                                         *)
(* A job is a row here: enqueueing takes a free single-flight key or is     *)
(* refused (JobRunner says what that rests on).  What is modelled is what   *)
(* runs BESIDE jobs: webhook handlers and settle hooks, one statement per   *)
(* step.  Settle hooks run after their row has settled and freed its key.   *)
(***************************************************************************)
EXTENDS Naturals, Sequences, SequencesExt

CONSTANTS
  Hooks,        \* webhook handlers and settle hooks in progress outside the lane
  Lane,         \* the settle hook of the job that holds the heavy lane
  MaxPushes,    \* bound: pushes to the default branch
  MaxRestarts,  \* bound: restarts of the server
  Faults,       \* what may go wrong beside restarts: a subset of AllFaults
  Prompt        \* whether a call that looks for a chain outruns any job's body

AllFaults == {"no_sync", "sync_fails", "scan_fails", "start_fails", "link_fails", "cancel"}

ASSUME ChainAssumption ==
  /\ Lane \notin Hooks
  /\ MaxPushes \in Nat /\ MaxRestarts \in Nat
  /\ Faults \subseteq AllFaults
  /\ Prompt \in BOOLEAN

VARIABLES
  pushed,      \* repositories.defaultBranchSha: commits are numbered, 0 is null
  recorded,    \* repositories.mainChainSha
  sync,        \* the row of context.sync for the repository's source
  docs,        \* the commit whose documents the context store holds
  scan,        \* the row of context.scan
  corpus,      \* the commit whose documents the stored corpus was made of
  changedAt,   \* the workspace's staleness stamp
  clock,       \* orders the stamps
  queue,       \* heavy rows that wait, in the order of their enqueue
  lane,        \* the heavy job that runs, or whose hook does
  at,          \* what each hook does next
  chain,       \* history: what became of the chain started for each commit
  restarts

vars == <<pushed, recorded, sync, docs, scan, corpus, changedAt, clock, queue, lane, at,
          chain, restarts>>
contextVars == <<sync, docs, scan, corpus, changedAt, clock>>

-------------------------------------------------------------------------------
Commits == 0 .. MaxPushes
Links == {"setup", "generate", "run"}
Jobs == [link : Links, commit : Commits, recovery : BOOLEAN]
After(link) == IF link = "setup" THEN "generate" ELSE "run"

NoJob == [link |-> "setup", commit |-> 0, recovery |-> FALSE]
NoLane == [pc |-> "free", job |-> NoJob, commit |-> 0]
NoHook == [pc |-> "idle", link |-> "setup", commit |-> 0, since |-> 0, ripple |-> FALSE,
           recovery |-> FALSE]
\* Where a call is once it has found the repository owed a chain.
Starting == {"look", "read", "setup", "record"}
Pcs == {"idle", "sync", "scan", "coalesce", "owed", "repo", "ripple", "generate", "next"}
         \cup Starting

Callers == Hooks \cup {Lane}

\* A row of this link's key is queued or running.
Active(link) ==
  \/ \E i \in DOMAIN queue : queue[i].link = link
  \/ lane.pc = "body" /\ lane.job.link = link

\* enqueue: the row, and its graphile job in the workspace's queue.
Enqueue(link, commit, recovery) ==
  queue' = Append(queue, [link |-> link, commit |-> commit, recovery |-> recovery])

Init ==
  /\ pushed = 0 /\ recorded = 0
  /\ sync = [st |-> "none", read |-> 0, stamp |-> 0] /\ docs = 0
  /\ scan = [st |-> "none", read |-> 0, since |-> 0] /\ corpus = 0
  /\ changedAt = 0 /\ clock = 0
  /\ queue = <<>>
  /\ lane = NoLane
  /\ at = [c \in Callers |-> NoHook]
  /\ chain = [c \in Commits |-> "none"]
  /\ restarts = 0

Goto(c, pc) == at' = [at EXCEPT ![c].pc = pc]

\* The hook of c is over; the lane's lets the lane go.
ReturnKeepsLane(c) == at' = [at EXCEPT ![c] = NoHook] /\ UNCHANGED lane
Return(c) ==
  /\ at' = [at EXCEPT ![c] = NoHook]
  /\ lane' = IF c = Lane THEN NoLane ELSE lane

\* The serving is over: a scan's hook has its ripple left to do.
Served(c) ==
  IF at[c].ripple
  THEN at' = [at EXCEPT ![c] = [NoHook EXCEPT !.pc = "ripple"]] /\ UNCHANGED lane
  ELSE Return(c)

-------------------------------------------------------------------------------
\* The webhook: the row remembers the newest push before anything starts for it.
Push(h) ==
  /\ at[h].pc = "idle" /\ pushed < MaxPushes
  /\ pushed' = pushed + 1
  /\ Goto(h, "sync")
  /\ UNCHANGED <<recorded, contextVars, queue, lane, chain, restarts>>

\* onBaseline: a sync queued or in flight carries the chain on; without one the
\* chain starts here, whatever the repository owes.
SyncAfterPush(h) ==
  /\ at[h].pc = "sync"
  /\ \/ /\ sync' = IF sync.st = "none" THEN [sync EXCEPT !.st = "queued"] ELSE sync
        /\ at' = [at EXCEPT ![h] = NoHook]
     \/ "no_sync" \in Faults /\ Goto(h, "look") /\ UNCHANGED sync
  /\ UNCHANGED <<pushed, recorded, docs, scan, corpus, changedAt, clock, queue, lane, chain, restarts>>

\* The sync: reads the branch, stamps itself, stores what it read and settles.
SyncRead ==
  /\ sync.st = "queued"
  /\ sync' = [sync EXCEPT !.st = "read", !.read = pushed]
  /\ UNCHANGED <<pushed, recorded, docs, scan, corpus, changedAt, clock, queue, lane, at, chain, restarts>>

SyncStamp ==
  /\ sync.st = "read"
  /\ clock' = clock + 1
  /\ sync' = [sync EXCEPT !.st = "stamped", !.stamp = clock + 1]
  /\ UNCHANGED <<pushed, recorded, docs, scan, corpus, changedAt, queue, lane, at, chain, restarts>>

SyncEnd(h) ==
  LET changed == sync.read # docs IN
  /\ at[h].pc = "idle"
  /\ \/ /\ sync.st = "stamped"
        /\ docs' = sync.read
        /\ changedAt' = IF changed /\ sync.stamp > changedAt THEN sync.stamp ELSE changedAt
        /\ Goto(h, IF changed THEN "scan" ELSE "owed")
     \/ /\ "sync_fails" \in Faults /\ sync.st \in {"read", "stamped"}
        /\ Goto(h, "owed")
        /\ UNCHANGED <<docs, changedAt>>
  /\ sync' = [st |-> "none", read |-> 0, stamp |-> 0]
  /\ UNCHANGED <<pushed, recorded, scan, corpus, clock, queue, lane, chain, restarts>>

\* A scan that is asked for while one is queued or running is refused.
RequestScan == scan' = IF scan.st = "none" THEN [scan EXCEPT !.st = "queued"] ELSE scan

ChainScan(h) ==
  /\ at[h].pc = "scan"
  /\ RequestScan
  /\ Goto(h, "owed")
  /\ UNCHANGED <<pushed, recorded, sync, docs, corpus, changedAt, clock, queue, lane, chain, restarts>>

\* The scan: stamped before anything is read, then one whole corpus or none.
ScanBegin ==
  /\ scan.st = "queued"
  /\ clock' = clock + 1
  /\ scan' = [scan EXCEPT !.st = "started", !.since = clock + 1]
  /\ UNCHANGED <<pushed, recorded, sync, docs, corpus, changedAt, queue, lane, at, chain, restarts>>

ScanRead ==
  /\ scan.st = "started"
  /\ scan' = [scan EXCEPT !.st = "read", !.read = docs]
  /\ UNCHANGED <<pushed, recorded, sync, docs, corpus, changedAt, clock, queue, lane, at, chain, restarts>>

ScanEnd(h) ==
  /\ at[h].pc = "idle" /\ scan.st = "read"
  /\ \/ \E conflicts \in BOOLEAN :
          /\ corpus' = scan.read
          /\ at' = [at EXCEPT ![h] = [NoHook EXCEPT !.pc = "coalesce", !.since = scan.since,
                                        !.ripple = scan.read # corpus /\ ~conflicts]]
     \/ /\ "scan_fails" \in Faults
        /\ Goto(h, "owed")
        /\ UNCHANGED corpus
  /\ scan' = [st |-> "none", read |-> 0, since |-> 0]
  /\ UNCHANGED <<pushed, recorded, sync, docs, changedAt, clock, queue, lane, chain, restarts>>

\* coalesceFollowUp: one more scan if the context moved since this one began.
Coalesce(h) ==
  /\ at[h].pc = "coalesce"
  /\ IF changedAt > at[h].since THEN RequestScan ELSE UNCHANGED scan
  /\ Goto(h, "owed")
  /\ UNCHANGED <<pushed, recorded, sync, docs, corpus, changedAt, clock, queue, lane, chain, restarts>>

-------------------------------------------------------------------------------
\* serveOwedChains: not while a scan is queued or running, whose settle serves.
CheckScan(c) ==
  /\ at[c].pc = "owed"
  /\ IF scan.st # "none" THEN Served(c) ELSE Goto(c, "repo") /\ UNCHANGED lane
  /\ UNCHANGED <<pushed, recorded, contextVars, queue, chain, restarts>>

CheckOwedAlways(c) ==
  /\ at[c].pc = "repo"
  /\ IF pushed = 0 THEN Served(c) ELSE Goto(c, "look") /\ UNCHANGED lane
  /\ UNCHANGED <<pushed, recorded, contextVars, queue, chain, restarts>>
CheckOwedRecorded(c) ==
  /\ at[c].pc = "repo"
  /\ IF recorded \in {0, pushed} /\ restarts > 0 THEN Served(c) ELSE Goto(c, "look") /\ UNCHANGED lane
  /\ UNCHANGED <<pushed, recorded, contextVars, queue, chain, restarts>>
CheckOwed(c) ==
  /\ at[c].pc = "repo"
  /\ IF pushed \in {0, recorded} THEN Served(c) ELSE Goto(c, "look") /\ UNCHANGED lane
  /\ UNCHANGED <<pushed, recorded, contextVars, queue, chain, restarts>>

\* repoHasHeavyJob reads the three keys one after another.
LookForHeavy(c) ==
  /\ at[c].pc = "look"
  /\ IF Active(at[c].link)
     THEN Served(c)
     ELSE /\ IF at[c].link = "run"
             THEN Goto(c, "read")
             ELSE at' = [at EXCEPT ![c].link = After(at[c].link)]
          /\ UNCHANGED lane
  /\ UNCHANGED <<pushed, recorded, contextVars, queue, chain, restarts>>

ReadPushed(c) ==
  /\ at[c].pc = "read"
  /\ at' = [at EXCEPT ![c].pc = "setup", ![c].commit = pushed]
  /\ UNCHANGED <<pushed, recorded, contextVars, queue, lane, chain, restarts>>

StartSetupRecordsAll(c) ==
  /\ at[c].pc = "setup"
  /\ IF Active("setup") \/ "start_fails" \in Faults
     THEN UNCHANGED <<queue, chain>>
     ELSE /\ Enqueue("setup", at[c].commit, at[c].recovery)
          /\ chain' = [chain EXCEPT ![at[c].commit] = "started"]
  /\ Goto(c, "record")
  /\ UNCHANGED <<pushed, recorded, contextVars, lane, restarts>>
StartSetup(c) ==
  /\ at[c].pc = "setup"
  /\ \/ /\ ~Active("setup")
        /\ Enqueue("setup", at[c].commit, at[c].recovery)
        /\ chain' = [chain EXCEPT ![at[c].commit] = "started"]
        /\ Goto(c, "record") /\ UNCHANGED lane
     \/ /\ Active("setup") \/ "start_fails" \in Faults     \* busy, or the enqueue throws
        /\ Served(c) /\ UNCHANGED <<queue, chain>>
  /\ UNCHANGED <<pushed, recorded, contextVars, restarts>>

RecordMainChain(c) ==
  /\ at[c].pc = "record"
  /\ recorded' = at[c].commit
  /\ Served(c)
  /\ UNCHANGED <<pushed, contextVars, queue, chain, restarts>>

\* The ripple of a scan that moved the corpus: nothing beside a setup, which
\* chains its own generate, else a generate pinned to no commit.
CheckSettingUp(h) ==
  /\ at[h].pc = "ripple"
  /\ IF Active("setup") THEN Return(h) ELSE Goto(h, "generate") /\ UNCHANGED lane
  /\ UNCHANGED <<pushed, recorded, contextVars, queue, chain, restarts>>

RippleGenerate(h) ==
  /\ at[h].pc = "generate"
  /\ IF Active("generate") THEN UNCHANGED queue ELSE Enqueue("generate", 0, FALSE)
  /\ Return(h)
  /\ UNCHANGED <<pushed, recorded, contextVars, chain, restarts>>

-------------------------------------------------------------------------------
\* The heavy lane: one job of the workspace at a time, in order, its settle hook
\* included.  An unpinned job clones the default branch's tip.
Claim ==
  /\ lane.pc = "free" /\ queue # <<>>
  /\ lane' = [NoLane EXCEPT !.pc = "body", !.job = Head(queue),
                !.commit = IF Head(queue).commit = 0 THEN pushed ELSE Head(queue).commit]
  /\ queue' = Tail(queue)
  /\ UNCHANGED <<pushed, recorded, contextVars, at, chain, restarts>>

\* The chain the job belongs to is over, if one was started for its commit.
ReportEnd ==
  chain' = [chain EXCEPT ![lane.commit] = IF @ = "started" THEN "ended" ELSE @]

BodyMayEnd ==
  /\ lane.pc = "body"
  /\ Prompt => \A h \in Hooks : at[h].pc \notin Starting

\* The row settles.  A link that leaves something for the next one chains it.
EndLink ==
  /\ BodyMayEnd
  /\ lane.job.link # "run"
  /\ lane' = [lane EXCEPT !.pc = "hook"]
  /\ Goto(Lane, "next")
  /\ UNCHANGED <<pushed, recorded, contextVars, queue, chain, restarts>>

\* The run, and a link that failed or left nothing to do, end the chain.
EndChainQuietly ==
  /\ BodyMayEnd
  /\ Return(Lane)
  /\ ReportEnd
  /\ UNCHANGED <<pushed, recorded, contextVars, queue, restarts>>
EndChain ==
  /\ BodyMayEnd
  /\ lane' = [lane EXCEPT !.pc = "hook"]
  /\ Goto(Lane, "owed")
  /\ ReportEnd
  /\ UNCHANGED <<pushed, recorded, contextVars, queue, restarts>>

\* A cancelled chain was stopped on purpose: nothing follows it.
CancelChain ==
  /\ "cancel" \in Faults
  /\ BodyMayEnd
  /\ Return(Lane)
  /\ ReportEnd
  /\ UNCHANGED <<pushed, recorded, contextVars, queue, restarts>>

\* The next link, on the chain's commit; one refused as busy is only logged, one
\* whose enqueue throws ends the chain.
ChainNext ==
  LET link == After(lane.job.link) IN
  /\ at[Lane].pc = "next"
  /\ \/ /\ ~Active(link)
        /\ Enqueue(link, lane.commit, lane.job.recovery)
        /\ Return(Lane) /\ UNCHANGED chain
     \/ /\ Active(link)
        /\ Return(Lane) /\ UNCHANGED <<queue, chain>>
     \/ /\ "link_fails" \in Faults
        /\ Goto(Lane, "owed")
        /\ ReportEnd
        /\ UNCHANGED <<queue, lane>>
  /\ UNCHANGED <<pushed, recorded, contextVars, restarts>>

-------------------------------------------------------------------------------
Rows == {queue[i] : i \in DOMAIN queue}
          \cup (IF lane.pc = "body" THEN {lane.job} ELSE {})

\* Links of a chain that never ended, unless it was itself the restart of one.
KilledAgainAndAgain == {job \in Rows : job.commit # 0}
Killed == {job \in Rows : job.commit # 0 /\ ~job.recovery}

Fate(c) ==
  IF c = 0 \/ \A job \in Rows : job.commit # c THEN chain[c]
  ELSE IF \E job \in Rows : job.commit = c /\ job.recovery THEN "ended" ELSE "none"

\* The process dies with every hook; boot settles the rows it finds active,
\* makes the pushes of killed chains owed again and serves them, each once: all
\* of them are one repository's, so one call stands for the sequence.
Restart ==
  /\ restarts < MaxRestarts
  /\ restarts' = restarts + 1
  /\ recorded' = IF \E job \in Killed : job.commit = recorded THEN 0 ELSE recorded
  /\ \E h \in Hooks :
       at' = [c \in Callers |-> IF c = h /\ Killed # {}
                               THEN [NoHook EXCEPT !.pc = "owed", !.recovery = TRUE]
                               ELSE NoHook]
  /\ chain' = [c \in Commits |-> Fate(c)]
  /\ queue' = <<>> /\ lane' = NoLane
  /\ sync' = [st |-> "none", read |-> 0, stamp |-> 0]
  /\ scan' = [st |-> "none", read |-> 0, since |-> 0]
  /\ UNCHANGED <<pushed, docs, corpus, changedAt, clock>>

Context == SyncRead \/ SyncStamp \/ ScanBegin \/ ScanRead
Settle(h) == SyncEnd(h) \/ ScanEnd(h)
Hook(h) ==
  SyncAfterPush(h) \/ ChainScan(h) \/ Coalesce(h) \/ CheckSettingUp(h) \/ RippleGenerate(h)
Serve(c) ==
  CheckScan(c) \/ CheckOwed(c) \/ LookForHeavy(c) \/ ReadPushed(c) \/ StartSetup(c)
    \/ RecordMainChain(c)
LaneStep == Claim \/ EndLink \/ EndChain \/ CancelChain \/ ChainNext

Next ==
  \/ \E h \in Hooks : Push(h) \/ Settle(h) \/ Hook(h)
  \/ \E c \in Callers : Serve(c)
  \/ Context \/ LaneStep
  \/ Restart

Spec == Init /\ [][Next]_vars

\* What is under way goes on: the event loop resumes every call, the worker
\* claims what is queued, and every body returns or is timed out.
Fairness ==
  /\ WF_vars(Context) /\ WF_vars(LaneStep)
  /\ WF_vars(\E h \in Hooks : Settle(h))
  /\ \A h \in Hooks : WF_vars(Hook(h))
  /\ \A c \in Callers : WF_vars(Serve(c))

FairSpec == Spec /\ Fairness

-------------------------------------------------------------------------------
(* Properties *)

\* The values the row, the queue and the hooks may hold.
TypeOK ==
  /\ pushed \in Commits /\ recorded \in 0 .. pushed
  /\ sync.st \in {"none", "queued", "read", "stamped"} /\ sync.read \in 0 .. pushed
  /\ scan.st \in {"none", "queued", "started", "read"} /\ scan.read \in 0 .. pushed
  /\ docs \in 0 .. pushed /\ corpus \in 0 .. pushed /\ changedAt \in 0 .. clock
  /\ queue \in Seq(Jobs)
  /\ lane.pc \in {"free", "body", "hook"} /\ lane.job \in Jobs
  /\ lane.commit \in 0 .. pushed
  /\ \A c \in Callers : at[c].pc \in Pcs /\ at[c].link \in Links /\ at[c].commit \in 0 .. pushed
  /\ at[Lane].pc \in {"idle", "next", "owed", "repo"} \cup Starting
  /\ (lane.pc = "hook") <=> (at[Lane].pc # "idle")
  /\ chain \in [Commits -> {"none", "started", "ended"}] /\ restarts \in 0 .. MaxRestarts

\* The chain works on commit c, or on the tip, or is being put in the queue.
InChain(c) ==
  \/ \E i \in DOMAIN queue : queue[i].commit \in {0, c}
  \/ lane.pc # "free" /\ lane.commit = c
  \/ \E h \in Callers : at[h].pc = "record" /\ at[h].commit = c

\* A push that a chain was started for keeps its chain until that chain has
\* reported its end or was stopped: at most one chain runs, and a link refused
\* as busy was refused by the chain itself.
NewestHasChain == recorded = pushed /\ pushed # 0 => InChain(pushed) \/ chain[pushed] = "ended"

\* A setup is queued once for a commit, unless a restart killed its chain.
NotStartedAgain ==
  [][ \A i \in DOMAIN queue' \ DOMAIN queue :
        queue'[i].link = "setup" => chain[queue'[i].commit] = "none" ]_vars

\* A push a chain is owed for is served in the end, whichever of the sync, the
\* scan, the chains before it and the webhook settles last.
OwedIsServed == pushed # recorded ~> pushed = recorded

\* The chain a restart killed, made owed again by the reap, is started again.
KilledIsServed ==
  (restarts = MaxRestarts /\ \E h \in Hooks : at[h].recovery) ~> pushed = recorded
===============================================================================
