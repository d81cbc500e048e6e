------------------------------- MODULE JobRunner -------------------------------
(***************************************************************************)
(* The background job runner: packages/jobs over the rows of jobs-store    *)
(* and the graphile-worker queue.                                          *)
(*                                                                         *)
(* A job is one ROW (status, workspace, single-flight key) and one TICKET, *)
(* the graphile job that makes some worker of some process run it.  Rows   *)
(* and tickets live in the same database and are written by separate       *)
(* statements; every await between two of them is a step boundary here.    *)
(* Enqueuers and cancellers are the callers of the server (requests, settle*)
(* hooks, the resume of a grant) that have a call in progress.             *)
(***************************************************************************)
EXTENDS Naturals, FiniteSets

CONSTANTS
  JobIds,       \* row ids; each knows beforehand what its creator writes on it:
  OrgOf,        \*   the workspace,
  KeyOf,        \*   and the single-flight key
  Orgs, Keys,
  HeavyKeys,    \* keys whose jobs name their workspace's one graphile queue
  Procs,        \* server processes over one database
  Workers,      \* graphile worker slots
  Enqueuers,    \* calls that create or revive a row
  Cancellers,   \* calls of cancel()
  HomeOf,       \* the process each worker and each call lives in
  MaxRestarts,  \* bound: crashes and graceful stops
  MaxResumes,   \* bound: paused rows carried on
  None,
  Abandoned     \* a queue lock whose process died

ASSUME JobsAssumption ==
  /\ OrgOf \in [JobIds -> Orgs]
  /\ KeyOf \in [JobIds -> Keys]
  /\ HeavyKeys \subseteq Keys
ASSUME HomeAssumption == \A x \in Workers \cup Enqueuers \cup Cancellers : HomeOf[x] \in Procs
ASSUME NoneAssumption ==
  /\ None \notin JobIds \cup Workers
  /\ Abandoned \notin Workers \cup {None}
ASSUME BoundAssumption == MaxRestarts \in Nat /\ MaxResumes \in Nat

VARIABLES
  status,     \* jobs.status of every row ("absent": not inserted)
  ticket,     \* graphile: the unclaimed job of each job_key
  lane,       \* graphile: who holds the queue of each workspace
  run,        \* executeJob, one per busy worker
  localRuns,  \* worker.ts localRuns: which run a cancel in a process reaches
  proc,       \* the life of a process
  enq,        \* singleFlightEnqueue and resumePaused in progress
  cancel,     \* cancel in progress
  restarts, resumes

vars == <<status, ticket, lane, run, localRuns, proc, enq, cancel, restarts, resumes>>

-------------------------------------------------------------------------------
ActiveStatus == {"queued", "running"}
Outcomes == {"succeeded", "failed", "cancelled", "interrupted"}
Verdicts == {"succeeded", "failed", "cancelled", "paused"}
Signals == {"none", "cancel", "shutdown", "abandon"}

Runs == [pc : {"idle", "claimed", "body", "settle", "notify", "rewrite", "unwind"},
         job : JobIds \cup {None}, signal : Signals, verdict : Verdicts \cup {"none"}]
Enqs == [pc : {"idle", "add", "readd", "undo", "repause", "supersede"}, job : JobIds \cup {None}]
Cancels == [pc : {"idle", "decide", "wait", "mark"}, job : JobIds \cup {None},
            seen : ActiveStatus \cup {"none"}]

Idle == [pc |-> "idle", job |-> None, signal |-> "none", verdict |-> "none"]
NoEnq == [pc |-> "idle", job |-> None]
NoCancel == [pc |-> "idle", job |-> None, seen |-> "none"]

Flight(j) == <<OrgOf[j], KeyOf[j]>>
Active(j) == status[j] \in ActiveStatus
Heavy(j) == KeyOf[j] \in HeavyKeys

\* Mutant of KeyHeld: the index forgets the running rows.
KeyHeldByQueuedOnly(j) ==
  \E i \in JobIds \ {j} : status[i] = "queued" /\ Flight(i) = Flight(j)

\* jobs_active_key_uniq: another active row already holds j's (org, key).
KeyHeld(j) == \E i \in JobIds \ {j} : Active(i) /\ Flight(i) = Flight(j)

\* The runner is there to enqueue with: from start() until stop() has drained.
Serving(p) == proc[p] \in {"up", "draining"}

Init ==
  /\ status = [j \in JobIds |-> "absent"]
  /\ ticket = [k \in Keys |-> None]
  /\ lane = [o \in Orgs |-> None]
  /\ run = [w \in Workers |-> Idle]
  /\ localRuns = [p \in Procs |-> [j \in JobIds |-> None]]
  /\ proc = [p \in Procs |-> "up"]
  /\ enq = [e \in Enqueuers |-> NoEnq]
  /\ cancel = [c \in Cancellers |-> NoCancel]
  /\ restarts = 0
  /\ resumes = 0

-------------------------------------------------------------------------------
\* Enqueue: jobStore.create, then addJob, then supersedePaused.  A create that
\* loses the key answers null and changes nothing.
Create(e, j) ==
  /\ enq[e].pc = "idle" /\ Serving(HomeOf[e])
  /\ status[j] = "absent" /\ ~KeyHeld(j)
  /\ status' = [status EXCEPT ![j] = "queued"]
  /\ enq' = [enq EXCEPT ![e] = [pc |-> "add", job |-> j]]
  /\ UNCHANGED <<ticket, lane, run, localRuns, proc, cancel, restarts, resumes>>

\* Mutant of MarkRequeued: the row is revived without asking whose key it is.
MarkRequeuedAnyway(e, j) ==
  /\ enq[e].pc = "idle" /\ Serving(HomeOf[e])
  /\ status[j] = "paused"
  /\ resumes < MaxResumes /\ resumes' = resumes + 1
  /\ status' = [status EXCEPT ![j] = "queued"]
  /\ enq' = [enq EXCEPT ![e] = [pc |-> "readd", job |-> j]]
  /\ UNCHANGED <<ticket, lane, run, localRuns, proc, cancel, restarts>>

\* Resume: markRequeued revives the paused row itself, if its key is free.
MarkRequeued(e, j) ==
  /\ enq[e].pc = "idle" /\ Serving(HomeOf[e])
  /\ status[j] = "paused" /\ ~KeyHeld(j)
  /\ resumes < MaxResumes /\ resumes' = resumes + 1
  /\ status' = [status EXCEPT ![j] = "queued"]
  /\ enq' = [enq EXCEPT ![e] = [pc |-> "readd", job |-> j]]
  /\ UNCHANGED <<ticket, lane, run, localRuns, proc, cancel, restarts>>

\* graphile's job_key is the bare key: an unclaimed job of that key is replaced.
\* (A claimed one has its key taken away, so it is no longer in ticket.)
AddJob(e) ==
  /\ enq[e].pc \in {"add", "readd"}
  /\ ticket' = [ticket EXCEPT ![KeyOf[enq[e].job]] = enq[e].job]
  /\ enq' = [enq EXCEPT ![e] = IF enq[e].pc = "add"
                               THEN [pc |-> "supersede", job |-> enq[e].job] ELSE NoEnq]
  /\ UNCHANGED <<status, lane, run, localRuns, proc, cancel, restarts, resumes>>

\* Mutant of AddJobFails: the row is left to whoever finds it.
AddJobFailsQuietly(e) ==
  /\ enq[e].pc \in {"add", "readd"}
  /\ enq' = [enq EXCEPT ![e] = NoEnq]
  /\ UNCHANGED <<status, ticket, lane, run, localRuns, proc, cancel, restarts, resumes>>

AddJobFails(e) ==
  /\ enq[e].pc \in {"add", "readd"}
  /\ enq' = [enq EXCEPT ![e].pc = IF enq[e].pc = "add" THEN "undo" ELSE "repause"]
  /\ UNCHANGED <<status, ticket, lane, run, localRuns, proc, cancel, restarts, resumes>>

\* The row nothing will run: failed (unconditionally) if new, paused again if revived.
UndoEnqueue(e) ==
  LET j == enq[e].job IN
  /\ \/ /\ enq[e].pc = "undo"
        /\ status' = [status EXCEPT ![j] = "failed"]
     \/ /\ enq[e].pc = "repause"
        /\ status' = [status EXCEPT ![j] = IF Active(j) THEN "paused" ELSE @]
  /\ enq' = [enq EXCEPT ![e] = NoEnq]
  /\ UNCHANGED <<ticket, lane, run, localRuns, proc, cancel, restarts, resumes>>

SupersedePaused(e) ==
  /\ enq[e].pc = "supersede"
  /\ status' = [j \in JobIds |-> IF status[j] = "paused" /\ Flight(j) = Flight(enq[e].job)
                                 THEN "cancelled" ELSE status[j]]
  /\ enq' = [enq EXCEPT ![e] = NoEnq]
  /\ UNCHANGED <<ticket, lane, run, localRuns, proc, cancel, restarts, resumes>>

\* A paused job whose work is no longer wanted (its repository or check is gone).
CancelPaused(j) ==
  /\ \E p \in Procs : Serving(p)
  /\ status[j] = "paused"
  /\ status' = [status EXCEPT ![j] = "cancelled"]
  /\ UNCHANGED <<ticket, lane, run, localRuns, proc, enq, cancel, restarts, resumes>>

-------------------------------------------------------------------------------
\* Mutant of Claim: the job was added without its queue's name.
ClaimWithoutLane(w, k) ==
  LET j == ticket[k] IN
  /\ proc[HomeOf[w]] = "up" /\ run[w].pc = "idle"
  /\ j # None
  /\ ticket' = [ticket EXCEPT ![k] = None]
  /\ run' = [run EXCEPT ![w] = [Idle EXCEPT !.pc = "claimed", !.job = j]]
  /\ localRuns' = [localRuns EXCEPT ![HomeOf[w]][j] = w]
  /\ UNCHANGED <<status, lane, proc, enq, cancel, restarts, resumes>>

\* graphile claims the ticket, and its queue for the length of the run, and
\* calls the task, which registers the run before its first await.
Claim(w, k) ==
  LET j == ticket[k] IN
  /\ proc[HomeOf[w]] = "up" /\ run[w].pc = "idle"
  /\ j # None
  /\ Heavy(j) => lane[OrgOf[j]] = None
  /\ ticket' = [ticket EXCEPT ![k] = None]
  /\ lane' = IF Heavy(j) THEN [lane EXCEPT ![OrgOf[j]] = w] ELSE lane
  /\ run' = [run EXCEPT ![w] = [Idle EXCEPT !.pc = "claimed", !.job = j]]
  /\ localRuns' = [localRuns EXCEPT ![HomeOf[w]][j] = w]
  /\ UNCHANGED <<status, proc, enq, cancel, restarts, resumes>>

\* Claiming the row is the cancel check: no body for a row that is not queued.
MarkRunning(w) ==
  LET j == run[w].job IN
  /\ run[w].pc = "claimed"
  /\ IF status[j] = "queued"
     THEN /\ status' = [status EXCEPT ![j] = "running"]
          /\ run' = [run EXCEPT ![w].pc = "body"]
     ELSE /\ run' = [run EXCEPT ![w].pc = "unwind"]
          /\ UNCHANGED status
  /\ UNCHANGED <<ticket, lane, localRuns, proc, enq, cancel, restarts, resumes>>

\* The phases of a run after which its signal is read again.
Heeding(w) == run[w].pc \in {"claimed", "body", "settle", "notify"}

\* A signal keeps the first reason it was aborted with.
Aborted(w, reason) ==
  IF Heeding(w) /\ run[w].signal = "none"
  THEN [run EXCEPT ![w].signal = reason] ELSE run

\* ctx.fail: the body gives itself up.
Fail(w) ==
  /\ run[w].pc = "body" /\ run[w].signal = "none"
  /\ run' = Aborted(w, "abandon")
  /\ UNCHANGED <<status, ticket, lane, localRuns, proc, enq, cancel, restarts, resumes>>

\* Mutant of Verdict: shutDown() forgets that a body may have given itself up.
VerdictTakesAbandonForShutdown(how, signal) ==
  CASE how = "exhausted" -> "paused"
    [] how # "exhausted" /\ signal \in {"shutdown", "abandon"} -> "none"
    [] how # "exhausted" /\ signal = "cancel" -> "cancelled"
    [] how = "throws" /\ signal = "none" -> "failed"
    [] how = "returns" /\ signal = "none" -> "succeeded"

\* What executeJob makes of how the body ended and why it was stopped.  Running
\* out of credits is read before the stop; a shutdown leaves the row alone.
Verdict(how, signal) ==
  CASE how = "exhausted" -> "paused"
    [] how # "exhausted" /\ signal = "shutdown" -> "none"
    [] how # "exhausted" /\ signal = "cancel" -> "cancelled"
    [] how # "exhausted" /\ signal = "abandon" -> "failed"
    [] how = "throws" /\ signal = "none" -> "failed"
    [] how = "returns" /\ signal = "none" -> "succeeded"

\* Mutant of EndBody: a body stopped by a shutdown goes on to settle its row.
EndBodySettlesAlways(w, how) ==
  /\ run[w].pc = "body"
  /\ run' = [run EXCEPT ![w].pc = "settle", ![w].verdict = Verdict(how, run[w].signal)]
  /\ UNCHANGED <<status, ticket, lane, localRuns, proc, enq, cancel, restarts, resumes>>

EndBody(w, how) ==
  LET verdict == Verdict(how, run[w].signal) IN
  /\ run[w].pc = "body"
  /\ run' = [run EXCEPT ![w].pc = IF verdict = "none" THEN "unwind" ELSE "settle",
                        ![w].verdict = verdict]
  /\ UNCHANGED <<status, ticket, lane, localRuns, proc, enq, cancel, restarts, resumes>>

\* markSucceeded and markFailed write by id alone; markCancelled and markPaused
\* only move an active row.  What succeeded has its notification still to post.
MarkSettled(w) ==
  LET j == run[w].job
      verdict == run[w].verdict IN
  /\ run[w].pc \in {"settle", "rewrite"}
  /\ status' = [status EXCEPT ![j] = IF verdict \in {"succeeded", "failed"} \/ Active(j)
                                     THEN verdict ELSE @]
  /\ run' = [run EXCEPT ![w].pc = IF run[w].pc = "settle" /\ verdict = "succeeded"
                                  THEN "notify" ELSE "unwind"]
  /\ UNCHANGED <<ticket, lane, localRuns, proc, enq, cancel, restarts, resumes>>

Notify(w) ==
  /\ run[w].pc = "notify"
  /\ run' = [run EXCEPT ![w].pc = "unwind"]
  /\ UNCHANGED <<status, ticket, lane, localRuns, proc, enq, cancel, restarts, resumes>>

\* Mutant of NotifyFails: the hook hears of the failure, the row does not.
NotifyFailsForTheHook(w) ==
  /\ run[w].pc = "notify"
  /\ run' = [run EXCEPT ![w].pc = "unwind", ![w].verdict = Verdict("throws", run[w].signal)]
  /\ UNCHANGED <<status, ticket, lane, localRuns, proc, enq, cancel, restarts, resumes>>

\* The notification's row is written inside the body's own try: when that throws,
\* the body counts as thrown, and the row that succeeded is settled once more.
NotifyFails(w) ==
  LET verdict == Verdict("throws", run[w].signal) IN
  /\ run[w].pc = "notify"
  /\ run' = [run EXCEPT ![w].pc = IF verdict = "none" THEN "unwind" ELSE "rewrite",
                        ![w].verdict = verdict]
  /\ UNCHANGED <<status, ticket, lane, localRuns, proc, enq, cancel, restarts, resumes>>

\* The settled hook is over, or was skipped: the promise settles, graphile completes
\* the job.
Finish(w) ==
  LET j == run[w].job
      p == HomeOf[w] IN
  /\ run[w].pc = "unwind"
  /\ run' = [run EXCEPT ![w] = Idle]
  /\ localRuns' = [localRuns EXCEPT ![p][j] = IF @ = w THEN None ELSE @]
  /\ lane' = [lane EXCEPT ![OrgOf[j]] = IF Heavy(j) /\ @ = w THEN None ELSE @]
  /\ UNCHANGED <<status, ticket, proc, enq, cancel, restarts, resumes>>

-------------------------------------------------------------------------------
\* cancel(jobId): read the row, then decide on what was read and on localRuns.
Get(c, j) ==
  /\ cancel[c].pc = "idle" /\ Serving(HomeOf[c])
  /\ Active(j)
  /\ cancel' = [cancel EXCEPT ![c] = [pc |-> "decide", job |-> j, seen |-> status[j]]]
  /\ UNCHANGED <<status, ticket, lane, run, localRuns, proc, enq, restarts, resumes>>

Decide(c) ==
  LET j == cancel[c].job
      w == localRuns[HomeOf[c]][j] IN
  /\ cancel[c].pc = "decide"
  /\ \/ /\ w # None
        /\ run' = Aborted(w, "cancel")
        /\ cancel' = [cancel EXCEPT ![c].pc = "wait"]
     \/ /\ w = None /\ cancel[c].seen = "running"      \* "not-here"
        /\ cancel' = [cancel EXCEPT ![c] = NoCancel]
        /\ UNCHANGED run
     \/ /\ w = None /\ cancel[c].seen = "queued"
        /\ cancel' = [cancel EXCEPT ![c].pc = "mark"]
        /\ UNCHANGED run
  /\ UNCHANGED <<status, ticket, lane, localRuns, proc, enq, restarts, resumes>>

\* The run settled, or the thirty seconds are over.
EndWait(c) ==
  /\ cancel[c].pc = "wait"
  /\ cancel' = [cancel EXCEPT ![c].pc = "mark"]
  /\ UNCHANGED <<status, ticket, lane, run, localRuns, proc, enq, restarts, resumes>>

\* Mutant of MarkCancelled: by id alone, as markFailed writes.
MarkCancelledAlways(c) ==
  /\ cancel[c].pc = "mark"
  /\ status' = [status EXCEPT ![cancel[c].job] = "cancelled"]
  /\ cancel' = [cancel EXCEPT ![c] = NoCancel]
  /\ UNCHANGED <<ticket, lane, run, localRuns, proc, enq, restarts, resumes>>

MarkCancelled(c) ==
  LET j == cancel[c].job IN
  /\ cancel[c].pc = "mark"
  /\ status' = [status EXCEPT ![j] = IF Active(j) THEN "cancelled" ELSE @]
  /\ cancel' = [cancel EXCEPT ![c] = NoCancel]
  /\ UNCHANGED <<ticket, lane, run, localRuns, proc, enq, restarts, resumes>>

-------------------------------------------------------------------------------
\* Everything a process held in memory is gone; what it held in graphile stays.
Gone(p) ==
  /\ proc' = [proc EXCEPT ![p] = "down"]
  /\ run' = [w \in Workers |-> IF HomeOf[w] = p THEN Idle ELSE run[w]]
  /\ lane' = [o \in Orgs |-> IF lane[o] \in Workers /\ HomeOf[lane[o]] = p
                             THEN Abandoned ELSE lane[o]]
  /\ localRuns' = [localRuns EXCEPT ![p] = [j \in JobIds |-> None]]
  /\ enq' = [e \in Enqueuers |-> IF HomeOf[e] = p THEN NoEnq ELSE enq[e]]
  /\ cancel' = [c \in Cancellers |-> IF HomeOf[c] = p THEN NoCancel ELSE cancel[c]]
  /\ UNCHANGED <<status, ticket, resumes>>

Crash(p) ==
  /\ proc[p] # "down"
  /\ restarts < MaxRestarts /\ restarts' = restarts + 1
  /\ Gone(p)

\* stop(): no more claims; graphile aborts what still runs, and waits for it.
BeginStop(p) ==
  /\ proc[p] = "up"
  /\ restarts < MaxRestarts /\ restarts' = restarts + 1
  /\ proc' = [proc EXCEPT ![p] = "draining"]
  /\ UNCHANGED <<status, ticket, lane, run, localRuns, enq, cancel, resumes>>

AbortForShutdown(w) ==
  /\ proc[HomeOf[w]] = "draining"
  /\ Heeding(w) /\ run[w].signal = "none"
  /\ run' = Aborted(w, "shutdown")
  /\ UNCHANGED <<status, ticket, lane, localRuns, proc, enq, cancel, restarts, resumes>>

Stopped(p) ==
  /\ proc[p] = "draining"
  /\ \A w \in Workers : HomeOf[w] = p => run[w].pc = "idle"
  /\ Gone(p)
  /\ UNCHANGED restarts

\* Mutant of InterruptOrphaned: only what waited in the queue is reaped.
InterruptQueued(p) ==
  /\ proc[p] = "down"
  /\ status' = [j \in JobIds |-> IF status[j] = "queued" THEN "interrupted" ELSE status[j]]
  /\ proc' = [proc EXCEPT ![p] = "booting"]
  /\ UNCHANGED <<ticket, lane, run, localRuns, enq, cancel, restarts, resumes>>

\* start(): every active row is reaped, whoever owned it ...
InterruptOrphaned(p) ==
  /\ proc[p] = "down"
  /\ status' = [j \in JobIds |-> IF Active(j) THEN "interrupted" ELSE status[j]]
  /\ proc' = [proc EXCEPT ![p] = "booting"]
  /\ UNCHANGED <<ticket, lane, run, localRuns, enq, cancel, restarts, resumes>>

\* Mutant of StartWorker: the dead run's queue lock stays until graphile's own sweep.
StartWorkerKeepsLocks(p) ==
  /\ proc[p] = "booting"
  /\ proc' = [proc EXCEPT ![p] = "up"]
  /\ UNCHANGED <<status, ticket, lane, run, localRuns, enq, cancel, restarts, resumes>>

\* ... every queue lock is forced open, and the worker starts.
StartWorker(p) ==
  /\ proc[p] = "booting"
  /\ lane' = [o \in Orgs |-> None]
  /\ proc' = [proc EXCEPT ![p] = "up"]
  /\ UNCHANGED <<status, ticket, run, localRuns, enq, cancel, restarts, resumes>>

-------------------------------------------------------------------------------
Hows == {"returns", "throws", "exhausted"}

EnqueueStep(e) ==
  \/ \E j \in JobIds : Create(e, j) \/ MarkRequeued(e, j)
  \/ AddJob(e) \/ AddJobFails(e) \/ UndoEnqueue(e) \/ SupersedePaused(e)

WorkerStep(w) ==
  \/ \E k \in Keys : Claim(w, k)
  \/ MarkRunning(w) \/ Fail(w) \/ MarkSettled(w) \/ Notify(w) \/ NotifyFails(w)
  \/ Finish(w) \/ AbortForShutdown(w)
  \/ \E how \in Hows : EndBody(w, how)

CancelStep(c) ==
  \/ \E j \in JobIds : Get(c, j)
  \/ Decide(c) \/ EndWait(c) \/ MarkCancelled(c)

ProcessStep(p) ==
  Crash(p) \/ BeginStop(p) \/ Stopped(p) \/ InterruptOrphaned(p) \/ StartWorker(p)

Next ==
  \/ \E e \in Enqueuers : EnqueueStep(e)
  \/ \E w \in Workers : WorkerStep(w)
  \/ \E c \in Cancellers : CancelStep(c)
  \/ \E p \in Procs : ProcessStep(p)
  \/ \E j \in JobIds : CancelPaused(j)

Spec == Init /\ [][Next]_vars

\* What the code's scheduling gives: a statement that was awaited returns, a
\* body ends, graphile polls while a job can be claimed, a stopped process is
\* started again.  Nobody has to enqueue, resume, cancel, crash or stop.
Fairness ==
  /\ \A e \in Enqueuers :
       /\ WF_vars(AddJob(e) \/ AddJobFails(e))
       /\ WF_vars(UndoEnqueue(e)) /\ WF_vars(SupersedePaused(e))
  /\ WF_vars(\E w \in Workers, k \in Keys : Claim(w, k))
  /\ \A w \in Workers :
       /\ WF_vars(MarkRunning(w)) /\ WF_vars(MarkSettled(w))
       /\ WF_vars(Notify(w) \/ NotifyFails(w)) /\ WF_vars(Finish(w))
       /\ WF_vars(\E how \in Hows : EndBody(w, how))
  /\ \A c \in Cancellers :
       WF_vars(Decide(c)) /\ WF_vars(EndWait(c)) /\ WF_vars(MarkCancelled(c))
  /\ \A p \in Procs :
       WF_vars(Stopped(p)) /\ WF_vars(InterruptOrphaned(p)) /\ WF_vars(StartWorker(p))

FairSpec == Spec /\ Fairness

-------------------------------------------------------------------------------
Pending(e) == enq[e].pc \in {"add", "readd", "undo", "repause"}
Claimed(w) == run[w].pc = "claimed"
InBody(w) == run[w].pc = "body"
Executing(w) == run[w].pc \in {"body", "settle"}
Succeeded(w) == run[w].pc \in {"notify", "rewrite"}

\* Every variable has its type.
TypeOK ==
  /\ status \in [JobIds -> {"absent", "paused"} \cup ActiveStatus \cup Outcomes]
  /\ ticket \in [Keys -> JobIds \cup {None}]
  /\ lane \in [Orgs -> Workers \cup {None, Abandoned}]
  /\ run \in [Workers -> Runs]
  /\ \A w \in Workers : /\ run[w].pc # "idle" => run[w].job \in JobIds
                        /\ run[w].pc \in {"settle", "rewrite"} => run[w].verdict # "none"
  /\ localRuns \in [Procs -> [JobIds -> Workers \cup {None}]]
  /\ proc \in [Procs -> {"up", "draining", "down", "booting"}]
  /\ enq \in [Enqueuers -> Enqs]
  /\ \A e \in Enqueuers : enq[e].pc # "idle" => enq[e].job \in JobIds
  /\ cancel \in [Cancellers -> Cancels]
  /\ \A c \in Cancellers : cancel[c].pc # "idle" => cancel[c].job \in JobIds
  /\ restarts \in 0 .. MaxRestarts
  /\ resumes \in 0 .. MaxResumes

\* At most one row of a workspace's key is queued or running, whatever creates,
\* resumes, cancels, restarts and settles at the same time.
SingleFlight ==
  \A i, j \in JobIds : Active(i) /\ Active(j) /\ Flight(i) = Flight(j) => i = j

\* The point of single flight: no two BODIES of one key run at once, not even
\* when the row that held the key was settled under the first.
BodiesExclusive ==
  \A v, w \in Workers :
    InBody(v) /\ InBody(w) /\ Flight(run[v].job) = Flight(run[w].job) => v = w

\* A workspace's heavy jobs run one at a time, whatever their keys.
LaneExclusive ==
  \A v, w \in Workers :
    /\ InBody(v) /\ Heavy(run[v].job)
    /\ InBody(w) /\ Heavy(run[w].job)
    /\ OrgOf[run[v].job] = OrgOf[run[w].job]
    => v = w

\* While a process serves, a queued row has a graphile job on its way to it:
\* otherwise it holds its key, and answers "already running", until a restart.
QueuedHasTicket ==
  \A j \in JobIds : status[j] = "queued" =>
    \/ ticket[KeyOf[j]] = j
    \/ \E w \in Workers : run[w].job = j /\ Claimed(w)
    \/ \E e \in Enqueuers : enq[e].job = j /\ Pending(e)
    \/ \A p \in Procs : ~Serving(p)

\* A row says "running" only while a worker works on it, or the process that
\* did is stopping or gone: nothing shows work in progress that nobody does.
RunningHasBody ==
  \A j \in JobIds : status[j] = "running" =>
    \/ \E w \in Workers : run[w].job = j /\ Executing(w)
    \/ \E p \in Procs : proc[p] # "up"

\* In one process, and while nobody cancels, the runner implements JobLifecycle:
\* a job works from its claim until its row settles, whatever its row says.
Phase(j) ==
  IF \E w \in Workers : run[w].job = j /\ Executing(w) THEN "working"
  ELSE CASE status[j] \in {"absent", "paused"} -> status[j]
         [] status[j] = "queued" -> "waiting"
         [] status[j] = "running" -> "working"
         [] status[j] \in Outcomes -> "done"

Lifecycle == INSTANCE JobLifecycle WITH phase <- [j \in JobIds |-> Phase(j)]

ImplementsLifecycle == Lifecycle!Spec

\* j's own run turns the row it settled as succeeded to failed: its notification
\* could not be written.
OwnRunFails(j) ==
  /\ status[j] = "succeeded" /\ status'[j] = "failed"
  /\ \E w \in Workers : run[w].job = j /\ run[w].pc = "rewrite"

\* A settled row keeps its outcome, but for the run that fails after it succeeded;
\* and a run comes to its settled hook with the outcome its row has got.
OutcomeFinal ==
  [][/\ \A j \in JobIds :
          status[j] \in Outcomes => status'[j] = status[j] \/ OwnRunFails(j)
     /\ \A w \in Workers :
          run[w].pc # "unwind" /\ run'[w].pc = "unwind" /\ run'[w].verdict # "none"
            => status'[run[w].job] = run'[w].verdict]_vars

\* With cancels about, a cancelled row is rewritten too, by the run it was cancelled
\* under; no other is.
OutcomeFinalUnlessCancelled ==
  [][\A j \in JobIds :
       status[j] \in Outcomes \ {"cancelled"} => status'[j] = status[j] \/ OwnRunFails(j)]_vars

\* A queued row is run, settled or reaped: it does not wait for ever.
QueuedMovesOn == \A j \in JobIds : (status[j] = "queued") ~> (status[j] # "queued")

\* A running row settles, through its body, a cancel or the reap of a restart.
RunningMovesOn == \A j \in JobIds : (status[j] = "running") ~> (status[j] # "running")

-------------------------------------------------------------------------------
\* One process; and nobody cancels: what a single server does when left to work.
OneProcess == \A p, q \in Procs : p = q
Solo == Cancellers = {} /\ OneProcess

\* No two workspaces use one key name: what a bare graphile job_key asks for.
KeysApart == \A i, j \in JobIds : KeyOf[i] = KeyOf[j] => OrgOf[i] = OrgOf[j]

\* What a cancel may have made of a row under whoever holds its job.
Lost == IF Cancellers = {} THEN {} ELSE {"cancelled"}

\* Why bodies exclude each other there.  A row has one
\* token on its way to a run: a call about to add it, a ticket, or a claim.
OneToken ==
  /\ \A e, f \in Enqueuers : Pending(e) /\ Pending(f) /\ enq[e].job = enq[f].job => e = f
  /\ \A v, w \in Workers : Claimed(v) /\ Claimed(w) /\ run[v].job = run[w].job => v = w
  /\ \A e \in Enqueuers, w \in Workers :
       Pending(e) /\ Claimed(w) => enq[e].job # run[w].job
  /\ \A e \in Enqueuers, k \in Keys : Pending(e) => ticket[k] # enq[e].job
  /\ \A w \in Workers, k \in Keys : Claimed(w) => ticket[k] # run[w].job
  /\ \A k \in Keys : ticket[k] # None => KeyOf[ticket[k]] = k

\* What each holder of a job knows of its row.
RowsFollow ==
  /\ \A e \in Enqueuers : Pending(e) => status[enq[e].job] \in {"queued"} \cup Lost
  /\ \A k \in Keys : ticket[k] # None => status[ticket[k]] \in Outcomes \cup {"queued"}
  /\ \A w \in Workers : Claimed(w) => status[run[w].job] \in Outcomes \cup {"queued"}
  /\ \A w \in Workers : Executing(w) => status[run[w].job] \in {"running"} \cup Lost
  /\ \A w \in Workers : Succeeded(w) => status[run[w].job] = "succeeded"

\* What a run may yet settle with; only a call cancels.
RunsFollow ==
  \A w \in Workers : /\ run[w].pc = "claimed" => run[w].verdict = "none"
                     /\ run[w].pc = "notify" => run[w].verdict = "succeeded"
                     /\ run[w].pc = "rewrite" => run[w].verdict \in {"failed"} \cup Lost
                     /\ run[w].signal = "cancel" => Lost # {}

\* A row is worked on and settled once at a time, and not while a call may still undo it.
OneExecution ==
  /\ \A v, w \in Workers : Executing(v) /\ Executing(w) /\ run[v].job = run[w].job => v = w
  /\ \A v, w \in Workers : Succeeded(v) /\ Succeeded(w) /\ run[v].job = run[w].job => v = w
  /\ \A e \in Enqueuers, w \in Workers :
       Pending(e) /\ Executing(w) => enq[e].job # run[w].job

\* A process that is down or booting runs and calls nothing, and only one that
\* is stopping has told its bodies to leave their rows alone.
ProcessesHold ==
  /\ \A w \in Workers : ~Serving(HomeOf[w]) => run[w].pc = "idle"
  /\ \A e \in Enqueuers : ~Serving(HomeOf[e]) => enq[e].pc = "idle"
  /\ \A w \in Workers : Heeding(w) /\ run[w].signal = "shutdown"
                        => proc[HomeOf[w]] = "draining"

\* The strengthening of single flight that is inductive in one process.
RowsInv ==
  SingleFlight /\ OneToken /\ RowsFollow /\ RunsFollow /\ OneExecution /\ ProcessesHold

\* A worker with a heavy job has its workspace's lane, from the claim to the end.
LaneHeld ==
  \A w \in Workers : run[w].pc # "idle" /\ Heavy(run[w].job) => lane[OrgOf[run[w].job]] = w

\* A process about to serve again has reaped every row, and nobody else adds one.
BootsClean == \A p \in Procs, j \in JobIds : proc[p] = "booting" => ~Active(j)
===============================================================================
