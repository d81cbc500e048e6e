--------------------------- MODULE PullRequestChecks ---------------------------
(***************************************************************************)
(* The checks of one pull request of a repository whose checks are on      *)
(* (pull-request-checks.service.ts).  An event judges the pull request's   *)
(* head: the check in flight is superseded, its row settled and its job     *)
(* stopped, and a new attempt starts.  A check is carried by a coordinator  *)
(* and then by the links of a chain, which settle it.                       *)
(*                                                                         *)
(* Every statement against the database or GitHub is a step, but GitHub is  *)
(* told of a settle in the step that settles: what may land on either side   *)
(* of it is the update of a link that started, a step of its own that may    *)
(* come before the completion or after it.                                  *)
(* The chain's links (setup, generate, run) start, hand over and settle     *)
(* alike: one link stands for the three.  Both kinds of job share the       *)
(* workspace's lane; the runner's own races are JobRunner's.                *)
(***************************************************************************)
EXTENDS Naturals, FiniteSets, Sequences

CONSTANTS
  Calls,      \* webhook deliveries and re-runs being handled at the same time
  MaxEvents,  \* bound: events of the pull request, re-runs included
  MaxRefusals \* bound: attempts whose check GitHub refuses to take or to complete

ASSUME ChecksAssumption == MaxEvents \in Nat /\ MaxRefusals \in Nat

VARIABLES
  pr,      \* the row of the pull request: its head, its state, whether a draft
  checks,  \* pull_request_checks: one row per attempt, in the order created
  github,  \* GitHub's check of each attempt: "open" is queued or in progress, and a
           \* completed one shows its word; "unposted" and "refused": GitHub would not
           \* take it, or its completion; "reopened": in progress again once completed
  jobs,    \* the attempts' jobs, in the order of their enqueue
  lane,    \* the job that holds the workspace's lane, and where it is
  call,    \* the calls in progress
  events   \* how many events there have been

vars == <<pr, checks, github, jobs, lane, call, events>>

Kinds == {"coordinator", "link"}
Words == {"superseded", "cancelled", "draft", "error", "judged"}
Reasons == {"none"} \cup Words
Pcs == {"idle", "stored", "active", "settle", "job", "wait", "create", "post", "posted",
        "enqueue", "draft", "busy", "name"}

NoCall == [pc |-> "idle", effect |-> "check", head |-> 0, check |-> 0, job |-> 0, reason |-> "none"]
NoJob == [pc |-> "free", job |-> 0, reason |-> "none"]

Init ==
  /\ pr = [head |-> 0, open |-> TRUE, draft |-> FALSE]
  /\ checks = <<>> /\ github = <<>> /\ jobs = <<>>
  /\ lane = NoJob
  /\ call = [c \in Calls |-> NoCall]
  /\ events = 0

-------------------------------------------------------------------------------
\* The store: a settled row takes no further write.
Open(k) == checks[k].st # "settled"
OpenChecks == {k \in DOMAIN checks : Open(k)}
SettleRow(k, reason) ==
  checks' = IF Open(k) THEN [checks EXCEPT ![k].st = "settled", ![k].reason = reason] ELSE checks
MayRefuse ==
  Cardinality({k \in DOMAIN github : github[k] \in {"unposted", "refused"}}) < MaxRefusals

\* Whoever settled the row tells GitHub why, when the row knows GitHub's check.  An
\* update GitHub refuses is logged and not tried again.
Tell(k, reason) ==
  IF Open(k) /\ checks[k].posted
  THEN \E shown \in {reason} \cup (IF MayRefuse THEN {"refused"} ELSE {}) :
         github' = [github EXCEPT ![k] = shown]
  ELSE UNCHANGED github

Live(j) == jobs[j].st \in {"queued", "running"}
KeyHeld(kind) == \E j \in DOMAIN jobs : Live(j) /\ jobs[j].kind = kind
Enqueue(kind, k) ==
  jobs' = Append(jobs, [kind |-> kind, check |-> k, st |-> "queued", stopped |-> FALSE])

Step(c, pc) == call' = [call EXCEPT ![c].pc = pc]
Over(c) == call' = [call EXCEPT ![c] = NoCall]

\* An event as the webhook saves it, before its effect: a push, a draft turned
\* ready or back, a close, a reopen.  A re-run is of a head that was checked, and
\* carries the row read a moment ago.
Receive(c) ==
  /\ call[c].pc = "idle" /\ events < MaxEvents
  /\ events' = events + 1
  /\ \E effect \in {"push", "ready", "draft", "close", "reopen", "rerun"} :
       /\ \/ effect = "push" /\ pr.open /\ pr' = [pr EXCEPT !.head = @ + 1]
          \/ effect = "ready" /\ pr.open /\ pr.draft /\ pr' = [pr EXCEPT !.draft = FALSE]
          \/ effect = "draft" /\ pr.open /\ ~pr.draft /\ pr' = [pr EXCEPT !.draft = TRUE]
          \/ effect = "close" /\ pr.open /\ pr' = [pr EXCEPT !.open = FALSE]
          \/ effect = "reopen" /\ ~pr.open /\ pr' = [pr EXCEPT !.open = TRUE]
          \/ effect = "rerun" /\ pr.open /\ UNCHANGED pr
               /\ \E k \in DOMAIN checks : checks[k].head = pr.head
       /\ call' = [call EXCEPT ![c] = [NoCall EXCEPT
            !.pc = IF effect = "close" \/ pr'.draft THEN "active" ELSE "stored",
            !.effect = IF effect = "close" THEN "close" ELSE IF pr'.draft THEN "draft" ELSE "check",
            !.head = pr'.head]]
  /\ UNCHANGED <<checks, github, jobs, lane>>

\* start: the head as stored now, so that a re-run of a replaced head is stale.
ReadStored(c) ==
  /\ call[c].pc = "stored"
  /\ IF pr.open /\ pr.head = call[c].head THEN Step(c, "active") ELSE Over(c)
  /\ UNCHANGED <<pr, checks, github, jobs, lane, events>>

-------------------------------------------------------------------------------
\* supersede: the row first, then the job the settled row names.
Superseded(c) == IF call[c].effect = "close" THEN Over(c) ELSE Step(c, "create")
Reason(c) == IF call[c].effect = "close" THEN "cancelled" ELSE "superseded"

\* Mutant of ReadActive: only a queued row counts as active.
ReadActiveQueued(c) ==
  LET waiting == {k \in OpenChecks : checks[k].st = "queued"} IN
  /\ call[c].pc = "active"
  /\ IF waiting = {}
     THEN Superseded(c)
     ELSE \E k \in waiting : call' = [call EXCEPT ![c].pc = "settle", ![c].check = k]
  /\ UNCHANGED <<pr, checks, github, jobs, lane, events>>

ReadActive(c) ==
  /\ call[c].pc = "active"
  /\ IF OpenChecks = {}
     THEN Superseded(c)
     ELSE \E k \in OpenChecks : /\ \A l \in OpenChecks : l <= k
                               /\ call' = [call EXCEPT ![c].pc = "settle", ![c].check = k]
  /\ UNCHANGED <<pr, checks, github, jobs, lane, events>>

SettleActive(c) ==
  LET k == call[c].check IN
  /\ call[c].pc = "settle"
  /\ SettleRow(k, Reason(c)) /\ Tell(k, Reason(c))
  /\ IF Open(k) /\ checks[k].job # 0
     THEN call' = [call EXCEPT ![c].pc = "job", ![c].job = checks[k].job]
     ELSE Superseded(c)
  /\ UNCHANGED <<pr, jobs, lane, events>>

\* cancelCheckJob: a queued job settles, a running one is told to stop and
\* waited for.  A body that outlasts the wait loses its row and works on.
StopJob(c) ==
  LET j == call[c].job IN
  /\ call[c].pc = "job"
  /\ IF jobs[j].st = "queued"
     THEN jobs' = [jobs EXCEPT ![j].st = "cancelled"]
     ELSE jobs' = [jobs EXCEPT ![j].stopped = @ \/ jobs[j].st = "running"]
  /\ IF jobs[j].st = "running" THEN Step(c, "wait") ELSE Superseded(c)
  /\ UNCHANGED <<pr, checks, github, lane, events>>

\* Mutant of Unwound: the stop is asked for and not waited for.
UnwoundAtOnce(c) ==
  /\ call[c].pc = "wait"
  /\ Superseded(c)
  /\ UNCHANGED <<pr, checks, github, jobs, lane, events>>

Unwound(c) ==
  /\ call[c].pc = "wait" /\ ~Live(call[c].job)
  /\ Superseded(c)
  /\ UNCHANGED <<pr, checks, github, jobs, lane, events>>

Outlast(c) ==
  /\ call[c].pc = "wait" /\ Live(call[c].job)
  /\ jobs' = [jobs EXCEPT ![call[c].job].st = "cancelled"]
  /\ Superseded(c)
  /\ UNCHANGED <<pr, checks, github, lane, events>>

-------------------------------------------------------------------------------
\* The new attempt: its row, GitHub's check, the coordinator's job.
CreateCheck(c) ==
  /\ call[c].pc = "create"
  /\ checks' = Append(checks, [head |-> call[c].head, st |-> "queued", reason |-> "none",
                               job |-> 0, posted |-> FALSE])
  /\ github' = Append(github, "none")
  /\ call' = [call EXCEPT ![c].pc = "post", ![c].check = Len(checks) + 1]
  /\ UNCHANGED <<pr, jobs, lane, events>>

Post(c) ==
  /\ call[c].pc = "post"
  /\ \/ github' = [github EXCEPT ![call[c].check] = "open"] /\ Step(c, "posted")
     \/ /\ MayRefuse /\ github' = [github EXCEPT ![call[c].check] = "unposted"]
        /\ Step(c, IF call[c].effect = "draft" THEN "draft" ELSE "enqueue")
  /\ UNCHANGED <<pr, checks, jobs, lane, events>>

\* Mutant of RememberPost: GitHub's answer is not kept.
RememberPostNever(c) ==
  /\ call[c].pc = "posted"
  /\ Step(c, IF call[c].effect = "draft" THEN "draft" ELSE "enqueue")
  /\ UNCHANGED <<pr, checks, github, jobs, lane, events>>

RememberPost(c) ==
  LET k == call[c].check IN
  /\ call[c].pc = "posted"
  /\ checks' = IF Open(k) THEN [checks EXCEPT ![k].posted = TRUE] ELSE checks
  /\ Step(c, IF call[c].effect = "draft" THEN "draft" ELSE "enqueue")
  /\ UNCHANGED <<pr, github, jobs, lane, events>>

EnqueueCheck(c) ==
  /\ call[c].pc = "enqueue"
  /\ IF KeyHeld("coordinator")
     THEN Step(c, "busy") /\ UNCHANGED jobs
     ELSE /\ Enqueue("coordinator", call[c].check)
          /\ call' = [call EXCEPT ![c].pc = "name", ![c].job = Len(jobs) + 1]
  /\ UNCHANGED <<pr, checks, github, lane, events>>

\* A draft is held, an attempt the queue refused is given up: both settle at once.
SettleNew(c) ==
  LET k == call[c].check
      reason == IF call[c].pc = "draft" THEN "draft" ELSE "cancelled"
  IN
  /\ call[c].pc \in {"draft", "busy"}
  /\ SettleRow(k, reason) /\ Tell(k, reason)
  /\ Over(c)
  /\ UNCHANGED <<pr, jobs, lane, events>>

NameJob(c) ==
  LET k == call[c].check IN
  /\ call[c].pc = "name"
  /\ checks' = IF Open(k) THEN [checks EXCEPT ![k].job = call[c].job] ELSE checks
  /\ Over(c)
  /\ UNCHANGED <<pr, github, jobs, lane, events>>

-------------------------------------------------------------------------------
\* The lane: the oldest queued job runs.
Claim ==
  /\ lane.pc = "free"
  /\ \E j \in DOMAIN jobs :
       /\ jobs[j].st = "queued"
       /\ \A i \in DOMAIN jobs : jobs[i].st = "queued" => j <= i
       /\ jobs' = [jobs EXCEPT ![j].st = "running"]
       /\ lane' = [NoJob EXCEPT !.pc = "open", !.job = j]
  /\ UNCHANGED <<pr, checks, github, call, events>>

Mine == jobs[lane.job].check

\* linkStarted: a job whose check is settled does nothing, and the write that
\* names it refuses a row settled since.
ReadCheck ==
  /\ lane.pc = "open"
  /\ lane' = [lane EXCEPT !.pc = IF Open(Mine) THEN "mark" ELSE "end"]
  /\ UNCHANGED <<pr, checks, github, jobs, call, events>>

\* Mutant of MarkCheck: a row settled since it was read is written all the same.
MarkCheckSettledToo ==
  /\ lane.pc = "mark"
  /\ checks' = [checks EXCEPT ![Mine].st = "running", ![Mine].job = lane.job]
  /\ lane' = [lane EXCEPT !.pc = "post"]
  /\ UNCHANGED <<pr, github, jobs, call, events>>

MarkCheck ==
  /\ lane.pc = "mark"
  /\ IF Open(Mine)
     THEN /\ checks' = [checks EXCEPT ![Mine].st = "running", ![Mine].job = lane.job]
          /\ lane' = [lane EXCEPT !.pc = "post"]
     ELSE lane' = [lane EXCEPT !.pc = "end"] /\ UNCHANGED checks
  /\ UNCHANGED <<pr, github, jobs, call, events>>

\* GitHub's check is moved to in progress in a statement of its own, sent and
\* possibly refused: it lands on an open check, or after a supersede since the row
\* was written has completed it.
PostProgress ==
  /\ lane.pc = "post"
  /\ \/ UNCHANGED github
     \/ ~Open(Mine) /\ checks[Mine].posted /\ github' = [github EXCEPT ![Mine] = "reopened"]
  /\ lane' = [lane EXCEPT !.pc = "work"]
  /\ UNCHANGED <<pr, checks, jobs, call, events>>

\* The work: a failure, what a stop makes of it, a verdict, or for a coordinator
\* with nothing against the head the hand-over to the chain.  A coordinator
\* settles its check before its body ends, a link in its hook.
Coordinates == jobs[lane.job].kind = "coordinator"

Work ==
  /\ lane.pc = "work"
  /\ \/ lane' = [lane EXCEPT !.pc = "end", !.reason = "error"]
     \/ jobs[lane.job].stopped /\ lane' = [lane EXCEPT !.pc = "end"]
     \/ lane' = [lane EXCEPT !.pc = IF Coordinates THEN "judge" ELSE "end", !.reason = "judged"]
     \/ Coordinates /\ lane' = [lane EXCEPT !.pc = IF Open(Mine) THEN "chain" ELSE "end"]
  /\ UNCHANGED <<pr, checks, github, jobs, call, events>>

Chain ==
  /\ lane.pc = "chain"
  /\ IF KeyHeld("link")
     THEN lane' = [lane EXCEPT !.pc = "judge", !.reason = "error"] /\ UNCHANGED jobs
     ELSE lane' = [lane EXCEPT !.pc = "end"] /\ Enqueue("link", Mine)
  /\ UNCHANGED <<pr, checks, github, call, events>>

\* decide: a row settled meanwhile keeps its word.
Decide(reason) == SettleRow(Mine, reason) /\ Tell(Mine, reason)

Judge ==
  /\ lane.pc = "judge"
  /\ Decide(lane.reason)
  /\ lane' = [lane EXCEPT !.pc = "end", !.reason = "none"]
  /\ UNCHANGED <<pr, jobs, call, events>>

\* The job's row settles and frees its key, then the hook settles the check: a
\* job that was told to stop ends cancelled, however its body ended.
EndJob ==
  LET stopped == jobs[lane.job].stopped IN
  /\ lane.pc = "end"
  /\ jobs' = [jobs EXCEPT ![lane.job].st = IF stopped THEN "cancelled" ELSE "done"]
  /\ lane' = [lane EXCEPT !.pc = "hook", !.reason = IF stopped THEN "cancelled" ELSE @]
  /\ UNCHANGED <<pr, checks, github, call, events>>

\* Mutant of SettleMine: the hook forgets the bodies that failed or were stopped.
SettleMineJudgedOnly ==
  /\ lane.pc = "hook"
  /\ IF lane.reason = "judged" THEN Decide(lane.reason) ELSE UNCHANGED <<checks, github>>
  /\ lane' = NoJob
  /\ UNCHANGED <<pr, jobs, call, events>>

SettleMine ==
  /\ lane.pc = "hook"
  /\ IF lane.reason = "none" THEN UNCHANGED <<checks, github>> ELSE Decide(lane.reason)
  /\ lane' = NoJob
  /\ UNCHANGED <<pr, jobs, call, events>>

-------------------------------------------------------------------------------
Handle(c) ==
  \/ ReadStored(c) \/ ReadActive(c) \/ SettleActive(c) \/ StopJob(c)
  \/ Unwound(c) \/ Outlast(c)
  \/ CreateCheck(c) \/ Post(c) \/ RememberPost(c) \/ EnqueueCheck(c) \/ SettleNew(c) \/ NameJob(c)
Run == Claim \/ ReadCheck \/ MarkCheck \/ PostProgress \/ Work \/ Chain \/ Judge \/ EndJob \/ SettleMine

Next == Run \/ \E c \in Calls : Receive(c) \/ Handle(c)

Spec == Init /\ [][Next]_vars
\* Every awaited statement answers, the worker goes on, a body comes to its end.
FairSpec == Spec /\ WF_vars(Run) /\ \A c \in Calls : WF_vars(Handle(c))

-------------------------------------------------------------------------------
(* Properties *)

\* The values the rows, the lane and the calls may hold.
TypeOK ==
  /\ pr \in [head : 0 .. MaxEvents, open : BOOLEAN, draft : BOOLEAN]
  /\ \A k \in DOMAIN checks :
       /\ checks[k].head \in 0 .. pr.head /\ checks[k].job \in 0 .. Len(jobs)
       /\ checks[k].st \in {"queued", "running", "settled"} /\ checks[k].posted \in BOOLEAN
       /\ checks[k].reason \in Reasons /\ (checks[k].reason = "none" <=> Open(k))
  /\ Len(github) = Len(checks)
  /\ \A k \in DOMAIN github :
       github[k] \in {"none", "unposted", "open", "refused", "reopened"} \cup Words
  /\ \A j \in DOMAIN jobs :
       /\ jobs[j].kind \in Kinds /\ jobs[j].check \in DOMAIN checks
       /\ jobs[j].st \in {"queued", "running", "done", "cancelled"}
  /\ lane.pc \in {"free", "open", "mark", "post", "work", "chain", "judge", "end", "hook"}
  /\ lane.job \in 0 .. Len(jobs) /\ lane.reason \in Reasons
  /\ \A c \in Calls : call[c].pc \in Pcs /\ call[c].check \in 0 .. Len(checks)
  /\ events \in 0 .. MaxEvents

Quiet == \A c \in Calls : call[c].pc = "idle"
Newest == Len(checks)

\* An attempt has a word of its own, or a job that will settle it with one.
CarriedOn(k) ==
  \/ checks[k].reason \in {"judged", "error", "draft"}
  \/ Open(k) /\ \E j \in DOMAIN jobs :
       /\ jobs[j].check = k
       /\ Live(j) \/ (lane.job = j /\ lane.pc = "hook" /\ lane.reason # "none")

\* The queue refused the attempt because the coordinator of an earlier one, settled
\* by its own body and so superseded by nobody, still held the key.
BehindVerdict(k) ==
  \E i \in 1 .. k - 1 :
    /\ checks[i].reason \in {"judged", "error"}
    /\ \A j \in DOMAIN jobs : jobs[j].check = i => jobs[j].kind = "coordinator"
    /\ \A l \in i + 1 .. k : checks[l].reason \in {"cancelled", "draft"}

\* An open pull request whose events have all been handled has its head checked:
\* the newest attempt is one of that head, and it was carried on, whatever the
\* attempt it superseded was doing when it was stopped, and however long it took
\* to unwind.  One case is left: an attempt right behind a verdict.
HeadIsChecked ==
  Quiet /\ pr.open /\ events > 0 =>
    /\ checks # <<>> /\ checks[Newest].head = pr.head
    /\ CarriedOn(Newest) \/ BehindVerdict(Newest)

\* No older attempt is open beside the newest once the events are handled, and a
\* closed pull request has none.
OneCheckOpen == Quiet => OpenChecks \subseteq (IF pr.open THEN {Newest} ELSE {})

\* GitHub's check follows the row.  A completed one shows its row's word; and once the
\* call and the body are over a settled row's check is completed, unless GitHub
\* refused it or its completion, or a started link's update landed on it after a
\* supersede or a close had completed it.
GitHubFollows ==
  /\ \A k \in DOMAIN checks : /\ github[k] \in Words => github[k] = checks[k].reason
                            /\ github[k] = "reopened" => checks[k].reason \in {"superseded", "cancelled"}
  /\ Quiet /\ lane.pc = "free" =>
       \A k \in DOMAIN checks : ~Open(k) => github[k] \in Words \cup {"unposted", "refused", "reopened"}

\* Every check is settled in the end, with jobs cancelled at any point of their
\* run and links refused.
EveryCheckSettles == \A k \in 1 .. MaxEvents : (k \in OpenChecks) ~> (k \notin OpenChecks)
===============================================================================
