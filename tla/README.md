# TrueCourse: a verification development

TLA+ modules for the parts of the TrueCourse server whose correctness depends on the order in
which things happen, the TLC runs that check them on small instances, and theorems about them
that TLAPS checks for every instance. Every definition is translated from the source; `PROJECT.json`
maps each one to its lines. Nothing here is executed by the product.

    tlc -workers 2 -config runner_solo.cfg MCJobRunner     # one run
    tlapm JobRunnerProofs.tla                              # one module's proofs

## 1. The system

TrueCourse reads a workspace's documents and repositories, extracts the rules they state, and runs
generated scenarios ("guard") against the repositories and their pull requests. One server process
per deployment accepts requests and webhooks, keeps everything in Postgres, and runs background
jobs through graphile-worker; a job runs pools of model sessions and child processes.

| Part | State it keeps | Operations | Talks to | What is hard | What makes it correct |
|---|---|---|---|---|---|
| **Background job runner** `packages/jobs`, `data-store/jobs-store` | rows of `jobs`; graphile's queue; `localRuns` in memory | enqueue, run, settle, cancel, pause, resume, supersede, stop, boot | graphile by SQL, the settle hooks of the chain | rows and graphile jobs are written by separate statements; cancel, stop and crash may fall between any two | one active row per key; one body per key; no stranded row; outcomes are final; heavy work is one at a time |
| **Server job chain** `server/jobs/index.ts`, `tasks/*` | `mainChainSha` of a repository, the triggers a sync leaves | start a main chain, continue it, serve what a busy push left owing, scan after sync | the runner's settle hooks, repositories-store | hooks run after the row has settled, beside new pushes | every pushed commit gets its chain, each commit one chain, no trigger lost |
| **Pull-request checks** `server/services/pull-request-checks` | rows of `pull_request_checks`, one job per check | push, close, re-run, held start, settle | GitHub webhooks, the runner | webhooks are concurrent with each other and with the jobs | the newest head has the live check; an older head never supersedes it |
| **Credits** `data-store/credits-store`, usage meter | balance, ledger, warning stamps; a meter per job | grant, adjust, charge, pause, resume | every model call charges | charges of one workspace meet each other, a grant and the ends of jobs | ledger and balance agree; a job pays its cost once; a warning once per grant; a grant carries on what it found paused |
| **Session pool** `core/services/agent/session-pool` | the limit's queue, the serial groups, the fold's gate, the governor | run items, requeue once, pause, abort | model providers | capacity answers, credit exhaustion and aborts arrive between items | folds are alone; an item is briefed on what its group landed; nothing is left behind |
| **Semaphore, step tracker, coalesced requests** `packages/jobs` | permits, waiters, pending rows | acquire/release, advance, enqueue or pend, drain | job bodies | promises resolve later than they are granted; a run may settle before its follow-up is recorded | permits are neither lost nor duplicated; no request is lost |
| **Agent loop, session drivers** `agent-loop`, `llm-api`, `llm-claude-agent` | one conversation, its budget, its clocks | turns, tool calls, retry, refusal, repairs, stops | providers | one budget over several runs of a driver; a stop between two runs | the hard limit; an outcome is judged; a stop is final; every session ends |
| **Guard store, version sweep** `data-store` | published versions, blobs | publish, sweep | guard jobs | a sweep beside a publish | nothing live is swept |
| **Guard runner** `packages/guard-runner` | shared world, leased ports, process groups | boot, reset, run scenario, tear down | child processes | failure in the middle of a boot | every lease and process is given back |
| **Guard generator, setup, spec scan, interface author** | one job's artefacts | pipelines of sessions | session pool | capacity | the pool's |
| **Clones, removal** | working directories | clone, remove | jobs of the repository | removal beside a running job | no job works on a removed tree |
| **Context sources, entitlements, settings, auth, MCP, sockets, client, landing, enterprise edition, source facts, schemas** | rows or none | single-statement reads and writes, rendering, parsing | | little | |

How they interact: a webhook or a request enqueues a job (a row and a graphile job); a worker
claims it and calls the task; the task runs session pools that charge credits; running out of
credits unwinds the body and pauses the row; the settled hook of one job enqueues the next of its
chain; a grant resumes the paused rows. A restart reaps what was active.

The hazards, each with its line and the properties that would catch it, are in `PROJECT.json`.

## 2. The plan

In order of importance, each with its abstract promise where there is one:

1. `JobRunner` refines `JobLifecycle` - the rows, graphile and the workers (built, proved).
2. `MainChain` - the owed chain of a push, above a runner reduced to single-flight keys and one
   heavy lane (built, checked, proved).
3. `PullRequestChecks` - the check of a head beside closes, drafts, re-runs and its own jobs
   (built, checked, proved).
4. `VersionStore` - versions, the pools of bodies and the sweeps (built, checked, proved).
5. `SessionPool` refines `ItemPool` - the serial groups, the governor, the one requeue, the fold
   (built, checked, proved).
6. `Credits` - ledger, balance under its row lock, warnings, and the pause and resume that
   `JobRunner` and `PullRequestChecks` leave out (built, checked, proved).
7. `AgentLoop` - the policy shell above the API driver's turn loop (built, checked, proved).
8. Next: `JobPrimitives`, the semaphore's hand-over and the request pending beside a run; the guard
   runner's shared world; repository removal beside running jobs.

Runs: per module one small instance with every fault, one with fairness, and a run that refutes
what a comment claims where the code does otherwise; bounds are two or three actors and the least
number of events at which each hazard can happen. No module has a recursive operator, so every one
can be proved about.

Theorems: type and single flight of the runner, its lane, its outcomes and its refinement of the
lifecycle; the three safety properties of the checks; the bodies and the retention of the versions;
the refinement of `ItemPool`; the ledger, charges and warnings of `Credits`; the hard limit and the
outcomes of the agent loop; the type of the chain and, under its two conditions, `NewestHasChain` and
`NotStartedAgain` (done).

## 3. The job runner (`JobRunner`, `JobLifecycle`, `MCJobRunner`)

**State.** `status` is the `jobs` table (one row per id, "absent" before the insert); `ticket`
and `lane` are graphile's tables, reduced to what the code relies on: one unclaimed job per
`job_key`, replaced by a later `addJob` of the same key, and one lock per named queue. `run` is
`executeJob` per busy worker, `localRuns` the map of `worker.ts`, `proc` the life of a process,
`enq` and `cancel` the calls in progress. What a row's creator writes on it (workspace and key)
is fixed by `OrgOf` and `KeyOf`, so a row id stands for one enqueue.

**Steps.** Every `await` between two statements is a step boundary; nothing else is. An enqueue is
`Create`, `AddJob` (or `AddJobFails` and `UndoEnqueue`), `SupersedePaused`; a resume
`MarkRequeued`, `AddJob` (or the fall back to paused). A run is `Claim`, `MarkRunning`, the body,
`EndBody`, `MarkSettled`, `Notify` (or `NotifyFails`), `Finish`. A cancel is `Get`, `Decide`, `EndWait`, `MarkCancelled`.
`Verdict` is the table of what a body's end and the reason it was stopped for make of the row:
running out of credits is asked first, a shutdown leaves the row to the next boot. The success
notification is written in the body's own `try` (harness.ts:425), after `markSucceeded`: when that
write throws, the run counts as failed and `MarkSettled` writes the row a second time. A process
crashes, or drains and exits, and boots by `InterruptOrphaned` and `StartWorker`.

**Abstractions.** Priorities are left out: any ticket may be claimed next, a superset of the
code's orders. The thirty seconds of a cancel may be over at any time. A failing `addJob` has
inserted nothing, and the write that undoes it succeeds; so do the writes that settle a row, and
`publishProgress`, which sits in the same `try`, counts with the notification. A notification
that throws in the `catch` skips the settled hook; "unwind" is a run that is past its row's last
write, its hook run or skipped. Every row has a key. Progress and events are not modelled. `maxAttempts` is 1, so graphile never retries.

**Runs.**

| Run | Instance | Shows |
|---|---|---|
| `runner_solo` | one process, three rows of one key, two workers, two enqueuing calls, one restart, one resume, no cancel | single flight of rows, no stranded queued or running row, outcomes that only the run's own late failure changes and that the hook is told, and the refinement of `JobLifecycle`, in which no two jobs of a key work at once |
| `runner_lane` | two heavy rows of one workspace, cancels, a resume, two restarts, fairness | heavy bodies exclude each other even where a cancel frees the key under one; only a cancelled row, or one whose own run fails after it succeeded, is ever rewritten; beside cancels and across the queue lock of a dead process every queued row moves on and every running row settles |
| `runner_two_orgs` | two workspaces, one key name | violation: the second `addJob` takes the first row's graphile job |

What `OutcomeFinal` allows is worth knowing: **a job that succeeded ends as failed when its success
notification cannot be written**, although its work is done and its result was on the row. Its hook
then hears "failed", which is what the property adds. With a cancel in that moment the row stays
succeeded and the hook hears "cancelled" (`settleCancelled` finds no active row), with a shutdown
the hook is skipped; `runner_solo` has no cancel, and the second part of the property speaks of
runs that reach their hook.

Three rows are enough for a holder, a rival and a paused third of one key, two for two bodies of one
lane; two workers for two
bodies; two enqueuing calls for every race of create, resume and supersede; one restart for each
of its two kinds. `MaxRestarts` and `MaxResumes` bound the counters; a run may stop when they are
used up and all rows are settled, so deadlock is not checked.

**Fairness** (`FairSpec`). An awaited statement returns and a body ends (weak fairness of the
worker's steps and of the calls'), graphile polls while something can be claimed (weak fairness of
claiming some ticket with some worker), a stopped process is started again by its supervisor.
Nobody is obliged to enqueue, resume, cancel, crash or stop.

**Proofs** (`JobRunnerProofs`, `JobLifecycleProofs`). For all constants: `TypeCorrect` and
`RowsSingleFlight`, the latter inductive with the type alone because a row becomes active only in
`Create` and `MarkRequeued`, both behind the unique index. What bodies need is more than that: a
row's single token on its way to a worker. `RowsInv` says it: an active row is held by at most one
of a pending enqueue, a ticket, a claim or an execution (`OneToken`, `OneExecution`), each holder
knows its row's status (`RowsFollow`), a run's verdict fits the phase it is in (`RunsFollow`), and
a process that is not serving holds nothing
(`ProcessesHold`). It is inductive in one process (`OneProcess`), cancels or not: `Lost` is what a cancel may have
made of a row behind its holder's back, and the invariant says nothing of those rows. With
`LaneHeld` (a heavy body holds its lane's lock) it gives `OneHeavyBody` and `OnlyCancelledRewritten`
for one process; where nobody cancels either (`Solo`) `Lost` is empty, and it gives
`SoloBodiesExclusive`, `SoloOutcomeFinal`, `SoloRunning` and `SoloImplementsLifecycle`: exactly where
the violations above cannot happen. `SoloAttended` adds `BootsClean` and asks that no two workspaces
use one key name (`KeysApart`), the case `runner_two_orgs` refutes. `LifecycleOneWorker` is what the
abstract lifecycle is worth: no two jobs of one flight work at once. Only model-checked: liveness.

## 4. The main chain (`MainChain`, `MCMainChain`, `MainChainProofs`)

A push of the default branch syncs the repository's documents, the sync asks for a scan of the
workspace's corpus, and whoever settles last starts the chain setup, generate, run at the pushed
commit. What is hard is that nobody owns the decision: webhook, sync, scan, ripple and the running
chain's end each look whether the push is owed a chain and whether somebody else will serve it.

**State.** `pushed` and `recorded` are two columns of `repositories`; `sync` and `scan` the active
row of each task with where its body is; `docs`, `corpus` and `changedAt` the context store;
`queue` and `lane` the heavy rows of the repository. `at` says what each webhook handler or settle
hook does next, `Lane` being the hook of the heavy job. `chain` is history: what became of the
chain started for each commit.

**Steps.** A job's settled row is one step and its hook the steps after it, one per statement, as
`executeJob` calls `onSettled` once the key is free. `CheckScan`, `CheckOwed`, `LookForHeavy`,
`ReadPushed`, `StartSetup`, `RecordMainChain` are `serveOwedChains` and `startMainChain` in their
order. `Restart` is the death of every hook and body and the boot's reap.

**Abstractions.** The repository is set up already. Other repositories of the workspace, manual
starts, disconnects, pauses and pull requests' chains are out. An unpinned job clones the newest
push. Stamps are counted by `clock` instead of read off the wall. Every push changes a document.
`Faults` names what may go wrong: a sync that does not start, a sync, scan, start or link that
fails, a cancel. `Prompt` states the one timing assumption: a call that looks for a chain (a few
statements) is over before a job's body (minutes of sessions) is.

| Run | Instance | Shows |
|---|---|---|
| `chain_one` | one push, three hooks, every fault, no timing assumption | the push's chain is not lost before it has ended |
| `chain_live` | two pushes, failing links, fairness, `Prompt` | a commit's chain is started once; what is owed is served, whoever settles last |
| `chain_restart` | one push, two restarts, `Prompt` | a chain killed by a restart is started again at boot, once |
| `chain_refused` | two pushes, no fault | violation: between two links nothing is active, a second chain starts, and its generate is refused by the first's |

Two pushes are the least with which one can be owed while the other's chain runs; two hooks the
least for two servers of one push, three add the ripple beside them. Without `Prompt` a chain's start
can be recorded after that chain has ended, and a commit is then started again: this is why
`NotStartedAgain` is checked with it. `KilledIsServed` speaks of chains whose row the boot reaps: a
restart between two links, or one that kills a sync, leaves the push to the next.

**Fairness.** The event loop resumes every call, the worker claims what is queued, every body
returns or is timed out; nobody is obliged to push. A run may stop when its pushes are served, so
deadlock is not checked.

**Proofs** (`MainChainProofs`), for any number of hooks. `TypesHold` has no condition: besides the
types, nobody knows a commit that was not pushed (`Known`, and `RowsKnown` for the rows), and the
lane is held by a hook exactly as long as its hook has something to do (`LaneHook`). The other two
hold under a condition each, stated as the theorem's assumption because the property fails without
it.

- `PushKeepsChain`: `NewestHasChain` under `Single`, one push and no restart, with any faults and no
  timing assumption. By `OnePush`, every call that starts or records a chain and every row is about
  that push, so a link refused as busy was refused by a row of the same chain. `chain_refused` is
  what two pushes do; a restart between two links loses the chain until the next push.
- `StartedOnce`: `NotStartedAgain` under `Careful`: `Prompt`, no fault `no_sync`, and at most one
  push or at most one restart. By `Looking`, a call between its look and its start knows that no
  chain was started for the commit or that a setup is active, whose key then refuses its own; by
  `OneRecords` and `Newest`, only one call records a start, and the newest push is unstarted,
  recorded or about to be. A restart undoes the start of every chain it kills but one that goes back
  to a restart itself; `Restarted` says that after one restart there is none to kill, and that after
  the only push such a chain is `Alone`, with no call beside it that would start another.
  The condition is needed. Without `Prompt` a start is recorded after its chain ended; with
  `no_sync` the webhook starts a chain without asking whether the push has one (TLC finds either
  with two pushes). With three pushes and two restarts, a recovered chain killed before it is
  recorded is started again when the run of an unpinned ripple at the same commit is killed beside
  it: the boot owes a chain for that run, and nothing is recorded of the other.

`OwedIsServed` and `KilledIsServed` are liveness and only model-checked.

## 5. Pull-request checks (`PullRequestChecks`, `MCPullRequestChecks`, `PullRequestChecksProofs`)

An event judges a pull request's head: `start` supersedes the check in flight (its row, then its
job), creates an attempt, posts it to GitHub and enqueues a coordinator, which judges the head or
hands over to a chain of three links.

**State.** `checks` are the rows of `pull_request_checks` in the order of their creation, `github`
GitHub's side of each (`"open"` is queued or in progress, a completed check shows its word,
`"unposted"` and `"refused"` are GitHub's refusals of the check and of its completion, `"reopened"` is
in progress again once completed), `jobs` the coordinators and links, `lane` the job that runs and where it is,
`call` the webhook delivery or re-run in progress, `pr` the row of the pull request.

**Steps.** One per awaited statement of `start`, `hold`, `supersede` and the coordinator's body.
A coordinator settles its check inside its body (`Judge`), before its job settles (`EndJob`); a link
settles it in its hook (`SettleMine`). A job told to stop ends cancelled however its body ended. A
link that starts writes its row (`MarkCheck`) and then moves GitHub's check to in progress
(`PostProgress`); a supersede may settle the row and complete GitHub's check between the two. A
stop waits for the body (`Unwound`) or gives up (`Outlast`), which takes the job's row away while the
body works on.

**Abstractions.** The three links are one: they start through the same `linkStarted`, refuse a
settled check alike and settle alike. A settle and what GitHub is told of it are one step: only a
started link's update can land around the telling, and `PostProgress` may come before that step or
after it. The pull request has an installation to tell GitHub through. A cancel reads and writes the job's row at once; the race inside it is `JobRunner`'s.
Repositories whose checks are off, other base branches, pauses (whose update of GitHub's check has
the same late landing), disconnects and failing statements are out; GitHub may refuse any check, or
its completion, for up to `MaxRefusals` attempts.

**What GitHub is left with.** `settleCheck` is documented as "Settle a check and move GitHub's check
with it" (`pr-check-chain.ts:147`). The row is settled for good; GitHub's check is moved best effort.
`postCheck` logs a refused update (`pr-check-chain.ts:103-107`) and nobody sends it again, and the
`in_progress` update of a link that started (`pr-check-chain.ts:131`, `repo-pr-check.ts:156`) can land
after the `completed` of the supersede that settled its row. `GitHubFollows` names both outcomes,
`"refused"` and `"reopened"`, and says they are the only ones: the second needs a row settled by a
supersede or a close, and whatever shows a word shows its row's.

| Run | Instance | Shows |
|---|---|---|
| `checks_one` | one call at a time, three events, GitHub may refuse one attempt's check or its completion, fairness | the newest head has its attempt, with a word or a job that will give it one; no older attempt is open; GitHub follows the rows, but for a refusal or a late update; every check settles |

Three events are the least for an attempt, the attempt that supersedes it and one more to meet what
the first left behind. `HeadIsChecked` names one exception, `BehindVerdict`: an
attempt right behind a verdict is refused by the job that gave it, though nothing was superseded. Calls are taken one at a time: with two, an older head's call can settle
the newer head's check after its own re-read of the head (`PROJECT.json`, hazards).

**Fairness.** Every awaited statement answers, the worker goes on, a body comes to its end; events
are free to stop, so deadlock is not checked.

**Proofs** (`PullRequestChecksProofs`). From `ChecksAssumption` alone: `TypesHold`, for any number of
calls at once. The rest is for any number of events, checks and jobs with one call at a time
(`OneCaller`): two calls, one that reads what is active and one that makes a check meanwhile, do not
know of each other, and two checks stay open. Four layers of one invariant carry it.

- `Settled` ties the call to the rows. With no call under way nothing but the newest attempt is open,
  and nothing at all of a closed pull request (`LeftOpen`); a row names a job of its own (`OwnJob`); what a
  call knows at each of its statements is `Handled`. It gives `OneCheckAtATime` (`OneCheckOpen`).
- `Told`, on `Settled`, follows one attempt's check at GitHub from post to completion, refused or not:
  what GitHub has the row knows, or its call is about to note. `Late` says that when a body about to
  send its update finds its row settled, a supersede or a close settled it. They give
  `GitHubIsTold` (`GitHubFollows`).
- `Headed` ties the jobs to the rows: the lane, its word and the keys (`Orderly`), an open check has
  a job that will settle it or a call that will give it one (`Carried`), its row names its coordinator
  or is about to (`Named`).
- A coordinator that outlives its check is being stopped, or its own verdict came right before the
  newest attempts (`Holding`); only such a one refuses an attempt (`Busy`), which is the exception
  `BehindVerdict` names. `Worded` says what is left for the newest attempt, and gives `HeadChecked`
  (`HeadIsChecked`).

`EveryCheckSettles` is liveness and only model-checked.

## 6. The versions and their pools (`VersionStore`, `MCVersionStore`, `VersionStoreProofs`)

What a generate, a setup or a run leaves is a version: a row whose manifest names bodies by their
hash, kept once per repository in a pool. A save puts its bodies, inserts its row, trims the series
it extended and, when that took a version, sweeps the pools of what no row names.

**State.** `rows` are the four tables (reports, scenario sets, setup bundles, runs), `content` the
pools with the stamp each body was last put at, `time` the clock both are stamped by. `act` is what
each request or job is in the middle of, the sweep of a boot among them. `exposed` is history: the
bodies put again, or named again by a rollback, while a sweep had already given them up. In a row,
`pair` is the set a report is paired with. A generate blocked at a commit that has a set pairs its
report with that set, where guard-store.ts says that it has none.

**Steps.** One per statement: nothing here is in a transaction with anything else. A save's puts
come in any order. `Return` is what a save's sweep goes back to: the set of a generate is followed
by its report, the report by the evidence. `ReadLive` reads the four tables one by one, `SelectDead` and
`DeleteDead` are the two statements of `gc`. `Restart` ends everything where it is; boot then sweeps.

**Abstractions.** One scope. Ids follow the order of the inserts. Keep, days and grace are small
numbers of ticks; `Stall` bounds how long a save is between its first put and its row and a sweep
between its first read and its cutoff, and `GraceAssumption` is the sentence of `retention.ts` that
the grace is far beyond any such window. A generate's evidence is one bundle.

| Run | Instance | Shows |
|---|---|---|
| `store_versions` | one request or job beside the boot's sweep, one commit, four rows, one restart, fairness | a version loses a body only through the gap between `gc`'s two statements or under a rollback; retention takes only what is neither among the newest nor young when it goes; an orphan goes at the next boot |

Four rows are the least for a version, the one that displaces it, a report and a rollback, with
`Keep` 1 and no grace, the values under which a trim and a sweep come soonest; two ticks are the
least that tell old from new. `LostOnlyInTheGap` was also checked with two writers and no restart.
`OrphanGoes` asks for a repository that has a version: without one the boot never looks.

**Fairness.** Every awaited statement answers and the boot's sweep, started off the boot path, runs;
nobody is obliged to save. A run may stop at the bounds, so deadlock is not checked.

**Proofs** (`VersionStoreProofs`). For any number of actors, commits, rows and restarts, from
`StoreAssumption` (a clock of at least one tick) and `GraceAssumption`: `TypesHold`,
`BodiesOutliveVersions` (`LostOnlyInTheGap`) and `NewestAreKept` (`NewestKept`). The invariant is the
property together with `AllFit`, one predicate `Fit` of each actor's record, which says what still
counts of what it read: the bodies a save has put are there and stamped since it began, or `exposed`
(`Fresh`); no version a sweep has read, and none that came later, names a body it may take (`Spares`,
`Outlives`, `GivenUp`); what a trim has chosen stays displaced whatever other trims take (`Displaced`).
A step of one actor then disturbs the others' `Fit` only through the clock, the tables and
the pools, each by a lemma of its own. Retention counts by ids, the order of the inserts: the newest
`Keep` of a series are the same whoever reads them, and the lemmas on them rest on finite sets and
well-foundedness. `OrphanGoes` is liveness and only model-checked.

## 7. The session pool (`SessionPool`, `ItemPool`, `MCSessionPool`, `SessionPoolProofs`)

A pool runs one agent session per work item. Items of one serial group run one after another, groups
beside each other as far as the governor's permits go, and each session's result is folded into the
caller's state by a fold that must be alone.

**State.** `queue` and `active` are p-limit's, a task being a group or the re-run of one item; `at`
is where each item is, `gate` the order in which ended sessions reach the fold, its head the one
that folds, `permits`, `cleanTurns` and `halvedSinceTurn` the governor, `pool` the caller's promise.
`alive` is the process, which an unhandled rejection ends.

**Steps.** What happens up to the next await. A session is seen by its turns, its 429s and its end:
out of credits (`Park`), throttled to death (`Requeue`, once), anything else (`Complete`). The pool
awaits the groups, then the re-runs (`AwaitRetries`), then settles.

**Refinement.** `ItemPool` is what the caller relies on: an item is begun once, and once more only
when it was put off; folds are alone; nothing is begun once the run is stopped; the pool returns
when nothing is worked on, and completely unless it was stopped.

| Run | Instance | Shows |
|---|---|---|
| `pool_items` | four items in three groups, a ceiling of two, every fault, fairness | the governor stays between one and its ceiling; an item is briefed on what its group landed; the refinement; the promise settles and everything started ends |

Four items in three groups are the least with a group of two, two rivals for its permit and a
re-run beside them; a ceiling of two is the least that can be halved, `RestoreTurns` is the
code's four. A re-run works beside its group's next item, where the header says one after another:
`BriefedOnPredecessors` allows it by name. A re-run's fold that throws before anybody waits for the
re-runs is an unhandled rejection; `PoolEnds` admits the death of the process by it.

**Fairness.** Every session and every fold ends and the event loop resumes what may go on; nothing
obliges a provider to throttle or a caller to abort. A pool stops when it has settled, so deadlock is
not checked.

**Proofs** (`SessionPoolProofs`). For any items, groups, ceiling and counters: `TypesHold`,
`GroupsAreSerial`, `BriefedHolds` and the refinement `PoolImplements`, step by step. The invariant says
that nothing waits twice and a re-run only of what was put off (`Queues`), that no more tasks are
active than the ceiling (`Ceiling`), what an item's standing says of its re-run and its group
(`Standing`), that every item at work has an active task of its own and the gate's head alone folds
(`Working`), and that what is left to do has a task active or queued until the run stops or breaks
(`Covered`). The last is what makes the pool's return complete: it is why `ItemPool`'s last step is
allowed whenever the code settles its promise. `PoolEnds` is liveness and only model-checked.

## 8. Credits (`Credits`, `CreditsProofs`)

Every model call of a job is recorded and charged to its workspace, in whole credits, by a meter the
job carries; when a charge finds the balance used up the job unwinds and its row is paused, and a
grant carries it on.

**State.** `account` is the row of `credit_balances`, `tx` what each open transaction read of it
under the row lock, `ledger` the sums of `credit_ledger`, `row` the jobs' rows, `meter` each job's
body and meter (its buffer, its gate's number, its flush, what it has charged), `usage` the job's
row of `llm_usage`, which outlives the meter, `op` the operator's request. `told` and `ranOut` are
history, and so are the debits, failed debits and legs counted in `usage`.

**Steps.** A movement is `LockBalance`, then `Charge` or `Move` at the commit, which writes balance,
ledger and stamps together. A charge's answer reaches the meter a step later (`Answered`), so a gate
reads what its own last charge left. A body that was refused unwinds before its row settles
(`EndBody`, `Settle`); a grant that was not asked otherwise lists the paused rows once and tries
each (`ListPaused`, `ResumePaused`): a row that cannot be enqueued (credits.service.ts:267), or is
refused because its key is held again, is left paused and the loop goes on. A row claimed again has
a new meter (`Claim`), while its usage row goes on from where the first leg left it.

**Abstractions.** Costs are in quarters of a credit, so that a half rounds up and less than a half
down. One usage subject per job. A job's queue is `JobRunner`'s: a revived row is claimed at once, and a refused key is
one of the ways in which a resume fails. A failed debit is
logged and not tried again; a usage row that cannot be written is left out.

| Run | Instance | Shows |
|---|---|---|
| `credits_two` | two jobs of two calls of a credit and a half, a grant or a correction, failing debits and resumes, fairness | ledger and balance agree; a run pays what its recorded cost is worth, no credit twice, half a credit off at most for each leg a pause made of it; a warning once per grant; a job pauses only when the balance was used up during its run; a grant tries each row it found paused |

Two calls of one and a half round differently together (3) and apart (4), in one leg and in two; two jobs and one
operator the least that meet at the lock with each other and with a grant.

`ChargedOnce` is weaker than the code's own words. usage-meter.service.ts:151-155 says that the row
"is always charged `round(total × 100)` in the end": true of a run of one leg, but the usage row is
keyed by job and subject and keeps growing over a pause and a resume (usage-store.ts:94-102), while
`charged` starts empty in the meter of the second leg (line 176), so two legs of half a credit pay
two for a row worth one. What holds, and is checked, is half a credit a leg.

`GrantResumes` speaks of what the list found, and of a row whose own resume failed only that it was
tried: it waits for the next grant or a person, as the comment at credits.service.ts:256 says. A job that is still unwinding when the grant looks
settles paused beside a balance it could spend, and stays so until the next grant or a person, where
the pause notice (harness.ts:397) says that it carries on as soon as the workspace can spend again;
a correction that lifts the balance resumes nobody.

**Fairness.** Calls and statements come to their end and the row lock goes round (strong fairness of
taking it); nobody is obliged to grant, correct or resume by hand. A run stops when all work is done,
so deadlock is not checked.

**Proofs** (`CreditsProofs`). For any number of jobs, costs, grants and corrections, all four safety
properties: `LedgerBalances`, `RunsChargedOnce`, `WarningsOnce`, `PausesAreEmpty`. None is inductive
alone. A debit is computed from what its transaction read, so `Locked` says that an open transaction
has the row to itself and what it read still stands; `Charged` accounts for the credit whose debit is
under way (`Owed`), and keeps what the earlier legs cost and paid (`Past`, `Paid`) apart from this
meter's: it needs that a larger cost is never worth less (`CreditsGrow`) and that a rounded cost is
half a credit off at most (`CreditsNear`); `Stamped` ties
each warning to its stamp; `Emptied` follows an empty balance from the charge's answer through the
meter to the end of the body, and `Attended` says that a meter at work belongs to a running row.
The assumptions are `CreditsAssumption`: costs and grants are positive, the operator is no job.
`GrantResumes` is only model-checked.

## 9. The agent loop (`AgentLoop`, `AgentLoopProofs`)

One session is a shell above a driver. The driver talks to the model, runs its tools and returns once:
an outcome or a failure. The shell follows the driver's events, and may run it again over the same
transcript: once after a transient failure, once when the outcome came before the tool it must rest on,
and for every outcome its schema or its validator refuses. Budget, malformed streak and clocks belong
to the session and span all of its runs.

**State.** `turns`, `turnsThisGrant`, `grantsUsed`, `wrapUp` are the budget (`SHUT` is
`wrapUpTurnsLeft` undefined), `cause` is `interruptCause`, `stage`, `repairs`, `refusals` how far the
shell has come with what runs returned. `driver` is where the run is, `interrupted` and `steers` what
its handle was told; both are forgotten with the run. `asked` and `accepted` are history: whether the
model heard that its outcome is wanted, and whether the validator's last word was yes.

**Steps.** What happens between two awaits: the top of the driver's loop, the call to the model
and its retries, the reply with its tools, the run's end, the validator. An event is handled in the
step that emits it (`CountTurn` is `track`'s case of an assistant turn).

**Abstractions.** The definition declares everything a definition may: a required tool, a draft
checkpoint, repairs and a validator. The stall clock and the ceiling are aborts like the caller's. The
Claude driver, child sessions, questions, progress and the transcripts' text are left out, and so is
a driver that throws while it replies: `runOnce` turns that into a failure (`agent-loop.ts:546`).

| Run | Instance | Shows |
|---|---|---|
| `loop_session` | two grants of two turns, one repair, two tries of a call, every fault, a provider that may stall, fairness | the hard limit over all runs; a stop begins no further call; a completed session was accepted by its validator and refused once if its tool had not run; the budget cuts nobody unasked; every session ends |

Two grants of two turns with the window of three are the least in which a grant, the bound, the window
and its end fall on different turns. A steer waits for the driver's next turn, so a run that ends with
an outcome in the turn of the demand takes the demand with it; the message that opens the next run
then stands for it in `CutAfterDemand`, though it does not say how many turns are left.

**Fairness.** Loop, tools and validator answer. The model answers too, except where "stall" is among
the faults: then only the turn clock and the abort it sets off are fair. A session stops when it has
ended, so deadlock is not checked.

**Proofs** (`AgentLoopProofs`). For every budget, number of grants, repairs and tries, and every set of
faults: `TypeCorrect`, `WithinHardLimit`, `CompletionIsEarned`, `DemandComesFirst`, `StopsAreFinal`.
The invariant has four parts beside the values. `Room`: while a turn may come, the turns so far and
what the grants and the window still spare are within the limit, and the window is open only when
the grants are used up. `Flow`: a run goes on exactly while it has returned nothing, and its handle
knows what the shell decided. `Demanded`: an open window means that the demand was heard or waits in
a steer that the next turn or the shell's next message delivers. `Earned`: what stands behind an
outcome on its way to completion. The assumptions are `LoopAssumption`, the ranges of the budget and
the faults. `SessionEnds` is only model-checked.

## 10. Not modelled

The components with status `not_modelled` in `PROJECT.json`, each with its reason: planned ones are in
section 2; the rest are pipelines whose concurrency is the session pool's, single-statement reads and
writes, parsing and rendering.
