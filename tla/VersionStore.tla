----------------------------- MODULE VersionStore -----------------------------
(***************************************************************************)
(* The versions of one repository (guard-store.ts) and the pool of bodies   *)
(* they point into (content-store.ts), trimmed and swept after every save   *)
(* and at boot (version-sweep.ts, retention.ts).                            *)
(*                                                                         *)
(* A save puts its bodies, then inserts the row that names them, then trims *)
(* the series it extended, and only when that took a version sweeps the     *)
(* pools.  Every statement is a step; nothing is in a transaction with      *)
(* anything else.  One scope; time passes in ticks.                         *)
(***************************************************************************)
EXTENDS Naturals, Sequences, FiniteSets

CONSTANTS
  Actors,       \* the requests and jobs that write the store at the same time
  Commits,      \* commits of the repository
  GuardBodies,  \* bodies of scenario sets and setup bundles
  Evidence,     \* bodies of the evidence of runs and reports
  Keep,         \* VERSION_RETENTION.keep
  KeepFor,      \* VERSION_RETENTION.keepDays, in ticks
  Grace,        \* CONTENT_SWEEP_GRACE_MS, in ticks
  Stall,        \* the longest a save is between its first put and its row, and
                \* a sweep between its first read and its cutoff, in ticks
  Work,         \* the operations that occur
  MaxTime, MaxRows, MaxRestarts  \* bounds

Bodies == GuardBodies \cup Evidence
AllWork == {"scenarios", "setup", "blocked", "run", "restore"}

ASSUME StoreAssumption ==
  /\ Keep \in Nat \ {0} /\ KeepFor \in Nat /\ Grace \in Nat /\ Stall \in Nat
  /\ GuardBodies \cap Evidence = {}
  /\ "boot" \notin Actors /\ Work \subseteq AllWork
  /\ MaxTime \in Nat \ {0} /\ MaxRows \in Nat /\ MaxRestarts \in Nat

\* retention.ts: a body's grace outlasts any save that overlaps any sweep.
ASSUME GraceAssumption == Stall + Stall <= Grace

VARIABLES
  time,      \* the clock
  content,   \* the pool: when each body was last put, 0 when it is not there
  rows,      \* the versions of the four tables
  act,       \* what each actor, and the sweep of the boot, is doing
  next,      \* the id of the next row: ids are time-sortable
  restarts,  \* restarts so far
  exposed    \* history: bodies referenced again while a sweep had given them up

vars == <<time, content, rows, act, next, restarts, exposed>>

Series == {"report", "scenarios", "setup"}
Tables == Series \cup {"run"}
Everyone == Actors \cup {"boot"}

Idle == [pc |-> "idle", tab |-> "run", commit |-> 0, files |-> {}, todo |-> {}, since |-> 0,
         own |-> 0, from |-> 0, trim |-> {}, plan |-> <<>>, took |-> FALSE, read |-> <<>>,
         live |-> {}, pool |-> "guard", dead |-> {}, cut |-> 0, then |-> "idle"]

Init ==
  /\ time = 1
  /\ content = [b \in Bodies |-> 0]
  /\ rows = {} /\ next = 1 /\ restarts = 0 /\ exposed = {}
  /\ act = [a \in Everyone |-> Idle]

-------------------------------------------------------------------------------
Stored == {b \in Bodies : content[b] > 0}
Of(tab) == {r \in rows : r.tab = tab}
\* The current version of some rows of one series.
Newest(R) == CHOOSE r \in R : \A s \in R : s.id <= r.id

Become(a, x) == act' = [act EXCEPT ![a] = x]
\* Mutant of Insert: two versions of one moment share their id.
InsertSameId(tab, commit, files, pair, from) ==
  /\ next <= MaxRows
  /\ rows' = rows \cup {[id |-> next, tab |-> tab, commit |-> commit, files |-> files,
                         pair |-> pair, from |-> from, made |-> time]}
  /\ next' \in {next, next + 1}
Insert(tab, commit, files, pair, from) ==
  /\ next <= MaxRows
  /\ rows' = rows \cup {[id |-> next, tab |-> tab, commit |-> commit, files |-> files,
                         pair |-> pair, from |-> from, made |-> time]}
  /\ next' = next + 1

\* What follows when an operation's sweep has nothing more to do.
Return(x) == IF x.then = "idle" THEN Idle
             ELSE [Idle EXCEPT !.pc = x.then, !.commit = x.commit, !.own = x.own, !.from = x.from]
TrimOf(x, tab, plan) == [Idle EXCEPT !.pc = "trim", !.tab = tab, !.plan = plan, !.took = x.took,
                         !.commit = x.commit, !.own = x.own, !.from = x.from, !.then = x.then]
\* Mutant of AfterTrim: the sweep does not ask what setup bundles point into.
AfterTrimNoBundles(x) ==
  IF x.plan # <<>> THEN TrimOf(x, Head(x.plan), Tail(x.plan))
  ELSE IF x.took THEN [TrimOf(x, x.tab, <<>>) EXCEPT !.pc = "live",
                       !.read = <<"scenarios", "run", "report">>]
  ELSE Return(x)
\* The next series of a full sweep, else the pools: a save sweeps them only
\* when its trim took a version.
AfterTrim(x) ==
  IF x.plan # <<>> THEN TrimOf(x, Head(x.plan), Tail(x.plan))
  ELSE IF x.took THEN [TrimOf(x, x.tab, <<>>) EXCEPT !.pc = "live",
                       !.read = <<"scenarios", "setup", "run", "report">>]
  ELSE Return(x)

-------------------------------------------------------------------------------
\* A generate's scenario set, or a setup's bundle: the files it will hold.
BeginSave(a, tab, commit, files) ==
  /\ act[a].pc = "idle"
  /\ Become(a, [Idle EXCEPT !.pc = "put", !.tab = tab, !.commit = commit, !.files = files,
                            !.todo = files])
  /\ UNCHANGED <<time, content, rows, next, restarts, exposed>>

\* A blocked generate stores a report and no set.
BeginBlocked(a, commit) ==
  /\ act[a].pc = "idle"
  /\ Become(a, [Idle EXCEPT !.pc = "pair", !.commit = commit])
  /\ UNCHANGED <<time, content, rows, next, restarts, exposed>>

\* A run stores its snapshot first, then the evidence that attaches to it.
BeginRun(a, commit, files) ==
  /\ act[a].pc = "idle"
  /\ Insert("run", commit, {}, 0, 0)
  /\ Become(a, [Idle EXCEPT !.pc = "put", !.tab = "run", !.own = next, !.files = files,
                            !.todo = files])
  /\ UNCHANGED <<time, content, restarts, exposed>>

\* A put inserts the body or moves its stamp to now.
PutBody(a, b) ==
  /\ act[a].pc = "put" /\ b \in act[a].todo
  /\ content' = [content EXCEPT ![b] = time]
  /\ exposed' = IF \E s \in Everyone : b \in act[s].dead THEN exposed \cup {b} ELSE exposed
  /\ act' = [act EXCEPT ![a].todo = @ \ {b}, ![a].since = IF @ = 0 THEN time ELSE @]
  /\ UNCHANGED <<time, rows, next, restarts>>

\* The row of a set or a bundle lands when its bodies are in the pool.  The set
\* of a generate is followed by its report.
InsertVersion(a) ==
  /\ act[a].pc = "put" /\ act[a].todo = {} /\ act[a].tab \in {"scenarios", "setup"}
  /\ Insert(act[a].tab, act[a].commit, act[a].files, 0, 0)
  /\ Become(a, [TrimOf(Idle, act[a].tab, <<>>) EXCEPT !.commit = act[a].commit, !.own = next,
                !.then = IF act[a].tab = "scenarios" THEN "pair" ELSE "idle"])
  /\ UNCHANGED <<time, content, restarts, exposed>>

\* The report is paired with the newest set at its commit, read before it lands.
ReadPair(a) ==
  /\ act[a].pc = "pair"
  /\ LET sets == {r \in Of("scenarios") : r.commit = act[a].commit}
     IN act' = [act EXCEPT ![a].pc = "report", ![a].cut = IF sets = {} THEN 0 ELSE Newest(sets).id]
  /\ UNCHANGED <<time, content, rows, next, restarts, exposed>>

InsertReport(a) ==
  /\ act[a].pc = "report"
  /\ Insert("report", act[a].commit, {}, act[a].cut, 0)
  /\ Become(a, [TrimOf(Idle, "report", <<>>) EXCEPT !.commit = act[a].commit,
                !.then = IF act[a].own = 0 THEN "idle" ELSE "evidence"])
  /\ UNCHANGED <<time, content, restarts, exposed>>

\* The transcripts the generate left, if it left any.
BeginEvidence(a, files) ==
  /\ act[a].pc = "evidence"
  /\ Become(a, IF files = {} THEN Idle
               ELSE [Idle EXCEPT !.pc = "put", !.tab = "report", !.commit = act[a].commit,
                                 !.files = files, !.todo = files])
  /\ UNCHANGED <<time, content, rows, next, restarts, exposed>>

\* They attach to the newest report at the commit; without one the save fails.
ReadTarget(a) ==
  /\ act[a].pc = "put" /\ act[a].todo = {} /\ act[a].tab = "report"
  /\ LET reports == {r \in Of("report") : r.commit = act[a].commit}
     IN Become(a, IF reports = {} THEN Idle
                  ELSE [act[a] EXCEPT !.pc = "attach", !.own = Newest(reports).id])
  /\ UNCHANGED <<time, content, rows, next, restarts, exposed>>

\* One statement merges the entries onto the row, if it is there.
Attach(a) ==
  /\ \/ act[a].pc = "attach"
     \/ act[a].pc = "put" /\ act[a].todo = {} /\ act[a].tab = "run"
  /\ rows' = {IF r.id = act[a].own THEN [r EXCEPT !.files = @ \cup act[a].files] ELSE r : r \in rows}
  /\ Become(a, Idle)
  /\ UNCHANGED <<time, content, next, restarts, exposed>>

-------------------------------------------------------------------------------
\* A sweep that has read a table and does not hold a body live may still take it.
Passed(x, tab) == x.pc \in {"gc", "delete"} \/ (x.pc = "live" /\ tab \notin {x.read[i] : i \in DOMAIN x.read})
Threatened(tab, b) == b \notin Stored \/ \E s \in Everyone : Passed(act[s], tab) /\ b \notin act[s].live

\* A rollback reads the version, and inserts a new one with the same files: the
\* bodies are not put again.
BeginRestore(a, r) ==
  /\ act[a].pc = "idle"
  /\ Become(a, [Idle EXCEPT !.pc = "copy", !.commit = r.commit, !.files = r.files, !.from = r.id])
  /\ UNCHANGED <<time, content, rows, next, restarts, exposed>>

CopySet(a) ==
  /\ act[a].pc = "copy"
  /\ Insert("scenarios", act[a].commit, act[a].files, 0, act[a].from)
  /\ exposed' = exposed \cup {b \in act[a].files : Threatened("scenarios", b)}
  /\ Become(a, [TrimOf(Idle, "scenarios", <<>>) EXCEPT !.own = next, !.from = act[a].from,
                                                       !.then = "birth"])
  /\ UNCHANGED <<time, content, restarts>>

\* Then the newest report paired with the version it copied, if there is one.
ReadBirth(a) ==
  /\ act[a].pc = "birth"
  /\ LET reports == {r \in Of("report") : r.pair = act[a].from}
     IN Become(a, IF reports = {} THEN Idle
                  ELSE LET r == Newest(reports)
                       IN [act[a] EXCEPT !.pc = "again", !.commit = r.commit, !.files = r.files,
                                         !.from = r.id])
  /\ UNCHANGED <<time, content, rows, next, restarts, exposed>>

CopyReport(a) ==
  /\ act[a].pc = "again"
  /\ Insert("report", act[a].commit, act[a].files, act[a].own, act[a].from)
  /\ exposed' = exposed \cup {b \in act[a].files : Threatened("report", b)}
  /\ Become(a, TrimOf(Idle, "report", <<>>))
  /\ UNCHANGED <<time, content, restarts>>

-------------------------------------------------------------------------------
\* Mutant of Beyond: one version too many.
BeyondOneLess(tab) == {r.id : r \in {r \in Of(tab) : Cardinality({s \in Of(tab) : s.id > r.id}) >= Keep - 1}}
Beyond(tab) == {r.id : r \in {r \in Of(tab) : Cardinality({s \in Of(tab) : s.id > r.id}) >= Keep}}

SelectTrim(a) ==
  /\ act[a].pc = "trim"
  /\ Become(a, IF Beyond(act[a].tab) = {} THEN AfterTrim(act[a])
               ELSE [act[a] EXCEPT !.pc = "cut", !.trim = Beyond(act[a].tab)])
  /\ UNCHANGED <<time, content, rows, next, restarts, exposed>>

DeleteTrim(a) ==
  /\ act[a].pc = "cut"
  /\ LET gone == {r \in rows : r.id \in act[a].trim /\ r.made + KeepFor < time}
     IN /\ rows' = rows \ gone
        /\ Become(a, AfterTrim([act[a] EXCEPT !.took = @ \/ gone # {}]))
  /\ UNCHANGED <<time, content, next, restarts, exposed>>

\* The bodies the rows of one table point into, table by table.
ReadLive(a) ==
  /\ act[a].pc = "live" /\ act[a].read # <<>>
  /\ act' = [act EXCEPT ![a].live = @ \cup UNION {r.files : r \in Of(Head(act[a].read))},
                        ![a].since = IF @ = 0 THEN time ELSE @,
                        ![a].read = Tail(@),
                        ![a].pc = IF Len(act[a].read) = 1 THEN "gc" ELSE "live"]
  /\ UNCHANGED <<time, content, rows, next, restarts, exposed>>

AfterPool(x) == IF x.pool = "guard"
                THEN [x EXCEPT !.pc = "gc", !.pool = "evidence", !.dead = {}, !.since = 0]
                ELSE Return(x)

\* The cutoff is of the moment the first pool is read.
SelectDead(a) ==
  /\ act[a].pc = "gc"
  /\ LET cut == IF act[a].pool = "guard" THEN time ELSE act[a].cut
         pool == IF act[a].pool = "guard" THEN GuardBodies ELSE Evidence
         dead == {b \in pool \cap Stored : content[b] + Grace < cut} \ act[a].live
         x == [act[a] EXCEPT !.cut = cut]
     IN Become(a, IF dead = {} THEN AfterPool(x) ELSE [x EXCEPT !.pc = "delete", !.dead = dead, !.since = 0])
  /\ UNCHANGED <<time, content, rows, next, restarts, exposed>>

\* By sha alone: the stamp is not looked at again.
DeleteDead(a) ==
  /\ act[a].pc = "delete"
  /\ content' = [b \in Bodies |-> IF b \in act[a].dead THEN 0 ELSE content[b]]
  /\ Become(a, AfterPool(act[a]))
  /\ UNCHANGED <<time, rows, next, restarts, exposed>>

-------------------------------------------------------------------------------
\* The process ends where it is and boots again; the boot sweeps everything.
Restart ==
  /\ restarts < MaxRestarts /\ restarts' = restarts + 1
  /\ act' = [a \in Everyone |-> IF a = "boot" THEN [Idle EXCEPT !.pc = "repos"] ELSE Idle]
  /\ UNCHANGED <<time, content, rows, next, exposed>>

\* Mutant of SweepRepo: the boot sweeps the pools only when it trimmed, as a save does.
SweepRepoAsASave ==
  /\ act["boot"].pc = "repos"
  /\ Become("boot", IF \A tab \in Series : Of(tab) = {} THEN Idle
                    ELSE TrimOf(Idle, "report", <<"scenarios", "setup">>))
  /\ UNCHANGED <<time, content, rows, next, restarts, exposed>>

\* A repository is swept when one of its series has a version, taken or not.
SweepRepo ==
  /\ act["boot"].pc = "repos"
  /\ Become("boot", IF \A tab \in Series : Of(tab) = {} THEN Idle
                    ELSE TrimOf([Idle EXCEPT !.took = TRUE], "report", <<"scenarios", "setup">>))
  /\ UNCHANGED <<time, content, rows, next, restarts, exposed>>

Tick ==
  /\ time < MaxTime /\ time' = time + 1
  /\ \A a \in Everyone : act[a].since > 0 => time < act[a].since + Stall
  /\ UNCHANGED <<content, rows, act, next, restarts, exposed>>

Begin(a) ==
  \/ \E tab \in {"scenarios", "setup"} \cap Work, c \in Commits, files \in SUBSET GuardBodies \ {{}} :
       BeginSave(a, tab, c, files)
  \/ "blocked" \in Work /\ \E c \in Commits : BeginBlocked(a, c)
  \/ "run" \in Work /\ \E c \in Commits, files \in SUBSET Evidence : BeginRun(a, c, files)
  \/ "restore" \in Work /\ \E r \in Of("scenarios") : BeginRestore(a, r)

Proceed(a) ==
  \/ \E b \in act[a].todo : PutBody(a, b)
  \/ \E files \in SUBSET Evidence : BeginEvidence(a, files)
  \/ InsertVersion(a) \/ ReadPair(a) \/ InsertReport(a) \/ ReadTarget(a) \/ Attach(a)
  \/ CopySet(a) \/ ReadBirth(a) \/ CopyReport(a)
  \/ SelectTrim(a) \/ DeleteTrim(a) \/ ReadLive(a) \/ SelectDead(a) \/ DeleteDead(a)

Next == Tick \/ Restart \/ SweepRepo \/ (\E a \in Actors : Begin(a)) \/ (\E a \in Everyone : Proceed(a))

Spec == Init /\ [][Next]_vars
FairSpec == Spec /\ WF_vars(SweepRepo) /\ \A a \in Everyone : WF_vars(Proceed(a))

-------------------------------------------------------------------------------
RowSet == [id : 1 .. MaxRows, tab : Tables, commit : Commits, files : SUBSET Bodies,
           pair : 0 .. MaxRows, from : 0 .. MaxRows, made : 1 .. MaxTime]

\* The variables hold what the tables can.
TypeOK ==
  /\ time \in 1 .. MaxTime
  /\ content \in [Bodies -> 0 .. MaxTime]
  /\ rows \subseteq RowSet
  /\ \A r \in rows, s \in rows : r.id = s.id => r = s
  /\ restarts \in 0 .. MaxRestarts /\ next \in 1 .. MaxRows + 1
  /\ exposed \subseteq Bodies

\* A version never points into nothing (`forEachBody` would fail the load),
\* but for bodies that a sweep had already given up when they were put again or
\* a rollback brought them back.
LostOnlyInTheGap == \A r \in rows : r.files \subseteq Stored \cup exposed

\* The promise in full (content-store.ts, `put` and `gc`).
BodiesKept == \A r \in rows : r.files \subseteq Stored

\* A version goes when it is neither among the newest nor young, as the series
\* stands when it goes: not as it stood when the trim read it.  Runs stay.
NewestKept ==
  [][\A r \in rows : (\A s \in rows' : s.id # r.id) =>
       /\ r.tab \in Series
       /\ Cardinality({s \in Of(r.tab) : s.id > r.id}) >= Keep
       /\ r.made + KeepFor < time]_vars

\* What nothing references when a boot comes to sweep its repository goes, or
\* is in use again: an orphan outlives no boot.
Orphan(b) == /\ b \in Stored /\ content[b] + Grace < time
             /\ b \notin UNION {r.files : r \in rows}
OrphanGoes ==
  \A b \in GuardBodies :
    (act["boot"].pc = "repos" /\ Orphan(b) /\ \E tab \in Series : Of(tab) # {}) ~> ~Orphan(b)
===============================================================================
