--------------------------- MODULE JobRunnerProofs ---------------------------
(***************************************************************************)
(* What holds of JobRunner for every set of jobs, workers, processes and   *)
(* callers: its type, and the single flight of rows.  And what one process *)
(* gives on top, proved from a strengthening of single flight.             *)
(***************************************************************************)
EXTENDS JobRunner, TLAPS

\* Every step is one of the handlers' steps; proofs go through them one by one.
USE DEF ActiveStatus, Outcomes, Verdicts, Signals

LEMMA VerdictType ==
  ASSUME NEW how \in Hows, NEW signal \in Signals
  PROVE  Verdict(how, signal) \in Verdicts \cup {"none"}
  BY DEF Hows, Verdict

LEMMA InitTypeOK == Init => TypeOK
  BY BoundAssumption DEF Init, TypeOK, Idle, NoEnq, NoCancel, Runs, Enqs, Cancels

LEMMA EnqueueTypeOK ==
  ASSUME TypeOK, NEW e \in Enqueuers, EnqueueStep(e)
  PROVE  TypeOK'
  <1>1. ASSUME NEW j \in JobIds, Create(e, j) PROVE TypeOK'
    BY <1>1 DEF TypeOK, Enqs, Create
  <1>2. ASSUME NEW j \in JobIds, MarkRequeued(e, j) PROVE TypeOK'
    BY <1>2, BoundAssumption DEF TypeOK, Enqs, MarkRequeued
  <1>3. CASE AddJob(e)
    BY <1>3 DEF TypeOK, Enqs, AddJob, NoEnq
  <1>4. CASE AddJobFails(e)
    BY <1>4 DEF TypeOK, Enqs, AddJobFails
  <1>5. CASE UndoEnqueue(e)
    BY <1>5 DEF TypeOK, Enqs, UndoEnqueue, NoEnq
  <1>6. CASE SupersedePaused(e)
    BY <1>6 DEF TypeOK, Enqs, SupersedePaused, NoEnq
  <1>. QED BY <1>1, <1>2, <1>3, <1>4, <1>5, <1>6 DEF EnqueueStep

\* A step of one run that keeps its type keeps the type of all of them.
LEMMA RunUpdate ==
  ASSUME TypeOK, NEW w \in Workers, NEW r \in Runs,
         r.pc # "idle" => r.job \in JobIds, r.pc \in {"settle", "rewrite"} => r.verdict # "none",
         run' = [run EXCEPT ![w] = r]
  PROVE  /\ run' \in [Workers -> Runs]
         /\ \A v \in Workers : /\ run'[v].pc # "idle" => run'[v].job \in JobIds
                               /\ run'[v].pc \in {"settle", "rewrite"} => run'[v].verdict # "none"
  BY DEF TypeOK

LEMMA AbortedType ==
  ASSUME TypeOK, NEW w \in Workers, NEW reason \in Signals, run' = Aborted(w, reason)
  PROVE  /\ run' \in [Workers -> Runs]
         /\ \A v \in Workers : /\ run'[v].pc # "idle" => run'[v].job \in JobIds
                               /\ run'[v].pc \in {"settle", "rewrite"} => run'[v].verdict # "none"
  <1>. DEFINE r == [run[w] EXCEPT !.signal = reason]
  <1>1. /\ r \in Runs /\ r.job = run[w].job
        /\ r.pc = run[w].pc /\ r.verdict = run[w].verdict
    BY DEF TypeOK, Runs
  <1>2. run' = [run EXCEPT ![w] = r] \/ run' = run
    BY DEF Aborted
  <1>. HIDE DEF r
  <1>. QED BY <1>1, <1>2, RunUpdate DEF TypeOK

\* An abort changes the signal of one run, and nothing else.
LEMMA AbortedKeeps ==
  ASSUME TypeOK, NEW w \in Workers, NEW reason, run' = Aborted(w, reason)
  PROVE  \A v \in Workers : /\ run'[v].pc = run[v].pc /\ run'[v].job = run[v].job
                            /\ run'[v].verdict = run[v].verdict
                            /\ run'[v].signal \in {run[v].signal, reason}
  BY DEF TypeOK, Runs, Aborted

LEMMA WorkerTypeOK ==
  ASSUME TypeOK, NEW w \in Workers, WorkerStep(w)
  PROVE  TypeOK'
  <1>0. HomeOf[w] \in Procs /\ run[w] \in Runs
    BY HomeAssumption DEF TypeOK
  <1>1. ASSUME NEW k \in Keys, Claim(w, k) PROVE TypeOK'
    <2>. DEFINE r == [Idle EXCEPT !.pc = "claimed", !.job = ticket[k]]
    <2>1. ticket[k] \in JobIds
      BY <1>1 DEF TypeOK, Claim
    <2>2. r \in Runs /\ r.job \in JobIds /\ r.pc = "claimed" /\ run' = [run EXCEPT ![w] = r]
      BY <1>1, <2>1 DEF Claim, Idle, Runs
    <2>3. localRuns' \in [Procs -> [JobIds -> Workers \cup {None}]]
      BY <1>0, <1>1, <2>1 DEF TypeOK, Claim
    <2>4. lane' \in [Orgs -> Workers \cup {None, Abandoned}]
      BY <1>1, <2>1 DEF TypeOK, Claim
    <2>5. ticket' \in [Keys -> JobIds \cup {None}]
      BY <1>1 DEF TypeOK, Claim
    <2>6. UNCHANGED <<status, proc, enq, cancel, restarts, resumes>>
      BY <1>1 DEF Claim
    <2>. HIDE DEF r
    <2>. QED BY <2>2, <2>3, <2>4, <2>5, <2>6, RunUpdate DEF TypeOK
  <1>2. CASE MarkRunning(w)
    <2>1. PICK pc \in {"body", "unwind"} : run' = [run EXCEPT ![w].pc = pc]
      BY <1>2 DEF MarkRunning
    <2>2. [run[w] EXCEPT !.pc = pc] \in Runs /\ run[w].job \in JobIds
      BY <1>0, <1>2 DEF TypeOK, MarkRunning, Runs
    <2>3. status' \in [JobIds -> {"absent", "paused"} \cup ActiveStatus \cup Outcomes]
      BY <1>2 DEF TypeOK, MarkRunning
    <2>4. UNCHANGED <<ticket, lane, localRuns, proc, enq, cancel, restarts, resumes>>
      BY <1>2 DEF MarkRunning
    <2>. QED BY <2>1, <2>2, <2>3, <2>4, RunUpdate DEF TypeOK, Runs
  <1>4. CASE MarkSettled(w)
    <2>0. PICK pc \in {"notify", "unwind"} : run' = [run EXCEPT ![w].pc = pc]
      BY <1>4 DEF MarkSettled
    <2>1. [run[w] EXCEPT !.pc = pc] \in Runs /\ run[w].job \in JobIds
      BY <1>0, <1>4 DEF TypeOK, MarkSettled, Runs
    <2>2. run[w].verdict \in Verdicts
      BY <1>0, <1>4 DEF TypeOK, MarkSettled, Runs
    <2>3. status' \in [JobIds -> {"absent", "paused"} \cup ActiveStatus \cup Outcomes]
      BY <1>4, <2>2 DEF TypeOK, MarkSettled
    <2>4. /\ run' = [run EXCEPT ![w] = [run[w] EXCEPT !.pc = pc]]
          /\ UNCHANGED <<ticket, lane, localRuns, proc, enq, cancel, restarts, resumes>>
      BY <1>4, <2>0 DEF MarkSettled
    <2>. QED BY <2>1, <2>3, <2>4, RunUpdate DEF TypeOK, Runs
  <1>5. CASE Finish(w)
    <2>1. Idle \in Runs /\ Idle.pc = "idle" /\ run[w].job \in JobIds
      BY <1>5 DEF TypeOK, Finish, Idle, Runs
    <2>2. localRuns' \in [Procs -> [JobIds -> Workers \cup {None}]]
      BY <1>0, <1>5, <2>1 DEF TypeOK, Finish
    <2>3. lane' \in [Orgs -> Workers \cup {None, Abandoned}]
      BY <1>5 DEF TypeOK, Finish
    <2>. QED BY <1>5, <2>1, <2>2, <2>3, RunUpdate DEF TypeOK, Finish
  <1>7. ASSUME NEW how \in Hows, EndBody(w, how) PROVE TypeOK'
    <2>. DEFINE verdict == Verdict(how, run[w].signal)
                pc == IF verdict = "none" THEN "unwind" ELSE "settle"
    <2>1. verdict \in Verdicts \cup {"none"}
      BY <1>0, VerdictType DEF Runs
    <2>2. run' = [run EXCEPT ![w] = [run[w] EXCEPT !.pc = pc, !.verdict = verdict]]
      BY <1>0, <1>7 DEF EndBody, TypeOK
    <2>. DEFINE r == [run[w] EXCEPT !.pc = pc, !.verdict = verdict]
    <2>3. /\ r \in Runs /\ r.job \in JobIds /\ run' = [run EXCEPT ![w] = r]
          /\ r.pc \in {"settle", "rewrite"} => r.verdict # "none"
      BY <1>0, <1>7, <2>1, <2>2 DEF TypeOK, EndBody, Runs
    <2>4. UNCHANGED <<status, ticket, lane, localRuns, proc, enq, cancel, restarts, resumes>>
      BY <1>7 DEF EndBody
    <2>. HIDE DEF r
    <2>. QED BY <2>3, <2>4, RunUpdate DEF TypeOK
  <1>8. CASE Fail(w) \/ AbortForShutdown(w)
    BY <1>8, AbortedType DEF TypeOK, Fail, AbortForShutdown
  <1>9. CASE Notify(w)
    <2>1. [run[w] EXCEPT !.pc = "unwind"] \in Runs /\ run[w].job \in JobIds
      BY <1>0, <1>9 DEF TypeOK, Notify, Runs
    <2>2. /\ run' = [run EXCEPT ![w] = [run[w] EXCEPT !.pc = "unwind"]]
          /\ UNCHANGED <<status, ticket, lane, localRuns, proc, enq, cancel, restarts, resumes>>
      BY <1>9 DEF Notify
    <2>. QED BY <2>1, <2>2, RunUpdate DEF TypeOK, Runs
  <1>10. CASE NotifyFails(w)
    <2>. DEFINE verdict == Verdict("throws", run[w].signal)
                pc == IF verdict = "none" THEN "unwind" ELSE "rewrite"
    <2>1. verdict \in Verdicts \cup {"none"}
      BY <1>0, VerdictType DEF Hows, Runs
    <2>2. run' = [run EXCEPT ![w] = [run[w] EXCEPT !.pc = pc, !.verdict = verdict]]
      BY <1>0, <1>10 DEF NotifyFails, TypeOK
    <2>. DEFINE r == [run[w] EXCEPT !.pc = pc, !.verdict = verdict]
    <2>3. /\ r \in Runs /\ r.job \in JobIds /\ run' = [run EXCEPT ![w] = r]
          /\ r.pc \in {"settle", "rewrite"} => r.verdict # "none"
      BY <1>0, <1>10, <2>1, <2>2 DEF TypeOK, NotifyFails, Runs
    <2>4. UNCHANGED <<status, ticket, lane, localRuns, proc, enq, cancel, restarts, resumes>>
      BY <1>10 DEF NotifyFails
    <2>. HIDE DEF r
    <2>. QED BY <2>3, <2>4, RunUpdate DEF TypeOK
  <1>. QED BY <1>1, <1>2, <1>4, <1>5, <1>7, <1>8, <1>9, <1>10 DEF WorkerStep

LEMMA CancelTypeOK ==
  ASSUME TypeOK, NEW c \in Cancellers, CancelStep(c)
  PROVE  TypeOK'
  <1>1. ASSUME NEW j \in JobIds, Get(c, j) PROVE TypeOK'
    BY <1>1 DEF TypeOK, Cancels, Get, Active
  <1>2. CASE Decide(c)
    <2>1. cancel[c].job \in JobIds /\ HomeOf[c] \in Procs
      BY <1>2, HomeAssumption DEF TypeOK, Cancels, Decide
    <2>2. localRuns[HomeOf[c]][cancel[c].job] \in Workers \cup {None}
      BY <2>1 DEF TypeOK
    <2>. DEFINE w == localRuns[HomeOf[c]][cancel[c].job]
    <2>3. /\ cancel' \in [Cancellers -> Cancels]
          /\ \A d \in Cancellers : cancel'[d].pc # "idle" => cancel'[d].job \in JobIds
      <3>1. /\ NoCancel \in Cancels /\ NoCancel.pc = "idle"
            /\ \A pc \in {"wait", "mark"} :
                 LET r == [cancel[c] EXCEPT !.pc = pc] IN r \in Cancels /\ r.job = cancel[c].job
        <4>1. cancel[c] \in Cancels
          BY DEF TypeOK
        <4>. QED BY <2>1, <4>1 DEF Cancels, NoCancel
      <3>2. PICK r \in Cancels : /\ cancel' = [cancel EXCEPT ![c] = r]
                                 /\ r.pc # "idle" => r.job \in JobIds
        BY <1>2, <2>1, <3>1 DEF Decide
      <3>. QED BY <3>2 DEF TypeOK
    <2>4. UNCHANGED <<status, ticket, lane, localRuns, proc, enq, restarts, resumes>>
      BY <1>2 DEF Decide
    <2>5. CASE w # None
      <3>1. w \in Workers
        BY <2>2, <2>5
      <3>2. run' = Aborted(w, "cancel")
        BY <1>2, <2>5 DEF Decide
      <3>. HIDE DEF w
      <3>. QED BY <2>3, <2>4, <3>1, <3>2, AbortedType DEF TypeOK
    <2>6. CASE w = None
      <3>1. UNCHANGED run
        BY <1>2, <2>6 DEF Decide
      <3>. QED BY <2>3, <2>4, <3>1 DEF TypeOK
    <2>. QED BY <2>5, <2>6
  <1>3. CASE EndWait(c)
    BY <1>3 DEF TypeOK, Cancels, EndWait
  <1>4. CASE MarkCancelled(c)
    BY <1>4 DEF TypeOK, Cancels, MarkCancelled, NoCancel
  <1>. QED BY <1>1, <1>2, <1>3, <1>4 DEF CancelStep

LEMMA ProcessTypeOK ==
  ASSUME TypeOK, NEW p \in Procs, ProcessStep(p)
  PROVE  TypeOK'
  <1>0. ASSUME Gone(p), restarts' \in 0 .. MaxRestarts PROVE TypeOK'
    BY <1>0 DEF TypeOK, Runs, Enqs, Cancels, Gone, Idle, NoEnq, NoCancel
  <1>1. CASE Crash(p)
    BY <1>0, <1>1, BoundAssumption DEF TypeOK, Cancels, Crash
  <1>2. CASE BeginStop(p)
    BY <1>2, BoundAssumption DEF TypeOK, Cancels, BeginStop
  <1>3. CASE Stopped(p)
    BY <1>0, <1>3 DEF TypeOK, Cancels, Stopped
  <1>4. CASE InterruptOrphaned(p)
    BY <1>4 DEF TypeOK, Cancels, InterruptOrphaned
  <1>5. CASE StartWorker(p)
    BY <1>5 DEF TypeOK, Cancels, StartWorker
  <1>. QED BY <1>1, <1>2, <1>3, <1>4, <1>5 DEF ProcessStep

LEMMA NextTypeOK == TypeOK /\ [Next]_vars => TypeOK'
  <1> SUFFICES ASSUME TypeOK, [Next]_vars PROVE TypeOK'
    OBVIOUS
  <1>1. ASSUME NEW j \in JobIds, CancelPaused(j) PROVE TypeOK'
    BY <1>1 DEF TypeOK, CancelPaused
  <1>2. CASE UNCHANGED vars
    BY <1>2 DEF TypeOK, vars
  <1>. QED BY <1>1, <1>2, EnqueueTypeOK, WorkerTypeOK, CancelTypeOK, ProcessTypeOK DEF Next

\* Every reachable state has its type, for every value of the constants.
THEOREM TypeCorrect == Spec => []TypeOK
  <1>1. Init => TypeOK
    BY InitTypeOK
  <1>2. TypeOK /\ [Next]_vars => TypeOK'
    BY NextTypeOK
  <1>. QED BY <1>1, <1>2, PTL DEF Spec

-------------------------------------------------------------------------------
\* A step after which only rows active before are active keeps single flight.
LEMMA OnlyShrinks ==
  ASSUME SingleFlight, \A j \in JobIds : status'[j] \in ActiveStatus => Active(j)
  PROVE  SingleFlight'
  BY DEF SingleFlight, Active, Flight

\* The row that becomes queued is the only one of its key: it asked first.
LEMMA TakesFreeKey ==
  ASSUME TypeOK, SingleFlight, NEW j \in JobIds, ~KeyHeld(j),
         status' = [status EXCEPT ![j] = "queued"]
  PROVE  SingleFlight'
  <1>. SUFFICES ASSUME NEW i \in JobIds, NEW k \in JobIds,
                       status'[i] \in ActiveStatus, status'[k] \in ActiveStatus,
                       Flight(i) = Flight(k)
                PROVE  i = k
    BY DEF SingleFlight, Active, Flight
  <1>1. \A x \in JobIds \ {j} : status'[x] = status[x]
    BY DEF TypeOK
  <1>2. CASE i # j /\ k # j
    BY <1>1, <1>2 DEF SingleFlight, Active
  <1>3. CASE i = j /\ k # j
    BY <1>1, <1>3 DEF KeyHeld, Active
  <1>4. CASE i # j /\ k = j
    BY <1>1, <1>4 DEF KeyHeld, Active
  <1>. QED BY <1>2, <1>3, <1>4

LEMMA NextSingleFlight == TypeOK /\ SingleFlight /\ [Next]_vars => SingleFlight'
  <1>. SUFFICES ASSUME TypeOK, SingleFlight, [Next]_vars PROVE SingleFlight'
    OBVIOUS
  <1>0. ASSUME UNCHANGED status PROVE SingleFlight'
    BY <1>0, OnlyShrinks DEF Active
  <1>1. ASSUME NEW e \in Enqueuers, EnqueueStep(e) PROVE SingleFlight'
    <2>1. ASSUME NEW j \in JobIds, Create(e, j) \/ MarkRequeued(e, j) PROVE SingleFlight'
      BY <2>1, TakesFreeKey DEF Create, MarkRequeued
    <2>2. CASE AddJob(e) \/ AddJobFails(e)
      BY <2>2, <1>0 DEF AddJob, AddJobFails
    <2>3. CASE UndoEnqueue(e)
      BY <2>3, OnlyShrinks DEF TypeOK, UndoEnqueue, Active
    <2>4. CASE SupersedePaused(e)
      BY <2>4, OnlyShrinks DEF SupersedePaused, Active
    <2>. QED BY <1>1, <2>1, <2>2, <2>3, <2>4 DEF EnqueueStep
  <1>2. ASSUME NEW w \in Workers, WorkerStep(w) PROVE SingleFlight'
    <2>1. CASE MarkRunning(w)
      BY <2>1, OnlyShrinks DEF TypeOK, MarkRunning, Active
    <2>2. CASE MarkSettled(w)
      <3>1. run[w].verdict \in Verdicts
        BY <2>2 DEF TypeOK, MarkSettled, Runs
      <3>. QED BY <2>2, <3>1, OnlyShrinks DEF TypeOK, MarkSettled, Active
    <2>3. ASSUME UNCHANGED status PROVE SingleFlight'
      BY <2>3, <1>0
    <2>. QED BY <1>2, <2>1, <2>2, <2>3
             DEF WorkerStep, Claim, Fail, Notify, NotifyFails, Finish, AbortForShutdown, EndBody
  <1>3. ASSUME NEW c \in Cancellers, CancelStep(c) PROVE SingleFlight'
    <2>1. CASE MarkCancelled(c)
      BY <2>1, OnlyShrinks DEF TypeOK, MarkCancelled, Active
    <2>. QED BY <1>3, <2>1, <1>0 DEF CancelStep, Get, Decide, EndWait
  <1>4. ASSUME NEW p \in Procs, ProcessStep(p) PROVE SingleFlight'
    <2>1. CASE InterruptOrphaned(p)
      BY <2>1, OnlyShrinks DEF InterruptOrphaned, Active
    <2>. QED BY <1>4, <2>1, <1>0 DEF ProcessStep, Crash, BeginStop, Stopped, StartWorker, Gone
  <1>5. ASSUME NEW j \in JobIds, CancelPaused(j) PROVE SingleFlight'
    BY <1>5, OnlyShrinks DEF TypeOK, CancelPaused, Active
  <1>6. CASE UNCHANGED vars
    BY <1>6, <1>0 DEF vars
  <1>. QED BY <1>1, <1>2, <1>3, <1>4, <1>5, <1>6 DEF Next

\* No two active rows of one workspace's key, with any number of processes,
\* callers, cancels, crashes and resumes.
THEOREM RowsSingleFlight == Spec => []SingleFlight
  <1>1. Init => SingleFlight
    BY DEF Init, SingleFlight, Active
  <1>2. TypeOK /\ SingleFlight /\ [Next]_vars => SingleFlight'
    BY NextSingleFlight
  <1>. QED BY <1>1, <1>2, TypeCorrect, PTL DEF Spec

-------------------------------------------------------------------------------
\* From here on, one process: RowsInv, part by part.
LEMMA InitRowsInv == Init => RowsInv
  BY DEF Init, RowsInv, SingleFlight, OneToken, RowsFollow, RunsFollow, OneExecution, ProcessesHold,
         Claimed, Pending, Executing, Succeeded, Heeding, Active, Serving, Idle, NoEnq

\* A run's verdict changes at the end of its body and when its notification fails.
LEMMA NextRunsFollow == TypeOK /\ RowsInv /\ [Next]_vars => RunsFollow'
  <1>. SUFFICES ASSUME TypeOK, RowsInv, [Next]_vars PROVE RunsFollow'
    OBVIOUS
  <1>0. RunsFollow
    BY DEF RowsInv
  <1>1. ASSUME UNCHANGED run PROVE RunsFollow'
    BY <1>0, <1>1 DEF RunsFollow, Lost
  <1>2. ASSUME NEW w \in Workers, NEW r \in Runs, run' = [run EXCEPT ![w] = r],
               r.pc = "claimed" => r.verdict = "none",
               r.pc = "notify" => r.verdict = "succeeded",
               r.pc = "rewrite" => r.verdict \in {"failed"} \cup Lost,
               r.signal = "cancel" => Lost # {}
        PROVE  RunsFollow'
    BY <1>0, <1>2 DEF TypeOK, RunsFollow, Lost
  <1>3. ASSUME NEW w \in Workers, NEW reason \in Signals, reason = "cancel" => Lost # {},
               run' = Aborted(w, reason)
        PROVE  RunsFollow'
    <2>1. \A v \in Workers : /\ run'[v].pc = run[v].pc /\ run'[v].verdict = run[v].verdict
                             /\ run'[v].signal \in {run[v].signal, reason}
      BY <1>3, AbortedKeeps
    <2>. QED BY <1>0, <1>3, <2>1 DEF RunsFollow, Lost
  <1>4. ASSUME NEW w \in Workers, WorkerStep(w) PROVE RunsFollow'
    <2>0. run[w] \in Runs /\ (run[w].signal = "cancel" => Lost # {})
      BY <1>0 DEF TypeOK, RunsFollow
    <2>1. ASSUME NEW k \in Keys, Claim(w, k) PROVE RunsFollow'
      <3>1. ticket[k] \in JobIds
        BY <2>1 DEF TypeOK, Claim
      <3>. QED BY <1>2, <2>1, <3>1 DEF Claim, Idle, Runs
    <2>2. CASE MarkRunning(w) \/ MarkSettled(w) \/ Notify(w)
      <3>1. PICK pc \in {"body", "unwind", "notify"} :
              /\ run' = [run EXCEPT ![w] = [run[w] EXCEPT !.pc = pc]]
              /\ pc = "notify" => run[w].verdict = "succeeded"
        BY <2>2 DEF MarkRunning, MarkSettled, Notify
      <3>. DEFINE r == [run[w] EXCEPT !.pc = pc]
      <3>2. /\ r \in Runs /\ r.pc = pc
            /\ r.verdict = run[w].verdict /\ r.signal = run[w].signal
        BY <2>0 DEF Runs
      <3>3. run' = [run EXCEPT ![w] = r]
        BY <3>1
      <3>. HIDE DEF r
      <3>. QED BY <1>2, <2>0, <3>1, <3>2, <3>3
    <2>3. CASE Finish(w)
      BY <1>2, <2>3 DEF Finish, Idle, Runs
    <2>4. CASE Fail(w) \/ AbortForShutdown(w)
      BY <1>3, <2>4 DEF Fail, AbortForShutdown
    <2>5. ASSUME NEW how \in Hows, NEW pc \in {"settle", "unwind", "rewrite"},
                 pc = "rewrite" => Verdict(how, run[w].signal) \in {"failed"} \cup Lost,
                 run' = [run EXCEPT ![w].pc = pc, ![w].verdict = Verdict(how, run[w].signal)]
          PROVE  RunsFollow'
      <3>. DEFINE r == [run[w] EXCEPT !.pc = pc, !.verdict = Verdict(how, run[w].signal)]
      <3>1. Verdict(how, run[w].signal) \in Verdicts \cup {"none"}
        BY <2>0, VerdictType DEF Runs
      <3>2. /\ r \in Runs /\ r.pc = pc
            /\ r.verdict = Verdict(how, run[w].signal) /\ r.signal = run[w].signal
        BY <2>0, <3>1 DEF Runs
      <3>3. run' = [run EXCEPT ![w] = r]
        BY <2>5 DEF TypeOK
      <3>. HIDE DEF r
      <3>4. /\ r.pc \notin {"claimed", "notify"}
            /\ r.pc = "rewrite" => r.verdict \in {"failed"} \cup Lost
            /\ r.signal = "cancel" => Lost # {}
        BY <2>0, <2>5, <3>2
      <3>. QED BY <1>2, <3>2, <3>3, <3>4
    <2>6. ASSUME NEW how \in Hows, EndBody(w, how) PROVE RunsFollow'
      BY <2>5, <2>6 DEF EndBody
    <2>7. CASE NotifyFails(w)
      <3>1. Verdict("throws", run[w].signal) \in {"none", "failed"} \cup Lost
        BY <2>0 DEF Runs, Verdict, Lost
      <3>. QED BY <2>5, <2>7, <3>1 DEF NotifyFails, Hows
    <2>. QED BY <1>4, <2>1, <2>2, <2>3, <2>4, <2>6, <2>7 DEF WorkerStep
  <1>5. ASSUME NEW c \in Cancellers, CancelStep(c) PROVE RunsFollow'
    <2>1. Lost # {}
      BY DEF Lost
    <2>2. CASE Decide(c)
      <3>1. CASE UNCHANGED run
        BY <1>1, <3>1
      <3>2. CASE \E w \in Workers : run' = Aborted(w, "cancel")
        BY <1>3, <2>1, <3>2
      <3>3. HomeOf[c] \in Procs /\ cancel[c].job \in JobIds
        BY <2>2, HomeAssumption DEF TypeOK, Cancels, Decide
      <3>4. localRuns[HomeOf[c]][cancel[c].job] \in Workers \cup {None}
        BY <3>3 DEF TypeOK
      <3>. QED BY <2>2, <3>1, <3>2, <3>4 DEF Decide
    <2>. QED BY <1>1, <1>5, <2>2 DEF CancelStep, Get, EndWait, MarkCancelled
  <1>6. ASSUME NEW p \in Procs, ProcessStep(p) PROVE RunsFollow'
    <2>1. ASSUME Gone(p) PROVE RunsFollow'
      BY <1>0, <2>1 DEF RunsFollow, Gone, Idle, Lost
    <2>. QED BY <1>1, <1>6, <2>1
         DEF ProcessStep, Crash, BeginStop, Stopped, InterruptOrphaned, StartWorker
  <1>. QED BY <1>1, <1>4, <1>5, <1>6 DEF Next, vars, EnqueueStep, Create, MarkRequeued, AddJob,
       AddJobFails, UndoEnqueue, SupersedePaused, CancelPaused

LEMMA EnqueueRows ==
  ASSUME TypeOK, RowsInv, NEW e \in Enqueuers, EnqueueStep(e)
  PROVE  OneToken' /\ RowsFollow' /\ OneExecution' /\ ProcessesHold'
  <1>. USE DEF Claimed, Pending, Executing, Succeeded, Heeding, Lost
  <1>1. ASSUME NEW j \in JobIds, Create(e, j) \/ MarkRequeued(e, j)
        PROVE  OneToken' /\ RowsFollow' /\ OneExecution' /\ ProcessesHold'
    <2>1. PICK r \in Enqs : /\ r.job = j /\ r.pc \in {"add", "readd"}
                            /\ enq' = [enq EXCEPT ![e] = r]
      BY <1>1 DEF Create, MarkRequeued, Enqs
    <2>2. /\ status[j] \in {"absent", "paused"} /\ Serving(HomeOf[e])
          /\ status' = [status EXCEPT ![j] = "queued"]
          /\ UNCHANGED <<ticket, run, proc>>
      BY <1>1 DEF Create, MarkRequeued
    <2>3. \A i \in JobIds : status'[i] = IF i = j THEN "queued" ELSE status[i]
      BY <2>2 DEF TypeOK
    <2>4. \A f \in Enqueuers : enq'[f] = IF f = e THEN r ELSE enq[f]
      BY <2>1 DEF TypeOK
    <2>5. \A f \in Enqueuers : Pending(f) => enq[f].job # j
      BY <2>2 DEF RowsInv, RowsFollow
    <2>6. /\ \A v \in Workers : Claimed(v) \/ Executing(v) \/ Succeeded(v) => run[v].job # j
          /\ \A k \in Keys : ticket[k] # j
      BY <2>2, NoneAssumption DEF RowsInv, RowsFollow
    <2>7. OneToken'
      BY <2>1, <2>2, <2>4, <2>5, <2>6 DEF RowsInv, OneToken
    <2>8. RowsFollow'
      BY <2>1, <2>2, <2>3, <2>4, <2>5, <2>6 DEF TypeOK, RowsInv, RowsFollow
    <2>9. OneExecution'
      BY <2>1, <2>2, <2>4, <2>6 DEF RowsInv, OneExecution
    <2>10. ProcessesHold'
      BY <2>2, <2>4 DEF RowsInv, ProcessesHold, Serving
    <2>. QED BY <2>7, <2>8, <2>9, <2>10
  <1>2. CASE AddJob(e)
    BY <1>2, NoneAssumption DEF TypeOK, RowsInv, OneToken, RowsFollow, OneExecution,
       ProcessesHold, AddJob, NoEnq, Serving
  <1>3. CASE AddJobFails(e)
    BY <1>3 DEF TypeOK, Enqs, RowsInv, OneToken, RowsFollow, OneExecution,
       ProcessesHold, AddJobFails, Serving
  <1>4. CASE UndoEnqueue(e)
    <2>1. /\ Pending(e) /\ enq[e].job \in JobIds /\ UNCHANGED <<ticket, run, proc>>
          /\ \A f \in Enqueuers : enq'[f] = IF f = e THEN NoEnq ELSE enq[f]
          /\ \A j \in JobIds \ {enq[e].job} : status'[j] = status[j]
          /\ status'[enq[e].job] \in Outcomes \cup {"paused"}
      BY <1>4 DEF TypeOK, RowsInv, RowsFollow, UndoEnqueue, Active
    <2>2. OneToken' /\ OneExecution' /\ ProcessesHold'
      BY <2>1 DEF RowsInv, OneToken, OneExecution, ProcessesHold, NoEnq, Serving
    <2>3. RowsFollow'
      <3>1. \A f \in Enqueuers \ {e} : Pending(f) => enq[f].job # enq[e].job
        BY <2>1 DEF RowsInv, OneToken
      <3>2. \A w \in Workers : Claimed(w) \/ Executing(w) => run[w].job # enq[e].job
        BY <2>1 DEF RowsInv, OneToken, OneExecution
      <3>3. \A k \in Keys : ticket[k] # enq[e].job
        BY <2>1 DEF RowsInv, OneToken
      <3>4. \A f \in Enqueuers : Pending(f)' => status'[enq'[f].job] \in {"queued"} \cup Lost
        BY <2>1, <3>1 DEF TypeOK, RowsInv, RowsFollow, NoEnq
      <3>5. \A k \in Keys : ticket'[k] # None => status'[ticket'[k]] \in Outcomes \cup {"queued"}
        BY <2>1, <3>3 DEF TypeOK, RowsInv, RowsFollow
      <3>6. \A w \in Workers : /\ Claimed(w)' => status'[run'[w].job] \in Outcomes \cup {"queued"}
                               /\ Executing(w)' => status'[run'[w].job] \in {"running"} \cup Lost
        BY <2>1, <3>2 DEF TypeOK, RowsInv, RowsFollow
      <3>7. \A w \in Workers : Succeeded(w)' => status'[run'[w].job] = "succeeded"
        BY <2>1 DEF TypeOK, RowsInv, RowsFollow
      <3>. QED BY <3>4, <3>5, <3>6, <3>7 DEF RowsFollow
    <2>. QED BY <2>2, <2>3
  <1>5. CASE SupersedePaused(e)
    BY <1>5 DEF TypeOK, RowsInv, OneToken, RowsFollow, OneExecution,
       ProcessesHold, SupersedePaused, NoEnq, Serving
  <1>. QED BY <1>1, <1>2, <1>3, <1>4, <1>5 DEF EnqueueStep

LEMMA WorkerRows ==
  ASSUME TypeOK, RowsInv, NEW w \in Workers, WorkerStep(w)
  PROVE  OneToken' /\ RowsFollow' /\ OneExecution' /\ ProcessesHold'
  <1>. USE DEF Claimed, Pending, Executing, Succeeded, Heeding, Lost
  <1>1. ASSUME NEW k \in Keys, Claim(w, k)
        PROVE  OneToken' /\ RowsFollow' /\ OneExecution' /\ ProcessesHold'
    BY <1>1, NoneAssumption DEF TypeOK, RowsInv, OneToken, RowsFollow, OneExecution,
       ProcessesHold, Claim, Idle, Serving
  <1>2. CASE MarkRunning(w)
    <2>1. PICK pc \in {"body", "unwind"} :
            /\ run' = [run EXCEPT ![w].pc = pc]
            /\ pc = "body" => status[run[w].job] = "queued"
            /\ status' = IF pc = "body" THEN [status EXCEPT ![run[w].job] = "running"] ELSE status
      BY <1>2 DEF MarkRunning
    <2>2. Claimed(w) /\ run[w].job \in JobIds /\ UNCHANGED <<ticket, enq, proc>>
      BY <1>2 DEF MarkRunning, TypeOK
    <2>3. \A v \in Workers : /\ run'[v].pc = IF v = w THEN pc ELSE run[v].pc
                             /\ run'[v].job = run[v].job /\ run'[v].signal = run[v].signal
      BY <2>1 DEF TypeOK, Runs
    <2>4. \A i \in JobIds : status'[i] = IF i = run[w].job /\ pc = "body" THEN "running" ELSE status[i]
      BY <2>1, <2>2 DEF TypeOK
    <2>5. OneToken'
      BY <2>2, <2>3 DEF RowsInv, OneToken
    <2>6. RowsFollow'
      <3>1. \A e \in Enqueuers : Pending(e) => status'[enq[e].job] \in {"queued"} \cup Lost
        BY <2>2, <2>4 DEF TypeOK, RowsInv, OneToken, RowsFollow
      <3>2. \A k \in Keys : ticket[k] # None => status'[ticket[k]] \in Outcomes \cup {"queued"}
        BY <2>2, <2>4 DEF TypeOK, RowsInv, OneToken, RowsFollow
      <3>3. \A v \in Workers \ {w} : /\ Claimed(v) => run[v].job # run[w].job
                                     /\ run[v].pc # "idle" => run[v].job \in JobIds
        BY <2>2 DEF TypeOK, RowsInv, OneToken
      <3>4. \A v \in Workers : Claimed(v)' => status'[run'[v].job] \in Outcomes \cup {"queued"}
        BY <2>2, <2>3, <2>4, <3>3 DEF RowsInv, RowsFollow
      <3>5. \A v \in Workers : Executing(v)' => status'[run'[v].job] \in {"running"} \cup Lost
        BY <2>2, <2>3, <2>4, <3>3 DEF RowsInv, RowsFollow
      <3>6. \A v \in Workers : Succeeded(v)' => status'[run'[v].job] = "succeeded"
        BY <2>1, <2>2, <2>3, <2>4, <3>3 DEF RowsInv, RowsFollow
      <3>. QED BY <2>2, <3>1, <3>2, <3>4, <3>5, <3>6 DEF RowsFollow
    <2>7. OneExecution'
      BY <2>1, <2>2, <2>3 DEF TypeOK, RowsInv, OneToken, RowsFollow, OneExecution
    <2>8. ProcessesHold'
      BY <2>2, <2>3 DEF RowsInv, ProcessesHold, Serving
    <2>. QED BY <2>5, <2>6, <2>7, <2>8
  <1>3. CASE Fail(w) \/ AbortForShutdown(w)
    <2>1. PICK reason \in {"abandon", "shutdown"} :
            /\ run' = [run EXCEPT ![w].signal = reason]
            /\ reason = "shutdown" => proc[HomeOf[w]] = "draining"
      BY <1>3 DEF Fail, AbortForShutdown, Aborted
    <2>2. UNCHANGED <<status, ticket, enq, proc>>
      BY <1>3 DEF Fail, AbortForShutdown
    <2>3. \A v \in Workers : /\ run'[v].pc = run[v].pc /\ run'[v].job = run[v].job
                             /\ run'[v].signal = IF v = w THEN reason ELSE run[v].signal
      BY <2>1 DEF TypeOK, Runs
    <2>4. OneToken' /\ RowsFollow' /\ OneExecution'
      BY <2>2, <2>3 DEF RowsInv, OneToken, RowsFollow, OneExecution
    <2>5. ProcessesHold'
      BY <2>1, <2>2, <2>3 DEF RowsInv, ProcessesHold, Serving
    <2>. QED BY <2>4, <2>5
  <1>4. ASSUME MarkSettled(w), run[w].pc = "settle"
        PROVE  OneToken' /\ RowsFollow' /\ OneExecution' /\ ProcessesHold'
    <2>0. PICK pc \in {"notify", "unwind"} :
            /\ run' = [run EXCEPT ![w].pc = pc]
            /\ pc = "notify" => run[w].verdict = "succeeded"
      BY <1>4 DEF MarkSettled
    <2>1. /\ Executing(w) /\ run[w].job \in JobIds /\ UNCHANGED <<ticket, enq, proc>>
          /\ \A v \in Workers : /\ run'[v].pc = IF v = w THEN pc ELSE run[v].pc
                                /\ run'[v].job = run[v].job /\ run'[v].signal = run[v].signal
          /\ \A j \in JobIds \ {run[w].job} : status'[j] = status[j]
      <3>1. /\ Executing(w) /\ run[w].job \in JobIds /\ UNCHANGED <<ticket, enq, proc>>
            /\ \A j \in JobIds \ {run[w].job} : status'[j] = status[j]
        BY <1>4 DEF TypeOK, MarkSettled
      <3>2. \A v \in Workers : /\ run'[v].pc = IF v = w THEN pc ELSE run[v].pc
                               /\ run'[v].job = run[v].job /\ run'[v].signal = run[v].signal
        BY <2>0 DEF TypeOK, Runs
      <3>. QED BY <3>1, <3>2
    <2>4. pc = "notify" => status'[run[w].job] = "succeeded"
      BY <1>4, <2>0, <2>1 DEF TypeOK, MarkSettled
    <2>5. \A v \in Workers : Succeeded(v) => run[v].job # run[w].job
      BY <2>1 DEF RowsInv, RowsFollow
    <2>2. OneToken' /\ OneExecution' /\ ProcessesHold'
      BY <2>1, <2>5 DEF RowsInv, OneToken, OneExecution, ProcessesHold, Serving
    <2>3. RowsFollow'
      <3>1. \A v \in Workers \ {w} : Executing(v) => run[v].job # run[w].job
        BY <2>1 DEF RowsInv, OneExecution
      <3>2. \A e \in Enqueuers : Pending(e) => enq[e].job # run[w].job
        BY <2>1 DEF RowsInv, OneExecution
      <3>3. \/ status'[run[w].job] \in Outcomes
            \/ status[run[w].job] = "running"
        <4>1. run[w].verdict \in Verdicts /\ status[run[w].job] \in {"running", "cancelled"}
          BY <1>4, <2>1 DEF TypeOK, Runs, RowsInv, RowsFollow, MarkSettled
        <4>. QED BY <1>4, <2>1, <4>1 DEF TypeOK, MarkSettled, Active, Outcomes
      <3>4. \A e \in Enqueuers : Pending(e)' => status'[enq'[e].job] \in {"queued"} \cup Lost
        BY <2>1, <3>2 DEF TypeOK, RowsInv, RowsFollow
      <3>5. \A k \in Keys : ticket'[k] # None => status'[ticket'[k]] \in Outcomes \cup {"queued"}
        BY <2>1, <3>3 DEF TypeOK, RowsInv, RowsFollow
      <3>6. \A v \in Workers : Claimed(v)' => status'[run'[v].job] \in Outcomes \cup {"queued"}
        BY <2>1, <3>3 DEF TypeOK, RowsInv, RowsFollow
      <3>7. \A v \in Workers : Executing(v)' => status'[run'[v].job] \in {"running"} \cup Lost
        BY <2>1, <3>1 DEF TypeOK, RowsInv, RowsFollow
      <3>8. \A v \in Workers : Succeeded(v)' => status'[run'[v].job] = "succeeded"
        BY <2>1, <2>4, <2>5 DEF TypeOK, RowsInv, RowsFollow
      <3>. QED BY <3>4, <3>5, <3>6, <3>7, <3>8 DEF RowsFollow
    <2>. QED BY <2>2, <2>3
  <1>7. ASSUME MarkSettled(w), run[w].pc = "rewrite"
        PROVE  OneToken' /\ RowsFollow' /\ OneExecution' /\ ProcessesHold'
    <2>1. /\ run[w].job \in JobIds /\ UNCHANGED <<ticket, enq, proc>>
          /\ \A v \in Workers : /\ run'[v].pc = IF v = w THEN "unwind" ELSE run[v].pc
                                /\ run'[v].job = run[v].job /\ run'[v].signal = run[v].signal
          /\ \A j \in JobIds \ {run[w].job} : status'[j] = status[j]
      BY <1>7 DEF TypeOK, Runs, MarkSettled
    <2>2. status[run[w].job] = "succeeded" /\ status'[run[w].job] \in Outcomes
      <3>1. status[run[w].job] = "succeeded"
        BY <1>7 DEF RowsInv, RowsFollow
      <3>2. run[w].verdict \in Verdicts
        BY <1>7 DEF TypeOK, Runs
      <3>. QED BY <1>7, <2>1, <3>1, <3>2 DEF TypeOK, MarkSettled, Active
    <2>3. OneToken' /\ OneExecution'
      BY <2>1 DEF RowsInv, OneToken, OneExecution
    <2>5. ProcessesHold'
      <3>1. HomeOf[w] \in Procs /\ Serving(HomeOf[w])
        BY <1>7, HomeAssumption DEF RowsInv, ProcessesHold
      <3>. QED BY <2>1, <3>1 DEF RowsInv, ProcessesHold, Serving
    <2>4. RowsFollow'
      <3>1. \A v \in Workers \ {w} : Succeeded(v) => run[v].job # run[w].job
        BY <1>7 DEF RowsInv, OneExecution
      <3>2. \A e \in Enqueuers : Pending(e)' => status'[enq'[e].job] \in {"queued"} \cup Lost
        BY <2>1, <2>2 DEF TypeOK, RowsInv, RowsFollow
      <3>3. \A k \in Keys : ticket'[k] # None => status'[ticket'[k]] \in Outcomes \cup {"queued"}
        BY <2>1, <2>2 DEF TypeOK, RowsInv, RowsFollow
      <3>4. \A v \in Workers : Claimed(v)' => status'[run'[v].job] \in Outcomes \cup {"queued"}
        BY <2>1, <2>2 DEF TypeOK, RowsInv, RowsFollow
      <3>5. \A v \in Workers : Executing(v)' => status'[run'[v].job] \in {"running"} \cup Lost
        BY <2>1, <2>2 DEF TypeOK, RowsInv, RowsFollow
      <3>6. \A v \in Workers : Succeeded(v)' => status'[run'[v].job] = "succeeded"
        BY <2>1, <3>1 DEF TypeOK, RowsInv, RowsFollow
      <3>. QED BY <3>2, <3>3, <3>4, <3>5, <3>6 DEF RowsFollow
    <2>. QED BY <2>3, <2>4, <2>5
  <1>8. CASE Notify(w) \/ NotifyFails(w)
    <2>1. PICK pc \in {"rewrite", "unwind"} :
            /\ run[w].pc = "notify"
            /\ \A v \in Workers : /\ run'[v].pc = IF v = w THEN pc ELSE run[v].pc
                                  /\ run'[v].job = run[v].job /\ run'[v].signal = run[v].signal
      BY <1>8 DEF TypeOK, Runs, Notify, NotifyFails
    <2>2. UNCHANGED <<status, ticket, enq, proc>>
      BY <1>8 DEF Notify, NotifyFails
    <2>3. OneToken' /\ RowsFollow'
      BY <2>1, <2>2 DEF RowsInv, OneToken, RowsFollow
    <2>4. OneExecution' /\ ProcessesHold'
      BY <2>1, <2>2 DEF RowsInv, OneExecution, ProcessesHold, Serving
    <2>. QED BY <2>3, <2>4
  <1>5. CASE Finish(w)
    BY <1>5 DEF TypeOK, Runs, RowsInv, OneToken, RowsFollow, OneExecution,
       ProcessesHold, Finish, Idle, Serving
  <1>6. ASSUME NEW how \in Hows, EndBody(w, how)
        PROVE  OneToken' /\ RowsFollow' /\ OneExecution' /\ ProcessesHold'
    <2>1. PICK pc \in {"settle", "unwind"} :
            /\ run[w].pc = "body"
            /\ \A v \in Workers : /\ run'[v].pc = IF v = w THEN pc ELSE run[v].pc
                                  /\ run'[v].job = run[v].job /\ run'[v].signal = run[v].signal
      BY <1>6 DEF TypeOK, Runs, EndBody
    <2>2. UNCHANGED <<status, ticket, enq, proc>>
      BY <1>6 DEF EndBody
    <2>3. OneToken' /\ RowsFollow'
      BY <2>1, <2>2 DEF RowsInv, OneToken, RowsFollow
    <2>4. OneExecution' /\ ProcessesHold'
      BY <2>1, <2>2 DEF RowsInv, OneExecution, ProcessesHold, Serving
    <2>. QED BY <2>3, <2>4
  <1>9. MarkSettled(w) => run[w].pc \in {"settle", "rewrite"}
    BY DEF MarkSettled
  <1>. QED BY <1>1, <1>2, <1>3, <1>4, <1>5, <1>6, <1>7, <1>8, <1>9 DEF WorkerStep

LEMMA ProcessRows ==
  ASSUME OneProcess, TypeOK, RowsInv, NEW p \in Procs, ProcessStep(p)
  PROVE  OneToken' /\ RowsFollow' /\ OneExecution' /\ ProcessesHold'
  <1>. USE DEF Claimed, Pending, Executing, Succeeded, Heeding, Lost
  <1>0. /\ \A w \in Workers : HomeOf[w] = p
        /\ \A e \in Enqueuers : HomeOf[e] = p
    BY HomeAssumption DEF OneProcess
  <1>1. ASSUME Gone(p) PROVE OneToken' /\ RowsFollow' /\ OneExecution' /\ ProcessesHold'
    BY <1>0, <1>1 DEF TypeOK, RowsInv, OneToken, RowsFollow, OneExecution,
       ProcessesHold, Gone, Idle, NoEnq
  <1>2. CASE BeginStop(p)
    BY <1>0, <1>2 DEF TypeOK, RowsInv, OneToken, RowsFollow, OneExecution,
       ProcessesHold, BeginStop, Serving
  <1>3. CASE InterruptOrphaned(p)
    <2>1. /\ \A w \in Workers : run[w].pc = "idle"
          /\ \A e \in Enqueuers : enq[e].pc = "idle"
      BY <1>0, <1>3 DEF RowsInv, ProcessesHold, InterruptOrphaned, Serving
    <2>2. /\ \A j \in JobIds : status'[j] = status[j] \/ status'[j] = "interrupted"
          /\ UNCHANGED <<ticket, run, enq>>
      BY <1>3 DEF InterruptOrphaned
    <2>3. OneToken' /\ OneExecution' /\ ProcessesHold'
      BY <2>1, <2>2 DEF RowsInv, OneToken, OneExecution, ProcessesHold
    <2>4. RowsFollow'
      BY <2>1, <2>2 DEF TypeOK, RowsInv, RowsFollow
    <2>. QED BY <2>3, <2>4
  <1>4. CASE StartWorker(p)
    BY <1>0, <1>4 DEF TypeOK, RowsInv, OneToken, RowsFollow, OneExecution,
       ProcessesHold, StartWorker, Serving
  <1>. QED BY <1>1, <1>2, <1>3, <1>4 DEF ProcessStep, Crash, Stopped

\* A cancel writes over active rows only, and whoever has one has reckoned with it.
LEMMA CancelRows ==
  ASSUME TypeOK, RowsInv, NEW c \in Cancellers, CancelStep(c)
  PROVE  OneToken' /\ RowsFollow' /\ OneExecution' /\ ProcessesHold'
  <1>. USE DEF Claimed, Pending, Executing, Succeeded, Heeding, Lost
  <1>1. ASSUME UNCHANGED <<status, ticket, enq, proc>>,
               \A w \in Workers : /\ run'[w].pc = run[w].pc /\ run'[w].job = run[w].job
                                  /\ run'[w].signal \in {run[w].signal, "cancel"}
        PROVE  OneToken' /\ RowsFollow' /\ OneExecution' /\ ProcessesHold'
    <2>1. OneToken' /\ RowsFollow' /\ OneExecution'
      BY <1>1 DEF RowsInv, OneToken, RowsFollow, OneExecution
    <2>2. ProcessesHold'
      BY <1>1 DEF RowsInv, ProcessesHold, Serving
    <2>. QED BY <2>1, <2>2
  <1>2. CASE (\E j \in JobIds : Get(c, j)) \/ EndWait(c)
    BY <1>1, <1>2 DEF Get, EndWait
  <1>3. CASE Decide(c)
    <2>1. \A w \in Workers : /\ run'[w].pc = run[w].pc /\ run'[w].job = run[w].job
                             /\ run'[w].signal \in {run[w].signal, "cancel"}
      <3>1. HomeOf[c] \in Procs /\ cancel[c].job \in JobIds
        BY <1>3, HomeAssumption DEF TypeOK, Cancels, Decide
      <3>2. localRuns[HomeOf[c]][cancel[c].job] \in Workers \cup {None}
        BY <3>1 DEF TypeOK
      <3>3. ASSUME NEW v \in Workers, run' = Aborted(v, "cancel")
            PROVE  \A w \in Workers : /\ run'[w].pc = run[w].pc /\ run'[w].job = run[w].job
                                      /\ run'[w].signal \in {run[w].signal, "cancel"}
        BY <3>3, AbortedKeeps
      <3>. QED BY <1>3, <3>2, <3>3 DEF Decide
    <2>. QED BY <1>1, <1>3, <2>1 DEF Decide
  <1>4. CASE MarkCancelled(c)
    <2>1. /\ \A j \in JobIds : status'[j] = status[j] \/ (Active(j) /\ status'[j] = "cancelled")
          /\ UNCHANGED <<ticket, run, enq, proc>> /\ Lost = {"cancelled"}
      BY <1>4 DEF TypeOK, MarkCancelled
    <2>2. OneToken' /\ OneExecution' /\ ProcessesHold'
      BY <2>1 DEF RowsInv, OneToken, OneExecution, ProcessesHold, Serving
    <2>3. RowsFollow'
      <3>1. \A w \in Workers : Succeeded(w) => status'[run[w].job] = "succeeded"
        BY <2>1 DEF TypeOK, RowsInv, RowsFollow, Active
      <3>2. /\ \A e \in Enqueuers : Pending(e) => status'[enq[e].job] \in {"queued"} \cup Lost
            /\ \A w \in Workers : Executing(w) => status'[run[w].job] \in {"running"} \cup Lost
        BY <2>1 DEF TypeOK, RowsInv, RowsFollow
      <3>3. /\ \A k \in Keys : ticket[k] # None => status'[ticket[k]] \in Outcomes \cup {"queued"}
            /\ \A w \in Workers : Claimed(w) => status'[run[w].job] \in Outcomes \cup {"queued"}
        BY <2>1 DEF TypeOK, RowsInv, RowsFollow
      <3>. QED BY <2>1, <3>1, <3>2, <3>3 DEF RowsFollow
    <2>. QED BY <2>2, <2>3
  <1>. QED BY <1>2, <1>3, <1>4 DEF CancelStep

LEMMA NextRowsInv == OneProcess /\ TypeOK /\ RowsInv /\ [Next]_vars => RowsInv'
  <1>. SUFFICES ASSUME OneProcess, TypeOK, RowsInv, [Next]_vars PROVE RowsInv'
    OBVIOUS
  <1>1. SingleFlight'
    BY NextSingleFlight DEF RowsInv
  <1>4. RunsFollow'
    BY NextRunsFollow
  <1>2. ASSUME NEW j \in JobIds, CancelPaused(j)
        PROVE  OneToken' /\ RowsFollow' /\ OneExecution' /\ ProcessesHold'
    BY <1>2 DEF TypeOK, RowsInv, OneToken, RowsFollow, OneExecution, ProcessesHold,
       CancelPaused, Claimed, Pending, Executing, Succeeded, Heeding, Serving, Lost
  <1>3. CASE UNCHANGED vars
    <2>1. UNCHANGED <<status, ticket, run, enq, proc>>
      BY <1>3 DEF vars
    <2>. USE DEF Claimed, Pending, Executing, Succeeded, Heeding
    <2>2. OneToken' /\ RowsFollow'
      BY <2>1 DEF RowsInv, OneToken, RowsFollow
    <2>3. OneExecution'
      BY <2>1 DEF RowsInv, OneExecution
    <2>4. ProcessesHold'
      BY <2>1 DEF RowsInv, ProcessesHold, Serving
    <2>. QED BY <1>1, <1>4, <2>2, <2>3, <2>4 DEF RowsInv
  <1>. QED BY <1>1, <1>2, <1>3, <1>4, EnqueueRows, CancelRows, WorkerRows, ProcessRows DEF Next, RowsInv

THEOREM RowsInvariant ==
  ASSUME OneProcess
  PROVE  Spec => [](TypeOK /\ RowsInv)
  <1>1. Init => TypeOK /\ RowsInv
    BY InitTypeOK, InitRowsInv
  <1>2. (TypeOK /\ RowsInv) /\ [Next]_vars => (TypeOK /\ RowsInv)'
    BY NextTypeOK, NextRowsInv
  <1>. QED BY <1>1, <1>2, PTL DEF Spec

\* The lane goes to one worker at a time; a process that forces every lock open at
\* its start has none at work.
LEMMA NextLaneHeld == OneProcess /\ TypeOK /\ RowsInv /\ LaneHeld /\ [Next]_vars => LaneHeld'
  <1>. SUFFICES ASSUME OneProcess, TypeOK, RowsInv, LaneHeld, [Next]_vars PROVE LaneHeld'
    OBVIOUS
  <1>0. ASSUME UNCHANGED lane,
               \A w \in Workers : /\ run'[w].job = run[w].job
                                  /\ run'[w].pc # "idle" => run[w].pc # "idle"
        PROVE  LaneHeld'
    <2>. SUFFICES ASSUME NEW w \in Workers, run'[w].pc # "idle", Heavy(run'[w].job)
                  PROVE  lane'[OrgOf[run'[w].job]] = w
      BY DEF LaneHeld, Heavy
    <2>1. run'[w].job = run[w].job /\ run[w].pc # "idle"
      BY <1>0
    <2>. QED BY <1>0, <2>1 DEF LaneHeld, Heavy
  <1>1. ASSUME NEW w \in Workers, WorkerStep(w) PROVE LaneHeld'
    <2>1. ASSUME NEW k \in Keys, Claim(w, k) PROVE LaneHeld'
      <3>. DEFINE j == ticket[k]
      <3>1. /\ j \in JobIds /\ OrgOf[j] \in Orgs
            /\ Heavy(j) => lane[OrgOf[j]] = None
            /\ lane' = IF Heavy(j) THEN [lane EXCEPT ![OrgOf[j]] = w] ELSE lane
            /\ run'[w].job = j /\ \A v \in Workers \ {w} : run'[v] = run[v]
        BY <2>1, JobsAssumption DEF TypeOK, Claim, Idle
      <3>. HIDE DEF j
      <3>2. ASSUME NEW v \in Workers, run'[v].pc # "idle", Heavy(run'[v].job)
            PROVE  lane'[OrgOf[run'[v].job]] = v
        <4>1. CASE v = w
          BY <3>1, <3>2, <4>1 DEF TypeOK, Heavy
        <4>2. CASE v # w
          <5>1. lane[OrgOf[run[v].job]] = v
            BY <3>1, <3>2, <4>2 DEF LaneHeld
          <5>2. Heavy(j) => OrgOf[run[v].job] # OrgOf[j]
            BY <3>1, <5>1, NoneAssumption DEF Heavy
          <5>. QED BY <3>1, <4>2, <5>1, <5>2
        <4>. QED BY <4>1, <4>2
      <3>. QED BY <3>2 DEF LaneHeld, Heavy
    <2>2. CASE Finish(w)
      <3>1. /\ run[w].job \in JobIds /\ run'[w].pc = "idle" /\ \A v \in Workers \ {w} : run'[v] = run[v]
            /\ \A o \in Orgs : lane[o] # w => lane'[o] = lane[o]
        BY <2>2 DEF TypeOK, Finish, Idle
      <3>2. ASSUME NEW v \in Workers, run'[v].pc # "idle", Heavy(run'[v].job)
            PROVE  lane'[OrgOf[run'[v].job]] = v
        <4>1. v # w /\ run[v].pc # "idle" /\ run[v].job \in JobIds /\ lane[OrgOf[run[v].job]] = v
          BY <3>1, <3>2 DEF TypeOK, LaneHeld
        <4>2. OrgOf[run[v].job] \in Orgs
          BY <4>1, JobsAssumption
        <4>. QED BY <3>1, <4>1, <4>2
      <3>. QED BY <3>2 DEF LaneHeld, Heavy
    <2>3. CASE MarkRunning(w) \/ MarkSettled(w)
      <3>1. PICK pc \in {"body", "unwind", "notify"} : run' = [run EXCEPT ![w].pc = pc]
        BY <2>3 DEF MarkRunning, MarkSettled
      <3>2. \A v \in Workers : /\ run'[v].job = run[v].job
                               /\ v # w => run'[v] = run[v]
        BY <3>1 DEF TypeOK, Runs
      <3>3. run[w].pc # "idle" /\ UNCHANGED lane
        BY <2>3 DEF MarkRunning, MarkSettled
      <3>. QED BY <1>0, <3>2, <3>3
    <2>6. CASE Fail(w) \/ AbortForShutdown(w)
      BY <1>0, <2>6, AbortedKeeps DEF Fail, AbortForShutdown
    <2>5. CASE Notify(w) \/ NotifyFails(w)
      BY <1>0, <2>5 DEF TypeOK, Runs, Notify, NotifyFails
    <2>4. ASSUME NEW how \in Hows, EndBody(w, how) PROVE LaneHeld'
      BY <1>0, <2>4 DEF TypeOK, Runs, EndBody
    <2>. QED BY <1>1, <2>1, <2>2, <2>3, <2>4, <2>5, <2>6 DEF WorkerStep
  <1>2. ASSUME NEW c \in Cancellers, CancelStep(c) PROVE LaneHeld'
    <2>1. CASE Decide(c)
      <3>1. HomeOf[c] \in Procs /\ cancel[c].job \in JobIds
        BY <2>1, HomeAssumption DEF TypeOK, Cancels, Decide
      <3>2. localRuns[HomeOf[c]][cancel[c].job] \in Workers \cup {None}
        BY <3>1 DEF TypeOK
      <3>3. ASSUME NEW w \in Workers, run' = Aborted(w, "cancel") PROVE LaneHeld'
        BY <1>0, <2>1, <3>3, AbortedKeeps DEF Decide
      <3>. QED BY <1>0, <2>1, <3>2, <3>3 DEF Decide
    <2>. QED BY <1>0, <1>2, <2>1 DEF CancelStep, Get, EndWait, MarkCancelled
  <1>3. ASSUME NEW p \in Procs, ProcessStep(p) PROVE LaneHeld'
    <2>1. \A w \in Workers : HomeOf[w] = p
      BY HomeAssumption DEF OneProcess
    <2>2. CASE Crash(p) \/ Stopped(p)
      BY <2>1, <2>2 DEF LaneHeld, Crash, Stopped, Gone, Idle
    <2>3. CASE StartWorker(p)
      BY <2>1, <2>3 DEF RowsInv, ProcessesHold, Serving, LaneHeld, StartWorker
    <2>. QED BY <1>0, <1>3, <2>2, <2>3 DEF ProcessStep, BeginStop, InterruptOrphaned
  <1>4. ASSUME NEW e \in Enqueuers, EnqueueStep(e) PROVE LaneHeld'
    BY <1>0, <1>4 DEF EnqueueStep, Create, MarkRequeued, AddJob, AddJobFails, UndoEnqueue, SupersedePaused
  <1>5. ASSUME NEW j \in JobIds, CancelPaused(j) PROVE LaneHeld'
    BY <1>0, <1>5 DEF CancelPaused
  <1>6. CASE UNCHANGED vars
    BY <1>0, <1>6 DEF vars
  <1>. QED BY <1>1, <1>2, <1>3, <1>4, <1>5, <1>6 DEF Next

\* One process never runs two heavy bodies of one workspace, cancels or not.
THEOREM OneHeavyBody ==
  ASSUME OneProcess
  PROVE  Spec => []LaneExclusive
  <1>1. Init => LaneHeld
    BY DEF Init, LaneHeld, Idle
  <1>2. (TypeOK /\ RowsInv) /\ LaneHeld /\ [Next]_vars => LaneHeld'
    BY NextLaneHeld
  <1>3. LaneHeld => LaneExclusive
    BY DEF LaneHeld, LaneExclusive, InBody
  <1>. QED BY <1>1, <1>2, <1>3, RowsInvariant, PTL DEF Spec

\* A run writes its verdict over nobody else's outcome but a cancel's.
LEMMA SettlesItsOwn ==
  ASSUME TypeOK, RowsInv, NEW w \in Workers, MarkSettled(w),
         NEW j \in JobIds, status[j] \in Outcomes \ Lost
  PROVE  status'[j] = status[j] \/ OwnRunFails(j)
  <1>1. CASE run[w].job # j
    BY <1>1 DEF TypeOK, MarkSettled
  <1>2. CASE run[w].job = j /\ run[w].pc = "settle"
    <2>1. status[j] \in {"running"} \cup Lost
      BY <1>2 DEF RowsInv, RowsFollow, Executing
    <2>. QED BY <2>1
  <1>3. CASE run[w].job = j /\ run[w].pc = "rewrite"
    <2>1. status[j] = "succeeded"
      BY <1>3 DEF RowsInv, RowsFollow, Succeeded
    <2>2. status'[j] \in {"succeeded", "failed"}
      BY <1>3, <2>1 DEF TypeOK, MarkSettled, Active
    <2>. QED BY <1>3, <2>1, <2>2 DEF OwnRunFails
  <1>. QED BY <1>1, <1>2, <1>3 DEF MarkSettled

\* Where calls cancel, only what they cancelled is written over by another: whoever else
\* settles a row, or undoes it, has it to itself, and writes over its own success alone.
THEOREM OnlyCancelledRewritten ==
  ASSUME OneProcess
  PROVE  Spec => OutcomeFinalUnlessCancelled
  <1>. DEFINE Keeps == \A j \in JobIds :
                         status[j] \in Outcomes \ {"cancelled"} => status'[j] = status[j] \/ OwnRunFails(j)
  <1>1. TypeOK /\ RowsInv /\ [Next]_vars => [Keeps]_vars
    <2>. SUFFICES ASSUME TypeOK, RowsInv, Next PROVE Keeps
      OBVIOUS
    <2>1. ASSUME NEW e \in Enqueuers, EnqueueStep(e) PROVE Keeps
      <3>1. CASE UndoEnqueue(e)
        BY <3>1 DEF TypeOK, RowsInv, RowsFollow, Pending, UndoEnqueue, Lost
      <3>2. CASE SupersedePaused(e)
        BY <3>2 DEF SupersedePaused
      <3>. QED BY <2>1, <3>1, <3>2 DEF TypeOK, EnqueueStep, Create, MarkRequeued, AddJob, AddJobFails
    <2>2. ASSUME NEW w \in Workers, WorkerStep(w) PROVE Keeps
      <3>1. CASE MarkRunning(w)
        BY <3>1 DEF TypeOK, MarkRunning
      <3>2. CASE MarkSettled(w)
        BY <3>2, SettlesItsOwn DEF Lost
      <3>3. CASE UNCHANGED status
        BY <3>3
      <3>. QED BY <2>2, <3>1, <3>2, <3>3
           DEF WorkerStep, Claim, Fail, Notify, NotifyFails, Finish, AbortForShutdown, EndBody
    <2>3. ASSUME NEW p \in Procs, ProcessStep(p) PROVE Keeps
      BY <2>3 DEF ProcessStep, Crash, BeginStop, Stopped, InterruptOrphaned, StartWorker, Gone, Active
    <2>4. ASSUME NEW j \in JobIds, CancelPaused(j) PROVE Keeps
      BY <2>4 DEF TypeOK, CancelPaused
    <2>5. ASSUME NEW c \in Cancellers, CancelStep(c) PROVE Keeps
      BY <2>5 DEF TypeOK, CancelStep, Get, Decide, EndWait, MarkCancelled, Active
    <2>. QED BY <2>1, <2>2, <2>3, <2>4, <2>5 DEF Next
  <1>. QED BY <1>1, RowsInvariant, PTL DEF Spec, OutcomeFinalUnlessCancelled

LEMMA NothingLost == Solo => OneProcess /\ Lost = {}
  BY DEF Solo, Lost

\* One process without cancels never runs two bodies of one workspace's key, though
\* nothing but the rows' unique index stands between them.
THEOREM SoloBodiesExclusive ==
  ASSUME Solo
  PROVE  Spec => []BodiesExclusive
  <1>1. TypeOK /\ RowsInv => BodiesExclusive
    <2>. SUFFICES ASSUME TypeOK, RowsInv, NEW v \in Workers, NEW w \in Workers,
                         InBody(v), InBody(w), Flight(run[v].job) = Flight(run[w].job)
                  PROVE  v = w
      BY DEF BodiesExclusive
    <2>1. /\ Executing(v) /\ Executing(w)
          /\ run[v].job \in JobIds /\ run[w].job \in JobIds
      BY DEF TypeOK, InBody, Executing
    <2>2. Active(run[v].job) /\ Active(run[w].job)
      BY NothingLost, <2>1 DEF RowsInv, RowsFollow, Active
    <2>3. run[v].job = run[w].job
      BY <2>1, <2>2 DEF RowsInv, SingleFlight
    <2>. QED BY <2>1, <2>3 DEF RowsInv, OneExecution
  <1>2. Spec => [](TypeOK /\ RowsInv)
    BY NothingLost, RowsInvariant
  <1>. QED BY <1>1, <1>2, PTL

\* A run that comes to its settled hook there with a verdict has it in its row: nobody
\* but itself wrote the row since, and a row it took up was its own to settle.
LEMMA HookHearsTheRow ==
  ASSUME Solo, TypeOK, RowsInv, Next, NEW w \in Workers,
         run[w].pc # "unwind", run'[w].pc = "unwind", run'[w].verdict # "none"
  PROVE  status'[run[w].job] = run'[w].verdict
  <1>0. Lost = {} /\ Cancellers = {}
    BY NothingLost DEF Solo
  <1>1. PICK v \in Workers : WorkerStep(v)
    <2>1. ASSUME NEW p \in Procs, ProcessStep(p) PROVE FALSE
      BY <2>1 DEF TypeOK, ProcessStep, Crash, BeginStop, Stopped, InterruptOrphaned, StartWorker,
         Gone, Idle
    <2>. QED BY <1>0, <2>1 DEF Next, EnqueueStep, Create, MarkRequeued, AddJob, AddJobFails,
         UndoEnqueue, SupersedePaused, CancelPaused
  <1>2. ASSUME NEW k \in Keys, Claim(v, k) PROVE FALSE
    BY <1>2 DEF TypeOK, Claim, Idle
  <1>3. CASE Fail(v) \/ AbortForShutdown(v)
    BY <1>3, AbortedKeeps DEF Fail, AbortForShutdown
  <1>4. CASE Finish(v)
    BY <1>4 DEF TypeOK, Finish, Idle
  <1>5. CASE MarkRunning(v)
    <2>1. v = w /\ run[w].pc = "claimed" /\ run'[w].verdict = run[w].verdict
      BY <1>5 DEF TypeOK, Runs, MarkRunning
    <2>. QED BY <2>1 DEF RowsInv, RunsFollow
  <1>6. ASSUME NEW how \in Hows, EndBody(v, how) PROVE FALSE
    BY <1>6 DEF TypeOK, Runs, EndBody
  <1>7. CASE NotifyFails(v)
    BY <1>7 DEF TypeOK, Runs, NotifyFails
  <1>8. CASE Notify(v)
    <2>1. /\ v = w /\ run[w].pc = "notify" /\ run'[w].verdict = run[w].verdict
          /\ UNCHANGED status
      BY <1>8 DEF TypeOK, Runs, Notify
    <2>. QED BY <2>1 DEF RowsInv, RowsFollow, RunsFollow, Succeeded
  <1>9. CASE MarkSettled(v)
    <2>1. /\ v = w /\ run[w].pc \in {"settle", "rewrite"} /\ run[w].job \in JobIds
          /\ run'[w].verdict = run[w].verdict
          /\ status'[run[w].job] = IF run[w].verdict \in {"succeeded", "failed"} \/ Active(run[w].job)
                                   THEN run[w].verdict ELSE status[run[w].job]
      BY <1>9 DEF TypeOK, Runs, MarkSettled
    <2>2. CASE run[w].pc = "settle"
      BY <1>0, <2>1, <2>2 DEF RowsInv, RowsFollow, Executing, Active
    <2>3. CASE run[w].pc = "rewrite"
      BY <1>0, <2>1, <2>3 DEF RowsInv, RunsFollow
    <2>. QED BY <2>1, <2>2, <2>3
  <1>. QED BY <1>1, <1>2, <1>3, <1>4, <1>5, <1>6, <1>7, <1>8, <1>9 DEF WorkerStep

\* Whoever writes a row there knows that it is still its own: a settled row changes
\* only under its own run, from success to failure, and the settled hook hears what
\* the row says.
THEOREM SoloOutcomeFinal ==
  ASSUME Solo
  PROVE  Spec => OutcomeFinal
  <1>. DEFINE Keeps == \A j \in JobIds :
                         status[j] \in Outcomes => status'[j] = status[j] \/ OwnRunFails(j)
              Hears == \A w \in Workers :
                         run[w].pc # "unwind" /\ run'[w].pc = "unwind" /\ run'[w].verdict # "none"
                           => status'[run[w].job] = run'[w].verdict
  <1>1. TypeOK /\ RowsInv /\ [Next]_vars => [Keeps]_vars
    <2>. SUFFICES ASSUME TypeOK, RowsInv, Next PROVE Keeps
      OBVIOUS
    <2>1. ASSUME NEW e \in Enqueuers, EnqueueStep(e) PROVE Keeps
      <3>1. CASE UndoEnqueue(e)
        BY NothingLost, <3>1 DEF TypeOK, RowsInv, RowsFollow, Pending, UndoEnqueue
      <3>2. CASE SupersedePaused(e)
        BY <3>2 DEF SupersedePaused
      <3>. QED BY <2>1, <3>1, <3>2 DEF TypeOK, EnqueueStep, Create, MarkRequeued, AddJob, AddJobFails
    <2>2. ASSUME NEW w \in Workers, WorkerStep(w) PROVE Keeps
      <3>1. CASE MarkRunning(w)
        BY <3>1 DEF TypeOK, MarkRunning
      <3>2. CASE MarkSettled(w)
        BY NothingLost, <3>2, SettlesItsOwn
      <3>3. CASE UNCHANGED status
        BY <3>3
      <3>. QED BY <2>2, <3>1, <3>2, <3>3
           DEF WorkerStep, Claim, Fail, Notify, NotifyFails, Finish, AbortForShutdown, EndBody
    <2>3. ASSUME NEW p \in Procs, ProcessStep(p) PROVE Keeps
      BY <2>3 DEF ProcessStep, Crash, BeginStop, Stopped, InterruptOrphaned, StartWorker, Gone, Active
    <2>4. ASSUME NEW j \in JobIds, CancelPaused(j) PROVE Keeps
      BY <2>4 DEF TypeOK, CancelPaused
    <2>5. Cancellers = {}
      BY DEF Solo
    <2>. QED BY <2>1, <2>2, <2>3, <2>4, <2>5 DEF Next
  <1>2. Spec => [](TypeOK /\ RowsInv)
    BY NothingLost, RowsInvariant
  <1>3. TypeOK /\ RowsInv /\ [Next]_vars => [Hears]_vars
    BY HookHearsTheRow
  <1>. QED BY <1>1, <1>2, <1>3, PTL DEF Spec, OutcomeFinal

-------------------------------------------------------------------------------
\* No row is stranded: each active row has someone on its way to it, or in it.
LEMMA NextBootsClean == Solo /\ TypeOK /\ RowsInv /\ BootsClean /\ [Next]_vars => BootsClean'
  <1>. SUFFICES ASSUME Solo, TypeOK, RowsInv, BootsClean, [Next]_vars,
                       NEW p \in Procs, proc'[p] = "booting",
                       NEW j \in JobIds, status'[j] \in ActiveStatus
                PROVE  FALSE
    BY DEF BootsClean, Active
  <1>1. /\ \A x \in Workers \cup Enqueuers : HomeOf[x] = p
        /\ Cancellers = {} /\ \A q \in Procs : q = p
    BY HomeAssumption DEF Solo, OneProcess
  <1>2. CASE proc[p] = "booting"
    <2>1. /\ \A w \in Workers : run[w].pc = "idle"
          /\ \A e \in Enqueuers : enq[e].pc = "idle"
      BY <1>1, <1>2 DEF RowsInv, ProcessesHold, Serving
    <2>2. ~Active(j)
      BY <1>2 DEF BootsClean
    <2>3. ASSUME NEW e \in Enqueuers, EnqueueStep(e) PROVE FALSE
      BY <1>1, <1>2, <2>1, <2>3 DEF EnqueueStep, Create, MarkRequeued, AddJob, AddJobFails,
         UndoEnqueue, SupersedePaused, Serving
    <2>4. ASSUME NEW w \in Workers, WorkerStep(w) PROVE FALSE
      BY <1>1, <1>2, <2>1, <2>4 DEF WorkerStep, Claim, MarkRunning, Fail, MarkSettled, Notify,
         NotifyFails, Finish, AbortForShutdown, Heeding, EndBody
    <2>5. ASSUME NEW q \in Procs, ProcessStep(q) PROVE FALSE
      BY <1>1, <1>2, <2>2, <2>5 DEF TypeOK, ProcessStep, Crash, BeginStop, Stopped, Gone,
         InterruptOrphaned, StartWorker, Active
    <2>6. ASSUME NEW i \in JobIds, CancelPaused(i) PROVE FALSE
      BY <1>1, <1>2, <2>6 DEF CancelPaused, Serving
    <2>. QED BY <1>1, <2>2, <2>3, <2>4, <2>5, <2>6 DEF Next, vars, Active
  <1>3. CASE proc[p] # "booting"
    <2>1. PICK q \in Procs : ProcessStep(q)
      BY <1>1, <1>3 DEF Next, vars, EnqueueStep, Create, MarkRequeued, AddJob, AddJobFails,
         UndoEnqueue, SupersedePaused, WorkerStep, Claim, MarkRunning, Fail, MarkSettled, Notify,
         NotifyFails, Finish, AbortForShutdown, EndBody, CancelPaused
    <2>2. InterruptOrphaned(q)
      BY <1>1, <1>3, <2>1 DEF TypeOK, ProcessStep, Crash, BeginStop, Stopped, Gone, StartWorker
    <2>. QED BY <2>2 DEF InterruptOrphaned, Active
  <1>. QED BY <1>2, <1>3

LEMMA NextRunningHasBody ==
  Solo /\ TypeOK /\ RowsInv /\ BootsClean /\ RunningHasBody /\ [Next]_vars => RunningHasBody'
  <1>. SUFFICES ASSUME Solo, TypeOK, RowsInv, BootsClean, RunningHasBody, [Next]_vars,
                       NEW j \in JobIds, status'[j] = "running",
                       \A p \in Procs : proc'[p] = "up"
                PROVE  \E w \in Workers : run'[w].job = j /\ Executing(w)'
    BY DEF RunningHasBody
  <1>. DEFINE Carried == \E w \in Workers : run[w].job = j /\ Executing(w)
              Carried1 == \E w \in Workers : run'[w].job = j /\ Executing(w)'
  <1>0. ASSUME status[j] = "running", \A p \in Procs : proc[p] = "up" PROVE Carried
    BY <1>0 DEF RunningHasBody
  <1>1. ASSUME status[j] = "running", UNCHANGED <<proc, run>> PROVE Carried1
    BY <1>0, <1>1 DEF Executing
  <1>2. ASSUME NEW e \in Enqueuers, EnqueueStep(e) PROVE Carried1
    <2>1. UNCHANGED <<proc, run>>
      BY <1>2 DEF EnqueueStep, Create, MarkRequeued, AddJob, AddJobFails, UndoEnqueue, SupersedePaused
    <2>2. status[j] = "running"
      BY <1>2 DEF TypeOK, EnqueueStep, Create, MarkRequeued, AddJob, AddJobFails, UndoEnqueue,
         SupersedePaused
    <2>. QED BY <1>1, <2>1, <2>2
  <1>3. ASSUME NEW w \in Workers, WorkerStep(w) PROVE Carried1
    <2>0. \A p \in Procs : proc[p] = "up"
      BY <1>3 DEF WorkerStep, Claim, MarkRunning, Fail, MarkSettled, Notify, NotifyFails, Finish,
         AbortForShutdown, EndBody
    <2>1. ASSUME NEW k \in Keys, Claim(w, k) PROVE Carried1
      <3>1. /\ status[j] = "running" /\ run[w].pc = "idle"
            /\ \A v \in Workers \ {w} : run'[v] = run[v]
        BY <2>1 DEF TypeOK, Claim
      <3>. QED BY <1>0, <2>0, <3>1 DEF Executing
    <2>2. CASE MarkRunning(w)
      <3>1. CASE run[w].job = j /\ status[j] = "queued"
        BY <2>2, <3>1 DEF TypeOK, Runs, MarkRunning, Executing
      <3>2. CASE ~(run[w].job = j /\ status[j] = "queued")
        <4>1. status[j] = "running"
          BY <2>2, <3>2 DEF TypeOK, MarkRunning
        <4>2. run[w].pc = "claimed" /\ \A v \in Workers \ {w} : run'[v] = run[v]
          BY <2>2 DEF TypeOK, MarkRunning
        <4>. QED BY <1>0, <2>0, <4>1, <4>2 DEF Executing
      <3>. QED BY <3>1, <3>2
    <2>3. CASE Fail(w) \/ AbortForShutdown(w)
      <3>1. /\ status[j] = "running"
            /\ \A v \in Workers : run'[v].job = run[v].job /\ run'[v].pc = run[v].pc
        BY <2>3, AbortedKeeps DEF Fail, AbortForShutdown
      <3>. QED BY <1>0, <2>0, <3>1 DEF Executing
    <2>4. CASE MarkSettled(w)
      <3>1. run[w].verdict \in Verdicts /\ run[w].job \in JobIds
        BY <2>4 DEF TypeOK, Runs, MarkSettled
      <3>0. run[w].pc = "rewrite" => status[run[w].job] = "succeeded"
        BY <2>4 DEF RowsInv, RowsFollow, Succeeded
      <3>2. status[j] = "running" /\ run[w].job # j
        BY <2>4, <3>0, <3>1 DEF TypeOK, MarkSettled, Active
      <3>3. \A v \in Workers \ {w} : run'[v] = run[v]
        BY <2>4 DEF TypeOK, MarkSettled
      <3>. QED BY <1>0, <2>0, <3>2, <3>3 DEF Executing
    <2>5. CASE Notify(w) \/ NotifyFails(w) \/ Finish(w)
      <3>1. /\ status[j] = "running" /\ run[w].pc \in {"notify", "unwind"}
            /\ \A v \in Workers \ {w} : run'[v] = run[v]
        BY <2>5 DEF TypeOK, Notify, NotifyFails, Finish
      <3>. QED BY <1>0, <2>0, <3>1 DEF Executing
    <2>6. ASSUME NEW how \in Hows, EndBody(w, how) PROVE Carried1
      <3>1. HomeOf[w] \in Procs /\ run[w] \in Runs
        BY HomeAssumption DEF TypeOK
      <3>2. run[w].signal # "shutdown"
        BY <2>0, <2>6, <3>1 DEF RowsInv, ProcessesHold, Heeding, EndBody
      <3>3. Verdict(how, run[w].signal) # "none"
        BY <3>1, <3>2 DEF Hows, Verdict, Runs
      <3>4. /\ run'[w].pc = "settle" /\ run'[w].job = run[w].job
            /\ \A v \in Workers \ {w} : run'[v] = run[v]
        BY <2>6, <3>1, <3>3 DEF TypeOK, Runs, EndBody
      <3>5. status[j] = "running"
        BY <2>6 DEF EndBody
      <3>. QED BY <1>0, <2>0, <3>4, <3>5 DEF Executing
    <2>. QED BY <1>3, <2>1, <2>2, <2>3, <2>4, <2>5, <2>6 DEF WorkerStep
  <1>4. ASSUME NEW q \in Procs, ProcessStep(q) PROVE Carried1
    <2>1. proc'[q] = "up"
      OBVIOUS
    <2>2. StartWorker(q)
      BY <1>4, <2>1 DEF TypeOK, ProcessStep, Crash, BeginStop, Stopped, Gone, InterruptOrphaned
    <2>. QED BY <2>2 DEF BootsClean, StartWorker, Active
  <1>5. ASSUME NEW i \in JobIds, CancelPaused(i) PROVE Carried1
    BY <1>1, <1>5 DEF TypeOK, CancelPaused
  <1>6. CASE UNCHANGED vars
    BY <1>1, <1>6 DEF vars
  <1>7. Cancellers = {}
    BY DEF Solo
  <1>. QED BY <1>2, <1>3, <1>4, <1>5, <1>6, <1>7 DEF Next

LEMMA NextQueuedHasTicket ==
  Solo /\ KeysApart /\ TypeOK /\ RowsInv /\ BootsClean /\ QueuedHasTicket /\ [Next]_vars
    => QueuedHasTicket'
  <1>. SUFFICES ASSUME Solo, KeysApart, TypeOK, RowsInv, BootsClean, QueuedHasTicket,
                       [Next]_vars,
                       NEW j \in JobIds, status'[j] = "queued",
                       NEW p \in Procs, Serving(p)'
                PROVE  \/ ticket'[KeyOf[j]] = j
                       \/ \E w \in Workers : run'[w].job = j /\ Claimed(w)'
                       \/ \E e \in Enqueuers : enq'[e].job = j /\ Pending(e)'
    BY DEF QueuedHasTicket
  <1>. DEFINE Ticketed == ticket'[KeyOf[j]] = j
              Taken == \E w \in Workers : run'[w].job = j /\ Claimed(w)'
              Coming == \E e \in Enqueuers : enq'[e].job = j /\ Pending(e)'
              Safe == Ticketed \/ Taken \/ Coming
  <1>0. KeyOf[j] \in Keys
    BY JobsAssumption
  <1>1. ASSUME status[j] = "queued", Serving(p)
        PROVE  \/ ticket[KeyOf[j]] = j
               \/ \E w \in Workers : run[w].job = j /\ Claimed(w)
               \/ \E e \in Enqueuers : enq[e].job = j /\ Pending(e)
    BY <1>1 DEF QueuedHasTicket
  <1>2. ASSUME NEW e \in Enqueuers, EnqueueStep(e) PROVE Safe
    <2>0. UNCHANGED <<proc, run>> /\ Serving(p)
      BY <1>2 DEF EnqueueStep, Create, MarkRequeued, AddJob, AddJobFails, UndoEnqueue,
         SupersedePaused, Serving
    <2>1. ASSUME NEW i \in JobIds, Create(e, i) \/ MarkRequeued(e, i) PROVE Safe
      <3>1. /\ enq'[e].job = i /\ enq'[e].pc \in {"add", "readd"} /\ enq[e].pc = "idle"
            /\ \A f \in Enqueuers \ {e} : enq'[f] = enq[f]
            /\ i # j => status[j] = "queued"
            /\ UNCHANGED ticket
        BY <2>1 DEF TypeOK, Create, MarkRequeued
      <3>. QED BY <1>1, <2>0, <3>1 DEF Pending, Claimed
    <2>2. CASE AddJob(e)
      <3>1. /\ status[j] = "queued" /\ enq[e].job \in JobIds /\ Pending(e)
            /\ ticket' = [ticket EXCEPT ![KeyOf[enq[e].job]] = enq[e].job]
            /\ \A f \in Enqueuers \ {e} : enq'[f] = enq[f]
        BY <2>2 DEF TypeOK, AddJob, Pending
      <3>2. status[enq[e].job] = "queued"
        BY NothingLost, <3>1 DEF RowsInv, RowsFollow
      <3>3. KeyOf[enq[e].job] = KeyOf[j] => enq[e].job = j
        BY <3>1, <3>2 DEF KeysApart, RowsInv, SingleFlight, Active, Flight
      <3>4. KeyOf[enq[e].job] = KeyOf[j] => Ticketed
        BY <1>0, <3>1, <3>3 DEF TypeOK
      <3>5. KeyOf[enq[e].job] # KeyOf[j] => ticket'[KeyOf[j]] = ticket[KeyOf[j]] /\ enq[e].job # j
        BY <1>0, <3>1 DEF TypeOK
      <3>. QED BY <1>1, <2>0, <3>1, <3>4, <3>5 DEF Pending, Claimed
    <2>3. CASE AddJobFails(e)
      <3>1. /\ status[j] = "queued" /\ UNCHANGED ticket
            /\ enq'[e].job = enq[e].job /\ enq'[e].pc \in {"undo", "repause"}
            /\ \A f \in Enqueuers \ {e} : enq'[f] = enq[f]
        BY <2>3 DEF TypeOK, Enqs, AddJobFails
      <3>. QED BY <1>1, <2>0, <3>1 DEF Pending, Claimed
    <2>4. CASE UndoEnqueue(e)
      <3>1. status[j] = "queued" /\ enq[e].job # j /\ UNCHANGED ticket
        BY <2>4 DEF TypeOK, UndoEnqueue, Active
      <3>2. \A f \in Enqueuers \ {e} : enq'[f] = enq[f]
        BY <2>4 DEF TypeOK, UndoEnqueue
      <3>. QED BY <1>1, <2>0, <3>1, <3>2 DEF Pending, Claimed
    <2>5. CASE SupersedePaused(e)
      <3>1. status[j] = "queued" /\ UNCHANGED ticket /\ enq[e].pc = "supersede"
        BY <2>5 DEF SupersedePaused
      <3>2. \A f \in Enqueuers \ {e} : enq'[f] = enq[f]
        BY <2>5 DEF TypeOK, SupersedePaused
      <3>. QED BY <1>1, <2>0, <3>1, <3>2 DEF Pending, Claimed
    <2>. QED BY <1>2, <2>1, <2>2, <2>3, <2>4, <2>5 DEF EnqueueStep
  <1>3. ASSUME NEW w \in Workers, WorkerStep(w) PROVE Safe
    <2>0. UNCHANGED <<proc, enq>> /\ Serving(p)
      BY <1>3 DEF WorkerStep, Claim, MarkRunning, Fail, MarkSettled, Notify, NotifyFails, Finish,
         AbortForShutdown, EndBody, Serving
    <2>1. ASSUME NEW k \in Keys, Claim(w, k) PROVE Safe
      <3>1. /\ status[j] = "queued" /\ run[w].pc = "idle"
            /\ run'[w].pc = "claimed" /\ run'[w].job = ticket[k]
            /\ \A v \in Workers \ {w} : run'[v] = run[v]
            /\ k # KeyOf[j] => ticket'[KeyOf[j]] = ticket[KeyOf[j]]
        BY <1>0, <2>1 DEF TypeOK, Claim, Idle
      <3>. QED BY <1>1, <2>0, <3>1 DEF Pending, Claimed
    <2>2. CASE MarkRunning(w)
      <3>1. /\ status[j] = "queued" /\ run[w].job # j /\ UNCHANGED ticket
            /\ \A v \in Workers \ {w} : run'[v] = run[v]
        BY <2>2 DEF TypeOK, MarkRunning
      <3>. QED BY <1>1, <2>0, <3>1 DEF Pending, Claimed
    <2>3. CASE Fail(w) \/ AbortForShutdown(w)
      <3>1. /\ status[j] = "queued" /\ UNCHANGED ticket
            /\ \A v \in Workers : run'[v].job = run[v].job /\ run'[v].pc = run[v].pc
        BY <2>3, AbortedKeeps DEF Fail, AbortForShutdown
      <3>. QED BY <1>1, <2>0, <3>1 DEF Pending, Claimed
    <2>4. CASE MarkSettled(w)
      <3>1. run[w].verdict \in Verdicts /\ run[w].job \in JobIds
        BY <2>4 DEF TypeOK, Runs, MarkSettled
      <3>2. /\ status[j] = "queued" /\ UNCHANGED ticket /\ run[w].pc # "claimed"
            /\ \A v \in Workers \ {w} : run'[v] = run[v]
        BY <2>4, <3>1 DEF TypeOK, MarkSettled, Active
      <3>. QED BY <1>1, <2>0, <3>2 DEF Pending, Claimed
    <2>5. ASSUME \/ Notify(w) \/ NotifyFails(w) \/ Finish(w)
                 \/ \E how \in Hows : EndBody(w, how)
          PROVE  Safe
      <3>1. /\ status[j] = "queued" /\ UNCHANGED ticket /\ run[w].pc # "claimed"
            /\ \A v \in Workers \ {w} : run'[v] = run[v]
        BY <2>5 DEF TypeOK, Notify, NotifyFails, Finish, EndBody
      <3>. QED BY <1>1, <2>0, <3>1 DEF Pending, Claimed
    <2>. QED BY <1>3, <2>1, <2>2, <2>3, <2>4, <2>5 DEF WorkerStep
  <1>4. ASSUME NEW q \in Procs, ProcessStep(q) PROVE Safe
    <2>0. p = q
      BY DEF Solo, OneProcess
    <2>1. ~InterruptOrphaned(q) /\ ~StartWorker(q)
      BY <2>0 DEF TypeOK, InterruptOrphaned, StartWorker, BootsClean, Serving, Active
    <2>2. BeginStop(q)
      BY <1>4, <2>0, <2>1 DEF TypeOK, ProcessStep, Crash, Stopped, Gone, Serving
    <2>. QED BY <1>1, <2>0, <2>2 DEF BeginStop, Serving, Claimed, Pending
  <1>5. ASSUME NEW i \in JobIds, CancelPaused(i) PROVE Safe
    BY <1>1, <1>5 DEF TypeOK, CancelPaused, Serving, Claimed, Pending
  <1>6. CASE UNCHANGED vars
    BY <1>1, <1>6 DEF vars, Serving, Claimed, Pending
  <1>7. Cancellers = {}
    BY DEF Solo
  <1>. QED BY <1>2, <1>3, <1>4, <1>5, <1>6, <1>7 DEF Next

\* A lone server that is not cancelled shows no work that nobody does: a running row
\* is in a worker, unless the process is stopping or gone.
THEOREM SoloRunning ==
  ASSUME Solo
  PROVE  Spec => []RunningHasBody
  <1>1. Init => BootsClean /\ RunningHasBody
    BY DEF Init, BootsClean, RunningHasBody
  <1>2. (TypeOK /\ RowsInv) /\ (BootsClean /\ RunningHasBody) /\ [Next]_vars
          => (BootsClean /\ RunningHasBody)'
    BY NextBootsClean, NextRunningHasBody
  <1>3. Spec => [](TypeOK /\ RowsInv)
    BY NothingLost, RowsInvariant
  <1>. QED BY <1>1, <1>2, <1>3, PTL DEF Spec

\* Nor does it strand a queued row: that one is on its way to a worker.
THEOREM SoloAttended ==
  ASSUME Solo, KeysApart
  PROVE  Spec => []QueuedHasTicket
  <1>. DEFINE Attended == BootsClean /\ QueuedHasTicket
  <1>1. Init => Attended
    BY DEF Init, BootsClean, QueuedHasTicket
  <1>2. (TypeOK /\ RowsInv) /\ Attended /\ [Next]_vars => Attended'
    BY NextBootsClean, NextQueuedHasTicket
  <1>3. Spec => [](TypeOK /\ RowsInv)
    BY NothingLost, RowsInvariant
  <1>. QED BY <1>1, <1>2, <1>3, PTL DEF Spec

-------------------------------------------------------------------------------
\* The refinement: in one process without cancels a job's phase is its row's.
PhaseOf(s) ==
  CASE s \in {"absent", "paused"} -> s
    [] s = "queued" -> "waiting"
    [] s = "running" -> "working"
    [] s \in Outcomes -> "done"

PhasesAreRows == [j \in JobIds |-> Phase(j)] = [j \in JobIds |-> PhaseOf(status[j])]

LEMMA PhasesOf ==
  /\ PhaseOf("absent") = "absent" /\ PhaseOf("paused") = "paused"
  /\ PhaseOf("queued") = "waiting" /\ PhaseOf("running") = "working"
  /\ \A s \in Outcomes : PhaseOf(s) = "done"
  BY DEF PhaseOf

LEMMA SoloPhases == Solo /\ TypeOK /\ RowsInv => PhasesAreRows
  <1>. SUFFICES ASSUME Solo, TypeOK, RowsInv, NEW j \in JobIds PROVE Phase(j) = PhaseOf(status[j])
    BY DEF PhasesAreRows
  <1>1. status[j] \in {"absent", "paused"} \cup ActiveStatus \cup Outcomes
    BY DEF TypeOK
  <1>2. ASSUME NEW w \in Workers, run[w].job = j, Executing(w) PROVE status[j] = "running"
    BY NothingLost, <1>2 DEF RowsInv, RowsFollow
  <1>3. CASE \E w \in Workers : run[w].job = j /\ Executing(w)
    BY <1>2, <1>3 DEF Phase, PhaseOf
  <1>4. CASE ~\E w \in Workers : run[w].job = j /\ Executing(w)
    BY <1>1, <1>4 DEF Phase, PhaseOf
  <1>. QED BY <1>3, <1>4

LEMMA StepRefines ==
  ASSUME Solo, TypeOK, RowsInv, PhasesAreRows, PhasesAreRows', [Next]_vars
  PROVE  [Lifecycle!Next]_([j \in JobIds |-> Phase(j)])
  <1>. DEFINE ph == [j \in JobIds |-> Phase(j)]
              Refined == Lifecycle!Next \/ UNCHANGED ph
  <1>. SUFFICES Refined
    OBVIOUS
  <1>0. /\ ph = [j \in JobIds |-> PhaseOf(status[j])]
        /\ ph' = [j \in JobIds |-> PhaseOf(status'[j])]
    BY DEF PhasesAreRows
  <1>1. /\ \A j \in JobIds : status[j] \in {"absent", "paused"} \cup ActiveStatus \cup Outcomes
        /\ status = [j \in JobIds |-> status[j]]
    BY DEF TypeOK
  <1>. HIDE DEF ph
  <1>2. ASSUME UNCHANGED status PROVE Refined
    BY <1>0, <1>2
  <1>3. ASSUME NEW j \in JobIds, NEW s, status' = [status EXCEPT ![j] = s]
        PROVE  Lifecycle!Move(j, PhaseOf(status[j]), PhaseOf(s))
    <2>1. ph[j] = PhaseOf(status[j]) /\ ph' = [ph EXCEPT ![j] = PhaseOf(s)]
      BY <1>0, <1>1, <1>3
    <2>. QED BY <2>1 DEF Lifecycle!Move, ph
  <1>4. ASSUME NEW j \in JobIds, ~KeyHeld(j) PROVE Lifecycle!Free(j)
    BY <1>0, <1>1, <1>4, PhasesOf DEF KeyHeld, Active, Lifecycle!Free, ph
  <1>5. ASSUME NEW e \in Enqueuers, EnqueueStep(e) PROVE Refined
    <2>1. ASSUME NEW j \in JobIds, Create(e, j) PROVE Refined
      <3>1. Lifecycle!Move(j, "absent", "waiting")
        BY <1>3, <2>1, PhasesOf DEF Create
      <3>2. Lifecycle!Submit(j)
        BY <1>4, <2>1, <3>1 DEF Create, Lifecycle!Submit
      <3>. QED BY <3>2 DEF Lifecycle!Next
    <2>2. ASSUME NEW j \in JobIds, MarkRequeued(e, j) PROVE Refined
      <3>1. Lifecycle!Move(j, "paused", "waiting")
        BY <1>3, <2>2, PhasesOf DEF MarkRequeued
      <3>2. Lifecycle!Resume(j)
        BY <1>4, <2>2, <3>1 DEF MarkRequeued, Lifecycle!Resume
      <3>. QED BY <3>2 DEF Lifecycle!Next
    <2>3. CASE UndoEnqueue(e)
      <3>. DEFINE j == enq[e].job
      <3>1. j \in JobIds /\ status[j] = "queued"
        BY NothingLost, <2>3 DEF TypeOK, RowsInv, RowsFollow, Pending, UndoEnqueue
      <3>2. PICK s \in {"failed", "paused"} : status' = [status EXCEPT ![j] = s]
        BY <2>3, <3>1 DEF UndoEnqueue, Active
      <3>. HIDE DEF j
      <3>3. Lifecycle!Withdraw(j)
        BY <1>3, <3>1, <3>2, PhasesOf DEF Lifecycle!Withdraw
      <3>. QED BY <3>1, <3>3 DEF Lifecycle!Next
    <2>4. CASE SupersedePaused(e)
      <3>. DEFINE S == {i \in JobIds : status[i] = "paused" /\ Flight(i) = Flight(enq[e].job)}
      <3>1. \A i \in JobIds : status'[i] = IF i \in S THEN "cancelled" ELSE status[i]
        BY <2>4 DEF SupersedePaused
      <3>2. \A i \in S : ph[i] = "paused"
        BY <1>0, PhasesOf
      <3>3. ph' = [i \in JobIds |-> IF i \in S THEN "done" ELSE ph[i]]
        BY <1>0, <3>1, PhasesOf
      <3>4. S \in SUBSET JobIds
        OBVIOUS
      <3>. HIDE DEF S
      <3>5. Lifecycle!Drop(S)
        BY <3>2, <3>3 DEF Lifecycle!Drop, ph
      <3>. QED BY <3>4, <3>5 DEF Lifecycle!Next
    <2>. QED BY <1>2, <1>5, <2>1, <2>2, <2>3, <2>4 DEF EnqueueStep, AddJob, AddJobFails
  <1>6. ASSUME NEW w \in Workers, WorkerStep(w) PROVE Refined
    <2>. DEFINE j == run[w].job
    <2>1. CASE MarkRunning(w)
      <3>1. j \in JobIds
        BY <2>1 DEF TypeOK, MarkRunning
      <3>2. CASE status[j] = "queued"
        <4>1. status' = [status EXCEPT ![j] = "running"]
          BY <2>1, <3>2 DEF MarkRunning
        <4>. HIDE DEF j
        <4>2. Lifecycle!Begin(j)
          BY <1>3, <3>1, <3>2, <4>1, PhasesOf DEF Lifecycle!Begin
        <4>. QED BY <3>1, <4>2 DEF Lifecycle!Next
      <3>3. CASE status[j] # "queued"
        BY <1>2, <2>1, <3>3 DEF MarkRunning
      <3>. QED BY <3>2, <3>3
    <2>2. ASSUME MarkSettled(w), run[w].pc = "settle" PROVE Refined
      <3>1. j \in JobIds /\ status[j] = "running"
        BY NothingLost, <2>2 DEF TypeOK, RowsInv, RowsFollow, Executing
      <3>2. run[w].verdict \in Verdicts
        BY <2>2 DEF TypeOK, Runs
      <3>3. status' = [status EXCEPT ![j] = run[w].verdict]
        BY <2>2, <3>1 DEF MarkSettled, Active
      <3>4. PhaseOf(run[w].verdict) \in {"done", "paused"}
        BY <3>2, PhasesOf
      <3>. HIDE DEF j
      <3>5. Lifecycle!End(j)
        BY <1>3, <3>1, <3>3, <3>4, PhasesOf DEF Lifecycle!End
      <3>. QED BY <3>1, <3>5 DEF Lifecycle!Next
    <2>3. ASSUME MarkSettled(w), run[w].pc = "rewrite" PROVE Refined
      <3>1. j \in JobIds /\ status[j] = "succeeded"
        BY <2>3 DEF TypeOK, RowsInv, RowsFollow, Succeeded
      <3>2. run[w].verdict \in {"failed"}
        BY NothingLost, <2>3 DEF RowsInv, RunsFollow
      <3>3. status' = [status EXCEPT ![j] = "failed"]
        BY <2>3, <3>2 DEF MarkSettled
      <3>. HIDE DEF j
      <3>4. \A i \in JobIds : PhaseOf(status'[i]) = PhaseOf(status[i])
        BY <1>1, <3>1, <3>3, PhasesOf
      <3>. QED BY <1>0, <3>4
    <2>4. MarkSettled(w) => run[w].pc \in {"settle", "rewrite"}
      BY DEF MarkSettled
    <2>. QED BY <1>2, <1>6, <2>1, <2>2, <2>3, <2>4
         DEF WorkerStep, Claim, Fail, Notify, NotifyFails, Finish, AbortForShutdown, EndBody
  <1>7. ASSUME NEW p \in Procs, ProcessStep(p) PROVE Refined
    <2>1. CASE InterruptOrphaned(p)
      <3>1. \A i \in JobIds : status'[i] = IF Active(i) THEN "interrupted" ELSE status[i]
        BY <2>1 DEF InterruptOrphaned
      <3>2. \A i \in JobIds : ph[i] \in {"waiting", "working"} <=> Active(i)
        BY <1>0, <1>1, PhasesOf DEF Active
      <3>3. ph' = [i \in JobIds |-> IF ph[i] \in {"waiting", "working"} THEN "done" ELSE ph[i]]
        BY <1>0, <3>1, <3>2, PhasesOf
      <3>4. Lifecycle!Reap
        BY <3>3 DEF Lifecycle!Reap, ph
      <3>. QED BY <3>4 DEF Lifecycle!Next
    <2>. QED BY <1>2, <1>7, <2>1 DEF ProcessStep, Crash, BeginStop, Stopped, StartWorker, Gone
  <1>8. ASSUME NEW j \in JobIds, CancelPaused(j) PROVE Refined
    <2>1. /\ ph[j] = "paused"
          /\ ph' = [i \in JobIds |-> IF i \in {j} THEN "done" ELSE ph[i]]
      BY <1>0, <1>1, <1>8, PhasesOf DEF CancelPaused
    <2>2. Lifecycle!Drop({j})
      BY <2>1 DEF Lifecycle!Drop, ph
    <2>. QED BY <2>2 DEF Lifecycle!Next
  <1>9. CASE UNCHANGED vars
    BY <1>2, <1>9 DEF vars
  <1>10. Cancellers = {}
    BY DEF Solo
  <1>. QED BY <1>5, <1>6, <1>7, <1>8, <1>9, <1>10 DEF Next

\* One process without cancels implements the abstract lifecycle: a job waits, works
\* and ends, and no two jobs of one workspace's key ever work at once.
THEOREM SoloImplementsLifecycle ==
  ASSUME Solo
  PROVE  Spec => ImplementsLifecycle
  <1>1. Init /\ PhasesAreRows => Lifecycle!Init
    BY PhasesOf DEF Init, PhasesAreRows, Lifecycle!Init
  <1>2. (TypeOK /\ RowsInv) /\ (TypeOK /\ RowsInv)' /\ PhasesAreRows /\ PhasesAreRows' /\ [Next]_vars
          => [Lifecycle!Next]_([j \in JobIds |-> Phase(j)])
    BY StepRefines
  <1>3. Spec => [](TypeOK /\ RowsInv)
    BY NothingLost, RowsInvariant
  <1>. QED BY <1>1, <1>2, <1>3, SoloPhases, PTL DEF Spec, ImplementsLifecycle, Lifecycle!Spec
=============================================================================
