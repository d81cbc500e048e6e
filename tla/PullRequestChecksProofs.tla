----------------------- MODULE PullRequestChecksProofs -----------------------
(***************************************************************************)
(* Theorems of PullRequestChecks.                                          *)
(*                                                                         *)
(* Typed says what the rows, the jobs, the lane and the calls are, and      *)
(* Points that their references are into one another: TypeInv is inductive  *)
(* for any number of calls.  The Facts lemmas say what each action writes,  *)
(* row by row, and the later proofs read the actions through them.          *)
(*                                                                         *)
(* The rest is of one call at a time (OneCaller): a call that reads what is *)
(* active and a call that makes a check do not know of one another, and two *)
(* of them leave two checks open.  Settled relates the call to the rows it  *)
(* attends to, and Headed the jobs to the rows: who carries an open check,  *)
(* who holds the key, and whose word an attempt that was refused waits for. *)
(* Told and Late follow GitHub's check of each row from post to completion. *)
(***************************************************************************)
EXTENDS PullRequestChecks, SequenceTheorems, TLAPS

PrSet == [head : Nat, open : BOOLEAN, draft : BOOLEAN]
Showing == {"none", "unposted", "open", "refused", "reopened"} \cup Words
CheckSet == [head : Nat, st : {"queued", "running", "settled"}, reason : Reasons,
             job : Nat, posted : BOOLEAN]
JobSet == [kind : Kinds, check : Nat, st : {"queued", "running", "done", "cancelled"},
           stopped : BOOLEAN]
CallSet == [pc : Pcs, effect : {"check", "draft", "close"}, head : Nat, check : Nat, job : Nat,
            reason : Reasons]
LanePcs == {"free", "open", "mark", "post", "work", "chain", "judge", "end", "hook"}
LaneSet == [pc : LanePcs, job : Nat, reason : Reasons]

Typed ==
  /\ pr \in PrSet /\ pr.head <= events
  /\ events \in 0 .. MaxEvents
  /\ checks \in Seq(CheckSet) /\ github \in Seq(Showing) /\ Len(github) = Len(checks)
  /\ jobs \in Seq(JobSet) /\ lane \in LaneSet /\ call \in [Calls -> CallSet]

\* One element of a sequence is written.
LEMMA OneWritten ==
  ASSUME NEW S, NEW s \in Seq(S), NEW k \in DOMAIN s, NEW v \in S, NEW t, t = [s EXCEPT ![k] = v]
  PROVE  /\ t \in Seq(S) /\ Len(t) = Len(s) /\ DOMAIN t = DOMAIN s /\ t[k] = v
         /\ \A l \in DOMAIN s : l # k => t[l] = s[l]
PROOF
<1>1. DOMAIN s = 1 .. Len(s) /\ Len(s) \in Nat /\ \A l \in 1 .. Len(s) : s[l] \in S
  BY ElementOfSeq, LenProperties
<1>. QED  BY <1>1

LEMMA OneAdded ==
  ASSUME NEW S, NEW s \in Seq(S), NEW v \in S, NEW t, t = Append(s, v)
  PROVE  /\ t \in Seq(S) /\ Len(t) = Len(s) + 1 /\ Len(s) \in Nat
         /\ DOMAIN s = 1 .. Len(s) /\ DOMAIN t = 1 .. Len(s) + 1
         /\ t[Len(s) + 1] = v
         /\ \A l \in DOMAIN s : t[l] = s[l]
PROOF BY AppendProperties, LenProperties

\* Each write to the rows, to GitHub and to the jobs, row by row.
LEMMA SettleRowFacts ==
  ASSUME Typed, NEW k \in DOMAIN checks, NEW reason \in Reasons, SettleRow(k, reason)
  PROVE  /\ checks' \in Seq(CheckSet) /\ Len(checks') = Len(checks) /\ DOMAIN checks' = DOMAIN checks
         /\ \A l \in DOMAIN checks :
              /\ checks'[l].head = checks[l].head /\ checks'[l].job = checks[l].job
              /\ checks'[l].posted = checks[l].posted
              /\ checks'[l].st = IF l = k THEN "settled" ELSE checks[l].st
              /\ checks'[l].reason = IF l = k /\ checks[l].st # "settled" THEN reason ELSE checks[l].reason
PROOF
<1>1. CASE ~ Open(k)  BY <1>1 DEF SettleRow, Open, Typed
<1>2. CASE Open(k)
  <2>. DEFINE v == [checks[k] EXCEPT !.st = "settled", !.reason = reason]
  <2>1. checks[k] \in CheckSet  BY ElementOfSeq, LenProperties DEF Typed
  <2>2. v \in CheckSet  BY <2>1 DEF CheckSet
  <2>3. checks' = [checks EXCEPT ![k] = v]  BY <1>2 DEF SettleRow
  <2>4. /\ v.head = checks[k].head /\ v.job = checks[k].job /\ v.posted = checks[k].posted
        /\ v.st = "settled" /\ v.reason = reason
    BY <2>1 DEF CheckSet
  <2>. HIDE DEF v
  <2>5. /\ checks' \in Seq(CheckSet) /\ Len(checks') = Len(checks) /\ DOMAIN checks' = DOMAIN checks
        /\ checks'[k] = v /\ \A l \in DOMAIN checks : l # k => checks'[l] = checks[l]
    BY <2>2, <2>3, OneWritten DEF Typed
  <2>. QED  BY <1>2, <2>4, <2>5 DEF Open
<1>. QED  BY <1>1, <1>2

LEMMA TellFacts ==
  ASSUME Typed, NEW k \in DOMAIN checks, NEW reason \in Words, Tell(k, reason)
  PROVE  /\ github' \in Seq(Showing) /\ Len(github') = Len(github) /\ DOMAIN github' = DOMAIN github
         /\ \A l \in DOMAIN github :
              IF l = k /\ Open(k) /\ checks[k].posted
              THEN github'[l] \in {reason, "refused"} ELSE github'[l] = github[l]
PROOF
<1>1. CASE ~ (Open(k) /\ checks[k].posted)  BY <1>1 DEF Tell, Typed
<1>2. CASE Open(k) /\ checks[k].posted
  <2>1. k \in DOMAIN github  BY LenProperties DEF Typed
  <2>2. PICK shown \in {reason, "refused"} : github' = [github EXCEPT ![k] = shown]
    BY <1>2 DEF Tell
  <2>3. shown \in Showing  BY DEF Showing
  <2>4. /\ github' \in Seq(Showing) /\ Len(github') = Len(github) /\ DOMAIN github' = DOMAIN github
        /\ github'[k] = shown /\ \A l \in DOMAIN github : l # k => github'[l] = github[l]
    BY <2>1, <2>2, <2>3, OneWritten DEF Typed
  <2>. QED  BY <1>2, <2>4
<1>. QED  BY <1>1, <1>2

LEMMA EnqueueFacts ==
  ASSUME Typed, NEW kind \in Kinds, NEW k \in Nat, Enqueue(kind, k)
  PROVE  /\ jobs' \in Seq(JobSet) /\ Len(jobs') = Len(jobs) + 1
         /\ DOMAIN jobs = 1 .. Len(jobs) /\ DOMAIN jobs' = 1 .. Len(jobs) + 1 /\ Len(jobs) \in Nat
         /\ \A j \in DOMAIN jobs : jobs'[j] = jobs[j]
         /\ LET n == jobs'[Len(jobs) + 1] IN
            n.kind = kind /\ n.check = k /\ n.st = "queued" /\ ~ n.stopped
PROOF
<1>. DEFINE v == [kind |-> kind, check |-> k, st |-> "queued", stopped |-> FALSE]
<1>1. v \in JobSet  BY DEF JobSet
<1>2. jobs' = Append(jobs, v)  BY DEF Enqueue
<1>3. v.kind = kind /\ v.check = k /\ v.st = "queued" /\ ~ v.stopped  OBVIOUS
<1>. HIDE DEF v
<1>. QED  BY <1>1, <1>2, <1>3, OneAdded DEF Typed

LEMMA JobWritten ==
  ASSUME Typed, NEW j \in DOMAIN jobs, NEW st \in {"queued", "running", "done", "cancelled"},
         NEW stopped \in BOOLEAN, 
         jobs' = [jobs EXCEPT ![j] = [jobs[j] EXCEPT !.st = st, !.stopped = stopped]]
  PROVE  /\ jobs' \in Seq(JobSet) /\ Len(jobs') = Len(jobs) /\ DOMAIN jobs' = DOMAIN jobs
         /\ \A i \in DOMAIN jobs :
              /\ jobs'[i].kind = jobs[i].kind /\ jobs'[i].check = jobs[i].check
              /\ i # j => jobs'[i] = jobs[i]
         /\ jobs'[j].st = st /\ jobs'[j].stopped = stopped
PROOF
<1>. DEFINE v == [jobs[j] EXCEPT !.st = st, !.stopped = stopped]
<1>1. jobs[j] \in JobSet  BY ElementOfSeq, LenProperties DEF Typed
<1>2. v \in JobSet  BY <1>1 DEF JobSet
<1>3. v.kind = jobs[j].kind /\ v.check = jobs[j].check /\ v.st = st  BY <1>1 DEF JobSet
<1>4. v.stopped = stopped  BY <1>1 DEF JobSet
<1>5. jobs' = [jobs EXCEPT ![j] = v]  OBVIOUS
<1>. HIDE DEF v
<1>6. /\ jobs' \in Seq(JobSet) /\ Len(jobs') = Len(jobs) /\ DOMAIN jobs' = DOMAIN jobs
      /\ jobs'[j] = v /\ \A i \in DOMAIN jobs : i # j => jobs'[i] = jobs[i]
  BY <1>2, <1>5, OneWritten DEF Typed
<1>7. ASSUME NEW i \in DOMAIN jobs
      PROVE  /\ jobs'[i].kind = jobs[i].kind /\ jobs'[i].check = jobs[i].check
             /\ i # j => jobs'[i] = jobs[i]
  BY <1>3, <1>6
<1>8. jobs'[j].st = st  BY <1>3, <1>6
<1>9. jobs'[j].stopped = stopped  BY <1>4, <1>6
<1>. QED  BY <1>6, <1>7, <1>8, <1>9

LEMMA JobsTyped ==
  ASSUME Typed
  PROVE  /\ DOMAIN checks = 1 .. Len(checks) /\ DOMAIN github = DOMAIN checks
         /\ DOMAIN jobs = 1 .. Len(jobs) /\ Len(checks) \in Nat /\ Len(jobs) \in Nat
         /\ \A k \in DOMAIN checks : checks[k] \in CheckSet /\ github[k] \in Showing
         /\ \A j \in DOMAIN jobs : jobs[j] \in JobSet
         /\ \A c \in Calls : call[c] \in CallSet
PROOF BY ElementOfSeq, LenProperties DEF Typed

\* The calls: a step of one leaves the others where they are.
LEMMA StepFacts ==
  ASSUME Typed, NEW c \in Calls, NEW pc \in Pcs, Step(c, pc)
  PROVE  /\ call' \in [Calls -> CallSet] /\ \A d \in Calls : d # c => call'[d] = call[d]
         /\ call'[c].pc = pc /\ call'[c].effect = call[c].effect /\ call'[c].head = call[c].head
         /\ call'[c].check = call[c].check /\ call'[c].job = call[c].job
PROOF
<1>1. call[c] \in CallSet  BY DEF Typed
<1>2. [call[c] EXCEPT !.pc = pc] \in CallSet  BY <1>1 DEF CallSet
<1>3. call' = [call EXCEPT ![c] = [call[c] EXCEPT !.pc = pc]]  BY DEF Step
<1>4. call'[c] = [call[c] EXCEPT !.pc = pc]  BY <1>3 DEF Typed
<1>. QED  BY <1>1, <1>2, <1>3, <1>4 DEF Typed, CallSet

LEMMA OverFacts ==
  ASSUME Typed, NEW c \in Calls, Over(c)
  PROVE  /\ call' \in [Calls -> CallSet] /\ \A d \in Calls : d # c => call'[d] = call[d]
         /\ call'[c].pc = "idle" /\ call'[c].head = 0 /\ call'[c].check = 0 /\ call'[c].job = 0
PROOF
<1>1. NoCall \in CallSet  BY DEF NoCall, CallSet, Pcs, Reasons
<1>2. call'[c] = NoCall  BY DEF Over, Typed
<1>. QED  BY <1>1, <1>2 DEF Over, Typed, NoCall

LEMMA SupersededFacts ==
  ASSUME Typed, NEW c \in Calls, Superseded(c)
  PROVE  /\ call' \in [Calls -> CallSet] /\ \A d \in Calls : d # c => call'[d] = call[d]
         /\ \/ /\ call[c].effect = "close" /\ call'[c].pc = "idle" /\ call'[c].head = 0
               /\ call'[c].check = 0 /\ call'[c].job = 0
            \/ /\ call[c].effect # "close" /\ call'[c].pc = "create" /\ call'[c].head = call[c].head
               /\ call'[c].check = call[c].check /\ call'[c].job = call[c].job
               /\ call'[c].effect = call[c].effect
PROOF
<1>1. "create" \in Pcs  BY DEF Pcs
<1>2. CASE call[c].effect = "close"  BY <1>2, OverFacts DEF Superseded
<1>3. CASE call[c].effect # "close"  BY <1>1, <1>3, StepFacts DEF Superseded
<1>. QED  BY <1>2, <1>3

\* What the references point at.
RowPoints ==
  \A k \in DOMAIN checks :
    /\ checks[k].head <= pr.head /\ checks[k].job <= Len(jobs)
    /\ checks[k].reason = "none" <=> Open(k)
JobPoints == \A j \in DOMAIN jobs : jobs[j].check \in DOMAIN checks
LanePoints ==
  /\ lane.job <= Len(jobs)
  /\ lane.pc # "free" => lane.job \in DOMAIN jobs
  /\ lane.pc = "judge" => lane.reason # "none"
WithCheck == {"settle", "post", "posted", "enqueue", "draft", "busy", "name"}
WithJob == {"job", "wait", "name"}
CallPoints(c) ==
  /\ call[c].head <= pr.head /\ call[c].check <= Len(checks)
  /\ call[c].pc \in WithCheck => call[c].check \in DOMAIN checks
  /\ call[c].pc \in WithJob => call[c].job \in DOMAIN jobs
Points == RowPoints /\ JobPoints /\ LanePoints /\ \A c \in Calls : CallPoints(c)

TypeInv == Typed /\ Points

SameCalls(c) == \A d \in Calls : d # c => call'[d] = call[d]


LEMMA PrOpens ==
  ASSUME NEW p \in PrSet, NEW b \in BOOLEAN, NEW q, q = [p EXCEPT !.open = b]
  PROVE  q \in PrSet /\ q.head = p.head /\ (q.open <=> b)
PROOF
<1>1. q \in PrSet  BY DEF PrSet
<1>2. q.head = p.head  BY DEF PrSet
<1>3. q.open = b  BY DEF PrSet
<1>. QED  BY <1>1, <1>2, <1>3

LEMMA PrDrafts ==
  ASSUME NEW p \in PrSet, NEW b \in BOOLEAN, NEW q, q = [p EXCEPT !.draft = b]
  PROVE  q \in PrSet /\ q.head = p.head /\ (q.open <=> p.open)
PROOF
<1>1. q \in PrSet  BY DEF PrSet
<1>2. q.head = p.head  BY DEF PrSet
<1>3. q.open = p.open  BY DEF PrSet
<1>. QED  BY <1>1, <1>2, <1>3

LEMMA ReceiveFacts ==
  ASSUME TypeInv, NEW c \in Calls, Receive(c)
  PROVE  /\ Typed' /\ SameCalls(c) /\ UNCHANGED <<checks, github, jobs, lane>>
         /\ call[c].pc = "idle" /\ events' = events + 1 /\ pr'.head >= pr.head
         /\ call'[c].pc \in {"stored", "active"} /\ call'[c].head = pr'.head /\ call'[c].check = 0
         /\ call'[c].effect = "close" <=> ~ pr'.open
         /\ call'[c].effect = "close" => call'[c].pc = "active"
PROOF
<1>1. /\ call[c].pc = "idle" /\ events < MaxEvents /\ events' = events + 1
      /\ UNCHANGED <<checks, github, jobs, lane>>
BY DEF Receive
<1>p. PICK effect \in {"push", "ready", "draft", "close", "reopen", "rerun"} :
       /\ \/ effect = "push" /\ pr.open /\ pr' = [pr EXCEPT !.head = @ + 1]
          \/ effect = "ready" /\ pr.open /\ pr.draft /\ pr' = [pr EXCEPT !.draft = FALSE]
          \/ effect = "draft" /\ pr.open /\ ~pr.draft /\ pr' = [pr EXCEPT !.draft = TRUE]
          \/ effect = "close" /\ pr.open /\ pr' = [pr EXCEPT !.open = FALSE]
          \/ effect = "reopen" /\ ~pr.open /\ pr' = [pr EXCEPT !.open = TRUE]
          \/ effect = "rerun" /\ pr.open /\ pr' = pr
       /\ call' = [call EXCEPT ![c] = [NoCall EXCEPT
            !.pc = IF effect = "close" \/ pr'.draft THEN "active" ELSE "stored",
            !.effect = IF effect = "close" THEN "close" ELSE IF pr'.draft THEN "draft" ELSE "check",
            !.head = pr'.head]]
  BY DEF Receive
<1>2. pr.head \in Nat /\ events \in Nat /\ pr.head <= events /\ pr \in PrSet
  BY DEF TypeInv, Typed, PrSet
<1>3. /\ pr' \in PrSet
      /\ pr'.head >= pr.head /\ pr'.head <= pr.head + 1 /\ pr'.head \in Nat
      /\ effect = "close" <=> ~ pr'.open
  <2>1. CASE effect = "push"
    <3>1. pr' = [pr EXCEPT !.head = @ + 1]  BY <1>p, <2>1
    <3>2. pr.open  BY <1>p, <2>1
    <3>3. pr' \in PrSet  BY <1>2, <3>1 DEF PrSet
    <3>4. pr'.head = pr.head + 1  BY <1>2, <3>1 DEF PrSet
    <3>5. pr'.open = pr.open  BY <1>2, <3>1 DEF PrSet
    <3>. QED  BY <1>2, <2>1, <3>2, <3>3, <3>4, <3>5
  <2>2. CASE effect = "ready"
    <3>1. pr' = [pr EXCEPT !.draft = FALSE]  BY <1>p, <2>2
    <3>2. pr.open  BY <1>p, <2>2
    <3>3. pr' \in PrSet /\ pr'.head = pr.head /\ (pr'.open <=> pr.open)  BY <1>2, <3>1, PrDrafts
    <3>. QED  BY <1>2, <2>2, <3>2, <3>3
  <2>3. CASE effect = "draft"
    <3>1. pr' = [pr EXCEPT !.draft = TRUE]  BY <1>p, <2>3
    <3>2. pr.open  BY <1>p, <2>3
    <3>3. pr' \in PrSet /\ pr'.head = pr.head /\ (pr'.open <=> pr.open)  BY <1>2, <3>1, PrDrafts
    <3>. QED  BY <1>2, <2>3, <3>2, <3>3
  <2>4. CASE effect = "close"
    <3>1. pr' = [pr EXCEPT !.open = FALSE]  BY <1>p, <2>4
    <3>2. pr' \in PrSet /\ pr'.head = pr.head /\ (pr'.open <=> FALSE)  BY <1>2, <3>1, PrOpens
    <3>. QED  BY <1>2, <2>4, <3>2
  <2>5. CASE effect = "reopen"
    <3>1. pr' = [pr EXCEPT !.open = TRUE]  BY <1>p, <2>5
    <3>2. pr' \in PrSet /\ pr'.head = pr.head /\ (pr'.open <=> TRUE)  BY <1>2, <3>1, PrOpens
    <3>. QED  BY <1>2, <2>5, <3>2
  <2>6. CASE effect = "rerun"
    <3>1. pr' = pr  BY <1>p, <2>6
    <3>2. pr.open  BY <1>p, <2>6
    <3>. QED  BY <1>2, <2>6, <3>1, <3>2
  <2>. QED  BY <2>1, <2>2, <2>3, <2>4, <2>5, <2>6
<1>. DEFINE pc == IF effect = "close" \/ pr'.draft THEN "active" ELSE "stored"
            eff == IF effect = "close" THEN "close" ELSE IF pr'.draft THEN "draft" ELSE "check"
            h == pr'.head
            v == [NoCall EXCEPT !.pc = pc, !.effect = eff, !.head = h]
<1>4. /\ pc \in {"stored", "active"} /\ pc \in Pcs /\ eff \in {"check", "draft", "close"} /\ h \in Nat
      /\ eff = "close" <=> effect = "close"
      /\ eff = "close" => pc = "active"
  BY <1>3 DEF Pcs
<1>5. call' = [call EXCEPT ![c] = v]  BY <1>p
<1>. HIDE DEF pc, eff, h
<1>6. v \in CallSet  BY <1>4 DEF NoCall, CallSet, Reasons
<1>7. v.pc = pc /\ v.head = h /\ v.check = 0 /\ v.effect = eff
  BY DEF NoCall
<1>. HIDE DEF v
<1>8. call' \in [Calls -> CallSet] /\ call'[c] = v /\ SameCalls(c)
  BY <1>5, <1>6 DEF TypeInv, Typed, SameCalls
<1>9. Typed'
  <2>1. events' \in 0 .. MaxEvents /\ pr'.head <= events'
    <3>1. MaxEvents \in Nat  BY ChecksAssumption
    <3>. QED  BY <1>1, <1>2, <1>3, <3>1
  <2>2. /\ checks' \in Seq(CheckSet) /\ github' \in Seq(Showing) /\ Len(github') = Len(checks')
        /\ jobs' \in Seq(JobSet) /\ lane' \in LaneSet
    BY <1>1 DEF TypeInv, Typed
  <2>. QED  BY <1>3, <1>8, <2>1, <2>2 DEF Typed
<1>. QED  BY <1>1, <1>3, <1>4, <1>7, <1>8, <1>9 DEF h

\* What becomes of a call: it goes on with what it holds, or is over.
Keeps(c) ==
  call'[c].effect = call[c].effect /\ call'[c].head = call[c].head /\ call'[c].check = call[c].check
Goes(c, pc) == SameCalls(c) /\ Keeps(c) /\ call'[c].pc = pc /\ call'[c].job = call[c].job
Ends(c) ==
  /\ SameCalls(c) /\ call'[c].pc = "idle"
  /\ call'[c].head = 0 /\ call'[c].check = 0 /\ call'[c].job = 0
Supersedes(c) ==
  \/ call[c].effect = "close" /\ Ends(c)
  \/ call[c].effect # "close" /\ Goes(c, "create")

\* What becomes of the rows and of GitHub's checks.
Settles(k, reason) ==
  /\ Len(checks') = Len(checks) /\ Len(github') = Len(github)
  /\ \A l \in DOMAIN checks :
       /\ checks'[l].head = checks[l].head /\ checks'[l].job = checks[l].job
       /\ checks'[l].posted = checks[l].posted
       /\ checks'[l].st = IF l = k THEN "settled" ELSE checks[l].st
       /\ checks'[l].reason = IF l = k /\ Open(k) THEN reason ELSE checks[l].reason
       /\ IF l = k /\ Open(k) /\ checks[k].posted
          THEN github'[l] \in {reason, "refused"} ELSE github'[l] = github[l]

LEMMA Settling ==
  ASSUME Typed, NEW k \in DOMAIN checks, NEW reason \in Words,
         SettleRow(k, reason), Tell(k, reason)
  PROVE  checks' \in Seq(CheckSet) /\ github' \in Seq(Showing) /\ Settles(k, reason)
PROOF
<1>1. DOMAIN github = DOMAIN checks  BY JobsTyped
<1>2. /\ github' \in Seq(Showing) /\ Len(github') = Len(github)
      /\ \A l \in DOMAIN checks :
           IF l = k /\ Open(k) /\ checks[k].posted
           THEN github'[l] \in {reason, "refused"} ELSE github'[l] = github[l]
  BY <1>1, TellFacts
<1>r. reason \in Reasons  BY DEF Reasons
<1>3. checks' \in Seq(CheckSet) /\ Len(checks') = Len(checks)  BY <1>r, SettleRowFacts
<1>4. ASSUME NEW l \in DOMAIN checks
      PROVE  /\ checks'[l].head = checks[l].head /\ checks'[l].job = checks[l].job
             /\ checks'[l].posted = checks[l].posted
             /\ checks'[l].st = IF l = k THEN "settled" ELSE checks[l].st
             /\ checks'[l].reason = IF l = k /\ Open(k) THEN reason ELSE checks[l].reason
  BY <1>r, SettleRowFacts DEF Open
<1>. QED  BY <1>2, <1>3, <1>4 DEF Settles

LEMMA CallWritten ==
  ASSUME Typed, NEW c \in Calls, NEW v \in CallSet, call' = [call EXCEPT ![c] = v]
  PROVE  call' \in [Calls -> CallSet] /\ call'[c] = v /\ SameCalls(c)
PROOF BY DEF Typed, SameCalls

LEMMA Stepping ==
  ASSUME Typed, NEW c \in Calls, NEW pc \in Pcs, Step(c, pc)
  PROVE  call' \in [Calls -> CallSet] /\ Goes(c, pc)
PROOF BY StepFacts DEF Goes, Keeps, SameCalls

LEMMA Ending ==
  ASSUME Typed, NEW c \in Calls, Over(c)
  PROVE  call' \in [Calls -> CallSet] /\ Ends(c)
PROOF BY OverFacts DEF Ends, SameCalls

LEMMA Superseding ==
  ASSUME Typed, NEW c \in Calls, Superseded(c)
  PROVE  call' \in [Calls -> CallSet] /\ Supersedes(c)
PROOF
<1>1. "create" \in Pcs  BY DEF Pcs
<1>2. CASE call[c].effect = "close"  BY <1>2, Ending DEF Superseded, Supersedes
<1>3. CASE call[c].effect # "close"  BY <1>1, <1>3, Stepping DEF Superseded, Supersedes
<1>. QED  BY <1>2, <1>3

\* A call that goes on with another check or another job.
LEMMA CallTakes ==
  ASSUME Typed, NEW c \in Calls, NEW pc \in Pcs, NEW k \in Nat, NEW j \in Nat,
         NEW v, v = [call[c] EXCEPT !.pc = pc, !.check = k, !.job = j],
         call' = [call EXCEPT ![c] = v]
  PROVE  /\ call' \in [Calls -> CallSet] /\ SameCalls(c)
         /\ call'[c].pc = pc /\ call'[c].check = k /\ call'[c].job = j
         /\ call'[c].effect = call[c].effect /\ call'[c].head = call[c].head
PROOF
<1>1. call[c] \in CallSet  BY DEF Typed
<1>2. v \in CallSet  BY <1>1 DEF CallSet
<1>3. v.pc = pc /\ v.check = k /\ v.job = j  BY <1>1 DEF CallSet
<1>4. v.effect = call[c].effect /\ v.head = call[c].head  BY <1>1 DEF CallSet
<1>6. call' \in [Calls -> CallSet] /\ call'[c] = v /\ SameCalls(c)  BY <1>2, CallWritten
<1>. QED  BY <1>3, <1>4, <1>6

LEMMA ReadStoredFacts ==
  ASSUME TypeInv, NEW c \in Calls, ReadStored(c)
  PROVE  /\ Typed' /\ UNCHANGED <<pr, checks, github, jobs, lane, events>>
         /\ call[c].pc = "stored"
         /\ \/ pr.open /\ pr.head = call[c].head /\ Goes(c, "active")
            \/ ~ (pr.open /\ pr.head = call[c].head) /\ Ends(c)
PROOF
<1>1. "active" \in Pcs  BY DEF Pcs
<1>2. CASE pr.open /\ pr.head = call[c].head
  BY <1>1, <1>2, Stepping DEF ReadStored, TypeInv, Typed
<1>3. CASE ~ (pr.open /\ pr.head = call[c].head)
  BY <1>1, <1>3, Ending DEF ReadStored, TypeInv, Typed
<1>. QED  BY <1>2, <1>3

LEMMA ReadActiveFacts ==
  ASSUME TypeInv, NEW c \in Calls, ReadActive(c)
  PROVE  /\ Typed' /\ UNCHANGED <<pr, checks, github, jobs, lane, events>>
         /\ call[c].pc = "active"
         /\ \/ OpenChecks = {} /\ Supersedes(c)
            \/ \E k \in OpenChecks :
                 /\ \A l \in OpenChecks : l <= k
                 /\ SameCalls(c) /\ call'[c].pc = "settle" /\ call'[c].check = k
                 /\ call'[c].effect = call[c].effect /\ call'[c].head = call[c].head
PROOF
<1>1. CASE OpenChecks = {}
  BY <1>1, Superseding DEF ReadActive, TypeInv, Typed
<1>2. CASE OpenChecks # {}
  <2>1. PICK k \in OpenChecks : /\ \A l \in OpenChecks : l <= k
                               /\ call' = [call EXCEPT ![c].pc = "settle", ![c].check = k]
    BY <1>2 DEF ReadActive
  <2>2. call[c] \in CallSet /\ call[c].job \in Nat  BY DEF TypeInv, Typed, CallSet
  <2>3. k \in Nat  BY JobsTyped DEF OpenChecks, TypeInv
  <2>4. "settle" \in Pcs  BY DEF Pcs
  <2>. DEFINE v == [call[c] EXCEPT !.pc = "settle", !.check = k]
  <2>5. v \in CallSet  BY <2>2, <2>3, <2>4 DEF CallSet
  <2>6. v.pc = "settle" /\ v.check = k /\ v.effect = call[c].effect /\ v.head = call[c].head
    BY <2>2 DEF CallSet
  <2>9. call' = [call EXCEPT ![c] = v]  BY <2>1
  <2>. HIDE DEF v
  <2>7. /\ call' \in [Calls -> CallSet] /\ SameCalls(c)
        /\ call'[c].pc = "settle" /\ call'[c].check = k
        /\ call'[c].effect = call[c].effect /\ call'[c].head = call[c].head
    <3>1. call' \in [Calls -> CallSet] /\ call'[c] = v /\ SameCalls(c)
      BY <2>5, <2>9, CallWritten DEF TypeInv
    <3>. QED  BY <2>6, <3>1
  <2>8. UNCHANGED <<pr, checks, github, jobs, lane, events>> /\ call[c].pc = "active"
    BY DEF ReadActive
  <2>. QED  BY <2>1, <2>7, <2>8 DEF TypeInv, Typed
<1>. QED  BY <1>1, <1>2

LEMMA SettleActiveFacts ==
  ASSUME TypeInv, NEW c \in Calls, SettleActive(c)
  PROVE  /\ Typed' /\ UNCHANGED <<pr, jobs, lane, events>>
         /\ call[c].pc = "settle" /\ call[c].check \in DOMAIN checks
         /\ Settles(call[c].check, Reason(c))
         /\ \/ /\ Open(call[c].check) /\ checks[call[c].check].job # 0
               /\ SameCalls(c) /\ Keeps(c)
               /\ call'[c].pc = "job" /\ call'[c].job = checks[call[c].check].job
            \/ /\ ~ (Open(call[c].check) /\ checks[call[c].check].job # 0)
               /\ Supersedes(c)
PROOF
<1>. DEFINE k == call[c].check
<1>1. /\ call[c].pc = "settle" /\ UNCHANGED <<pr, jobs, lane, events>>
      /\ SettleRow(k, Reason(c)) /\ Tell(k, Reason(c))
  BY DEF SettleActive
<1>2. k \in DOMAIN checks /\ Reason(c) \in Words
  BY <1>1 DEF TypeInv, Points, CallPoints, WithCheck, Reason, Words
<1>3. checks' \in Seq(CheckSet) /\ github' \in Seq(Showing) /\ Settles(k, Reason(c))
  BY <1>1, <1>2, Settling DEF TypeInv
<1>4. CASE Open(k) /\ checks[k].job # 0
  <2>1. call' = [call EXCEPT ![c].pc = "job", ![c].job = checks[k].job]
    BY <1>4 DEF SettleActive
  <2>2. call[c] \in CallSet /\ call[c].check \in Nat  BY DEF TypeInv, Typed, CallSet
  <2>3. checks[k].job \in Nat  BY <1>2, JobsTyped DEF TypeInv, CheckSet
  <2>4. "job" \in Pcs  BY DEF Pcs
  <2>5. call' = [call EXCEPT ![c] =
          [call[c] EXCEPT !.pc = "job", !.check = call[c].check, !.job = checks[k].job]]
    <3>1. [call[c] EXCEPT !.pc = "job", !.check = call[c].check, !.job = checks[k].job]
            = [call[c] EXCEPT !.pc = "job", !.job = checks[k].job]
      BY <2>2 DEF CallSet
    <3>. QED  BY <2>1, <3>1
  <2>6. PICK i \in Nat, l \in Nat : i = checks[k].job /\ l = call[c].check  BY <2>2, <2>3
  <2>7. call' \in [Calls -> CallSet] /\ SameCalls(c) /\ Keeps(c)
        /\ call'[c].pc = "job" /\ call'[c].job = checks[k].job
    <3>1. PICK v : /\ v = [call[c] EXCEPT !.pc = "job", !.check = l, !.job = i]
                   /\ call' = [call EXCEPT ![c] = v]
      BY <2>5, <2>6
    <3>2. Typed  BY DEF TypeInv
    <3>3. /\ call' \in [Calls -> CallSet] /\ SameCalls(c)
          /\ call'[c].pc = "job" /\ call'[c].check = l /\ call'[c].job = i
          /\ call'[c].effect = call[c].effect /\ call'[c].head = call[c].head
      BY <2>4, <3>1, <3>2, CallTakes
    <3>. QED  BY <2>6, <3>3 DEF Keeps
  <2>. QED  BY <1>1, <1>2, <1>3, <1>4, <2>7 DEF TypeInv, Typed, Settles
<1>5. CASE ~ (Open(k) /\ checks[k].job # 0)
  <2>1. Superseded(c)  BY <1>5 DEF SettleActive
  <2>2. call' \in [Calls -> CallSet] /\ Supersedes(c)  BY <2>1, Superseding DEF TypeInv
  <2>. QED  BY <1>1, <1>2, <1>3, <1>5, <2>2 DEF TypeInv, Typed, Settles
<1>. QED  BY <1>4, <1>5

\* One job changes its state or is told to stop.
Writes(j, st, stopped) ==
  /\ Len(jobs') = Len(jobs)
  /\ \A i \in DOMAIN jobs :
       /\ jobs'[i].kind = jobs[i].kind /\ jobs'[i].check = jobs[i].check
       /\ i # j => jobs'[i] = jobs[i]
  /\ jobs'[j].st = st /\ jobs'[j].stopped = stopped

\* A job joins the queue.
Joins(kind, k) ==
  /\ Len(jobs') = Len(jobs) + 1
  /\ \A j \in DOMAIN jobs : jobs'[j] = jobs[j]
  /\ jobs'[Len(jobs) + 1].kind = kind /\ jobs'[Len(jobs) + 1].check = k
  /\ jobs'[Len(jobs) + 1].st = "queued" /\ ~ jobs'[Len(jobs) + 1].stopped

LEMMA Writing ==
  ASSUME Typed, NEW j \in DOMAIN jobs, NEW st \in {"queued", "running", "done", "cancelled"},
         jobs' = [jobs EXCEPT ![j].st = st]
  PROVE  jobs' \in Seq(JobSet) /\ Writes(j, st, jobs[j].stopped)
PROOF
<1>1. jobs[j] \in JobSet /\ jobs[j].stopped \in BOOLEAN  BY JobsTyped DEF JobSet
<1>2. PICK stopped \in BOOLEAN : stopped = jobs[j].stopped  BY <1>1
<1>3. [jobs[j] EXCEPT !.st = st] = [jobs[j] EXCEPT !.st = st, !.stopped = stopped]
  BY <1>1, <1>2 DEF JobSet
<1>4. jobs' = [jobs EXCEPT ![j] = [jobs[j] EXCEPT !.st = st, !.stopped = stopped]]  BY <1>3
<1>5. jobs' \in Seq(JobSet) /\ Writes(j, st, stopped)
  <2>1. /\ jobs' \in Seq(JobSet) /\ Len(jobs') = Len(jobs)
        /\ \A i \in DOMAIN jobs :
             /\ jobs'[i].kind = jobs[i].kind /\ jobs'[i].check = jobs[i].check
             /\ i # j => jobs'[i] = jobs[i]
        /\ jobs'[j].st = st /\ jobs'[j].stopped = stopped
    BY <1>4, JobWritten, ZenonT(60)
  <2>. QED  BY <2>1 DEF Writes
<1>. QED  BY <1>2, <1>5

LEMMA Joining ==
  ASSUME Typed, NEW kind \in Kinds, NEW k \in Nat, Enqueue(kind, k)
  PROVE  jobs' \in Seq(JobSet) /\ Joins(kind, k)
PROOF BY EnqueueFacts DEF Joins

LEMMA StopJobFacts ==
  ASSUME TypeInv, NEW c \in Calls, StopJob(c)
  PROVE  /\ Typed' /\ UNCHANGED <<pr, checks, github, lane, events>>
         /\ call[c].pc = "job" /\ call[c].job \in DOMAIN jobs
         /\ \/ /\ jobs[call[c].job].st = "queued" /\ Supersedes(c)
               /\ Writes(call[c].job, "cancelled", jobs[call[c].job].stopped)
            \/ /\ jobs[call[c].job].st = "running" /\ Goes(c, "wait")
               /\ Writes(call[c].job, "running", TRUE)
            \/ /\ jobs[call[c].job].st \notin {"queued", "running"} /\ Supersedes(c)
               /\ UNCHANGED jobs
PROOF
<1>1. /\ call[c].pc = "job" /\ UNCHANGED <<pr, checks, github, lane, events>>
  BY DEF StopJob
<1>2. PICK j \in DOMAIN jobs : j = call[c].job  BY <1>1 DEF TypeInv, Points, CallPoints, WithCheck, WithJob
<1>t. Typed  BY DEF TypeInv
<1>3. jobs[j] \in JobSet  BY <1>t, JobsTyped
<1>4. CASE jobs[j].st = "queued"
  <2>1. jobs' = [jobs EXCEPT ![j].st = "cancelled"] /\ Superseded(c)  BY <1>2, <1>4 DEF StopJob
  <2>2. jobs' \in Seq(JobSet) /\ Writes(j, "cancelled", jobs[j].stopped)  BY <1>t, <2>1, Writing
  <2>3. call' \in [Calls -> CallSet] /\ Supersedes(c)  BY <1>t, <2>1, Superseding
  <2>. QED  BY <1>t, <1>1, <1>2, <1>4, <2>2, <2>3 DEF Typed
<1>5. CASE jobs[j].st = "running"
  <2>1. jobs' = [jobs EXCEPT ![j].stopped = TRUE] /\ Step(c, "wait")  BY <1>2, <1>5 DEF StopJob
  <2>2. [jobs[j] EXCEPT !.stopped = TRUE] = [jobs[j] EXCEPT !.st = "running", !.stopped = TRUE]
    BY <1>3, <1>5 DEF JobSet
  <2>3. jobs' = [jobs EXCEPT ![j] = [jobs[j] EXCEPT !.st = "running", !.stopped = TRUE]]
    BY <2>1, <2>2
  <2>4. jobs' \in Seq(JobSet) /\ Writes(j, "running", TRUE)  BY <1>t, <2>3, JobWritten, ZenonT(60) DEF Writes
  <2>5. call' \in [Calls -> CallSet] /\ Goes(c, "wait")
    <3>1. "wait" \in Pcs  BY DEF Pcs
    <3>. QED  BY <1>t, <2>1, <3>1, Stepping
  <2>. QED  BY <1>t, <1>1, <1>2, <1>5, <2>4, <2>5 DEF Typed
<1>6. CASE jobs[j].st \notin {"queued", "running"}
  <2>1. jobs' = [jobs EXCEPT ![j].stopped = @ \/ FALSE] /\ Superseded(c)
    BY <1>2, <1>6 DEF StopJob
  <2>2. jobs[j].stopped \in BOOLEAN  BY <1>3 DEF JobSet
  <2>3. [jobs[j] EXCEPT !.stopped = @ \/ FALSE] = jobs[j]  BY <1>3, <2>2 DEF JobSet
  <2>4. jobs' = jobs  BY <1>t, <2>1, <2>3 DEF Typed
  <2>5. call' \in [Calls -> CallSet] /\ Supersedes(c)  BY <1>t, <2>1, Superseding
  <2>. QED  BY <1>t, <1>1, <1>2, <1>6, <2>4, <2>5 DEF Typed
<1>. QED  BY <1>4, <1>5, <1>6

LEMMA UnwoundFacts ==
  ASSUME TypeInv, NEW c \in Calls, Unwound(c)
  PROVE  /\ Typed' /\ UNCHANGED <<pr, checks, github, jobs, lane, events>>
         /\ call[c].pc = "wait" /\ ~ Live(call[c].job) /\ Supersedes(c)
PROOF BY Superseding DEF Unwound, TypeInv, Typed

LEMMA OutlastFacts ==
  ASSUME TypeInv, NEW c \in Calls, Outlast(c)
  PROVE  /\ Typed' /\ UNCHANGED <<pr, checks, github, lane, events>>
         /\ call[c].pc = "wait" /\ call[c].job \in DOMAIN jobs /\ Supersedes(c)
         /\ Writes(call[c].job, "cancelled", jobs[call[c].job].stopped)
PROOF
<1>1. /\ call[c].pc = "wait" /\ UNCHANGED <<pr, checks, github, lane, events>> /\ Superseded(c)
  BY DEF Outlast
<1>t. Typed  BY DEF TypeInv
<1>2. PICK j \in DOMAIN jobs : j = call[c].job  BY <1>1 DEF TypeInv, Points, CallPoints, WithCheck, WithJob
<1>3. jobs' = [jobs EXCEPT ![j].st = "cancelled"]  BY <1>2 DEF Outlast
<1>4. jobs' \in Seq(JobSet) /\ Writes(j, "cancelled", jobs[j].stopped)  BY <1>t, <1>3, Writing
<1>5. call' \in [Calls -> CallSet] /\ Supersedes(c)  BY <1>t, <1>1, Superseding
<1>. QED  BY <1>t, <1>1, <1>2, <1>4, <1>5 DEF Typed

LEMMA CreateCheckFacts ==
  ASSUME TypeInv, NEW c \in Calls, CreateCheck(c)
  PROVE  /\ Typed' /\ UNCHANGED <<pr, jobs, lane, events>>
         /\ call[c].pc = "create"
         /\ Len(checks') = Len(checks) + 1 /\ Len(github') = Len(github) + 1
         /\ \A k \in DOMAIN checks : checks'[k] = checks[k] /\ github'[k] = github[k]
         /\ LET n == checks'[Len(checks) + 1] IN
              n.head = call[c].head /\ n.st = "queued" /\ n.reason = "none" /\ n.job = 0 /\ ~ n.posted
         /\ github'[Len(checks) + 1] = "none"
         /\ SameCalls(c) /\ call'[c].pc = "post" /\ call'[c].check = Len(checks) + 1
         /\ call'[c].effect = call[c].effect /\ call'[c].head = call[c].head
PROOF
<1>. DEFINE v == [head |-> call[c].head, st |-> "queued", reason |-> "none", job |-> 0, posted |-> FALSE]
            w == [call[c] EXCEPT !.pc = "post", !.check = Len(checks) + 1]
<1>t. Typed  BY DEF TypeInv
<1>1. /\ call[c].pc = "create" /\ UNCHANGED <<pr, jobs, lane, events>>
      /\ checks' = Append(checks, v) /\ github' = Append(github, "none")
      /\ call' = [call EXCEPT ![c] = w]
  BY DEF CreateCheck
<1>2. call[c] \in CallSet /\ Len(checks) \in Nat /\ DOMAIN checks = 1 .. Len(checks)
      /\ DOMAIN github = DOMAIN checks /\ Len(github) = Len(checks)
  BY <1>t, JobsTyped DEF Typed
<1>3. v \in CheckSet /\ w \in CallSet
  <2>1. call[c].head \in Nat /\ "none" \in Reasons /\ "post" \in Pcs
    BY <1>2 DEF CallSet, Reasons, Pcs
  <2>2. v \in CheckSet  BY <2>1 DEF CheckSet
  <2>3. PICK n \in Nat : n = Len(checks) + 1  BY <1>2
  <2>4. [call[c] EXCEPT !.pc = "post", !.check = n] \in CallSet  BY <1>2, <2>1 DEF CallSet
  <2>5. w \in CallSet  BY <2>3, <2>4
  <2>. QED  BY <2>2, <2>5
<1>4. /\ v.head = call[c].head /\ v.st = "queued" /\ v.reason = "none" /\ v.job = 0 /\ ~ v.posted
      /\ w.pc = "post" /\ w.check = Len(checks) + 1
      /\ w.effect = call[c].effect /\ w.head = call[c].head
  BY <1>2 DEF CallSet
<1>. HIDE DEF v, w
<1>5. /\ checks' \in Seq(CheckSet) /\ Len(checks') = Len(checks) + 1
      /\ checks'[Len(checks) + 1] = v /\ \A k \in DOMAIN checks : checks'[k] = checks[k]
  BY <1>t, <1>1, <1>3, OneAdded DEF Typed
<1>6. /\ github' \in Seq(Showing) /\ Len(github') = Len(github) + 1
      /\ github'[Len(checks) + 1] = "none" /\ \A k \in DOMAIN github : github'[k] = github[k]
  <2>1. "none" \in Showing  BY DEF Showing
  <2>. QED  BY <1>t, <1>1, <1>2, <2>1, OneAdded DEF Typed
<1>7. call' \in [Calls -> CallSet] /\ call'[c] = w /\ SameCalls(c)  BY <1>t, <1>1, <1>3, CallWritten
<1>8. Typed'  BY <1>t, <1>1, <1>2, <1>5, <1>6, <1>7 DEF Typed
<1>. QED  BY <1>1, <1>2, <1>4, <1>5, <1>6, <1>7, <1>8

\* Where a call goes once GitHub has answered.
Onward(c) == IF call[c].effect = "draft" THEN "draft" ELSE "enqueue"

LEMMA PostFacts ==
  ASSUME TypeInv, NEW c \in Calls, Post(c)
  PROVE  /\ Typed' /\ UNCHANGED <<pr, checks, jobs, lane, events>>
         /\ call[c].pc = "post" /\ call[c].check \in DOMAIN checks
         /\ \A k \in DOMAIN checks : k # call[c].check => github'[k] = github[k]
         /\ \/ Goes(c, "posted") /\ github'[call[c].check] = "open"
            \/ Goes(c, Onward(c)) /\ github'[call[c].check] = "unposted"
PROOF
<1>t. Typed  BY DEF TypeInv
<1>1. call[c].pc = "post" /\ UNCHANGED <<pr, checks, jobs, lane, events>>  BY DEF Post
<1>2. PICK k \in DOMAIN checks : k = call[c].check  BY <1>1 DEF TypeInv, Points, CallPoints, WithCheck, WithJob
<1>d. DOMAIN github = DOMAIN checks  BY <1>t, JobsTyped
<1>3. CASE github' = [github EXCEPT ![k] = "open"] /\ Step(c, "posted")
  <2>1. "open" \in Showing /\ "posted" \in Pcs  BY DEF Showing, Pcs
  <2>2. call' \in [Calls -> CallSet] /\ Goes(c, "posted")  BY <1>t, <1>3, <2>1, Stepping
  <2>3. /\ github' \in Seq(Showing) /\ Len(github') = Len(github) /\ github'[k] = "open"
        /\ \A l \in DOMAIN checks : l # k => github'[l] = github[l]
    BY <1>t, <1>d, <1>3, <2>1, OneWritten DEF Typed
  <2>. QED  BY <1>t, <1>1, <1>2, <2>2, <2>3 DEF Typed
<1>4. CASE github' = [github EXCEPT ![k] = "unposted"] /\ Step(c, Onward(c))
  <2>1. "unposted" \in Showing /\ Onward(c) \in Pcs  BY DEF Showing, Onward, Pcs
  <2>2. call' \in [Calls -> CallSet] /\ Goes(c, Onward(c))  BY <1>t, <1>4, <2>1, Stepping
  <2>3. /\ github' \in Seq(Showing) /\ Len(github') = Len(github) /\ github'[k] = "unposted"
        /\ \A l \in DOMAIN checks : l # k => github'[l] = github[l]
    BY <1>t, <1>d, <1>4, <2>1, OneWritten DEF Typed
  <2>. QED  BY <1>t, <1>1, <1>2, <2>2, <2>3 DEF Typed
<1>. QED  BY <1>2, <1>3, <1>4 DEF Post, Onward

\* A row that is written in place: its state, its job, whether GitHub took it.
LEMMA RowWritten ==
  ASSUME Typed, NEW k \in DOMAIN checks, NEW st \in {"queued", "running", "settled"},
         NEW job \in Nat, NEW posted \in BOOLEAN,
         checks' = [checks EXCEPT ![k] = [checks[k] EXCEPT !.st = st, !.job = job, !.posted = posted]]
  PROVE  /\ checks' \in Seq(CheckSet) /\ Len(checks') = Len(checks)
         /\ \A l \in DOMAIN checks :
              /\ checks'[l].head = checks[l].head /\ checks'[l].reason = checks[l].reason
              /\ l # k => checks'[l] = checks[l]
         /\ checks'[k].st = st /\ checks'[k].job = job /\ checks'[k].posted = posted
PROOF
<1>. DEFINE v == [checks[k] EXCEPT !.st = st, !.job = job, !.posted = posted]
<1>1. checks[k] \in CheckSet  BY JobsTyped
<1>2. v \in CheckSet  BY <1>1 DEF CheckSet
<1>3. v.head = checks[k].head /\ v.reason = checks[k].reason  BY <1>1 DEF CheckSet
<1>4. v.st = st /\ v.job = job  BY <1>1 DEF CheckSet
<1>5. v.posted = posted  BY <1>1 DEF CheckSet
<1>6. checks' = [checks EXCEPT ![k] = v]  OBVIOUS
<1>. HIDE DEF v
<1>7. /\ checks' \in Seq(CheckSet) /\ Len(checks') = Len(checks)
      /\ checks'[k] = v /\ \A l \in DOMAIN checks : l # k => checks'[l] = checks[l]
  BY <1>2, <1>6, OneWritten DEF Typed
<1>8. ASSUME NEW l \in DOMAIN checks
      PROVE  /\ checks'[l].head = checks[l].head /\ checks'[l].reason = checks[l].reason
             /\ l # k => checks'[l] = checks[l]
  BY <1>3, <1>7
<1>9. checks'[k].posted = posted  BY <1>5, <1>7
<1>. QED  BY <1>4, <1>7, <1>8, <1>9

\* What is written of row k, if it is still open.
Rewrites(k, st, job, posted) ==
  /\ Len(checks') = Len(checks)
  /\ \A l \in DOMAIN checks :
       /\ checks'[l].head = checks[l].head /\ checks'[l].reason = checks[l].reason
       /\ l # k => checks'[l] = checks[l]
  /\ checks'[k].st = st /\ checks'[k].job = job /\ checks'[k].posted = posted

LEMMA RememberPostFacts ==
  ASSUME TypeInv, NEW c \in Calls, RememberPost(c)
  PROVE  /\ Typed' /\ UNCHANGED <<pr, github, jobs, lane, events>>
         /\ call[c].pc = "posted" /\ call[c].check \in DOMAIN checks /\ Goes(c, Onward(c))
         /\ \/ /\ Open(call[c].check)
               /\ Rewrites(call[c].check, checks[call[c].check].st, checks[call[c].check].job, TRUE)
            \/ ~ Open(call[c].check) /\ UNCHANGED checks
PROOF
<1>t. Typed  BY DEF TypeInv
<1>1. call[c].pc = "posted" /\ UNCHANGED <<pr, github, jobs, lane, events>> /\ Step(c, Onward(c))
  BY DEF RememberPost, Onward
<1>2. PICK k \in DOMAIN checks : k = call[c].check  BY <1>1 DEF TypeInv, Points, CallPoints, WithCheck, WithJob
<1>3. call' \in [Calls -> CallSet] /\ Goes(c, Onward(c))
  <2>1. Onward(c) \in Pcs  BY DEF Onward, Pcs
  <2>. QED  BY <1>t, <1>1, <2>1, Stepping
<1>4. CASE Open(k)
  <2>1. checks' = [checks EXCEPT ![k].posted = TRUE]  BY <1>2, <1>4 DEF RememberPost
  <2>2. checks[k] \in CheckSet  BY <1>t, JobsTyped
  <2>3. PICK st \in {"queued", "running", "settled"}, job \in Nat :
          st = checks[k].st /\ job = checks[k].job
    BY <2>2 DEF CheckSet
  <2>4. [checks[k] EXCEPT !.posted = TRUE]
          = [checks[k] EXCEPT !.st = st, !.job = job, !.posted = TRUE]
    BY <2>2, <2>3 DEF CheckSet
  <2>5. checks' = [checks EXCEPT ![k] = [checks[k] EXCEPT !.st = st, !.job = job, !.posted = TRUE]]
    BY <2>1, <2>4
  <2>6. checks' \in Seq(CheckSet) /\ Rewrites(k, st, job, TRUE)
    BY <1>t, <2>5, RowWritten, ZenonT(60) DEF Rewrites
  <2>7. Rewrites(k, checks[k].st, checks[k].job, TRUE)  BY <2>3, <2>6 DEF Rewrites
  <2>8. Typed'  BY <1>t, <1>1, <1>3, <2>6 DEF Typed, Rewrites
  <2>. QED  BY <1>1, <1>2, <1>3, <1>4, <2>7, <2>8
<1>5. CASE ~ Open(k)
  <2>1. checks' = checks  BY <1>2, <1>5 DEF RememberPost
  <2>2. Typed'  BY <1>t, <1>1, <1>3, <2>1 DEF Typed
  <2>. QED  BY <1>1, <1>2, <1>3, <1>5, <2>1, <2>2
<1>. QED  BY <1>4, <1>5

LEMMA EnqueueCheckFacts ==
  ASSUME TypeInv, NEW c \in Calls, EnqueueCheck(c)
  PROVE  /\ Typed' /\ UNCHANGED <<pr, checks, github, lane, events>>
         /\ call[c].pc = "enqueue" /\ call[c].check \in DOMAIN checks
         /\ \/ KeyHeld("coordinator") /\ Goes(c, "busy") /\ UNCHANGED jobs
            \/ /\ ~ KeyHeld("coordinator") /\ Joins("coordinator", call[c].check)
               /\ SameCalls(c) /\ Keeps(c)
               /\ call'[c].pc = "name" /\ call'[c].job = Len(jobs) + 1
PROOF
<1>t. Typed  BY DEF TypeInv
<1>1. call[c].pc = "enqueue" /\ UNCHANGED <<pr, checks, github, lane, events>>  BY DEF EnqueueCheck
<1>2. PICK k \in DOMAIN checks : k = call[c].check  BY <1>1 DEF TypeInv, Points, CallPoints, WithCheck, WithJob
<1>3. CASE KeyHeld("coordinator")
  <2>1. Step(c, "busy") /\ jobs' = jobs  BY <1>3 DEF EnqueueCheck
  <2>2. "busy" \in Pcs  BY DEF Pcs
  <2>3. call' \in [Calls -> CallSet] /\ Goes(c, "busy")  BY <1>t, <2>1, <2>2, Stepping
  <2>4. Typed'  BY <1>t, <1>1, <2>1, <2>3 DEF Typed
  <2>. QED  BY <1>1, <1>2, <1>3, <2>1, <2>3, <2>4
<1>4. CASE ~ KeyHeld("coordinator")
  <2>. DEFINE v == [call[c] EXCEPT !.pc = "name", !.job = Len(jobs) + 1]
  <2>1. Enqueue("coordinator", k) /\ call' = [call EXCEPT ![c] = v]  BY <1>2, <1>4 DEF EnqueueCheck
  <2>2. k \in Nat /\ "coordinator" \in Kinds  BY <1>t, JobsTyped DEF Kinds
  <2>3. jobs' \in Seq(JobSet) /\ Joins("coordinator", k)  BY <1>t, <2>1, <2>2, Joining
  <2>4. call[c] \in CallSet /\ Len(jobs) \in Nat  BY <1>t, JobsTyped
  <2>5. v \in CallSet
    <3>1. "name" \in Pcs  BY DEF Pcs
    <3>2. PICK n \in Nat : n = Len(jobs) + 1  BY <2>4
    <3>3. [call[c] EXCEPT !.pc = "name", !.job = n] \in CallSet  BY <2>4, <3>1 DEF CallSet
    <3>. QED  BY <3>2, <3>3
  <2>6. /\ v.pc = "name" /\ v.job = Len(jobs) + 1 /\ v.check = call[c].check
        /\ v.effect = call[c].effect /\ v.head = call[c].head
    BY <2>4 DEF CallSet
  <2>. HIDE DEF v
  <2>7. call' \in [Calls -> CallSet] /\ call'[c] = v /\ SameCalls(c)  BY <1>t, <2>1, <2>5, CallWritten
  <2>8. Typed'  BY <1>t, <1>1, <2>3, <2>7 DEF Typed
  <2>. QED  BY <1>1, <1>2, <1>4, <2>3, <2>6, <2>7, <2>8 DEF Keeps
<1>. QED  BY <1>3, <1>4

LEMMA SettleNewFacts ==
  ASSUME TypeInv, NEW c \in Calls, SettleNew(c)
  PROVE  /\ Typed' /\ UNCHANGED <<pr, jobs, lane, events>>
         /\ call[c].pc \in {"draft", "busy"} /\ call[c].check \in DOMAIN checks /\ Ends(c)
         /\ Settles(call[c].check, IF call[c].pc = "draft" THEN "draft" ELSE "cancelled")
PROOF
<1>t. Typed  BY DEF TypeInv
<1>1. /\ call[c].pc \in {"draft", "busy"} /\ UNCHANGED <<pr, jobs, lane, events>> /\ Over(c)
  BY DEF SettleNew
<1>2. PICK k \in DOMAIN checks : k = call[c].check  BY <1>1 DEF TypeInv, Points, CallPoints, WithCheck, WithJob
<1>3. PICK reason \in Words : reason = IF call[c].pc = "draft" THEN "draft" ELSE "cancelled"
  BY DEF Words
<1>4. SettleRow(k, reason) /\ Tell(k, reason)
  BY <1>2, <1>3 DEF SettleNew
<1>5. checks' \in Seq(CheckSet) /\ github' \in Seq(Showing) /\ Settles(k, reason)
  BY <1>t, <1>4, Settling
<1>6. call' \in [Calls -> CallSet] /\ Ends(c)  BY <1>t, <1>1, Ending
<1>7. Typed'  BY <1>t, <1>1, <1>5, <1>6 DEF Typed, Settles
<1>8. Settles(call[c].check, IF call[c].pc = "draft" THEN "draft" ELSE "cancelled")
  BY <1>2, <1>3, <1>5
<1>. QED  BY <1>1, <1>2, <1>6, <1>7, <1>8

LEMMA NameJobFacts ==
  ASSUME TypeInv, NEW c \in Calls, NameJob(c)
  PROVE  /\ Typed' /\ UNCHANGED <<pr, github, jobs, lane, events>>
         /\ call[c].pc = "name" /\ call[c].check \in DOMAIN checks /\ Ends(c)
         /\ \/ /\ Open(call[c].check)
               /\ Rewrites(call[c].check, checks[call[c].check].st, call[c].job,
                           checks[call[c].check].posted)
            \/ ~ Open(call[c].check) /\ UNCHANGED checks
PROOF
<1>t. Typed  BY DEF TypeInv
<1>1. call[c].pc = "name" /\ UNCHANGED <<pr, github, jobs, lane, events>> /\ Over(c)
  BY DEF NameJob
<1>2. PICK k \in DOMAIN checks, j \in Nat : k = call[c].check /\ j = call[c].job
  BY <1>1 DEF TypeInv, Points, CallPoints, WithCheck, WithJob, Typed, CallSet
<1>3. call' \in [Calls -> CallSet] /\ Ends(c)  BY <1>t, <1>1, Ending
<1>4. CASE Open(k)
  <2>1. checks' = [checks EXCEPT ![k].job = j]  BY <1>2, <1>4 DEF NameJob
  <2>2. checks[k] \in CheckSet  BY <1>t, JobsTyped
  <2>3. PICK st \in {"queued", "running", "settled"}, posted \in BOOLEAN :
          st = checks[k].st /\ posted = checks[k].posted
    BY <2>2 DEF CheckSet
  <2>4. [checks[k] EXCEPT !.job = j] = [checks[k] EXCEPT !.st = st, !.job = j, !.posted = posted]
    BY <2>2, <2>3 DEF CheckSet
  <2>5. checks' = [checks EXCEPT ![k] = [checks[k] EXCEPT !.st = st, !.job = j, !.posted = posted]]
    BY <2>1, <2>4
  <2>6. checks' \in Seq(CheckSet) /\ Rewrites(k, st, j, posted)
    <3>1. /\ checks' \in Seq(CheckSet) /\ Len(checks') = Len(checks)
          /\ \A l \in DOMAIN checks :
               /\ checks'[l].head = checks[l].head /\ checks'[l].reason = checks[l].reason
               /\ l # k => checks'[l] = checks[l]
          /\ checks'[k].st = st /\ checks'[k].job = j /\ checks'[k].posted = posted
      BY <1>t, <2>5, RowWritten, ZenonT(60)
    <3>. QED  BY <3>1 DEF Rewrites
  <2>7. Rewrites(k, checks[k].st, j, checks[k].posted)  BY <2>3, <2>6 DEF Rewrites
  <2>8. Typed'  BY <1>t, <1>1, <1>3, <2>6 DEF Typed, Rewrites
  <2>9. Rewrites(call[c].check, checks[call[c].check].st, call[c].job, checks[call[c].check].posted)
    BY <1>2, <2>7
  <2>. QED  BY <1>1, <1>2, <1>3, <1>4, <2>8, <2>9
<1>5. CASE ~ Open(k)
  <2>1. checks' = checks  BY <1>2, <1>5 DEF NameJob
  <2>2. Typed'  BY <1>t, <1>1, <1>3, <2>1 DEF Typed
  <2>. QED  BY <1>1, <1>2, <1>3, <1>5, <2>1, <2>2
<1>. QED  BY <1>4, <1>5

\* The lane goes on with the job it has.
Moves(pc, reason) == lane'.pc = pc /\ lane'.reason = reason /\ lane'.job = lane.job
Freed == lane'.pc = "free" /\ lane'.reason = "none" /\ lane'.job = 0

LEMMA LaneSteps ==
  ASSUME Typed, NEW pc \in LanePcs, lane' = [lane EXCEPT !.pc = pc]
  PROVE  lane' \in LaneSet /\ Moves(pc, lane.reason)
PROOF
<1>1. lane' \in LaneSet  BY DEF Typed, LaneSet
<1>. QED  BY <1>1 DEF Typed, LaneSet, Moves

LEMMA LaneMoves ==
  ASSUME Typed, NEW pc \in LanePcs, NEW reason \in Reasons,
         lane' = [lane EXCEPT !.pc = pc, !.reason = reason]
  PROVE  lane' \in LaneSet /\ Moves(pc, reason)
PROOF
<1>1. lane' \in LaneSet  BY DEF Typed, LaneSet
<1>. QED  BY <1>1 DEF Typed, LaneSet, Moves

LEMMA LaneFreed ==
  ASSUME Typed, lane' = NoJob
  PROVE  lane' \in LaneSet /\ Freed
PROOF BY DEF LaneSet, LanePcs, NoJob, Freed, Reasons

LEMMA LaneKnown ==
  ASSUME TypeInv, lane.pc # "free"
  PROVE  /\ lane.job \in DOMAIN jobs /\ jobs[lane.job] \in JobSet
         /\ Mine \in DOMAIN checks /\ checks[Mine] \in CheckSet
         /\ lane.reason \in Reasons
PROOF BY JobsTyped DEF TypeInv, Points, JobPoints, LanePoints, Mine, Typed, LaneSet

LEMMA ClaimFacts ==
  ASSUME TypeInv, Claim
  PROVE  /\ Typed' /\ UNCHANGED <<pr, checks, github, call, events>> /\ lane.pc = "free"
         /\ \E j \in DOMAIN jobs :
              /\ jobs[j].st = "queued" /\ Writes(j, "running", jobs[j].stopped)
              /\ \A i \in DOMAIN jobs : jobs[i].st = "queued" => j <= i
              /\ lane'.pc = "open" /\ lane'.job = j /\ lane'.reason = "none"
PROOF
<1>t. Typed  BY DEF TypeInv
<1>1. lane.pc = "free" /\ UNCHANGED <<pr, checks, github, call, events>>  BY DEF Claim
<1>2. PICK j \in DOMAIN jobs :
       /\ jobs[j].st = "queued"
       /\ \A i \in DOMAIN jobs : jobs[i].st = "queued" => j <= i
       /\ jobs' = [jobs EXCEPT ![j].st = "running"]
       /\ lane' = [NoJob EXCEPT !.pc = "open", !.job = j]
  BY DEF Claim
<1>3. jobs' \in Seq(JobSet) /\ Writes(j, "running", jobs[j].stopped)  BY <1>t, <1>2, Writing
<1>4. j \in Nat  BY <1>t, JobsTyped
<1>5. lane' \in LaneSet  BY <1>2, <1>4 DEF NoJob, LaneSet, LanePcs, Reasons
<1>6. lane'.pc = "open" /\ lane'.job = j /\ lane'.reason = "none"  BY <1>2 DEF NoJob
<1>7. Typed'  BY <1>t, <1>1, <1>3, <1>5 DEF Typed
<1>. QED  BY <1>1, <1>2, <1>3, <1>6, <1>7

LEMMA ReadCheckFacts ==
  ASSUME TypeInv, ReadCheck
  PROVE  /\ Typed' /\ UNCHANGED <<pr, checks, github, jobs, call, events>> /\ lane.pc = "open"
         /\ Moves(IF Open(Mine) THEN "mark" ELSE "end", lane.reason)
PROOF
<1>t. Typed  BY DEF TypeInv
<1>1. lane.pc = "open" /\ UNCHANGED <<pr, checks, github, jobs, call, events>>  BY DEF ReadCheck
<1>2. PICK pc \in LanePcs : pc = IF Open(Mine) THEN "mark" ELSE "end"  BY DEF LanePcs
<1>3. lane' = [lane EXCEPT !.pc = pc]  BY <1>2 DEF ReadCheck
<1>4. lane' \in LaneSet /\ Moves(pc, lane.reason)  BY <1>t, <1>3, LaneSteps
<1>5. Typed'  BY <1>t, <1>1, <1>4 DEF Typed
<1>. QED  BY <1>1, <1>2, <1>4, <1>5

LEMMA MarkCheckFacts ==
  ASSUME TypeInv, MarkCheck
  PROVE  /\ Typed' /\ UNCHANGED <<pr, github, jobs, call, events>>
         /\ lane.pc = "mark" /\ Mine \in DOMAIN checks
         /\ \/ /\ Open(Mine) /\ Moves("post", lane.reason)
               /\ Rewrites(Mine, "running", lane.job, checks[Mine].posted)
            \/ ~ Open(Mine) /\ Moves("end", lane.reason) /\ UNCHANGED checks
PROOF
<1>t. Typed  BY DEF TypeInv
<1>1. lane.pc = "mark" /\ UNCHANGED <<pr, github, jobs, call, events>>  BY DEF MarkCheck
<1>2. PICK k \in DOMAIN checks, j \in Nat : k = Mine /\ j = lane.job
  BY <1>1, LaneKnown DEF TypeInv, Typed, LaneSet
<1>p. "post" \in LanePcs /\ "end" \in LanePcs  BY DEF LanePcs
<1>3. CASE Open(k)
  <2>1. /\ checks' = [checks EXCEPT ![k].st = "running", ![k].job = j]
        /\ lane' = [lane EXCEPT !.pc = "post"]
    BY <1>2, <1>3 DEF MarkCheck
  <2>2. checks[k] \in CheckSet  BY <1>t, JobsTyped
  <2>3. PICK posted \in BOOLEAN : posted = checks[k].posted  BY <2>2 DEF CheckSet
  <2>4. [checks[k] EXCEPT !.st = "running", !.job = j]
          = [checks[k] EXCEPT !.st = "running", !.job = j, !.posted = posted]
    BY <2>2, <2>3 DEF CheckSet
  <2>a. checks' = [checks EXCEPT ![k] = [checks[k] EXCEPT !.st = "running", !.job = j]]
    BY <1>t, <2>1 DEF Typed
  <2>5. checks' = [checks EXCEPT ![k] =
                     [checks[k] EXCEPT !.st = "running", !.job = j, !.posted = posted]]
    BY <2>a, <2>4
  <2>6. checks' \in Seq(CheckSet) /\ Rewrites(k, "running", j, posted)
    BY <1>t, <2>5, RowWritten, ZenonT(60) DEF Rewrites
  <2>7. Rewrites(Mine, "running", lane.job, checks[Mine].posted)  BY <1>2, <2>3, <2>6
  <2>8. lane' \in LaneSet /\ Moves("post", lane.reason)  BY <1>t, <1>p, <2>1, LaneSteps
  <2>9. Typed'  BY <1>t, <1>1, <2>6, <2>8 DEF Typed, Rewrites
  <2>. QED  BY <1>1, <1>2, <1>3, <2>7, <2>8, <2>9
<1>4. CASE ~ Open(k)
  <2>1. checks' = checks /\ lane' = [lane EXCEPT !.pc = "end"]  BY <1>2, <1>4 DEF MarkCheck
  <2>2. lane' \in LaneSet /\ Moves("end", lane.reason)  BY <1>t, <1>p, <2>1, LaneSteps
  <2>3. Typed'  BY <1>t, <1>1, <2>1, <2>2 DEF Typed
  <2>. QED  BY <1>1, <1>2, <1>4, <2>1, <2>2, <2>3
<1>. QED  BY <1>3, <1>4

LEMMA PostProgressFacts ==
  ASSUME TypeInv, PostProgress
  PROVE  /\ Typed' /\ UNCHANGED <<pr, checks, jobs, call, events>>
         /\ lane.pc = "post" /\ Mine \in DOMAIN checks /\ Moves("work", lane.reason)
         /\ \A k \in DOMAIN checks :
              \/ github'[k] = github[k]
              \/ k = Mine /\ ~ Open(k) /\ checks[k].posted /\ github'[k] = "reopened"
PROOF
<1>t. Typed  BY DEF TypeInv
<1>1. /\ lane.pc = "post" /\ UNCHANGED <<pr, checks, jobs, call, events>>
      /\ lane' = [lane EXCEPT !.pc = "work"]
  BY DEF PostProgress
<1>2. PICK k \in DOMAIN checks : k = Mine  BY <1>1, LaneKnown
<1>3. lane' \in LaneSet /\ Moves("work", lane.reason)
  <2>1. "work" \in LanePcs  BY DEF LanePcs
  <2>. QED  BY <1>t, <1>1, <2>1, LaneSteps
<1>4. /\ github' \in Seq(Showing) /\ Len(github') = Len(github)
      /\ \A l \in DOMAIN checks :
           \/ github'[l] = github[l]
           \/ l = k /\ ~ Open(l) /\ checks[l].posted /\ github'[l] = "reopened"
  <2>1. CASE UNCHANGED github  BY <1>t, <2>1 DEF Typed
  <2>2. CASE ~ Open(k) /\ checks[k].posted /\ github' = [github EXCEPT ![k] = "reopened"]
    <3>1. "reopened" \in Showing /\ DOMAIN github = DOMAIN checks  BY <1>t, JobsTyped DEF Showing
    <3>2. /\ github' \in Seq(Showing) /\ Len(github') = Len(github) /\ github'[k] = "reopened"
          /\ \A l \in DOMAIN checks : l # k => github'[l] = github[l]
      BY <1>t, <2>2, <3>1, OneWritten DEF Typed
    <3>. QED  BY <2>2, <3>2
  <2>. QED  BY <1>2, <2>1, <2>2 DEF PostProgress
<1>5. Typed'  BY <1>t, <1>1, <1>3, <1>4 DEF Typed
<1>. QED  BY <1>1, <1>2, <1>3, <1>4, <1>5

LEMMA WorkFacts ==
  ASSUME TypeInv, Work
  PROVE  /\ Typed' /\ UNCHANGED <<pr, checks, github, jobs, call, events>> /\ lane.pc = "work"
         /\ \/ Moves("end", "error")
            \/ jobs[lane.job].stopped /\ Moves("end", lane.reason)
            \/ Moves(IF Coordinates THEN "judge" ELSE "end", "judged")
            \/ Coordinates /\ Moves(IF Open(Mine) THEN "chain" ELSE "end", lane.reason)
PROOF
<1>t. Typed  BY DEF TypeInv
<1>1. lane.pc = "work" /\ UNCHANGED <<pr, checks, github, jobs, call, events>>  BY DEF Work
<1>p. "end" \in LanePcs /\ "error" \in Reasons /\ "judged" \in Reasons  BY DEF LanePcs, Reasons, Words
<1>2. PICK pc1 \in LanePcs : pc1 = IF Coordinates THEN "judge" ELSE "end"  BY DEF LanePcs
<1>3. PICK pc2 \in LanePcs : pc2 = IF Open(Mine) THEN "chain" ELSE "end"  BY DEF LanePcs
<1>4. /\ lane' \in LaneSet
      /\ \/ Moves("end", "error")
         \/ jobs[lane.job].stopped /\ Moves("end", lane.reason)
         \/ Moves(pc1, "judged")
         \/ Coordinates /\ Moves(pc2, lane.reason)
  <2>1. CASE lane' = [lane EXCEPT !.pc = "end", !.reason = "error"]  BY <1>t, <1>p, <2>1, LaneMoves
  <2>2. CASE jobs[lane.job].stopped /\ lane' = [lane EXCEPT !.pc = "end"]
    BY <1>t, <1>p, <2>2, LaneSteps
  <2>3. CASE lane' = [lane EXCEPT !.pc = pc1, !.reason = "judged"]  BY <1>t, <1>p, <2>3, LaneMoves
  <2>4. CASE Coordinates /\ lane' = [lane EXCEPT !.pc = pc2]  BY <1>t, <2>4, LaneSteps
  <2>. QED  BY <1>2, <1>3, <2>1, <2>2, <2>3, <2>4 DEF Work
<1>5. Typed'  BY <1>t, <1>1, <1>4 DEF Typed
<1>. QED  BY <1>1, <1>2, <1>3, <1>4, <1>5

LEMMA ChainFacts ==
  ASSUME TypeInv, Chain
  PROVE  /\ Typed' /\ UNCHANGED <<pr, checks, github, call, events>>
         /\ lane.pc = "chain" /\ Mine \in DOMAIN checks
         /\ \/ KeyHeld("link") /\ Moves("judge", "error") /\ UNCHANGED jobs
            \/ ~ KeyHeld("link") /\ Moves("end", lane.reason) /\ Joins("link", Mine)
PROOF
<1>t. Typed  BY DEF TypeInv
<1>1. lane.pc = "chain" /\ UNCHANGED <<pr, checks, github, call, events>>  BY DEF Chain
<1>p. "end" \in LanePcs /\ "judge" \in LanePcs /\ "error" \in Reasons /\ "link" \in Kinds
  BY DEF LanePcs, Reasons, Words, Kinds
<1>2. PICK k \in DOMAIN checks : k = Mine  BY <1>1, LaneKnown
<1>3. CASE KeyHeld("link")
  <2>1. lane' = [lane EXCEPT !.pc = "judge", !.reason = "error"] /\ jobs' = jobs
    BY <1>3 DEF Chain
  <2>2. lane' \in LaneSet /\ Moves("judge", "error")  BY <1>t, <1>p, <2>1, LaneMoves
  <2>3. Typed'  BY <1>t, <1>1, <2>1, <2>2 DEF Typed
  <2>. QED  BY <1>1, <1>2, <1>3, <2>1, <2>2, <2>3
<1>4. CASE ~ KeyHeld("link")
  <2>1. lane' = [lane EXCEPT !.pc = "end"] /\ Enqueue("link", k)  BY <1>2, <1>4 DEF Chain
  <2>2. lane' \in LaneSet /\ Moves("end", lane.reason)  BY <1>t, <1>p, <2>1, LaneSteps
  <2>3. k \in Nat  BY <1>t, JobsTyped
  <2>4. jobs' \in Seq(JobSet) /\ Joins("link", k)  BY <1>t, <1>p, <2>1, <2>3, Joining
  <2>5. Typed'  BY <1>t, <1>1, <2>2, <2>4 DEF Typed
  <2>6. Joins("link", Mine)  BY <1>2, <2>4
  <2>. QED  BY <1>1, <1>2, <1>4, <2>2, <2>5, <2>6
<1>. QED  BY <1>3, <1>4

\* A check that is decided is settled as SettleRow and Tell do it, if it is still open.
LEMMA Deciding ==
  ASSUME Typed, NEW k \in DOMAIN checks, k = Mine, NEW reason \in Words, Decide(reason)
  PROVE  checks' \in Seq(CheckSet) /\ github' \in Seq(Showing) /\ Settles(Mine, reason)
PROOF
<1>1. SettleRow(k, reason) /\ Tell(k, reason)  BY DEF Decide
<1>2. checks' \in Seq(CheckSet) /\ github' \in Seq(Showing) /\ Settles(k, reason)  BY <1>1, Settling
<1>. QED  BY <1>2

LEMMA JudgeFacts ==
  ASSUME TypeInv, Judge
  PROVE  /\ Typed' /\ UNCHANGED <<pr, jobs, call, events>>
         /\ lane.pc = "judge" /\ Mine \in DOMAIN checks /\ Moves("end", "none")
         /\ Settles(Mine, lane.reason)
PROOF
<1>t. Typed  BY DEF TypeInv
<1>1. /\ lane.pc = "judge" /\ UNCHANGED <<pr, jobs, call, events>> /\ Decide(lane.reason)
      /\ lane' = [lane EXCEPT !.pc = "end", !.reason = "none"]
  BY DEF Judge
<1>2. PICK k \in DOMAIN checks, reason \in Words : k = Mine /\ reason = lane.reason
  BY <1>1, LaneKnown DEF TypeInv, Points, LanePoints, Reasons
<1>3. Decide(reason)  BY <1>1, <1>2
<1>4. checks' \in Seq(CheckSet) /\ github' \in Seq(Showing) /\ Settles(Mine, reason)
  BY <1>t, <1>2, <1>3, Deciding
<1>5. lane' \in LaneSet /\ Moves("end", "none")
  <2>1. "end" \in LanePcs /\ "none" \in Reasons  BY DEF LanePcs, Reasons
  <2>. QED  BY <1>t, <1>1, <2>1, LaneMoves
<1>6. Typed'  BY <1>t, <1>1, <1>4, <1>5 DEF Typed, Settles
<1>. QED  BY <1>1, <1>2, <1>4, <1>5, <1>6

LEMMA EndJobFacts ==
  ASSUME TypeInv, EndJob
  PROVE  /\ Typed' /\ UNCHANGED <<pr, checks, github, call, events>>
         /\ lane.pc = "end" /\ lane.job \in DOMAIN jobs
         /\ \/ /\ jobs[lane.job].stopped /\ Moves("hook", "cancelled")
               /\ Writes(lane.job, "cancelled", jobs[lane.job].stopped)
            \/ /\ ~ jobs[lane.job].stopped /\ Moves("hook", lane.reason)
               /\ Writes(lane.job, "done", jobs[lane.job].stopped)
PROOF
<1>t. Typed  BY DEF TypeInv
<1>1. lane.pc = "end" /\ UNCHANGED <<pr, checks, github, call, events>>  BY DEF EndJob
<1>2. PICK j \in DOMAIN jobs : j = lane.job  BY <1>1, LaneKnown
<1>3. lane.reason \in Reasons  BY <1>1, LaneKnown
<1>p. "hook" \in LanePcs /\ "cancelled" \in Reasons  BY DEF LanePcs, Reasons, Words
<1>4. CASE jobs[j].stopped
  <2>1. /\ jobs' = [jobs EXCEPT ![j].st = "cancelled"]
        /\ lane' = [lane EXCEPT !.pc = "hook", !.reason = "cancelled"]
    BY <1>2, <1>4 DEF EndJob
  <2>2. lane' \in LaneSet /\ Moves("hook", "cancelled")  BY <1>t, <1>p, <2>1, LaneMoves
  <2>3. jobs' \in Seq(JobSet) /\ Writes(j, "cancelled", jobs[j].stopped)  BY <1>t, <2>1, Writing
  <2>4. Typed'  BY <1>t, <1>1, <2>2, <2>3 DEF Typed
  <2>. QED  BY <1>1, <1>2, <1>4, <2>2, <2>3, <2>4
<1>5. CASE ~ jobs[j].stopped
  <2>1. /\ jobs' = [jobs EXCEPT ![j].st = "done"]
        /\ lane' = [lane EXCEPT !.pc = "hook", !.reason = lane.reason]
    BY <1>2, <1>5 DEF EndJob
  <2>2. PICK reason \in Reasons : reason = lane.reason  BY <1>3
  <2>3. lane' = [lane EXCEPT !.pc = "hook", !.reason = reason]  BY <2>1, <2>2
  <2>4. lane' \in LaneSet /\ Moves("hook", reason)  BY <1>t, <1>p, <2>3, LaneMoves
  <2>5. jobs' \in Seq(JobSet) /\ Writes(j, "done", jobs[j].stopped)  BY <1>t, <2>1, Writing
  <2>6. Typed'  BY <1>t, <1>1, <2>4, <2>5 DEF Typed
  <2>. QED  BY <1>1, <1>2, <1>5, <2>2, <2>4, <2>5, <2>6
<1>. QED  BY <1>4, <1>5

LEMMA SettleMineFacts ==
  ASSUME TypeInv, SettleMine
  PROVE  /\ Typed' /\ UNCHANGED <<pr, jobs, call, events>>
         /\ lane.pc = "hook" /\ Mine \in DOMAIN checks /\ Freed
         /\ \/ lane.reason = "none" /\ UNCHANGED <<checks, github>>
            \/ lane.reason # "none" /\ Settles(Mine, lane.reason)
PROOF
<1>t. Typed  BY DEF TypeInv
<1>1. lane.pc = "hook" /\ UNCHANGED <<pr, jobs, call, events>> /\ lane' = NoJob  BY DEF SettleMine
<1>2. PICK k \in DOMAIN checks, reason \in Reasons : k = Mine /\ reason = lane.reason
  BY <1>1, LaneKnown
<1>3. lane' \in LaneSet /\ Freed  BY <1>t, <1>1, LaneFreed
<1>4. CASE lane.reason = "none"
  <2>1. UNCHANGED <<checks, github>>  BY <1>4 DEF SettleMine
  <2>2. Typed'  BY <1>t, <1>1, <1>3, <2>1 DEF Typed
  <2>. QED  BY <1>1, <1>2, <1>3, <1>4, <2>1, <2>2
<1>5. CASE lane.reason # "none"
  <2>1. Decide(reason) /\ reason \in Words  BY <1>2, <1>5 DEF SettleMine, Reasons
  <2>2. checks' \in Seq(CheckSet) /\ github' \in Seq(Showing) /\ Settles(Mine, reason)
    BY <1>t, <1>2, <2>1, Deciding
  <2>3. Typed'  BY <1>t, <1>1, <1>3, <2>2 DEF Typed, Settles
  <2>. QED  BY <1>1, <1>2, <1>3, <1>5, <2>2, <2>3
<1>. QED  BY <1>4, <1>5

\* The numbers of a state, and the domains they bound.
Sized ==
  /\ pr.head \in Nat /\ Len(checks) \in Nat /\ Len(jobs) \in Nat /\ lane.job \in Nat
  /\ DOMAIN checks = 1 .. Len(checks) /\ DOMAIN jobs = 1 .. Len(jobs)
  /\ \A k \in DOMAIN checks : checks[k].head \in Nat /\ checks[k].job \in Nat
  /\ \A j \in DOMAIN jobs : jobs[j].check \in Nat
  /\ \A c \in Calls : call[c].head \in Nat /\ call[c].check \in Nat /\ call[c].job \in Nat

LEMMA Sizes == (Typed => Sized) /\ (Typed' => Sized')
PROOF
<1>1. ASSUME Typed PROVE Sized
  <2>1. \A k \in DOMAIN checks : checks[k] \in CheckSet  BY <1>1, JobsTyped
  <2>2. \A j \in DOMAIN jobs : jobs[j] \in JobSet  BY <1>1, JobsTyped
  <2>. QED  BY <1>1, <2>1, <2>2, JobsTyped DEF Typed, Sized, PrSet, LaneSet, CheckSet, JobSet, CallSet
<1>2. ASSUME Typed' PROVE Sized'
  <2>1. /\ DOMAIN checks' = 1 .. Len(checks') /\ DOMAIN jobs' = 1 .. Len(jobs')
        /\ Len(checks') \in Nat /\ Len(jobs') \in Nat
        /\ \A k \in DOMAIN checks' : checks'[k] \in CheckSet
        /\ \A j \in DOMAIN jobs' : jobs'[j] \in JobSet
    BY <1>2, ElementOfSeq, LenProperties DEF Typed
  <2>. QED  BY <1>2, <2>1 DEF Typed, Sized, PrSet, LaneSet, CheckSet, JobSet, CallSet
<1>. QED  BY <1>1, <1>2

\* Nothing that is pointed at goes away.
Grows == pr'.head >= pr.head /\ Len(checks') >= Len(checks) /\ Len(jobs') >= Len(jobs)

LEMMA RowsStand ==
  ASSUME Sized, Sized', RowPoints, Grows, UNCHANGED checks
  PROVE  RowPoints'
PROOF BY DEF Sized, Grows, RowPoints, Open

LEMMA RowsSettle ==
  ASSUME Sized, Sized', RowPoints, Grows,
         NEW k \in DOMAIN checks, NEW reason, reason # "none", Settles(k, reason)
  PROVE  RowPoints'
PROOF
<1>. SUFFICES ASSUME NEW l \in DOMAIN checks'
              PROVE  /\ checks'[l].head <= pr'.head /\ checks'[l].job <= Len(jobs')
                     /\ checks'[l].reason = "none" <=> checks'[l].st # "settled"
  BY DEF RowPoints, Open
<1>1. l \in DOMAIN checks  BY DEF Sized, Settles
<1>2. checks'[l].head = checks[l].head /\ checks'[l].job = checks[l].job  BY <1>1 DEF Settles
<1>3. checks'[l].head <= pr'.head /\ checks'[l].job <= Len(jobs')
  BY <1>1, <1>2 DEF Sized, Grows, RowPoints
<1>4. checks'[l].reason = "none" <=> checks'[l].st # "settled"
  <2>1. CASE l = k  BY <1>1, <2>1 DEF RowPoints, Settles, Open
  <2>2. CASE l # k  BY <1>1, <2>2 DEF RowPoints, Settles, Open
  <2>. QED  BY <2>1, <2>2
<1>. QED  BY <1>3, <1>4

LEMMA RowsRewritten ==
  ASSUME Sized, Sized', RowPoints, Grows,
         NEW k \in DOMAIN checks, NEW st, st # "settled", Open(k),
         NEW job, job <= Len(jobs), NEW posted, Rewrites(k, st, job, posted)
  PROVE  RowPoints'
PROOF
<1>. SUFFICES ASSUME NEW l \in DOMAIN checks'
              PROVE  /\ checks'[l].head <= pr'.head /\ checks'[l].job <= Len(jobs')
                     /\ checks'[l].reason = "none" <=> checks'[l].st # "settled"
  BY DEF RowPoints, Open
<1>1. l \in DOMAIN checks  BY DEF Sized, Rewrites
<1>2. CASE l = k  BY <1>1, <1>2 DEF Sized, Grows, RowPoints, Rewrites, Open
<1>3. CASE l # k  BY <1>1, <1>3 DEF Sized, Grows, RowPoints, Rewrites, Open
<1>. QED  BY <1>2, <1>3

LEMMA JobsStand ==
  ASSUME Sized, Sized', JobPoints, Grows, Len(jobs') = Len(jobs),
         \A j \in DOMAIN jobs : jobs'[j].check = jobs[j].check
  PROVE  JobPoints'
PROOF BY DEF Sized, Grows, JobPoints

LEMMA JobsJoined ==
  ASSUME Sized, Sized', JobPoints, Grows, NEW kind, NEW k \in DOMAIN checks, Joins(kind, k)
  PROVE  JobPoints'
PROOF
<1>. SUFFICES ASSUME NEW j \in DOMAIN jobs' PROVE jobs'[j].check \in DOMAIN checks'
  BY DEF JobPoints
<1>1. CASE j = Len(jobs) + 1  BY <1>1 DEF Sized, Grows, Joins
<1>2. CASE j # Len(jobs) + 1
  <2>1. j \in DOMAIN jobs  BY <1>2 DEF Sized, Joins
  <2>. QED  BY <2>1 DEF Sized, Grows, JobPoints, Joins
<1>. QED  BY <1>1, <1>2

LEMMA CallStands ==
  ASSUME Sized, Sized', Grows, NEW d \in Calls, CallPoints(d), call'[d] = call[d]
  PROVE  CallPoints(d)'
PROOF BY DEF Sized, Grows, CallPoints

LEMMA LaneStands ==
  ASSUME Sized, Sized', Grows, LanePoints, UNCHANGED lane
  PROVE  LanePoints'
PROOF BY DEF Sized, Grows, LanePoints

LEMMA LaneGoesOn ==
  ASSUME Sized, Sized', Grows, LanePoints, lane.pc # "free",
         NEW pc, NEW reason, Moves(pc, reason), pc = "judge" => reason # "none"
  PROVE  LanePoints'
PROOF BY DEF Sized, Grows, LanePoints, Moves

LEMMA CallSupersedes ==
  ASSUME Sized, Sized', Grows, NEW c \in Calls, CallPoints(c), Supersedes(c)
  PROVE  CallPoints(c)'
PROOF
<1>1. CASE Ends(c)  BY <1>1 DEF Sized, Grows, CallPoints, Ends, WithCheck, WithJob
<1>2. CASE Goes(c, "create")
  BY <1>2 DEF Sized, Grows, CallPoints, Goes, Keeps, WithCheck, WithJob
<1>. QED  BY <1>1, <1>2 DEF Supersedes

LEMMA CallEnds ==
  ASSUME Sized, Sized', Grows, NEW c \in Calls, Ends(c)
  PROVE  CallPoints(c)'
PROOF BY DEF Sized, Grows, CallPoints, Ends, WithCheck, WithJob

LEMMA CallGoes ==
  ASSUME Sized, Sized', Grows, NEW c \in Calls, CallPoints(c), NEW pc, Goes(c, pc),
         pc \in WithCheck => call[c].pc \in WithCheck, pc \in WithJob => call[c].pc \in WithJob
  PROVE  CallPoints(c)'
PROOF BY DEF Sized, Grows, CallPoints, Goes, Keeps

LEMMA ReceiveTyped ==
  ASSUME TypeInv, NEW c \in Calls, Receive(c)
  PROVE  TypeInv'
PROOF
<1>t. Typed /\ Points /\ Typed'  BY ReceiveFacts DEF TypeInv
<1>s. Sized /\ Sized'  BY <1>t, Sizes
<1>p. RowPoints /\ JobPoints /\ LanePoints /\ \A d \in Calls : CallPoints(d)  BY <1>t DEF Points
<1>g. Grows  BY <1>s, ReceiveFacts DEF Grows, Sized
<1>1. RowPoints'  BY <1>s, <1>p, <1>g, ReceiveFacts, RowsStand
<1>2. JobPoints'  BY <1>s, <1>p, <1>g, ReceiveFacts, JobsStand
<1>3. LanePoints'  BY <1>s, <1>p, <1>g, ReceiveFacts, LaneStands
<1>4. CallPoints(c)'  BY <1>s, <1>p, <1>g, ReceiveFacts, CallStands DEF CallPoints, Sized, WithCheck, WithJob
<1>5. SameCalls(c)  BY ReceiveFacts DEF Supersedes, Goes, Ends
<1>6. \A d \in Calls : CallPoints(d)'  BY <1>s, <1>p, <1>g, <1>4, <1>5, CallStands DEF SameCalls
<1>. QED  BY <1>t, <1>1, <1>2, <1>3, <1>6 DEF TypeInv, Points

LEMMA ReadStoredTyped ==
  ASSUME TypeInv, NEW c \in Calls, ReadStored(c)
  PROVE  TypeInv'
PROOF
<1>t. Typed /\ Points /\ Typed'  BY ReadStoredFacts DEF TypeInv
<1>s. Sized /\ Sized'  BY <1>t, Sizes
<1>p. RowPoints /\ JobPoints /\ LanePoints /\ \A d \in Calls : CallPoints(d)  BY <1>t DEF Points
<1>g. Grows  BY <1>s, ReadStoredFacts DEF Grows, Sized
<1>1. RowPoints'  BY <1>s, <1>p, <1>g, ReadStoredFacts, RowsStand
<1>2. JobPoints'  BY <1>s, <1>p, <1>g, ReadStoredFacts, JobsStand
<1>3. LanePoints'  BY <1>s, <1>p, <1>g, ReadStoredFacts, LaneStands
<1>4. CallPoints(c)'  BY <1>s, <1>p, <1>g, ReadStoredFacts, CallEnds, CallGoes DEF WithCheck, WithJob
<1>5. SameCalls(c)  BY ReadStoredFacts DEF Supersedes, Goes, Ends
<1>6. \A d \in Calls : CallPoints(d)'  BY <1>s, <1>p, <1>g, <1>4, <1>5, CallStands DEF SameCalls
<1>. QED  BY <1>t, <1>1, <1>2, <1>3, <1>6 DEF TypeInv, Points

LEMMA ReadActiveTyped ==
  ASSUME TypeInv, NEW c \in Calls, ReadActive(c)
  PROVE  TypeInv'
PROOF
<1>t. Typed /\ Points /\ Typed'  BY ReadActiveFacts DEF TypeInv
<1>s. Sized /\ Sized'  BY <1>t, Sizes
<1>p. RowPoints /\ JobPoints /\ LanePoints /\ \A d \in Calls : CallPoints(d)  BY <1>t DEF Points
<1>g. Grows  BY <1>s, ReadActiveFacts DEF Grows, Sized
<1>1. RowPoints'  BY <1>s, <1>p, <1>g, ReadActiveFacts, RowsStand
<1>2. JobPoints'  BY <1>s, <1>p, <1>g, ReadActiveFacts, JobsStand
<1>3. LanePoints'  BY <1>s, <1>p, <1>g, ReadActiveFacts, LaneStands
<1>4. CallPoints(c)'  BY <1>s, <1>p, <1>g, ReadActiveFacts, CallSupersedes DEF CallPoints, Sized, Grows, WithCheck, WithJob, OpenChecks
<1>5. SameCalls(c)  BY ReadActiveFacts DEF Supersedes, Goes, Ends
<1>6. \A d \in Calls : CallPoints(d)'  BY <1>s, <1>p, <1>g, <1>4, <1>5, CallStands DEF SameCalls
<1>. QED  BY <1>t, <1>1, <1>2, <1>3, <1>6 DEF TypeInv, Points

LEMMA SettleActiveTyped ==
  ASSUME TypeInv, NEW c \in Calls, SettleActive(c)
  PROVE  TypeInv'
PROOF
<1>t. Typed /\ Points /\ Typed'  BY SettleActiveFacts DEF TypeInv
<1>s. Sized /\ Sized'  BY <1>t, Sizes
<1>p. RowPoints /\ JobPoints /\ LanePoints /\ \A d \in Calls : CallPoints(d)  BY <1>t DEF Points
<1>n. pr' = pr /\ Len(checks') = Len(checks) /\ Len(jobs') = Len(jobs)
  BY SettleActiveFacts DEF Settles
<1>g. Grows  BY <1>s, <1>n DEF Grows, Sized
<1>1. RowPoints'  BY <1>s, <1>p, <1>g, SettleActiveFacts, RowsSettle DEF Reason
<1>2. JobPoints'  BY <1>s, <1>p, <1>g, SettleActiveFacts, JobsStand
<1>3. LanePoints'  BY <1>s, <1>p, <1>g, SettleActiveFacts, LaneStands
<1>4. CallPoints(c)'  BY <1>s, <1>p, <1>g, SettleActiveFacts, CallSupersedes DEF CallPoints, RowPoints, Sized, Grows, Keeps, WithCheck, WithJob
<1>5. SameCalls(c)  BY SettleActiveFacts DEF Supersedes, Goes, Ends
<1>6. \A d \in Calls : CallPoints(d)'  BY <1>s, <1>p, <1>g, <1>4, <1>5, CallStands DEF SameCalls
<1>. QED  BY <1>t, <1>1, <1>2, <1>3, <1>6 DEF TypeInv, Points

LEMMA StopJobTyped ==
  ASSUME TypeInv, NEW c \in Calls, StopJob(c)
  PROVE  TypeInv'
PROOF
<1>t. Typed /\ Points /\ Typed'  BY StopJobFacts DEF TypeInv
<1>s. Sized /\ Sized'  BY <1>t, Sizes
<1>p. RowPoints /\ JobPoints /\ LanePoints /\ \A d \in Calls : CallPoints(d)  BY <1>t DEF Points
<1>n. pr' = pr /\ Len(checks') = Len(checks) /\ Len(jobs') = Len(jobs)
  BY StopJobFacts DEF Writes
<1>g. Grows  BY <1>s, <1>n DEF Grows, Sized
<1>1. RowPoints'  BY <1>s, <1>p, <1>g, StopJobFacts, RowsStand
<1>2. JobPoints'  BY <1>s, <1>p, <1>g, StopJobFacts, JobsStand DEF Writes
<1>3. LanePoints'  BY <1>s, <1>p, <1>g, StopJobFacts, LaneStands
<1>4. CallPoints(c)'  BY <1>s, <1>p, <1>g, StopJobFacts, CallSupersedes, CallGoes DEF WithCheck, WithJob
<1>5. SameCalls(c)  BY StopJobFacts DEF Supersedes, Goes, Ends
<1>6. \A d \in Calls : CallPoints(d)'  BY <1>s, <1>p, <1>g, <1>4, <1>5, CallStands DEF SameCalls
<1>. QED  BY <1>t, <1>1, <1>2, <1>3, <1>6 DEF TypeInv, Points

LEMMA UnwoundTyped ==
  ASSUME TypeInv, NEW c \in Calls, Unwound(c)
  PROVE  TypeInv'
PROOF
<1>t. Typed /\ Points /\ Typed'  BY UnwoundFacts DEF TypeInv
<1>s. Sized /\ Sized'  BY <1>t, Sizes
<1>p. RowPoints /\ JobPoints /\ LanePoints /\ \A d \in Calls : CallPoints(d)  BY <1>t DEF Points
<1>g. Grows  BY <1>s, UnwoundFacts DEF Grows, Sized
<1>1. RowPoints'  BY <1>s, <1>p, <1>g, UnwoundFacts, RowsStand
<1>2. JobPoints'  BY <1>s, <1>p, <1>g, UnwoundFacts, JobsStand
<1>3. LanePoints'  BY <1>s, <1>p, <1>g, UnwoundFacts, LaneStands
<1>4. CallPoints(c)'  BY <1>s, <1>p, <1>g, UnwoundFacts, CallSupersedes
<1>5. SameCalls(c)  BY UnwoundFacts DEF Supersedes, Goes, Ends
<1>6. \A d \in Calls : CallPoints(d)'  BY <1>s, <1>p, <1>g, <1>4, <1>5, CallStands DEF SameCalls
<1>. QED  BY <1>t, <1>1, <1>2, <1>3, <1>6 DEF TypeInv, Points

LEMMA OutlastTyped ==
  ASSUME TypeInv, NEW c \in Calls, Outlast(c)
  PROVE  TypeInv'
PROOF
<1>t. Typed /\ Points /\ Typed'  BY OutlastFacts DEF TypeInv
<1>s. Sized /\ Sized'  BY <1>t, Sizes
<1>p. RowPoints /\ JobPoints /\ LanePoints /\ \A d \in Calls : CallPoints(d)  BY <1>t DEF Points
<1>n. pr' = pr /\ Len(checks') = Len(checks) /\ Len(jobs') = Len(jobs)
  BY OutlastFacts DEF Writes
<1>g. Grows  BY <1>s, <1>n DEF Grows, Sized
<1>1. RowPoints'  BY <1>s, <1>p, <1>g, OutlastFacts, RowsStand
<1>2. JobPoints'  BY <1>s, <1>p, <1>g, OutlastFacts, JobsStand DEF Writes
<1>3. LanePoints'  BY <1>s, <1>p, <1>g, OutlastFacts, LaneStands
<1>4. CallPoints(c)'  BY <1>s, <1>p, <1>g, OutlastFacts, CallSupersedes
<1>5. SameCalls(c)  BY OutlastFacts DEF Supersedes, Goes, Ends
<1>6. \A d \in Calls : CallPoints(d)'  BY <1>s, <1>p, <1>g, <1>4, <1>5, CallStands DEF SameCalls
<1>. QED  BY <1>t, <1>1, <1>2, <1>3, <1>6 DEF TypeInv, Points

LEMMA CreateCheckTyped ==
  ASSUME TypeInv, NEW c \in Calls, CreateCheck(c)
  PROVE  TypeInv'
PROOF
<1>t. Typed /\ Points /\ Typed'  BY CreateCheckFacts DEF TypeInv
<1>s. Sized /\ Sized'  BY <1>t, Sizes
<1>p. RowPoints /\ JobPoints /\ LanePoints /\ \A d \in Calls : CallPoints(d)  BY <1>t DEF Points
<1>n. pr' = pr /\ Len(checks') = Len(checks) + 1 /\ Len(jobs') = Len(jobs)
  BY CreateCheckFacts
<1>g. Grows  BY <1>s, <1>n DEF Grows, Sized
<1>1. RowPoints'
  <2>. SUFFICES ASSUME NEW k \in DOMAIN checks'
                PROVE  /\ checks'[k].head <= pr'.head /\ checks'[k].job <= Len(jobs')
                       /\ checks'[k].reason = "none" <=> checks'[k].st # "settled"
    BY DEF RowPoints, Open
  <2>1. CASE k = Len(checks) + 1
    <3>1. checks'[k].head = call[c].head /\ checks'[k].job = 0
          /\ checks'[k].reason = "none" /\ checks'[k].st = "queued"
      BY <2>1, CreateCheckFacts
    <3>. QED  BY <1>s, <1>p, <1>n, <3>1 DEF CallPoints, Sized
  <2>2. CASE k # Len(checks) + 1
    <3>1. k \in DOMAIN checks  BY <1>s, <1>n, <2>2 DEF Sized
    <3>2. checks'[k] = checks[k]  BY <3>1, CreateCheckFacts
    <3>. QED  BY <1>s, <1>p, <1>n, <3>1, <3>2 DEF RowPoints, Open, Sized
  <2>. QED  BY <2>1, <2>2
<1>2. JobPoints'  BY <1>s, <1>p, <1>g, CreateCheckFacts, JobsStand
<1>3. LanePoints'  BY <1>s, <1>p, <1>g, CreateCheckFacts, LaneStands
<1>4. CallPoints(c)'
  <2>1. /\ call'[c].pc = "post" /\ call'[c].check = Len(checks) + 1 /\ call'[c].head = call[c].head
    BY CreateCheckFacts
  <2>2. call'[c].check \in DOMAIN checks' /\ call'[c].check <= Len(checks')
    BY <1>s, <1>n, <2>1 DEF Sized
  <2>3. call'[c].head <= pr'.head  BY <1>p, <1>n, <2>1 DEF CallPoints
  <2>. QED  BY <2>1, <2>2, <2>3 DEF CallPoints, WithJob
<1>5. SameCalls(c)  BY CreateCheckFacts DEF Supersedes, Goes, Ends
<1>6. \A d \in Calls : CallPoints(d)'  BY <1>s, <1>p, <1>g, <1>4, <1>5, CallStands DEF SameCalls
<1>. QED  BY <1>t, <1>1, <1>2, <1>3, <1>6 DEF TypeInv, Points

LEMMA PostTyped ==
  ASSUME TypeInv, NEW c \in Calls, Post(c)
  PROVE  TypeInv'
PROOF
<1>t. Typed /\ Points /\ Typed'  BY PostFacts DEF TypeInv
<1>s. Sized /\ Sized'  BY <1>t, Sizes
<1>p. RowPoints /\ JobPoints /\ LanePoints /\ \A d \in Calls : CallPoints(d)  BY <1>t DEF Points
<1>g. Grows  BY <1>s, PostFacts DEF Grows, Sized
<1>1. RowPoints'  BY <1>s, <1>p, <1>g, PostFacts, RowsStand
<1>2. JobPoints'  BY <1>s, <1>p, <1>g, PostFacts, JobsStand
<1>3. LanePoints'  BY <1>s, <1>p, <1>g, PostFacts, LaneStands
<1>4. CallPoints(c)'  BY <1>s, <1>p, <1>g, PostFacts, CallGoes DEF WithCheck, WithJob, Onward
<1>5. SameCalls(c)  BY PostFacts DEF Supersedes, Goes, Ends
<1>6. \A d \in Calls : CallPoints(d)'  BY <1>s, <1>p, <1>g, <1>4, <1>5, CallStands DEF SameCalls
<1>. QED  BY <1>t, <1>1, <1>2, <1>3, <1>6 DEF TypeInv, Points

LEMMA RememberPostTyped ==
  ASSUME TypeInv, NEW c \in Calls, RememberPost(c)
  PROVE  TypeInv'
PROOF
<1>t. Typed /\ Points /\ Typed'  BY RememberPostFacts DEF TypeInv
<1>s. Sized /\ Sized'  BY <1>t, Sizes
<1>p. RowPoints /\ JobPoints /\ LanePoints /\ \A d \in Calls : CallPoints(d)  BY <1>t DEF Points
<1>n. pr' = pr /\ Len(checks') = Len(checks) /\ Len(jobs') = Len(jobs)
  BY RememberPostFacts DEF Rewrites
<1>g. Grows  BY <1>s, <1>n DEF Grows, Sized
<1>1. RowPoints'  BY <1>s, <1>p, <1>g, RememberPostFacts, RowsStand, RowsRewritten DEF Open, RowPoints
<1>2. JobPoints'  BY <1>s, <1>p, <1>g, RememberPostFacts, JobsStand
<1>3. LanePoints'  BY <1>s, <1>p, <1>g, RememberPostFacts, LaneStands
<1>4. CallPoints(c)'  BY <1>s, <1>p, <1>g, RememberPostFacts, CallGoes DEF WithCheck, WithJob, Onward
<1>5. SameCalls(c)  BY RememberPostFacts DEF Supersedes, Goes, Ends
<1>6. \A d \in Calls : CallPoints(d)'  BY <1>s, <1>p, <1>g, <1>4, <1>5, CallStands DEF SameCalls
<1>. QED  BY <1>t, <1>1, <1>2, <1>3, <1>6 DEF TypeInv, Points

LEMMA EnqueueCheckTyped ==
  ASSUME TypeInv, NEW c \in Calls, EnqueueCheck(c)
  PROVE  TypeInv'
PROOF
<1>t. Typed /\ Points /\ Typed'  BY EnqueueCheckFacts DEF TypeInv
<1>s. Sized /\ Sized'  BY <1>t, Sizes
<1>p. RowPoints /\ JobPoints /\ LanePoints /\ \A d \in Calls : CallPoints(d)  BY <1>t DEF Points
<1>n. pr' = pr /\ Len(checks') = Len(checks)  BY EnqueueCheckFacts
<1>j. Len(jobs') = Len(jobs) \/ Len(jobs') = Len(jobs) + 1  BY EnqueueCheckFacts DEF Joins
<1>g. Grows
  <2>1. pr'.head >= pr.head /\ Len(checks') >= Len(checks)  BY <1>s, <1>n DEF Sized
  <2>2. CASE Len(jobs') = Len(jobs)  BY <1>s, <2>1, <2>2 DEF Grows, Sized
  <2>3. CASE Len(jobs') = Len(jobs) + 1
    <3>1. Len(jobs') >= Len(jobs)  BY <1>s, <2>3 DEF Sized
    <3>. QED  BY <2>1, <3>1 DEF Grows
  <2>. QED  BY <1>j, <2>2, <2>3
<1>1. RowPoints'  BY <1>s, <1>p, <1>g, EnqueueCheckFacts, RowsStand
<1>2. JobPoints'  BY <1>s, <1>p, <1>g, EnqueueCheckFacts, JobsStand, JobsJoined
<1>3. LanePoints'  BY <1>s, <1>p, <1>g, EnqueueCheckFacts, LaneStands
<1>4. CallPoints(c)'
  <2>1. CASE Goes(c, "busy")  BY <1>s, <1>p, <1>g, <2>1, EnqueueCheckFacts, CallGoes DEF WithCheck, WithJob
  <2>2. CASE Joins("coordinator", call[c].check) /\ Keeps(c) /\ call'[c].pc = "name" /\ call'[c].job = Len(jobs) + 1
    <3>1. call[c].check \in DOMAIN checks  BY EnqueueCheckFacts
    <3>2. call'[c].job \in DOMAIN jobs'  BY <1>s, <2>2 DEF Joins, Sized
    <3>3. call'[c].head <= pr'.head  BY <1>s, <1>p, <1>n, <2>2 DEF Keeps, CallPoints
    <3>4. call'[c].check \in DOMAIN checks' /\ call'[c].check <= Len(checks')
      BY <1>s, <1>n, <2>2, <3>1 DEF Keeps, Sized
    <3>. QED  BY <3>2, <3>3, <3>4 DEF CallPoints
  <2>. QED  BY <2>1, <2>2, EnqueueCheckFacts
<1>5. SameCalls(c)  BY EnqueueCheckFacts DEF Supersedes, Goes, Ends
<1>6. \A d \in Calls : CallPoints(d)'  BY <1>s, <1>p, <1>g, <1>4, <1>5, CallStands DEF SameCalls
<1>. QED  BY <1>t, <1>1, <1>2, <1>3, <1>6 DEF TypeInv, Points

LEMMA SettleNewTyped ==
  ASSUME TypeInv, NEW c \in Calls, SettleNew(c)
  PROVE  TypeInv'
PROOF
<1>t. Typed /\ Points /\ Typed'  BY SettleNewFacts DEF TypeInv
<1>s. Sized /\ Sized'  BY <1>t, Sizes
<1>p. RowPoints /\ JobPoints /\ LanePoints /\ \A d \in Calls : CallPoints(d)  BY <1>t DEF Points
<1>n. pr' = pr /\ Len(checks') = Len(checks) /\ Len(jobs') = Len(jobs)
  BY SettleNewFacts DEF Settles
<1>g. Grows  BY <1>s, <1>n DEF Grows, Sized
<1>1. RowPoints'  BY <1>s, <1>p, <1>g, SettleNewFacts, RowsSettle
<1>2. JobPoints'  BY <1>s, <1>p, <1>g, SettleNewFacts, JobsStand
<1>3. LanePoints'  BY <1>s, <1>p, <1>g, SettleNewFacts, LaneStands
<1>4. CallPoints(c)'  BY <1>s, <1>p, <1>g, SettleNewFacts, CallEnds
<1>5. SameCalls(c)  BY SettleNewFacts DEF Supersedes, Goes, Ends
<1>6. \A d \in Calls : CallPoints(d)'  BY <1>s, <1>p, <1>g, <1>4, <1>5, CallStands DEF SameCalls
<1>. QED  BY <1>t, <1>1, <1>2, <1>3, <1>6 DEF TypeInv, Points

LEMMA NameJobTyped ==
  ASSUME TypeInv, NEW c \in Calls, NameJob(c)
  PROVE  TypeInv'
PROOF
<1>t. Typed /\ Points /\ Typed'  BY NameJobFacts DEF TypeInv
<1>s. Sized /\ Sized'  BY <1>t, Sizes
<1>p. RowPoints /\ JobPoints /\ LanePoints /\ \A d \in Calls : CallPoints(d)  BY <1>t DEF Points
<1>n. pr' = pr /\ Len(checks') = Len(checks) /\ Len(jobs') = Len(jobs)
  BY NameJobFacts DEF Rewrites
<1>g. Grows  BY <1>s, <1>n DEF Grows, Sized
<1>1. RowPoints'  BY <1>s, <1>p, <1>g, NameJobFacts, RowsStand, RowsRewritten DEF Open, CallPoints, WithJob, Sized
<1>2. JobPoints'  BY <1>s, <1>p, <1>g, NameJobFacts, JobsStand
<1>3. LanePoints'  BY <1>s, <1>p, <1>g, NameJobFacts, LaneStands
<1>4. CallPoints(c)'  BY <1>s, <1>p, <1>g, NameJobFacts, CallEnds
<1>5. SameCalls(c)  BY NameJobFacts DEF Supersedes, Goes, Ends
<1>6. \A d \in Calls : CallPoints(d)'  BY <1>s, <1>p, <1>g, <1>4, <1>5, CallStands DEF SameCalls
<1>. QED  BY <1>t, <1>1, <1>2, <1>3, <1>6 DEF TypeInv, Points

LEMMA ClaimTyped ==
  ASSUME TypeInv, Claim
  PROVE  TypeInv'
PROOF
<1>t. Typed /\ Points /\ Typed'  BY ClaimFacts DEF TypeInv
<1>s. Sized /\ Sized'  BY <1>t, Sizes
<1>p. RowPoints /\ JobPoints /\ LanePoints /\ \A d \in Calls : CallPoints(d)  BY <1>t DEF Points
<1>n. pr' = pr /\ Len(checks') = Len(checks) /\ Len(jobs') = Len(jobs)
  BY ClaimFacts DEF Writes
<1>g. Grows  BY <1>s, <1>n DEF Grows, Sized
<1>1. RowPoints'  BY <1>s, <1>p, <1>g, ClaimFacts, RowsStand
<1>2. JobPoints'  BY <1>s, <1>p, <1>g, ClaimFacts, JobsStand DEF Writes
<1>3. LanePoints'  BY <1>s, <1>p, <1>g, ClaimFacts, LaneStands DEF LanePoints, Sized, Grows
<1>4. \A d \in Calls : CallPoints(d)'  BY <1>s, <1>p, <1>g, ClaimFacts, CallStands
<1>. QED  BY <1>t, <1>1, <1>2, <1>3, <1>4 DEF TypeInv, Points

LEMMA ReadCheckTyped ==
  ASSUME TypeInv, ReadCheck
  PROVE  TypeInv'
PROOF
<1>t. Typed /\ Points /\ Typed'  BY ReadCheckFacts DEF TypeInv
<1>s. Sized /\ Sized'  BY <1>t, Sizes
<1>p. RowPoints /\ JobPoints /\ LanePoints /\ \A d \in Calls : CallPoints(d)  BY <1>t DEF Points
<1>g. Grows  BY <1>s, ReadCheckFacts DEF Grows, Sized
<1>1. RowPoints'  BY <1>s, <1>p, <1>g, ReadCheckFacts, RowsStand
<1>2. JobPoints'  BY <1>s, <1>p, <1>g, ReadCheckFacts, JobsStand
<1>3. LanePoints'  BY <1>s, <1>p, <1>g, ReadCheckFacts, LaneGoesOn
<1>4. \A d \in Calls : CallPoints(d)'  BY <1>s, <1>p, <1>g, ReadCheckFacts, CallStands
<1>. QED  BY <1>t, <1>1, <1>2, <1>3, <1>4 DEF TypeInv, Points

LEMMA MarkCheckTyped ==
  ASSUME TypeInv, MarkCheck
  PROVE  TypeInv'
PROOF
<1>t. Typed /\ Points /\ Typed'  BY MarkCheckFacts DEF TypeInv
<1>s. Sized /\ Sized'  BY <1>t, Sizes
<1>p. RowPoints /\ JobPoints /\ LanePoints /\ \A d \in Calls : CallPoints(d)  BY <1>t DEF Points
<1>n. pr' = pr /\ Len(checks') = Len(checks) /\ Len(jobs') = Len(jobs)
  BY MarkCheckFacts DEF Rewrites
<1>g. Grows  BY <1>s, <1>n DEF Grows, Sized
<1>1. RowPoints'  BY <1>s, <1>p, <1>g, MarkCheckFacts, RowsStand, RowsRewritten DEF LanePoints
<1>2. JobPoints'  BY <1>s, <1>p, <1>g, MarkCheckFacts, JobsStand
<1>3. LanePoints'  BY <1>s, <1>p, <1>g, MarkCheckFacts, LaneGoesOn
<1>4. \A d \in Calls : CallPoints(d)'  BY <1>s, <1>p, <1>g, MarkCheckFacts, CallStands
<1>. QED  BY <1>t, <1>1, <1>2, <1>3, <1>4 DEF TypeInv, Points

LEMMA PostProgressTyped ==
  ASSUME TypeInv, PostProgress
  PROVE  TypeInv'
PROOF
<1>t. Typed /\ Points /\ Typed'  BY PostProgressFacts DEF TypeInv
<1>s. Sized /\ Sized'  BY <1>t, Sizes
<1>p. RowPoints /\ JobPoints /\ LanePoints /\ \A d \in Calls : CallPoints(d)  BY <1>t DEF Points
<1>g. Grows  BY <1>s, PostProgressFacts DEF Grows, Sized
<1>1. RowPoints'  BY <1>s, <1>p, <1>g, PostProgressFacts, RowsStand
<1>2. JobPoints'  BY <1>s, <1>p, <1>g, PostProgressFacts, JobsStand
<1>3. LanePoints'  BY <1>s, <1>p, <1>g, PostProgressFacts, LaneGoesOn
<1>4. \A d \in Calls : CallPoints(d)'  BY <1>s, <1>p, <1>g, PostProgressFacts, CallStands
<1>. QED  BY <1>t, <1>1, <1>2, <1>3, <1>4 DEF TypeInv, Points

LEMMA WorkTyped ==
  ASSUME TypeInv, Work
  PROVE  TypeInv'
PROOF
<1>t. Typed /\ Points /\ Typed'  BY WorkFacts DEF TypeInv
<1>s. Sized /\ Sized'  BY <1>t, Sizes
<1>p. RowPoints /\ JobPoints /\ LanePoints /\ \A d \in Calls : CallPoints(d)  BY <1>t DEF Points
<1>g. Grows  BY <1>s, WorkFacts DEF Grows, Sized
<1>1. RowPoints'  BY <1>s, <1>p, <1>g, WorkFacts, RowsStand
<1>2. JobPoints'  BY <1>s, <1>p, <1>g, WorkFacts, JobsStand
<1>3. LanePoints'  BY <1>s, <1>p, <1>g, WorkFacts, LaneGoesOn
<1>4. \A d \in Calls : CallPoints(d)'  BY <1>s, <1>p, <1>g, WorkFacts, CallStands
<1>. QED  BY <1>t, <1>1, <1>2, <1>3, <1>4 DEF TypeInv, Points

LEMMA ChainTyped ==
  ASSUME TypeInv, Chain
  PROVE  TypeInv'
PROOF
<1>t. Typed /\ Points /\ Typed'  BY ChainFacts DEF TypeInv
<1>s. Sized /\ Sized'  BY <1>t, Sizes
<1>p. RowPoints /\ JobPoints /\ LanePoints /\ \A d \in Calls : CallPoints(d)  BY <1>t DEF Points
<1>n. pr' = pr /\ Len(checks') = Len(checks)  BY ChainFacts
<1>j. Len(jobs') = Len(jobs) \/ Len(jobs') = Len(jobs) + 1  BY ChainFacts DEF Joins
<1>g. Grows
  <2>1. pr'.head >= pr.head /\ Len(checks') >= Len(checks)  BY <1>s, <1>n DEF Sized
  <2>2. CASE Len(jobs') = Len(jobs)  BY <1>s, <2>1, <2>2 DEF Grows, Sized
  <2>3. CASE Len(jobs') = Len(jobs) + 1
    <3>1. Len(jobs') >= Len(jobs)  BY <1>s, <2>3 DEF Sized
    <3>. QED  BY <2>1, <3>1 DEF Grows
  <2>. QED  BY <1>j, <2>2, <2>3
<1>1. RowPoints'  BY <1>s, <1>p, <1>g, ChainFacts, RowsStand
<1>2. JobPoints'  BY <1>s, <1>p, <1>g, ChainFacts, JobsStand, JobsJoined
<1>3. LanePoints'  BY <1>s, <1>p, <1>g, ChainFacts, LaneGoesOn
<1>4. \A d \in Calls : CallPoints(d)'  BY <1>s, <1>p, <1>g, ChainFacts, CallStands
<1>. QED  BY <1>t, <1>1, <1>2, <1>3, <1>4 DEF TypeInv, Points

LEMMA JudgeTyped ==
  ASSUME TypeInv, Judge
  PROVE  TypeInv'
PROOF
<1>t. Typed /\ Points /\ Typed'  BY JudgeFacts DEF TypeInv
<1>s. Sized /\ Sized'  BY <1>t, Sizes
<1>p. RowPoints /\ JobPoints /\ LanePoints /\ \A d \in Calls : CallPoints(d)  BY <1>t DEF Points
<1>n. pr' = pr /\ Len(checks') = Len(checks) /\ Len(jobs') = Len(jobs)
  BY JudgeFacts DEF Settles
<1>g. Grows  BY <1>s, <1>n DEF Grows, Sized
<1>1. RowPoints'  BY <1>s, <1>p, <1>g, JudgeFacts, RowsSettle DEF LanePoints
<1>2. JobPoints'  BY <1>s, <1>p, <1>g, JudgeFacts, JobsStand
<1>3. LanePoints'  BY <1>s, <1>p, <1>g, JudgeFacts, LaneGoesOn
<1>4. \A d \in Calls : CallPoints(d)'  BY <1>s, <1>p, <1>g, JudgeFacts, CallStands
<1>. QED  BY <1>t, <1>1, <1>2, <1>3, <1>4 DEF TypeInv, Points

LEMMA EndJobTyped ==
  ASSUME TypeInv, EndJob
  PROVE  TypeInv'
PROOF
<1>t. Typed /\ Points /\ Typed'  BY EndJobFacts DEF TypeInv
<1>s. Sized /\ Sized'  BY <1>t, Sizes
<1>p. RowPoints /\ JobPoints /\ LanePoints /\ \A d \in Calls : CallPoints(d)  BY <1>t DEF Points
<1>n. pr' = pr /\ Len(checks') = Len(checks) /\ Len(jobs') = Len(jobs)
  BY EndJobFacts DEF Writes
<1>g. Grows  BY <1>s, <1>n DEF Grows, Sized
<1>1. RowPoints'  BY <1>s, <1>p, <1>g, EndJobFacts, RowsStand
<1>2. JobPoints'  BY <1>s, <1>p, <1>g, EndJobFacts, JobsStand DEF Writes
<1>3. LanePoints'  BY <1>s, <1>p, <1>g, EndJobFacts, LaneGoesOn
<1>4. \A d \in Calls : CallPoints(d)'  BY <1>s, <1>p, <1>g, EndJobFacts, CallStands
<1>. QED  BY <1>t, <1>1, <1>2, <1>3, <1>4 DEF TypeInv, Points

LEMMA SettleMineTyped ==
  ASSUME TypeInv, SettleMine
  PROVE  TypeInv'
PROOF
<1>t. Typed /\ Points /\ Typed'  BY SettleMineFacts DEF TypeInv
<1>s. Sized /\ Sized'  BY <1>t, Sizes
<1>p. RowPoints /\ JobPoints /\ LanePoints /\ \A d \in Calls : CallPoints(d)  BY <1>t DEF Points
<1>n. pr' = pr /\ Len(checks') = Len(checks) /\ Len(jobs') = Len(jobs)
  BY SettleMineFacts DEF Settles
<1>g. Grows  BY <1>s, <1>n DEF Grows, Sized
<1>1. RowPoints'  BY <1>s, <1>p, <1>g, SettleMineFacts, RowsStand, RowsSettle
<1>2. JobPoints'  BY <1>s, <1>p, <1>g, SettleMineFacts, JobsStand
<1>3. LanePoints'  BY <1>s, <1>p, <1>g, SettleMineFacts, LaneGoesOn DEF LanePoints, Freed, Sized, Grows
<1>4. \A d \in Calls : CallPoints(d)'  BY <1>s, <1>p, <1>g, SettleMineFacts, CallStands
<1>. QED  BY <1>t, <1>1, <1>2, <1>3, <1>4 DEF TypeInv, Points

LEMMA InitTyped ==
  ASSUME Init
  PROVE  TypeInv
PROOF
<1>1. pr \in PrSet /\ pr.head = 0  BY DEF Init, PrSet
<1>2. lane \in LaneSet /\ lane.job = 0 /\ lane.pc = "free"
  BY DEF Init, NoJob, LaneSet, LanePcs, Reasons
<1>3. /\ checks = << >> /\ github = << >> /\ jobs = << >> /\ events = 0
      /\ Len(checks) = 0 /\ Len(jobs) = 0
  BY EmptySeq DEF Init
<1>4. checks \in Seq(CheckSet) /\ github \in Seq(Showing) /\ jobs \in Seq(JobSet)
  BY <1>3, EmptySeq
<1>5. NoCall \in CallSet /\ NoCall.pc = "idle" /\ NoCall.head = 0 /\ NoCall.check = 0
  BY DEF NoCall, CallSet, Pcs, Reasons
<1>6. call \in [Calls -> CallSet] /\ \A c \in Calls : call[c] = NoCall  BY <1>5 DEF Init
<1>7. Typed  BY <1>1, <1>2, <1>3, <1>4, <1>6, ChecksAssumption DEF Typed
<1>8. DOMAIN checks = {} /\ DOMAIN jobs = {}  BY <1>3
<1>9. RowPoints /\ JobPoints /\ LanePoints
  BY <1>2, <1>3, <1>8 DEF RowPoints, JobPoints, LanePoints
<1>10. ASSUME NEW c \in Calls
       PROVE  CallPoints(c)
  <2>1. call[c].pc = "idle" /\ call[c].head = 0 /\ call[c].check = 0  BY <1>5, <1>6
  <2>. QED  BY <1>1, <1>3, <2>1 DEF CallPoints, WithCheck, WithJob
<1>. QED  BY <1>7, <1>9, <1>10 DEF TypeInv, Points

LEMMA StepTyped ==
  ASSUME TypeInv, [Next]_vars
  PROVE  TypeInv'
PROOF
<1>1. CASE Run
  BY <1>1, ClaimTyped, ReadCheckTyped, MarkCheckTyped, PostProgressTyped, WorkTyped,
     ChainTyped, JudgeTyped, EndJobTyped, SettleMineTyped DEF Run
<1>2. ASSUME NEW c \in Calls, Handle(c)
      PROVE  TypeInv'
  BY <1>2, ReadStoredTyped, ReadActiveTyped, SettleActiveTyped, StopJobTyped, UnwoundTyped,
     OutlastTyped, CreateCheckTyped, PostTyped, RememberPostTyped,
     EnqueueCheckTyped, SettleNewTyped, NameJobTyped DEF Handle
<1>3. CASE UNCHANGED vars
  BY <1>3 DEF vars, TypeInv, Typed, Points, RowPoints, JobPoints, LanePoints, CallPoints, Open
<1>. QED  BY <1>1, <1>2, <1>3, ReceiveTyped DEF Next

LEMMA TypeInvImplies ==
  ASSUME TypeInv
  PROVE  TypeOK
PROOF
<1>t. Typed /\ Points  BY DEF TypeInv
<1>s. Sized  BY <1>t, Sizes
<1>1. pr \in [head : 0 .. MaxEvents, open : BOOLEAN, draft : BOOLEAN] /\ events \in 0 .. MaxEvents
  <2>1. pr.head \in 0 .. MaxEvents /\ MaxEvents \in Nat
    BY <1>t, <1>s, ChecksAssumption DEF Typed, Sized
  <2>. QED  BY <1>t, <2>1 DEF Typed, PrSet
<1>2. ASSUME NEW k \in DOMAIN checks
      PROVE  /\ checks[k].head \in 0 .. pr.head /\ checks[k].job \in 0 .. Len(jobs)
             /\ checks[k].st \in {"queued", "running", "settled"} /\ checks[k].posted \in BOOLEAN
             /\ checks[k].reason \in Reasons /\ (checks[k].reason = "none" <=> Open(k))
  <2>1. checks[k] \in CheckSet  BY <1>t, JobsTyped
  <2>2. checks[k].head \in 0 .. pr.head /\ checks[k].job \in 0 .. Len(jobs)
    BY <1>t, <1>s DEF Points, RowPoints, Sized
  <2>3. checks[k].reason = "none" <=> Open(k)  BY <1>t DEF Points, RowPoints
  <2>. QED  BY <2>1, <2>2, <2>3 DEF CheckSet
<1>3. /\ Len(github) = Len(checks)
      /\ \A k \in DOMAIN github :
           github[k] \in {"none", "unposted", "open", "refused", "reopened"} \cup Words
  BY <1>t, JobsTyped DEF Typed, Showing
<1>4. ASSUME NEW j \in DOMAIN jobs
      PROVE  /\ jobs[j].kind \in Kinds /\ jobs[j].check \in DOMAIN checks
             /\ jobs[j].st \in {"queued", "running", "done", "cancelled"}
  <2>1. jobs[j] \in JobSet  BY <1>t, JobsTyped
  <2>. QED  BY <1>t, <2>1 DEF JobSet, Points, JobPoints
<1>5. /\ lane.pc \in {"free", "open", "mark", "post", "work", "chain", "judge", "end", "hook"}
      /\ lane.job \in 0 .. Len(jobs) /\ lane.reason \in Reasons
  <2>1. lane.job \in 0 .. Len(jobs)  BY <1>t, <1>s DEF Points, LanePoints, Sized
  <2>. QED  BY <1>t, <2>1 DEF Typed, LaneSet, LanePcs
<1>6. ASSUME NEW c \in Calls
      PROVE  call[c].pc \in Pcs /\ call[c].check \in 0 .. Len(checks)
  <2>1. call[c].check \in 0 .. Len(checks)  BY <1>t, <1>s DEF Points, CallPoints, Sized
  <2>. QED  BY <1>t, <2>1 DEF Typed, CallSet
<1>. QED  BY <1>1, <1>2, <1>3, <1>4, <1>5, <1>6 DEF TypeOK

\* The rows, the lane and the calls hold the values TypeOK names, and what they point
\* at is there, however many webhook deliveries and re-runs are handled at once.
THEOREM TypesHold == Spec => []TypeOK
PROOF
<1>1. Init => TypeInv  BY InitTyped
<1>2. TypeInv /\ [Next]_vars => TypeInv'  BY StepTyped
<1>3. TypeInv => TypeOK  BY TypeInvImplies
<1>. QED  BY <1>1, <1>2, <1>3, PTL DEF Spec

-------------------------------------------------------------------------------
\* One event at a time: a delivery is handled to its end before the next comes in.
OneCaller == \A c, d \in Calls : c = d

Drafting == {"post", "posted", "enqueue", "draft", "busy"}
Making == Drafting \cup {"name"}
AllSettled == \A k \in DOMAIN checks : ~ Open(k)
OnlyOpen(n) == \A k \in DOMAIN checks : Open(k) => k = n
Jobless(k) == \A j \in DOMAIN jobs : jobs[j].check # k

\* What a call knows at each of its statements.
Attends(c) == call[c].pc # "idle" =>
  /\ OnlyOpen(Newest) /\ call[c].head = pr.head
  /\ call[c].effect = "close" <=> ~ pr.open
Starts(c) == call[c].pc \in {"stored", "create"} \cup Making => call[c].effect # "close"
Clears(c) ==
  /\ call[c].pc = "settle" => OnlyOpen(call[c].check)
  /\ call[c].pc \in {"job", "wait", "create"} => AllSettled
Makes(c) == call[c].pc \in Making =>
  Newest > 0 /\ call[c].check = Newest /\ checks[Newest].head = pr.head
Drafts(c) == call[c].pc \in Drafting => Open(Newest) /\ Jobless(Newest)
Enrols(c) == call[c].pc = "name" =>
  jobs[call[c].job].check = Newest /\ jobs[call[c].job].kind = "coordinator"
Stops(c) ==
  /\ call[c].pc \in {"job", "wait"} => ~ Open(jobs[call[c].job].check)
  /\ call[c].pc = "wait" => jobs[call[c].job].st # "queued"
Handled(c) ==
  Attends(c) /\ Starts(c) /\ Clears(c) /\ Makes(c) /\ Drafts(c) /\ Enrols(c) /\ Stops(c)

\* What is left open when nobody is at work on it.
LeftOpen == Quiet => IF pr.open THEN OnlyOpen(Newest) ELSE AllSettled
\* A row names a job of its own.
OwnJob == \A k \in DOMAIN checks : checks[k].job # 0 => jobs[checks[k].job].check = k

Settled == TypeInv /\ LeftOpen /\ OwnJob /\ \A c \in Calls : Handled(c)

\* What the worker may do to the rows: settle a check it has a job of, or name that job.
RanRows ==
  /\ Len(checks') = Len(checks)
  /\ \A k \in DOMAIN checks :
       /\ checks'[k].head = checks[k].head /\ checks'[k].posted = checks[k].posted
       /\ Open(k)' => Open(k)
       /\ Jobless(k) => (Open(k)' <=> Open(k))
       /\ checks'[k].job = checks[k].job \/ (checks'[k].job = lane.job /\ k = Mine)
\* What it may do to the jobs: none is queued again, and a new one is of its own check.
RanJobs ==
  /\ Len(jobs') >= Len(jobs)
  /\ \A j \in DOMAIN jobs :
       /\ jobs'[j].kind = jobs[j].kind /\ jobs'[j].check = jobs[j].check
       /\ jobs'[j].st = "queued" => jobs[j].st = "queued"
  /\ \A j \in DOMAIN jobs' : j \notin DOMAIN jobs => lane.pc # "free" /\ jobs'[j].check = Mine

LEMMA SettlesRuns ==
  ASSUME TypeInv, lane.pc # "free", NEW reason \in Reasons, Settles(Mine, reason)
  PROVE  RanRows
PROOF
<1>1. Mine \in DOMAIN checks /\ lane.job \in DOMAIN jobs  BY LaneKnown
<1>2. ~ Jobless(Mine)  BY <1>1 DEF Jobless, Mine
<1>. QED  BY <1>1, <1>2 DEF RanRows, Settles, Open

LEMMA WritesRuns ==
  ASSUME TypeInv, Typed', NEW j \in DOMAIN jobs, NEW st, st # "queued", NEW stopped,
         Writes(j, st, stopped)
  PROVE  RanJobs
PROOF
<1>1. Sized /\ Sized'  BY Sizes DEF TypeInv
<1>2. ASSUME NEW i \in DOMAIN jobs
      PROVE  /\ jobs'[i].kind = jobs[i].kind /\ jobs'[i].check = jobs[i].check
             /\ jobs'[i].st = "queued" => jobs[i].st = "queued"
  <2>1. CASE i = j  BY <2>1 DEF Writes
  <2>2. CASE i # j  BY <2>2 DEF Writes
  <2>. QED  BY <2>1, <2>2
<1>3. Len(jobs') = Len(jobs)  BY DEF Writes
<1>4. DOMAIN jobs' = DOMAIN jobs  BY <1>1, <1>3 DEF Sized
<1>. QED  BY <1>1, <1>2, <1>3, <1>4 DEF RanJobs, Sized

LEMMA JobsRun ==
  ASSUME TypeInv, Typed', UNCHANGED jobs
  PROVE  RanJobs
PROOF
<1>1. Sized  BY Sizes DEF TypeInv
<1>. QED  BY <1>1 DEF RanJobs, Sized

LEMMA RowsRun ==
  ASSUME UNCHANGED checks
  PROVE  RanRows
PROOF BY DEF RanRows, Open

LEMMA RunEffect ==
  ASSUME TypeInv, Run
  PROVE  /\ RanRows /\ RanJobs /\ UNCHANGED <<pr, call, events>>
         /\ TypeInv'
PROOF
<1>1. CASE Claim
  <2>1. PICK j \in DOMAIN jobs : Writes(j, "running", jobs[j].stopped)  BY <1>1, ClaimFacts
  <2>2. Typed' /\ UNCHANGED <<pr, checks, github, call, events>>  BY <1>1, ClaimFacts
  <2>3. RanJobs  BY <2>1, <2>2, WritesRuns
  <2>4. RanRows  BY <2>2, RowsRun
  <2>. QED  BY <1>1, <2>2, <2>3, <2>4, ClaimTyped
<1>2. CASE ReadCheck  BY <1>2, ReadCheckFacts, ReadCheckTyped, RowsRun, JobsRun
<1>3. CASE MarkCheck
  <2>1. /\ Typed' /\ UNCHANGED <<pr, github, jobs, call, events>> /\ lane.pc # "free"
        /\ Mine \in DOMAIN checks
        /\ \/ Open(Mine) /\ Rewrites(Mine, "running", lane.job, checks[Mine].posted)
           \/ UNCHANGED checks
    BY <1>3, MarkCheckFacts
  <2>2. ~ Jobless(Mine)  BY <2>1, LaneKnown DEF Jobless, Mine
  <2>3. RanRows
    <3>1. CASE UNCHANGED checks  BY <2>1, <3>1, RowsRun
    <3>2. CASE Open(Mine) /\ Rewrites(Mine, "running", lane.job, checks[Mine].posted)
      <4>2. ASSUME NEW k \in DOMAIN checks
            PROVE  /\ checks'[k].head = checks[k].head /\ checks'[k].posted = checks[k].posted
                   /\ Open(k)' <=> Open(k)
                   /\ checks'[k].job = checks[k].job \/ (checks'[k].job = lane.job /\ k = Mine)
        BY <3>2 DEF Rewrites, Open
      <4>. QED  BY <3>2, <4>2 DEF RanRows, Rewrites
    <3>. QED  BY <2>1, <3>1, <3>2
  <2>4. RanJobs  BY <2>1, JobsRun
  <2>. QED  BY <1>3, <2>1, <2>3, <2>4, MarkCheckTyped
<1>4. CASE Work  BY <1>4, WorkFacts, WorkTyped, RowsRun, JobsRun
<1>5. CASE Chain
  <2>1. /\ Typed' /\ UNCHANGED <<pr, checks, github, call, events>> /\ lane.pc # "free"
        /\ UNCHANGED jobs \/ Joins("link", Mine)
    BY <1>5, ChainFacts
  <2>4. RanJobs
    <3>1. CASE UNCHANGED jobs  BY <2>1, <3>1, JobsRun
    <3>2. CASE Joins("link", Mine)
      <4>1. Sized /\ Sized'  BY <2>1, Sizes DEF TypeInv
      <4>2. ASSUME NEW j \in DOMAIN jobs', j \notin DOMAIN jobs
            PROVE  jobs'[j].check = Mine
        BY <3>2, <4>1, <4>2 DEF Joins, Sized
      <4>. QED  BY <2>1, <3>2, <4>1, <4>2 DEF RanJobs, Joins, Sized
    <3>. QED  BY <2>1, <3>1, <3>2
  <2>5. RanRows  BY <2>1, RowsRun
  <2>. QED  BY <1>5, <2>1, <2>4, <2>5, ChainTyped
<1>6. CASE Judge
  <2>1. /\ Typed' /\ UNCHANGED <<pr, jobs, call, events>> /\ lane.pc # "free"
        /\ Settles(Mine, lane.reason)
    BY <1>6, JudgeFacts
  <2>2. lane.reason \in Reasons  BY <2>1, LaneKnown
  <2>. QED  BY <1>6, <2>1, <2>2, SettlesRuns, JobsRun, JudgeTyped
<1>7. CASE EndJob
  <2>1. /\ Typed' /\ UNCHANGED <<pr, checks, github, call, events>> /\ lane.job \in DOMAIN jobs
        /\ \/ Writes(lane.job, "cancelled", jobs[lane.job].stopped)
           \/ Writes(lane.job, "done", jobs[lane.job].stopped)
    BY <1>7, EndJobFacts
  <2>2. RanJobs  BY <2>1, WritesRuns
  <2>3. RanRows  BY <2>1, RowsRun
  <2>. QED  BY <1>7, <2>1, <2>2, <2>3, EndJobTyped
<1>8. CASE SettleMine
  <2>1. /\ Typed' /\ UNCHANGED <<pr, jobs, call, events>> /\ lane.pc # "free"
        /\ UNCHANGED <<checks, github>> \/ Settles(Mine, lane.reason)
    BY <1>8, SettleMineFacts
  <2>2. lane.reason \in Reasons  BY <2>1, LaneKnown
  <2>3. RanRows  BY <2>1, <2>2, RowsRun, SettlesRuns
  <2>4. RanJobs  BY <2>1, JobsRun
  <2>. QED  BY <1>8, <2>1, <2>3, <2>4, SettleMineTyped
<1>9. CASE PostProgress  BY <1>9, PostProgressFacts, PostProgressTyped, RowsRun, JobsRun
<1>. QED  BY <1>1, <1>2, <1>3, <1>4, <1>5, <1>6, <1>7, <1>8, <1>9 DEF Run

LEMMA RunSettled ==
  ASSUME Settled, Run
  PROVE  Settled'
PROOF
<1>t. TypeInv /\ LeftOpen /\ OwnJob /\ \A c \in Calls : Handled(c)  BY DEF Settled
<1>r. RanRows /\ RanJobs /\ UNCHANGED <<pr, call, events>> /\ TypeInv'  BY <1>t, RunEffect
<1>s. Sized /\ Sized'  BY <1>t, <1>r, Sizes DEF TypeInv
<1>1. Newest' = Newest /\ DOMAIN checks' = DOMAIN checks  BY <1>r, <1>s DEF Newest, RanRows, Sized
<1>2. \A n : OnlyOpen(n) => OnlyOpen(n)'  BY <1>r, <1>1 DEF OnlyOpen, RanRows
<1>3. AllSettled => AllSettled'  BY <1>r, <1>1 DEF AllSettled, RanRows
<1>4. ASSUME NEW k \in DOMAIN checks, Jobless(k)
      PROVE  Jobless(k)'
  <2>. SUFFICES ASSUME NEW j \in DOMAIN jobs' PROVE jobs'[j].check # k  BY DEF Jobless
  <2>1. CASE j \in DOMAIN jobs  BY <1>r, <1>4, <2>1 DEF RanJobs, Jobless
  <2>2. CASE j \notin DOMAIN jobs
    <3>1. lane.pc # "free" /\ jobs'[j].check = Mine  BY <1>r, <2>2 DEF RanJobs
    <3>2. lane.job \in DOMAIN jobs  BY <1>t, <3>1, LaneKnown
    <3>. QED  BY <1>4, <3>1, <3>2 DEF Jobless, Mine
  <2>. QED  BY <2>1, <2>2
<1>5. LeftOpen'
  <2>1. Quiet' = Quiet /\ pr' = pr  BY <1>r DEF Quiet
  <2>2. PICK n : n = Newest  OBVIOUS
  <2>3. OnlyOpen(n) => OnlyOpen(n)'  BY <1>2
  <2>4. OnlyOpen(Newest) => OnlyOpen(Newest)'  BY <1>1, <2>2, <2>3 DEF OnlyOpen
  <2>. QED  BY <1>t, <1>3, <2>1, <2>4 DEF LeftOpen
<1>6. OwnJob'
  <2>. SUFFICES ASSUME NEW k \in DOMAIN checks, checks'[k].job # 0
                PROVE  jobs'[checks'[k].job].check = k
    BY <1>1 DEF OwnJob
  <2>1. CASE checks'[k].job = checks[k].job
    <3>1. checks[k].job \in DOMAIN jobs  BY <1>t, <1>s, <2>1 DEF TypeInv, Points, RowPoints, Sized
    <3>. QED  BY <1>t, <1>r, <2>1, <3>1 DEF OwnJob, RanJobs
  <2>2. CASE checks'[k].job = lane.job /\ k = Mine
    <3>1. lane.job \in DOMAIN jobs  BY <1>t, <1>s, <2>2 DEF TypeInv, Points, LanePoints, Sized
    <3>. QED  BY <1>r, <2>2, <3>1 DEF RanJobs, Mine
  <2>. QED  BY <1>r, <2>1, <2>2 DEF RanRows
<1>8. ASSUME NEW c \in Calls
      PROVE  Handled(c)'
  <2>1. Handled(c) /\ CallPoints(c) /\ call'[c] = call[c] /\ pr' = pr
    BY <1>t, <1>r DEF TypeInv, Points
  <2>2. Attends(c)'
    <3>1. OnlyOpen(Newest) => OnlyOpen(Newest)'
      <4>1. PICK n : n = Newest  OBVIOUS
      <4>2. OnlyOpen(n) => OnlyOpen(n)'  BY <1>2
      <4>. QED  BY <1>1, <4>1, <4>2 DEF OnlyOpen
    <3>. QED  BY <2>1, <3>1 DEF Handled, Attends
  <2>3. Starts(c)'  BY <2>1 DEF Handled, Starts
  <2>4. Clears(c)'
    <3>1. PICK n : n = call[c].check  OBVIOUS
    <3>2. OnlyOpen(n) => OnlyOpen(n)'  BY <1>2
    <3>3. OnlyOpen(call[c].check) => OnlyOpen(call[c].check)'  BY <2>1, <3>1, <3>2 DEF OnlyOpen
    <3>. QED  BY <1>3, <2>1, <3>3 DEF Handled, Clears
  <2>5. Makes(c)'
    <3>. SUFFICES ASSUME call[c].pc \in Making PROVE Newest' > 0 /\ call[c].check = Newest' /\ checks'[Newest'].head = pr'.head
      BY <2>1 DEF Makes
    <3>1. Newest > 0 /\ call[c].check = Newest /\ checks[Newest].head = pr.head
      BY <2>1 DEF Handled, Makes
    <3>2. Newest \in DOMAIN checks  BY <1>s, <3>1 DEF Newest, Sized
    <3>. QED  BY <1>1, <1>r, <2>1, <3>1, <3>2 DEF RanRows
  <2>6. Drafts(c)'
    <3>. SUFFICES ASSUME call[c].pc \in Drafting PROVE Open(Newest)' /\ Jobless(Newest)'
      BY <2>1 DEF Drafts
    <3>1. Open(Newest) /\ Jobless(Newest) /\ Newest > 0
      BY <2>1 DEF Handled, Drafts, Makes, Making
    <3>a. Newest \in DOMAIN checks  BY <1>s, <3>1 DEF Newest, Sized
    <3>2. PICK n : n = Newest  OBVIOUS
    <3>3. Open(n)' /\ Jobless(n)'  BY <1>4, <1>r, <3>a, <3>1, <3>2 DEF RanRows
    <3>. QED  BY <1>1, <3>2, <3>3 DEF Open, Jobless
  <2>7. Enrols(c)'
    <3>. SUFFICES ASSUME call[c].pc = "name"
                  PROVE  jobs'[call[c].job].check = Newest /\ jobs'[call[c].job].kind = "coordinator"
      BY <1>1, <2>1 DEF Enrols
    <3>1. call[c].job \in DOMAIN jobs  BY <2>1 DEF CallPoints, WithJob
    <3>. QED  BY <1>r, <2>1, <3>1 DEF Handled, Enrols, RanJobs
  <2>8. Stops(c)'
    <3>. SUFFICES ASSUME call[c].pc \in {"job", "wait"}
                  PROVE  /\ ~ (checks'[jobs'[call[c].job].check].st # "settled")
                         /\ call[c].pc = "wait" => jobs'[call[c].job].st # "queued"
      BY <2>1 DEF Stops, Open
    <3>1. call[c].job \in DOMAIN jobs  BY <2>1 DEF CallPoints, WithJob
    <3>2. jobs[call[c].job].check \in DOMAIN checks  BY <1>t, <3>1 DEF TypeInv, Points, JobPoints
    <3>. QED  BY <1>r, <2>1, <3>1, <3>2 DEF Handled, Stops, RanJobs, RanRows, Open
  <2>. QED  BY <2>2, <2>3, <2>4, <2>5, <2>6, <2>7, <2>8 DEF Handled
<1>. QED  BY <1>r, <1>5, <1>6, <1>8 DEF Settled

LEMMA Alone ==
  ASSUME OneCaller, NEW c \in Calls
  PROVE  /\ Quiet <=> call[c].pc = "idle"
         /\ Quiet' <=> call'[c].pc = "idle"
         /\ (\A d \in Calls : Handled(d)) => Handled(c)
         /\ Handled(c)' => \A d \in Calls : Handled(d)'
PROOF
<1>1. \A d \in Calls : d = c  BY DEF OneCaller
<1>2. Quiet <=> call[c].pc = "idle"  BY <1>1 DEF Quiet
<1>3. Quiet' <=> call'[c].pc = "idle"  BY <1>1 DEF Quiet
<1>4. Handled(c)' => \A d \in Calls : Handled(d)'
  <2>. SUFFICES ASSUME Handled(c)', NEW d \in Calls PROVE Handled(d)'  OBVIOUS
  <2>1. d = c  BY <1>1
  <2>. QED  BY <2>1
<1>. QED  BY <1>1, <1>2, <1>3, <1>4

LEMMA OwnJobStands ==
  ASSUME TypeInv, Typed', OwnJob, Len(jobs') >= Len(jobs), Len(checks') = Len(checks),
         \A j \in DOMAIN jobs : jobs'[j].check = jobs[j].check,
         \A k \in DOMAIN checks : checks'[k].job = checks[k].job
  PROVE  OwnJob'
PROOF
<1>1. Sized /\ Sized'  BY Sizes DEF TypeInv
<1>. SUFFICES ASSUME NEW k \in DOMAIN checks, checks[k].job # 0
              PROVE  jobs'[checks[k].job].check = k
  BY <1>1 DEF OwnJob, Sized
<1>2. checks[k].job \in DOMAIN jobs  BY <1>1 DEF TypeInv, Points, RowPoints, Sized
<1>. QED  BY <1>2 DEF OwnJob

LEMMA EndsHandled ==
  ASSUME NEW c \in Calls, Ends(c)
  PROVE  Handled(c)'
PROOF BY DEF Ends, Handled, Attends, Starts, Clears, Makes, Drafts, Enrols, Stops, Drafting, Making

\* The way of every call that has superseded: over if it closes, on to the new attempt.
LEMMA SupersedesHandled ==
  ASSUME OneCaller, NEW c \in Calls, Attends(c), call[c].pc # "idle", UNCHANGED pr,
         Supersedes(c), AllSettled'
  PROVE  Handled(c)' /\ LeftOpen'
PROOF
<1>1. CASE call[c].effect = "close" /\ Ends(c)
  <2>1. ~ pr'.open  BY <1>1 DEF Attends
  <2>. QED  BY <1>1, <2>1, EndsHandled DEF LeftOpen
<1>2. CASE call[c].effect # "close" /\ Goes(c, "create")
  <2>1. /\ call'[c].pc = "create" /\ call'[c].effect = call[c].effect /\ call'[c].head = call[c].head
    BY <1>2 DEF Goes, Keeps
  <2>2. OnlyOpen(Newest)'  BY DEF AllSettled, OnlyOpen
  <2>3. Attends(c)'  BY <2>1, <2>2 DEF Attends
  <2>4. Handled(c)'
    BY <1>2, <2>1, <2>3 DEF Handled, Starts, Clears, Makes, Drafts, Enrols, Stops, Drafting, Making
  <2>5. ~ Quiet'  BY <2>1, Alone
  <2>. QED  BY <2>4, <2>5 DEF LeftOpen
<1>. QED  BY <1>1, <1>2 DEF Supersedes

LEMMA ReceiveSettled ==
  ASSUME Settled, OneCaller, NEW c \in Calls, Receive(c)
  PROVE  Settled'
PROOF
<1>t. TypeInv /\ LeftOpen /\ OwnJob /\ TypeInv'  BY ReceiveTyped DEF Settled
<1>f. /\ UNCHANGED <<checks, github, jobs, lane>> /\ call[c].pc = "idle"
      /\ call'[c].pc \in {"stored", "active"} /\ call'[c].head = pr'.head
      /\ call'[c].effect = "close" <=> ~ pr'.open
      /\ call'[c].effect = "close" => call'[c].pc = "active"
  BY <1>t, ReceiveFacts
<1>2. OwnJob'  BY <1>t, <1>f DEF OwnJob
<1>3. ~ Quiet' /\ Quiet  BY <1>f, Alone
<1>4. OnlyOpen(Newest)  BY <1>t, <1>3 DEF LeftOpen, OnlyOpen, AllSettled
<1>5. OnlyOpen(Newest)'  BY <1>f, <1>4 DEF OnlyOpen, Open, Newest
<1>6. Attends(c)'  BY <1>f, <1>5 DEF Attends
<1>7. Handled(c)'
  BY <1>f, <1>6 DEF Handled, Starts, Clears, Makes, Drafts, Enrols, Stops, Drafting, Making
<1>. QED  BY <1>t, <1>2, <1>3, <1>7, Alone DEF Settled, LeftOpen

LEMMA ReadStoredSettled ==
  ASSUME Settled, OneCaller, NEW c \in Calls, ReadStored(c)
  PROVE  Settled'
PROOF
<1>t. TypeInv /\ LeftOpen /\ OwnJob /\ Handled(c) /\ TypeInv'  BY ReadStoredTyped DEF Settled
<1>f. /\ UNCHANGED <<pr, checks, github, jobs, lane, events>> /\ call[c].pc = "stored"
      /\ \/ Goes(c, "active")
         \/ ~ (pr.open /\ pr.head = call[c].head)
  BY <1>t, ReadStoredFacts
<1>1. Attends(c) /\ Starts(c)  BY <1>t DEF Handled
<1>2. Goes(c, "active")  BY <1>f, <1>1 DEF Attends, Starts
<1>4. OwnJob'  BY <1>t, <1>f DEF OwnJob
<1>5. call'[c].pc = "active" /\ call'[c].effect = call[c].effect /\ call'[c].head = call[c].head
  BY <1>2 DEF Goes, Keeps
<1>6. Attends(c)'  BY <1>f, <1>1, <1>5 DEF Attends, OnlyOpen, Open, Newest
<1>7. Handled(c)'
  BY <1>5, <1>6 DEF Handled, Starts, Clears, Makes, Drafts, Enrols, Stops, Drafting, Making
<1>8. ~ Quiet'  BY <1>5, Alone
<1>. QED  BY <1>t, <1>4, <1>7, <1>8, Alone DEF Settled, LeftOpen

LEMMA ReadActiveSettled ==
  ASSUME Settled, OneCaller, NEW c \in Calls, ReadActive(c)
  PROVE  Settled'
PROOF
<1>t. TypeInv /\ LeftOpen /\ OwnJob /\ Handled(c) /\ TypeInv'  BY ReadActiveTyped DEF Settled
<1>f. /\ UNCHANGED <<pr, checks, github, jobs, lane, events>> /\ call[c].pc = "active"
      /\ \/ OpenChecks = {} /\ Supersedes(c)
         \/ \E k \in OpenChecks :
              /\ call'[c].pc = "settle" /\ call'[c].check = k
              /\ call'[c].effect = call[c].effect /\ call'[c].head = call[c].head
  BY <1>t, ReadActiveFacts
<1>1. Attends(c)  BY <1>t DEF Handled
<1>3. OwnJob'  BY <1>t, <1>f DEF OwnJob
<1>4. CASE OpenChecks = {} /\ Supersedes(c)
  <2>1. AllSettled'  BY <1>f, <1>4 DEF AllSettled, OpenChecks, Open
  <2>2. Handled(c)' /\ LeftOpen'  BY <1>f, <1>1, <1>4, <2>1, SupersedesHandled
  <2>. QED  BY <1>t, <1>3, <2>2, Alone DEF Settled
<1>5. CASE \E k \in OpenChecks :
              /\ call'[c].pc = "settle" /\ call'[c].check = k
              /\ call'[c].effect = call[c].effect /\ call'[c].head = call[c].head
  <2>1. PICK k \in OpenChecks :
              /\ call'[c].pc = "settle" /\ call'[c].check = k
              /\ call'[c].effect = call[c].effect /\ call'[c].head = call[c].head
    BY <1>5
  <2>2. OnlyOpen(Newest)  BY <1>1, <1>f DEF Attends
  <2>3. k = Newest  BY <2>2 DEF OnlyOpen, OpenChecks
  <2>4. Attends(c)'  BY <1>f, <1>1, <2>1 DEF Attends, OnlyOpen, Open, Newest
  <2>5. Clears(c)'  BY <1>f, <2>1, <2>2, <2>3 DEF Clears, OnlyOpen, Open
  <2>6. Handled(c)'
    BY <2>1, <2>4, <2>5 DEF Handled, Starts, Makes, Drafts, Enrols, Stops, Drafting, Making
  <2>7. ~ Quiet'  BY <2>1, Alone
  <2>. QED  BY <1>t, <1>3, <2>6, <2>7, Alone DEF Settled, LeftOpen
<1>. QED  BY <1>f, <1>4, <1>5

LEMMA SettleActiveSettled ==
  ASSUME Settled, OneCaller, NEW c \in Calls, SettleActive(c)
  PROVE  Settled'
PROOF
<1>t. TypeInv /\ LeftOpen /\ OwnJob /\ Handled(c) /\ TypeInv' /\ Typed'
  BY SettleActiveTyped DEF Settled, TypeInv
<1>k. PICK k \in DOMAIN checks : k = call[c].check  BY <1>t, SettleActiveFacts
<1>f. /\ UNCHANGED <<pr, jobs, lane, events>> /\ call[c].pc = "settle" /\ Settles(k, Reason(c))
      /\ \/ /\ Open(k) /\ checks[k].job # 0
            /\ Keeps(c) /\ call'[c].pc = "job" /\ call'[c].job = checks[k].job
         \/ Supersedes(c)
  BY <1>t, <1>k, SettleActiveFacts
<1>s. Sized /\ Sized'  BY <1>t, Sizes DEF TypeInv
<1>1. Attends(c) /\ OnlyOpen(k)  BY <1>t, <1>f, <1>k DEF Handled, Clears
<1>2. AllSettled'  BY <1>s, <1>f, <1>1 DEF AllSettled, OnlyOpen, Open, Settles, Sized
<1>4. OwnJob'
  <2>1. Len(checks') = Len(checks) /\ \A l \in DOMAIN checks : checks'[l].job = checks[l].job
    BY <1>f DEF Settles
  <2>. QED  BY <1>t, <1>s, <1>f, <2>1, OwnJobStands DEF Sized
<1>5. CASE Supersedes(c)
  <2>1. Handled(c)' /\ LeftOpen'  BY <1>f, <1>1, <1>2, <1>5, SupersedesHandled
  <2>. QED  BY <1>t, <1>4, <2>1, Alone DEF Settled
<1>6. CASE /\ Open(k) /\ checks[k].job # 0
           /\ Keeps(c) /\ call'[c].pc = "job" /\ call'[c].job = checks[k].job
  <2>1. Attends(c)'  BY <1>f, <1>1, <1>2, <1>6 DEF Attends, Keeps, AllSettled, OnlyOpen
  <2>2. jobs'[call'[c].job].check = k  BY <1>t, <1>f, <1>6 DEF OwnJob
  <2>3. Stops(c)'  BY <1>f, <1>6, <2>2 DEF Stops, Settles, Open
  <2>4. Clears(c)'  BY <1>2, <1>6 DEF Clears
  <2>5. Handled(c)'
    BY <1>6, <2>1, <2>3, <2>4 DEF Handled, Starts, Makes, Drafts, Enrols, Drafting, Making
  <2>6. ~ Quiet'  BY <1>6, Alone
  <2>. QED  BY <1>t, <1>4, <2>5, <2>6, Alone DEF Settled, LeftOpen
<1>. QED  BY <1>f, <1>5, <1>6

LEMMA StopJobSettled ==
  ASSUME Settled, OneCaller, NEW c \in Calls, StopJob(c)
  PROVE  Settled'
PROOF
<1>t. TypeInv /\ LeftOpen /\ OwnJob /\ Handled(c) /\ TypeInv' /\ Typed'
  BY StopJobTyped DEF Settled, TypeInv
<1>k. PICK j \in DOMAIN jobs : j = call[c].job  BY <1>t, StopJobFacts
<1>f. /\ UNCHANGED <<pr, checks, github, lane, events>> /\ call[c].pc = "job"
      /\ \/ Supersedes(c) /\ Writes(j, "cancelled", jobs[j].stopped)
         \/ Goes(c, "wait") /\ Writes(j, "running", TRUE)
         \/ Supersedes(c) /\ UNCHANGED jobs
  BY <1>t, <1>k, StopJobFacts
<1>s. Sized /\ Sized'  BY <1>t, Sizes DEF TypeInv
<1>1. Attends(c) /\ AllSettled /\ Stops(c)  BY <1>t, <1>f DEF Handled, Clears
<1>2. AllSettled'  BY <1>f, <1>1 DEF AllSettled, Open
<1>n. Len(jobs') = Len(jobs) /\ \A i \in DOMAIN jobs : jobs'[i].check = jobs[i].check
  BY <1>f DEF Writes
<1>4. OwnJob'
  <2>1. Len(jobs') >= Len(jobs)  BY <1>s, <1>n DEF Sized
  <2>. QED  BY <1>t, <1>f, <1>n, <2>1, OwnJobStands
<1>5. CASE Supersedes(c)
  <2>1. Handled(c)' /\ LeftOpen'  BY <1>f, <1>1, <1>2, <1>5, SupersedesHandled
  <2>. QED  BY <1>t, <1>4, <2>1, Alone DEF Settled
<1>6. CASE Goes(c, "wait") /\ Writes(j, "running", TRUE)
  <2>1. call'[c].pc = "wait" /\ call'[c].job = j /\ Keeps(c)  BY <1>6, <1>k DEF Goes
  <2>2. Attends(c)'  BY <1>f, <1>1, <1>2, <2>1 DEF Attends, Keeps, AllSettled, OnlyOpen
  <2>3. Stops(c)'  BY <1>f, <1>k, <1>1, <1>n, <1>6, <2>1 DEF Stops, Writes, Open
  <2>4. Clears(c)'  BY <1>2, <2>1 DEF Clears
  <2>5. Handled(c)'
    BY <2>1, <2>2, <2>3, <2>4 DEF Handled, Starts, Makes, Drafts, Enrols, Drafting, Making
  <2>6. ~ Quiet'  BY <2>1, Alone
  <2>. QED  BY <1>t, <1>4, <2>5, <2>6, Alone DEF Settled, LeftOpen
<1>. QED  BY <1>f, <1>5, <1>6

LEMMA UnwoundSettled ==
  ASSUME Settled, OneCaller, NEW c \in Calls, Unwound(c)
  PROVE  Settled'
PROOF
<1>t. TypeInv /\ LeftOpen /\ OwnJob /\ Handled(c) /\ TypeInv'  BY UnwoundTyped DEF Settled
<1>f. /\ UNCHANGED <<pr, checks, github, jobs, lane, events>> /\ call[c].pc = "wait" /\ Supersedes(c)
  BY <1>t, UnwoundFacts
<1>1. Attends(c) /\ AllSettled  BY <1>t, <1>f DEF Handled, Clears
<1>2. AllSettled'  BY <1>f, <1>1 DEF AllSettled, Open
<1>4. OwnJob'  BY <1>t, <1>f DEF OwnJob
<1>5. Handled(c)' /\ LeftOpen'  BY <1>f, <1>1, <1>2, SupersedesHandled
<1>. QED  BY <1>t, <1>4, <1>5, Alone DEF Settled

LEMMA OutlastSettled ==
  ASSUME Settled, OneCaller, NEW c \in Calls, Outlast(c)
  PROVE  Settled'
PROOF
<1>t. TypeInv /\ LeftOpen /\ OwnJob /\ Handled(c) /\ TypeInv' /\ Typed'
  BY OutlastTyped DEF Settled, TypeInv
<1>f. /\ UNCHANGED <<pr, checks, github, lane, events>> /\ call[c].pc = "wait" /\ Supersedes(c)
      /\ Len(jobs') = Len(jobs) /\ \A i \in DOMAIN jobs : jobs'[i].check = jobs[i].check
  BY <1>t, OutlastFacts DEF Writes
<1>s. Sized /\ Sized'  BY <1>t, Sizes DEF TypeInv
<1>1. Attends(c) /\ AllSettled  BY <1>t, <1>f DEF Handled, Clears
<1>2. AllSettled'  BY <1>f, <1>1 DEF AllSettled, Open
<1>4. OwnJob'
  <2>1. Len(jobs') >= Len(jobs)  BY <1>s, <1>f DEF Sized
  <2>. QED  BY <1>t, <1>f, <2>1, OwnJobStands
<1>5. Handled(c)' /\ LeftOpen'  BY <1>f, <1>1, <1>2, SupersedesHandled
<1>. QED  BY <1>t, <1>4, <1>5, Alone DEF Settled

LEMMA CreateCheckSettled ==
  ASSUME Settled, OneCaller, NEW c \in Calls, CreateCheck(c)
  PROVE  Settled'
PROOF
<1>t. TypeInv /\ LeftOpen /\ OwnJob /\ Handled(c) /\ TypeInv' /\ Typed'
  BY CreateCheckTyped DEF Settled, TypeInv
<1>s. Sized /\ Sized'  BY <1>t, Sizes DEF TypeInv
<1>n. PICK n : n = Len(checks) + 1  OBVIOUS
<1>f. /\ UNCHANGED <<pr, jobs, lane, events>> /\ call[c].pc = "create" /\ Len(checks') = n
      /\ \A k \in DOMAIN checks : checks'[k] = checks[k] /\ github'[k] = github[k]
      /\ checks'[n].head = call[c].head /\ checks'[n].st = "queued" /\ checks'[n].job = 0
      /\ github'[n] = "none"
      /\ call'[c].pc = "post" /\ call'[c].check = n
      /\ call'[c].effect = call[c].effect /\ call'[c].head = call[c].head
  BY <1>t, <1>n, CreateCheckFacts
<1>d. DOMAIN checks' = DOMAIN checks \cup {n} /\ n \notin DOMAIN checks /\ n > 0
  BY <1>s, <1>n, <1>f DEF Sized
<1>1. Attends(c) /\ AllSettled  BY <1>t, <1>f DEF Handled, Clears
<1>2. Newest' = n  BY <1>f DEF Newest
<1>4. OwnJob'  BY <1>t, <1>d, <1>f DEF OwnJob
<1>5. OnlyOpen(n)'  BY <1>d, <1>f, <1>1 DEF OnlyOpen, AllSettled, Open
<1>6. Attends(c)'  BY <1>f, <1>1, <1>2, <1>5 DEF Attends, OnlyOpen
<1>7. Starts(c)'
  <2>1. call[c].effect # "close"  BY <1>t, <1>f DEF Handled, Starts
  <2>. QED  BY <1>f, <2>1 DEF Starts
<1>8. Makes(c)'  BY <1>1, <1>2, <1>d, <1>f DEF Makes, Attends
<1>9. Drafts(c)'
  <2>1. Open(n)'  BY <1>f DEF Open
  <2>2. Jobless(n)'  BY <1>t, <1>d, <1>f DEF Jobless, TypeInv, Points, JobPoints
  <2>. QED  BY <1>2, <2>1, <2>2 DEF Drafts, Open, Jobless
<1>10. Handled(c)'
  BY <1>f, <1>6, <1>7, <1>8, <1>9 DEF Handled, Clears, Enrols, Stops
<1>11. ~ Quiet'  BY <1>f, Alone
<1>. QED  BY <1>t, <1>4, <1>10, <1>11, Alone DEF Settled, LeftOpen

LEMMA NewestKnown ==
  ASSUME TypeInv, NEW c \in Calls, Handled(c), call[c].pc \in Making
  PROVE  /\ Newest \in DOMAIN checks /\ call[c].check = Newest /\ OnlyOpen(Newest)
         /\ call[c].effect # "close" /\ pr.open /\ checks[Newest].head = pr.head
         /\ call[c].head = pr.head
PROOF
<1>1. Sized  BY Sizes DEF TypeInv
<1>2. Newest > 0 /\ call[c].check = Newest /\ checks[Newest].head = pr.head  BY DEF Handled, Makes
<1>3. OnlyOpen(Newest) /\ call[c].head = pr.head /\ (call[c].effect = "close" <=> ~ pr.open)
  BY DEF Handled, Attends, Making, Drafting
<1>4. call[c].effect # "close"  BY DEF Handled, Starts
<1>. QED  BY <1>1, <1>2, <1>3, <1>4 DEF Newest, Sized

\* The step of a call that goes on making its attempt, with no row settled by it.
LEMMA MakingGoesOn ==
  ASSUME TypeInv, Typed', NEW c \in Calls, Handled(c), call[c].pc \in Drafting, UNCHANGED pr,
         call'[c].pc \in Drafting, Keeps(c), Len(checks') = Len(checks), UNCHANGED jobs,
         \A k \in DOMAIN checks : (Open(k)' <=> Open(k)) /\ checks'[k].head = checks[k].head
  PROVE  Handled(c)'
PROOF
<1>s. Sized /\ Sized'  BY Sizes DEF TypeInv
<1>d. DOMAIN checks' = DOMAIN checks /\ Newest' = Newest  BY <1>s DEF Sized, Newest
<1>p. call[c].pc \in Making /\ call'[c].pc \in Making  BY DEF Making
<1>1. /\ Newest \in DOMAIN checks /\ call[c].check = Newest /\ OnlyOpen(Newest)
      /\ call[c].effect # "close" /\ pr.open /\ checks[Newest].head = pr.head
      /\ call[c].head = pr.head
  BY <1>p, NewestKnown
<1>2. OnlyOpen(Newest)'  BY <1>d, <1>1 DEF OnlyOpen
<1>3. Attends(c)'  BY <1>1, <1>2 DEF Attends, Keeps
<1>4. Starts(c)'  BY <1>1 DEF Starts, Keeps
<1>5. Makes(c)'
  <2>1. Newest > 0  BY <1>s, <1>1 DEF Sized
  <2>. QED  BY <1>d, <1>1, <2>1 DEF Makes, Keeps
<1>6. Drafts(c)'
  <2>1. Open(Newest) /\ Jobless(Newest)  BY DEF Handled, Drafts
  <2>2. PICK n \in DOMAIN checks : n = Newest  BY <1>1
  <2>3. Open(n)' /\ Jobless(n)'  BY <2>1, <2>2 DEF Jobless
  <2>. QED  BY <1>d, <2>2, <2>3 DEF Drafts, Open, Jobless
<1>. QED  BY <1>3, <1>4, <1>5, <1>6 DEF Handled, Clears, Enrols, Stops, Drafting

LEMMA PostSettled ==
  ASSUME Settled, OneCaller, NEW c \in Calls, Post(c)
  PROVE  Settled'
PROOF
<1>t. TypeInv /\ LeftOpen /\ OwnJob /\ Handled(c) /\ TypeInv' /\ Typed'
  BY PostTyped DEF Settled, TypeInv
<1>f. /\ UNCHANGED <<pr, checks, jobs, lane, events>> /\ call[c].pc = "post"
      /\ call[c].check \in DOMAIN checks
      /\ Goes(c, "posted") \/ Goes(c, Onward(c))
  BY <1>t, PostFacts
<1>p. call'[c].pc \in Drafting /\ Keeps(c) /\ call[c].pc \in Drafting
  BY <1>f DEF Goes, Onward, Drafting
<1>1. Handled(c)'  BY <1>t, <1>f, <1>p, MakingGoesOn DEF Open
<1>2. OwnJob'  BY <1>t, <1>f DEF OwnJob
<1>3. ~ Quiet'  BY <1>p, Alone DEF Drafting
<1>. QED  BY <1>t, <1>1, <1>2, <1>3, Alone DEF Settled, LeftOpen

LEMMA RememberPostSettled ==
  ASSUME Settled, OneCaller, NEW c \in Calls, RememberPost(c)
  PROVE  Settled'
PROOF
<1>t. TypeInv /\ LeftOpen /\ OwnJob /\ Handled(c) /\ TypeInv' /\ Typed'
  BY RememberPostTyped DEF Settled, TypeInv
<1>k. PICK k \in DOMAIN checks : k = call[c].check  BY <1>t, RememberPostFacts
<1>f. /\ UNCHANGED <<pr, github, jobs, lane, events>> /\ call[c].pc = "posted"
      /\ Goes(c, Onward(c))
      /\ Rewrites(k, checks[k].st, checks[k].job, TRUE) \/ ~ Open(k)
  BY <1>t, <1>k, RememberPostFacts
<1>s. Sized /\ Sized'  BY <1>t, Sizes DEF TypeInv
<1>p. call'[c].pc \in Drafting /\ Keeps(c) /\ call[c].pc \in Drafting
  BY <1>f DEF Goes, Onward, Drafting
<1>o. Open(k)  BY <1>t, <1>k, <1>p, NewestKnown DEF Handled, Drafts, Making
<1>r. /\ Len(checks') = Len(checks)
      /\ \A l \in DOMAIN checks :
           /\ Open(l)' <=> Open(l)
           /\ checks'[l].head = checks[l].head /\ checks'[l].job = checks[l].job
           /\ checks'[l].posted = IF l = k THEN TRUE ELSE checks[l].posted
  BY <1>f, <1>o DEF Rewrites, Open
<1>1. Handled(c)'  BY <1>t, <1>f, <1>p, <1>r, MakingGoesOn
<1>2. OwnJob'
  <2>1. Len(jobs') >= Len(jobs) /\ \A j \in DOMAIN jobs : jobs'[j].check = jobs[j].check
    BY <1>s, <1>f DEF Sized
  <2>. QED  BY <1>t, <1>r, <2>1, OwnJobStands
<1>3. ~ Quiet'  BY <1>p, Alone DEF Drafting
<1>. QED  BY <1>t, <1>1, <1>2, <1>3, Alone DEF Settled, LeftOpen

LEMMA EnqueueCheckSettled ==
  ASSUME Settled, OneCaller, NEW c \in Calls, EnqueueCheck(c)
  PROVE  Settled'
PROOF
<1>t. TypeInv /\ LeftOpen /\ OwnJob /\ Handled(c) /\ TypeInv' /\ Typed'
  BY EnqueueCheckTyped DEF Settled, TypeInv
<1>f. /\ UNCHANGED <<pr, checks, github, lane, events>> /\ call[c].pc = "enqueue"
      /\ \/ Goes(c, "busy") /\ UNCHANGED jobs
         \/ /\ Joins("coordinator", call[c].check) /\ Keeps(c)
            /\ call'[c].pc = "name" /\ call'[c].job = Len(jobs) + 1
  BY <1>t, EnqueueCheckFacts
<1>s. Sized /\ Sized'  BY <1>t, Sizes DEF TypeInv
<1>2. CASE Goes(c, "busy") /\ UNCHANGED jobs
  <2>1. call'[c].pc \in Drafting /\ Keeps(c) /\ call[c].pc \in Drafting
    BY <1>f, <1>2 DEF Goes, Drafting
  <2>2. Handled(c)'  BY <1>t, <1>f, <1>2, <2>1, MakingGoesOn DEF Open
  <2>3. OwnJob'  BY <1>t, <1>f, <1>2 DEF OwnJob
  <2>4. ~ Quiet'  BY <2>1, Alone DEF Drafting
  <2>. QED  BY <1>t, <2>2, <2>3, <2>4, Alone DEF Settled, LeftOpen
<1>3. CASE /\ Joins("coordinator", call[c].check) /\ Keeps(c)
           /\ call'[c].pc = "name" /\ call'[c].job = Len(jobs) + 1
  <2>1. /\ Newest \in DOMAIN checks /\ call[c].check = Newest /\ OnlyOpen(Newest)
        /\ call[c].effect # "close" /\ pr.open /\ checks[Newest].head = pr.head
        /\ call[c].head = pr.head
    BY <1>t, <1>f, NewestKnown DEF Making, Drafting
  <2>2. Newest' = Newest /\ OnlyOpen(Newest)'  BY <1>f, <2>1 DEF OnlyOpen, Open, Newest
  <2>3. Attends(c)'  BY <1>f, <1>3, <2>1, <2>2 DEF Attends, Keeps
  <2>4. Starts(c)'  BY <1>3, <2>1 DEF Starts, Keeps
  <2>5. Makes(c)'
    <3>1. Newest > 0  BY <1>s, <2>1 DEF Sized
    <3>. QED  BY <1>f, <1>3, <2>1, <2>2, <3>1 DEF Makes, Keeps
  <2>6. Enrols(c)'  BY <1>3, <2>1, <2>2 DEF Enrols, Joins
  <2>7. Handled(c)'
    BY <1>3, <2>3, <2>4, <2>5, <2>6 DEF Handled, Clears, Drafts, Stops, Drafting
  <2>8. Len(jobs') >= Len(jobs)
    <3>1. Len(jobs') = Len(jobs) + 1  BY <1>3 DEF Joins
    <3>. QED  BY <1>s, <3>1 DEF Sized
  <2>9. OwnJob'  BY <1>t, <1>f, <1>3, <2>8, OwnJobStands DEF Joins
  <2>10. ~ Quiet'  BY <1>3, Alone
  <2>. QED  BY <1>t, <2>7, <2>9, <2>10, Alone DEF Settled, LeftOpen
<1>. QED  BY <1>f, <1>2, <1>3

LEMMA SettleNewSettled ==
  ASSUME Settled, OneCaller, NEW c \in Calls, SettleNew(c)
  PROVE  Settled'
PROOF
<1>t. TypeInv /\ LeftOpen /\ OwnJob /\ Handled(c) /\ TypeInv' /\ Typed'
  BY SettleNewTyped DEF Settled, TypeInv
<1>k. PICK k \in DOMAIN checks : k = call[c].check  BY <1>t, SettleNewFacts
<1>r. PICK reason : reason = IF call[c].pc = "draft" THEN "draft" ELSE "cancelled"  OBVIOUS
<1>f. /\ UNCHANGED <<pr, jobs, lane, events>> /\ call[c].pc \in {"draft", "busy"}
      /\ Ends(c) /\ Settles(k, reason)
  BY <1>t, <1>k, <1>r, SettleNewFacts
<1>s. Sized /\ Sized'  BY <1>t, Sizes DEF TypeInv
<1>1. k = Newest /\ OnlyOpen(k)  BY <1>t, <1>k, <1>f, NewestKnown DEF Making, Drafting
<1>2. AllSettled'  BY <1>s, <1>f, <1>1 DEF AllSettled, OnlyOpen, Open, Settles, Sized
<1>4. OwnJob'
  <2>1. Len(checks') = Len(checks) /\ \A l \in DOMAIN checks : checks'[l].job = checks[l].job
    BY <1>f DEF Settles
  <2>. QED  BY <1>t, <1>s, <1>f, <2>1, OwnJobStands DEF Sized
<1>5. LeftOpen'  BY <1>2 DEF LeftOpen, AllSettled, OnlyOpen
<1>6. Handled(c)'  BY <1>f, EndsHandled
<1>. QED  BY <1>t, <1>4, <1>5, <1>6, Alone DEF Settled

LEMMA NameJobSettled ==
  ASSUME Settled, OneCaller, NEW c \in Calls, NameJob(c)
  PROVE  Settled'
PROOF
<1>t. TypeInv /\ LeftOpen /\ OwnJob /\ Handled(c) /\ CallPoints(c) /\ TypeInv' /\ Typed'
  BY NameJobTyped DEF Settled, TypeInv, Points
<1>k. PICK k \in DOMAIN checks : k = call[c].check  BY <1>t, NameJobFacts
<1>f. /\ UNCHANGED <<pr, github, jobs, lane, events>> /\ call[c].pc = "name" /\ Ends(c)
      /\ Rewrites(k, checks[k].st, call[c].job, checks[k].posted) \/ UNCHANGED checks
  BY <1>t, <1>k, NameJobFacts
<1>s. Sized /\ Sized'  BY <1>t, Sizes DEF TypeInv
<1>1. k = Newest /\ OnlyOpen(k) /\ pr.open  BY <1>t, <1>k, <1>f, NewestKnown DEF Making
<1>r. /\ Len(checks') = Len(checks)
      /\ \A l \in DOMAIN checks :
           /\ Open(l)' <=> Open(l)
           /\ checks'[l].posted = checks[l].posted
           /\ checks'[l].job = checks[l].job \/ (l = k /\ checks'[l].job = call[c].job)
  BY <1>f DEF Rewrites, Open
<1>d. DOMAIN checks' = DOMAIN checks /\ Newest' = Newest  BY <1>s, <1>r DEF Sized, Newest
<1>2. LeftOpen'
  <2>1. OnlyOpen(Newest)'  BY <1>1, <1>r, <1>d DEF OnlyOpen
  <2>. QED  BY <1>f, <1>1, <2>1 DEF LeftOpen
<1>4. OwnJob'
  <2>. SUFFICES ASSUME NEW l \in DOMAIN checks, checks'[l].job # 0
                PROVE  jobs[checks'[l].job].check = l
    BY <1>d, <1>f DEF OwnJob
  <2>1. CASE checks'[l].job = checks[l].job  BY <1>t, <2>1 DEF OwnJob
  <2>2. CASE l = k /\ checks'[l].job = call[c].job
    BY <1>t, <1>f, <1>1, <2>2 DEF Handled, Enrols
  <2>. QED  BY <1>r, <2>1, <2>2
<1>5. Handled(c)'  BY <1>f, EndsHandled
<1>. QED  BY <1>t, <1>2, <1>4, <1>5, Alone DEF Settled

LEMMA InitSettled ==
  ASSUME Init
  PROVE  Settled
PROOF
<1>1. DOMAIN checks = {} /\ \A c \in Calls : call[c] = NoCall  BY DEF Init
<1>2. LeftOpen /\ OwnJob  BY <1>1 DEF LeftOpen, OwnJob, OnlyOpen, AllSettled
<1>3. ASSUME NEW c \in Calls
      PROVE  Handled(c)
  <2>1. call[c].pc = "idle"  BY <1>1 DEF NoCall
  <2>. QED  BY <2>1 DEF Handled, Attends, Starts, Clears, Makes, Drafts, Enrols, Stops, Drafting, Making
<1>. QED  BY <1>2, <1>3, InitTyped DEF Settled

LEMMA StepSettled ==
  ASSUME Settled, OneCaller, [Next]_vars
  PROVE  Settled'
PROOF
<1>1. ASSUME NEW c \in Calls, Handle(c)
      PROVE  Settled'
  BY <1>1, ReadStoredSettled, ReadActiveSettled, SettleActiveSettled, StopJobSettled,
     UnwoundSettled, OutlastSettled, CreateCheckSettled, PostSettled, RememberPostSettled,
     EnqueueCheckSettled, SettleNewSettled, NameJobSettled DEF Handle
<1>2. CASE UNCHANGED vars
  <2>1. TypeInv'  BY <1>2, StepTyped DEF Settled
  <2>2. (LeftOpen /\ OwnJob)'
    BY <1>2 DEF vars, Settled, LeftOpen, Quiet, OwnJob, OnlyOpen, AllSettled, Open, Newest
  <2>3. ASSUME NEW c \in Calls
        PROVE  Handled(c)'
    BY <1>2 DEF vars, Settled, Handled, Attends, Starts, Clears, Makes, Drafts, Enrols, Stops,
                OnlyOpen, AllSettled, Jobless, Open, Newest
  <2>. QED  BY <2>1, <2>2, <2>3 DEF Settled
<1>. QED  BY <1>1, <1>2, RunSettled, ReceiveSettled DEF Next

\* One event at a time, no attempt stays open beside the newest once the event is
\* handled, and none at all of a closed pull request: the call settles what is active
\* before it makes anything, and the worker opens nothing.
THEOREM OneCheckAtATime == ASSUME OneCaller PROVE Spec => []OneCheckOpen
PROOF
<1>1. Init => Settled  BY InitSettled
<1>2. Settled /\ [Next]_vars => Settled'  BY StepSettled
<1>3. Settled => OneCheckOpen
  BY DEF Settled, OneCheckOpen, LeftOpen, OnlyOpen, AllSettled, OpenChecks
<1>4. Spec => []Settled  BY <1>1, <1>2, PTL DEF Spec
<1>. QED  BY <1>3, <1>4, PTL

-------------------------------------------------------------------------------
(* The head is checked. *)

Body == {"open", "mark", "post", "work", "chain", "judge", "end"}
Coord(j) == jobs[j].kind = "coordinator"
Verdict(k) == checks[k].reason \in {"judged", "error"}

\* The lane's job is the only one that runs, and a stop is asked for a settled check only.
Laned ==
  /\ \A j \in DOMAIN jobs : jobs[j].st = "running" => lane.job = j /\ lane.pc \in Body
  /\ lane.pc # "free" => jobs[lane.job].st # "queued"
  /\ \A j \in DOMAIN jobs : jobs[j].stopped \/ jobs[j].st = "cancelled" => ~ Open(jobs[j].check)
\* The word the lane's job has for its check.
Reasoned ==
  /\ lane.pc \in {"open", "mark", "post", "work", "chain"} => lane.reason = "none"
  /\ lane.pc \in {"judge", "end"} => lane.reason \in {"none", "judged", "error"}
  /\ lane.pc = "hook" => lane.reason \in {"none", "judged", "error"} \/ ~ Open(Mine)
  /\ lane.pc \in {"chain", "judge"} => Coordinates
\* The keys: one live job of a kind, one coordinator of a check, and a coordinator that
\* has handed over is at its end.
Keyed ==
  /\ \A i, j \in DOMAIN jobs : Live(i) /\ Live(j) /\ jobs[i].kind = jobs[j].kind => i = j
  /\ \A i, j \in DOMAIN jobs : Coord(i) /\ Coord(j) /\ jobs[i].check = jobs[j].check => i = j
  /\ \A i, j \in DOMAIN jobs :
       Coord(i) /\ ~ Coord(j) /\ jobs[i].check = jobs[j].check /\ Live(i) =>
         lane.job = i /\ lane.pc = "end"
\* A coordinator that is not at its end yet has no verdict on its check.
Unjudged ==
  /\ lane.pc \in {"open", "mark", "post", "work", "chain", "judge"} /\ Coordinates => ~ Verdict(Mine)
  /\ \A j \in DOMAIN jobs : Coord(j) /\ jobs[j].st = "queued" => ~ Verdict(jobs[j].check)
\* A job that ends without a word on an open check has handed it to a link.
HandedOver ==
  lane.pc = "end" /\ lane.reason = "none" /\ Open(Mine) =>
    \E j \in DOMAIN jobs : jobs[j].check = Mine /\ jobs[j].st = "queued"
Orderly == Laned /\ Reasoned /\ Keyed /\ Unjudged /\ HandedOver

\* What a call may do to the rows and to the jobs.
CalledRows ==
  /\ Len(checks') >= Len(checks)
  /\ \A k \in DOMAIN checks :
       /\ Open(k)' => Open(k)
       /\ ~ Open(k) => checks'[k].reason = checks[k].reason
       /\ Verdict(k)' <=> Verdict(k)
       /\ Open(k) /\ ~ Open(k)' /\ ~ Jobless(k) => checks'[k].reason \in {"superseded", "cancelled"}
CalledJobs ==
  /\ Len(jobs') >= Len(jobs)
  /\ \A j \in DOMAIN jobs :
       /\ jobs'[j].kind = jobs[j].kind /\ jobs'[j].check = jobs[j].check
       /\ \/ jobs'[j].st = jobs[j].st
          \/ Live(j) /\ jobs'[j].st = "cancelled" /\ ~ Open(jobs[j].check)
       /\ jobs'[j].stopped => jobs[j].stopped \/ ~ Open(jobs[j].check)
  /\ \A j \in DOMAIN jobs' : j \notin DOMAIN jobs =>
       /\ j = Len(jobs) + 1
       /\ jobs'[j].kind = "coordinator" /\ jobs'[j].st = "queued" /\ ~ jobs'[j].stopped
       /\ jobs'[j].check \in DOMAIN checks /\ Jobless(jobs'[j].check)
       /\ ~ Verdict(jobs'[j].check) /\ ~ KeyHeld("coordinator")
Called == CalledRows /\ CalledJobs /\ UNCHANGED lane

LEMMA RowsCalled ==
  ASSUME TypeInv, UNCHANGED checks
  PROVE  CalledRows
PROOF
<1>1. Sized  BY Sizes DEF TypeInv
<1>. QED  BY <1>1 DEF CalledRows, Open, Verdict, Sized

LEMMA RowsRewrittenCalled ==
  ASSUME TypeInv, NEW k \in DOMAIN checks, NEW job, NEW posted, Rewrites(k, checks[k].st, job, posted)
  PROVE  CalledRows
PROOF
<1>1. Sized  BY Sizes DEF TypeInv
<1>2. \A l \in DOMAIN checks : checks'[l].reason = checks[l].reason /\ checks'[l].st = checks[l].st
  BY DEF Rewrites
<1>3. Len(checks') = Len(checks)  BY DEF Rewrites
<1>. QED  BY <1>1, <1>2, <1>3 DEF CalledRows, Open, Verdict, Sized

LEMMA RowsSettledCalled ==
  ASSUME TypeInv, NEW k \in DOMAIN checks, NEW reason, Settles(k, reason),
         reason \in {"superseded", "cancelled"} \/ (reason = "draft" /\ Jobless(k))
  PROVE  CalledRows
PROOF
<1>1. Sized /\ RowPoints  BY Sizes DEF TypeInv, Points
<1>2. Len(checks') = Len(checks)  BY DEF Settles
<1>3. ASSUME NEW l \in DOMAIN checks
      PROVE  /\ Open(l)' => Open(l)
             /\ ~ Open(l) => checks'[l].reason = checks[l].reason
             /\ Verdict(l)' <=> Verdict(l)
             /\ Open(l) /\ ~ Open(l)' /\ ~ Jobless(l) => checks'[l].reason \in {"superseded", "cancelled"}
  <2>1. CASE l = k  BY <1>1, <2>1 DEF Settles, Open, Verdict, RowPoints
  <2>2. CASE l # k  BY <2>2 DEF Settles, Open, Verdict
  <2>. QED  BY <2>1, <2>2
<1>. QED  BY <1>1, <1>2, <1>3 DEF CalledRows, Sized

LEMMA JobsCalled ==
  ASSUME TypeInv, UNCHANGED jobs
  PROVE  CalledJobs
PROOF
<1>1. Sized  BY Sizes DEF TypeInv
<1>. QED  BY <1>1 DEF CalledJobs, Sized

LEMMA JobsWrittenCalled ==
  ASSUME TypeInv, Typed', NEW j \in DOMAIN jobs, ~ Open(jobs[j].check), NEW st, NEW stopped,
         Writes(j, st, stopped), st = jobs[j].st \/ (Live(j) /\ st = "cancelled")
  PROVE  CalledJobs
PROOF
<1>1. Sized /\ Sized'  BY Sizes DEF TypeInv
<1>2. Len(jobs') = Len(jobs)  BY DEF Writes
<1>3. DOMAIN jobs' = DOMAIN jobs  BY <1>1, <1>2 DEF Sized
<1>4. ASSUME NEW i \in DOMAIN jobs
      PROVE  /\ jobs'[i].kind = jobs[i].kind /\ jobs'[i].check = jobs[i].check
             /\ \/ jobs'[i].st = jobs[i].st
                \/ Live(i) /\ jobs'[i].st = "cancelled" /\ ~ Open(jobs[i].check)
             /\ jobs'[i].stopped => jobs[i].stopped \/ ~ Open(jobs[i].check)
  <2>1. CASE i = j  BY <2>1 DEF Writes
  <2>2. CASE i # j  BY <2>2 DEF Writes
  <2>. QED  BY <2>1, <2>2
<1>. QED  BY <1>1, <1>2, <1>3, <1>4 DEF CalledJobs, Sized

LEMMA CallEffect ==
  ASSUME Settled, OneCaller, NEW c \in Calls, Receive(c) \/ Handle(c)
  PROVE  Called
PROOF
<1>t. TypeInv /\ Handled(c) /\ CallPoints(c)  BY DEF Settled, TypeInv, Points
<1>1. CASE Receive(c)
  <2>1. UNCHANGED <<checks, jobs, lane>>  BY <1>1, <1>t, ReceiveFacts
  <2>. QED  BY <1>t, <2>1, RowsCalled, JobsCalled DEF Called
<1>2. CASE ReadStored(c)
  <2>1. UNCHANGED <<checks, jobs, lane>>  BY <1>2, <1>t, ReadStoredFacts
  <2>. QED  BY <1>t, <2>1, RowsCalled, JobsCalled DEF Called
<1>3. CASE ReadActive(c)
  <2>1. UNCHANGED <<checks, jobs, lane>>  BY <1>3, <1>t, ReadActiveFacts
  <2>. QED  BY <1>t, <2>1, RowsCalled, JobsCalled DEF Called
<1>4. CASE SettleActive(c)
  <2>1. PICK k \in DOMAIN checks : k = call[c].check  BY <1>4, <1>t, SettleActiveFacts
  <2>r. PICK reason : reason = Reason(c)  OBVIOUS
  <2>2. UNCHANGED <<jobs, lane>> /\ Settles(k, reason)  BY <1>4, <1>t, <2>1, <2>r, SettleActiveFacts
  <2>3. reason \in {"superseded", "cancelled"}  BY <2>r DEF Reason
  <2>. QED  BY <1>t, <2>2, <2>3, RowsSettledCalled, JobsCalled DEF Called
<1>5. CASE StopJob(c)
  <2>1. PICK j \in DOMAIN jobs : j = call[c].job  BY <1>5, <1>t, StopJobFacts
  <2>2. /\ Typed' /\ UNCHANGED <<checks, lane>> /\ call[c].pc = "job"
        /\ \/ jobs[j].st = "queued" /\ Writes(j, "cancelled", jobs[j].stopped)
           \/ jobs[j].st = "running" /\ Writes(j, "running", TRUE)
           \/ UNCHANGED jobs
    BY <1>5, <1>t, <2>1, StopJobFacts
  <2>3. ~ Open(jobs[j].check)  BY <1>t, <2>1, <2>2 DEF Handled, Stops
  <2>4. CalledJobs
    <3>1. CASE jobs[j].st = "queued" /\ Writes(j, "cancelled", jobs[j].stopped)
      BY <1>t, <2>2, <2>3, <3>1, JobsWrittenCalled DEF Live
    <3>2. CASE jobs[j].st = "running" /\ Writes(j, "running", TRUE)
      BY <1>t, <2>2, <2>3, <3>2, JobsWrittenCalled
    <3>3. CASE UNCHANGED jobs  BY <1>t, <3>3, JobsCalled
    <3>. QED  BY <2>2, <3>1, <3>2, <3>3
  <2>. QED  BY <1>t, <2>2, <2>4, RowsCalled DEF Called
<1>6. CASE Unwound(c)
  <2>1. UNCHANGED <<checks, jobs, lane>>  BY <1>6, <1>t, UnwoundFacts
  <2>. QED  BY <1>t, <2>1, RowsCalled, JobsCalled DEF Called
<1>7. CASE Outlast(c)
  <2>1. PICK j \in DOMAIN jobs : j = call[c].job  BY <1>7, <1>t, OutlastFacts
  <2>2. /\ Typed' /\ UNCHANGED <<checks, lane>> /\ call[c].pc = "wait"
        /\ Writes(j, "cancelled", jobs[j].stopped)
    BY <1>7, <1>t, <2>1, OutlastFacts
  <2>3. ~ Open(jobs[j].check)  BY <1>t, <2>1, <2>2 DEF Handled, Stops
  <2>4. Live(j)  BY <1>7, <2>1 DEF Outlast
  <2>5. CalledJobs  BY <1>t, <2>2, <2>3, <2>4, JobsWrittenCalled
  <2>. QED  BY <1>t, <2>2, <2>5, RowsCalled DEF Called
<1>8. CASE CreateCheck(c)
  <2>1. /\ UNCHANGED <<jobs, lane>> /\ Len(checks') = Len(checks) + 1
        /\ \A k \in DOMAIN checks : checks'[k] = checks[k]
    BY <1>8, <1>t, CreateCheckFacts
  <2>2. Sized  BY <1>t, Sizes DEF TypeInv
  <2>3. Len(checks') >= Len(checks)  BY <2>1, <2>2 DEF Sized
  <2>4. CalledRows  BY <2>1, <2>3 DEF CalledRows, Open, Verdict
  <2>. QED  BY <1>t, <2>1, <2>4, JobsCalled DEF Called
<1>9. CASE Post(c)
  <2>1. UNCHANGED <<checks, jobs, lane>>  BY <1>9, <1>t, PostFacts
  <2>. QED  BY <1>t, <2>1, RowsCalled, JobsCalled DEF Called
<1>10. CASE RememberPost(c)
  <2>1. PICK k \in DOMAIN checks : k = call[c].check  BY <1>10, <1>t, RememberPostFacts
  <2>r. PICK job : job = checks[k].job  OBVIOUS
  <2>2. /\ UNCHANGED <<jobs, lane>>
        /\ Rewrites(k, checks[k].st, job, TRUE) \/ UNCHANGED checks
    BY <1>10, <1>t, <2>1, <2>r, RememberPostFacts
  <2>. QED  BY <1>t, <2>2, RowsCalled, RowsRewrittenCalled, JobsCalled DEF Called
<1>11. CASE EnqueueCheck(c)
  <2>1. PICK k \in DOMAIN checks : k = call[c].check  BY <1>11, <1>t, EnqueueCheckFacts
  <2>2. /\ Typed' /\ UNCHANGED <<checks, lane>> /\ call[c].pc = "enqueue"
        /\ \/ UNCHANGED jobs
           \/ ~ KeyHeld("coordinator") /\ Joins("coordinator", k)
    BY <1>11, <1>t, <2>1, EnqueueCheckFacts
  <2>3. Open(k) /\ Jobless(k)
    BY <1>t, <2>1, <2>2, NewestKnown DEF Handled, Drafts, Drafting, Making
  <2>4. ~ Verdict(k)  BY <1>t, <2>3 DEF TypeInv, Points, RowPoints, Verdict
  <2>5. CASE UNCHANGED jobs  BY <1>t, <2>2, <2>5, RowsCalled, JobsCalled DEF Called
  <2>6. CASE ~ KeyHeld("coordinator") /\ Joins("coordinator", k)
    <3>1. Sized /\ Sized'  BY <1>t, <2>2, Sizes DEF TypeInv
    <3>2. Len(jobs') = Len(jobs) + 1  BY <2>6 DEF Joins
    <3>3. Len(jobs') >= Len(jobs)  BY <3>1, <3>2 DEF Sized
    <3>4. ASSUME NEW j \in DOMAIN jobs', j \notin DOMAIN jobs
          PROVE  /\ j = Len(jobs) + 1
                 /\ jobs'[j].kind = "coordinator" /\ jobs'[j].st = "queued" /\ ~ jobs'[j].stopped
                 /\ jobs'[j].check = k
      <4>1. j = Len(jobs) + 1  BY <3>1, <3>2, <3>4 DEF Sized
      <4>. QED  BY <2>6, <4>1 DEF Joins
    <3>5. \A j \in DOMAIN jobs : jobs'[j] = jobs[j]  BY <2>6 DEF Joins
    <3>6. CalledJobs  BY <2>3, <2>4, <2>6, <3>3, <3>4, <3>5 DEF CalledJobs
    <3>. QED  BY <1>t, <2>2, <3>6, RowsCalled DEF Called
  <2>. QED  BY <2>2, <2>5, <2>6
<1>12. CASE SettleNew(c)
  <2>1. PICK k \in DOMAIN checks : k = call[c].check  BY <1>12, <1>t, SettleNewFacts
  <2>r. PICK reason : reason = IF call[c].pc = "draft" THEN "draft" ELSE "cancelled"  OBVIOUS
  <2>2. UNCHANGED <<jobs, lane>> /\ Settles(k, reason) /\ call[c].pc \in {"draft", "busy"}
    BY <1>12, <1>t, <2>1, <2>r, SettleNewFacts
  <2>4. Jobless(k)  BY <1>t, <2>1, <2>2, NewestKnown DEF Handled, Drafts, Drafting, Making
  <2>3. reason \in {"superseded", "cancelled"} \/ (reason = "draft" /\ Jobless(k))  BY <2>r, <2>4
  <2>. QED  BY <1>t, <2>2, <2>3, RowsSettledCalled, JobsCalled DEF Called
<1>13. CASE NameJob(c)
  <2>1. PICK k \in DOMAIN checks : k = call[c].check  BY <1>13, <1>t, NameJobFacts
  <2>r. PICK job, posted : job = call[c].job /\ posted = checks[k].posted  OBVIOUS
  <2>2. /\ UNCHANGED <<jobs, lane>>
        /\ Rewrites(k, checks[k].st, job, posted) \/ UNCHANGED checks
    BY <1>13, <1>t, <2>1, <2>r, NameJobFacts
  <2>. QED  BY <1>t, <2>2, RowsCalled, RowsRewrittenCalled, JobsCalled DEF Called
<1>. QED  BY <1>1, <1>2, <1>3, <1>4, <1>5, <1>6, <1>7, <1>8, <1>9, <1>10, <1>11, <1>12, <1>13 DEF Handle

LEMMA CallOrderly ==
  ASSUME TypeInv, TypeInv', Orderly, Called
  PROVE  Orderly'
PROOF
<1>s. Sized /\ Sized'  BY Sizes DEF TypeInv
<1>o. Laned /\ Reasoned /\ Keyed /\ Unjudged /\ HandedOver  BY DEF Orderly
<1>c. CalledRows /\ CalledJobs /\ UNCHANGED lane  BY DEF Called
<1>d. /\ \A k \in DOMAIN checks : k \in DOMAIN checks'
      /\ \A j \in DOMAIN jobs : j \in DOMAIN jobs' /\ jobs[j].check \in DOMAIN checks
  BY <1>s, <1>c DEF CalledRows, CalledJobs, Sized, TypeInv, Points, JobPoints
<1>l. /\ lane.pc # "free" => lane.job \in DOMAIN jobs
      /\ lane.pc # "free" => Mine' = Mine /\ Mine \in DOMAIN checks
      /\ lane.pc # "free" => (Coordinates' <=> Coordinates)
  BY <1>c, <1>d DEF TypeInv, Points, LanePoints, CalledJobs, Mine, Coordinates
\* A job that was there, and one that has just joined.
<1>j. ASSUME NEW j \in DOMAIN jobs
      PROVE  /\ Coord(j)' <=> Coord(j)
             /\ Live(j)' => Live(j)
             /\ jobs'[j].st = "queued" => jobs[j].st = "queued"
             /\ jobs'[j].st = "running" => jobs[j].st = "running"
             /\ jobs'[j].check = jobs[j].check /\ jobs'[j].kind = jobs[j].kind
  BY <1>c DEF CalledJobs, Live, Coord
<1>n. ASSUME NEW j \in DOMAIN jobs', j \notin DOMAIN jobs
      PROVE  /\ j = Len(jobs) + 1
             /\ jobs'[j].kind = "coordinator" /\ jobs'[j].st = "queued" /\ ~ jobs'[j].stopped
             /\ jobs'[j].check \in DOMAIN checks
             /\ \A i \in DOMAIN jobs : jobs[i].check # jobs'[j].check
             /\ ~ Verdict(jobs'[j].check)
             /\ \A i \in DOMAIN jobs : ~ (Live(i) /\ jobs[i].kind = "coordinator")
  BY <1>c, <1>n DEF CalledJobs, Jobless, KeyHeld
<1>1. Laned'
  <2>1. ASSUME NEW j \in DOMAIN jobs', jobs'[j].st = "running"
        PROVE  lane'.job = j /\ lane'.pc \in Body
    <3>1. j \in DOMAIN jobs  BY <1>n, <2>1
    <3>. QED  BY <1>c, <1>j, <1>o, <2>1, <3>1 DEF Laned
  <2>2. lane'.pc # "free" => jobs'[lane'.job].st # "queued"
    BY <1>c, <1>j, <1>l, <1>o DEF Laned
  <2>3. ASSUME NEW j \in DOMAIN jobs', jobs'[j].stopped \/ jobs'[j].st = "cancelled"
        PROVE  ~ (checks'[jobs'[j].check].st # "settled")
    <3>1. j \in DOMAIN jobs  BY <1>n, <2>3
    <3>2. ~ Open(jobs[j].check)  BY <1>c, <1>o, <2>3, <3>1 DEF CalledJobs, Laned
    <3>3. PICK k \in DOMAIN checks : k = jobs[j].check  BY <1>d, <3>1
    <3>4. ~ Open(k)'  BY <1>c, <3>2, <3>3 DEF CalledRows
    <3>. QED  BY <1>j, <3>1, <3>3, <3>4 DEF Open
  <2>. QED  BY <2>1, <2>2, <2>3 DEF Laned, Open
<1>2. Reasoned'
  <2>1. lane.pc = "hook" => (~ Open(Mine) => ~ Open(Mine)')
    <3>1. ASSUME lane.pc = "hook", ~ Open(Mine) PROVE ~ (checks'[Mine].st # "settled")
      <4>1. PICK k \in DOMAIN checks : k = Mine  BY <1>l, <3>1
      <4>2. ~ Open(k)'  BY <1>c, <3>1, <4>1 DEF CalledRows
      <4>. QED  BY <4>1, <4>2 DEF Open
    <3>2. lane.pc = "hook" => Mine' = Mine  BY <1>l
    <3>. QED  BY <3>1, <3>2 DEF Open
  <2>2. lane.pc \in {"chain", "judge"} => (Coordinates' <=> Coordinates)  BY <1>l
  <2>. QED  BY <1>c, <1>o, <2>1, <2>2 DEF Reasoned
<1>3. Keyed'
  <2>1. ASSUME NEW i \in DOMAIN jobs', NEW j \in DOMAIN jobs', Live(i)', Live(j)',
               jobs'[i].kind = jobs'[j].kind
        PROVE  i = j
    <3>1. CASE i \in DOMAIN jobs /\ j \in DOMAIN jobs
      BY <1>j, <1>o, <2>1, <3>1 DEF Keyed
    <3>2. CASE i \notin DOMAIN jobs  BY <1>j, <1>n, <2>1, <3>2
    <3>3. CASE j \notin DOMAIN jobs  BY <1>j, <1>n, <2>1, <3>3
    <3>. QED  BY <3>1, <3>2, <3>3
  <2>2. ASSUME NEW i \in DOMAIN jobs', NEW j \in DOMAIN jobs', Coord(i)', Coord(j)',
               jobs'[i].check = jobs'[j].check
        PROVE  i = j
    <3>1. CASE i \in DOMAIN jobs /\ j \in DOMAIN jobs
      BY <1>j, <1>o, <2>2, <3>1 DEF Keyed
    <3>2. CASE i \notin DOMAIN jobs  BY <1>j, <1>n, <2>2, <3>2
    <3>3. CASE j \notin DOMAIN jobs  BY <1>j, <1>n, <2>2, <3>3
    <3>. QED  BY <3>1, <3>2, <3>3
  <2>3. ASSUME NEW i \in DOMAIN jobs', NEW j \in DOMAIN jobs', Coord(i)', ~ Coord(j)',
               jobs'[i].check = jobs'[j].check, Live(i)'
        PROVE  lane'.job = i /\ lane'.pc = "end"
    <3>1. j \in DOMAIN jobs  BY <1>n, <2>3 DEF Coord
    <3>2. i \in DOMAIN jobs  BY <1>j, <1>n, <2>3, <3>1
    <3>. QED  BY <1>c, <1>j, <1>o, <2>3, <3>1, <3>2 DEF Keyed
  <2>. QED  BY <2>1, <2>2, <2>3 DEF Keyed
<1>4. Unjudged'
  <2>1. ASSUME lane.pc \in {"open", "mark", "post", "work", "chain", "judge"}, Coordinates'
        PROVE  ~ Verdict(Mine)'
    <3>1. PICK k \in DOMAIN checks : k = Mine /\ Mine' = k  BY <1>l, <2>1
    <3>2. ~ Verdict(k)  BY <1>l, <1>o, <2>1, <3>1 DEF Unjudged
    <3>3. ~ Verdict(k)'  BY <1>c, <3>2 DEF CalledRows
    <3>. QED  BY <3>1, <3>3 DEF Verdict
  <2>2. ASSUME NEW j \in DOMAIN jobs', Coord(j)', jobs'[j].st = "queued"
        PROVE  checks'[jobs'[j].check].reason \notin {"judged", "error"}
    <3>1. PICK k \in DOMAIN checks : k = jobs'[j].check  BY <1>d, <1>j, <1>n
    <3>2. ~ Verdict(k)
      <4>1. CASE j \in DOMAIN jobs  BY <1>j, <1>o, <2>2, <3>1, <4>1 DEF Unjudged
      <4>2. CASE j \notin DOMAIN jobs  BY <1>n, <3>1, <4>2
      <4>. QED  BY <4>1, <4>2
    <3>3. ~ Verdict(k)'  BY <1>c, <3>2 DEF CalledRows
    <3>. QED  BY <3>1, <3>3 DEF Verdict
  <2>. QED  BY <1>c, <2>1, <2>2 DEF Unjudged, Verdict
<1>5. HandedOver'
  <2>. SUFFICES ASSUME lane.pc = "end", lane.reason = "none", Open(Mine)'
                PROVE  \E j \in DOMAIN jobs' : jobs'[j].check = Mine' /\ jobs'[j].st = "queued"
    BY <1>c DEF HandedOver
  <2>1. PICK k \in DOMAIN checks : k = Mine /\ Mine' = k  BY <1>l
  <2>2. Open(k)'  BY <2>1 DEF Open
  <2>3. Open(k)  BY <1>c, <2>2 DEF CalledRows
  <2>4. PICK j \in DOMAIN jobs : jobs[j].check = k /\ jobs[j].st = "queued"
    BY <1>o, <2>1, <2>3 DEF HandedOver
  <2>5. jobs'[j].st = "queued"  BY <1>c, <2>3, <2>4 DEF CalledJobs
  <2>. QED  BY <1>d, <1>j, <2>1, <2>4, <2>5
<1>. QED  BY <1>1, <1>2, <1>3, <1>4, <1>5 DEF Orderly

\* The steps of a body: the lane moves on, the jobs and what is open stay as they are.
LEMMA BodyOrderly ==
  ASSUME TypeInv, TypeInv', Orderly, UNCHANGED jobs, Len(checks') = Len(checks),
         \A k \in DOMAIN checks : (Open(k)' <=> Open(k)) /\ checks'[k].reason = checks[k].reason,
         lane.pc \in {"open", "mark", "post", "work", "chain"}, NEW pc, NEW reason, Moves(pc, reason),
         \/ pc \in {"mark", "post", "work", "chain"} /\ reason = "none" /\ (pc = "chain" => Coordinates)
         \/ pc = "judge" /\ reason \in {"judged", "error"} /\ Coordinates
         \/ pc = "end" /\ (reason \in {"judged", "error"} \/ (reason = "none" /\ ~ Open(Mine)))
  PROVE  Orderly'
PROOF
<1>s. Sized /\ Sized'  BY Sizes DEF TypeInv
<1>o. Laned /\ Reasoned /\ Keyed /\ Unjudged /\ HandedOver  BY DEF Orderly
<1>d. DOMAIN checks' = DOMAIN checks  BY <1>s DEF Sized
<1>m. lane'.pc = pc /\ lane'.reason = reason /\ lane'.job = lane.job  BY DEF Moves
<1>l. /\ lane.job \in DOMAIN jobs /\ Mine \in DOMAIN checks /\ Mine' = Mine
      /\ Coordinates' <=> Coordinates
  BY <1>m, LaneKnown DEF Mine, Coordinates
<1>k. PICK k \in DOMAIN checks : k = Mine /\ Mine' = k  BY <1>l
<1>w. (Open(k)' <=> Open(k)) /\ (Verdict(k)' <=> Verdict(k))  BY DEF Verdict
<1>1. Laned'
  <2>1. lane'.pc \in Body /\ lane'.pc # "free"  BY <1>m DEF Body
  <2>2. \A j \in DOMAIN jobs : ~ Open(jobs[j].check) => ~ Open(jobs[j].check)'
    <3>. SUFFICES ASSUME NEW j \in DOMAIN jobs, ~ Open(jobs[j].check)
                  PROVE  ~ (checks'[jobs[j].check].st # "settled")
      BY DEF Open
    <3>1. PICK n \in DOMAIN checks : n = jobs[j].check  BY DEF TypeInv, Points, JobPoints
    <3>. QED  BY <3>1 DEF Open
  <2>. QED  BY <1>o, <1>m, <2>1, <2>2 DEF Laned, Open
<1>2. Reasoned'
  <2>1. pc # "hook"  OBVIOUS
  <2>. QED  BY <1>m, <1>l, <2>1 DEF Reasoned
<1>3. Keyed'
  <2>1. \A i, j \in DOMAIN jobs :
          ~ (Coord(i) /\ ~ Coord(j) /\ jobs[i].check = jobs[j].check /\ Live(i))
    BY <1>o DEF Keyed
  <2>. QED  BY <1>o, <2>1 DEF Keyed, Live, Coord
<1>4. Unjudged'
  <2>1. \A j \in DOMAIN jobs : ~ Verdict(jobs[j].check) => ~ Verdict(jobs[j].check)'
    <3>. SUFFICES ASSUME NEW j \in DOMAIN jobs, ~ Verdict(jobs[j].check)
                  PROVE  checks'[jobs[j].check].reason \notin {"judged", "error"}
      BY DEF Verdict
    <3>1. PICK n \in DOMAIN checks : n = jobs[j].check  BY DEF TypeInv, Points, JobPoints
    <3>. QED  BY <3>1 DEF Verdict
  <2>2. Coordinates => ~ Verdict(Mine)'
    <3>. SUFFICES ASSUME Coordinates PROVE checks'[k].reason \notin {"judged", "error"}
      BY <1>k DEF Verdict
    <3>1. ~ Verdict(k)  BY <1>o, <1>k DEF Unjudged
    <3>. QED  BY <1>w, <3>1 DEF Verdict
  <2>. QED  BY <1>o, <1>l, <2>1, <2>2 DEF Unjudged, Coord, Verdict
<1>5. HandedOver'
  <2>1. pc = "end" /\ reason = "none" => ~ (checks'[k].st # "settled")
    BY <1>k, <1>w DEF Open
  <2>. QED  BY <1>m, <1>k, <2>1 DEF HandedOver, Open
<1>. QED  BY <1>1, <1>2, <1>3, <1>4, <1>5 DEF Orderly

\* The steps that settle the lane's check: those jobs stay as they are.
LEMMA SettlingOrderly ==
  ASSUME TypeInv, TypeInv', Orderly, UNCHANGED jobs, NEW k \in DOMAIN checks, k = Mine,
         lane.pc \in {"judge", "hook"}, Settles(k, lane.reason),
         \/ lane.pc = "judge" /\ Moves("end", "none")
         \/ lane.pc = "hook" /\ Freed
  PROVE  Orderly'
PROOF
<1>s. Sized /\ Sized'  BY Sizes DEF TypeInv
<1>o. Laned /\ Reasoned /\ Keyed /\ Unjudged /\ HandedOver  BY DEF Orderly
<1>n. Len(checks') = Len(checks)  BY DEF Settles
<1>d. DOMAIN checks' = DOMAIN checks  BY <1>s, <1>n DEF Sized
<1>l. lane.job \in DOMAIN jobs /\ jobs[lane.job].check = k  BY LaneKnown DEF Mine
<1>m. lane'.pc \in {"free", "end"} /\ (lane'.pc = "end" => lane'.job = lane.job /\ lane'.reason = "none")
  BY DEF Moves, Freed
<1>w. ASSUME NEW l \in DOMAIN checks
      PROVE  /\ ~ Open(l) => ~ Open(l)'
             /\ l # k => (Verdict(l)' <=> Verdict(l))
  BY DEF Settles, Open, Verdict
<1>c. ~ Open(k)'  BY DEF Settles, Open
\* No coordinator of the check is queued or, at the end of the job, alive.
<1>q. ASSUME NEW j \in DOMAIN jobs, Coord(j), jobs[j].check = k
      PROVE  jobs[j].st # "queued"
  <2>1. CASE Coord(lane.job)
    <3>1. j = lane.job  BY <1>q, <1>o, <1>l, <2>1 DEF Keyed
    <3>. QED  BY <1>o, <3>1 DEF Laned
  <2>2. CASE ~ Coord(lane.job)  BY <1>q, <1>o, <1>l, <2>2 DEF Keyed, Live
  <2>. QED  BY <2>1, <2>2
<1>1. Laned'
  <2>1. ASSUME NEW j \in DOMAIN jobs, jobs[j].st = "running"
        PROVE  lane'.job = j /\ lane'.pc \in Body
    <3>1. lane.job = j /\ lane.pc = "judge"  BY <1>o, <2>1 DEF Laned, Body
    <3>. QED  BY <3>1 DEF Moves, Body
  <2>2. ASSUME NEW j \in DOMAIN jobs, jobs[j].stopped \/ jobs[j].st = "cancelled"
        PROVE  ~ (checks'[jobs[j].check].st # "settled")
    <3>1. PICK n \in DOMAIN checks : n = jobs[j].check  BY DEF TypeInv, Points, JobPoints
    <3>2. ~ Open(n)'  BY <1>o, <1>w, <2>2, <3>1 DEF Laned
    <3>. QED  BY <3>1, <3>2 DEF Open
  <2>3. lane'.pc # "free" => jobs[lane'.job].st # "queued"  BY <1>m, <1>o DEF Laned
  <2>. QED  BY <2>1, <2>2, <2>3 DEF Laned, Open
<1>2. Reasoned'  BY <1>m DEF Reasoned
<1>3. Keyed'
  <2>1. \A i, j \in DOMAIN jobs :
          ~ (Coord(i) /\ ~ Coord(j) /\ jobs[i].check = jobs[j].check /\ Live(i))
    BY <1>o DEF Keyed
  <2>. QED  BY <1>o, <2>1 DEF Keyed, Live, Coord
<1>4. Unjudged'
  <2>1. ASSUME NEW j \in DOMAIN jobs, Coord(j), jobs[j].st = "queued"
        PROVE  checks'[jobs[j].check].reason \notin {"judged", "error"}
    <3>1. PICK n \in DOMAIN checks : n = jobs[j].check  BY DEF TypeInv, Points, JobPoints
    <3>2. n # k  BY <1>q, <2>1, <3>1
    <3>3. ~ Verdict(n)'  BY <1>o, <1>w, <2>1, <3>1, <3>2 DEF Unjudged
    <3>. QED  BY <3>1, <3>3 DEF Verdict
  <2>. QED  BY <1>m, <2>1 DEF Unjudged, Coord, Verdict
<1>5. HandedOver'
  <2>1. lane'.pc = "end" => Mine' = k  BY <1>l, <1>m DEF Mine
  <2>. QED  BY <1>c, <2>1 DEF HandedOver, Open
<1>. QED  BY <1>1, <1>2, <1>3, <1>4, <1>5 DEF Orderly

LEMMA ClaimOrderly ==
  ASSUME TypeInv, Orderly, Claim
  PROVE  Orderly'
PROOF
<1>t. TypeInv'  BY ClaimTyped
<1>s. Sized /\ Sized'  BY <1>t, Sizes DEF TypeInv
<1>o. Laned /\ Reasoned /\ Keyed /\ Unjudged /\ HandedOver  BY DEF Orderly
<1>f. /\ UNCHANGED checks /\ lane.pc = "free" /\ lane'.pc = "open" /\ lane'.reason = "none"
  BY ClaimFacts
<1>j. PICK j \in DOMAIN jobs :
        /\ jobs[j].st = "queued" /\ Writes(j, "running", jobs[j].stopped) /\ lane'.job = j
  BY ClaimFacts
<1>n. Len(jobs') = Len(jobs)  BY <1>j DEF Writes
<1>d. DOMAIN jobs' = DOMAIN jobs  BY <1>s, <1>n DEF Sized
<1>w. ASSUME NEW i \in DOMAIN jobs
      PROVE  /\ jobs'[i].kind = jobs[i].kind /\ jobs'[i].check = jobs[i].check
             /\ jobs'[i].st = IF i = j THEN "running" ELSE jobs[i].st
             /\ jobs'[i].stopped <=> jobs[i].stopped
             /\ Live(i)' <=> Live(i)
             /\ Coord(i)' <=> Coord(i)
  <2>1. CASE i = j  BY <1>j, <2>1 DEF Writes, Live, Coord
  <2>2. CASE i # j  BY <1>j, <2>2 DEF Writes, Live, Coord
  <2>. QED  BY <2>1, <2>2
<1>1. Laned'
  <2>1. \A i \in DOMAIN jobs : jobs[i].st # "running"  BY <1>f, <1>o DEF Laned, Body
  <2>. QED  BY <1>d, <1>f, <1>j, <1>o, <1>w, <2>1 DEF Laned, Body, Open
<1>2. Reasoned'  BY <1>f DEF Reasoned
<1>3. Keyed'
  <2>1. \A i, l \in DOMAIN jobs :
          ~ (Coord(i) /\ ~ Coord(l) /\ jobs[i].check = jobs[l].check /\ Live(i))
    BY <1>f, <1>o DEF Keyed
  <2>. QED  BY <1>d, <1>o, <1>w, <2>1 DEF Keyed
<1>4. Unjudged'
  <2>1. \A i \in DOMAIN jobs : Coord(i)' /\ jobs'[i].st = "queued" => ~ Verdict(jobs[i].check)
    BY <1>o, <1>w DEF Unjudged
  <2>2. Coordinates' => ~ Verdict(Mine)'
    <3>1. Mine' = jobs[j].check /\ (Coordinates' <=> Coord(j))  BY <1>j, <1>w DEF Mine, Coordinates, Coord
    <3>2. Coord(j) => ~ Verdict(jobs[j].check)  BY <1>j, <1>o DEF Unjudged
    <3>. QED  BY <1>f, <3>1, <3>2 DEF Verdict
  <2>. QED  BY <1>d, <1>f, <1>w, <2>1, <2>2 DEF Unjudged, Verdict
<1>5. HandedOver'  BY <1>f DEF HandedOver
<1>. QED  BY <1>1, <1>2, <1>3, <1>4, <1>5 DEF Orderly

LEMMA EndJobOrderly ==
  ASSUME TypeInv, Orderly, EndJob
  PROVE  Orderly'
PROOF
<1>t. TypeInv'  BY EndJobTyped
<1>s. Sized /\ Sized'  BY <1>t, Sizes DEF TypeInv
<1>o. Laned /\ Reasoned /\ Keyed /\ Unjudged /\ HandedOver  BY DEF Orderly
<1>e. PICK j \in DOMAIN jobs, st \in {"cancelled", "done"} :
        /\ j = lane.job /\ Writes(j, st, jobs[j].stopped)
        /\ st = "cancelled" => jobs[j].stopped
  BY EndJobFacts
<1>f. /\ UNCHANGED checks /\ lane.pc = "end" /\ lane'.pc = "hook" /\ lane'.job = j
      /\ lane'.reason = lane.reason \/ jobs[j].stopped
  BY <1>e, EndJobFacts DEF Moves
<1>n. Len(jobs') = Len(jobs)  BY <1>e DEF Writes
<1>d. DOMAIN jobs' = DOMAIN jobs  BY <1>s, <1>n DEF Sized
<1>w. ASSUME NEW i \in DOMAIN jobs
      PROVE  /\ jobs'[i].kind = jobs[i].kind /\ jobs'[i].check = jobs[i].check
             /\ jobs'[i].st = IF i = j THEN st ELSE jobs[i].st
             /\ jobs'[i].stopped <=> jobs[i].stopped
             /\ Live(i)' <=> Live(i) /\ i # j
             /\ Coord(i)' <=> Coord(i)
  <2>1. CASE i = j  BY <1>e, <2>1 DEF Writes, Live, Coord
  <2>2. CASE i # j  BY <1>e, <2>2 DEF Writes, Live, Coord
  <2>. QED  BY <2>1, <2>2
<1>1. Laned'
  <2>1. \A i \in DOMAIN jobs : jobs[i].st = "running" => i = j  BY <1>e, <1>o DEF Laned
  <2>2. \A i \in DOMAIN jobs : jobs'[i].stopped \/ jobs'[i].st = "cancelled" => ~ Open(jobs[i].check)
    <3>. SUFFICES ASSUME NEW i \in DOMAIN jobs, jobs'[i].stopped \/ jobs'[i].st = "cancelled"
                  PROVE  ~ Open(jobs[i].check)
      OBVIOUS
    <3>1. jobs[i].stopped \/ jobs[i].st = "cancelled"  BY <1>e, <1>w
    <3>. QED  BY <1>o, <3>1 DEF Laned
  <2>. QED  BY <1>d, <1>e, <1>f, <1>w, <2>1, <2>2 DEF Laned, Open
<1>2. Reasoned'
  <2>1. Mine' = Mine /\ Mine = jobs[j].check  BY <1>e, <1>f, <1>w DEF Mine
  <2>2. jobs[j].stopped => ~ Open(Mine)  BY <1>o, <2>1 DEF Laned
  <2>. QED  BY <1>f, <1>o, <2>1, <2>2 DEF Reasoned, Open
<1>3. Keyed'
  <2>1. \A i, l \in DOMAIN jobs :
          Coord(i) /\ ~ Coord(l) /\ jobs[i].check = jobs[l].check /\ Live(i) => i = j
    BY <1>e, <1>o DEF Keyed
  <2>. QED  BY <1>d, <1>o, <1>w, <2>1 DEF Keyed
<1>4. Unjudged'
  <2>1. \A i \in DOMAIN jobs : Coord(i)' /\ jobs'[i].st = "queued" => ~ Verdict(jobs[i].check)
    BY <1>o, <1>w DEF Unjudged
  <2>. QED  BY <1>d, <1>f, <1>w, <2>1 DEF Unjudged, Verdict
<1>5. HandedOver'  BY <1>f DEF HandedOver
<1>. QED  BY <1>1, <1>2, <1>3, <1>4, <1>5 DEF Orderly

LEMMA ChainOrderly ==
  ASSUME TypeInv, Orderly, Chain
  PROVE  Orderly'
PROOF
<1>t. TypeInv' /\ Typed'  BY ChainTyped DEF TypeInv
<1>s. Sized /\ Sized'  BY <1>t, Sizes DEF TypeInv
<1>o. Laned /\ Reasoned /\ Keyed /\ Unjudged /\ HandedOver  BY DEF Orderly
<1>f. /\ UNCHANGED checks /\ lane.pc = "chain" /\ lane.reason = "none" /\ Coordinates
      /\ lane.job \in DOMAIN jobs
      /\ \/ Moves("judge", "error") /\ UNCHANGED jobs
         \/ ~ KeyHeld("link") /\ Moves("end", lane.reason) /\ Joins("link", Mine)
  BY <1>o, ChainFacts, LaneKnown DEF Reasoned
<1>a. CASE Moves("judge", "error") /\ UNCHANGED jobs
  <2>1. PICK pc, reason : pc = "judge" /\ reason = "error"  OBVIOUS
  <2>2. Moves(pc, reason)  BY <1>a, <2>1
  <2>3. \A k \in DOMAIN checks : (Open(k)' <=> Open(k)) /\ checks'[k].reason = checks[k].reason
    BY <1>f DEF Open
  <2>. QED  BY <1>a, <1>f, <1>t, <2>1, <2>2, <2>3, BodyOrderly
<1>b. CASE ~ KeyHeld("link") /\ Moves("end", lane.reason) /\ Joins("link", Mine)
  <2>k. PICK k \in DOMAIN checks : k = Mine  BY <1>f, LaneKnown
  <2>m. lane'.pc = "end" /\ lane'.reason = "none" /\ lane'.job = lane.job  BY <1>b, <1>f DEF Moves
  <2>l. Len(jobs') = Len(jobs) + 1  BY <1>b DEF Joins
  <2>n. PICK n : n = Len(jobs) + 1  OBVIOUS
  <2>d. DOMAIN jobs' = DOMAIN jobs \cup {n} /\ n \notin DOMAIN jobs  BY <1>s, <2>l, <2>n DEF Sized
  <2>w. /\ \A i \in DOMAIN jobs : jobs'[i] = jobs[i]
        /\ jobs'[n].kind = "link" /\ jobs'[n].check = k /\ jobs'[n].st = "queued"
        /\ ~ jobs'[n].stopped
    BY <1>b, <2>k, <2>n DEF Joins
  <2>c. /\ \A i \in DOMAIN jobs : (Live(i)' <=> Live(i)) /\ (Coord(i)' <=> Coord(i))
        /\ Live(n)' /\ ~ Coord(n)'
    BY <2>w DEF Live, Coord
  <2>i. Mine' = k /\ (Coordinates' <=> Coordinates) /\ jobs[lane.job].check = k
    BY <1>f, <2>k, <2>m, <2>w DEF Mine, Coordinates
  <2>1. Laned'
    <3>1. ASSUME NEW i \in DOMAIN jobs', jobs'[i].st = "running"
          PROVE  lane'.job = i /\ lane'.pc \in Body
      BY <1>o, <2>d, <2>m, <2>w, <3>1 DEF Laned, Body
    <3>2. jobs'[lane'.job].st # "queued"  BY <1>f, <1>o, <2>m, <2>w DEF Laned
    <3>3. ASSUME NEW i \in DOMAIN jobs', jobs'[i].stopped \/ jobs'[i].st = "cancelled"
          PROVE  ~ Open(jobs'[i].check)
      BY <1>o, <2>d, <2>w, <3>3 DEF Laned
    <3>. QED  BY <1>f, <3>1, <3>2, <3>3 DEF Laned, Open
  <2>2. Reasoned'  BY <2>m DEF Reasoned
  <2>3. Keyed'
    <3>1. \A i \in DOMAIN jobs : Live(i) => jobs[i].kind # "link"  BY <1>b DEF KeyHeld
    <3>2. ASSUME NEW i \in DOMAIN jobs', NEW j \in DOMAIN jobs', Live(i)', Live(j)',
                 jobs'[i].kind = jobs'[j].kind
          PROVE  i = j
      <4>1. CASE i \in DOMAIN jobs /\ j \in DOMAIN jobs  BY <1>o, <2>c, <2>w, <3>2, <4>1 DEF Keyed
      <4>2. CASE i = n /\ j \in DOMAIN jobs  BY <2>c, <2>w, <3>1, <3>2, <4>2
      <4>3. CASE j = n /\ i \in DOMAIN jobs  BY <2>c, <2>w, <3>1, <3>2, <4>3
      <4>. QED  BY <2>d, <4>1, <4>2, <4>3
    <3>3. ASSUME NEW i \in DOMAIN jobs', NEW j \in DOMAIN jobs', Coord(i)', Coord(j)',
                 jobs'[i].check = jobs'[j].check
          PROVE  i = j
      <4>1. i \in DOMAIN jobs /\ j \in DOMAIN jobs  BY <2>c, <2>d, <3>3
      <4>. QED  BY <1>o, <2>c, <2>w, <3>3, <4>1 DEF Keyed
    <3>4. ASSUME NEW i \in DOMAIN jobs', NEW j \in DOMAIN jobs', Coord(i)', ~ Coord(j)',
                 jobs'[i].check = jobs'[j].check, Live(i)'
          PROVE  lane'.job = i /\ lane'.pc = "end"
      <4>1. i \in DOMAIN jobs  BY <2>c, <2>d, <3>4
      <4>2. CASE j \in DOMAIN jobs  BY <1>f, <1>o, <2>c, <2>w, <3>4, <4>1, <4>2 DEF Keyed
      <4>3. CASE j = n
        <5>1. Coord(lane.job)  BY <1>f DEF Coordinates, Coord
        <5>2. i = lane.job  BY <1>f, <1>o, <2>c, <2>i, <2>w, <3>4, <4>1, <4>3, <5>1 DEF Keyed
        <5>. QED  BY <2>m, <5>2
      <4>. QED  BY <2>d, <4>2, <4>3
    <3>. QED  BY <3>2, <3>3, <3>4 DEF Keyed
  <2>4. Unjudged'
    <3>1. ASSUME NEW j \in DOMAIN jobs', Coord(j)', jobs'[j].st = "queued"
          PROVE  ~ Verdict(jobs'[j].check)
      BY <1>o, <2>c, <2>d, <2>w, <3>1 DEF Unjudged
    <3>. QED  BY <1>f, <2>m, <3>1 DEF Unjudged, Verdict
  <2>5. HandedOver'  BY <2>d, <2>i, <2>w DEF HandedOver
  <2>. QED  BY <2>1, <2>2, <2>3, <2>4, <2>5 DEF Orderly
<1>. QED  BY <1>f, <1>a, <1>b

LEMMA RunOrderly ==
  ASSUME TypeInv, Orderly, Run
  PROVE  Orderly'
PROOF
<1>o. Laned /\ Reasoned /\ Keyed /\ Unjudged /\ HandedOver  BY DEF Orderly
<1>t. TypeInv'  BY RunEffect
<1>1. CASE ReadCheck
  <2>1. /\ UNCHANGED <<checks, jobs>> /\ lane.pc = "open"
        /\ Moves(IF Open(Mine) THEN "mark" ELSE "end", lane.reason)
    BY <1>1, ReadCheckFacts
  <2>2. PICK pc, reason : pc = (IF Open(Mine) THEN "mark" ELSE "end") /\ reason = lane.reason
    OBVIOUS
  <2>3. Moves(pc, reason) /\ reason = "none"  BY <1>o, <2>1, <2>2 DEF Reasoned
  <2>4. \A k \in DOMAIN checks : (Open(k)' <=> Open(k)) /\ checks'[k].reason = checks[k].reason
    BY <2>1 DEF Open
  <2>. QED  BY <1>t, <2>1, <2>2, <2>3, <2>4, BodyOrderly
<1>2. CASE MarkCheck
  <2>k. PICK k \in DOMAIN checks : k = Mine  BY <1>2, MarkCheckFacts
  <2>1. /\ UNCHANGED jobs /\ lane.pc = "mark" /\ lane.reason = "none"
        /\ \/ /\ Open(k) /\ Moves("post", lane.reason)
              /\ Rewrites(k, "running", lane.job, checks[k].posted)
           \/ ~ Open(k) /\ Moves("end", lane.reason) /\ UNCHANGED checks
    BY <1>2, <1>o, <2>k, MarkCheckFacts DEF Reasoned
  <2>2. PICK reason : reason = lane.reason  OBVIOUS
  <2>3. CASE Open(k) /\ Moves("post", lane.reason) /\ Rewrites(k, "running", lane.job, checks[k].posted)
    <3>1. PICK pc : pc = "post"  OBVIOUS
    <3>2. Moves(pc, reason)  BY <2>2, <2>3, <3>1
    <3>3. ASSUME NEW l \in DOMAIN checks
          PROVE  (Open(l)' <=> Open(l)) /\ checks'[l].reason = checks[l].reason
      <4>1. CASE l = k  BY <2>3, <4>1 DEF Open, Rewrites
      <4>2. CASE l # k  BY <2>3, <4>2 DEF Open, Rewrites
      <4>. QED  BY <4>1, <4>2
    <3>4. Len(checks') = Len(checks)  BY <2>3 DEF Rewrites
    <3>. QED  BY <1>t, <2>1, <2>2, <3>1, <3>2, <3>3, <3>4, BodyOrderly
  <2>4. CASE ~ Open(k) /\ Moves("end", lane.reason) /\ UNCHANGED checks
    <3>1. PICK pc : pc = "end"  OBVIOUS
    <3>2. Moves(pc, reason)  BY <2>2, <2>4, <3>1
    <3>3. \A l \in DOMAIN checks : (Open(l)' <=> Open(l)) /\ checks'[l].reason = checks[l].reason
      BY <2>4 DEF Open
    <3>. QED  BY <1>t, <2>k, <2>1, <2>2, <2>4, <3>1, <3>2, <3>3, BodyOrderly
  <2>. QED  BY <2>1, <2>3, <2>4
<1>3. CASE Work
  <2>1. /\ UNCHANGED <<checks, jobs>> /\ lane.pc = "work" /\ lane.reason = "none"
        /\ \/ Moves("end", "error")
           \/ jobs[lane.job].stopped /\ Moves("end", lane.reason)
           \/ Moves(IF Coordinates THEN "judge" ELSE "end", "judged")
           \/ Coordinates /\ Moves(IF Open(Mine) THEN "chain" ELSE "end", lane.reason)
    BY <1>3, <1>o, WorkFacts DEF Reasoned
  <2>2. jobs[lane.job].stopped => ~ Open(Mine)  BY <1>o, <2>1, LaneKnown DEF Laned, Mine
  <2>3. \A k \in DOMAIN checks : (Open(k)' <=> Open(k)) /\ checks'[k].reason = checks[k].reason
    BY <2>1 DEF Open
  <2>4. PICK pc, reason :
          /\ Moves(pc, reason)
          /\ \/ pc \in {"mark", "post", "work", "chain"} /\ reason = "none" /\ (pc = "chain" => Coordinates)
             \/ pc = "judge" /\ reason \in {"judged", "error"} /\ Coordinates
             \/ pc = "end" /\ (reason \in {"judged", "error"} \/ (reason = "none" /\ ~ Open(Mine)))
    BY <2>1, <2>2
  <2>. QED  BY <1>t, <2>1, <2>3, <2>4, BodyOrderly
<1>4. CASE Judge
  <2>1. PICK k \in DOMAIN checks : k = Mine  BY <1>4, JudgeFacts
  <2>2. /\ UNCHANGED jobs /\ lane.pc = "judge" /\ Moves("end", "none") /\ Settles(k, lane.reason)
    BY <1>4, <2>1, JudgeFacts
  <2>. QED  BY <1>t, <2>1, <2>2, SettlingOrderly
<1>5. CASE SettleMine
  <2>1. PICK k \in DOMAIN checks : k = Mine  BY <1>5, SettleMineFacts
  <2>2. /\ UNCHANGED jobs /\ lane.pc = "hook" /\ Freed
        /\ UNCHANGED checks \/ Settles(k, lane.reason)
    BY <1>5, <2>1, SettleMineFacts
  <2>3. CASE Settles(k, lane.reason)  BY <1>t, <2>1, <2>2, <2>3, SettlingOrderly
  <2>4. CASE UNCHANGED checks
    <3>1. lane'.pc = "free"  BY <2>2 DEF Freed
    <3>2. Laned'  BY <1>o, <2>2, <2>4, <3>1 DEF Laned, Body, Open
    <3>3. Keyed'  BY <1>o, <2>2, <2>4 DEF Keyed, Live, Coord
    <3>4. Unjudged'  BY <1>o, <2>2, <2>4, <3>1 DEF Unjudged, Coord, Verdict
    <3>. QED  BY <3>1, <3>2, <3>3, <3>4 DEF Orderly, Reasoned, HandedOver
  <2>. QED  BY <2>2, <2>3, <2>4
<1>6. CASE PostProgress
  <2>1. UNCHANGED <<checks, jobs>> /\ lane.pc = "post" /\ lane.reason = "none" /\ Moves("work", lane.reason)
    BY <1>6, <1>o, PostProgressFacts DEF Reasoned
  <2>2. PICK pc, reason : pc = "work" /\ reason = lane.reason  OBVIOUS
  <2>3. Moves(pc, reason) /\ reason = "none"  BY <2>1, <2>2
  <2>4. \A k \in DOMAIN checks : (Open(k)' <=> Open(k)) /\ checks'[k].reason = checks[k].reason
    BY <2>1 DEF Open
  <2>. QED  BY <1>t, <2>1, <2>2, <2>3, <2>4, BodyOrderly
<1>. QED  BY <1>1, <1>2, <1>3, <1>4, <1>5, <1>6, ClaimOrderly, ChainOrderly, EndJobOrderly DEF Run

-------------------------------------------------------------------------------
\* A job that will settle the check, or its hook that is about to.
Carrier(k) == \E j \in DOMAIN jobs :
  jobs[j].check = k /\ (Live(j) \/ (lane.job = j /\ lane.pc = "hook" /\ lane.reason # "none"))
Carried ==
  \A k \in DOMAIN checks : Open(k) => Carrier(k) \/ \E c \in Calls : call[c].pc \in Drafting
\* The row of an open check names its coordinator, or is about to.
Named ==
  \A j \in DOMAIN jobs : Coord(j) /\ Live(j) /\ Open(jobs[j].check) =>
    \/ checks[jobs[j].check].job = j
    \/ \E c \in Calls : call[c].pc = "name" /\ call[c].job = j
\* A verdict of its coordinator's own, and nothing but refusals and drafts since, up to m.
HeldUp(i, m) ==
  /\ Verdict(i)
  /\ \A j \in DOMAIN jobs : jobs[j].check = i => Coord(j)
  /\ \A l \in i + 1 .. m : checks[l].reason \in {"cancelled", "draft"}
\* A coordinator that outlives its check is being stopped, or holds up the newest attempts.
Holding ==
  \A j \in DOMAIN jobs : Coord(j) /\ Live(j) /\ ~ Open(jobs[j].check) =>
    \/ \E c \in Calls : call[c].pc \in {"job", "wait"} /\ call[c].job = j
    \/ HeldUp(jobs[j].check, Newest)
    \/ (\E c \in Calls : call[c].pc \in Drafting) /\ HeldUp(jobs[j].check, Newest - 1)
Busy == \A c \in Calls : call[c].pc = "busy" => \E i \in 1 .. Newest - 1 : HeldUp(i, Newest - 1)
\* The newest attempt, once made, is open, has a word of its own, or is held up.
WordOf(k) ==
  \/ Open(k)
  \/ checks[k].reason \in {"judged", "error", "draft"}
  \/ \E i \in 1 .. k - 1 : HeldUp(i, k)
Worded ==
  /\ Quiet /\ pr.open /\ events > 0 => Newest > 0 /\ checks[Newest].head = pr.head
  /\ (Quiet /\ pr.open) \/ (\E c \in Calls : call[c].pc = "name") =>
       (Newest > 0 => WordOf(Newest))

LEMMA OpenIsNewest ==
  ASSUME Settled
  PROVE  OnlyOpen(Newest)
PROOF
<1>1. CASE Quiet  BY <1>1 DEF Settled, LeftOpen, OnlyOpen, AllSettled
<1>2. CASE ~ Quiet  BY <1>2 DEF Settled, Quiet, Handled, Attends
<1>. QED  BY <1>1, <1>2

\* What a step of the worker leaves of the rows, of the jobs and of the lane.
RanOn ==
  /\ \A k \in DOMAIN checks :
       /\ ~ Open(k) => checks'[k].reason = checks[k].reason
       /\ Open(k) /\ ~ Open(k)' =>
            k = Mine /\ lane.pc \in {"judge", "hook"} /\ Verdict(k)'
       /\ checks'[k].job = checks[k].job \/ (k = Mine /\ lane.pc = "mark" /\ checks'[k].job = lane.job)
       /\ k = Mine /\ lane.pc = "hook" /\ lane.reason # "none" => ~ Open(k)'
  /\ \A j \in DOMAIN jobs :
       /\ Live(j)' => Live(j)
       /\ Live(j) /\ ~ Live(j)' =>
            /\ j = lane.job /\ lane'.job = j /\ lane.pc = "end" /\ lane'.pc = "hook"
            /\ lane.reason = "none" \/ lane'.reason # "none"
  /\ \A j \in DOMAIN jobs' : j \notin DOMAIN jobs => ~ Coord(j)' /\ ~ Verdict(jobs'[j].check)

\* The steps that leave the jobs as they are.
LEMMA RowsRanOn ==
  ASSUME TypeInv, Orderly, UNCHANGED jobs, lane.pc # "hook",
         \A k \in DOMAIN checks :
           /\ Open(k)' <=> Open(k)
           /\ checks'[k].reason = checks[k].reason
           /\ checks'[k].job = checks[k].job \/ (k = Mine /\ lane.pc = "mark" /\ checks'[k].job = lane.job)
  PROVE  RanOn
PROOF
BY DEF RanOn, Live

LEMMA SettlingRanOn ==
  ASSUME TypeInv, Orderly, UNCHANGED jobs, NEW k \in DOMAIN checks, k = Mine,
         lane.pc \in {"judge", "hook"}, Settles(k, lane.reason), lane.reason # "none"
  PROVE  RanOn
PROOF
<1>o. Reasoned  BY DEF Orderly
<1>1. ASSUME NEW l \in DOMAIN checks
      PROVE  /\ ~ Open(l) => checks'[l].reason = checks[l].reason
             /\ Open(l) /\ ~ Open(l)' => l = k /\ checks'[l].reason = lane.reason
             /\ checks'[l].job = checks[l].job
  BY DEF Settles, Open
<1>2. Open(k) => lane.reason \in {"judged", "error"}  BY <1>o DEF Reasoned
<1>3. checks'[k].st = "settled"  BY DEF Settles
<1>. QED  BY <1>1, <1>2, <1>3 DEF RanOn, Live, Verdict, Open

LEMMA RunsOn ==
  ASSUME TypeInv, Orderly, Run
  PROVE  RanOn
PROOF
<1>t. TypeInv' /\ Typed'  BY RunEffect DEF TypeInv
<1>s. Sized /\ Sized'  BY <1>t, Sizes DEF TypeInv
<1>o. Laned /\ Reasoned /\ Keyed /\ Unjudged /\ HandedOver  BY DEF Orderly
<1>1. CASE Claim
  <2>f. UNCHANGED checks /\ lane.pc = "free"  BY <1>1, ClaimFacts
  <2>j. PICK j \in DOMAIN jobs : jobs[j].st = "queued" /\ Writes(j, "running", jobs[j].stopped)
    BY <1>1, ClaimFacts
  <2>n. Len(jobs') = Len(jobs)  BY <2>j DEF Writes
  <2>1. ASSUME NEW i \in DOMAIN jobs PROVE Live(i)' <=> Live(i)
    <3>1. CASE i = j  BY <2>j, <3>1 DEF Writes, Live
    <3>2. CASE i # j  BY <2>j, <3>2 DEF Writes, Live
    <3>. QED  BY <3>1, <3>2
  <2>. QED  BY <1>s, <2>f, <2>n, <2>1 DEF RanOn, Sized, Open
<1>2. CASE ReadCheck
  <2>1. UNCHANGED <<checks, jobs>> /\ lane.pc = "open"  BY <1>2, ReadCheckFacts
  <2>. QED  BY <2>1, RowsRanOn DEF Open
<1>3. CASE MarkCheck
  <2>k. PICK k \in DOMAIN checks : k = Mine  BY <1>3, MarkCheckFacts
  <2>1. /\ UNCHANGED jobs /\ lane.pc = "mark"
        /\ \/ Open(k) /\ Rewrites(k, "running", lane.job, checks[k].posted)
           \/ UNCHANGED checks
    BY <1>3, <2>k, MarkCheckFacts
  <2>2. ASSUME NEW l \in DOMAIN checks
        PROVE  /\ Open(l)' <=> Open(l)
               /\ checks'[l].reason = checks[l].reason
               /\ checks'[l].job = checks[l].job \/ (l = k /\ checks'[l].job = lane.job)
    <3>1. CASE l = k  BY <2>1, <3>1 DEF Open, Rewrites
    <3>2. CASE l # k  BY <2>1, <3>2 DEF Open, Rewrites
    <3>. QED  BY <3>1, <3>2
  <2>. QED  BY <2>k, <2>1, <2>2, RowsRanOn
<1>4. CASE Work
  <2>1. UNCHANGED <<checks, jobs>> /\ lane.pc = "work"  BY <1>4, WorkFacts
  <2>. QED  BY <2>1, RowsRanOn DEF Open
<1>5. CASE Chain
  <2>1. /\ UNCHANGED checks /\ lane.pc = "chain" /\ Mine \in DOMAIN checks
        /\ UNCHANGED jobs \/ Joins("link", Mine)
    BY <1>5, ChainFacts
  <2>2. CASE UNCHANGED jobs  BY <2>1, <2>2, RowsRanOn DEF Open
  <2>3. CASE Joins("link", Mine)
    <3>k. PICK k \in DOMAIN checks : k = Mine  BY <2>1
    <3>1. ~ Verdict(k)  BY <1>o, <2>1, <3>k DEF Reasoned, Unjudged
    <3>2. ASSUME NEW j \in DOMAIN jobs', j \notin DOMAIN jobs
          PROVE  jobs'[j].kind = "link" /\ jobs'[j].check = k
      <4>1. Len(jobs') = Len(jobs) + 1  BY <2>3 DEF Joins
      <4>2. j = Len(jobs) + 1  BY <1>s, <3>2, <4>1 DEF Sized
      <4>. QED  BY <2>3, <3>k, <4>2 DEF Joins
    <3>3. \A j \in DOMAIN jobs : Live(j)' <=> Live(j)  BY <2>3 DEF Joins, Live
    <3>. QED  BY <2>1, <3>1, <3>2, <3>3 DEF RanOn, Open, Coord
  <2>. QED  BY <2>1, <2>2, <2>3
<1>6. CASE Judge
  <2>1. PICK k \in DOMAIN checks : k = Mine  BY <1>6, JudgeFacts
  <2>2. UNCHANGED jobs /\ lane.pc = "judge" /\ Settles(k, lane.reason)  BY <1>6, <2>1, JudgeFacts
  <2>3. lane.reason # "none"  BY <2>2 DEF TypeInv, Points, LanePoints
  <2>. QED  BY <2>1, <2>2, <2>3, SettlingRanOn
<1>7. CASE EndJob
  <2>e. PICK j \in DOMAIN jobs, st \in {"cancelled", "done"} :
          /\ j = lane.job /\ Writes(j, st, jobs[j].stopped)
          /\ UNCHANGED checks /\ lane.pc = "end" /\ lane'.pc = "hook" /\ lane'.job = j
          /\ lane'.reason = lane.reason \/ lane'.reason = "cancelled"
    BY <1>7, EndJobFacts DEF Moves
  <2>n. Len(jobs') = Len(jobs)  BY <2>e DEF Writes
  <2>2. \A i \in DOMAIN jobs : (Live(i)' => Live(i)) /\ (Live(i) /\ ~ Live(i)' => i = j)
    <3>. SUFFICES ASSUME NEW i \in DOMAIN jobs
                  PROVE  (Live(i)' => Live(i)) /\ (Live(i) /\ ~ Live(i)' => i = j)
      OBVIOUS
    <3>1. CASE i = j  BY <2>e, <3>1 DEF Writes, Live
    <3>2. CASE i # j  BY <2>e, <3>2 DEF Writes, Live
    <3>. QED  BY <3>1, <3>2
  <2>3. DOMAIN jobs' = DOMAIN jobs  BY <1>s, <2>n DEF Sized
  <2>4. \A k \in DOMAIN checks : (Open(k)' <=> Open(k)) /\ checks'[k] = checks[k]  BY <2>e DEF Open
  <2>5. lane.reason = "none" \/ lane'.reason # "none"  BY <2>e
  <2>6. lane.pc # "hook"  BY <2>e
  <2>7. ASSUME NEW i \in DOMAIN jobs
        PROVE  /\ Live(i)' => Live(i)
               /\ Live(i) /\ ~ Live(i)' =>
                    /\ i = lane.job /\ lane'.job = i /\ lane.pc = "end" /\ lane'.pc = "hook"
                    /\ lane.reason = "none" \/ lane'.reason # "none"
    <3>1. j = lane.job /\ lane'.job = j /\ lane.pc = "end" /\ lane'.pc = "hook"  BY <2>e
    <3>2. Live(i)' => Live(i)  BY <2>2
    <3>3. Live(i) /\ ~ Live(i)' => i = j  BY <2>2
    <3>. QED  BY <2>5, <3>1, <3>2, <3>3
  <2>. QED  BY <2>3, <2>4, <2>6, <2>7 DEF RanOn
<1>8. CASE SettleMine
  <2>1. PICK k \in DOMAIN checks : k = Mine  BY <1>8, SettleMineFacts
  <2>2. /\ UNCHANGED jobs /\ lane.pc = "hook"
        /\ \/ lane.reason = "none" /\ UNCHANGED checks
           \/ lane.reason # "none" /\ Settles(k, lane.reason)
    BY <1>8, <2>1, SettleMineFacts
  <2>3. CASE lane.reason = "none" /\ UNCHANGED checks  BY <2>2, <2>3 DEF RanOn, Open, Live
  <2>4. CASE lane.reason # "none" /\ Settles(k, lane.reason)
    BY <2>1, <2>2, <2>4, SettlingRanOn
  <2>. QED  BY <2>2, <2>3, <2>4
<1>9. CASE PostProgress
  <2>1. UNCHANGED <<checks, jobs>> /\ lane.pc = "post"  BY <1>9, PostProgressFacts
  <2>. QED  BY <2>1, RowsRanOn DEF Open
<1>. QED  BY <1>1, <1>2, <1>3, <1>4, <1>5, <1>6, <1>7, <1>8, <1>9 DEF Run

\* What a step of the worker leaves: no row and no coordinator is new.
LEMMA RunKnown ==
  ASSUME Settled, Orderly, Run
  PROVE  /\ RanOn /\ TypeInv /\ TypeInv' /\ Sized /\ Sized' /\ Orderly'
         /\ Laned /\ Reasoned /\ Keyed /\ Unjudged /\ HandedOver
         /\ DOMAIN checks' = DOMAIN checks /\ Newest' = Newest
         /\ \A j \in DOMAIN jobs : /\ j \in DOMAIN jobs' /\ (Coord(j)' <=> Coord(j))
                                   /\ jobs'[j].check = jobs[j].check
         /\ \A j \in DOMAIN jobs' : Coord(j)' => j \in DOMAIN jobs
         /\ \A k \in DOMAIN checks : Open(k)' => Open(k)
         /\ UNCHANGED <<pr, call, events>>
PROOF
<1>1. TypeInv  BY DEF Settled
<1>2. TypeInv' /\ RanRows /\ RanJobs /\ UNCHANGED <<pr, call, events>>  BY <1>1, RunEffect
<1>3. Sized /\ Sized'  BY <1>1, <1>2, Sizes DEF TypeInv
<1>4. RanOn  BY <1>1, RunsOn
<1>5. Orderly'  BY <1>1, RunOrderly
<1>6. DOMAIN checks' = DOMAIN checks /\ Newest' = Newest  BY <1>2, <1>3 DEF RanRows, Sized, Newest
<1>7. \A j \in DOMAIN jobs : /\ j \in DOMAIN jobs' /\ (Coord(j)' <=> Coord(j))
                            /\ jobs'[j].check = jobs[j].check
  BY <1>2, <1>3 DEF RanJobs, Sized, Coord
<1>8. \A j \in DOMAIN jobs' : Coord(j)' => j \in DOMAIN jobs  BY <1>4 DEF RanOn
<1>9. \A k \in DOMAIN checks : Open(k)' => Open(k)  BY <1>2 DEF RanRows
<1>. QED  BY <1>1, <1>2, <1>3, <1>4, <1>5, <1>6, <1>7, <1>8, <1>9 DEF Orderly

LEMMA RunCarried ==
  ASSUME Settled, Orderly, Carried, Run
  PROVE  Carried'
PROOF
<1>r. /\ RanOn /\ UNCHANGED call /\ DOMAIN checks' = DOMAIN checks /\ Laned /\ HandedOver
      /\ \A j \in DOMAIN jobs : j \in DOMAIN jobs' /\ jobs'[j].check = jobs[j].check
      /\ \A k \in DOMAIN checks : Open(k)' => Open(k)
  BY RunKnown
<1>. SUFFICES ASSUME NEW k \in DOMAIN checks, Open(k)', \A c \in Calls : call[c].pc \notin Drafting
              PROVE  \E j \in DOMAIN jobs' : /\ jobs'[j].check = k
                                            /\ \/ Live(j)'
                                               \/ /\ lane'.job = j /\ lane'.pc = "hook"
                                                  /\ lane'.reason # "none"
  BY <1>r DEF Carried, Carrier
<1>1. PICK j \in DOMAIN jobs :
        jobs[j].check = k /\ (Live(j) \/ (lane.job = j /\ lane.pc = "hook" /\ lane.reason # "none"))
  BY <1>r DEF Carried, Carrier
<1>2. Live(j)
  <2>1. lane.job = j => k = Mine  BY <1>1 DEF Mine
  <2>2. k = Mine /\ lane.pc = "hook" /\ lane.reason # "none" => ~ Open(k)'  BY <1>r DEF RanOn
  <2>. QED  BY <1>1, <2>1, <2>2
<1>3. CASE Live(j)'  BY <1>1, <1>3, <1>r
<1>4. CASE ~ Live(j)'
  <2>1. /\ j = lane.job /\ lane'.job = j /\ lane.pc = "end" /\ lane'.pc = "hook"
        /\ lane.reason = "none" \/ lane'.reason # "none"
    BY <1>2, <1>4, <1>r DEF RanOn
  <2>2. CASE lane'.reason # "none"  BY <1>1, <1>r, <2>1, <2>2
  <2>3. CASE lane.reason = "none"
    <3>1. Mine = k  BY <1>1, <2>1 DEF Mine
    <3>2. PICK i \in DOMAIN jobs : jobs[i].check = k /\ jobs[i].st = "queued"
      BY <1>r, <2>1, <2>3, <3>1 DEF HandedOver
    <3>3. i # lane.job  BY <1>r, <2>1, <3>2 DEF Laned
    <3>4. Live(i)  BY <3>2 DEF Live
    <3>5. Live(i)'  BY <1>r, <3>3, <3>4 DEF RanOn
    <3>. QED  BY <1>r, <3>2, <3>5
  <2>. QED  BY <2>1, <2>2, <2>3
<1>. QED  BY <1>3, <1>4

LEMMA RunNamed ==
  ASSUME Settled, Orderly, Named, Run
  PROVE  Named'
PROOF
<1>r. /\ RanOn /\ UNCHANGED call /\ DOMAIN checks' = DOMAIN checks /\ Keyed /\ TypeInv
      /\ \A j \in DOMAIN jobs : jobs'[j].check = jobs[j].check /\ (Coord(j)' <=> Coord(j))
      /\ \A j \in DOMAIN jobs' : Coord(j)' => j \in DOMAIN jobs
      /\ \A k \in DOMAIN checks : Open(k)' => Open(k)
  BY RunKnown
<1>. SUFFICES ASSUME NEW j \in DOMAIN jobs', Coord(j)', Live(j)', checks'[jobs'[j].check].st # "settled"
              PROVE  \/ checks'[jobs'[j].check].job = j
                     \/ \E c \in Calls : call'[c].pc = "name" /\ call'[c].job = j
  BY DEF Named, Open
<1>1. j \in DOMAIN jobs /\ Coord(j)  BY <1>r
<1>2. Live(j)  BY <1>r, <1>1 DEF RanOn
<1>3. PICK k \in DOMAIN checks : k = jobs[j].check /\ jobs'[j].check = k
  BY <1>r, <1>1 DEF TypeInv, Points, JobPoints
<1>4. Open(k)' /\ Open(k)  BY <1>r, <1>3 DEF Open
<1>5. CASE \E c \in Calls : call[c].pc = "name" /\ call[c].job = j  BY <1>5, <1>r
<1>6. CASE checks[k].job = j
  <2>1. CASE checks'[k].job = checks[k].job  BY <1>3, <1>6, <2>1
  <2>2. CASE k = Mine /\ lane.pc = "mark" /\ checks'[k].job = lane.job
    <3>1. lane.job \in DOMAIN jobs /\ jobs[lane.job].check = k  BY <1>r, <2>2, LaneKnown DEF Mine
    <3>2. Coord(lane.job)  BY <1>r, <1>1, <1>2, <1>3, <2>2, <3>1 DEF Keyed
    <3>3. lane.job = j  BY <1>r, <1>1, <1>3, <3>1, <3>2 DEF Keyed
    <3>. QED  BY <1>3, <2>2, <3>3
  <2>. QED  BY <1>r, <2>1, <2>2 DEF RanOn
<1>. QED  BY <1>1, <1>2, <1>3, <1>4, <1>5, <1>6 DEF Named

\* What was held up stays so: a verdict gets no link, and the later words stand.
LEMMA RunHeldUp ==
  ASSUME Settled, Orderly, Run, NEW i \in DOMAIN checks, NEW m \in Nat, m <= Newest, HeldUp(i, m)
  PROVE  HeldUp(i, m)'
PROOF
<1>r. /\ RanOn /\ TypeInv /\ Sized /\ Sized'
      /\ \A j \in DOMAIN jobs : jobs'[j].check = jobs[j].check /\ (Coord(j)' <=> Coord(j))
  BY RunKnown
<1>1. \A k \in DOMAIN checks : checks[k].reason # "none" => checks'[k].reason = checks[k].reason
  BY <1>r DEF RanOn, TypeInv, Points, RowPoints
<1>2. Verdict(i)'  BY <1>1 DEF HeldUp, Verdict
<1>3. \A j \in DOMAIN jobs' : jobs'[j].check = i => Coord(j)'
  <2>. SUFFICES ASSUME NEW j \in DOMAIN jobs', jobs'[j].check = i PROVE Coord(j)'  OBVIOUS
  <2>1. CASE j \in DOMAIN jobs  BY <1>r, <2>1 DEF HeldUp
  <2>2. CASE j \notin DOMAIN jobs  BY <1>r, <2>2 DEF RanOn, HeldUp
  <2>. QED  BY <2>1, <2>2
<1>4. ASSUME NEW l \in i + 1 .. m PROVE checks'[l].reason \in {"cancelled", "draft"}
  <2>1. l \in DOMAIN checks  BY <1>r DEF Sized, Newest
  <2>2. checks[l].reason \in {"cancelled", "draft"}  BY DEF HeldUp
  <2>. QED  BY <1>1, <2>1, <2>2
<1>. QED  BY <1>2, <1>3, <1>4 DEF HeldUp, Verdict

LEMMA RunHolding ==
  ASSUME Settled, Orderly, Holding, Run
  PROVE  Holding'
PROOF
<1>r. /\ RanOn /\ UNCHANGED call /\ DOMAIN checks' = DOMAIN checks /\ TypeInv /\ Sized
      /\ Laned /\ Keyed /\ Newest' = Newest
      /\ \A j \in DOMAIN jobs : jobs'[j].check = jobs[j].check /\ (Coord(j)' <=> Coord(j))
      /\ \A j \in DOMAIN jobs' : Coord(j)' => j \in DOMAIN jobs
  BY RunKnown
<1>. SUFFICES ASSUME NEW j \in DOMAIN jobs', Coord(j)', Live(j)',
                     ~ (checks'[jobs'[j].check].st # "settled")
              PROVE  \/ \E c \in Calls : call'[c].pc \in {"job", "wait"} /\ call'[c].job = j
                     \/ HeldUp(jobs[j].check, Newest)'
                     \/ /\ \E c \in Calls : call'[c].pc \in Drafting
                        /\ HeldUp(jobs[j].check, Newest - 1)'
  BY DEF Holding, Open
<1>1. j \in DOMAIN jobs /\ Coord(j)  BY <1>r
<1>2. Live(j)  BY <1>r, <1>1 DEF RanOn
<1>3. PICK k \in DOMAIN checks : k = jobs[j].check /\ jobs'[j].check = k
  BY <1>r, <1>1 DEF TypeInv, Points, JobPoints
<1>n. PICK n \in Nat : n = Newest /\ Newest' = n  BY <1>r DEF Sized, Newest
<1>h. ASSUME NEW m, m \in Nat, m <= n, HeldUp(k, m) PROVE HeldUp(k, m)'  BY <1>h, <1>n, RunHeldUp
<1>4. ~ Open(k)'  BY <1>3 DEF Open
<1>5. CASE ~ Open(k)
  <2>1. CASE \E c \in Calls : call[c].pc \in {"job", "wait"} /\ call[c].job = j  BY <1>r, <2>1
  <2>2. CASE HeldUp(k, n)
    <3>1. HeldUp(k, n)'  BY <1>h, <2>2
    <3>. QED  BY <1>3, <1>n, <3>1 DEF HeldUp, Verdict, Coord
  <2>3. CASE (\E c \in Calls : call[c].pc \in Drafting) /\ HeldUp(k, n - 1)
    <3>0. PICK m : m = n - 1  OBVIOUS
    <3>1. m \in Nat
      <4>1. PICK c \in Calls : call[c].pc \in Drafting  BY <2>3
      <4>2. Newest > 0  BY <4>1 DEF Settled, Handled, Makes, Making
      <4>. QED  BY <1>n, <3>0, <4>2
    <3>2. HeldUp(k, m)'  BY <1>h, <2>3, <3>0, <3>1
    <3>. QED  BY <1>3, <1>n, <1>r, <2>3, <3>0, <3>2 DEF HeldUp, Verdict, Coord
  <2>. QED  BY <1>1, <1>2, <1>3, <1>5, <1>n, <2>1, <2>2, <2>3 DEF Holding
<1>6. CASE Open(k)
  <2>1. k = Mine /\ lane.pc \in {"judge", "hook"} /\ Verdict(k)'  BY <1>4, <1>6, <1>r DEF RanOn
  <2>2. lane.job \in DOMAIN jobs /\ jobs[lane.job].check = k  BY <1>r, <2>1, LaneKnown DEF Mine
  <2>3. Coord(lane.job)  BY <1>1, <1>2, <1>3, <1>r, <2>1, <2>2 DEF Keyed
  <2>4. j = lane.job  BY <1>1, <1>3, <1>r, <2>2, <2>3 DEF Keyed
  <2>5. lane.pc = "judge"
    <3>1. lane.pc = "hook" => ~ Live(j)  BY <1>1, <1>r, <2>4 DEF Laned, Body, Live
    <3>. QED  BY <1>2, <2>1, <3>1
  <2>6. \A i \in DOMAIN jobs : jobs[i].check = k => Coord(i)
    BY <1>1, <1>2, <1>3, <1>r, <2>5 DEF Keyed
  <2>7. \A i \in DOMAIN jobs' : jobs'[i].check = k => Coord(i)'
    <3>1. ASSUME NEW i \in DOMAIN jobs', i \notin DOMAIN jobs, jobs'[i].check = k
          PROVE  FALSE
      <4>1. CASE Judge  BY <3>1, <1>r, <4>1, JudgeFacts
      <4>2. CASE ~ Judge
        <5>1. ~ (Claim \/ ReadCheck \/ MarkCheck \/ PostProgress \/ Work \/ Chain \/ EndJob \/ SettleMine)
          BY <2>5 DEF Claim, ReadCheck, MarkCheck, PostProgress, Work, Chain, EndJob, SettleMine
        <5>. QED  BY <4>2, <5>1 DEF Run
      <4>. QED  BY <4>1, <4>2
    <3>. QED  BY <1>r, <2>6, <3>1
  <2>8. k = n  BY <1>6, <1>n, OpenIsNewest DEF OnlyOpen
  <2>9. k + 1 .. n = {}  BY <1>n, <2>8
  <2>. QED  BY <1>3, <1>n, <2>1, <2>7, <2>9 DEF HeldUp, Verdict, Coord
<1>. QED  BY <1>5, <1>6

LEMMA RunBusy ==
  ASSUME Settled, Orderly, Busy, Run
  PROVE  Busy'
PROOF
<1>r. UNCHANGED call /\ Sized /\ Newest' = Newest  BY RunKnown
<1>. SUFFICES ASSUME NEW c \in Calls, call[c].pc = "busy"
              PROVE  \E i \in 1 .. Newest' - 1 : HeldUp(i, Newest - 1)'
  BY <1>r DEF Busy
<1>n. PICK n \in Nat : n = Newest /\ Newest' = n  BY <1>r DEF Sized, Newest
<1>1. PICK i \in 1 .. n - 1 : HeldUp(i, n - 1)  BY <1>n DEF Busy
<1>2. PICK m \in Nat : m = n - 1 /\ m <= n  BY <1>1
<1>3. i \in DOMAIN checks  BY <1>1, <1>n, <1>r DEF Sized, Newest
<1>4. HeldUp(i, m)'  BY <1>1, <1>2, <1>3, <1>n, RunHeldUp
<1>. QED  BY <1>1, <1>2, <1>4, <1>n DEF HeldUp, Verdict, Coord

LEMMA RunWorded ==
  ASSUME Settled, Orderly, Worded, Run
  PROVE  Worded'
PROOF
<1>r. /\ UNCHANGED <<pr, call, events>> /\ Sized /\ Newest' = Newest /\ RanOn /\ TypeInv
      /\ DOMAIN checks' = DOMAIN checks
  BY RunKnown
<1>q. Quiet' <=> Quiet  BY <1>r DEF Quiet
<1>n. PICK n \in Nat : n = Newest /\ Newest' = n  BY <1>r DEF Sized, Newest
<1>1. Quiet' /\ pr'.open /\ events' > 0 => n > 0 /\ checks'[n].head = pr'.head
  <2>. SUFFICES ASSUME Quiet, pr.open, events > 0 PROVE n > 0 /\ checks'[n].head = pr.head
    BY <1>q, <1>r
  <2>1. n > 0 /\ checks[n].head = pr.head  BY <1>n DEF Worded
  <2>2. n \in DOMAIN checks  BY <1>n, <1>r, <2>1 DEF Sized, Newest
  <2>3. RanRows  BY <1>r, RunEffect
  <2>. QED  BY <2>1, <2>2, <2>3 DEF RanRows
<1>2. ASSUME n > 0, WordOf(n)
      PROVE  \/ checks'[n].st # "settled"
             \/ checks'[n].reason \in {"judged", "error", "draft"}
             \/ \E i \in 1 .. n - 1 : HeldUp(i, n)'
  <2>0. n \in DOMAIN checks  BY <1>2, <1>n, <1>r DEF Sized, Newest
  <2>1. CASE Open(n)
    <3>1. Open(n)' \/ Verdict(n)'  BY <1>r, <2>0, <2>1 DEF RanOn
    <3>. QED  BY <3>1 DEF Open, Verdict
  <2>2. CASE checks[n].reason \in {"judged", "error", "draft"}
    <3>1. ~ Open(n)  BY <1>r, <2>0, <2>2 DEF TypeInv, Points, RowPoints
    <3>. QED  BY <1>r, <2>0, <2>2, <3>1 DEF RanOn
  <2>3. CASE \E i \in 1 .. n - 1 : HeldUp(i, n)
    <3>1. PICK i \in 1 .. n - 1 : HeldUp(i, n)  BY <2>3
    <3>2. i \in DOMAIN checks  BY <1>n, <1>r, <3>1 DEF Sized, Newest
    <3>3. HeldUp(i, n)'  BY <1>n, <3>1, <3>2, RunHeldUp
    <3>. QED  BY <3>1, <3>3
  <2>. QED  BY <1>2, <2>1, <2>2, <2>3 DEF WordOf
<1>3. (Quiet' /\ pr'.open) \/ (\E c \in Calls : call'[c].pc = "name") =>
        (Quiet /\ pr.open) \/ (\E c \in Calls : call[c].pc = "name")
  BY <1>q, <1>r
<1>4. n > 0 /\ ((Quiet /\ pr.open) \/ (\E c \in Calls : call[c].pc = "name")) => WordOf(n)
  BY <1>n DEF Worded
<1>5. n > 0 /\ WordOf(n) => WordOf(Newest)'
  BY <1>2, <1>n DEF WordOf, HeldUp, Verdict, Coord, Open
<1>. QED  BY <1>1, <1>3, <1>4, <1>5, <1>n DEF Worded

-------------------------------------------------------------------------------
\* What a step of a call leaves, by where the call stands before it and after it.
CalledOn(c) ==
  /\ \A k \in DOMAIN checks :
       /\ checks'[k].head = checks[k].head
       /\ \/ checks'[k].job = checks[k].job
          \/ k = call[c].check /\ call[c].pc = "name" /\ checks'[k].job = call[c].job
       /\ Open(k) /\ ~ Open(k)' =>
            \/ /\ call[c].pc = "settle"
               /\ checks[k].job # 0 => call'[c].pc = "job" /\ call'[c].job = checks[k].job
            \/ call[c].pc \in {"draft", "busy"} /\ k = call[c].check
  /\ \/ Len(checks') = Len(checks)
     \/ Len(checks') = Len(checks) + 1 /\ call[c].pc = "create" /\ call'[c].pc = "post"
  /\ \A j \in DOMAIN jobs' : j \notin DOMAIN jobs =>
       call'[c].pc = "name" /\ call'[c].job = j /\ UNCHANGED checks
\* The call itself: a stop that is over, a name that is written, an attempt that is made.
Goings(c) ==
  /\ call[c].pc \in {"job", "wait"} =>
       \/ jobs'[call[c].job].st \notin {"queued", "running"}
       \/ call'[c].pc \in {"job", "wait"} /\ call'[c].job = call[c].job
  /\ call[c].pc = "name" =>
       call'[c].pc = "idle" /\ (Open(call[c].check) => checks'[call[c].check].job = call[c].job)
  /\ call[c].pc \in Drafting =>
       \/ call'[c].pc \in Drafting
       \/ /\ call[c].pc = "enqueue" /\ call'[c].pc = "name"
          /\ ~ KeyHeld("coordinator") /\ UNCHANGED checks
          /\ \E j \in DOMAIN jobs' : jobs'[j].check = call[c].check /\ Live(j)'
       \/ /\ call[c].pc \in {"draft", "busy"} /\ call'[c].pc = "idle"
          /\ checks'[call[c].check].st = "settled"
          /\ Open(call[c].check) => checks'[call[c].check].reason =
                                      IF call[c].pc = "draft" THEN "draft" ELSE "cancelled"
  /\ call'[c].pc = "busy" =>
       call[c].pc = "enqueue" /\ KeyHeld("coordinator") /\ UNCHANGED <<checks, jobs>>
  /\ call'[c].pc = "name" => call[c].pc = "enqueue"
  /\ call'[c].pc = "idle" /\ pr'.open => pr.open /\ UNCHANGED pr /\ call[c].pc \in {"draft", "busy", "name"}

LEMMA StandingOn ==
  ASSUME TypeInv, NEW c \in Calls, UNCHANGED <<checks, jobs>>
  PROVE  CalledOn(c)
PROOF
<1>1. Len(checks') = Len(checks)  OBVIOUS
<1>. QED  BY <1>1 DEF CalledOn, Open

LEMMA SettlingOn ==
  ASSUME TypeInv, NEW c \in Calls, UNCHANGED jobs, NEW k \in DOMAIN checks, k = call[c].check,
         NEW reason, Settles(k, reason),
         \/ /\ call[c].pc = "settle"
            /\ Open(k) /\ checks[k].job # 0 => call'[c].pc = "job" /\ call'[c].job = checks[k].job
         \/ call[c].pc \in {"draft", "busy"}
  PROVE  CalledOn(c)
PROOF
<1>1. Len(checks') = Len(checks)  BY DEF Settles
<1>2. \A l \in DOMAIN checks :
        /\ checks'[l].head = checks[l].head /\ checks'[l].job = checks[l].job
        /\ Open(l) /\ ~ Open(l)' => l = k
  BY DEF Settles, Open
<1>. QED  BY <1>1, <1>2 DEF CalledOn

LEMMA RewritingOn ==
  ASSUME TypeInv, NEW c \in Calls, UNCHANGED jobs, NEW k \in DOMAIN checks, k = call[c].check,
         NEW job, NEW posted, Rewrites(k, checks[k].st, job, posted),
         job = checks[k].job \/ (call[c].pc = "name" /\ job = call[c].job)
  PROVE  CalledOn(c)
PROOF
<1>1. Len(checks') = Len(checks)  BY DEF Rewrites
<1>2. ASSUME NEW l \in DOMAIN checks
      PROVE  /\ checks'[l].head = checks[l].head /\ checks'[l].st = checks[l].st
             /\ checks'[l].job = IF l = k THEN job ELSE checks[l].job
  BY DEF Rewrites
<1>. QED  BY <1>1, <1>2 DEF CalledOn, Open

LEMMA CallsOn ==
  ASSUME Settled, OneCaller, NEW c \in Calls, Receive(c) \/ Handle(c)
  PROVE  CalledOn(c) /\ Goings(c)
PROOF
<1>t. TypeInv /\ Handled(c) /\ CallPoints(c)  BY DEF Settled, TypeInv, Points
<1>u. Attends(c) /\ Starts(c)  BY <1>t DEF Handled
<1>s. Sized  BY <1>t, Sizes DEF TypeInv
\* A call that is over, by where it was.
<1>e. ASSUME UNCHANGED pr, call[c].pc \notin {"idle"} \cup Making,
             Supersedes(c) \/ (Ends(c) /\ ~ (pr.open /\ pr.head = call[c].head))
      PROVE  call'[c].pc \in {"idle", "create"} /\ (call'[c].pc = "idle" => ~ pr'.open)
  BY <1>e, <1>u DEF Supersedes, Goes, Ends, Attends
<1>1. CASE Receive(c)
  <2>1. /\ UNCHANGED <<checks, jobs>> /\ call[c].pc = "idle" /\ call'[c].pc \in {"stored", "active"}
    BY <1>1, <1>t, ReceiveFacts
  <2>. QED  BY <1>t, <2>1, StandingOn DEF Goings, Drafting
<1>2. CASE ReadStored(c)
  <2>1. /\ UNCHANGED <<checks, jobs, pr>> /\ call[c].pc = "stored"
        /\ \/ call'[c].pc = "active"
           \/ ~ (pr.open /\ pr.head = call[c].head) /\ Ends(c)
    BY <1>2, <1>t, ReadStoredFacts DEF Goes
  <2>2. call'[c].pc \in {"active", "create"} \/ (call'[c].pc = "idle" /\ ~ pr'.open)
    BY <1>e, <2>1 DEF Making, Drafting
  <2>. QED  BY <1>t, <2>1, <2>2, StandingOn DEF Goings, Drafting
<1>3. CASE ReadActive(c)
  <2>1. /\ UNCHANGED <<checks, jobs, pr>> /\ call[c].pc = "active"
        /\ Supersedes(c) \/ call'[c].pc = "settle"
    BY <1>3, <1>t, ReadActiveFacts
  <2>2. call'[c].pc \in {"settle", "create"} \/ (call'[c].pc = "idle" /\ ~ pr'.open)
    BY <1>e, <2>1 DEF Making, Drafting
  <2>. QED  BY <1>t, <2>1, <2>2, StandingOn DEF Goings, Drafting
<1>4. CASE SettleActive(c)
  <2>1. PICK k \in DOMAIN checks : k = call[c].check  BY <1>4, <1>t, SettleActiveFacts
  <2>r. PICK reason : reason = Reason(c)  OBVIOUS
  <2>2. /\ UNCHANGED <<jobs, pr>> /\ Settles(k, reason) /\ call[c].pc = "settle"
        /\ \/ call'[c].pc = "job" /\ call'[c].job = checks[k].job
           \/ ~ (Open(k) /\ checks[k].job # 0) /\ Supersedes(c)
    BY <1>4, <1>t, <2>1, <2>r, SettleActiveFacts
  <2>3. call'[c].pc \in {"job", "create"} \/ (call'[c].pc = "idle" /\ ~ pr'.open)
    BY <1>e, <2>2 DEF Making, Drafting
  <2>4. CalledOn(c)  BY <1>t, <2>1, <2>2, SettlingOn
  <2>. QED  BY <2>2, <2>3, <2>4 DEF Goings, Drafting
<1>5. CASE StopJob(c)
  <2>1. PICK j \in DOMAIN jobs : j = call[c].job  BY <1>5, <1>t, StopJobFacts
  <2>2. /\ Typed' /\ UNCHANGED <<checks, pr>> /\ call[c].pc = "job"
        /\ \/ Writes(j, "cancelled", jobs[j].stopped) /\ Supersedes(c)
           \/ Writes(j, "running", TRUE) /\ Goes(c, "wait")
           \/ jobs[j].st \notin {"queued", "running"} /\ UNCHANGED jobs /\ Supersedes(c)
    BY <1>5, <1>t, <2>1, StopJobFacts
  <2>3. Sized' /\ Len(jobs') = Len(jobs)  BY <2>2, Sizes DEF Writes
  <2>4. DOMAIN jobs' = DOMAIN jobs  BY <1>s, <2>3 DEF Sized
  <2>5. CalledOn(c)  BY <2>2, <2>4 DEF CalledOn, Open
  <2>6. ~ Live(j)' \/ (call'[c].pc = "wait" /\ call'[c].job = j)
    BY <2>1, <2>2 DEF Writes, Live, Goes
  <2>7. call'[c].pc \in {"wait", "create"} \/ (call'[c].pc = "idle" /\ ~ pr'.open)
    BY <1>e, <2>2 DEF Making, Drafting, Goes
  <2>. QED  BY <2>1, <2>2, <2>5, <2>6, <2>7 DEF Goings, Drafting, Live
<1>6. CASE Unwound(c)
  <2>1. /\ UNCHANGED <<checks, jobs, pr>> /\ call[c].pc = "wait" /\ ~ Live(call[c].job) /\ Supersedes(c)
    BY <1>6, <1>t, UnwoundFacts
  <2>2. call'[c].pc = "create" \/ (call'[c].pc = "idle" /\ ~ pr'.open)
    BY <1>e, <2>1 DEF Making, Drafting
  <2>3. jobs'[call[c].job].st \notin {"queued", "running"}  BY <2>1 DEF Live
  <2>. QED  BY <1>t, <2>1, <2>2, <2>3, StandingOn DEF Goings, Drafting
<1>7. CASE Outlast(c)
  <2>1. PICK j \in DOMAIN jobs : j = call[c].job  BY <1>7, <1>t, OutlastFacts
  <2>2. /\ Typed' /\ UNCHANGED <<checks, pr>> /\ call[c].pc = "wait"
        /\ Writes(j, "cancelled", jobs[j].stopped) /\ Supersedes(c)
    BY <1>7, <1>t, <2>1, OutlastFacts
  <2>3. Sized' /\ Len(jobs') = Len(jobs)  BY <2>2, Sizes DEF Writes
  <2>4. DOMAIN jobs' = DOMAIN jobs  BY <1>s, <2>3 DEF Sized
  <2>5. CalledOn(c)  BY <2>2, <2>4 DEF CalledOn, Open
  <2>6. ~ Live(j)'  BY <2>2 DEF Writes, Live
  <2>7. call'[c].pc = "create" \/ (call'[c].pc = "idle" /\ ~ pr'.open)
    BY <1>e, <2>2 DEF Making, Drafting
  <2>. QED  BY <2>1, <2>2, <2>5, <2>6, <2>7 DEF Goings, Drafting, Live
<1>8. CASE CreateCheck(c)
  <2>1. /\ UNCHANGED jobs /\ Len(checks') = Len(checks) + 1
        /\ \A k \in DOMAIN checks : checks'[k] = checks[k]
        /\ call[c].pc = "create" /\ call'[c].pc = "post"
    BY <1>8, <1>t, CreateCheckFacts
  <2>. QED  BY <2>1 DEF CalledOn, Goings, Drafting, Open
<1>9. CASE Post(c)
  <2>1. /\ UNCHANGED <<checks, jobs>> /\ call[c].pc = "post"
        /\ call'[c].pc \in {"posted", "draft", "enqueue"}
    BY <1>9, <1>t, PostFacts DEF Goes, Onward
  <2>. QED  BY <1>t, <2>1, StandingOn DEF Goings, Drafting
<1>10. CASE RememberPost(c)
  <2>1. PICK k \in DOMAIN checks : k = call[c].check  BY <1>10, <1>t, RememberPostFacts
  <2>r. PICK job : job = checks[k].job  OBVIOUS
  <2>2. /\ UNCHANGED jobs /\ call[c].pc = "posted" /\ call'[c].pc \in {"draft", "enqueue"}
        /\ Rewrites(k, checks[k].st, job, TRUE) \/ UNCHANGED checks
    BY <1>10, <1>t, <2>1, <2>r, RememberPostFacts DEF Goes, Onward
  <2>3. CalledOn(c)  BY <1>t, <2>1, <2>r, <2>2, StandingOn, RewritingOn
  <2>. QED  BY <2>2, <2>3 DEF Goings, Drafting
<1>11. CASE EnqueueCheck(c)
  <2>1. PICK k \in DOMAIN checks : k = call[c].check  BY <1>11, <1>t, EnqueueCheckFacts
  <2>2. /\ Typed' /\ UNCHANGED checks /\ call[c].pc = "enqueue"
        /\ \/ KeyHeld("coordinator") /\ UNCHANGED jobs /\ Goes(c, "busy")
           \/ /\ ~ KeyHeld("coordinator") /\ Joins("coordinator", k)
              /\ call'[c].pc = "name" /\ call'[c].job = Len(jobs) + 1
    BY <1>11, <1>t, <2>1, EnqueueCheckFacts
  <2>3. CASE KeyHeld("coordinator") /\ UNCHANGED jobs /\ Goes(c, "busy")
    BY <1>t, <2>2, <2>3, StandingOn DEF Goings, Drafting, Goes
  <2>4. CASE /\ ~ KeyHeld("coordinator") /\ Joins("coordinator", k)
             /\ call'[c].pc = "name" /\ call'[c].job = Len(jobs) + 1
    <3>1. Sized' /\ Len(jobs') = Len(jobs) + 1  BY <2>2, <2>4, Sizes DEF Joins
    <3>2. PICK n : n = Len(jobs) + 1  OBVIOUS
    <3>3. DOMAIN jobs' = DOMAIN jobs \cup {n}  BY <1>s, <3>1, <3>2 DEF Sized
    <3>4. jobs'[n].check = k /\ Live(n)'  BY <2>4, <3>2 DEF Joins, Live
    <3>5. CalledOn(c)  BY <2>2, <2>4, <3>2, <3>3 DEF CalledOn, Open
    <3>6. Goings(c)  BY <2>1, <2>2, <2>4, <3>3, <3>4 DEF Goings, Drafting
    <3>. QED  BY <3>5, <3>6
  <2>. QED  BY <2>2, <2>3, <2>4
<1>12. CASE SettleNew(c)
  <2>1. PICK k \in DOMAIN checks : k = call[c].check  BY <1>12, <1>t, SettleNewFacts
  <2>r. PICK reason : reason = IF call[c].pc = "draft" THEN "draft" ELSE "cancelled"  OBVIOUS
  <2>2. /\ UNCHANGED <<jobs, pr>> /\ Settles(k, reason) /\ Ends(c) /\ call[c].pc \in {"draft", "busy"}
    BY <1>12, <1>t, <2>1, <2>r, SettleNewFacts
  <2>3. CalledOn(c)  BY <1>t, <2>1, <2>2, SettlingOn
  <2>4. checks'[k].st = "settled" /\ (Open(k) => checks'[k].reason = reason)
    BY <2>2 DEF Settles, Open
  <2>. QED  BY <2>1, <2>r, <2>2, <2>3, <2>4 DEF Goings, Drafting, Ends
<1>13. CASE NameJob(c)
  <2>1. PICK k \in DOMAIN checks : k = call[c].check  BY <1>13, <1>t, NameJobFacts
  <2>r. PICK job, posted : job = call[c].job /\ posted = checks[k].posted  OBVIOUS
  <2>2. /\ UNCHANGED <<jobs, pr>> /\ call[c].pc = "name" /\ Ends(c)
        /\ \/ Rewrites(k, checks[k].st, job, posted)
           \/ ~ Open(k) /\ UNCHANGED checks
    BY <1>13, <1>t, <2>1, <2>r, NameJobFacts
  <2>3. CalledOn(c)  BY <1>t, <2>1, <2>r, <2>2, StandingOn, RewritingOn
  <2>4. Open(k) => checks'[k].job = job  BY <2>2 DEF Rewrites
  <2>. QED  BY <2>1, <2>r, <2>2, <2>3, <2>4 DEF Goings, Drafting, Ends
<1>. QED  BY <1>1, <1>2, <1>3, <1>4, <1>5, <1>6, <1>7, <1>8, <1>9, <1>10, <1>11, <1>12, <1>13 DEF Handle

Headed == Settled /\ Orderly /\ Carried /\ Named /\ Holding /\ Busy /\ Worded

\* The rows and the jobs that were there are there after the step.
RowsKept == \A k \in DOMAIN checks : k \in DOMAIN checks'
JobsKept ==
  \A j \in DOMAIN jobs : /\ j \in DOMAIN jobs' /\ (Coord(j)' <=> Coord(j))
                         /\ jobs'[j].check = jobs[j].check
                         /\ Live(j)' => Live(j)

LEMMA CallKnown ==
  ASSUME Settled, Orderly, OneCaller, NEW c \in Calls, Receive(c) \/ Handle(c)
  PROVE  /\ CalledOn(c) /\ Goings(c) /\ Called /\ CalledRows /\ CalledJobs /\ UNCHANGED lane
         /\ Settled' /\ TypeInv /\ TypeInv' /\ Sized /\ Sized' /\ Orderly' /\ Handled(c)
         /\ Keyed /\ OnlyOpen(Newest) /\ \A d \in Calls : d = c
         /\ RowsKept /\ JobsKept
         /\ call[c].pc \in Making =>
              Newest \in DOMAIN checks /\ call[c].check = Newest
         /\ call[c].pc \in Drafting => Open(Newest) /\ Jobless(Newest)
PROOF
<1>1. CalledOn(c) /\ Goings(c)  BY CallsOn
<1>2. Called /\ CalledRows /\ CalledJobs /\ UNCHANGED lane  BY CallEffect DEF Called
<1>3. Settled'
  <2>1. [Next]_vars  BY DEF Next
  <2>. QED  BY <2>1, StepSettled
<1>4. TypeInv /\ TypeInv' /\ Sized /\ Sized'  BY <1>3, Sizes DEF Settled, TypeInv
<1>5. Orderly' /\ Keyed  BY <1>2, <1>4, CallOrderly DEF Orderly
<1>6. Handled(c) /\ OnlyOpen(Newest)  BY OpenIsNewest DEF Settled
<1>7. \A d \in Calls : d = c  BY DEF OneCaller
<1>8. RowsKept  BY <1>2, <1>4 DEF RowsKept, CalledRows, Sized
<1>9. JobsKept  BY <1>2, <1>4 DEF JobsKept, CalledJobs, Sized, Coord, Live
<1>10. call[c].pc \in Making => Newest \in DOMAIN checks /\ call[c].check = Newest
  BY <1>4, <1>6, NewestKnown
<1>11. call[c].pc \in Drafting => Open(Newest) /\ Jobless(Newest)  BY <1>6 DEF Handled, Drafts
<1>a. CalledOn(c) /\ Goings(c) /\ Called /\ CalledRows /\ CalledJobs /\ UNCHANGED lane
  BY <1>1, <1>2
<1>b. Settled' /\ TypeInv /\ TypeInv' /\ Sized /\ Sized' /\ Orderly' /\ Handled(c)
  BY <1>3, <1>4, <1>5, <1>6
<1>c. Keyed /\ OnlyOpen(Newest) /\ \A d \in Calls : d = c  BY <1>5, <1>6, <1>7
<1>. QED  BY <1>a, <1>b, <1>c, <1>8, <1>9, <1>10, <1>11

LEMMA CallCarried ==
  ASSUME Settled, Orderly, OneCaller, Carried, NEW c \in Calls, Receive(c) \/ Handle(c)
  PROVE  Carried'
PROOF
<1>r. /\ CalledOn(c) /\ Goings(c) /\ CalledRows /\ CalledJobs /\ UNCHANGED lane
      /\ Sized /\ Sized' /\ OnlyOpen(Newest) /\ \A d \in Calls : d = c
      /\ \A j \in DOMAIN jobs : j \in DOMAIN jobs' /\ jobs'[j].check = jobs[j].check
      /\ call[c].pc \in Making => call[c].check = Newest
  BY CallKnown DEF JobsKept
<1>. SUFFICES ASSUME NEW k \in DOMAIN checks', Open(k)', call'[c].pc \notin Drafting
              PROVE  \E j \in DOMAIN jobs' : /\ jobs'[j].check = k
                                            /\ \/ Live(j)'
                                               \/ /\ lane'.job = j /\ lane'.pc = "hook"
                                                  /\ lane'.reason # "none"
  BY DEF Carried, Carrier
<1>1. k \in DOMAIN checks
  <2>1. Len(checks') = Len(checks)  BY <1>r DEF CalledOn, Drafting
  <2>. QED  BY <1>r, <2>1 DEF Sized
<1>2. Open(k) /\ k = Newest  BY <1>1, <1>r DEF CalledRows, OnlyOpen
<1>3. CASE call[c].pc \in Drafting
  <2>1. call[c].check = k  BY <1>2, <1>3, <1>r DEF Making
  <2>2. checks'[k].st # "settled"  BY DEF Open
  <2>. QED  BY <1>3, <1>r, <2>1, <2>2 DEF Goings
<1>4. CASE call[c].pc \notin Drafting
  <2>1. PICK j \in DOMAIN jobs :
          jobs[j].check = k /\ (Live(j) \/ (lane.job = j /\ lane.pc = "hook" /\ lane.reason # "none"))
    BY <1>1, <1>2, <1>4, <1>r DEF Carried, Carrier
  <2>2. Live(j) => Live(j)'  BY <1>2, <1>r, <2>1 DEF CalledJobs, Live
  <2>. QED  BY <1>r, <2>1, <2>2
<1>. QED  BY <1>3, <1>4

LEMMA CallNamed ==
  ASSUME Settled, Orderly, OneCaller, Named, NEW c \in Calls, Receive(c) \/ Handle(c)
  PROVE  Named'
PROOF
<1>r. /\ CalledOn(c) /\ Goings(c) /\ CalledRows /\ TypeInv /\ Keyed /\ Handled(c)
      /\ \A d \in Calls : d = c
      /\ \A j \in DOMAIN jobs : /\ jobs'[j].check = jobs[j].check /\ (Coord(j)' <=> Coord(j))
                                /\ Live(j)' => Live(j)
      /\ call[c].pc \in Making => call[c].check = Newest
  BY CallKnown DEF JobsKept
<1>. SUFFICES ASSUME NEW j \in DOMAIN jobs', Coord(j)', Live(j)', checks'[jobs'[j].check].st # "settled"
              PROVE  \/ checks'[jobs'[j].check].job = j
                     \/ \E d \in Calls : call'[d].pc = "name" /\ call'[d].job = j
  BY DEF Named, Open
<1>1. CASE j \notin DOMAIN jobs  BY <1>1, <1>r DEF CalledOn
<1>2. CASE j \in DOMAIN jobs
  <2>1. Coord(j) /\ Live(j)  BY <1>2, <1>r
  <2>2. PICK k \in DOMAIN checks : k = jobs[j].check /\ jobs'[j].check = k
    BY <1>2, <1>r DEF TypeInv, Points, JobPoints
  <2>3. Open(k)
    <3>1. Open(k)'  BY <2>2 DEF Open
    <3>. QED  BY <1>r, <3>1 DEF CalledRows
  <2>4. CASE call[c].pc = "name"
    <3>1. /\ call[c].check = Newest /\ call[c].job \in DOMAIN jobs
          /\ jobs[call[c].job].check = Newest /\ Coord(call[c].job)
      BY <1>r, <2>4 DEF Handled, Enrols, Making, Coord, TypeInv, Points, CallPoints, WithJob
    <3>2. CASE k = Newest
      <4>1. j = call[c].job  BY <1>2, <1>r, <2>1, <2>2, <3>1, <3>2 DEF Keyed
      <4>. QED  BY <1>r, <2>2, <2>3, <2>4, <3>1, <3>2, <4>1 DEF Goings
    <3>3. CASE k # Newest
      <4>1. checks[k].job = j
        <5>1. call[c].job # j  BY <2>2, <3>1, <3>3
        <5>. QED  BY <1>2, <1>r, <2>1, <2>2, <2>3, <5>1 DEF Named
      <4>. QED  BY <1>r, <2>2, <3>1, <3>3, <4>1 DEF CalledOn
    <3>. QED  BY <3>2, <3>3
  <2>5. CASE call[c].pc # "name"
    <3>1. checks[k].job = j  BY <1>2, <1>r, <2>1, <2>2, <2>3, <2>5 DEF Named
    <3>. QED  BY <1>r, <2>2, <2>5, <3>1 DEF CalledOn
  <2>. QED  BY <2>4, <2>5
<1>. QED  BY <1>1, <1>2

LEMMA CallHeldUp ==
  ASSUME Settled, Orderly, OneCaller, NEW c \in Calls, Receive(c) \/ Handle(c),
         NEW i \in DOMAIN checks, NEW m \in Nat, m <= Newest, HeldUp(i, m)
  PROVE  HeldUp(i, m)'
PROOF
<1>r. /\ CalledRows /\ CalledJobs /\ TypeInv /\ Sized
      /\ \A j \in DOMAIN jobs : jobs'[j].check = jobs[j].check /\ (Coord(j)' <=> Coord(j))
  BY CallKnown DEF JobsKept
<1>1. \A k \in DOMAIN checks : checks[k].reason # "none" => checks'[k].reason = checks[k].reason
  BY <1>r DEF CalledRows, TypeInv, Points, RowPoints
<1>2. Verdict(i)'  BY <1>1 DEF HeldUp, Verdict
<1>3. \A j \in DOMAIN jobs' : jobs'[j].check = i => Coord(j)'
  <2>. SUFFICES ASSUME NEW j \in DOMAIN jobs', jobs'[j].check = i PROVE Coord(j)'  OBVIOUS
  <2>1. CASE j \in DOMAIN jobs  BY <1>r, <2>1 DEF HeldUp
  <2>2. CASE j \notin DOMAIN jobs  BY <1>r, <2>2 DEF CalledJobs, Coord
  <2>. QED  BY <2>1, <2>2
<1>4. ASSUME NEW l \in i + 1 .. m PROVE checks'[l].reason \in {"cancelled", "draft"}
  <2>1. l \in DOMAIN checks  BY <1>r DEF Sized, Newest
  <2>2. checks[l].reason \in {"cancelled", "draft"}  BY DEF HeldUp
  <2>. QED  BY <1>1, <2>1, <2>2
<1>. QED  BY <1>2, <1>3, <1>4 DEF HeldUp, Verdict

\* An attempt that the queue refused, or a draft, lengthens what is held up.
LEMMA SettledNewHeldUp ==
  ASSUME Settled, Orderly, OneCaller, NEW c \in Calls, Receive(c) \/ Handle(c),
         call[c].pc \in {"draft", "busy"}, call'[c].pc = "idle",
         NEW i \in DOMAIN checks, NEW n \in Nat, n = Newest, HeldUp(i, n - 1)
  PROVE  HeldUp(i, n)'
PROOF
<1>r. /\ Goings(c) /\ Sized /\ Newest \in DOMAIN checks /\ call[c].check = Newest /\ Open(Newest)
  BY CallKnown DEF Making, Drafting
<1>1. PICK m \in Nat : m = n - 1 /\ m <= n /\ i + 1 .. n \subseteq (i + 1 .. m) \cup {n}
  BY <1>r DEF Sized, Newest
<1>2. HeldUp(i, m)'  BY <1>1, CallHeldUp
<1>3. checks'[n].reason \in {"cancelled", "draft"}  BY <1>r DEF Goings, Drafting
<1>. QED  BY <1>1, <1>2, <1>3 DEF HeldUp, Verdict, Coord

LEMMA CallHolding ==
  ASSUME Settled, Orderly, OneCaller, Named, Holding, NEW c \in Calls, Receive(c) \/ Handle(c)
  PROVE  Holding'
PROOF
<1>r. /\ CalledOn(c) /\ Goings(c) /\ CalledRows /\ CalledJobs /\ TypeInv /\ Sized /\ Sized' /\ Handled(c)
      /\ \A d \in Calls : d = c
      /\ \A j \in DOMAIN jobs : /\ jobs'[j].check = jobs[j].check /\ (Coord(j)' <=> Coord(j))
                                /\ Live(j)' => Live(j)
      /\ call[c].pc \in Making => Newest \in DOMAIN checks /\ call[c].check = Newest
      /\ call[c].pc \in Drafting => Open(Newest) /\ Jobless(Newest)
  BY CallKnown DEF JobsKept
<1>. SUFFICES ASSUME NEW j \in DOMAIN jobs', Coord(j)', Live(j)',
                     ~ (checks'[jobs'[j].check].st # "settled")
              PROVE  \/ \E d \in Calls : call'[d].pc \in {"job", "wait"} /\ call'[d].job = j
                     \/ HeldUp(jobs[j].check, Newest)'
                     \/ /\ \E d \in Calls : call'[d].pc \in Drafting
                        /\ HeldUp(jobs[j].check, Newest - 1)'
  BY DEF Holding, Open
<1>1. j \in DOMAIN jobs
  <2>. SUFFICES ASSUME j \notin DOMAIN jobs PROVE FALSE  OBVIOUS
  <2>1. UNCHANGED checks /\ call'[c].pc = "name"  BY <1>r DEF CalledOn
  <2>2. jobs'[j].check \in DOMAIN checks /\ Jobless(jobs'[j].check)  BY <1>r DEF CalledJobs
  <2>3. call[c].pc = "enqueue"  BY <1>r, <2>1 DEF Goings
  <2>4. PICK i \in DOMAIN jobs' : jobs'[i].check = Newest
    BY <1>r, <2>1, <2>3 DEF Goings, Drafting, Making
  <2>5. i \notin DOMAIN jobs  BY <1>r, <2>3, <2>4 DEF Jobless, Drafting
  <2>6. i = j  BY <1>r, <2>5 DEF CalledJobs
  <2>7. Open(jobs'[j].check)  BY <1>r, <2>3, <2>4, <2>6 DEF Drafting
  <2>. QED  BY <2>1, <2>7 DEF Open
<1>2. Coord(j) /\ Live(j)  BY <1>r, <1>1
<1>3. PICK k \in DOMAIN checks : k = jobs[j].check /\ jobs'[j].check = k
  BY <1>r, <1>1 DEF TypeInv, Points, JobPoints
<1>4. ~ Open(k)'  BY <1>3 DEF Open
<1>n. PICK n \in Nat : n = Newest  BY <1>r DEF Sized, Newest
<1>5. CASE Open(k)
  <2>1. CASE /\ call[c].pc = "settle"
             /\ checks[k].job # 0 => call'[c].pc = "job" /\ call'[c].job = checks[k].job
    <3>1. checks[k].job = j  BY <1>1, <1>2, <1>3, <1>5, <1>r, <2>1 DEF Named
    <3>2. j # 0  BY <1>1, <1>r DEF Sized
    <3>. QED  BY <2>1, <3>1, <3>2
  <2>2. CASE call[c].pc \in {"draft", "busy"} /\ k = call[c].check
    BY <1>1, <1>3, <1>r, <2>2 DEF Making, Drafting, Jobless
  <2>. QED  BY <1>4, <1>5, <1>r, <2>1, <2>2 DEF CalledOn
<1>6. CASE ~ Open(k)
  <2>1. CASE call[c].pc \in {"job", "wait"} /\ call[c].job = j
    <3>1. jobs'[j].st \in {"queued", "running"}  BY DEF Live
    <3>. QED  BY <1>r, <2>1, <3>1 DEF Goings
  <2>2. CASE HeldUp(k, n)
    <3>1. HeldUp(k, n)'  BY <1>n, <2>2, CallHeldUp
    <3>2. CASE Len(checks') = Len(checks)
      <4>1. n = Newest'  BY <1>n, <3>2 DEF Newest
      <4>. QED  BY <1>3, <3>1, <4>1 DEF HeldUp, Verdict, Coord
    <3>3. CASE Len(checks') = Len(checks) + 1 /\ call'[c].pc = "post"
      <4>1. n = Newest' - 1  BY <1>n, <3>3 DEF Newest
      <4>. QED  BY <1>3, <3>1, <3>3, <4>1 DEF HeldUp, Verdict, Coord, Drafting
    <3>. QED  BY <1>r, <3>2, <3>3 DEF CalledOn
  <2>3. CASE call[c].pc \in Drafting /\ HeldUp(k, n - 1)
    <3>0. n > 0 /\ n = Newest'
      <4>1. Newest \in DOMAIN checks  BY <1>r, <2>3 DEF Making
      <4>2. call[c].pc # "create"  BY <2>3 DEF Drafting
      <4>3. Len(checks') = Len(checks)  BY <1>r, <4>2 DEF CalledOn
      <4>. QED  BY <1>n, <1>r, <4>1, <4>3 DEF Sized, Newest
    <3>1. CASE call'[c].pc \in Drafting
      <4>0. PICK m : m = n - 1  OBVIOUS
      <4>1. m \in Nat /\ m <= n
        <5>1. n > 0  BY <3>0
        <5>. QED  BY <4>0, <5>1
      <4>2. HeldUp(k, m)'  BY <1>n, <2>3, <4>0, <4>1, CallHeldUp
      <4>. QED  BY <1>3, <3>0, <3>1, <4>0, <4>2 DEF HeldUp, Verdict, Coord
    <3>2. CASE ~ KeyHeld("coordinator")  BY <1>1, <1>2, <3>2 DEF KeyHeld, Coord
    <3>3. CASE call[c].pc \in {"draft", "busy"} /\ call'[c].pc = "idle"
      <4>1. HeldUp(k, n)'  BY <1>n, <2>3, <3>3, SettledNewHeldUp
      <4>. QED  BY <1>3, <3>0, <4>1 DEF HeldUp, Verdict, Coord
    <3>. QED  BY <1>r, <2>3, <3>1, <3>2, <3>3 DEF Goings
  <2>. QED  BY <1>1, <1>2, <1>3, <1>6, <1>n, <1>r, <2>1, <2>2, <2>3 DEF Holding
<1>. QED  BY <1>5, <1>6

LEMMA CallBusy ==
  ASSUME Settled, Orderly, OneCaller, Holding, NEW c \in Calls, Receive(c) \/ Handle(c)
  PROVE  Busy'
PROOF
<1>r. /\ Goings(c) /\ TypeInv /\ Sized /\ OnlyOpen(Newest) /\ \A d \in Calls : d = c
      /\ call[c].pc \in Making => Newest \in DOMAIN checks
      /\ call[c].pc \in Drafting => Open(Newest) /\ Jobless(Newest)
  BY CallKnown
<1>. SUFFICES ASSUME call'[c].pc = "busy"
              PROVE  \E i \in 1 .. Newest' - 1 : HeldUp(i, Newest - 1)'
  BY <1>r DEF Busy
<1>1. call[c].pc = "enqueue" /\ KeyHeld("coordinator") /\ UNCHANGED <<checks, jobs>>
  BY <1>r DEF Goings
<1>2. Newest \in DOMAIN checks /\ Open(Newest) /\ Jobless(Newest)
  BY <1>r, <1>1 DEF Making, Drafting
<1>n. PICK n \in Nat : n = Newest /\ Newest' = n  BY <1>1, <1>r DEF Sized, Newest
<1>3. PICK j \in DOMAIN jobs : Live(j) /\ Coord(j)  BY <1>1 DEF KeyHeld, Coord
<1>4. PICK k \in DOMAIN checks : k = jobs[j].check  BY <1>r, <1>3 DEF TypeInv, Points, JobPoints
<1>5. k # n  BY <1>2, <1>3, <1>4, <1>n DEF Jobless
<1>6. ~ Open(k)  BY <1>4, <1>5, <1>n, <1>r DEF OnlyOpen
<1>7. k \in 1 .. n - 1  BY <1>4, <1>5, <1>n, <1>r DEF Sized, Newest
<1>8. ~ HeldUp(k, n)
  <2>1. checks[n].reason = "none"  BY <1>2, <1>n, <1>r DEF TypeInv, Points, RowPoints
  <2>2. n \in k + 1 .. n  BY <1>7
  <2>. QED  BY <2>1, <2>2 DEF HeldUp
<1>9. HeldUp(k, n - 1)  BY <1>1, <1>3, <1>4, <1>6, <1>8, <1>n, <1>r DEF Holding
<1>10. PICK m \in Nat : m = n - 1 /\ m <= n  BY <1>7
<1>11. HeldUp(k, m)'  BY <1>9, <1>10, <1>n, CallHeldUp
<1>. QED  BY <1>7, <1>10, <1>11, <1>n DEF HeldUp, Verdict, Coord

LEMMA CallWorded ==
  ASSUME Settled, Orderly, OneCaller, Busy, Worded, NEW c \in Calls, Receive(c) \/ Handle(c)
  PROVE  Worded'
PROOF
<1>r. /\ CalledOn(c) /\ Goings(c) /\ CalledRows /\ TypeInv /\ Sized /\ Handled(c)
      /\ \A d \in Calls : d = c
      /\ call[c].pc \in Making => Newest \in DOMAIN checks /\ call[c].check = Newest
      /\ call[c].pc \in Drafting => Open(Newest)
  BY CallKnown
<1>n. PICK n \in Nat : n = Newest  BY <1>r DEF Sized, Newest
<1>. SUFFICES ASSUME \/ call'[c].pc = "idle" /\ pr'.open
                     \/ call'[c].pc = "name"
              PROVE  /\ call'[c].pc = "idle" => Newest' > 0 /\ checks'[Newest'].head = pr'.head
                     /\ WordOf(Newest)'
  <2>1. Quiet' <=> call'[c].pc = "idle"  BY <1>r DEF Quiet
  <2>2. (\E d \in Calls : call'[d].pc = "name") <=> call'[c].pc = "name"  BY <1>r
  <2>. QED  BY <2>1, <2>2 DEF Worded
<1>1. /\ call[c].pc \in {"draft", "busy", "name", "enqueue"}
      /\ call'[c].pc = "idle" => pr.open /\ UNCHANGED pr /\ call[c].pc \in {"draft", "busy", "name"}
  BY <1>r DEF Goings
<1>2. /\ n \in DOMAIN checks /\ call[c].check = n /\ checks[n].head = pr.head
      /\ call[c].pc # "name" => Open(n)
  BY <1>1, <1>n, <1>r DEF Making, Drafting, Handled, Makes
<1>3. Newest' = n /\ n > 0
  <2>1. Len(checks') = Len(checks)  BY <1>1, <1>r DEF CalledOn
  <2>. QED  BY <1>2, <1>n, <1>r, <2>1 DEF Sized, Newest
<1>4. call'[c].pc = "idle" => Newest' > 0 /\ checks'[Newest'].head = pr'.head
  BY <1>1, <1>2, <1>3, <1>r DEF CalledOn
<1>5. \/ checks'[n].st # "settled"
      \/ checks'[n].reason \in {"judged", "error", "draft"}
      \/ \E i \in 1 .. n - 1 : HeldUp(i, n)'
  <2>1. CASE call[c].pc = "enqueue"
    <3>1. UNCHANGED checks  BY <1>1, <1>r, <2>1 DEF Goings, Drafting
    <3>. QED  BY <1>2, <2>1, <3>1 DEF Open
  <2>2. CASE call[c].pc = "draft"  BY <1>1, <1>2, <1>r, <2>2 DEF Goings, Drafting
  <2>3. CASE call[c].pc = "busy"
    <3>1. PICK i \in 1 .. n - 1 : HeldUp(i, n - 1)  BY <1>n, <2>3 DEF Busy
    <3>2. i \in DOMAIN checks  BY <1>n, <1>r, <3>1 DEF Sized, Newest
    <3>3. call'[c].pc = "idle"  BY <1>r, <2>3 DEF Goings, Drafting
    <3>4. HeldUp(i, n)'  BY <1>n, <2>3, <3>1, <3>2, <3>3, SettledNewHeldUp
    <3>. QED  BY <3>1, <3>4
  <2>4. CASE call[c].pc = "name"
    <3>1. WordOf(n)  BY <1>3, <1>n, <2>4 DEF Worded
    <3>2. CASE Open(n)
      <4>1. Open(n)'  BY <1>2, <1>r, <2>4, <3>2 DEF CalledOn
      <4>. QED  BY <4>1 DEF Open
    <3>3. CASE checks[n].reason \in {"judged", "error", "draft"}
      <4>1. ~ Open(n)  BY <1>2, <1>r, <3>3 DEF TypeInv, Points, RowPoints
      <4>. QED  BY <1>2, <1>r, <3>3, <4>1 DEF CalledRows
    <3>4. CASE \E i \in 1 .. n - 1 : HeldUp(i, n)
      <4>1. PICK i \in 1 .. n - 1 : HeldUp(i, n)  BY <3>4
      <4>2. i \in DOMAIN checks  BY <1>n, <1>r, <4>1 DEF Sized, Newest
      <4>3. HeldUp(i, n)'  BY <1>n, <4>1, <4>2, CallHeldUp
      <4>. QED  BY <4>1, <4>3
    <3>. QED  BY <3>1, <3>2, <3>3, <3>4 DEF WordOf
  <2>. QED  BY <1>1, <2>1, <2>2, <2>3, <2>4
<1>6. WordOf(Newest)'  BY <1>3, <1>5 DEF WordOf, HeldUp, Verdict, Coord, Open
<1>. QED  BY <1>4, <1>6

LEMMA InitHeaded ==
  ASSUME Init
  PROVE  Headed
PROOF
<1>1. /\ DOMAIN checks = {} /\ Newest = 0 /\ DOMAIN jobs = {} /\ lane.pc = "free" /\ events = 0
      /\ \A c \in Calls : call[c].pc = "idle"
  BY DEF Init, NoCall, NoJob, Newest
<1>2. Orderly  BY <1>1 DEF Orderly, Laned, Reasoned, Keyed, Unjudged, HandedOver
<1>3. Carried /\ Named /\ Holding /\ Busy  BY <1>1 DEF Carried, Named, Holding, Busy
<1>4. Worded  BY <1>1 DEF Worded
<1>. QED  BY <1>2, <1>3, <1>4, InitSettled DEF Headed

LEMMA StepHeaded ==
  ASSUME Headed, OneCaller, [Next]_vars
  PROVE  Headed'
PROOF
<1>h. Settled /\ Orderly /\ Carried /\ Named /\ Holding /\ Busy /\ Worded  BY DEF Headed
<1>s. Settled'  BY <1>h, StepSettled
<1>1. CASE Run
  BY <1>1, <1>h, <1>s, RunKnown, RunCarried, RunNamed, RunHolding, RunBusy, RunWorded DEF Headed
<1>2. CASE \E c \in Calls : Receive(c) \/ Handle(c)
  BY <1>2, <1>h, <1>s, CallKnown, CallCarried, CallNamed, CallHolding, CallBusy, CallWorded DEF Headed
<1>3. CASE UNCHANGED vars
  <2>. USE <1>3, <1>h DEF vars, Open, Live, Newest, Coord, Verdict, Mine
  <2>1. Laned' /\ Reasoned'  BY DEF Orderly, Laned, Reasoned, Coordinates
  <2>2. Keyed'  BY DEF Orderly, Keyed
  <2>3. Unjudged' /\ HandedOver'  BY DEF Orderly, Unjudged, HandedOver, Coordinates
  <2>4. Carried' /\ Named'  BY DEF Carried, Carrier, Named
  <2>5. Holding'  BY DEF Holding, HeldUp
  <2>6. Busy'  BY DEF Busy, HeldUp
  <2>7. Worded'  BY DEF Worded, WordOf, HeldUp, Quiet
  <2>. QED  BY <1>s, <2>1, <2>2, <2>3, <2>4, <2>5, <2>6, <2>7 DEF Headed, Orderly
<1>. QED  BY <1>1, <1>2, <1>3 DEF Next

LEMMA HeadedImplies ==
  ASSUME Headed
  PROVE  HeadIsChecked
PROOF
<1>. SUFFICES ASSUME Quiet, pr.open, events > 0
              PROVE  /\ checks # <<>> /\ checks[Newest].head = pr.head
                     /\ CarriedOn(Newest) \/ BehindVerdict(Newest)
  BY DEF HeadIsChecked
<1>s. Sized  BY Sizes DEF Headed, Settled, TypeInv
<1>1. Newest > 0 /\ checks[Newest].head = pr.head /\ WordOf(Newest)  BY DEF Headed, Worded
<1>2. checks # <<>>  BY <1>1 DEF Newest
<1>3. Newest \in DOMAIN checks  BY <1>1, <1>s DEF Sized, Newest
<1>4. CASE Open(Newest)
  <2>1. \A c \in Calls : call[c].pc \notin Drafting  BY DEF Quiet, Drafting
  <2>2. Carrier(Newest)  BY <1>3, <1>4, <2>1 DEF Headed, Carried
  <2>. QED  BY <1>1, <1>2, <1>4, <2>2 DEF CarriedOn, Carrier
<1>5. CASE checks[Newest].reason \in {"judged", "error", "draft"}
  BY <1>1, <1>2, <1>5 DEF CarriedOn
<1>6. CASE \E i \in 1 .. Newest - 1 : HeldUp(i, Newest)
  BY <1>1, <1>2, <1>6 DEF BehindVerdict, HeldUp, Verdict, Coord
<1>. QED  BY <1>1, <1>4, <1>5, <1>6 DEF WordOf

\* One event at a time, an open pull request whose events have been handled has its
\* head checked: a coordinator that is superseded is always named by the row or about
\* to be, a body that ends without a word has handed its check to a link, and the queue
\* refuses an attempt for a coordinator whose own verdict came right before it, never
\* for one that was superseded.
THEOREM HeadChecked == ASSUME OneCaller PROVE Spec => []HeadIsChecked
PROOF
<1>1. Init => Headed  BY InitHeaded
<1>2. Headed /\ [Next]_vars => Headed'  BY StepHeaded
<1>3. Headed => HeadIsChecked  BY HeadedImplies
<1>4. Spec => []Headed  BY <1>1, <1>2, PTL DEF Spec
<1>. QED  BY <1>3, <1>4, PTL

-------------------------------------------------------------------------------
(* GitHub follows. *)

\* How GitHub's check of an attempt stands to its row: a word is the row's own, a check
\* that was reopened is of a row superseded or closed, a settled row's is open no more,
\* and one the row does not know is in the hands of the call that makes it.
Told ==
  \A k \in DOMAIN checks :
    /\ github[k] \in Words => github[k] = checks[k].reason
    /\ github[k] = "reopened" => checks[k].reason \in {"superseded", "cancelled"}
    /\ ~ Open(k) => github[k] \notin {"none", "open"}
    /\ github[k] \in {"none", "open"} /\ ~ checks[k].posted =>
         \E c \in Calls : call[c].pc \in {"post", "posted"} /\ call[c].check = k
\* Nobody but a call that supersedes settles the check a job has just named.
Late == lane.pc = "post" /\ ~ Open(Mine) => checks[Mine].reason \in {"superseded", "cancelled"}

\* What becomes of a check whose row is not new: nothing, it is settled and told, or
\* the update of its link lands once it is settled.
Follows(k) ==
  \/ github'[k] = github[k] /\ checks'[k].reason = checks[k].reason
  \/ /\ Open(k) /\ checks'[k].reason \in Words
     /\ IF checks[k].posted
        THEN github'[k] \in {checks'[k].reason, "refused"} ELSE github'[k] = github[k]
  \/ /\ lane.pc = "post" /\ k = Mine /\ ~ Open(k)
     /\ checks'[k].reason = checks[k].reason /\ github'[k] = "reopened"

LEMMA SettlesFollows ==
  ASSUME TypeInv, NEW k \in DOMAIN checks, NEW reason \in Words, Settles(k, reason)
  PROVE  \A l \in DOMAIN checks : Follows(l) /\ checks'[l].posted = checks[l].posted
PROOF
<1>. SUFFICES ASSUME NEW l \in DOMAIN checks
              PROVE  Follows(l) /\ checks'[l].posted = checks[l].posted
  OBVIOUS
<1>1. checks'[l].posted = checks[l].posted  BY DEF Settles
<1>2. CASE l = k /\ Open(k)
  <2>1. checks'[l].reason = reason  BY <1>2 DEF Settles
  <2>2. IF checks[l].posted THEN github'[l] \in {reason, "refused"} ELSE github'[l] = github[l]
    BY <1>2 DEF Settles
  <2>. QED  BY <1>1, <1>2, <2>1, <2>2 DEF Follows
<1>3. CASE ~ (l = k /\ Open(k))
  <2>1. checks'[l].reason = checks[l].reason /\ github'[l] = github[l]  BY <1>3 DEF Settles
  <2>. QED  BY <1>1, <2>1 DEF Follows
<1>. QED  BY <1>2, <1>3

\* A check keeps what it was told of, unless its call has yet to note it.
LEMMA ToldFollows ==
  ASSUME TypeInv, TypeInv', Told, Late, NEW k \in DOMAIN checks, k \in DOMAIN checks', Follows(k),
         Open(k) => checks'[k].reason = checks[k].reason
                    \/ \A c \in Calls : ~ (call[c].pc \in {"post", "posted"} /\ call[c].check = k)
  PROVE  /\ github'[k] \in Words => github'[k] = checks'[k].reason
         /\ github'[k] = "reopened" => checks'[k].reason \in {"superseded", "cancelled"}
         /\ ~ Open(k)' => github'[k] \notin {"none", "open"}
         /\ github'[k] \in {"none", "open"} => github[k] = github'[k]
PROOF
<1>r. (checks[k].reason = "none" <=> Open(k)) /\ (checks'[k].reason = "none" <=> Open(k)')
  BY DEF TypeInv, Points, RowPoints
<1>o. /\ github[k] \in Words => github[k] = checks[k].reason
      /\ github[k] = "reopened" => checks[k].reason \in {"superseded", "cancelled"}
      /\ ~ Open(k) => github[k] \notin {"none", "open"}
      /\ github[k] \in {"none", "open"} /\ ~ checks[k].posted =>
           \E c \in Calls : call[c].pc \in {"post", "posted"} /\ call[c].check = k
  BY DEF Told
<1>w. "none" \notin Words /\ "open" \notin Words /\ "reopened" \notin Words /\ "refused" \notin Words
  BY DEF Words
<1>1. CASE github'[k] = github[k] /\ checks'[k].reason = checks[k].reason
  BY <1>1, <1>r, <1>o
<1>2. CASE Open(k) /\ checks'[k].reason \in Words
  <2>n. checks[k].reason = "none" /\ checks'[k].reason # "none"  BY <1>2, <1>r, <1>w
  <2>c. \A c \in Calls : ~ (call[c].pc \in {"post", "posted"} /\ call[c].check = k)  BY <1>2, <2>n
  <2>1. CASE checks[k].posted
    <3>1. CASE github'[k] \in {checks'[k].reason, "refused"}  BY <1>2, <1>w, <3>1
    <3>2. CASE github'[k] # checks'[k].reason /\ github'[k] # "refused"
      <4>1. github'[k] = github[k] /\ checks'[k].reason = checks[k].reason
        BY <1>2, <2>1, <3>2 DEF Follows
      <4>. QED  BY <2>n, <4>1
    <3>. QED  BY <3>1, <3>2
  <2>2. CASE ~ checks[k].posted
    <3>1. github'[k] = github[k]  BY <1>2, <2>2 DEF Follows
    <3>2. github[k] \notin Words /\ github[k] # "reopened" /\ github[k] \notin {"none", "open"}
      BY <1>o, <1>w, <2>2, <2>c, <2>n
    <3>. QED  BY <3>1, <3>2
  <2>. QED  BY <2>1, <2>2
<1>3. CASE /\ lane.pc = "post" /\ k = Mine /\ ~ Open(k)
           /\ checks'[k].reason = checks[k].reason /\ github'[k] = "reopened"
  BY <1>3, <1>w DEF Late
<1>. QED  BY <1>1, <1>2, <1>3 DEF Follows

\* The worker: a settle told, or the update of a started link.
LEMMA RunFollows ==
  ASSUME TypeInv, Run
  PROVE  /\ \A k \in DOMAIN checks : Follows(k) /\ checks'[k].posted = checks[k].posted
         /\ lane'.pc = "post" => /\ lane.pc = "mark" /\ Mine' = Mine
                                 /\ checks'[Mine].st # "settled"
PROOF
<1>1. CASE Claim
  <2>1. UNCHANGED <<checks, github>> /\ lane'.pc = "open"  BY <1>1, ClaimFacts
  <2>. QED  BY <2>1 DEF Follows
<1>2. CASE ReadCheck
  <2>1. UNCHANGED <<checks, github>> /\ lane'.pc \in {"mark", "end"}  BY <1>2, ReadCheckFacts DEF Moves
  <2>. QED  BY <2>1 DEF Follows
<1>3. CASE MarkCheck
  <2>k. PICK k \in DOMAIN checks : k = Mine  BY <1>3, MarkCheckFacts
  <2>1. /\ UNCHANGED <<github, jobs>> /\ lane.pc = "mark" /\ lane'.job = lane.job
        /\ \/ lane'.pc = "post" /\ Rewrites(k, "running", lane.job, checks[k].posted)
           \/ lane'.pc = "end" /\ UNCHANGED checks
    BY <1>3, <2>k, MarkCheckFacts DEF Moves
  <2>2. ASSUME NEW l \in DOMAIN checks
        PROVE  checks'[l].reason = checks[l].reason /\ checks'[l].posted = checks[l].posted
    <3>1. CASE l = k  BY <2>1, <3>1 DEF Rewrites
    <3>2. CASE l # k  BY <2>1, <3>2 DEF Rewrites
    <3>. QED  BY <3>1, <3>2
  <2>3. Mine' = Mine  BY <2>1 DEF Mine
  <2>4. lane'.pc = "post" => checks'[k].st # "settled"  BY <2>1 DEF Rewrites
  <2>. QED  BY <2>k, <2>1, <2>2, <2>3, <2>4 DEF Follows
<1>4. CASE PostProgress
  <2>1. /\ UNCHANGED checks /\ lane.pc = "post" /\ lane'.pc = "work"
        /\ \A k \in DOMAIN checks : \/ github'[k] = github[k]
                                    \/ k = Mine /\ ~ Open(k) /\ github'[k] = "reopened"
    BY <1>4, PostProgressFacts DEF Moves
  <2>. QED  BY <2>1 DEF Follows
<1>5. CASE Work
  <2>1. UNCHANGED <<checks, github>> /\ lane'.pc \in {"judge", "chain", "end"}
    BY <1>5, WorkFacts DEF Moves
  <2>. QED  BY <2>1 DEF Follows
<1>6. CASE Chain
  <2>1. UNCHANGED <<checks, github>> /\ lane'.pc \in {"judge", "end"}  BY <1>6, ChainFacts DEF Moves
  <2>. QED  BY <2>1 DEF Follows
<1>7. CASE Judge
  <2>1. PICK k \in DOMAIN checks, reason \in Words : k = Mine /\ reason = lane.reason
    BY <1>7, JudgeFacts, LaneKnown DEF TypeInv, Points, LanePoints, Reasons
  <2>2. lane'.pc = "end" /\ Settles(k, reason)  BY <1>7, <2>1, JudgeFacts DEF Moves
  <2>. QED  BY <2>2, SettlesFollows
<1>8. CASE EndJob
  <2>1. UNCHANGED <<checks, github>> /\ lane'.pc = "hook"  BY <1>8, EndJobFacts DEF Moves
  <2>. QED  BY <2>1 DEF Follows
<1>9. CASE SettleMine
  <2>f. lane'.pc = "free"  BY <1>9, SettleMineFacts DEF Freed
  <2>1. CASE lane.reason = "none"
    <3>1. UNCHANGED <<checks, github>>  BY <1>9, <2>1, SettleMineFacts
    <3>. QED  BY <2>f, <3>1 DEF Follows
  <2>2. CASE lane.reason # "none"
    <3>1. PICK k \in DOMAIN checks, reason \in Words : k = Mine /\ reason = lane.reason
      BY <1>9, <2>2, SettleMineFacts, LaneKnown DEF Reasons
    <3>2. Settles(k, reason)  BY <1>9, <2>2, <3>1, SettleMineFacts
    <3>. QED  BY <2>f, <3>2, SettlesFollows
  <2>. QED  BY <2>1, <2>2
<1>. QED  BY <1>1, <1>2, <1>3, <1>4, <1>5, <1>6, <1>7, <1>8, <1>9 DEF Run

LEMMA RunTold ==
  ASSUME Settled, Told, Late, Run
  PROVE  Told' /\ Late'
PROOF
<1>t. TypeInv /\ \A c \in Calls : Handled(c)  BY DEF Settled
<1>r. TypeInv' /\ RanRows /\ UNCHANGED call  BY <1>t, RunEffect
<1>s. Sized /\ Sized'  BY <1>t, <1>r, Sizes DEF TypeInv
<1>d. DOMAIN checks' = DOMAIN checks  BY <1>r, <1>s DEF RanRows, Sized
<1>f. \A k \in DOMAIN checks : Follows(k) /\ checks'[k].posted = checks[k].posted  BY <1>t, RunFollows
\* The check of a call that is making it has no job yet, so the worker leaves it be.
<1>c. ASSUME NEW k \in DOMAIN checks, Open(k), NEW c \in Calls,
             call[c].pc \in {"post", "posted"}, call[c].check = k
      PROVE  checks'[k].reason = checks[k].reason
  <2>1. Jobless(k)  BY <1>t, <1>c DEF Handled, Drafts, Makes, Drafting, Making
  <2>2. Open(k)'  BY <1>r, <1>c, <2>1 DEF RanRows
  <2>3. checks[k].reason = "none" /\ checks'[k].reason = "none"
    BY <1>t, <1>r, <1>d, <1>c, <2>2 DEF TypeInv, Points, RowPoints
  <2>. QED  BY <2>3
<1>1. Told'
  <2>. SUFFICES ASSUME NEW k \in DOMAIN checks
                PROVE  /\ github'[k] \in Words => github'[k] = checks'[k].reason
                       /\ github'[k] = "reopened" => checks'[k].reason \in {"superseded", "cancelled"}
                       /\ ~ Open(k)' => github'[k] \notin {"none", "open"}
                       /\ github'[k] \in {"none", "open"} /\ ~ checks'[k].posted =>
                            \E c \in Calls : call'[c].pc \in {"post", "posted"} /\ call'[c].check = k
    BY <1>d DEF Told
  <2>1. Open(k) => checks'[k].reason = checks[k].reason
                   \/ \A c \in Calls : ~ (call[c].pc \in {"post", "posted"} /\ call[c].check = k)
    BY <1>c
  <2>2. /\ github'[k] \in Words => github'[k] = checks'[k].reason
        /\ github'[k] = "reopened" => checks'[k].reason \in {"superseded", "cancelled"}
        /\ ~ Open(k)' => github'[k] \notin {"none", "open"}
        /\ github'[k] \in {"none", "open"} => github[k] = github'[k]
    BY <1>t, <1>r, <1>d, <1>f, <2>1, ToldFollows
  <2>3. github'[k] \in {"none", "open"} /\ ~ checks'[k].posted =>
          \E c \in Calls : call[c].pc \in {"post", "posted"} /\ call[c].check = k
    BY <1>f, <2>2 DEF Told
  <2>. QED  BY <1>r, <2>2, <2>3
<1>2. Late'
  <2>1. lane'.pc = "post" => Mine' = Mine /\ checks'[Mine].st # "settled"  BY <1>t, RunFollows
  <2>. QED  BY <2>1 DEF Late, Open
<1>. QED  BY <1>1, <1>2

\* A call's step that is of the rows and of GitHub's checks alone.
LEMMA CallLate ==
  ASSUME Settled, Late, OneCaller, NEW c \in Calls, Receive(c) \/ Handle(c)
  PROVE  Late'
PROOF
<1>t. TypeInv  BY DEF Settled
<1>1. CalledRows /\ CalledJobs /\ UNCHANGED lane  BY CallEffect DEF Called
<1>. SUFFICES ASSUME lane.pc = "post", ~ Open(Mine)'
              PROVE  checks'[Mine'].reason \in {"superseded", "cancelled"}
  BY <1>1 DEF Late
<1>2. lane.job \in DOMAIN jobs  BY <1>t, LaneKnown
<1>k. PICK k \in DOMAIN checks : k = Mine /\ k = jobs[lane.job].check  BY <1>t, LaneKnown DEF Mine
<1>3. Mine' = k  BY <1>1, <1>2, <1>k DEF CalledJobs, Mine
<1>4. ~ Jobless(k)  BY <1>2, <1>k DEF Jobless
<1>5. ~ Open(k)'  BY <1>3 DEF Open
<1>6. CASE Open(k)  BY <1>1, <1>3, <1>4, <1>5, <1>6 DEF CalledRows
<1>7. CASE ~ Open(k)
  <2>1. checks[k].reason \in {"superseded", "cancelled"}  BY <1>k, <1>7 DEF Late
  <2>2. checks'[k].reason = checks[k].reason  BY <1>1, <1>7 DEF CalledRows
  <2>. QED  BY <1>3, <2>1, <2>2
<1>. QED  BY <1>6, <1>7

\* One call: what is told of a check that no call makes.
LEMMA ToldAlone ==
  ASSUME Told, OneCaller, NEW c \in Calls, NEW k \in DOMAIN checks,
         ~ (call[c].pc \in {"post", "posted"} /\ call[c].check = k)
  PROVE  github[k] \in {"none", "open"} => checks[k].posted
PROOF
<1>1. \A d \in Calls : d = c  BY DEF OneCaller
<1>. QED  BY <1>1 DEF Told

LEMMA ToldStands ==
  ASSUME Told, OneCaller, NEW c \in Calls, call[c].pc \notin {"post", "posted"},
         UNCHANGED <<checks, github>>
  PROVE  Told'
PROOF
<1>. SUFFICES ASSUME NEW k \in DOMAIN checks
              PROVE  /\ github[k] \in Words => github[k] = checks[k].reason
                     /\ github[k] = "reopened" => checks[k].reason \in {"superseded", "cancelled"}
                     /\ ~ Open(k) => github[k] \notin {"none", "open"}
                     /\ github[k] \in {"none", "open"} => checks[k].posted
  BY DEF Told, Open
<1>1. github[k] \in {"none", "open"} => checks[k].posted  BY ToldAlone
<1>. QED  BY <1>1 DEF Told

LEMMA ToldSettles ==
  ASSUME TypeInv, TypeInv', Told, Late, OneCaller, NEW c \in Calls, call[c].pc \notin {"post", "posted"},
         NEW k \in DOMAIN checks, NEW reason \in Words, Settles(k, reason)
  PROVE  Told'
PROOF
<1>s. Sized /\ Sized'  BY Sizes DEF TypeInv
<1>d. DOMAIN checks' = DOMAIN checks  BY <1>s DEF Settles, Sized
<1>a. \A d \in Calls : d = c  BY DEF OneCaller
<1>. SUFFICES ASSUME NEW l \in DOMAIN checks
              PROVE  /\ github'[l] \in Words => github'[l] = checks'[l].reason
                     /\ github'[l] = "reopened" => checks'[l].reason \in {"superseded", "cancelled"}
                     /\ ~ Open(l)' => github'[l] \notin {"none", "open"}
                     /\ github'[l] \in {"none", "open"} => checks'[l].posted
  BY <1>d DEF Told
<1>1. Follows(l) /\ checks'[l].posted = checks[l].posted  BY SettlesFollows
<1>2. \A d \in Calls : ~ (call[d].pc \in {"post", "posted"} /\ call[d].check = l)  BY <1>a
<1>3. /\ github'[l] \in Words => github'[l] = checks'[l].reason
      /\ github'[l] = "reopened" => checks'[l].reason \in {"superseded", "cancelled"}
      /\ ~ Open(l)' => github'[l] \notin {"none", "open"}
      /\ github'[l] \in {"none", "open"} => github[l] = github'[l]
  BY <1>d, <1>1, <1>2, ToldFollows
<1>4. github[l] \in {"none", "open"} => checks[l].posted  BY ToldAlone
<1>. QED  BY <1>1, <1>3, <1>4

LEMMA CreateCheckTold ==
  ASSUME Settled, Told, OneCaller, NEW c \in Calls, CreateCheck(c)
  PROVE  Told'
PROOF
<1>t. TypeInv /\ TypeInv'  BY CreateCheckTyped DEF Settled
<1>s. Sized /\ Sized'  BY <1>t, Sizes DEF TypeInv
<1>n. PICK n : n = Len(checks) + 1  OBVIOUS
<1>f. /\ call[c].pc = "create" /\ Len(checks') = n
      /\ \A k \in DOMAIN checks : checks'[k] = checks[k] /\ github'[k] = github[k]
      /\ checks'[n].st = "queued" /\ github'[n] = "none"
      /\ call'[c].pc = "post" /\ call'[c].check = n
  BY <1>t, <1>n, CreateCheckFacts
<1>d. DOMAIN checks' = DOMAIN checks \cup {n}  BY <1>s, <1>n, <1>f DEF Sized
<1>. SUFFICES ASSUME NEW k \in DOMAIN checks'
              PROVE  /\ github'[k] \in Words => github'[k] = checks'[k].reason
                     /\ github'[k] = "reopened" => checks'[k].reason \in {"superseded", "cancelled"}
                     /\ ~ Open(k)' => github'[k] \notin {"none", "open"}
                     /\ github'[k] \in {"none", "open"} =>
                          checks'[k].posted \/ (call'[c].pc \in {"post", "posted"} /\ call'[c].check = k)
  BY DEF Told
<1>1. CASE k = n  BY <1>f, <1>1 DEF Words, Open
<1>2. CASE k \in DOMAIN checks
  <2>1. github[k] \in {"none", "open"} => checks[k].posted  BY <1>f, <1>2, ToldAlone
  <2>2. /\ github[k] \in Words => github[k] = checks[k].reason
        /\ github[k] = "reopened" => checks[k].reason \in {"superseded", "cancelled"}
        /\ checks[k].st = "settled" => github[k] \notin {"none", "open"}
    BY <1>2 DEF Told, Open
  <2>. QED  BY <1>f, <1>2, <2>1, <2>2 DEF Open
<1>. QED  BY <1>d, <1>1, <1>2

LEMMA PostTold ==
  ASSUME Settled, Told, OneCaller, NEW c \in Calls, Post(c)
  PROVE  Told'
PROOF
<1>t. TypeInv /\ Handled(c)  BY DEF Settled
<1>k. PICK k \in DOMAIN checks : k = call[c].check  BY <1>t, PostFacts
<1>f. /\ UNCHANGED checks /\ call[c].pc = "post"
      /\ \A l \in DOMAIN checks : l # k => github'[l] = github[l]
      /\ \/ call'[c].pc = "posted" /\ call'[c].check = k /\ github'[k] = "open"
         \/ github'[k] = "unposted"
  BY <1>t, <1>k, PostFacts DEF Goes, Keeps
<1>o. Open(k)  BY <1>t, <1>k, <1>f, NewestKnown DEF Handled, Drafts, Making, Drafting
<1>. SUFFICES ASSUME NEW l \in DOMAIN checks
              PROVE  /\ github'[l] \in Words => github'[l] = checks[l].reason
                     /\ github'[l] = "reopened" => checks[l].reason \in {"superseded", "cancelled"}
                     /\ ~ Open(l) => github'[l] \notin {"none", "open"}
                     /\ github'[l] \in {"none", "open"} =>
                          checks[l].posted \/ (call'[c].pc \in {"post", "posted"} /\ call'[c].check = l)
  BY <1>f DEF Told, Open
<1>1. CASE l = k  BY <1>f, <1>o, <1>1 DEF Words
<1>2. CASE l # k
  <2>1. github[l] \in {"none", "open"} => checks[l].posted  BY <1>k, <1>2, ToldAlone
  <2>. QED  BY <1>f, <1>2, <2>1 DEF Told
<1>. QED  BY <1>1, <1>2

\* The rows of a call that notes GitHub's answer or names its job.
LEMMA ToldNoted ==
  ASSUME TypeInv, TypeInv', Told, OneCaller, NEW c \in Calls, NEW k \in DOMAIN checks,
         call[c].check = k, UNCHANGED github, Len(checks') = Len(checks),
         \A l \in DOMAIN checks : /\ checks'[l].reason = checks[l].reason
                                  /\ checks[l].posted => checks'[l].posted,
         call[c].pc \in {"post", "posted"} => checks'[k].posted
  PROVE  Told'
PROOF
<1>s. Sized /\ Sized'  BY Sizes DEF TypeInv
<1>d. DOMAIN checks' = DOMAIN checks  BY <1>s DEF Sized
<1>. SUFFICES ASSUME NEW l \in DOMAIN checks
              PROVE  /\ github[l] \in Words => github[l] = checks'[l].reason
                     /\ github[l] = "reopened" => checks'[l].reason \in {"superseded", "cancelled"}
                     /\ ~ Open(l)' => github[l] \notin {"none", "open"}
                     /\ github[l] \in {"none", "open"} => checks'[l].posted
  BY <1>d DEF Told
<1>1. Open(l)' <=> Open(l)  BY <1>d DEF TypeInv, Points, RowPoints
<1>2. github[l] \in {"none", "open"} => checks'[l].posted
  <2>1. CASE call[c].pc \in {"post", "posted"} /\ l = k  BY <2>1
  <2>2. CASE ~ (call[c].pc \in {"post", "posted"} /\ l = k)  BY <2>2, ToldAlone
  <2>. QED  BY <2>1, <2>2
<1>. QED  BY <1>1, <1>2 DEF Told

LEMMA CallTold ==
  ASSUME Settled, Told, Late, OneCaller, NEW c \in Calls, Receive(c) \/ Handle(c)
  PROVE  Told'
PROOF
<1>t. TypeInv /\ Handled(c)  BY DEF Settled
<1>1. CASE Receive(c)
  <2>1. UNCHANGED <<checks, github>> /\ call[c].pc = "idle"  BY <1>t, <1>1, ReceiveFacts
  <2>. QED  BY <2>1, ToldStands
<1>2. CASE ReadStored(c)
  <2>1. UNCHANGED <<checks, github>> /\ call[c].pc = "stored"  BY <1>t, <1>2, ReadStoredFacts
  <2>. QED  BY <2>1, ToldStands
<1>3. CASE ReadActive(c)
  <2>1. UNCHANGED <<checks, github>> /\ call[c].pc = "active"  BY <1>t, <1>3, ReadActiveFacts
  <2>. QED  BY <2>1, ToldStands
<1>4. CASE SettleActive(c)
  <2>1. PICK k \in DOMAIN checks, reason \in Words : k = call[c].check /\ reason = Reason(c)
    BY <1>t, <1>4, SettleActiveFacts DEF Reason, Words
  <2>2. call[c].pc = "settle" /\ Settles(k, reason)  BY <1>t, <1>4, <2>1, SettleActiveFacts
  <2>. QED  BY <1>t, <1>4, <2>2, SettleActiveTyped, ToldSettles
<1>5. CASE StopJob(c)
  <2>1. UNCHANGED <<checks, github>> /\ call[c].pc = "job"  BY <1>t, <1>5, StopJobFacts
  <2>. QED  BY <2>1, ToldStands
<1>6. CASE Unwound(c)
  <2>1. UNCHANGED <<checks, github>> /\ call[c].pc = "wait"  BY <1>t, <1>6, UnwoundFacts
  <2>. QED  BY <2>1, ToldStands
<1>7. CASE Outlast(c)
  <2>1. UNCHANGED <<checks, github>> /\ call[c].pc = "wait"  BY <1>t, <1>7, OutlastFacts
  <2>. QED  BY <2>1, ToldStands
<1>8. CASE RememberPost(c)
  <2>k. PICK k \in DOMAIN checks : k = call[c].check  BY <1>t, <1>8, RememberPostFacts
  <2>r. PICK job : job = checks[k].job  OBVIOUS
  <2>1. /\ UNCHANGED github /\ call[c].pc = "posted"
        /\ Rewrites(k, checks[k].st, job, TRUE) \/ ~ Open(k)
    BY <1>t, <1>8, <2>k, <2>r, RememberPostFacts
  <2>2. Open(k)  BY <1>t, <2>k, <2>1, NewestKnown DEF Handled, Drafts, Making, Drafting
  <2>3. ASSUME NEW l \in DOMAIN checks
        PROVE  checks'[l].reason = checks[l].reason /\ (checks[l].posted => checks'[l].posted)
    <3>1. CASE l = k  BY <2>1, <2>2, <3>1 DEF Rewrites
    <3>2. CASE l # k  BY <2>1, <2>2, <3>2 DEF Rewrites
    <3>. QED  BY <3>1, <3>2
  <2>4. Len(checks') = Len(checks) /\ checks'[k].posted  BY <2>1, <2>2 DEF Rewrites
  <2>. QED  BY <1>t, <1>8, <2>k, <2>1, <2>3, <2>4, RememberPostTyped, ToldNoted
<1>9. CASE EnqueueCheck(c)
  <2>1. UNCHANGED <<checks, github>> /\ call[c].pc = "enqueue"  BY <1>t, <1>9, EnqueueCheckFacts
  <2>. QED  BY <2>1, ToldStands
<1>10. CASE SettleNew(c)
  <2>1. PICK k \in DOMAIN checks, reason \in Words :
          k = call[c].check /\ reason = IF call[c].pc = "draft" THEN "draft" ELSE "cancelled"
    BY <1>t, <1>10, SettleNewFacts DEF Words
  <2>2. call[c].pc \in {"draft", "busy"} /\ Settles(k, reason)  BY <1>t, <1>10, <2>1, SettleNewFacts
  <2>. QED  BY <1>t, <1>10, <2>2, SettleNewTyped, ToldSettles
<1>11. CASE NameJob(c)
  <2>k. PICK k \in DOMAIN checks : k = call[c].check  BY <1>t, <1>11, NameJobFacts
  <2>r. PICK job : job = call[c].job  OBVIOUS
  <2>1. /\ UNCHANGED github /\ call[c].pc = "name"
        /\ Rewrites(k, checks[k].st, job, checks[k].posted) \/ UNCHANGED checks
    BY <1>t, <1>11, <2>k, <2>r, NameJobFacts
  <2>3. ASSUME NEW l \in DOMAIN checks
        PROVE  checks'[l].reason = checks[l].reason /\ (checks[l].posted => checks'[l].posted)
    <3>1. CASE l = k  BY <2>1, <3>1 DEF Rewrites
    <3>2. CASE l # k  BY <2>1, <3>2 DEF Rewrites
    <3>. QED  BY <3>1, <3>2
  <2>4. Len(checks') = Len(checks)  BY <2>1 DEF Rewrites
  <2>. QED  BY <1>t, <1>11, <2>k, <2>1, <2>3, <2>4, NameJobTyped, ToldNoted
<1>. QED
  BY <1>1, <1>2, <1>3, <1>4, <1>5, <1>6, <1>7, <1>8, <1>9, <1>10, <1>11,
     CreateCheckTold, PostTold DEF Handle

\* One event at a time, GitHub follows the row.  A word GitHub shows is the row's own, for
\* a settled row keeps its reason; and a settled row is not left open at GitHub but by a
\* refusal or by a link's late update: the attempt whose check no row knows yet has no job,
\* so nobody but its own call can settle it, and that call notes it first.
THEOREM GitHubIsTold == ASSUME OneCaller PROVE Spec => []GitHubFollows
PROOF
<1>1. Init => Settled /\ Told /\ Late
  <2>1. ASSUME Init PROVE DOMAIN checks = {} /\ lane.pc = "free"  BY <2>1 DEF Init, NoJob
  <2>. QED  BY <2>1, InitSettled DEF Told, Late
<1>2. Settled /\ Told /\ Late /\ [Next]_vars => (Settled /\ Told /\ Late)'
  <2>1. ASSUME Settled, Told, Late, [Next]_vars PROVE (Settled /\ Told /\ Late)'
    <3>1. Settled'  BY <2>1, StepSettled
    <3>2. CASE Run  BY <2>1, <3>1, <3>2, RunTold
    <3>3. CASE \E c \in Calls : Receive(c) \/ Handle(c)  BY <2>1, <3>1, <3>3, CallTold, CallLate
    <3>4. CASE UNCHANGED vars  BY <2>1, <3>1, <3>4 DEF vars, Told, Late, Open, Mine
    <3>. QED  BY <2>1, <3>2, <3>3, <3>4 DEF Next
  <2>. QED  BY <2>1
<1>3. Settled /\ Told => GitHubFollows
  <2>1. ASSUME Settled, Told PROVE GitHubFollows
    <3>1. \A k \in DOMAIN checks : github[k] \in Showing  BY <2>1, JobsTyped DEF Settled, TypeInv
    <3>. QED  BY <2>1, <3>1 DEF GitHubFollows, Told, Showing
  <2>. QED  BY <2>1
<1>4. Spec => [](Settled /\ Told /\ Late)  BY <1>1, <1>2, PTL DEF Spec
<1>. QED  BY <1>3, <1>4, PTL
===============================================================================
