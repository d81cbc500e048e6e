------------------------------- MODULE AgentLoop -------------------------------
(***************************************************************************)
(* One agent session: the policy shell (agent-loop/agent-loop.ts) above the *)
(* turn loop of the API driver (llm-api/session-driver.ts).                 *)
(*                                                                         *)
(* The shell counts turns, grants, the wrap-up window and malformed turns   *)
(* from the driver's events, interrupts the driver, and judges what a run   *)
(* of it returned: one retry, one precondition refusal, bounded repairs.    *)
(* An event is handled in the step that emits it; between two awaits        *)
(* nothing else happens.                                                   *)
(***************************************************************************)
EXTENDS Naturals

CONSTANTS
  Turns,          \* the turns of a grant
  MaxResumes,     \* the automatic grants
  Repairs,        \* outcomeSchemaRepairs
  DraftAfter,     \* the turn of the draft checkpoint
  Tries,          \* the calls a turn may take, over the models configured
  Clock,          \* whether the turn clock is set
  Faults          \* "context", "transient", "blocked", "final", "stall", "abort"

WRAP_UP_TURNS == 3
AllFaults == {"context", "transient", "blocked", "final", "stall", "abort"}
\* `wrapUpTurnsLeft` undefined.
SHUT == WRAP_UP_TURNS + 1
\* The turns no session goes beyond, and the most refusals of an outcome.
Limit == Turns * (MaxResumes + 1) + WRAP_UP_TURNS

ASSUME LoopAssumption ==
  /\ Turns \in Nat \ {0} /\ MaxResumes \in Nat /\ Repairs \in Nat /\ DraftAfter \in Nat
  /\ Tries \in Nat \ {0}
  /\ Clock \in BOOLEAN /\ Faults \subseteq AllFaults
  /\ "stall" \in Faults => Clock

VARIABLES
  turns, turnsThisGrant, grantsUsed,  \* the budget
  wrapUp,       \* the turns left of the wrap-up window, SHUT before the demand
  prevTurnMalformed, currentTurnMalformed,
  met,          \* whether the required tool has run
  draft,        \* the draft checkpoint: "due", "fired" or "met"
  cause,        \* why the shell stopped the session
  stage,        \* how far the shell has come with what runs returned
  repairs, refusals,
  driver,       \* where the driver's run is
  interrupted,  \* told to stop after its turn
  tries,        \* the calls of the turn in hand that were made
  steers,       \* what its handle was told and it has not read
  saw,          \* the outcome of the turn in hand
  result,       \* what the run returned
  status,       \* of the session
  failure,      \* the one it is recorded with
  asked,        \* history: heard, since its last budget bound, to deliver
  accepted      \* history: the validator's last word

budget == <<turns, turnsThisGrant, grantsUsed, wrapUp>>
streak == <<prevTurnMalformed, currentTurnMalformed>>
judged == <<stage, repairs, refusals>>
ended == <<status, failure>>
vars == <<turns, turnsThisGrant, grantsUsed, wrapUp, prevTurnMalformed, currentTurnMalformed,
          met, draft, cause, stage, repairs, refusals, driver, interrupted, tries, steers,
          saw, result, status, failure, asked, accepted>>

Live == status = "running"

Init ==
  /\ turns = 0 /\ turnsThisGrant = 0 /\ grantsUsed = 0 /\ wrapUp = SHUT
  /\ prevTurnMalformed = FALSE /\ currentTurnMalformed = FALSE
  \* A resumed session carries the transcript of the one before.
  /\ met \in BOOLEAN /\ draft \in {"due", "met"}
  /\ cause = "none" /\ stage = "first" /\ repairs = 0 /\ refusals = 0
  /\ driver = "top" /\ interrupted = FALSE /\ tries = 0 /\ steers = {} /\ saw = "none"
  /\ result = "none" /\ status = "running" /\ failure = "none"
  /\ asked = FALSE /\ accepted = FALSE

-------------------------------------------------------------------------------
(* The driver's turn loop *)

Return(r) == driver' = "done" /\ result' = r

\* The top of the loop: a run told to stop ends here, another reads what it was told.
EndInterrupted ==
  /\ driver = "top" /\ (interrupted \/ cause = "aborted")
  /\ Return("no_outcome")
  /\ UNCHANGED <<budget, streak, met, draft, cause, judged, interrupted, tries, steers, saw, ended, asked, accepted>>

BeginTurn ==
  /\ driver = "top" /\ ~interrupted /\ cause # "aborted"
  /\ driver' = "call" /\ tries' = 1 /\ saw' = "none"
  /\ asked' = (asked \/ "demand" \in steers) /\ steers' = {}
  /\ UNCHANGED <<budget, streak, met, draft, cause, judged, interrupted, result, ended, accepted>>

\* The bound of a grant, of the last grant, and of the wrap-up window.
Granted == turnsThisGrant + 1 >= Turns /\ grantsUsed < MaxResumes
Bound == turnsThisGrant + 1 >= Turns /\ grantsUsed = MaxResumes
\* Mutant of Spent: the window is closed one turn late.
SpentLate == Bound /\ wrapUp <= 0
\* Mutant of Spent: the last bound stops the session, without the window.
SpentAtOnce == Bound
Spent == Bound /\ wrapUp <= 1
\* What `track` does with an assistant turn, `over` saying that its context had
\* reached the ceiling.  The steers are the grant, the demand and the nudge.
CountTurn(over) ==
  /\ turns' = turns + 1
  /\ prevTurnMalformed' = currentTurnMalformed /\ currentTurnMalformed' = FALSE
  /\ grantsUsed' = IF ~over /\ Granted THEN grantsUsed + 1 ELSE grantsUsed
  /\ turnsThisGrant' = IF ~over /\ Granted THEN 0 ELSE turnsThisGrant + 1
  /\ wrapUp' = IF over \/ ~Bound THEN wrapUp ELSE wrapUp - 1
  /\ cause' = IF over THEN "context" ELSE IF Spent THEN "budget" ELSE cause
  /\ interrupted' = (interrupted \/ over \/ Spent)
  /\ draft' = IF draft = "due" /\ turns + 1 >= DraftAfter /\ cause' = "none" /\ wrapUp' = SHUT
              THEN "fired" ELSE draft
  /\ steers' = steers \cup (IF ~over /\ Granted THEN {"grant"} ELSE {})
                      \cup (IF ~over /\ Bound /\ wrapUp = SHUT THEN {"demand"} ELSE {})
                      \cup (IF draft' # draft THEN {"nudge"} ELSE {})

\* The model answers.
Turn(over) ==
  /\ driver = "call" /\ (over => "context" \in Faults)
  /\ CountTurn(over) /\ driver' = "reply"
  /\ UNCHANGED <<met, judged, tries, saw, result, ended, asked, accepted>>

\* The provider floods the turn with nothing: it counts, and the run ends on it.
DegenerateTurn ==
  /\ driver = "call" /\ "final" \in Faults
  /\ CountTurn(FALSE) /\ Return("final")
  /\ UNCHANGED <<met, judged, tries, saw, ended, asked, accepted>>

\* A call that failed transiently is made again, on the next model at last,
\* unless the session was stopped meanwhile: no turn, but the clocks start over.
CallAgain ==
  /\ driver = "call" /\ "transient" \in Faults /\ tries < Tries /\ cause # "aborted"
  /\ tries' = tries + 1
  /\ UNCHANGED <<budget, streak, met, draft, cause, judged, driver, interrupted, steers, saw, result, ended, asked, accepted>>

\* The call fails for good; an aborted call fails too.
CallFails(f) ==
  /\ driver = "call"
  /\ cause = "aborted" \/ (f \in Faults /\ (f = "transient" => tries = Tries))
  /\ Return(f)
  /\ UNCHANGED <<budget, streak, met, draft, cause, judged, interrupted, tries, steers, saw, ended, asked, accepted>>

\* An invalid call or a reply cut off at the output limit: re-asked, and the
\* turn is malformed.
ReAsk ==
  /\ driver = "reply" /\ ~currentTurnMalformed
  /\ currentTurnMalformed' = TRUE
  /\ cause' = IF prevTurnMalformed THEN "malformed" ELSE cause
  /\ interrupted' = (interrupted \/ prevTurnMalformed)
  /\ UNCHANGED <<budget, prevTurnMalformed, met, draft, judged, driver, tries, steers, saw, result, ended, asked, accepted>>

\* A tool answers: the required one, or the one the draft is written with.
ToolResult ==
  /\ driver = "reply"
  /\ \/ met' = TRUE /\ UNCHANGED draft
     \/ draft' = "met" /\ UNCHANGED met
  /\ UNCHANGED <<budget, streak, cause, judged, driver, interrupted, tries, steers, saw, result, ended, asked, accepted>>

OutcomeCall(value) ==
  /\ driver = "reply" /\ saw' = value
  /\ UNCHANGED <<budget, streak, met, draft, cause, judged, driver, interrupted, tries, steers, result, ended, asked, accepted>>

\* The turn's calls are answered: an outcome ends the run, interrupted or not.
EndTurn ==
  /\ driver = "reply"
  /\ IF saw = "none" THEN driver' = "top" /\ UNCHANGED result ELSE Return(saw)
  /\ UNCHANGED <<budget, streak, met, draft, cause, judged, interrupted, tries, steers, saw, ended, asked, accepted>>

-------------------------------------------------------------------------------
(* Stops from outside *)

Stop ==
  /\ cause' = "aborted" /\ interrupted' = TRUE
  /\ UNCHANGED <<budget, streak, met, draft, judged, driver, tries, steers, saw, result, ended, asked, accepted>>

\* The caller's abort; the stall clock and the ceiling are this abort too, under
\* a name of their own.
Abort == "abort" \in Faults /\ Live /\ cause # "aborted" /\ Stop

\* Mutant of ClockFires: the clock is armed for the first run only.
ClockFiresOnce == Clock /\ Live /\ driver = "call" /\ cause # "aborted" /\ stage = "first" /\ Stop
\* The turn clock runs while the model, and no tool, holds the session.
ClockFires == Clock /\ Live /\ driver = "call" /\ cause # "aborted" /\ Stop

-------------------------------------------------------------------------------
(* What the shell makes of a run's result *)

IsOutcome == result \in {"good", "bad"}

\* A further run, opened with a message; its handle knows no steer of the last one's.
RunAgain(next, message) ==
  /\ stage' = next /\ driver' = "top" /\ interrupted' = FALSE /\ steers' = {} /\ saw' = "none"
  /\ result' = "none" /\ asked' = (asked \/ (message /\ wrapUp # SHUT))

Fail(f) ==
  /\ failure' = f /\ status' = IF f = "blocked" THEN "parked" ELSE "failed"
  /\ driver' = "none"
  /\ UNCHANGED <<budget, streak, met, draft, cause, judged, interrupted, tries, steers, saw, result, asked, accepted>>

\* One retry of a transient failure, unless the shell stopped the session.
Retries == stage = "first" /\ result = "transient" /\ cause = "none"
Retry ==
  /\ driver = "done" /\ Retries /\ RunAgain("retried", FALSE)
  /\ UNCHANGED <<budget, streak, met, draft, cause, tries, repairs, refusals, ended, accepted>>

\* An outcome before the required tool has run is refused, once.
Refuses == stage \in {"first", "retried"} /\ IsOutcome /\ ~met /\ cause = "none"
RefuseOutcome ==
  /\ driver = "done" /\ Refuses /\ RunAgain("asked", TRUE)
  /\ UNCHANGED <<budget, streak, met, draft, cause, tries, repairs, refusals, ended, accepted>>

\* Mutant of Correct: only the budget's own end keeps a correction from going back.
CorrectAnyway(n) ==
  IF cause = "budget" \/ refusals >= Limit THEN Fail("budget")
  ELSE /\ RunAgain("repairing", TRUE)
       /\ repairs' = n /\ refusals' = refusals + 1
       /\ UNCHANGED <<budget, streak, met, draft, cause, tries, ended, accepted>>
\* The correction goes back, unless the session is to stop or has been refused
\* more often than it has turns.
Correct(n) ==
  IF cause # "none" \/ refusals >= Limit
  THEN Fail(IF cause \in {"context", "aborted"} THEN cause ELSE "budget")
  ELSE /\ RunAgain("repairing", TRUE)
       /\ repairs' = n /\ refusals' = refusals + 1
       /\ UNCHANGED <<budget, streak, met, draft, cause, tries, ended, accepted>>

Judging == driver = "done" /\ ~Retries /\ ~Refuses

\* Mutant of JudgeBad: one repair more than the definition allows.
JudgeBadOneMore ==
  /\ Judging /\ result = "bad"
  /\ IF repairs <= Repairs THEN Correct(repairs + 1) ELSE Fail("schema")
\* What the schema rejects is repaired while repairs are left, or fails.
JudgeBad ==
  /\ Judging /\ result = "bad"
  /\ IF repairs < Repairs THEN Correct(repairs + 1) ELSE Fail("schema")

\* Mutant of JudgeGood: a session that is to stop is not validated any more.
JudgeGoodUnlessStopped ==
  /\ Judging /\ result = "good"
  /\ driver' = IF cause = "none" THEN "validating" ELSE "accepted"
  /\ UNCHANGED <<budget, streak, met, draft, cause, judged, interrupted, tries, steers, saw, result, ended, asked, accepted>>
\* What it accepts is put to the validator, wrap-up or not.
JudgeGood ==
  /\ Judging /\ result = "good" /\ driver' = "validating"
  /\ UNCHANGED <<budget, streak, met, draft, cause, judged, interrupted, tries, steers, saw, result, ended, asked, accepted>>

\* The validator is awaited; it accepts, corrects or breaks.
ValidatorRefuses == driver = "validating" /\ Correct(repairs)
ValidatorBreaks == driver = "validating" /\ Fail("validator")
ValidatorAccepts ==
  /\ driver = "validating" /\ driver' = "accepted" /\ accepted' = TRUE
  /\ UNCHANGED <<budget, streak, met, draft, cause, judged, interrupted, tries, steers, saw, result, ended, asked>>

Complete ==
  /\ driver = "accepted" /\ driver' = "none" /\ status' = "completed"
  /\ UNCHANGED <<budget, streak, met, draft, cause, judged, interrupted, tries, steers, saw, result, failure, asked, accepted>>

\* A failed run is recorded as what stopped it, else as what it says.
FailRun == Judging /\ ~IsOutcome /\ Fail(IF cause = "none" THEN result ELSE cause)

Answers ==
  \/ EndInterrupted \/ BeginTurn \/ EndTurn
  \/ Retry \/ RefuseOutcome \/ JudgeBad \/ JudgeGood \/ FailRun \/ Complete
  \/ ValidatorRefuses \/ ValidatorBreaks \/ ValidatorAccepts
Called ==
  \/ \E over \in BOOLEAN : Turn(over)
  \/ DegenerateTurn \/ CallAgain
  \/ \E f \in {"transient", "blocked", "final"} : CallFails(f)
\* An aborted call to the model.
Aborted == cause = "aborted" /\ Called

Next ==
  \/ Answers \/ Called \/ ReAsk \/ ToolResult \/ Abort \/ ClockFires
  \/ \E value \in {"good", "bad"} : OutcomeCall(value)

Spec == Init /\ [][Next]_vars

\* Tools, validators and the loop answer; a call to the model answers too, but
\* where the provider may stall.  Then its clock fires, and the abort is heard.
FairSpec ==
  /\ Spec /\ WF_vars(Answers)
  /\ ("stall" \notin Faults => WF_vars(Called))
  /\ WF_vars(ClockFires) /\ WF_vars(Aborted)

-------------------------------------------------------------------------------
(* Properties *)

TypeOK ==
  /\ turns \in Nat /\ turnsThisGrant \in Nat /\ grantsUsed \in 0 .. MaxResumes
  /\ wrapUp \in 0 .. SHUT
  /\ prevTurnMalformed \in BOOLEAN /\ currentTurnMalformed \in BOOLEAN /\ met \in BOOLEAN
  /\ draft \in {"due", "fired", "met"} /\ steers \subseteq {"grant", "demand", "nudge"}
  /\ cause \in {"none", "context", "budget", "malformed", "aborted"}
  /\ stage \in {"first", "retried", "asked", "repairing"} /\ repairs \in 0 .. Repairs
  /\ driver \in {"top", "call", "reply", "done", "validating", "accepted", "none"}
  /\ (driver = "none") <=> ~Live
  /\ status \in {"running", "completed", "failed", "parked"}
  /\ (failure # "none") <=> status \in {"failed", "parked"}

\* The hard limit of agent-loop.ts holds over every grant, retry, refusal and
\* repair, and over the turn in flight when the session is stopped.
HardLimit == turns <= Limit

\* A session is only completed by an outcome the validator accepted last, and
\* before the required tool ran only when it was refused once or is to stop.
CompletedIsEarned ==
  status = "completed" => accepted /\ (met \/ stage \in {"asked", "repairing"} \/ cause # "none")

\* A session is only cut for its budget after it heard, since that bound, that
\* its outcome is wanted: by the demand, or by the refusal of what it had.
CutAfterDemand == cause = "budget" => asked

\* Once the shell has decided to stop a session no call to the model begins: not
\* in the run it interrupted, nor in a further one, whose handle was never told.
StopIsFinal == [][cause # "none" /\ driver # "call" => driver' # "call"]_vars

\* Every session ends, whatever its model, its provider and its validator do.
SessionEnds == <>(~Live)
===============================================================================
