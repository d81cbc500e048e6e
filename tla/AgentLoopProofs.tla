---------------------------- MODULE AgentLoopProofs ----------------------------
(***************************************************************************)
(* Theorems about AgentLoop, for every budget, repair count and fault.      *)
(*                                                                         *)
(* The turns so far and what the grants and the wrap-up window still allow  *)
(* add up to the hard limit, in whatever run of the session; and the window *)
(* is never open without its demand on the way to the model.                *)
(***************************************************************************)
EXTENDS AgentLoop, TLAPS

\* The values of the variables TypeOK says nothing of.
Values ==
  /\ TypeOK
  /\ interrupted \in BOOLEAN /\ asked \in BOOLEAN /\ accepted \in BOOLEAN
  /\ tries \in Nat /\ refusals \in Nat /\ saw \in {"none", "good", "bad"}
  /\ result \in {"none", "good", "bad", "no_outcome", "transient", "blocked", "final"}

\* A run is on while it has returned nothing; the driver is told what the shell decided.
Flow ==
  /\ result = "none" <=> driver \in {"top", "call", "reply"}
  /\ interrupted <=> cause # "none"

\* What the grants left and the window still allow.
Spare ==
  Turns * (MaxResumes - grantsUsed) +
    (IF wrapUp = SHUT THEN Turns - turnsThisGrant + WRAP_UP_TURNS ELSE wrapUp)

\* While a turn may come, there is a turn to spare within the limit.
Room ==
  /\ turns <= Limit
  /\ cause = "none" \/ driver = "call" =>
       /\ turns + Spare <= Limit /\ wrapUp >= 1
       /\ wrapUp = SHUT => turnsThisGrant < Turns
       /\ wrapUp < SHUT => grantsUsed = MaxResumes /\ turnsThisGrant >= Turns

\* Once the window is open the demand was heard or waits to be, and a run that
\* ended before it was read is followed by a message of the shell.
Demanded ==
  /\ cause = "budget" => asked
  /\ wrapUp # SHUT => asked \/ ("demand" \in steers /\ driver # "call" /\ result # "transient")

\* What stands behind an outcome on its way to completion.
Earned ==
  /\ driver = "accepted" \/ status = "completed" => accepted
  /\ driver \in {"validating", "accepted"} \/ status = "completed" =>
       met \/ stage \in {"asked", "repairing"} \/ cause # "none"

Inv == Values /\ Flow /\ Room /\ Demanded /\ Earned

-------------------------------------------------------------------------------
LEMMA Times ==
  ASSUME NEW m \in Nat, NEW n \in Nat
  PROVE  m * n \in Nat /\ m * (n + 1) = m * n + m
  OBVIOUS

LEMMA LimitIsNatural == Limit \in Nat /\ Limit = Turns * MaxResumes + Turns + WRAP_UP_TURNS
  BY LoopAssumption, Times DEF Limit, WRAP_UP_TURNS

LEMMA InitInv == Init => Inv
  <1>. SUFFICES ASSUME Init PROVE Inv
    OBVIOUS
  <1>. USE LoopAssumption DEF Init
  <1>1. Values
    <2>1. prevTurnMalformed \in BOOLEAN /\ currentTurnMalformed \in BOOLEAN /\ met \in BOOLEAN
      BY Zenon
    <2>2. interrupted \in BOOLEAN /\ asked \in BOOLEAN /\ accepted \in BOOLEAN
      BY Zenon
    <2>. QED BY <2>1, <2>2 DEF Values, TypeOK, Live, SHUT, WRAP_UP_TURNS
  <1>2. Flow
    BY DEF Flow
  <1>3. Room
    BY LimitIsNatural DEF Room, Spare, SHUT, WRAP_UP_TURNS
  <1>4. Demanded /\ Earned
    BY DEF Demanded, Earned
  <1>. QED BY <1>1, <1>2, <1>3, <1>4 DEF Inv

-------------------------------------------------------------------------------
\* An assistant turn: it takes one of the turns to spare, or opens a grant or the window.
LEMMA CountTurnRoom ==
  ASSUME Values, Room, driver = "call", driver' # "call",
         NEW over \in BOOLEAN, CountTurn(over)
  PROVE  /\ turns' \in Nat /\ turnsThisGrant' \in Nat /\ grantsUsed' \in 0 .. MaxResumes
         /\ wrapUp' \in 0 .. SHUT /\ Room'
  <1>. USE LoopAssumption DEF Values, TypeOK, SHUT, WRAP_UP_TURNS
  <1>. DEFINE left == MaxResumes - grantsUsed
  <1>1. left \in Nat /\ Turns * left \in Nat
    BY Times
  <1>2. /\ turns' = turns + 1 /\ turns + Spare <= Limit /\ wrapUp >= 1 /\ Limit \in Nat
        /\ wrapUp = SHUT => turnsThisGrant < Turns
        /\ wrapUp < SHUT => grantsUsed = MaxResumes /\ turnsThisGrant >= Turns
    BY LimitIsNatural DEF Room, CountTurn
  <1>3. CASE over
    <2>1. /\ turnsThisGrant' = turnsThisGrant + 1 /\ grantsUsed' = grantsUsed
          /\ wrapUp' = wrapUp /\ cause' = "context"
      BY <1>3 DEF CountTurn
    <2>. QED BY <1>1, <1>2, <2>1 DEF Room, Spare
  <1>4. CASE ~over /\ Granted
    <2>1. /\ turnsThisGrant' = 0 /\ grantsUsed' = grantsUsed + 1 /\ wrapUp' = wrapUp
      BY <1>4 DEF CountTurn, Granted, Bound
    <2>2. wrapUp = SHUT /\ turnsThisGrant + 1 = Turns
      BY <1>2, <1>4 DEF Granted
    <2>3. MaxResumes - grantsUsed' \in Nat /\ left = (MaxResumes - grantsUsed') + 1
      BY <1>4, <2>1 DEF Granted
    <2>4. Turns * left = Turns * (MaxResumes - grantsUsed') + Turns
      BY <2>3, Times
    <2>5. Turns * (MaxResumes - grantsUsed') \in Nat
      BY <2>3, Times
    <2>6. Spare = Turns * left + 1 + WRAP_UP_TURNS
      BY <1>1, <2>2 DEF Spare
    <2>7. Spare' = Turns * (MaxResumes - grantsUsed') + Turns + WRAP_UP_TURNS
      BY <2>1, <2>2, <2>5 DEF Spare
    <2>8. turns' + Spare' <= Limit /\ turns' <= Limit
      BY <1>2, <2>4, <2>5, <2>6, <2>7
    <2>. QED BY <1>2, <2>1, <2>2, <2>3, <2>8, <1>4 DEF Room, Granted
  <1>5. CASE ~over /\ Bound
    <2>1. /\ turnsThisGrant' = turnsThisGrant + 1 /\ grantsUsed' = grantsUsed
          /\ wrapUp' = wrapUp - 1 /\ grantsUsed = MaxResumes
          /\ wrapUp <= 1 => cause' = "budget"
      BY <1>5 DEF CountTurn, Granted, Bound, Spent
    <2>2. Turns * left = 0
      BY <2>1
    <2>3. Spare' = IF wrapUp' = SHUT THEN Turns - turnsThisGrant' + WRAP_UP_TURNS ELSE wrapUp'
      BY <2>1, <2>2 DEF Spare
    <2>. QED BY <1>2, <1>5, <2>1, <2>2, <2>3 DEF Room, Spare, Bound
  <1>6. CASE ~over /\ ~Granted /\ ~Bound
    <2>1. /\ turnsThisGrant' = turnsThisGrant + 1 /\ grantsUsed' = grantsUsed
          /\ wrapUp' = wrapUp /\ turnsThisGrant + 1 < Turns
      BY <1>6 DEF CountTurn, Granted, Bound
    <2>. QED BY <1>1, <1>2, <2>1 DEF Room, Spare
  <1>. QED BY <1>3, <1>4, <1>5, <1>6

\* What an assistant turn leaves of the demand, and of the rest.
LEMMA CountTurnRest ==
  ASSUME Inv, driver = "call", NEW over \in BOOLEAN, CountTurn(over),
         driver' \in {"reply", "done"}, result' # "transient", UNCHANGED <<asked, status, accepted>>
  PROVE  /\ prevTurnMalformed' \in BOOLEAN /\ currentTurnMalformed' \in BOOLEAN
         /\ draft' \in {"due", "fired", "met"} /\ steers' \subseteq {"grant", "demand", "nudge"}
         /\ cause' \in {"none", "context", "budget", "malformed", "aborted"}
         /\ interrupted' \in BOOLEAN /\ (interrupted' <=> cause' # "none")
         /\ Demanded' /\ Earned'
  <1>. USE DEF Inv, CountTurn
  <1>1. /\ prevTurnMalformed' \in BOOLEAN /\ currentTurnMalformed' \in BOOLEAN
        /\ draft' \in {"due", "fired", "met"} /\ steers' \subseteq {"grant", "demand", "nudge"}
        /\ cause' \in {"none", "context", "budget", "malformed", "aborted"}
    BY DEF Values, TypeOK
  <1>2. interrupted' \in BOOLEAN /\ (interrupted' <=> cause' # "none")
    BY DEF Values, Flow
  <1>3. wrapUp # SHUT => asked
    BY DEF Demanded
  <1>4. wrapUp' # SHUT => wrapUp # SHUT \/ "demand" \in steers'
    BY DEF Bound
  <1>5. cause' = "budget" => cause = "budget" \/ wrapUp # SHUT
    BY DEF Spent, SHUT, WRAP_UP_TURNS
  <1>6. Demanded'
    BY <1>3, <1>4, <1>5 DEF Demanded
  <1>7. Earned'
    BY DEF Earned, Values, TypeOK, Live
  <1>. QED BY <1>1, <1>2, <1>6, <1>7

-------------------------------------------------------------------------------
\* Nothing but a turn touches the budget, and no step but a turn's begins one.
LEMMA RoomStays ==
  ASSUME Room, UNCHANGED budget, cause' = "none" \/ driver' = "call" => cause = "none" \/ driver = "call"
  PROVE  Room'
  BY DEF Room, Spare, budget

\* The driver's own steps.
LEMMA DriverInv ==
  ASSUME Inv, EndInterrupted \/ BeginTurn \/ CallAgain \/ ReAsk \/ ToolResult \/ EndTurn
              \/ (\E f \in {"transient", "blocked", "final"} : CallFails(f))
              \/ (\E value \in {"good", "bad"} : OutcomeCall(value))
  PROVE  Inv'
  <1>. USE DEF Inv, Return, streak, judged, ended
  <1>1. CASE EndInterrupted
    <2>1. Values' BY <1>1 DEF EndInterrupted, budget, Values, TypeOK, Live
    <2>2. Flow' BY <1>1 DEF EndInterrupted, Flow
    <2>3. Room' BY <1>1, RoomStays DEF EndInterrupted
    <2>4. Demanded' /\ Earned' BY <1>1 DEF EndInterrupted, budget, Demanded, Earned, Values, TypeOK, Live
    <2>. QED BY <2>1, <2>2, <2>3, <2>4
  <1>2. CASE BeginTurn
    <2>1. Values' BY <1>2 DEF BeginTurn, budget, Values, TypeOK, Live
    <2>2. Flow' BY <1>2 DEF BeginTurn, Flow
    <2>3. Room' BY <1>2, RoomStays DEF BeginTurn, Flow
    <2>4. Demanded' /\ Earned' BY <1>2 DEF BeginTurn, budget, Demanded, Earned, Values, TypeOK, Live
    <2>. QED BY <2>1, <2>2, <2>3, <2>4
  <1>3. CASE CallAgain
    <2>1. Values' BY <1>3 DEF CallAgain, budget, Values, TypeOK, Live
    <2>2. Flow' BY <1>3 DEF CallAgain, Flow
    <2>3. Room' BY <1>3, RoomStays DEF CallAgain
    <2>4. Demanded' /\ Earned' BY <1>3 DEF CallAgain, budget, Demanded, Earned
    <2>. QED BY <2>1, <2>2, <2>3, <2>4
  <1>4. CASE ReAsk
    <2>1. Values' BY <1>4 DEF ReAsk, budget, Values, TypeOK, Live
    <2>2. Flow' BY <1>4 DEF ReAsk, Flow, Values, TypeOK
    <2>3. Room' BY <1>4, RoomStays DEF ReAsk
    <2>4. Demanded' /\ Earned' BY <1>4 DEF ReAsk, budget, Demanded, Earned, Values, TypeOK, Live
    <2>. QED BY <2>1, <2>2, <2>3, <2>4
  <1>5. CASE ToolResult
    <2>0. met' \in BOOLEAN /\ draft' \in {"due", "fired", "met"}
      BY <1>5, Zenon DEF ToolResult, Values, TypeOK
    <2>1. Values' BY <1>5, <2>0 DEF ToolResult, budget, Values, TypeOK, Live
    <2>2. Flow' BY <1>5 DEF ToolResult, Flow
    <2>3. Room' BY <1>5, RoomStays DEF ToolResult
    <2>4. Demanded' /\ Earned' BY <1>5 DEF ToolResult, budget, Demanded, Earned, Values, TypeOK, Live
    <2>. QED BY <2>1, <2>2, <2>3, <2>4
  <1>6. CASE EndTurn
    <2>1. Values' BY <1>6 DEF EndTurn, budget, Values, TypeOK, Live
    <2>2. Flow' BY <1>6 DEF EndTurn, Flow
    <2>3. Room' BY <1>6, RoomStays DEF EndTurn
    <2>4. Demanded' /\ Earned' BY <1>6 DEF EndTurn, budget, Demanded, Earned, Values, TypeOK, Live
    <2>. QED BY <2>1, <2>2, <2>3, <2>4
  <1>7. ASSUME NEW f \in {"transient", "blocked", "final"}, CallFails(f) PROVE Inv'
    <2>1. Values' BY <1>7 DEF CallFails, budget, Values, TypeOK, Live
    <2>2. Flow' BY <1>7 DEF CallFails, Flow
    <2>3. Room' BY <1>7, RoomStays DEF CallFails
    <2>4. Demanded' /\ Earned' BY <1>7 DEF CallFails, budget, Demanded, Earned, Values, TypeOK, Live
    <2>. QED BY <2>1, <2>2, <2>3, <2>4
  <1>8. ASSUME NEW value \in {"good", "bad"}, OutcomeCall(value) PROVE Inv'
    <2>1. Values' BY <1>8 DEF OutcomeCall, budget, Values, TypeOK, Live
    <2>2. Flow' BY <1>8 DEF OutcomeCall, Flow
    <2>3. Room' BY <1>8, RoomStays DEF OutcomeCall
    <2>4. Demanded' /\ Earned' BY <1>8 DEF OutcomeCall, budget, Demanded, Earned, Values, TypeOK, Live
    <2>. QED BY <2>1, <2>2, <2>3, <2>4
  <1>. QED BY <1>1, <1>2, <1>3, <1>4, <1>5, <1>6, <1>7, <1>8

\* The turns.
LEMMA TurnInv ==
  ASSUME Inv, NEW over \in BOOLEAN, CountTurn(over), driver = "call",
         \/ driver' = "reply" /\ UNCHANGED result
         \/ driver' = "done" /\ result' = "final",
         UNCHANGED <<met, judged, tries, saw, ended, asked, accepted>>
  PROVE  Inv'
  <1>. USE DEF Inv, judged, ended
  <1>1. /\ turns' \in Nat /\ turnsThisGrant' \in Nat /\ grantsUsed' \in 0 .. MaxResumes
        /\ wrapUp' \in 0 .. SHUT /\ Room'
    BY CountTurnRoom
  <1>2. result' # "transient"
    BY DEF Flow
  <1>3. /\ prevTurnMalformed' \in BOOLEAN /\ currentTurnMalformed' \in BOOLEAN
        /\ draft' \in {"due", "fired", "met"} /\ steers' \subseteq {"grant", "demand", "nudge"}
        /\ cause' \in {"none", "context", "budget", "malformed", "aborted"}
        /\ interrupted' \in BOOLEAN /\ (interrupted' <=> cause' # "none")
        /\ Demanded' /\ Earned'
    <2>1. driver' \in {"reply", "done"} /\ UNCHANGED <<asked, status, accepted>>
      OBVIOUS
    <2>. QED BY <1>2, <2>1, CountTurnRest
  <1>4. Values'
    BY <1>1, <1>3 DEF Values, TypeOK, Live
  <1>5. Flow'
    BY <1>3 DEF Flow
  <1>. QED BY <1>1, <1>3, <1>4, <1>5

-------------------------------------------------------------------------------
\* The shell's steps between runs.  A run is only begun while nothing stopped the session.
LEMMA FailInv ==
  ASSUME Inv, driver \in {"done", "validating"}, NEW f, f # "none", Fail(f)
  PROVE  Inv'
  <1>. USE DEF Inv, Fail, budget, streak, judged
  <1>1. Values' BY DEF Values, TypeOK, Live
  <1>2. Flow' BY DEF Flow
  <1>3. Room' BY RoomStays
  <1>4. Demanded' /\ Earned' BY DEF Demanded, Earned, Values, TypeOK, Live
  <1>. QED BY <1>1, <1>2, <1>3, <1>4

LEMMA RunAgainInv ==
  ASSUME Inv, driver \in {"done", "validating"}, cause = "none",
         NEW next \in {"retried", "asked", "repairing"}, NEW message \in BOOLEAN,
         RunAgain(next, message), ~message => result = "transient",
         repairs' \in 0 .. Repairs, refusals' \in Nat,
         UNCHANGED <<budget, streak, met, draft, cause, tries, ended, accepted>>
  PROVE  Inv'
  <1>. USE DEF Inv, RunAgain, streak, ended
  <1>0. asked' \in BOOLEAN
    BY Zenon DEF Values
  <1>1. Values' BY <1>0 DEF budget, Values, TypeOK, Live
  <1>2. Flow' BY DEF Flow
  <1>3. Room' BY RoomStays
  <1>4. Demanded' BY DEF budget, Demanded
  <1>5. Earned' BY DEF Earned, Values, TypeOK, Live
  <1>. QED BY <1>1, <1>2, <1>3, <1>4, <1>5

LEMMA CorrectInv ==
  ASSUME Inv, driver \in {"done", "validating"}, NEW n \in 0 .. Repairs, Correct(n)
  PROVE  Inv'
  <1>1. CASE cause # "none" \/ refusals >= Limit
    BY <1>1, FailInv DEF Correct
  <1>2. CASE ~(cause # "none" \/ refusals >= Limit)
    <2>1. refusals' \in Nat /\ repairs' \in 0 .. Repairs
      BY <1>2 DEF Correct, Inv, Values
    <2>. QED BY <1>2, <2>1, RunAgainInv DEF Correct
  <1>. QED BY <1>1, <1>2

LEMMA ShellInv ==
  ASSUME Inv, \/ Retry \/ RefuseOutcome \/ JudgeBad \/ JudgeGood \/ FailRun \/ Complete
              \/ ValidatorRefuses \/ ValidatorBreaks \/ ValidatorAccepts
  PROVE  Inv'
  <1>1. CASE Retry
    BY <1>1, RunAgainInv, LoopAssumption DEF Retry, Retries, Inv, Values, TypeOK
  <1>2. CASE RefuseOutcome
    BY <1>2, RunAgainInv, LoopAssumption DEF RefuseOutcome, Refuses, Inv, Values, TypeOK
  <1>3. CASE JudgeBad
    <2>1. repairs < Repairs => repairs + 1 \in 0 .. Repairs
      BY LoopAssumption DEF Inv, Values, TypeOK
    <2>. QED BY <1>3, <2>1, CorrectInv, FailInv DEF JudgeBad, Judging
  <1>4. CASE JudgeGood
    <2>. USE <1>4 DEF Inv, JudgeGood, Judging, streak, judged, ended
    <2>1. Values' BY DEF budget, Values, TypeOK, Live
    <2>2. Flow' BY DEF Flow
    <2>3. Room' BY RoomStays
    <2>4. Demanded' BY DEF budget, Demanded
    <2>5. Earned' BY DEF Refuses, IsOutcome, Earned, Values, TypeOK, Live
    <2>. QED BY <2>1, <2>2, <2>3, <2>4, <2>5
  <1>5. CASE FailRun
    BY <1>5, FailInv DEF FailRun, Judging, Inv, Flow
  <1>6. CASE Complete
    <2>. USE <1>6 DEF Inv, Complete, streak, judged
    <2>1. Values' BY DEF budget, Values, TypeOK, Live
    <2>2. Flow' BY DEF Flow
    <2>3. Room' BY RoomStays
    <2>4. Demanded' BY DEF budget, Demanded
    <2>5. Earned' BY DEF Earned
    <2>. QED BY <2>1, <2>2, <2>3, <2>4, <2>5
  <1>7. CASE ValidatorRefuses
    BY <1>7, CorrectInv DEF ValidatorRefuses, Inv, Values, TypeOK
  <1>8. CASE ValidatorBreaks
    BY <1>8, FailInv DEF ValidatorBreaks
  <1>9. CASE ValidatorAccepts
    <2>. USE <1>9 DEF Inv, ValidatorAccepts, streak, judged, ended
    <2>1. Values' BY DEF budget, Values, TypeOK, Live
    <2>2. Flow' BY DEF Flow
    <2>3. Room' BY RoomStays
    <2>4. Demanded' BY DEF budget, Demanded
    <2>5. Earned' BY DEF Earned
    <2>. QED BY <2>1, <2>2, <2>3, <2>4, <2>5
  <1>. QED BY <1>1, <1>2, <1>3, <1>4, <1>5, <1>6, <1>7, <1>8, <1>9

\* Stops fall anywhere: what a turn in flight may still take stays within the limit.
LEMMA StopInv ==
  ASSUME Inv, Live, Stop
  PROVE  Inv'
  <1>. USE DEF Inv, Stop, streak, judged, ended
  <1>1. Values' BY DEF budget, Values, TypeOK, Live
  <1>2. Flow' BY DEF Flow
  <1>3. Room' BY RoomStays
  <1>4. Demanded' /\ Earned' BY DEF budget, Demanded, Earned
  <1>. QED BY <1>1, <1>2, <1>3, <1>4

LEMMA NextInv == Inv /\ [Next]_vars => Inv'
  <1>. SUFFICES ASSUME Inv, [Next]_vars PROVE Inv'
    OBVIOUS
  <1>1. CASE UNCHANGED vars
    BY <1>1 DEF vars, Inv, Values, TypeOK, Live, Flow, Room, Spare, Demanded, Earned
  <1>2. ASSUME NEW over \in BOOLEAN, Turn(over) PROVE Inv'
    BY <1>2, TurnInv DEF Turn
  <1>3. CASE DegenerateTurn
    BY <1>3, TurnInv DEF DegenerateTurn, Return
  <1>4. CASE Abort \/ ClockFires
    BY <1>4, StopInv DEF Abort, ClockFires
  <1>. QED BY <1>1, <1>2, <1>3, <1>4, DriverInv, ShellInv DEF Next, Answers, Called

-------------------------------------------------------------------------------
THEOREM Invariance == Spec => []Inv
  BY InitInv, NextInv, PTL DEF Spec

\* The type invariant, for every budget and every fault.
THEOREM TypeCorrect == Spec => []TypeOK
  <1>1. Inv => TypeOK
    BY DEF Inv, Values
  <1>. QED BY <1>1, Invariance, PTL

\* No session takes more turns than its definition allows, in however many runs.
THEOREM WithinHardLimit == Spec => []HardLimit
  <1>1. Inv => HardLimit
    BY DEF Inv, Room, HardLimit
  <1>. QED BY <1>1, Invariance, PTL

\* A completed session was accepted by its validator and had its tool asked for.
THEOREM CompletionIsEarned == Spec => []CompletedIsEarned
  <1>1. Inv => CompletedIsEarned
    BY DEF Inv, Earned, CompletedIsEarned
  <1>. QED BY <1>1, Invariance, PTL

\* The budget stops no session that has not heard that its outcome is wanted.
THEOREM DemandComesFirst == Spec => []CutAfterDemand
  <1>1. Inv => CutAfterDemand
    BY DEF Inv, Demanded, CutAfterDemand
  <1>. QED BY <1>1, Invariance, PTL

\* Once the shell has decided to stop a session, no call to the model begins.
THEOREM StopsAreFinal == Spec => StopIsFinal
  <1>1. ASSUME Inv, [Next]_vars, cause # "none", driver # "call" PROVE driver' # "call"
    BY <1>1 DEF Inv, Flow, Next, Answers, Called, vars, EndInterrupted, BeginTurn, EndTurn, Retry, RefuseOutcome,
       JudgeBad, JudgeGood, FailRun, Complete, ValidatorRefuses, ValidatorBreaks, ValidatorAccepts,
       Turn, DegenerateTurn, CallAgain, CallFails, ReAsk, ToolResult, OutcomeCall, Abort, ClockFires,
       Stop, Return, Fail, Correct, RunAgain
  <1>. QED BY <1>1, Invariance, PTL DEF Spec, StopIsFinal
===============================================================================
