-------------------------------- MODULE Credits --------------------------------
(***************************************************************************)
(* What a workspace spends: its balance and ledger (credits-store.ts), the  *)
(* meter every job charges through (usage-meter.service.ts), and the pause  *)
(* and resume around them (credits.service.ts).                            *)
(*                                                                         *)
(* A movement of the balance locks its row, reads it and commits; what a    *)
(* charge left reaches the job's meter a step later.  Costs are in quarters *)
(* of a credit, so that rounding shows both ways.                          *)
(***************************************************************************)
EXTENDS Integers

CONSTANTS
  Jobs,        \* rows of jobs of one workspace that runs on credits
  Costs,       \* what a call may cost
  Work,        \* calls a job makes in all
  Width,       \* calls of a job in flight at once
  Grants,      \* what an operator hands out
  Adjustments, \* and corrects
  LowDivisor,  \* one over LOW_BALANCE_SHARE
  Faults,      \* "charge": a debit may fail; "resume": so may carrying a row on
  MaxMoves     \* bound: the operator's movements

ASSUME CreditsAssumption ==
  /\ Costs \subseteq Nat \ {0} /\ Work \in Nat /\ Width \in Nat \ {0}
  /\ Grants \subseteq Nat \ {0} /\ Adjustments \subseteq Int
  /\ LowDivisor \in Nat \ {0} /\ Faults \subseteq {"charge", "resume"} /\ MaxMoves \in Nat
  /\ "operator" \notin Jobs

VARIABLES
  account,  \* the row of credit_balances
  tx,       \* what each open transaction read of it under the row's lock
  ledger,   \* credit_ledger: what was granted and corrected, and all debits
  row,      \* the status of each job's row
  work,     \* the calls each job has left
  meter,    \* each job's body and its meter
  usage,    \* each job's row of llm_usage, and what became of what was charged for it
  op,       \* the operator's request
  moves,    \* movements so far
  told,     \* history: warnings since the last grant
  ranOut    \* history: the jobs whose run saw the balance used up

vars == <<account, tx, ledger, row, work, meter, usage, op, moves, told, ranOut>>

Movers == Jobs \cup {"operator"}
\* creditsOfUsd: whole credits, halves up.
CreditsOf(cost) == (cost + 2) \div 4

Nothing == [on |-> FALSE, balance |-> 0, lastGrant |-> 0, low |-> FALSE, empty |-> FALSE]
\* pc is where the body is, balance the number the gate reads; cost and
\* credits are what this meter has recorded and taken (charged).
NoMeter == [pc |-> "none", balance |-> 0, tripped |-> FALSE, inFlight |-> 0, buffer |-> 0,
            cost |-> 0, credits |-> 0, flush |-> "idle", owed |-> 0, answer |-> 0]
\* The row is the job's, over every leg that a pause and a resume made of its run.
NoUsage == [cost |-> 0, debits |-> 0, failed |-> 0, legs |-> 0]
\* left: what the last grant tried to carry on and could not.
AtRest == [pc |-> "idle", kind |-> "grant", credits |-> 0, list |-> {}, left |-> {}]

Init ==
  /\ account \in {[balance |-> g, lastGrant |-> g, low |-> FALSE, empty |-> FALSE] : g \in Grants}
  /\ tx = [m \in Movers |-> Nothing]
  /\ ledger = [moved |-> account.balance, debits |-> 0]
  /\ row = [j \in Jobs |-> "queued"] /\ work = [j \in Jobs |-> Work]
  /\ meter = [j \in Jobs |-> NoMeter] /\ usage = [j \in Jobs |-> NoUsage]
  /\ op = AtRest /\ moves = 0 /\ told = [low |-> 0, empty |-> 0] /\ ranOut = {}

Running == {j \in Jobs : row[j] = "running"}
InBody(j) == row[j] = "running"
Spendable(j) == meter[j].balance > 0

-------------------------------------------------------------------------------
(* A job's body *)

\* The job is claimed, first or again, and opens its account: the balance is read
\* once, and the meter is a new one, whatever the row was charged before.
Claim(j) ==
  /\ row[j] = "queued" /\ row' = [row EXCEPT ![j] = "running"]
  /\ meter' = [meter EXCEPT ![j] = [NoMeter EXCEPT !.pc = "work", !.balance = account.balance]]
  /\ usage' = [usage EXCEPT ![j].legs = @ + 1]
  /\ ranOut' = IF account.balance > 0 THEN ranOut \ {j} ELSE ranOut \cup {j}
  /\ UNCHANGED <<account, tx, ledger, work, op, moves, told>>

StartCall(j) ==
  /\ meter[j].pc = "work" /\ work[j] > 0 /\ meter[j].inFlight < Width /\ Spendable(j)
  /\ work' = [work EXCEPT ![j] = @ - 1]
  /\ meter' = [meter EXCEPT ![j].inFlight = @ + 1]
  /\ UNCHANGED <<account, tx, ledger, row, usage, op, moves, told, ranOut>>

\* A call about to be made meets the gate: it is not made, and nothing else is.
Refuse(j) ==
  /\ meter[j].pc = "work" /\ work[j] > 0 /\ ~Spendable(j)
  /\ meter' = [meter EXCEPT ![j].tripped = TRUE, ![j].pc = "ending"]
  /\ UNCHANGED <<account, tx, ledger, row, work, usage, op, moves, told, ranOut>>

\* A call ends and its cost is buffered; what was stopped by the gate then
\* parks, unless that call completed it.
EndCall(j, cost) ==
  /\ meter[j].inFlight > 0
  /\ \E pc \in {meter[j].pc} \cup (IF Spendable(j) THEN {} ELSE {"ending"}) :
       meter' = [meter EXCEPT ![j].inFlight = @ - 1, ![j].buffer = @ + cost, ![j].pc = pc,
                              ![j].tripped = @ \/ ~Spendable(j)]
  /\ UNCHANGED <<account, tx, ledger, row, work, usage, op, moves, told, ranOut>>

\* The body is over, finished or stopped: a tripped gate makes it a pause.
EndBody(j) ==
  /\ meter[j].inFlight = 0 /\ (meter[j].pc = "ending" \/ (meter[j].pc = "work" /\ work[j] = 0))
  /\ meter' = [meter EXCEPT ![j].pc = IF meter[j].tripped THEN "pausing" ELSE "finishing"]
  /\ UNCHANGED <<account, tx, ledger, row, work, usage, op, moves, told, ranOut>>

\* The meter is closed, its last flush behind it, and the row settles.
Settle(j) ==
  /\ meter[j].pc \in {"pausing", "finishing"} /\ meter[j].flush = "idle" /\ meter[j].buffer = 0
  /\ row' = [row EXCEPT ![j] = IF meter[j].pc = "pausing" THEN "paused" ELSE "done"]
  /\ meter' = [meter EXCEPT ![j].pc = "none"]
  /\ UNCHANGED <<account, tx, ledger, work, usage, op, moves, told, ranOut>>

-------------------------------------------------------------------------------
(* The meter's flush *)

\* Mutant of Flush: each flush is rounded on its own.
FlushByItself(j) ==
  /\ InBody(j) /\ meter[j].flush = "idle" /\ meter[j].buffer > 0
  /\ LET owed == CreditsOf(meter[j].buffer)
     IN meter' = [meter EXCEPT ![j].buffer = 0, ![j].cost = @ + meter[j].buffer, ![j].owed = owed,
                               ![j].credits = @ + owed, ![j].flush = IF owed > 0 THEN "charge" ELSE "idle"]
  /\ usage' = [usage EXCEPT ![j].cost = @ + meter[j].buffer]
  /\ UNCHANGED <<account, tx, ledger, row, work, op, moves, told, ranOut>>

\* What is buffered is recorded, and charged up to what this meter has now recorded.
Flush(j) ==
  /\ InBody(j) /\ meter[j].flush = "idle" /\ meter[j].buffer > 0
  /\ LET cost == meter[j].cost + meter[j].buffer
         owed == CreditsOf(cost) - meter[j].credits
     IN meter' = [meter EXCEPT ![j].buffer = 0, ![j].cost = cost, ![j].owed = owed,
                               ![j].credits = @ + owed, ![j].flush = IF owed > 0 THEN "charge" ELSE "idle"]
  /\ usage' = [usage EXCEPT ![j].cost = @ + meter[j].buffer]
  /\ UNCHANGED <<account, tx, ledger, row, work, op, moves, told, ranOut>>

Wants(m) == IF m = "operator" THEN op.pc = "move" ELSE meter[m].flush = "charge"
\* Mutant of LockBalance: the row is read without FOR UPDATE.
LockBalanceNot(m) ==
  /\ Wants(m) /\ ~tx[m].on
  /\ tx' = [tx EXCEPT ![m] = [on |-> TRUE, balance |-> account.balance, lastGrant |-> account.lastGrant,
                              low |-> account.low, empty |-> account.empty]]
  /\ UNCHANGED <<account, ledger, row, work, meter, usage, op, moves, told, ranOut>>
LockBalance(m) ==
  /\ Wants(m) /\ \A n \in Movers : ~tx[n].on
  /\ tx' = [tx EXCEPT ![m] = [on |-> TRUE, balance |-> account.balance, lastGrant |-> account.lastGrant,
                              low |-> account.low, empty |-> account.empty]]
  /\ UNCHANGED <<account, ledger, row, work, meter, usage, op, moves, told, ranOut>>

\* Everybody at work sees what a commit leaves.
Noticed(balance) == ranOut' = IF balance > 0 THEN ranOut ELSE ranOut \cup Running

\* Mutant of Crossed: the warnings are not asked for their stamps.
CrossedAgain(held, balance) ==
  [low |-> LET line == held.lastGrant \div LowDivisor
           IN held.lastGrant > 0 /\ held.balance > line /\ balance <= line,
   empty |-> held.balance > 0 /\ balance <= 0]
\* The warnings a charge crosses: the low line, a share of the last grant, and empty.
Crossed(held, balance) ==
  [low |-> LET line == held.lastGrant \div LowDivisor
           IN held.lastGrant > 0 /\ ~held.low /\ held.balance > line /\ balance <= line,
   empty |-> ~held.empty /\ held.balance > 0 /\ balance <= 0]

Charge(j) ==
  /\ tx[j].on
  /\ LET balance == tx[j].balance - meter[j].owed
         crossed == Crossed(tx[j], balance)
     IN /\ account' = [account EXCEPT !.balance = balance, !.low = @ \/ crossed.low,
                                      !.empty = @ \/ crossed.empty]
        /\ meter' = [meter EXCEPT ![j].flush = "answer", ![j].answer = balance]
        /\ usage' = [usage EXCEPT ![j].debits = @ + meter[j].owed]
        /\ told' = [low |-> told.low + (IF crossed.low THEN 1 ELSE 0),
                    empty |-> told.empty + (IF crossed.empty THEN 1 ELSE 0)]
        /\ Noticed(balance)
  /\ ledger' = [ledger EXCEPT !.debits = @ + meter[j].owed]
  /\ tx' = [tx EXCEPT ![j] = Nothing]
  /\ UNCHANGED <<row, work, op, moves>>

\* A debit that could not be taken is logged and not retried.
ChargeFails(j) ==
  /\ "charge" \in Faults /\ tx[j].on
  /\ tx' = [tx EXCEPT ![j] = Nothing]
  /\ meter' = [meter EXCEPT ![j].flush = "idle"]
  /\ usage' = [usage EXCEPT ![j].failed = @ + meter[j].owed]
  /\ UNCHANGED <<account, ledger, row, work, op, moves, told, ranOut>>

\* Mutant of Answered: the meter subtracts what it was charged from what it knew.
AnsweredByItself(j) ==
  /\ meter[j].flush = "answer"
  /\ LET left == meter[j].balance - meter[j].owed
     IN meter' = [meter EXCEPT ![j].flush = "idle", ![j].balance = left, ![j].tripped = @ \/ left <= 0]
  /\ UNCHANGED <<account, tx, ledger, row, work, usage, op, moves, told, ranOut>>
\* What the charge left is the balance the gate reads from here.
Answered(j) ==
  /\ meter[j].flush = "answer"
  /\ meter' = [meter EXCEPT ![j].flush = "idle", ![j].balance = meter[j].answer,
                            ![j].tripped = @ \/ meter[j].answer <= 0]
  /\ UNCHANGED <<account, tx, ledger, row, work, usage, op, moves, told, ranOut>>

-------------------------------------------------------------------------------
(* The operator, and a member *)

Request(kind, credits) ==
  /\ op.pc = "idle" /\ moves < MaxMoves /\ moves' = moves + 1
  /\ op' = [AtRest EXCEPT !.pc = "move", !.kind = kind, !.credits = credits]
  /\ UNCHANGED <<account, tx, ledger, row, work, meter, usage, told, ranOut>>

\* A grant moves the low line and clears both stamps; a correction does neither.
\* Only a grant goes on to what is paused, unless it was asked not to.
Move ==
  /\ tx["operator"].on
  /\ LET balance == tx["operator"].balance + op.credits
     IN /\ account' = IF op.kind = "grant"
                      THEN [balance |-> balance, lastGrant |-> op.credits, low |-> FALSE, empty |-> FALSE]
                      ELSE [account EXCEPT !.balance = balance]
        /\ Noticed(balance)
  /\ told' = IF op.kind = "grant" THEN [low |-> 0, empty |-> 0] ELSE told
  /\ ledger' = [ledger EXCEPT !.moved = @ + op.credits]
  /\ tx' = [tx EXCEPT !["operator"] = Nothing]
  /\ \/ op.kind = "grant" /\ op' = [op EXCEPT !.pc = "list"]
     \/ op' = AtRest
  /\ UNCHANGED <<row, work, meter, usage, moves>>

\* A grant carries on what the workspace has paused.
ListPaused ==
  /\ op.pc = "list"
  /\ op' = [op EXCEPT !.pc = "resume", !.list = {j \in Jobs : row[j] = "paused"}]
  /\ UNCHANGED <<account, tx, ledger, row, work, meter, usage, moves, told, ranOut>>

Revive(j) == row' = IF row[j] = "paused" THEN [row EXCEPT ![j] = "queued"] ELSE row
\* Each in turn is revived; one that is refused its key or not enqueued is left
\* paused, and the next is tried.
Carry(j) == Revive(j) /\ op' = [op EXCEPT !.list = @ \ {j}]
LeavePaused(j) ==
  "resume" \in Faults /\ op' = [op EXCEPT !.list = @ \ {j}, !.left = @ \cup {j}] /\ UNCHANGED row

\* Mutant of ResumePaused: the loop ends with the first that fails.
ResumeUntilOneFails ==
  /\ op.pc = "resume"
  /\ \/ op.list = {} /\ op' = [AtRest EXCEPT !.left = op.left] /\ UNCHANGED row
     \/ \E j \in op.list : Carry(j)
     \/ "resume" \in Faults /\ (\E j \in op.list : op' = [AtRest EXCEPT !.left = {j}]) /\ UNCHANGED row
  /\ UNCHANGED <<account, tx, ledger, work, meter, usage, moves, told, ranOut>>
ResumePaused ==
  /\ op.pc = "resume"
  /\ \/ op.list = {} /\ op' = [AtRest EXCEPT !.left = op.left] /\ UNCHANGED row
     \/ \E j \in op.list : Carry(j) \/ LeavePaused(j)
  /\ UNCHANGED <<account, tx, ledger, work, meter, usage, moves, told, ranOut>>

\* A member carries one on by hand while there is a balance.
ResumeByHand(j) ==
  /\ row[j] = "paused" /\ account.balance > 0 /\ Revive(j)
  /\ UNCHANGED <<account, tx, ledger, work, meter, usage, op, moves, told, ranOut>>

Body(j) == Claim(j) \/ StartCall(j) \/ Refuse(j) \/ (\E cost \in Costs : EndCall(j, cost))
           \/ EndBody(j) \/ Settle(j)
Till(j) == Flush(j) \/ Charge(j) \/ ChargeFails(j) \/ Answered(j)
Operator == Move \/ ListPaused \/ ResumePaused

Next ==
  \/ \E j \in Jobs : Body(j) \/ Till(j) \/ ResumeByHand(j)
  \/ \E m \in Movers : LockBalance(m)
  \/ \E g \in Grants : Request("grant", g)
  \/ \E g \in Adjustments : Request("adjustment", g)
  \/ Operator

Spec == Init /\ [][Next]_vars

\* Calls and statements come to their end, the lock goes round; nobody is
\* obliged to grant, correct or resume by hand.
FairSpec ==
  /\ Spec /\ WF_vars(Operator)
  /\ \A j \in Jobs : WF_vars(Body(j)) /\ WF_vars(Till(j))
  /\ \A m \in Movers : SF_vars(LockBalance(m))

-------------------------------------------------------------------------------
(* Properties *)

\* The ledger read as arithmetic gives the balance, however many debit at once.
LedgerAgrees == account.balance = ledger.moved - ledger.debits

\* A run of one leg is charged what its recorded cost is worth, rounded once, however
\* it was flushed: each credit is debited, or its debit failed, and none is taken
\* twice.  A pause and a resume round anew: each leg is at most half a credit off.
ChargedOnce ==
  \A j \in Jobs : meter[j].flush # "charge" =>
    LET cost == usage[j].cost
        legs == usage[j].legs
        taken == usage[j].debits + usage[j].failed
    IN /\ legs <= 1 => taken = CreditsOf(cost)
       /\ cost - 2 * legs <= 4 * taken /\ 4 * taken <= cost + 2 * legs

\* Each warning is given once per grant, however many jobs spend at once and
\* whatever is corrected in between.
WarnedOnce == told.low <= 1 /\ told.empty <= 1

\* A job pauses only if the workspace's balance was used up during its run.
PausedOnlyWhenEmpty == \A j \in Jobs : row[j] = "paused" => j \in ranOut

\* What was paused when a grant landed is carried on, each row of it whatever became of
\* the others; only a row that could not be carried on itself stays paused.
GrantResumes ==
  \A j \in Jobs : (op.pc = "list" /\ row[j] = "paused") ~> (row[j] # "paused" \/ j \in op.left)
===============================================================================
