----------------------------- MODULE CreditsProofs -----------------------------
(***************************************************************************)
(* Theorems about Credits, for any number of jobs, costs and movements.     *)
(*                                                                         *)
(* An open transaction holds the balance as it stands, because it alone     *)
(* holds the row; a meter's credits are what its recorded cost is worth,    *)
(* each is debited, failed or owed, and what earlier legs paid is off by no *)
(* more than half a credit each; a stamp stands for its warning.            *)
(***************************************************************************)
EXTENDS Credits, TLAPS

Accounts == [balance : Int, lastGrant : Nat, low : BOOLEAN, empty : BOOLEAN]
Meters == [pc : {"none", "work", "ending", "pausing", "finishing"}, balance : Int, tripped : BOOLEAN,
           inFlight : Nat, buffer : Nat, cost : Nat, credits : Int,
           flush : {"idle", "charge", "answer"}, owed : Int, answer : Int]
Usages == [cost : Int, debits : Int, failed : Int, legs : Nat]
Reads == [on : BOOLEAN, balance : Int, lastGrant : Nat, low : BOOLEAN, empty : BOOLEAN]
Values ==
  /\ account \in Accounts
  /\ tx \in [Movers -> Reads]
  /\ ledger \in [moved : Int, debits : Int]
  /\ row \in [Jobs -> {"queued", "running", "paused", "done"}]
  /\ work \in [Jobs -> Nat] /\ meter \in [Jobs -> Meters] /\ usage \in [Jobs -> Usages]
  /\ op \in [pc : {"idle", "move", "list", "resume"}, kind : {"grant", "adjustment"},
             credits : Int, list : SUBSET Jobs, left : SUBSET Jobs]
  /\ op.kind = "grant" => op.credits \in Nat
  /\ told \in [low : Nat, empty : Nat] /\ ranOut \subseteq Jobs

\* One transaction at a time has the row, and what it read is what the row says.
Locked ==
  \A m \in Movers : tx[m].on =>
    /\ Wants(m) /\ \A n \in Movers : tx[n].on => n = m
    /\ tx[m].balance = account.balance /\ tx[m].lastGrant = account.lastGrant
    /\ tx[m].low = account.low /\ tx[m].empty = account.empty

\* A meter is at work only in the body of a running job, which outlives its calls.
Attended ==
  \A j \in Jobs : /\ meter[j].flush # "idle" \/ meter[j].pc # "none" => row[j] = "running"
                  /\ meter[j].inFlight > 0 => meter[j].pc \in {"work", "ending"}
                  /\ row[j] = "running" => usage[j].legs > 0

\* The debit under way; what the legs before this meter's cost, and what they paid.
Owed(j) == IF meter[j].flush = "charge" THEN meter[j].owed ELSE 0
Past(j) == usage[j].cost - meter[j].cost
Paid(j) == usage[j].debits + usage[j].failed + Owed(j) - meter[j].credits
Charged ==
  \A j \in Jobs :
    /\ meter[j].credits = CreditsOf(meter[j].cost)
    /\ usage[j].legs = 0 => meter[j].cost = 0
    /\ usage[j].legs <= 1 => Past(j) = 0 /\ Paid(j) = 0
    /\ usage[j].legs > 1 => /\ Past(j) - 2 * (usage[j].legs - 1) <= 4 * Paid(j)
                            /\ 4 * Paid(j) <= Past(j) + 2 * (usage[j].legs - 1)

\* A warning given since the last grant has its stamp.
Stamped ==
  /\ told.low = IF account.low THEN 1 ELSE 0
  /\ told.empty = IF account.empty THEN 1 ELSE 0

\* Whatever makes a job end as paused was read off an empty balance during its run.
Emptied ==
  \A j \in Jobs :
    \/ row[j] = "paused"
    \/ row[j] = "running" /\ \/ meter[j].tripped \/ meter[j].pc = "pausing" \/ meter[j].balance <= 0
                             \/ meter[j].flush = "answer" /\ meter[j].answer <= 0
    => j \in ranOut

Inv == Values /\ Locked /\ Attended /\ LedgerAgrees /\ Charged /\ Stamped /\ Emptied
-------------------------------------------------------------------------------
LEMMA CreditsGrow ==
  ASSUME NEW c \in Nat, NEW b \in Nat
  PROVE  CreditsOf(c) \in Int /\ CreditsOf(c + b) >= CreditsOf(c)
BY DEF CreditsOf

LEMMA CreditsNear ==
  ASSUME NEW c \in Nat
  PROVE  c - 2 <= 4 * CreditsOf(c) /\ 4 * CreditsOf(c) <= c + 2
BY DEF CreditsOf

LEMMA ClaimKeeps ==
  ASSUME Inv, NEW j \in Jobs, Claim(j)
  PROVE  Inv'
<1>1. LedgerAgrees' /\ Stamped'
  BY DEF Inv, LedgerAgrees, Stamped, Claim
<1>2. Values'
  <2>1. meter[j] \in Meters
    BY DEF Inv, Values
  <2>2. meter'[j] \in Meters
    <3>1. meter'[j] = [NoMeter EXCEPT !.pc = "work", !.balance = account.balance]
      BY DEF Inv, Values, Claim
    <3>2. account.balance \in Int
      BY DEF Inv, Values, Accounts
    <3>3. meter'[j] = [pc |-> "work", balance |-> account.balance, tripped |-> FALSE, inFlight |-> 0,
                       buffer |-> 0, cost |-> 0, credits |-> 0, flush |-> "idle", owed |-> 0,
                       answer |-> 0]
      BY <3>1 DEF NoMeter
    <3> QED  BY <3>2, <3>3 DEF Meters
  <2>3. meter' \in [Jobs -> Meters]
    BY <2>2 DEF Inv, Values, Claim
  <2>4. usage' \in [Jobs -> Usages]
    BY DEF Inv, Values, Usages, Claim
  <2> QED  BY <2>3, <2>4, CreditsAssumption DEF Inv, Values, Accounts, Claim
<1>3. Locked'
  BY DEF Inv, Locked, Wants, Values, Attended, Claim
<1>4. Attended'
  BY DEF Inv, Attended, Values, Usages, Claim
<1>5. Charged'
  <2> SUFFICES Charged'
    OBVIOUS
  <2>1. meter[j].flush = "idle" /\ meter[j] \in Meters /\ usage[j] \in Usages
    BY DEF Inv, Values, Attended, Claim
  <2>2. /\ meter'[j].cost = 0 /\ meter'[j].credits = 0 /\ meter'[j].flush = "idle"
        /\ usage'[j].cost = usage[j].cost /\ usage'[j].legs = usage[j].legs + 1
        /\ usage'[j].debits = usage[j].debits /\ usage'[j].failed = usage[j].failed
    BY DEF Inv, Values, Meters, Usages, Claim, NoMeter
  <2>3. CreditsOf(0) = 0
    BY DEF CreditsOf
  <2> DEFINE cost == meter[j].cost
             past == usage[j].cost - cost
             taken == usage[j].debits + usage[j].failed
             legs == usage[j].legs
  <2>4. /\ meter[j].credits = CreditsOf(cost) /\ (legs = 0 => cost = 0)
        /\ legs <= 1 => past = 0 /\ taken - CreditsOf(cost) = 0
        /\ legs > 1 => /\ past - 2 * (legs - 1) <= 4 * (taken - CreditsOf(cost))
                       /\ 4 * (taken - CreditsOf(cost)) <= past + 2 * (legs - 1)
    BY <2>1 DEF Inv, Charged, Past, Paid, Owed, Meters, Usages
  <2>5. /\ cost - 2 <= 4 * CreditsOf(cost) /\ 4 * CreditsOf(cost) <= cost + 2
        /\ CreditsOf(cost) \in Int
    BY <2>1, CreditsNear DEF Meters, CreditsOf
  <2>6. /\ legs \in Nat /\ cost \in Int /\ taken \in Int /\ usage[j].cost \in Int
        /\ usage[j].debits \in Int /\ usage[j].failed \in Int
    BY <2>1 DEF Meters, Usages
  <2>7. /\ legs + 1 <= 1 => usage[j].cost = 0 /\ taken = 0
        /\ legs + 1 > 1 => /\ usage[j].cost - 2 * legs <= 4 * taken
                           /\ 4 * taken <= usage[j].cost + 2 * legs
    <3>1. CASE legs = 0
      BY <3>1, <2>3, <2>4, <2>6
    <3>2. CASE legs = 1
      BY <3>2, <2>4, <2>5, <2>6
    <3>3. CASE legs > 1
      <4> DEFINE c == CreditsOf(cost)
      <4> HIDE DEF c, taken, legs, cost
      <4> QED  BY <3>3, <2>4, <2>5, <2>6
    <3> QED  BY <3>1, <3>2, <3>3, <2>6
  <2>8. /\ Past(j)' = usage[j].cost /\ Paid(j)' = taken
    BY <2>2, <2>6 DEF Past, Paid, Owed
  <2>9. \A k \in Jobs : k # j => meter'[k] = meter[k] /\ usage'[k] = usage[k]
    BY DEF Inv, Values, Claim
  <2> HIDE DEF taken
  <2>10. /\ meter'[j].credits = CreditsOf(meter'[j].cost)
         /\ usage'[j].legs = 0 => meter'[j].cost = 0
         /\ usage'[j].legs <= 1 => Past(j)' = 0 /\ Paid(j)' = 0
         /\ usage'[j].legs > 1 => /\ Past(j)' - 2 * (usage'[j].legs - 1) <= 4 * Paid(j)'
                                  /\ 4 * Paid(j)' <= Past(j)' + 2 * (usage'[j].legs - 1)
    BY <2>2, <2>3, <2>6, <2>7, <2>8
  <2> QED  BY <2>9, <2>10 DEF Inv, Charged, Past, Paid, Owed
<1>6. Emptied'
  BY DEF Inv, Emptied, Values, Meters, Accounts, Claim, NoMeter
<1> QED  BY <1>1, <1>2, <1>3, <1>4, <1>5, <1>6 DEF Inv

LEMMA StartCallKeeps ==
  ASSUME Inv, NEW j \in Jobs, StartCall(j)
  PROVE  Inv'
<1>1. LedgerAgrees' /\ Stamped'
  BY DEF Inv, LedgerAgrees, Stamped, StartCall
<1>2. Values'
  BY DEF Inv, Values, Meters, StartCall
<1>3. Locked'
  BY DEF Inv, Locked, Wants, StartCall
<1>4. Attended'
  BY DEF Inv, Attended, StartCall
<1>5. Charged'
  BY DEF Inv, Charged, Past, Paid, Owed, StartCall
<1>6. Emptied'
  BY DEF Inv, Emptied, StartCall
<1> QED  BY <1>1, <1>2, <1>3, <1>4, <1>5, <1>6 DEF Inv

LEMMA RefuseKeeps ==
  ASSUME Inv, NEW j \in Jobs, Refuse(j)
  PROVE  Inv'
<1>1. LedgerAgrees' /\ Stamped'
  BY DEF Inv, LedgerAgrees, Stamped, Refuse
<1>2. Values'
  BY DEF Inv, Values, Meters, Refuse
<1>3. Locked'
  BY DEF Inv, Locked, Wants, Values, Meters, Refuse
<1>4. Attended'
  BY DEF Inv, Attended, Values, Refuse
<1>5. Charged'
  BY DEF Inv, Charged, Past, Paid, Owed, Values, Refuse
<1>6. Emptied'
  BY DEF Inv, Emptied, Values, Meters, Refuse
<1> QED  BY <1>1, <1>2, <1>3, <1>4, <1>5, <1>6 DEF Inv

LEMMA EndCallKeeps ==
  ASSUME Inv, NEW j \in Jobs, NEW cost \in Costs, EndCall(j, cost)
  PROVE  Inv'
<1>1. LedgerAgrees' /\ Stamped'
  BY DEF Inv, LedgerAgrees, Stamped, EndCall
<1>2. Values'
  <2>1. meter[j] \in Meters
    BY DEF Inv, Values
  <2>2. meter'[j] \in Meters
    <3>1. (meter[j].tripped \/ ~Spendable(j)) \in BOOLEAN /\ cost \in Nat
      BY CreditsAssumption
    <3> DEFINE end(pc) == [meter[j] EXCEPT !.inFlight = @ - 1, !.buffer = @ + cost, !.pc = pc,
                                           !.tripped = @ \/ ~Spendable(j)]
    <3>2. \E pc \in {meter[j].pc, "ending"} : meter'[j] = end(pc)
      <4>1. PICK pc \in {meter[j].pc} \cup (IF Spendable(j) THEN {} ELSE {"ending"}) :
              meter' = [meter EXCEPT ![j].inFlight = @ - 1, ![j].buffer = @ + cost, ![j].pc = pc,
                                     ![j].tripped = @ \/ ~Spendable(j)]
        BY DEF EndCall
      <4>2. meter'[j] = end(pc)
        BY <4>1 DEF Inv, Values
      <4> QED  BY <4>2
    <3>3. PICK pc \in {meter[j].pc, "ending"} : meter'[j] = end(pc)
      BY <3>2
    <3>4. /\ meter[j].inFlight - 1 \in Nat /\ meter[j].buffer + cost \in Nat
          /\ pc \in {"none", "work", "ending", "pausing", "finishing"}
      BY <2>1, <3>1 DEF Meters, EndCall
    <3> QED  BY <2>1, <3>1, <3>3, <3>4 DEF Meters
  <2>3. meter' \in [Jobs -> Meters]
    BY <2>2 DEF Inv, Values, EndCall
  <2> QED  BY <2>3 DEF Inv, Values, EndCall
<1>3. Locked'
  BY DEF Inv, Locked, Wants, Values, Movers, EndCall
<1>4. Attended'
  BY DEF Inv, Attended, Values, EndCall
<1>5. Charged'
  BY DEF Inv, Charged, Past, Paid, Owed, Values, EndCall
<1>6. Emptied'
  BY DEF Inv, Emptied, Values, Meters, EndCall
<1> QED  BY <1>1, <1>2, <1>3, <1>4, <1>5, <1>6 DEF Inv

LEMMA EndBodyKeeps ==
  ASSUME Inv, NEW j \in Jobs, EndBody(j)
  PROVE  Inv'
<1>1. LedgerAgrees' /\ Stamped'
  BY DEF Inv, LedgerAgrees, Stamped, EndBody
<1>2. Values'
  BY DEF Inv, Values, Meters, EndBody
<1>3. Locked'
  BY DEF Inv, Locked, Wants, EndBody
<1>4. Attended'
  BY DEF Inv, Attended, EndBody
<1>5. Charged'
  BY DEF Inv, Charged, Past, Paid, Owed, EndBody
<1>6. Emptied'
  BY DEF Inv, Emptied, EndBody
<1> QED  BY <1>1, <1>2, <1>3, <1>4, <1>5, <1>6 DEF Inv

LEMMA SettleKeeps ==
  ASSUME Inv, NEW j \in Jobs, Settle(j)
  PROVE  Inv'
<1>1. LedgerAgrees' /\ Stamped'
  BY DEF Inv, LedgerAgrees, Stamped, Settle
<1>2. Values'
  BY DEF Inv, Values, Meters, Settle
<1>3. Locked'
  BY DEF Inv, Locked, Wants, Settle
<1>4. Attended'
  BY DEF Inv, Attended, Values, Settle
<1>5. Charged'
  BY DEF Inv, Charged, Past, Paid, Owed, Settle
<1>6. Emptied'
  BY DEF Inv, Emptied, Values, Attended, Settle
<1> QED  BY <1>1, <1>2, <1>3, <1>4, <1>5, <1>6 DEF Inv

LEMMA FlushKeeps ==
  ASSUME Inv, NEW j \in Jobs, Flush(j)
  PROVE  Inv'
<1>1. LedgerAgrees' /\ Stamped'
  BY DEF Inv, LedgerAgrees, Stamped, Flush
<1>2. Values'
  BY DEF Inv, Values, Meters, Flush
<1>3. Locked'
  <2>1. row[j] = "running" /\ j \in Movers /\ ~tx[j].on /\ j # "operator"
    BY CreditsAssumption DEF Inv, Values, Locked, Attended, Wants, Movers, Flush, InBody
  <2>2. \A k \in Jobs : k # j => meter'[k] = meter[k]
    BY DEF Inv, Values, Flush
  <2>3. tx' = tx /\ account' = account /\ op' = op
    BY DEF Flush
  <2>4. \A m \in Movers : tx[m].on => Wants(m)'
    BY <2>1, <2>2, <2>3 DEF Inv, Locked, Wants, Movers
  <2> QED  BY <2>3, <2>4 DEF Inv, Locked
<1>4. Attended'
  BY DEF Inv, Attended, Values, Meters, Usages, Flush
<1>5. Charged'
  <2>1. /\ meter[j].cost \in Nat /\ meter[j].buffer \in Nat /\ meter[j].credits \in Int
        /\ usage[j].cost \in Int /\ usage[j].debits \in Int /\ usage[j].failed \in Int
    BY DEF Inv, Values, Meters, Usages
  <2>2. CreditsOf(meter[j].cost) \in Int /\ CreditsOf(meter[j].cost + meter[j].buffer) \in Int
        /\ CreditsOf(meter[j].cost + meter[j].buffer) >= CreditsOf(meter[j].cost)
    BY <2>1 DEF CreditsOf
  <2>3. /\ meter'[j].credits = CreditsOf(meter'[j].cost)
        /\ Past(j)' = Past(j) /\ Paid(j)' = Paid(j)
        /\ usage'[j].legs = usage[j].legs /\ usage[j].legs # 0
    <3>1. /\ meter[j].credits = CreditsOf(meter[j].cost) /\ meter[j].flush = "idle"
          /\ usage[j].legs # 0
      BY <2>1 DEF Inv, Charged, Attended, Flush, InBody
    <3> DEFINE cost == meter[j].cost + meter[j].buffer
               owed == CreditsOf(cost) - meter[j].credits
    <3>2. /\ meter'[j].cost = cost /\ meter'[j].owed = owed
          /\ meter'[j].credits = meter[j].credits + owed
          /\ meter'[j].flush = IF owed > 0 THEN "charge" ELSE "idle"
      BY DEF Inv, Values, Meters, Flush
    <3>3. /\ usage'[j].cost = usage[j].cost + meter[j].buffer
          /\ usage'[j].debits = usage[j].debits /\ usage'[j].failed = usage[j].failed
          /\ usage'[j].legs = usage[j].legs
      BY DEF Inv, Values, Usages, Flush
    <3>4. owed \in Int /\ owed >= 0 /\ meter[j].credits + owed = CreditsOf(cost)
      BY <2>1, <2>2, <3>1
    <3>5. Past(j)' = Past(j)
      BY <2>1, <3>2, <3>3 DEF Past
    <3>6. Paid(j)' = Paid(j)
      <4>1. Paid(j) = usage[j].debits + usage[j].failed + 0 - meter[j].credits
        BY <3>1 DEF Paid, Owed
      <4>2. Owed(j)' = owed
        <5> HIDE DEF owed
        <5> QED  BY <3>2, <3>4 DEF Owed
      <4>3. Paid(j)' = usage[j].debits + usage[j].failed + owed - (meter[j].credits + owed)
        <5> HIDE DEF owed
        <5> QED  BY <4>2, <3>2, <3>3 DEF Paid
      <4> HIDE DEF owed
      <4> QED  BY <2>1, <3>4, <4>1, <4>3
    <3> HIDE DEF cost, owed
    <3> QED  BY <3>1, <3>2, <3>3, <3>4, <3>5, <3>6
  <2>4. \A k \in Jobs : k # j => meter'[k] = meter[k] /\ usage'[k] = usage[k]
    BY DEF Inv, Values, Flush
  <2> QED  BY <2>3, <2>4 DEF Inv, Charged, Past, Paid, Owed
<1>6. Emptied'
  <2>1. /\ meter'[j].tripped = meter[j].tripped /\ meter'[j].pc = meter[j].pc
        /\ meter'[j].balance = meter[j].balance /\ meter'[j].flush # "answer"
    BY DEF Inv, Values, Meters, Flush
  <2>2. \A k \in Jobs : k # j => meter'[k] = meter[k]
    BY DEF Inv, Values, Flush
  <2>3. row' = row /\ ranOut' = ranOut
    BY DEF Flush
  <2> QED  BY <2>1, <2>2, <2>3 DEF Inv, Emptied
<1> QED  BY <1>1, <1>2, <1>3, <1>4, <1>5, <1>6 DEF Inv

LEMMA MeterCharged ==
  ASSUME NEW r \in Meters, NEW b \in Int
  PROVE  [r EXCEPT !.flush = "answer", !.answer = b] \in Meters
BY DEF Meters

LEMMA ChargeKeeps ==
  ASSUME Inv, NEW j \in Jobs, Charge(j)
  PROVE  Inv'
<1>0. /\ j \in Movers /\ j # "operator" /\ meter[j].flush = "charge" /\ row[j] = "running"
      /\ meter[j] \in Meters
      /\ tx[j] \in Reads
      /\ tx[j].balance = account.balance /\ tx[j].lastGrant = account.lastGrant
      /\ tx[j].low = account.low /\ tx[j].empty = account.empty
      /\ \A m \in Movers : m # j => ~tx[m].on
  BY CreditsAssumption DEF Inv, Values, Locked, Attended, Movers, Wants, Charge
<1>1. Values'
  <2> DEFINE balance == tx[j].balance - meter[j].owed
             crossed == Crossed(tx[j], balance)
  <2>1. balance \in Int /\ crossed \in [low : BOOLEAN, empty : BOOLEAN]
    BY <1>0 DEF Reads, Crossed, Meters
  <2>2. account' \in Accounts
    <3>1. account' = [account EXCEPT !.balance = balance, !.low = @ \/ crossed.low,
                                     !.empty = @ \/ crossed.empty]
      BY DEF Charge
    <3>2. (account.low \/ crossed.low) \in BOOLEAN /\ (account.empty \/ crossed.empty) \in BOOLEAN
      OBVIOUS
    <3> HIDE DEF balance, crossed
    <3> QED  BY <2>1, <3>1, <3>2 DEF Inv, Values, Accounts
  <2>3. meter' \in [Jobs -> Meters]
    <3>1. meter' = [meter EXCEPT ![j] = [meter[j] EXCEPT !.flush = "answer", !.answer = balance]]
      BY <1>0 DEF Inv, Values, Charge
    <3>2. [meter[j] EXCEPT !.flush = "answer", !.answer = balance] \in Meters
      <4> HIDE DEF balance
      <4> QED  BY <1>0, <2>1, MeterCharged
    <3> QED  BY <3>1, <3>2 DEF Inv, Values
  <2>4. told' \in [low : Nat, empty : Nat] /\ ranOut' \subseteq Jobs /\ ledger' \in [moved : Int, debits : Int]
    BY <1>0, <2>1 DEF Inv, Values, Meters, Charge, Noticed, Running
  <2>5. tx' \in [Movers -> Reads]
    <3>1. Nothing \in Reads
      BY DEF Nothing, Reads
    <3> QED  BY <3>1 DEF Inv, Values, Charge
  <2>6. usage' \in [Jobs -> Usages]
    <3>1. meter[j].owed \in Int /\ usage[j] \in Usages
      BY <1>0 DEF Inv, Values, Meters
    <3>2. [usage[j] EXCEPT !.debits = @ + meter[j].owed] \in Usages
      BY <3>1 DEF Usages
    <3>3. usage' = [usage EXCEPT ![j] = [usage[j] EXCEPT !.debits = @ + meter[j].owed]]
      BY DEF Inv, Values, Charge
    <3> QED  BY <3>2, <3>3 DEF Inv, Values
  <2> QED  BY <2>2, <2>3, <2>4, <2>5, <2>6 DEF Inv, Values, Charge
<1>2. Locked'
  <2>1. \A m \in Movers : ~tx'[m].on
    BY <1>0 DEF Inv, Values, Charge, Nothing
  <2> QED  BY <2>1 DEF Locked
<1>3. Attended'
  BY <1>0 DEF Inv, Values, Attended, Meters, Usages, Charge
<1>4. LedgerAgrees'
  BY <1>0 DEF Inv, LedgerAgrees, Values, Accounts, Meters, Charge
<1>5. Charged'
  <2>1. /\ meter'[j].cost = meter[j].cost /\ meter'[j].credits = meter[j].credits
        /\ meter'[j].flush = "answer"
        /\ usage'[j].debits = usage[j].debits + meter[j].owed /\ usage'[j].failed = usage[j].failed
        /\ usage'[j].cost = usage[j].cost /\ usage'[j].legs = usage[j].legs
    BY DEF Inv, Values, Meters, Usages, Charge
  <2>2. Past(j)' = Past(j) /\ Paid(j)' = Paid(j)
    BY <1>0, <2>1 DEF Inv, Values, Past, Paid, Owed, Meters, Usages
  <2>3. \A k \in Jobs : k # j => meter'[k] = meter[k] /\ usage'[k] = usage[k]
    BY DEF Inv, Values, Charge
  <2> QED  BY <2>1, <2>2, <2>3 DEF Inv, Charged, Past, Paid, Owed
<1>6. Stamped'
  <2> DEFINE crossed == Crossed(tx[j], tx[j].balance - meter[j].owed)
  <2>1. /\ crossed.low => ~account.low
        /\ crossed.empty => ~account.empty
    BY <1>0 DEF Crossed
  <2>2. /\ account'.low <=> account.low \/ crossed.low
        /\ account'.empty <=> account.empty \/ crossed.empty
        /\ told'.low = told.low + (IF crossed.low THEN 1 ELSE 0)
        /\ told'.empty = told.empty + (IF crossed.empty THEN 1 ELSE 0)
    BY DEF Inv, Values, Accounts, Charge
  <2> HIDE DEF crossed
  <2> QED  BY <2>1, <2>2 DEF Inv, Values, Stamped
<1>7. Emptied'
  <2> DEFINE balance == tx[j].balance - meter[j].owed
  <2>1. /\ meter'[j].tripped = meter[j].tripped /\ meter'[j].pc = meter[j].pc
        /\ meter'[j].balance = meter[j].balance /\ meter'[j].answer = balance
    BY DEF Inv, Values, Meters, Charge
  <2>2. \A k \in Jobs : k # j => meter'[k] = meter[k]
    BY DEF Inv, Values, Charge
  <2>3. row' = row /\ ranOut' = IF balance > 0 THEN ranOut ELSE ranOut \cup Running
    BY DEF Charge, Noticed
  <2>4. balance \in Int /\ j \in Running
    BY <1>0 DEF Reads, Meters, Running
  <2> HIDE DEF balance
  <2>5. ranOut \subseteq ranOut' /\ (balance <= 0 => j \in ranOut')
    BY <2>3, <2>4
  <2> QED  BY <2>1, <2>2, <2>3, <2>5 DEF Inv, Emptied
<1> QED  BY <1>1, <1>2, <1>3, <1>4, <1>5, <1>6, <1>7 DEF Inv

LEMMA ChargeFailsKeeps ==
  ASSUME Inv, NEW j \in Jobs, ChargeFails(j)
  PROVE  Inv'
<1>0. /\ j \in Movers /\ j # "operator" /\ meter[j].flush = "charge" /\ row[j] = "running"
      /\ meter[j] \in Meters
      /\ tx[j] \in Reads
      /\ tx[j].balance = account.balance /\ tx[j].lastGrant = account.lastGrant
      /\ tx[j].low = account.low /\ tx[j].empty = account.empty
      /\ \A m \in Movers : m # j => ~tx[m].on
  BY CreditsAssumption DEF Inv, Values, Locked, Attended, Movers, Wants, ChargeFails
<1>1. LedgerAgrees' /\ Stamped'
  BY DEF Inv, LedgerAgrees, Stamped, ChargeFails
<1>2. Values'
  <2>1. meter' \in [Jobs -> Meters]
    <3>1. [meter[j] EXCEPT !.flush = "idle"] \in Meters
      BY <1>0 DEF Meters
    <3>2. meter' = [meter EXCEPT ![j] = [meter[j] EXCEPT !.flush = "idle"]]
      BY DEF Inv, Values, ChargeFails
    <3> QED  BY <3>1, <3>2 DEF Inv, Values
  <2>2. usage' \in [Jobs -> Usages]
    <3>1. meter[j].owed \in Int /\ usage[j] \in Usages
      BY <1>0 DEF Inv, Values, Meters
    <3>2. [usage[j] EXCEPT !.failed = @ + meter[j].owed] \in Usages
      BY <3>1 DEF Usages
    <3>3. usage' = [usage EXCEPT ![j] = [usage[j] EXCEPT !.failed = @ + meter[j].owed]]
      BY DEF Inv, Values, ChargeFails
    <3> QED  BY <3>2, <3>3 DEF Inv, Values
  <2>3. tx' \in [Movers -> Reads]
    <3>1. Nothing \in Reads
      BY DEF Nothing, Reads
    <3> QED  BY <3>1 DEF Inv, Values, ChargeFails
  <2> QED  BY <2>1, <2>2, <2>3 DEF Inv, Values, ChargeFails
<1>3. Locked'
  <2>1. \A m \in Movers : ~tx'[m].on
    BY <1>0 DEF Inv, Values, ChargeFails, Nothing
  <2> QED  BY <2>1 DEF Locked
<1>4. Attended'
  BY DEF Inv, Attended, Values, Usages, ChargeFails
<1>5. Charged'
  <2>1. /\ meter'[j].cost = meter[j].cost /\ meter'[j].credits = meter[j].credits
        /\ meter'[j].flush = "idle"
        /\ usage'[j].failed = usage[j].failed + meter[j].owed /\ usage'[j].debits = usage[j].debits
        /\ usage'[j].cost = usage[j].cost /\ usage'[j].legs = usage[j].legs
    BY DEF Inv, Values, Meters, Usages, ChargeFails
  <2>2. Past(j)' = Past(j) /\ Paid(j)' = Paid(j)
    BY <1>0, <2>1 DEF Inv, Values, Past, Paid, Owed, Meters, Usages
  <2>3. \A k \in Jobs : k # j => meter'[k] = meter[k] /\ usage'[k] = usage[k]
    BY DEF Inv, Values, ChargeFails
  <2> QED  BY <2>1, <2>2, <2>3 DEF Inv, Charged, Past, Paid, Owed
<1>6. Emptied'
  BY DEF Inv, Emptied, Values, ChargeFails
<1> QED  BY <1>1, <1>2, <1>3, <1>4, <1>5, <1>6 DEF Inv

LEMMA AnsweredKeeps ==
  ASSUME Inv, NEW j \in Jobs, Answered(j)
  PROVE  Inv'
<1>1. LedgerAgrees' /\ Stamped'
  BY DEF Inv, LedgerAgrees, Stamped, Answered
<1>2. Values'
  <2>1. meter[j] \in Meters
    BY DEF Inv, Values
  <2>2. meter'[j] \in Meters
    BY <2>1, CreditsAssumption DEF Inv, Values, Meters, Answered
  <2>3. meter' \in [Jobs -> Meters]
    BY <2>2 DEF Inv, Values, Answered
  <2> QED  BY <2>3, CreditsAssumption DEF Inv, Values, Accounts, Movers, Answered
<1>3. Locked'
  BY DEF Inv, Locked, Wants, Values, Movers, Answered
<1>4. Attended'
  BY DEF Inv, Attended, Values, Answered
<1>5. Charged'
  BY DEF Inv, Charged, Past, Paid, Owed, Values, Answered
<1>6. Emptied'
  BY DEF Inv, Emptied, Values, Meters, Answered
<1> QED  BY <1>1, <1>2, <1>3, <1>4, <1>5, <1>6 DEF Inv

LEMMA LockBalanceKeeps ==
  ASSUME Inv, NEW m \in Movers, LockBalance(m)
  PROVE  Inv'
<1>1. Attended' /\ LedgerAgrees' /\ Charged' /\ Stamped' /\ Emptied'
  BY DEF Inv, Attended, LedgerAgrees, Charged, Past, Paid, Owed, Stamped, Emptied, LockBalance
<1>2. Values'
  BY DEF Inv, Values, Accounts, Reads, LockBalance
<1>3. Locked'
  BY DEF Inv, Locked, Wants, LockBalance
<1> QED  BY <1>1, <1>2, <1>3 DEF Inv

LEMMA RequestKeeps ==
  ASSUME Inv, NEW k \in {"grant", "adjustment"}, NEW g \in Int,
         (k = "grant" => g \in Nat) /\ Request(k, g)
  PROVE  Inv'
<1>1. Attended' /\ LedgerAgrees' /\ Charged' /\ Stamped' /\ Emptied'
  BY DEF Inv, Attended, LedgerAgrees, Charged, Past, Paid, Owed, Stamped, Emptied, Request
<1>2. Values'
  BY DEF Inv, Values, Request, AtRest
<1>3. Locked'
  BY DEF Inv, Locked, Wants, Request
<1> QED  BY <1>1, <1>2, <1>3 DEF Inv

LEMMA MoveKeeps ==
  ASSUME Inv, Move
  PROVE  Inv'
<1>0. /\ op.pc = "move" /\ "operator" \in Movers
      /\ tx["operator"] \in Reads
      /\ tx["operator"].balance = account.balance
      /\ \A m \in Movers : m # "operator" => ~tx[m].on
  BY DEF Inv, Values, Locked, Attended, Movers, Wants, Move
<1>1. Attended' /\ Charged'
  BY DEF Inv, Attended, Charged, Past, Paid, Owed, Move
<1>2. Values'
  <2>1. account' \in Accounts
    BY <1>0 DEF Inv, Values, Accounts, Move
  <2>2. told' \in [low : Nat, empty : Nat] /\ ranOut' \subseteq Jobs /\ ledger' \in [moved : Int, debits : Int]
    BY DEF Inv, Values, Move, Noticed, Running
  <2>3. tx' \in [Movers -> Reads]
    <3>1. Nothing \in Reads
      BY DEF Nothing, Reads
    <3> QED  BY <3>1 DEF Inv, Values, Move
  <2>4. /\ op' \in [pc : {"idle", "move", "list", "resume"}, kind : {"grant", "adjustment"},
                     credits : Int, list : SUBSET Jobs, left : SUBSET Jobs]
        /\ op'.kind = "grant" => op'.credits \in Nat
    BY DEF Inv, Values, Move, AtRest
  <2> QED  BY <2>1, <2>2, <2>3, <2>4 DEF Inv, Values, Move
<1>3. Locked'
  BY <1>0 DEF Inv, Locked, Values, Move, Nothing
<1>4. LedgerAgrees'
  BY <1>0 DEF Inv, LedgerAgrees, Values, Accounts, Move
<1>5. Stamped'
  BY DEF Inv, Stamped, Move
<1>6. Emptied'
  BY DEF Inv, Emptied, Move, Noticed
<1> QED  BY <1>1, <1>2, <1>3, <1>4, <1>5, <1>6 DEF Inv

LEMMA ListPausedKeeps ==
  ASSUME Inv, ListPaused
  PROVE  Inv'
<1>1. Attended' /\ LedgerAgrees' /\ Charged' /\ Stamped' /\ Emptied'
  BY DEF Inv, Attended, LedgerAgrees, Charged, Past, Paid, Owed, Stamped, Emptied, ListPaused
<1>2. Values'
  BY DEF Inv, Values, ListPaused
<1>3. Locked'
  BY DEF Inv, Locked, Wants, ListPaused
<1> QED  BY <1>1, <1>2, <1>3 DEF Inv

LEMMA ResumePausedKeeps ==
  ASSUME Inv, ResumePaused
  PROVE  Inv'
<1>1. LedgerAgrees' /\ Charged' /\ Stamped'
  BY DEF Inv, LedgerAgrees, Charged, Past, Paid, Owed, Stamped, ResumePaused
<1>2. Values'
  <2> DEFINE Ops == [pc : {"idle", "move", "list", "resume"}, kind : {"grant", "adjustment"},
                     credits : Int, list : SUBSET Jobs, left : SUBSET Jobs]
  <2>1. op \in Ops
    BY DEF Inv, Values
  <2>2. CASE op.list = {} /\ op' = [AtRest EXCEPT !.left = op.left] /\ UNCHANGED row
    BY <2>1, <2>2 DEF Inv, Values, ResumePaused, AtRest
  <2>3. ASSUME NEW j \in op.list, Carry(j) PROVE Values'
    <3>1. op' \in Ops /\ op'.kind = op.kind /\ op'.credits = op.credits
      BY <2>1, <2>3 DEF Carry
    <3>2. row' \in [Jobs -> {"queued", "running", "paused", "done"}]
      BY <2>1, <2>3 DEF Inv, Values, Carry, Revive
    <3> QED  BY <3>1, <3>2 DEF Inv, Values, ResumePaused
  <2>4. ASSUME NEW j \in op.list, LeavePaused(j) PROVE Values'
    <3>1. op' \in Ops /\ op'.kind = op.kind /\ op'.credits = op.credits /\ row' = row
      BY <2>1, <2>4 DEF LeavePaused
    <3> QED  BY <3>1 DEF Inv, Values, ResumePaused
  <2> QED  BY <2>2, <2>3, <2>4 DEF ResumePaused
<1>3. Locked'
  BY DEF Inv, Locked, Wants, ResumePaused, Carry, LeavePaused, AtRest
<1>4. Attended'
  <2>1. \A j \in Jobs : row'[j] = row[j] \/ (row[j] = "paused" /\ row'[j] = "queued")
    <3>1. row' = row \/ \E k \in op.list : row[k] = "paused" /\ row' = [row EXCEPT ![k] = "queued"]
      BY DEF ResumePaused, Carry, LeavePaused, Revive
    <3>2. row \in [Jobs -> {"queued", "running", "paused", "done"}]
      BY DEF Inv, Values
    <3> QED  BY <3>1, <3>2
  <2>2. UNCHANGED <<meter, usage>>
    BY DEF ResumePaused
  <2> QED  BY <2>1, <2>2 DEF Inv, Attended
<1>5. Emptied'
  BY DEF Inv, Emptied, Values, ResumePaused, Carry, LeavePaused, Revive
<1> QED  BY <1>1, <1>2, <1>3, <1>4, <1>5 DEF Inv

LEMMA ResumeByHandKeeps ==
  ASSUME Inv, NEW j \in Jobs, ResumeByHand(j)
  PROVE  Inv'
<1>1. Locked' /\ LedgerAgrees' /\ Charged' /\ Stamped'
  BY DEF Inv, Locked, Wants, LedgerAgrees, Charged, Past, Paid, Owed, Stamped, ResumeByHand
<1>2. Values'
  BY DEF Inv, Values, ResumeByHand, Revive
<1>3. Attended'
  BY DEF Inv, Attended, ResumeByHand, Revive
<1>4. Emptied'
  BY DEF Inv, Emptied, ResumeByHand, Revive
<1> QED  BY <1>1, <1>2, <1>3, <1>4 DEF Inv

-------------------------------------------------------------------------------
LEMMA InitHolds == Init => Inv
<1> SUFFICES ASSUME Init PROVE Inv
  OBVIOUS
<1>1. PICK g \in Grants : account = [balance |-> g, lastGrant |-> g, low |-> FALSE, empty |-> FALSE]
  BY DEF Init
<1>2. g \in Nat /\ NoMeter \in Meters
      /\ Nothing \in Reads /\ NoUsage \in Usages
  BY CreditsAssumption DEF NoMeter, Meters, Nothing, Reads, NoUsage, Usages
<1>3. Values
  BY <1>1, <1>2, CreditsAssumption DEF Init, Values, Accounts, AtRest
<1>4. Locked /\ Attended
  BY DEF Init, Locked, Attended, Nothing, NoMeter
<1>5. LedgerAgrees /\ Stamped
  BY <1>1, <1>2 DEF Init, LedgerAgrees, Stamped
<1>6. Charged
  <2>1. ASSUME NEW j \in Jobs
        PROVE  /\ meter[j].credits = CreditsOf(meter[j].cost) /\ meter[j].cost = 0
               /\ usage[j].legs = 0 /\ ~(usage[j].legs > 1)
               /\ Past(j) = 0 /\ Paid(j) = 0
    <3>1. /\ meter[j].cost = 0 /\ meter[j].credits = 0 /\ meter[j].flush = "idle"
          /\ usage[j] = NoUsage
      BY DEF Init, NoMeter
    <3>2. CreditsOf(meter[j].cost) = 0
      BY <3>1 DEF CreditsOf
    <3>3. usage[j].legs = 0 /\ Past(j) = 0 /\ Paid(j) = 0
      BY <3>1, <3>2 DEF Owed, Past, Paid, NoUsage
    <3>4. ~(0 > 1)
      OBVIOUS
    <3> QED  BY <3>1, <3>2, <3>3, <3>4
  <2> QED  BY <2>1, ZenonT(20) DEF Charged
<1>7. Emptied
  BY DEF Init, Emptied
<1> QED  BY <1>3, <1>4, <1>5, <1>6, <1>7 DEF Inv

LEMMA StepKeeps == Inv /\ [Next]_vars => Inv'
<1> SUFFICES ASSUME Inv, [Next]_vars PROVE Inv'
  OBVIOUS
<1>1. ASSUME NEW j \in Jobs, Body(j) PROVE Inv'
  BY <1>1, ClaimKeeps, StartCallKeeps, RefuseKeeps, EndCallKeeps, EndBodyKeeps, SettleKeeps DEF Body
<1>2. ASSUME NEW j \in Jobs, Till(j) PROVE Inv'
  BY <1>2, FlushKeeps, ChargeKeeps, ChargeFailsKeeps, AnsweredKeeps DEF Till
<1>3. ASSUME NEW g \in Grants, Request("grant", g) PROVE Inv'
  BY <1>3, RequestKeeps, CreditsAssumption
<1>4. ASSUME NEW g \in Adjustments, Request("adjustment", g) PROVE Inv'
  BY <1>4, RequestKeeps, CreditsAssumption
<1>5. ASSUME Operator PROVE Inv'
  BY <1>5, MoveKeeps, ListPausedKeeps, ResumePausedKeeps DEF Operator
<1>6. CASE UNCHANGED vars
  BY <1>6 DEF vars, Inv, Values, Locked, Wants, Attended, LedgerAgrees, Charged, Past, Paid, Owed, Stamped, Emptied
<1> QED  BY <1>1, <1>2, <1>3, <1>4, <1>5, <1>6, LockBalanceKeeps, ResumeByHandKeeps DEF Next

\* Every step of every job, meter, transaction and operator keeps the invariant.
THEOREM Invariance == Spec => []Inv
BY InitHolds, StepKeeps, PTL DEF Spec

\* The ledger's grants and corrections less its debits are the balance, however
\* many jobs charge at once (moveBalance's row lock).
THEOREM LedgerBalances == Spec => []LedgerAgrees
<1>1. Inv => LedgerAgrees
  BY DEF Inv
<1> QED  BY <1>1, Invariance, PTL

\* What a run took from the balance, or failed to take, is its recorded cost rounded
\* once, whatever it was flushed in, and over any number of pauses and resumes within
\* half a credit a leg of it (each leg has a meter of its own).
THEOREM RunsChargedOnce == Spec => []ChargedOnce
<1>1. Inv => ChargedOnce
  <2> SUFFICES ASSUME Inv, NEW j \in Jobs, meter[j].flush # "charge"
               PROVE  /\ usage[j].legs <= 1 =>
                           usage[j].debits + usage[j].failed = CreditsOf(usage[j].cost)
                      /\ usage[j].cost - 2 * usage[j].legs <= 4 * (usage[j].debits + usage[j].failed)
                      /\ 4 * (usage[j].debits + usage[j].failed) <= usage[j].cost + 2 * usage[j].legs
    BY DEF ChargedOnce
  <2> DEFINE cost == meter[j].cost
             credits == CreditsOf(cost)
             all == usage[j].cost
             taken == usage[j].debits + usage[j].failed
             legs == usage[j].legs
  <2>1. meter[j] \in Meters /\ usage[j] \in Usages
    BY DEF Inv, Values
  <2>2. /\ legs \in Nat /\ cost \in Nat /\ taken \in Int /\ all \in Int /\ credits \in Int
        /\ cost - 2 <= 4 * credits /\ 4 * credits <= cost + 2
    BY <2>1, CreditsNear DEF Meters, Usages, CreditsOf
  <2>3. /\ legs = 0 => cost = 0
        /\ legs <= 1 => all - cost = 0 /\ taken - credits = 0
        /\ legs > 1 => /\ (all - cost) - 2 * (legs - 1) <= 4 * (taken - credits)
                       /\ 4 * (taken - credits) <= (all - cost) + 2 * (legs - 1)
    <3>1. Past(j) = all - cost /\ Paid(j) = taken - credits
      <4>1. Owed(j) = 0 /\ meter[j].credits = credits
        BY DEF Inv, Charged, Owed
      <4>2. Paid(j) = taken + 0 - credits
        BY <4>1 DEF Paid
      <4> QED  BY <4>2, <2>2 DEF Past
    <3> QED  BY <3>1 DEF Inv, Charged
  <2>4. legs = 0 => credits = 0
    BY <2>3 DEF CreditsOf
  <2>5. legs <= 1 => taken = credits /\ all = cost
    <3> HIDE DEF credits, taken, all, legs, cost
    <3> QED  BY <2>2, <2>3
  <2>6. all - 2 * legs <= 4 * taken /\ 4 * taken <= all + 2 * legs
    <3> HIDE DEF credits, taken, all, legs, cost
    <3>1. CASE legs = 0
      BY <3>1, <2>2, <2>3, <2>4, <2>5
    <3>2. CASE legs = 1
      BY <3>2, <2>2, <2>5
    <3>3. CASE legs > 1
      BY <3>3, <2>2, <2>3
    <3> QED  BY <3>1, <3>2, <3>3, <2>2
  <2> QED  BY <2>5, <2>6
<1> QED  BY <1>1, Invariance, PTL

\* The low and the empty warning are given once per grant, whatever is charged and
\* corrected in between (the stamps of credit_balances).
THEOREM WarningsOnce == Spec => []WarnedOnce
<1>1. Inv => WarnedOnce
  BY DEF Inv, Stamped, WarnedOnce
<1> QED  BY <1>1, Invariance, PTL

\* A job is paused only when its workspace's balance was used up during its run (the
\* gate's verdict, read off charges that may still be on their way to the meter).
THEOREM PausesAreEmpty == Spec => []PausedOnlyWhenEmpty
<1>1. Inv => PausedOnlyWhenEmpty
  BY DEF Inv, Emptied, PausedOnlyWhenEmpty
<1> QED  BY <1>1, Invariance, PTL
===============================================================================
