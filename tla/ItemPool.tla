------------------------------- MODULE ItemPool -------------------------------
(***************************************************************************)
(* What a session pool promises its caller: every item is worked on, at     *)
(* most once more when it was put off, and folded once, one fold at a time, *)
(* unless the run is stopped; once it is, nothing is begun, and the pool    *)
(* returns when nothing is worked on any more.                             *)
(***************************************************************************)
CONSTANT Items
VARIABLES item, stopped, result

poolVars == <<item, stopped, result>>

Init ==
  /\ item = [i \in Items |-> "todo"]
  /\ stopped = FALSE /\ result = "none"

Begin(i) ==
  /\ ~stopped
  /\ \/ item[i] = "todo" /\ item' = [item EXCEPT ![i] = "working"]
     \/ item[i] = "off" /\ item' = [item EXCEPT ![i] = "reworking"]
  /\ UNCHANGED <<stopped, result>>

AtWork(i) == item[i] \in {"working", "reworking"}

PutOff(i) ==
  /\ item[i] = "working" /\ item' = [item EXCEPT ![i] = "off"]
  /\ UNCHANGED <<stopped, result>>

\* The item is left as it stands, and the run is stopped with it.
Leave(i) ==
  /\ AtWork(i) /\ item' = [item EXCEPT ![i] = "parked"]
  /\ stopped' = TRUE /\ UNCHANGED result

Fold(i) ==
  /\ AtWork(i) /\ \A k \in Items : item[k] # "folding"
  /\ item' = [item EXCEPT ![i] = "folding"]
  /\ UNCHANGED <<stopped, result>>

Land(i) ==
  /\ item[i] = "folding"
  /\ \/ item' = [item EXCEPT ![i] = "folded"] /\ UNCHANGED result
     \* The first fold that breaks breaks the pool.
     \/ /\ item' = [item EXCEPT ![i] = "broken"]
        /\ result' \in {result} \cup (IF result = "none" THEN {"rejected"} ELSE {})
  /\ UNCHANGED stopped

\* The run is aborted.
Stop == stopped' = TRUE /\ UNCHANGED <<item, result>>

Return ==
  /\ result = "none" /\ \A i \in Items : ~AtWork(i) /\ item[i] \notin {"folding", "broken"}
  /\ \/ result' = "returned" /\ (stopped \/ \A i \in Items : item[i] = "folded")
     \/ result' = "paused" /\ stopped
  /\ UNCHANGED <<item, stopped>>

Next == (\E i \in Items : Begin(i) \/ PutOff(i) \/ Leave(i) \/ Fold(i) \/ Land(i)) \/ Stop \/ Return

Spec == Init /\ [][Next]_poolVars
===============================================================================
