----------------------------- MODULE JobLifecycle -----------------------------
(***************************************************************************)
(* What the job runner promises its callers: the work of one workspace's   *)
(* key is done by one job at a time, and a job waits, works and ends once. *)
(* No rows, tickets, workers or processes: those are JobRunner's, which    *)
(* implements this specification in one process without cancels.          *)
(***************************************************************************)
CONSTANTS JobIds, Flight(_)    \* Flight: what no two jobs may work on at once

VARIABLE phase

Phases == {"absent", "waiting", "working", "paused", "done"}

\* Nobody else waits to do, or does, j's work.
Free(j) ==
  \A i \in JobIds \ {j} : Flight(i) = Flight(j) => phase[i] \notin {"waiting", "working"}

Init == phase = [j \in JobIds |-> "absent"]

Move(j, from, to) == phase[j] = from /\ phase' = [phase EXCEPT ![j] = to]

Submit(j) == Free(j) /\ Move(j, "absent", "waiting")
Begin(j) == Move(j, "waiting", "working")
Withdraw(j) == Move(j, "waiting", "done") \/ Move(j, "waiting", "paused")
End(j) == Move(j, "working", "done") \/ Move(j, "working", "paused")
Resume(j) == Free(j) /\ Move(j, "paused", "waiting")

\* Paused jobs nobody will carry on: superseded, or their work is unwanted.
Drop(S) ==
  /\ \A j \in S : phase[j] = "paused"
  /\ phase' = [j \in JobIds |-> IF j \in S THEN "done" ELSE phase[j]]

\* A restart ends whatever waited or worked.
Reap ==
  phase' = [j \in JobIds |-> IF phase[j] \in {"waiting", "working"} THEN "done" ELSE phase[j]]

Next ==
  \/ \E j \in JobIds : Submit(j) \/ Begin(j) \/ Withdraw(j) \/ End(j) \/ Resume(j)
  \/ \E S \in SUBSET JobIds : Drop(S)
  \/ Reap

Spec == Init /\ [][Next]_phase

\* At most one job works on a flight: the guarantee single flight is for.
OneWorker ==
  \A i, j \in JobIds :
    phase[i] = "working" /\ phase[j] = "working" /\ Flight(i) = Flight(j) => i = j
===============================================================================
