------------------------------ MODULE MCJobRunner ------------------------------
(***************************************************************************)
(* Instances of JobRunner for TLC.  A job id's workspace and key are fixed *)
(* beforehand, so an instance is a choice of how many rows may ever be     *)
(* created under which key.                                                *)
(***************************************************************************)
EXTENDS JobRunner, TLC

CONSTANTS j1, j2, j3, o1, o2, k1, k2, p1, p2, w1, w2, e1, e2, c1

\* Three rows of one key of one workspace.
OneKeyOrg == [j \in JobIds |-> o1]
OneKeyKey == [j \in JobIds |-> k1]

\* Two keys of one workspace, a row each.
TwoKeysOrg == [j \in JobIds |-> o1]
TwoKeysKey == j1 :> k1 @@ j2 :> k2

\* One key name in two workspaces ('context.scan', or one repository connected twice).
TwoOrgsOrg == j1 :> o1 @@ j2 :> o2
TwoOrgsKey == j1 :> k1 @@ j2 :> k1

\* Everything lives in one process; or each worker has a process of its own.
OneHome == [x \in {w1, w2, e1, e2, c1} |-> p1]
TwoHomes == w1 :> p1 @@ w2 :> p2 @@ e1 :> p1 @@ e2 :> p2 @@ c1 :> p1

\* Workers, and the callers of one process, are interchangeable.
Symmetry == Permutations({w1, w2}) \cup Permutations({e1, e2})
===============================================================================
