---------------------------- MODULE MCSessionPool ----------------------------
\* Small instances of SessionPool for TLC.
EXTENDS SessionPool, TLC

\* Three groups, the first of two items.
FourItems == 1 :> "a" @@ 2 :> "b" @@ 3 :> "a" @@ 4 :> "c"
===============================================================================
