------------------------------ MODULE MCMainChain ------------------------------
\* Small instances of MainChain for TLC: hooks are model values, and the faults
\* each run lets happen.
EXTENDS MainChain

\* What may fail while a push that is owed is still served in the end: a cancel
\* serves nothing on purpose, and a start that throws is only logged.
ServedFaults == {"sync_fails", "scan_fails", "link_fails"}
===============================================================================
