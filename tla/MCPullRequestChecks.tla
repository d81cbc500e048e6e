-------------------------- MODULE MCPullRequestChecks --------------------------
\* Small instances of PullRequestChecks for TLC: calls are model values.
EXTENDS PullRequestChecks
===============================================================================
