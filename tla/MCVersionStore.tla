---------------------------- MODULE MCVersionStore ----------------------------
\* Small instances of VersionStore for TLC: actors and bodies are model values.
EXTENDS VersionStore
===============================================================================
