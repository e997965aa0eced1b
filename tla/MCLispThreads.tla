-------------------------- MODULE MCLispThreads ---------------------------
\* Instances of LispThreads, as ThreadControl has it: a primary thread and a few workers.
EXTENDS ThreadControl, TLC
=============================================================================
