-------------------------- MODULE MCLispMonitor ---------------------------
\* Instances of LispMonitor.
EXTENDS LispMonitor, TLC

Symmetric  == Permutations(Threads)
OnePair    == {<<1, 1>>}
NoPairs    == {}
=============================================================================
