--------------------------- MODULE MCStaticCards ---------------------------
\* Instances of StaticCards: two mutators, and one that collects its own heap.
EXTENDS StaticCards, TLC

Symmetric == Permutations(Objects) \cup Permutations(Mutators)

\* bound: nothing is explored after a collection has passed over a lost cell
BeforeMiss == ~missed
=============================================================================
