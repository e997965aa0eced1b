---------------------------- MODULE MCSafepoint ----------------------------
(* Model checking Safepoint on two and three mutators. *)
EXTENDS Safepoint, TLC

Symmetry == Permutations(Mutators)
=============================================================================
