----------------------------- MODULE MCPageHeap -----------------------------
(* Model checking PageHeap on a few pages of one or two slots. *)
EXTENDS PageHeap, TLC
=============================================================================
