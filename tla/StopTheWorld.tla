---------------------------- MODULE StopTheWorld ----------------------------
(***************************************************************************)
(* What the safepoint rendezvous promises, without saying how: a           *)
(* collection happens while no other mutator is in managed code, it moves  *)
(* the roots of every mutator that is standing still, and a mutator goes   *)
(* back to managed code only between collections.                          *)
(***************************************************************************)
EXTENDS Naturals

CONSTANTS Mutators, NoOne

VARIABLES place,      \* "absent", "managed" or "halted", for each mutator
          collector,  \* the mutator that is collecting, or NoOne
          addr,       \* where each mutator believes its objects are
          gen,        \* where the objects are
          broken      \* a collection died half-way

vars == <<place, collector, addr, gen, broken>>

Init ==
  /\ place = [m \in Mutators |-> "absent"]
  /\ collector = NoOne
  /\ addr \in [Mutators -> {0}]
  /\ gen = 0
  /\ broken = FALSE

Join(m) ==
  /\ collector = NoOne
  /\ place[m] = "absent"
  /\ place' = [place EXCEPT ![m] = "managed"]
  /\ addr' = [addr EXCEPT ![m] = gen]
  /\ UNCHANGED <<collector, gen, broken>>

Halt(m) ==
  /\ place[m] = "managed"
  /\ place' = [place EXCEPT ![m] = "halted"]
  /\ UNCHANGED <<collector, addr, gen, broken>>

Proceed(m) ==
  /\ collector = NoOne
  /\ place[m] = "halted"
  /\ place' = [place EXCEPT ![m] = "managed"]
  /\ UNCHANGED <<collector, addr, gen, broken>>

Leave(m) ==
  /\ place[m] # "absent"
  /\ m # collector
  /\ place' = [place EXCEPT ![m] = "absent"]
  /\ UNCHANGED <<collector, addr, gen, broken>>

Begin(d) ==
  /\ collector = NoOne
  /\ place[d] = "halted"
  /\ \A m \in Mutators : place[m] # "managed"
  /\ ~broken
  /\ collector' = d
  /\ UNCHANGED <<place, addr, gen, broken>>

End(d) ==
  /\ collector = d
  /\ collector' = NoOne
  /\ gen' = gen + 1
  /\ addr' = [m \in Mutators |->
                IF place[m] = "halted" THEN gen + 1 ELSE addr[m]]
  /\ UNCHANGED <<place, broken>>

Abort(d) ==
  /\ collector = d
  /\ collector' = NoOne
  /\ broken' = TRUE
  /\ UNCHANGED <<place, addr, gen>>

\* After an abort nothing is promised about addresses any more, and there
\* is no further collection.
Wander ==
  /\ broken
  /\ collector = NoOne
  /\ place' \in [Mutators -> {"absent", "managed", "halted"}]
  /\ addr' \in [Mutators -> 0..gen]
  /\ UNCHANGED <<collector, gen, broken>>

Next ==
  \/ \E m \in Mutators :
       \/ Join(m) \/ Halt(m) \/ Proceed(m) \/ Leave(m)
       \/ Begin(m) \/ End(m) \/ Abort(m)
  \/ Wander

Spec == Init /\ [][Next]_vars
=============================================================================
