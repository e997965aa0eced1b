----------------------------- MODULE LispGraph -----------------------------
(***************************************************************************)
(* What the heap of NewCL promises a Lisp program: a mutable graph of      *)
(* conses.  A slot (a root, or a word of the thread's stack) denotes an    *)
(* object or nil, and every reachable object has one link.  Nothing here   *)
(* has an address, and there is no collector: a collection must not be     *)
(* visible, whatever it moves, pins, frees or cards.                       *)
(*                                                                         *)
(* Only what the slots reach exists, so that an object of the              *)
(* implementation may be reclaimed exactly when this graph has lost it.    *)
(***************************************************************************)
EXTENDS Naturals, FiniteSets

CONSTANTS Slots, Ids, Nil

VARIABLES head,     \* the object each slot denotes
          links     \* {<<i, j>>}: the reachable object i links to j

graph == <<head, links>>

\* The part of the links L that the slots h reach.
Live(h, L) ==
  LET Heads == {h[s] : s \in Slots} \ {Nil}
      Sets  == {U \in SUBSET (Ids \ Heads) :
                  \A l \in L : l[1] \in Heads \cup U => l[2] \in Heads \cup U \cup {Nil}}
  IN {l \in L : l[1] \in Heads \/ \A U \in Sets : l[1] \in U}

Init ==
  /\ head = [s \in Slots |-> Nil]
  /\ links = {}

Becomes(h, L) == head' = h /\ links' = Live(h, L)

\* A new object, linked to what t denotes.
Cons(s, t) ==
  \E i \in Ids \ {l[1] : l \in links} :
    Becomes([head EXCEPT ![s] = i], links \cup {<<i, head[t]>>})

\* (rplacd s t)
Rplacd(s, t) ==
  /\ head[s] # Nil
  /\ Becomes(head, {l \in links : l[1] # head[s]} \cup {<<head[s], head[t]>>})

\* s := (cdr t)
Cdr(s, t) ==
  /\ head[t] # Nil
  /\ \E l \in links : l[1] = head[t] /\ Becomes([head EXCEPT ![s] = l[2]], links)

\* s := t
Move(s, t) == Becomes([head EXCEPT ![s] = head[t]], links)

\* s := nil
Clear(s) == Becomes([head EXCEPT ![s] = Nil], links)

Next ==
  \/ \E s, t \in Slots : Move(s, t) \/ Rplacd(s, t) \/ Cdr(s, t) \/ Cons(s, t)
  \/ \E s \in Slots : Clear(s)

Spec == Init /\ [][Next]_graph
=============================================================================
