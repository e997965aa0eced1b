---------------------------- MODULE StaticCards ----------------------------
(***************************************************************************)
(* The static area's remembered set (ncl-runtime mutator.rs).  Symbols and *)
(* Functions live in pinned static cells; a minor collection finds the     *)
(* heap objects they hold only through the dirty cards of those cells.     *)
(* A mutator stores a cell and then marks its card; the collecting mutator *)
(* scans the dirty cards with the world stopped and cleans the cards that  *)
(* hold no heap pointer AFTER the world has been resumed.                  *)
(*                                                                         *)
(* One model cell stands for one value, function or env cell.  What the    *)
(* page heap does to an object is reduced to its address: an object at     *)
(* home[o] moves to the other address when a collection condemns and finds *)
(* it, and is Free when it is condemned and not found.                     *)
(***************************************************************************)
EXTENDS Naturals, Sequences, FiniteSets

CONSTANTS Mutators,     \* threads running Lisp
          Objects,      \* heap objects
          NCells,       \* static cells that can be bump-allocated
          CardCells,    \* CARD_SIZE_CELLS
          MaxBindings,  \* bound: dynamic bindings a thread has in force
          BindPointers  \* dynamic bindings of or over heap pointers too

Immediate == "immediate"       \* NIL, UNBOUND, a fixnum: no heap pointer

ASSUME StaticAssumption ==
  /\ Immediate \notin Objects
  /\ NCells \in Nat /\ CardCells \in Nat \ {0}
  /\ MaxBindings \in Nat /\ BindPointers \in BOOLEAN

VARIABLES used,    \* StaticArea.top: cells 1..used are allocated
          cell,    \* contents of the static cells
          dirty,   \* the dirty cards
          home,    \* object -> its address, or Free
          old,     \* objects promoted out of the young generation
          reg,     \* the one heap value a mutator's roots hold, or Immediate
          bound,   \* the bindings a mutator has in force: cell, value saved
          pc,      \* where a mutator is
          at,      \* the cell (card, limit) a mutator is working on
          behind,  \* ghost: cells stored after the sweep has read them
          lost,    \* ghost: cells stored beside the barrier, or whose card was
                   \* cleaned after such a late store, until a mark of the card
          missed   \* ghost: a collection has passed over a lost cell

vars == <<used, cell, dirty, home, old, reg, bound, pc, at, behind, lost, missed>>
ghosts == <<behind, lost, missed>>

Free == 2
Cells == 1..NCells
CardOf(c) == (c - 1) \div CardCells
Cards == {CardOf(c) : c \in Cells}
CellsOf(k) == {c \in Cells : CardOf(c) = k}

\* A word is Immediate or the object and the address it points to.
Word(o) == IF o = Immediate THEN [obj |-> o, addr |-> 0]
                            ELSE [obj |-> o, addr |-> home[o]]
IsPointer(w) == w.obj # Immediate
Nowhere == [cell |-> 0, limit |-> 0]

Init == /\ used = 0
        /\ cell = [c \in Cells |-> [obj |-> Immediate, addr |-> 0]]
        /\ dirty = {}
        /\ home = [o \in Objects |-> Free]
        /\ old = {}
        /\ reg = [m \in Mutators |-> Immediate]
        /\ bound = [m \in Mutators |-> <<>>]
        /\ pc = [m \in Mutators |-> "run"]
        /\ at = [m \in Mutators |-> Nowhere]
        /\ behind = {} /\ lost = {} /\ missed = FALSE

------------------------------------------------------------------------------
(* Mutators.                                                                *)

\* The sweep of mutator m has yet to read cell c.
WillRead(m, c) == pc[m] = "sweep" /\ c \in at[m].cell..at[m].limit

\* Cell c is stored: behind a sweep, if one goes on and has passed it.
Touch(c) ==
  behind' = IF \E m \in Mutators : pc[m] \in {"sweep", "clean"} /\ ~WillRead(m, c)
              THEN behind \cup {c} ELSE behind

\* Cell c is stored with no mark to follow.
Beside(c) == lost' = IF IsPointer(cell'[c]) THEN lost \cup {c} ELSE lost \ {c}

\* A heap allocation: a young object in the mutator's root.
Allocate(m) ==
  /\ pc[m] = "run"
  /\ \E o \in Objects :
       /\ home[o] = Free
       /\ home' = [home EXCEPT ![o] = 0]
       /\ old' = old \ {o}
       /\ reg' = [reg EXCEPT ![m] = o]
  /\ UNCHANGED <<used, cell, dirty, bound, pc, at, ghosts>>

\* symbol_value / symbol_function, or dropping the value.
Load(m) ==
  /\ pc[m] = "run"
  /\ \E w \in {cell[c] : c \in 1..used} \cup {[obj |-> Immediate, addr |-> 0]} :
       reg' = [reg EXCEPT ![m] = w.obj]
  /\ UNCHANGED <<used, cell, dirty, home, old, bound, pc, at, ghosts>>

\* set_symbol_value, set_symbol_function and a cas_symbol_function that
\* succeeds: the store-release ...
Store(m, c) ==
  /\ pc[m] = "run"
  /\ c <= used
  /\ cell' = [cell EXCEPT ![c] = Word(reg[m])]
  /\ pc' = [pc EXCEPT ![m] = "mark"]
  /\ at' = [at EXCEPT ![m].cell = c]
  /\ Touch(c) /\ lost' = lost \ {c}
  /\ UNCHANGED <<used, dirty, home, old, reg, bound, missed>>

\* ... and then the card mark, unconditional.
MarkCard(m) ==
  /\ pc[m] = "mark"
  /\ dirty' = dirty \cup {CardOf(at[m].cell)}
  /\ pc' = [pc EXCEPT ![m] = "run"]
  /\ at' = [at EXCEPT ![m] = Nowhere]
  /\ lost' = lost \ CellsOf(CardOf(at[m].cell))
  /\ UNCHANGED <<used, cell, home, old, reg, bound, behind, missed>>

\* ncl_dynamic_bind: the value goes in with no card mark; the old value is
\* kept by compiled code, on the machine stack.
DynamicBind(m, c) ==
  /\ pc[m] = "run"
  /\ c <= used /\ Len(bound[m]) < MaxBindings
  /\ BindPointers \/ (reg[m] = Immediate /\ ~IsPointer(cell[c]))
  /\ bound' = [bound EXCEPT ![m] = Append(@, [cell |-> c, saved |-> cell[c]])]
  /\ cell' = [cell EXCEPT ![c] = Word(reg[m])]
  /\ Touch(c) /\ Beside(c)
  /\ UNCHANGED <<used, dirty, home, old, reg, pc, at, missed>>

\* ncl_dynamic_unbind; an abort in the body returns past the call of it.
DynamicUnbind(m) ==
  /\ pc[m] = "run"
  /\ bound[m] # <<>>
  /\ LET b == bound[m][Len(bound[m])] IN
       \/ /\ cell' = [cell EXCEPT ![b.cell] = b.saved]
          /\ Touch(b.cell) /\ Beside(b.cell)
       \/ UNCHANGED <<cell, behind, lost>>
  /\ bound' = [bound EXCEPT ![m] = SubSeq(@, 1, Len(@) - 1)]
  /\ UNCHANGED <<used, dirty, home, old, reg, pc, at, missed>>

BumpUnchecked(m) ==          \* mutant: the reservation's end is not checked
  /\ pc[m] = "run"
  /\ used' = used + 1
  /\ pc' = [pc EXCEPT ![m] = "fill"]
  /\ at' = [at EXCEPT ![m].cell = used + 1]
  /\ UNCHANGED <<cell, dirty, home, old, reg, bound, ghosts>>

\* alloc_symbol_in_static / alloc_function_in_static: the CAS bump ...
BumpStatic(m) ==
  /\ pc[m] = "run"
  /\ used < NCells
  /\ used' = used + 1
  /\ pc' = [pc EXCEPT ![m] = "fill"]
  /\ at' = [at EXCEPT ![m].cell = used + 1]
  /\ UNCHANGED <<cell, dirty, home, old, reg, bound, ghosts>>

\* ... then the payload: make_closure writes the env (a fresh symbol an
\* immediate) and marks the card only if the env is not NIL.
FillStatic(m) ==
  /\ pc[m] = "fill"
  /\ cell' = [cell EXCEPT ![at[m].cell] = Word(reg[m])]
  /\ IF reg[m] = Immediate
       THEN pc' = [pc EXCEPT ![m] = "run"] /\ at' = [at EXCEPT ![m] = Nowhere]
       ELSE pc' = [pc EXCEPT ![m] = "mark"] /\ at' = at
  /\ Touch(at[m].cell)
  /\ UNCHANGED <<used, dirty, home, old, reg, bound, lost, missed>>

------------------------------------------------------------------------------
(* The collecting mutator: drive_minor.                                     *)

ScannedPastEnd == {c \in 1..used : CardOf(c) \in dirty /\ c < used}   \* mutant

\* scan_static_dirty_cards offers these cells to the evacuator.
ScannedCells == {c \in 1..used : CardOf(c) \in dirty}

\* A scanned word that is no object's present address is not rewritten.
PresentCells == {c \in ScannedCells : IsPointer(cell[c]) /\ cell[c].addr = home[cell[c].obj]}

\* The collection proper, with the world stopped: no other mutator is between
\* two of its steps, for it has parked at a poll.  A cascade condemns
\* promoted objects too.  The mutators' roots and the scanned cells keep
\* objects alive and are rewritten; a word on a machine stack keeps its
\* object alive and where it is.
Pinned == UNION {{bound[n][i].saved.obj : i \in 1..Len(bound[n])} : n \in Mutators}

Collect(m) ==
  /\ \A n \in Mutators : pc[n] = "run"
  /\ \E cascade \in BOOLEAN :
       LET live      == {o \in Objects : home[o] # Free}
           condemned == IF cascade THEN live ELSE live \ old
           found     == condemned \cap ({reg[n] : n \in Mutators} \cup Pinned
                                          \cup {cell[c].obj : c \in PresentCells})
           moved     == found \ Pinned
       IN /\ home' = [o \in Objects |-> IF o \in moved THEN 1 - home[o]
                                        ELSE IF o \in found THEN home[o]
                                        ELSE IF o \in condemned THEN Free
                                        ELSE home[o]]
          /\ old' = (old \ condemned) \cup found
          /\ cell' = [c \in Cells |->
               IF c \in PresentCells /\ cell[c].obj \in moved
                 THEN [cell[c] EXCEPT !.addr = home'[cell[c].obj]] ELSE cell[c]]
  /\ pc' = [pc EXCEPT ![m] = "resumed"]
  /\ missed' = (missed \/ \E c \in lost \ ScannedCells : IsPointer(cell[c]))
  /\ UNCHANGED <<used, dirty, reg, bound, at, behind, lost>>

\* The world runs again; clear_static_cards_unless_intergen starts by reading
\* used_cells once.
BeginClear(m) ==
  /\ pc[m] = "resumed"
  /\ at' = [at EXCEPT ![m] = [cell |-> 1, limit |-> used]]
  /\ pc' = [pc EXCEPT ![m] = "sweep"]
  /\ behind' = {}
  /\ UNCHANGED <<used, cell, dirty, home, old, reg, bound, lost, missed>>

NextCard(c) == (CardOf(c) + 1) * CardCells + 1

SweepIgnoresPointers(m) ==     \* mutant: every dirty card is cleaned
  LET c == at[m].cell IN
  /\ pc[m] = "sweep"
  /\ c <= at[m].limit
  /\ pc' = [pc EXCEPT ![m] = "clean"]
  /\ UNCHANGED <<used, cell, dirty, home, old, reg, bound, at, ghosts>>

\* One iteration of its loops: skip a clean card, read one cell, keep the
\* card of a cell that holds a pointer; past the last cell the card is cleaned.
\* A card's dirty byte is read once, before its first cell.
SweepCell(m) ==
  LET c == at[m].cell IN
  /\ pc[m] = "sweep"
  /\ c <= at[m].limit
  /\ LET skip == \/ c % CardCells = 1 % CardCells /\ CardOf(c) \notin dirty
                 \/ IsPointer(cell[c])
         last == c = at[m].limit \/ CardOf(c + 1) # CardOf(c)
     IN IF skip THEN /\ at' = [at EXCEPT ![m].cell = NextCard(c)]
                     /\ pc' = pc
        ELSE IF last THEN at' = at /\ pc' = [pc EXCEPT ![m] = "clean"]
        ELSE at' = [at EXCEPT ![m].cell = c + 1] /\ pc' = pc
  /\ UNCHANGED <<used, cell, dirty, home, old, reg, bound, ghosts>>

CleanCard(m) ==
  /\ pc[m] = "clean"
  /\ dirty' = dirty \ {CardOf(at[m].cell)}
  /\ at' = [at EXCEPT ![m].cell = NextCard(at[m].cell)]
  /\ pc' = [pc EXCEPT ![m] = "sweep"]
  /\ lost' = lost \cup (behind \cap CellsOf(CardOf(at[m].cell)))
  /\ UNCHANGED <<used, cell, home, old, reg, bound, behind, missed>>

EndClear(m) ==
  /\ pc[m] = "sweep"
  /\ at[m].cell > at[m].limit
  /\ at' = [at EXCEPT ![m] = Nowhere]
  /\ pc' = [pc EXCEPT ![m] = "run"]
  /\ UNCHANGED <<used, cell, dirty, home, old, reg, bound, ghosts>>

Next == \E m \in Mutators :
          \/ Allocate(m) \/ Load(m) \/ MarkCard(m) \/ BumpStatic(m)
          \/ FillStatic(m) \/ Collect(m) \/ BeginClear(m) \/ SweepCell(m)
          \/ CleanCard(m) \/ EndClear(m)
          \/ DynamicUnbind(m)
          \/ \E c \in Cells : Store(m, c) \/ DynamicBind(m, c)

Spec == Init /\ [][Next]_vars

------------------------------------------------------------------------------
(* Properties.                                                              *)

\* Every variable has its type; the bump pointer stays inside the reservation
\* (StaticArea::try_alloc_cells).
TypeOK ==
  /\ used \in 0..NCells
  /\ cell \in [Cells -> [obj : Objects \cup {Immediate}, addr : 0..2]]
  /\ dirty \subseteq Cards
  /\ home \in [Objects -> 0..2]
  /\ old \subseteq Objects
  /\ reg \in [Mutators -> Objects \cup {Immediate}]
  /\ \A m \in Mutators : Len(bound[m]) <= MaxBindings
  /\ pc \in [Mutators -> {"run", "mark", "fill", "resumed", "sweep", "clean"}]
  /\ at \in [Mutators -> [cell : Nat, limit : 0..NCells]]
  /\ behind \subseteq Cells /\ lost \subseteq Cells /\ missed \in BOOLEAN

\* Cell c is covered: if it holds a heap pointer, it is in a dirty card, or
\* the mutator that has just stored it is about to mark the card.
Covered(c) ==
  IsPointer(cell[c]) =>
    \/ CardOf(c) \in dirty
    \/ \E m \in Mutators : pc[m] = "mark" /\ at[m].cell = c

\* The discipline CardTable asks for of every static cell, which
\* ncl_dynamic_bind breaks (abi.rs), and a sweep beside a second mutator.
StaticRemembered == \A c \in Cells : Covered(c)

\* What the barrier and the sweep do keep, whatever the number of mutators:
\* only a cell stored beside the barrier, or stored after the sweep has read
\* it and before it cleans the card, is ever off the dirty cards (mutator.rs
\* set_symbol_*, abi.rs make_closure, clear_static_cards_unless_intergen).
OnlyLostForgotten == \A c \in Cells \ lost : Covered(c)

\* What the discipline is for: every pointer in a static cell is the present
\* address of a live object, through any number of collections and cascades
\* (drive_minor with scan_static_dirty_cards).
NoStaleCell ==
  \A c \in Cells : IsPointer(cell[c]) =>
    /\ home[cell[c].obj] # Free
    /\ cell[c].addr = home[cell[c].obj]

\* No cell is stale before a collection has passed over a lost one: marks that
\* precede their stores, a collection between another mutator's store and its
\* mark, or a scan that leaves out a cell would make it so.
StaleOnlyIfMissed == missed \/ NoStaleCell
=============================================================================
