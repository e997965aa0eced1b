------------------------- MODULE StaticCardsProofs -------------------------
(***************************************************************************)
(* The static area's card discipline, for any number of mutators, objects  *)
(* and cells, any size of card, and bindings of heap pointers or not: only *)
(* the cells the ghost `lost' names are ever forgotten, and no cell is     *)
(* stale before a collection has passed over one of those.                 *)
(* Three invariants, each resting on the one before: Basic (types and      *)
(* places), CardInv (what a sweep has read), FreshInv (addresses).         *)
(***************************************************************************)
EXTENDS StaticCards, SequenceTheorems, TLAPS

Words == [obj : Objects \cup {Immediate}, addr : 0..2]
Saved == [cell : Cells, saved : Words]
Places == {"run", "mark", "fill", "resumed", "sweep", "clean"}

\* The bindings in force are of allocated cells.
BoundInv ==
  /\ bound \in [Mutators -> Seq(Saved)]
  /\ \A m \in Mutators : \A i \in 1..Len(bound[m]) : bound[m][i].cell <= used

\* Cells beyond the bump pointer hold nothing.
TopInv == \A c \in Cells : c > used => ~IsPointer(cell[c])

\* What a mutator is working on is allocated.
PlaceInv ==
  \A m \in Mutators :
    /\ pc[m] \in {"mark", "fill"} => at[m].cell \in 1..used
    /\ pc[m] \in {"sweep", "clean"} => at[m].cell # 0 /\ at[m].limit <= used

\* At most one mutator has a collection to clean up after.
OneSweep ==
  \A m, n \in Mutators :
    pc[m] \in {"resumed", "sweep", "clean"} /\ pc[n] \in {"resumed", "sweep", "clean"} => m = n

Basic == TypeOK /\ BoundInv /\ TopInv /\ PlaceInv /\ OneSweep

\* The sweep of m will not read c before it cleans the card it is at.
Passed(m, c) ==
  /\ pc[m] \in {"sweep", "clean"}
  /\ \/ c > at[m].limit
     \/ CardOf(c) = CardOf(at[m].cell) /\ (pc[m] = "clean" \/ c < at[m].cell)

\* A cell that the sweep has passed holds a pointer only if it has been stored
\* since.
SweepInv ==
  \A m \in Mutators : \A c \in Cells : Passed(m, c) => ~IsPointer(cell[c]) \/ c \in behind

CardInv == SweepInv /\ OnlyLostForgotten

\* A word that, if a pointer, is the address of a live object.
Intact(w) == IsPointer(w) => home[w.obj] # Free /\ w.addr = home[w.obj]

RootsIntact == \A m \in Mutators : reg[m] # Immediate => home[reg[m]] # Free
SavedIntact == \A m \in Mutators : \A i \in 1..Len(bound[m]) : Intact(bound[m][i].saved)

FreshInv == missed \/ (RootsIntact /\ SavedIntact /\ NoStaleCell)

-----------------------------------------------------------------------------
(* Cards.                                                                  *)

\* Cards follow one another as their cells do.
LEMMA CardOrder ==
  ASSUME NEW c \in Nat \ {0}, NEW d \in Nat \ {0}
  PROVE  /\ CardOf(c) \in Nat
         /\ c <= d => CardOf(c) <= CardOf(d)
<1>1. c - 1 \in Nat /\ d - 1 \in Nat /\ CardCells \in Nat \ {0}
  BY StaticAssumption
<1>2. ASSUME NEW a \in Nat, NEW b \in Nat, NEW s \in Nat \ {0}
      PROVE  a \div s \in Nat /\ (a <= b => a \div s <= b \div s)
  OBVIOUS
<1> QED
  BY <1>1, <1>2 DEF CardOf

\* The sweep goes on at the first cell of the next card.
LEMMA NextCardFirst ==
  ASSUME NEW c \in Nat \ {0}
  PROVE  /\ NextCard(c) \in Nat \ {0}
         /\ \A d \in Nat \ {0} : d < NextCard(c) => CardOf(d) # CardOf(NextCard(c))
<1>1. CardOf(c) \in Nat /\ CardCells \in Nat \ {0}
  BY CardOrder, StaticAssumption
<1>2. ASSUME NEW k \in Nat, NEW s \in Nat \ {0}
      PROVE  k * s \in Nat /\ (k * s) \div s = k
  OBVIOUS
<1>3. NextCard(c) \in Nat \ {0} /\ CardOf(NextCard(c)) = CardOf(c) + 1
  <2>1. (CardOf(c) + 1) * CardCells \in Nat
    BY <1>1, <1>2
  <2>2. ((CardOf(c) + 1) * CardCells) \div CardCells = CardOf(c) + 1
    BY <1>1, <1>2
  <2> DEFINE n == (CardOf(c) + 1) * CardCells
  <2>3. NextCard(c) = n + 1 /\ n + 1 - 1 = n
    BY <2>1 DEF NextCard
  <2> QED
    BY <2>1, <2>2, <2>3 DEF CardOf
<1>4. ASSUME NEW d \in Nat \ {0}, d < NextCard(c)
      PROVE  CardOf(d) # CardOf(c) + 1
  <2>1. ASSUME NEW a \in Nat, NEW k \in Nat, NEW s \in Nat \ {0}, a < k * s
        PROVE  a \div s # k
    BY <2>1
  <2>2. d - 1 \in Nat /\ d - 1 < (CardOf(c) + 1) * CardCells
    BY <1>1, <1>2, <1>4 DEF NextCard
  <2> QED
    BY <1>1, <2>1, <2>2, SMTT(30) DEF CardOf
<1> QED
  BY <1>3, <1>4

-----------------------------------------------------------------------------
(* Types and places.                                                       *)

\* A word read from a root or a cell.
LEMMA Addressed ==
  ASSUME TypeOK, NEW o \in Objects \cup {Immediate}
  PROVE  Word(o) \in Words /\ Word(o).obj = o
BY StaticAssumption DEF TypeOK, Word, Words

LEMMA StoredWord ==
  ASSUME TypeOK, NEW c \in Cells, NEW w \in Words, cell' = [cell EXCEPT ![c] = w]
  PROVE  /\ cell' \in [Cells -> [obj : Objects \cup {Immediate}, addr : 0..2]]
         /\ cell'[c] = w
         /\ \A d \in Cells : d # c => cell'[d] = cell[d]
BY DEF TypeOK, Words

LEMMA TouchType ==
  ASSUME TypeOK, NEW c \in Cells, Touch(c)
  PROVE  behind' \subseteq Cells
BY DEF TypeOK, Touch

LEMMA BesideType ==
  ASSUME TypeOK, NEW c \in Cells, Beside(c)
  PROVE  lost' \subseteq Cells
BY DEF TypeOK, Beside

LEMMA AllocateBasic ==
  ASSUME Basic, NEW m \in Mutators, Allocate(m)
  PROVE  Basic'
<1> USE StaticAssumption DEF Basic
<1>1. TypeOK'
  BY DEF Allocate, TypeOK, ghosts
<1> QED
  BY <1>1 DEF Allocate, BoundInv, TopInv, PlaceInv, OneSweep, IsPointer

LEMMA LoadBasic ==
  ASSUME Basic, NEW m \in Mutators, Load(m)
  PROVE  Basic'
<1> USE StaticAssumption DEF Basic
<1>1. PICK w \in Words : reg' = [reg EXCEPT ![m] = w.obj]
  <2>1. PICK w \in {cell[c] : c \in 1..used} \cup {[obj |-> Immediate, addr |-> 0]} :
          reg' = [reg EXCEPT ![m] = w.obj]
    BY DEF Load
  <2>2. ASSUME w = [obj |-> Immediate, addr |-> 0] PROVE w \in Words
    BY <2>2 DEF Words
  <2>3. ASSUME NEW c \in 1..used, w = cell[c] PROVE w \in Words
    <3>1. c \in Cells
      BY DEF TypeOK, Cells
    <3> QED
      BY <2>3, <3>1 DEF TypeOK, Words
  <2> QED
    BY <2>1, <2>2, <2>3
<1>2. TypeOK'
  BY <1>1 DEF Load, TypeOK, Words, ghosts
<1> QED
  BY <1>2 DEF Load, BoundInv, TopInv, PlaceInv, OneSweep, IsPointer

LEMMA StoreBasic ==
  ASSUME Basic, NEW m \in Mutators, NEW c \in Cells, Store(m, c)
  PROVE  Basic'
<1> USE StaticAssumption DEF Basic
<1>1. /\ cell' = [cell EXCEPT ![c] = Word(reg[m])] /\ Word(reg[m]) \in Words
      /\ c \in 1..used /\ c \in Nat
  BY Addressed DEF Store, TypeOK, Cells
<1>2. TypeOK'
  <2>1. /\ at' \in [Mutators -> [cell : Nat, limit : 0..NCells]]
        /\ pc' \in [Mutators -> {"run", "mark", "fill", "resumed", "sweep", "clean"}]
    BY <1>1 DEF Store, TypeOK
  <2> QED
    BY <1>1, <2>1, StoredWord, TouchType DEF Store, TypeOK
<1>3. TopInv'
  <2>1. \A d \in Cells : d > used => d # c
    BY <1>1 DEF TypeOK, Cells
  <2> QED
    BY <1>1, <2>1, StoredWord DEF Store, TopInv, IsPointer
<1>4. PlaceInv'
  BY <1>1 DEF Store, PlaceInv, TypeOK
<1> QED
  BY <1>2, <1>3, <1>4 DEF Store, BoundInv, OneSweep, TypeOK

LEMMA MarkCardBasic ==
  ASSUME Basic, NEW m \in Mutators, MarkCard(m)
  PROVE  Basic'
<1> USE StaticAssumption DEF Basic
<1>1. CardOf(at[m].cell) \in Cards
  BY DEF MarkCard, PlaceInv, TypeOK, Cards, Cells
<1>2. TypeOK'
  BY <1>1 DEF MarkCard, TypeOK, Nowhere
<1>3. PlaceInv'
  BY DEF MarkCard, PlaceInv, TypeOK
<1> QED
  BY <1>2, <1>3 DEF MarkCard, BoundInv, TopInv, OneSweep, IsPointer, TypeOK

LEMMA DynamicBindBasic ==
  ASSUME Basic, NEW m \in Mutators, NEW c \in Cells, DynamicBind(m, c)
  PROVE  Basic'
<1> USE StaticAssumption DEF Basic
<1>1. /\ cell' = [cell EXCEPT ![c] = Word(reg[m])] /\ Word(reg[m]) \in Words
      /\ c \in 1..used /\ cell[c] \in Words
  BY Addressed DEF DynamicBind, TypeOK, Cells, Words
<1> DEFINE b == [cell |-> c, saved |-> cell[c]]
           s == Append(bound[m], b)
<1>2. b \in Saved /\ b.cell = c
  BY <1>1 DEF Saved
<1>3. bound[m] \in Seq(Saved) /\ Len(bound[m]) \in Nat /\ Len(bound[m]) < MaxBindings
  BY DEF DynamicBind, BoundInv
<1> HIDE DEF b
<1>4. /\ s \in Seq(Saved) /\ Len(s) = Len(bound[m]) + 1
      /\ \A i \in 1..Len(s) : s[i] = IF i <= Len(bound[m]) THEN bound[m][i] ELSE b
  BY <1>2, <1>3
<1>5. bound' = [bound EXCEPT ![m] = s]
  BY DEF DynamicBind, b
<1> HIDE DEF s
<1>6. BoundInv' /\ \A n \in Mutators : Len(bound'[n]) <= MaxBindings
  <2>1. /\ bound' \in [Mutators -> Seq(Saved)] /\ used' = used
        /\ \A n \in Mutators : bound'[n] = IF n = m THEN s ELSE bound[n]
    BY <1>4, <1>5 DEF DynamicBind, BoundInv
  <2>2. \A i \in 1..Len(s) : s[i].cell <= used
    BY <1>1, <1>2, <1>3, <1>4 DEF BoundInv
  <2>3. Len(s) <= MaxBindings
    BY <1>3, <1>4
  <2>4. \A n \in Mutators : Len(bound'[n]) <= MaxBindings
    BY <2>1, <2>3 DEF TypeOK
  <2>5. \A n \in Mutators : \A i \in 1..Len(bound'[n]) : bound'[n][i].cell <= used
    BY <2>1, <2>2 DEF BoundInv
  <2> QED
    BY <2>1, <2>4, <2>5 DEF BoundInv
<1>7. TypeOK'
  BY <1>1, <1>6, StoredWord, TouchType, BesideType DEF DynamicBind, TypeOK
<1>8. TopInv'
  <2>1. \A d \in Cells : d > used => d # c
    BY <1>1 DEF TypeOK, Cells
  <2> QED
    BY <1>1, <2>1, StoredWord DEF DynamicBind, TopInv, IsPointer
<1> QED
  BY <1>6, <1>7, <1>8 DEF DynamicBind, PlaceInv, OneSweep

\* The binding that ends, and what is left of the others.
LEMMA Unbinding ==
  ASSUME Basic, NEW m \in Mutators, DynamicUnbind(m)
  PROVE  /\ Len(bound[m]) \in 1..Len(bound[m])
         /\ bound[m][Len(bound[m])] \in Saved
         /\ bound[m][Len(bound[m])].cell <= used
         /\ bound' \in [Mutators -> Seq(Saved)]
         /\ \A n \in Mutators : /\ Len(bound'[n]) <= Len(bound[n])
                                /\ \A i \in 1..Len(bound'[n]) : bound'[n][i] = bound[n][i]
<1> DEFINE s == SubSeq(bound[m], 1, Len(bound[m]) - 1)
<1>1. bound[m] \in Seq(Saved) /\ bound[m] # <<>>
  BY DEF Basic, DynamicUnbind, BoundInv
<1>2. Len(bound[m]) \in 1..Len(bound[m]) /\ bound[m][Len(bound[m])] \in Saved
  BY <1>1
<1>3. /\ s \in Seq(Saved) /\ Len(s) = Len(bound[m]) - 1
      /\ \A i \in 1..Len(s) : s[i] = bound[m][i]
  BY <1>1
<1>4. bound' = [bound EXCEPT ![m] = s]
  BY DEF DynamicUnbind
<1> HIDE DEF s
<1>5. /\ bound' \in [Mutators -> Seq(Saved)]
      /\ \A n \in Mutators : bound'[n] = IF n = m THEN s ELSE bound[n]
  BY <1>3, <1>4 DEF Basic, BoundInv
<1>6. \A n \in Mutators : Len(bound[n]) \in Nat
  BY DEF Basic, BoundInv
<1>7. /\ Len(s) <= Len(bound[m])
      /\ bound[m][Len(bound[m])].cell <= used
  BY <1>2, <1>3 DEF Basic, BoundInv
<1>8. ASSUME NEW n \in Mutators
      PROVE  /\ Len(bound'[n]) <= Len(bound[n])
             /\ \A i \in 1..Len(bound'[n]) : bound'[n][i] = bound[n][i]
  <2>1. CASE n = m
    BY <1>3, <1>5, <1>7, <2>1
  <2>2. CASE n # m
    <3>1. bound'[n] = bound[n]
      BY <1>5, <2>2
    <3> QED
      BY <1>6, <3>1
  <2> QED
    BY <2>1, <2>2
<1> QED
  BY <1>2, <1>5, <1>7, <1>8

LEMMA DynamicUnbindBasic ==
  ASSUME Basic, NEW m \in Mutators, DynamicUnbind(m)
  PROVE  Basic'
<1> USE StaticAssumption DEF Basic
<1> DEFINE b == bound[m][Len(bound[m])]
<1>1. b \in Saved /\ b.cell <= used /\ b.cell \in Cells /\ b.saved \in Words
  BY Unbinding DEF Saved
<1>2. \/ /\ cell' = [cell EXCEPT ![b.cell] = b.saved]
         /\ Touch(b.cell) /\ Beside(b.cell)
      \/ UNCHANGED <<cell, behind, lost>>
  BY DEF DynamicUnbind
<1>3. BoundInv' /\ \A n \in Mutators : Len(bound'[n]) <= MaxBindings
  <2>1. \A n \in Mutators : Len(bound'[n]) \in Nat /\ Len(bound[n]) \in Nat
                            /\ Len(bound'[n]) <= Len(bound[n]) /\ Len(bound[n]) <= MaxBindings
    BY Unbinding DEF BoundInv, TypeOK
  <2>2. \A n \in Mutators : \A i \in 1..Len(bound'[n]) : i \in 1..Len(bound[n])
    BY <2>1
  <2>3. used' = used
    BY DEF DynamicUnbind
  <2> QED
    BY <2>1, <2>2, <2>3, Unbinding DEF BoundInv
<1> HIDE DEF b
<1>4. /\ cell' \in [Cells -> [obj : Objects \cup {Immediate}, addr : 0..2]]
      /\ \A d \in Cells : d > used => cell'[d] = cell[d]
  <2>1. \A d \in Cells : d > used => d # b.cell
    BY <1>1 DEF TypeOK, Cells
  <2> QED
    BY <1>1, <1>2, <2>1, StoredWord DEF TypeOK
<1>5. behind' \subseteq Cells /\ lost' \subseteq Cells
  BY <1>1, <1>2, TouchType, BesideType DEF TypeOK
<1>6. TypeOK'
  BY <1>3, <1>4, <1>5 DEF DynamicUnbind, TypeOK
<1>7. TopInv'
  BY <1>4 DEF DynamicUnbind, TopInv, IsPointer
<1> QED
  BY <1>3, <1>6, <1>7 DEF DynamicUnbind, PlaceInv, OneSweep

LEMMA BumpStaticBasic ==
  ASSUME Basic, NEW m \in Mutators, BumpStatic(m)
  PROVE  Basic'
<1> USE StaticAssumption DEF Basic
<1>1. used' = used + 1 /\ used + 1 \in 0..NCells /\ used \in Nat
  BY DEF BumpStatic, TypeOK
<1>2. TypeOK'
  <2>1. at' \in [Mutators -> [cell : Nat, limit : 0..NCells]]
    <3>1. at \in [Mutators -> [cell : Nat, limit : 0..NCells]] /\ used + 1 \in Nat
      BY <1>1 DEF TypeOK
    <3>2. at' = [at EXCEPT ![m].cell = used + 1]
      BY DEF BumpStatic
    <3> QED
      BY <3>1, <3>2
  <2>2. pc' \in [Mutators -> {"run", "mark", "fill", "resumed", "sweep", "clean"}]
    BY DEF BumpStatic, TypeOK
  <2> QED
    BY <1>1, <2>1, <2>2 DEF BumpStatic, TypeOK, ghosts
<1>3. BoundInv'
  <2>1. \A n \in Mutators : \A i \in 1..Len(bound[n]) : bound[n][i] \in Saved
    BY DEF BoundInv
  <2>2. \A b \in Saved : b.cell \in Nat
    BY DEF Saved, Cells
  <2>3. \A n \in Mutators : \A i \in 1..Len(bound[n]) :
          bound[n][i].cell \in Nat /\ bound[n][i].cell <= used
    BY <2>1, <2>2 DEF BoundInv
  <2>4. \A k \in Nat : k <= used => k <= used + 1
    BY <1>1
  <2>5. \A n \in Mutators : \A i \in 1..Len(bound[n]) : bound[n][i].cell <= used + 1
    BY <2>3, <2>4
  <2> QED
    BY <1>1, <2>5 DEF BumpStatic, BoundInv
<1>4. TopInv'
  <2>1. \A c \in Cells : c > used + 1 => c > used
    BY <1>1 DEF Cells
  <2> QED
    BY <1>1, <2>1 DEF BumpStatic, TopInv, IsPointer
<1>5. PlaceInv'
  <2> SUFFICES ASSUME NEW n \in Mutators
               PROVE  /\ pc'[n] \in {"mark", "fill"} => at'[n].cell \in 1..used'
                      /\ pc'[n] \in {"sweep", "clean"} => at'[n].cell # 0 /\ at'[n].limit <= used'
    BY DEF PlaceInv
  <2>1. CASE n = m
    BY <1>1, <2>1 DEF BumpStatic, TypeOK
  <2>2. CASE n # m
    BY <1>1, <2>2 DEF BumpStatic, TypeOK, PlaceInv
  <2> QED
    BY <2>1, <2>2
<1> QED
  BY <1>2, <1>3, <1>4, <1>5 DEF BumpStatic, OneSweep, TypeOK

LEMMA FillStaticBasic ==
  ASSUME Basic, NEW m \in Mutators, FillStatic(m)
  PROVE  Basic'
<1> USE StaticAssumption DEF Basic
<1>1. /\ at[m].cell \in 1..used /\ at[m].cell \in Cells
      /\ cell' = [cell EXCEPT ![at[m].cell] = Word(reg[m])] /\ Word(reg[m]) \in Words
  BY Addressed DEF FillStatic, PlaceInv, TypeOK, Cells
<1>2. /\ at' \in [Mutators -> [cell : Nat, limit : 0..NCells]]
      /\ pc' \in [Mutators -> {"run", "mark", "fill", "resumed", "sweep", "clean"}]
      /\ pc'[m] \in {"run", "mark"} /\ (pc'[m] = "mark" => at'[m] = at[m])
      /\ \A n \in Mutators : n # m => pc'[n] = pc[n] /\ at'[n] = at[n]
  <2>1. Nowhere \in [cell : Nat, limit : 0..NCells]
    BY DEF Nowhere
  <2>2. /\ at \in [Mutators -> [cell : Nat, limit : 0..NCells]]
        /\ pc \in [Mutators -> {"run", "mark", "fill", "resumed", "sweep", "clean"}]
    BY DEF TypeOK
  <2>3. \/ pc' = [pc EXCEPT ![m] = "run"] /\ at' = [at EXCEPT ![m] = Nowhere]
        \/ pc' = [pc EXCEPT ![m] = "mark"] /\ at' = at
    BY DEF FillStatic
  <2>4. CASE pc' = [pc EXCEPT ![m] = "run"] /\ at' = [at EXCEPT ![m] = Nowhere]
    BY <2>1, <2>2, <2>4
  <2>5. CASE pc' = [pc EXCEPT ![m] = "mark"] /\ at' = at
    BY <2>2, <2>5
  <2> QED
    BY <2>3, <2>4, <2>5
<1>3. TypeOK'
  BY <1>1, <1>2, StoredWord, TouchType DEF FillStatic, TypeOK
<1>4. TopInv'
  <2>1. \A d \in Cells : d > used => d # at[m].cell
    BY <1>1 DEF TypeOK, Cells
  <2> QED
    BY <1>1, <2>1, StoredWord DEF FillStatic, TopInv, IsPointer
<1>5. PlaceInv'
  BY <1>1, <1>2 DEF FillStatic, PlaceInv
<1>6. OneSweep'
  BY <1>2 DEF OneSweep
<1> QED
  BY <1>3, <1>4, <1>5, <1>6 DEF FillStatic, BoundInv

\* What a collection does to the cells: a pointer stays a pointer, and one
\* that is an object's present address follows the object.
LEMMA Rewritten ==
  ASSUME TypeOK, NEW m \in Mutators, Collect(m)
  PROVE  /\ home' \in [Objects -> 0..2] /\ old' \subseteq Objects
         /\ cell' \in [Cells -> [obj : Objects \cup {Immediate}, addr : 0..2]]
         /\ \A c \in Cells : cell'[c].obj = cell[c].obj
<1> USE StaticAssumption
<1>1. PICK cascade \in BOOLEAN :
       LET live      == {o \in Objects : home[o] # Free}
           condemned == IF cascade THEN live ELSE live \ old
           found     == condemned \cap ({reg[n] : n \in Mutators} \cup Pinned
                                          \cup {cell[c].obj : c \in PresentCells})
           moved     == found \ Pinned
       IN /\ home' = [o \in Objects |-> IF o \in moved THEN 1 - home[o]
                                        ELSE IF o \in found THEN home[o]
                                        ELSE IF o \in condemned THEN Free
                                        ELSE home[o]]
          /\ old' = (old \ condemned) \cup found
          /\ cell' = [c \in Cells |->
               IF c \in PresentCells /\ cell[c].obj \in moved
                 THEN [cell[c] EXCEPT !.addr = home'[cell[c].obj]] ELSE cell[c]]
  BY DEF Collect
<1> DEFINE condemned == IF cascade THEN {o \in Objects : home[o] # Free}
                                   ELSE {o \in Objects : home[o] # Free} \ old
           found == condemned \cap ({reg[n] : n \in Mutators} \cup Pinned
                                      \cup {cell[c].obj : c \in PresentCells})
           moved == found \ Pinned
<1>2. condemned \subseteq Objects /\ \A o \in condemned : home[o] \in 0..1
  BY DEF TypeOK, Free
<1>3. moved \subseteq condemned /\ found \subseteq condemned
  OBVIOUS
<1>4. /\ home' = [o \in Objects |-> IF o \in moved THEN 1 - home[o]
                                    ELSE IF o \in found THEN home[o]
                                    ELSE IF o \in condemned THEN Free ELSE home[o]]
      /\ old' = (old \ condemned) \cup found
      /\ cell' = [c \in Cells |-> IF c \in PresentCells /\ cell[c].obj \in moved
                   THEN [cell[c] EXCEPT !.addr = home'[cell[c].obj]] ELSE cell[c]]
  BY <1>1
<1> HIDE DEF condemned, found, moved
<1>5. home' \in [Objects -> 0..2]
  BY <1>2, <1>3, <1>4 DEF TypeOK, Free
<1>6. old' \subseteq Objects
  BY <1>2, <1>3, <1>4 DEF TypeOK
<1>7. ASSUME NEW c \in Cells
      PROVE  /\ cell'[c] \in [obj : Objects \cup {Immediate}, addr : 0..2]
             /\ cell'[c].obj = cell[c].obj
  <2>1. cell[c] \in [obj : Objects \cup {Immediate}, addr : 0..2]
    BY DEF TypeOK
  <2>2. CASE c \in PresentCells /\ cell[c].obj \in moved
    <3>1. home'[cell[c].obj] \in 0..2
      BY <1>2, <1>3, <1>5, <2>2
    <3>2. cell'[c] = [cell[c] EXCEPT !.addr = home'[cell[c].obj]]
      BY <1>4, <2>2
    <3> QED
      BY <2>1, <3>1, <3>2
  <2>3. CASE ~(c \in PresentCells /\ cell[c].obj \in moved)
    BY <1>4, <2>1, <2>3
  <2> QED
    BY <2>2, <2>3
<1>8. cell' \in [Cells -> [obj : Objects \cup {Immediate}, addr : 0..2]]
  BY <1>4, <1>7
<1> QED
  BY <1>5, <1>6, <1>7, <1>8

LEMMA CollectBasic ==
  ASSUME Basic, NEW m \in Mutators, Collect(m)
  PROVE  Basic'
<1> USE StaticAssumption DEF Basic
<1>1. /\ \A n \in Mutators : pc[n] = "run"
      /\ pc' = [pc EXCEPT ![m] = "resumed"]
      /\ missed' \in BOOLEAN
      /\ UNCHANGED <<used, dirty, reg, bound, at, behind, lost>>
  BY DEF Collect
<1>2. TypeOK'
  BY <1>1, Rewritten DEF TypeOK
<1>3. TopInv'
  BY <1>1, Rewritten DEF TopInv, IsPointer
<1>4. \A n \in Mutators : pc'[n] = IF n = m THEN "resumed" ELSE "run"
  BY <1>1 DEF TypeOK
<1> QED
  BY <1>1, <1>2, <1>3, <1>4 DEF BoundInv, PlaceInv, OneSweep

LEMMA BeginClearBasic ==
  ASSUME Basic, NEW m \in Mutators, BeginClear(m)
  PROVE  Basic'
<1> USE StaticAssumption DEF Basic
<1>1. TypeOK'
  BY DEF BeginClear, TypeOK
<1>2. PlaceInv'
  BY DEF BeginClear, PlaceInv, TypeOK
<1>3. OneSweep'
  BY DEF BeginClear, OneSweep, TypeOK
<1> QED
  BY <1>1, <1>2, <1>3 DEF BeginClear, BoundInv, TopInv, IsPointer

LEMMA EndClearBasic ==
  ASSUME Basic, NEW m \in Mutators, EndClear(m)
  PROVE  Basic'
<1> USE StaticAssumption DEF Basic
<1>1. TypeOK'
  BY DEF EndClear, TypeOK, Nowhere, ghosts
<1>2. PlaceInv'
  BY DEF EndClear, PlaceInv, TypeOK
<1>3. OneSweep'
  BY DEF EndClear, OneSweep, TypeOK
<1> QED
  BY <1>1, <1>2, <1>3 DEF EndClear, BoundInv, TopInv, IsPointer

\* The three ways one step of the sweep goes.
LEMMA SweepWays ==
  ASSUME Basic, NEW m \in Mutators, SweepCell(m)
  PROVE  /\ pc[m] = "sweep" /\ at[m].cell \in Nat \ {0} /\ at[m].cell <= at[m].limit
         /\ at[m].limit \in Nat /\ at[m].limit <= used /\ used \in Nat
         /\ NextCard(at[m].cell) \in Nat \ {0}
         /\ UNCHANGED <<used, cell, dirty, home, old, reg, bound, ghosts>>
         /\ \/ /\ at' = [at EXCEPT ![m].cell = NextCard(at[m].cell)] /\ pc' = pc
            \/ /\ at' = at /\ pc' = [pc EXCEPT ![m] = "clean"]
               /\ ~IsPointer(cell[at[m].cell])
               /\ at[m].cell = at[m].limit \/ CardOf(at[m].cell + 1) # CardOf(at[m].cell)
            \/ /\ at' = [at EXCEPT ![m].cell = at[m].cell + 1] /\ pc' = pc
               /\ ~IsPointer(cell[at[m].cell])
               /\ CardOf(at[m].cell + 1) = CardOf(at[m].cell)
<1>1. /\ pc[m] = "sweep" /\ at[m].cell \in Nat \ {0} /\ at[m].cell <= at[m].limit
      /\ at[m].limit \in Nat /\ at[m].limit <= used /\ used \in Nat
  BY StaticAssumption DEF Basic, SweepCell, TypeOK, PlaceInv
<1> QED
  BY <1>1, NextCardFirst DEF SweepCell

LEMMA SweepCellBasic ==
  ASSUME Basic, NEW m \in Mutators, SweepCell(m)
  PROVE  Basic'
<1> USE StaticAssumption DEF Basic
<1>1. /\ at' \in [Mutators -> [cell : Nat, limit : 0..NCells]]
      /\ pc' \in [Mutators -> {"run", "mark", "fill", "resumed", "sweep", "clean"}]
      /\ at'[m].cell \in Nat \ {0} /\ at'[m].limit = at[m].limit
      /\ pc'[m] \in {"sweep", "clean"} /\ pc[m] = "sweep"
      /\ \A n \in Mutators : n # m => at'[n] = at[n] /\ pc'[n] = pc[n]
  <2>1. /\ at \in [Mutators -> [cell : Nat, limit : 0..NCells]]
        /\ pc \in [Mutators -> {"run", "mark", "fill", "resumed", "sweep", "clean"}]
        /\ pc[m] = "sweep" /\ at[m].cell \in Nat \ {0}
    BY SweepWays DEF TypeOK
  <2>2. CASE at' = at /\ pc' = [pc EXCEPT ![m] = "clean"]
    BY <2>1, <2>2
  <2>3. ASSUME NEW k \in Nat \ {0}, at' = [at EXCEPT ![m].cell = k], pc' = pc
        PROVE  /\ at' \in [Mutators -> [cell : Nat, limit : 0..NCells]]
               /\ pc' \in [Mutators -> {"run", "mark", "fill", "resumed", "sweep", "clean"}]
               /\ at'[m].cell \in Nat \ {0} /\ at'[m].limit = at[m].limit
               /\ pc'[m] \in {"sweep", "clean"} /\ pc[m] = "sweep"
               /\ \A n \in Mutators : n # m => at'[n] = at[n] /\ pc'[n] = pc[n]
    BY <2>1, <2>3
  <2>4. NextCard(at[m].cell) \in Nat \ {0} /\ at[m].cell + 1 \in Nat \ {0}
    BY <2>1, SweepWays
  <2> QED
    BY <2>2, <2>3, <2>4, SweepWays
<1>2. UNCHANGED <<used, cell, dirty, home, old, reg, bound, ghosts>>
  BY SweepWays
<1>3. TypeOK'
  BY <1>1, <1>2 DEF TypeOK, ghosts
<1>4. PlaceInv'
  BY <1>1, <1>2 DEF PlaceInv
<1>5. OneSweep'
  BY <1>1 DEF OneSweep
<1> QED
  BY <1>2, <1>3, <1>4, <1>5 DEF BoundInv, TopInv, IsPointer

LEMMA CleanCardBasic ==
  ASSUME Basic, NEW m \in Mutators, CleanCard(m)
  PROVE  Basic'
<1> USE StaticAssumption DEF Basic
<1>1. at[m].cell \in Nat \ {0}
  BY DEF CleanCard, TypeOK, PlaceInv
<1>2. NextCard(at[m].cell) \in Nat \ {0}
  BY <1>1, NextCardFirst
<1>3. /\ at' \in [Mutators -> [cell : Nat, limit : 0..NCells]]
      /\ pc' \in [Mutators -> {"run", "mark", "fill", "resumed", "sweep", "clean"}]
      /\ at'[m].cell \in Nat \ {0} /\ at'[m].limit = at[m].limit
      /\ pc'[m] = "sweep" /\ pc[m] = "clean"
      /\ \A n \in Mutators : n # m => at'[n] = at[n] /\ pc'[n] = pc[n]
  <2>1. /\ at \in [Mutators -> [cell : Nat, limit : 0..NCells]]
        /\ at' = [at EXCEPT ![m].cell = NextCard(at[m].cell)]
    BY DEF CleanCard, TypeOK
  <2>2. /\ pc \in [Mutators -> {"run", "mark", "fill", "resumed", "sweep", "clean"}]
        /\ pc' = [pc EXCEPT ![m] = "sweep"] /\ pc[m] = "clean"
    BY DEF CleanCard, TypeOK
  <2>3. /\ at' \in [Mutators -> [cell : Nat, limit : 0..NCells]]
        /\ at'[m].cell \in Nat \ {0} /\ at'[m].limit = at[m].limit
        /\ \A n \in Mutators : n # m => at'[n] = at[n]
    BY <1>2, <2>1
  <2> QED
    BY <2>2, <2>3
<1>4. CellsOf(CardOf(at[m].cell)) \subseteq Cells
  BY DEF CellsOf
<1>5. TypeOK'
  BY <1>3, <1>4 DEF CleanCard, TypeOK
<1>6. PlaceInv'
  BY <1>3 DEF CleanCard, PlaceInv
<1>7. OneSweep'
  BY <1>3 DEF OneSweep
<1> QED
  BY <1>5, <1>6, <1>7 DEF CleanCard, BoundInv, TopInv, IsPointer

LEMMA BasicStep ==
  ASSUME Basic, [Next]_vars
  PROVE  Basic'
<1>1. ASSUME NEW m \in Mutators,
             \/ Allocate(m) \/ Load(m) \/ MarkCard(m) \/ BumpStatic(m)
             \/ FillStatic(m) \/ Collect(m) \/ BeginClear(m) \/ SweepCell(m)
             \/ CleanCard(m) \/ EndClear(m) \/ DynamicUnbind(m)
      PROVE  Basic'
  BY ONLY Basic, <1>1, AllocateBasic, LoadBasic, MarkCardBasic, BumpStaticBasic,
     FillStaticBasic, CollectBasic, BeginClearBasic, SweepCellBasic, CleanCardBasic,
     EndClearBasic, DynamicUnbindBasic
<1>2. ASSUME NEW m \in Mutators, NEW c \in Cells, Store(m, c) \/ DynamicBind(m, c)
      PROVE  Basic'
  BY ONLY Basic, <1>2, StoreBasic, DynamicBindBasic
<1>3. CASE UNCHANGED vars
  BY <1>3 DEF vars, Basic, TypeOK, BoundInv, TopInv, PlaceInv, OneSweep, IsPointer
<1> QED
  BY ONLY [Next]_vars, <1>1, <1>2, <1>3 DEF Next

LEMMA BasicInvariance == Spec => []Basic
<1>1. Init => Basic
  <2> SUFFICES ASSUME Init PROVE Basic
    OBVIOUS
  <2>1. bound \in [Mutators -> Seq(Saved)] /\ \A m \in Mutators : Len(bound[m]) = 0
    BY DEF Init
  <2>2. BoundInv
    BY <2>1 DEF BoundInv
  <2>3. TypeOK
    <3>1. /\ cell \in [Cells -> [obj : Objects \cup {Immediate}, addr : 0..2]]
          /\ at \in [Mutators -> [cell : Nat, limit : 0..NCells]]
      BY StaticAssumption DEF Init, Nowhere
    <3>2. /\ home \in [Objects -> 0..2]
          /\ reg \in [Mutators -> Objects \cup {Immediate}]
          /\ pc \in [Mutators -> {"run", "mark", "fill", "resumed", "sweep", "clean"}]
      BY DEF Init, Free
    <3>3. used \in 0..NCells /\ \A m \in Mutators : Len(bound[m]) <= MaxBindings
      BY <2>1, StaticAssumption DEF Init
    <3> QED
      BY <3>1, <3>2, <3>3 DEF Init, TypeOK
  <2> QED
    BY <2>2, <2>3 DEF Init, Basic, TopInv, PlaceInv, OneSweep, IsPointer
<1> QED
  BY <1>1, BasicStep, PTL DEF Spec

-----------------------------------------------------------------------------
(* What a sweep has read.                                                  *)

\* A store of cell c by a mutator that is not sweeping.
LEMMA TouchSweep ==
  ASSUME Basic, SweepInv, NEW c \in Cells, Touch(c),
         \A d \in Cells : d # c => cell'[d] = cell[d],
         \A n \in Mutators : pc'[n] \in {"sweep", "clean"} => pc'[n] = pc[n] /\ at'[n] = at[n]
  PROVE  SweepInv'
<1> SUFFICES ASSUME NEW n \in Mutators, NEW d \in Cells, Passed(n, d)', IsPointer(cell'[d])
             PROVE  d \in behind'
  BY DEF SweepInv, IsPointer
<1>1. pc'[n] = pc[n] /\ at'[n] = at[n] /\ pc[n] \in {"sweep", "clean"}
  BY DEF Passed
<1>2. Passed(n, d)
  BY <1>1 DEF Passed
<1>3. ~WillRead(n, d)
  <2>1. at[n].cell \in Nat /\ at[n].limit \in Nat /\ d \in Nat
    BY DEF Basic, TypeOK, Cells
  <2> QED
    BY <1>2, <2>1 DEF Passed, WillRead
<1>4. CASE d = c
  BY <1>1, <1>3, <1>4 DEF Touch
<1>5. CASE d # c
  BY <1>2, <1>5 DEF SweepInv, Touch, IsPointer
<1> QED
  BY <1>4, <1>5

\* A step that stores nothing and takes no sweep further.
LEMMA KeepSweep ==
  ASSUME SweepInv, \A c \in Cells : cell'[c].obj = cell[c].obj, behind' = behind,
         \A n \in Mutators : pc'[n] \in {"sweep", "clean"} => pc'[n] = pc[n] /\ at'[n] = at[n]
  PROVE  SweepInv'
BY DEF SweepInv, Passed, IsPointer

\* A step that keeps cells, cards and pending marks.
LEMMA KeepCovered ==
  ASSUME OnlyLostForgotten, UNCHANGED <<cell, dirty, lost>>,
         \A n \in Mutators : pc[n] = "mark" => pc'[n] = "mark" /\ at'[n] = at[n]
  PROVE  OnlyLostForgotten'
BY DEF OnlyLostForgotten, Covered, IsPointer

LEMMA QuietCards ==
  ASSUME Basic, CardInv, NEW m \in Mutators,
         Allocate(m) \/ Load(m) \/ BumpStatic(m) \/ EndClear(m)
  PROVE  CardInv'
<1>1. /\ UNCHANGED <<cell, dirty, lost, behind>>
      /\ \A n \in Mutators : n # m => pc'[n] = pc[n] /\ at'[n] = at[n]
      /\ pc[m] \notin {"mark"}
      /\ pc'[m] \notin {"sweep", "clean"}
  BY DEF Basic, TypeOK, Allocate, Load, BumpStatic, EndClear, ghosts
<1>2. SweepInv'
  BY <1>1, KeepSweep DEF CardInv
<1>3. OnlyLostForgotten'
  BY <1>1, KeepCovered DEF CardInv
<1> QED
  BY <1>2, <1>3 DEF CardInv

LEMMA StoreCards ==
  ASSUME Basic, CardInv, NEW m \in Mutators, NEW c \in Cells, Store(m, c)
  PROVE  CardInv'
<1>1. /\ pc[m] = "run" /\ pc'[m] = "mark" /\ at'[m].cell = c
      /\ \A n \in Mutators : n # m => pc'[n] = pc[n] /\ at'[n] = at[n]
      /\ \A d \in Cells : d # c => cell'[d] = cell[d]
      /\ dirty' = dirty /\ lost' = lost \ {c} /\ Touch(c)
  BY DEF Basic, TypeOK, Store
<1>2. SweepInv'
  BY <1>1, TouchSweep DEF CardInv
<1>3. OnlyLostForgotten'
  <2> SUFFICES ASSUME NEW d \in Cells, d \notin lost', IsPointer(cell'[d]), CardOf(d) \notin dirty
               PROVE  \E n \in Mutators : pc'[n] = "mark" /\ at'[n].cell = d
    BY <1>1 DEF OnlyLostForgotten, Covered, IsPointer
  <2>1. CASE d = c
    BY <1>1, <2>1
  <2>2. CASE d # c
    BY <1>1, <2>2 DEF CardInv, OnlyLostForgotten, Covered, IsPointer
  <2> QED
    BY <2>1, <2>2
<1> QED
  BY <1>2, <1>3 DEF CardInv

LEMMA MarkCards ==
  ASSUME Basic, CardInv, NEW m \in Mutators, MarkCard(m)
  PROVE  CardInv'
<1>1. /\ pc'[m] = "run"
      /\ \A n \in Mutators : n # m => pc'[n] = pc[n] /\ at'[n] = at[n]
      /\ cell' = cell /\ behind' = behind /\ dirty' = dirty \cup {CardOf(at[m].cell)}
      /\ lost' = lost \ CellsOf(CardOf(at[m].cell))
  BY DEF Basic, TypeOK, MarkCard
<1>2. SweepInv'
  BY <1>1, KeepSweep DEF CardInv
<1>3. OnlyLostForgotten'
  <2> SUFFICES ASSUME NEW d \in Cells, d \notin lost', IsPointer(cell[d]), CardOf(d) \notin dirty'
               PROVE  \E n \in Mutators : pc'[n] = "mark" /\ at'[n].cell = d
    BY <1>1 DEF OnlyLostForgotten, Covered, IsPointer
  <2>1. CardOf(d) # CardOf(at[m].cell) /\ d \notin lost /\ CardOf(d) \notin dirty
    BY <1>1 DEF CellsOf
  <2>2. PICK n \in Mutators : pc[n] = "mark" /\ at[n].cell = d
    BY <2>1 DEF CardInv, OnlyLostForgotten, Covered
  <2> QED
    BY <1>1, <2>1, <2>2
<1> QED
  BY <1>2, <1>3 DEF CardInv

LEMMA FillCards ==
  ASSUME Basic, CardInv, NEW m \in Mutators, FillStatic(m)
  PROVE  CardInv'
<1> DEFINE c == at[m].cell
<1>1. c \in Cells /\ Word(reg[m]) \in Words /\ Word(reg[m]).obj = reg[m]
      /\ cell' = [cell EXCEPT ![c] = Word(reg[m])]
  BY StaticAssumption, Addressed DEF Basic, FillStatic, PlaceInv, TypeOK, Cells
<1>2. /\ cell'[c].obj = reg[m]
      /\ \A d \in Cells : d # c => cell'[d] = cell[d]
  BY <1>1, StoredWord DEF Basic
<1>3. /\ pc[m] = "fill" /\ pc'[m] \notin {"sweep", "clean"}
      /\ reg[m] # Immediate => pc'[m] = "mark" /\ at'[m].cell = c
      /\ \A n \in Mutators : n # m => pc'[n] = pc[n] /\ at'[n] = at[n]
      /\ dirty' = dirty /\ lost' = lost /\ Touch(c)
  BY DEF Basic, TypeOK, FillStatic
<1> HIDE DEF c
<1>4. SweepInv'
  BY <1>1, <1>2, <1>3, TouchSweep DEF CardInv
<1>5. OnlyLostForgotten'
  <2> SUFFICES ASSUME NEW d \in Cells, d \notin lost', IsPointer(cell'[d]), CardOf(d) \notin dirty
               PROVE  \E n \in Mutators : pc'[n] = "mark" /\ at'[n].cell = d
    BY <1>3 DEF OnlyLostForgotten, Covered, IsPointer
  <2>1. CASE d = c
    BY <1>2, <1>3, <2>1 DEF IsPointer
  <2>2. CASE d # c
    BY <1>2, <1>3, <2>2 DEF CardInv, OnlyLostForgotten, Covered, IsPointer
  <2> QED
    BY <2>1, <2>2
<1> QED
  BY <1>4, <1>5 DEF CardInv

\* A store beside the barrier loses its own cell only.
LEMMA BesideCards ==
  ASSUME Basic, CardInv, NEW c \in Cells, Touch(c), Beside(c),
         \A d \in Cells : d # c => cell'[d] = cell[d],
         UNCHANGED <<dirty, pc, at>>
  PROVE  CardInv'
<1>1. SweepInv'
  BY TouchSweep DEF CardInv
<1>2. OnlyLostForgotten'
  <2> SUFFICES ASSUME NEW d \in Cells, d \notin lost', IsPointer(cell'[d]), CardOf(d) \notin dirty
               PROVE  \E n \in Mutators : pc'[n] = "mark" /\ at'[n].cell = d
    BY DEF OnlyLostForgotten, Covered, IsPointer
  <2>1. CASE d = c
    BY <2>1 DEF Beside
  <2>2. CASE d # c
    BY <2>2 DEF Beside, CardInv, OnlyLostForgotten, Covered, IsPointer
  <2> QED
    BY <2>1, <2>2
<1> QED
  BY <1>1, <1>2 DEF CardInv

LEMMA DynamicBindCards ==
  ASSUME Basic, CardInv, NEW m \in Mutators, NEW c \in Cells, DynamicBind(m, c)
  PROVE  CardInv'
<1>1. \A d \in Cells : d # c => cell'[d] = cell[d]
  BY DEF DynamicBind, Basic, TypeOK
<1> QED
  BY <1>1, BesideCards DEF DynamicBind

LEMMA DynamicUnbindCards ==
  ASSUME Basic, CardInv, NEW m \in Mutators, DynamicUnbind(m)
  PROVE  CardInv'
<1> DEFINE b == bound[m][Len(bound[m])]
<1>1. b \in Saved /\ b.cell \in Cells
  BY Unbinding DEF Saved
<1>2. \/ /\ cell' = [cell EXCEPT ![b.cell] = b.saved]
         /\ Touch(b.cell) /\ Beside(b.cell)
      \/ UNCHANGED <<cell, behind, lost>>
  BY DEF DynamicUnbind
<1>3. UNCHANGED <<dirty, pc, at>>
  BY DEF DynamicUnbind
<1> HIDE DEF b
<1>4. CASE UNCHANGED <<cell, behind, lost>>
  BY <1>3, <1>4, KeepSweep, KeepCovered DEF CardInv
<1>5. CASE cell' = [cell EXCEPT ![b.cell] = b.saved] /\ Touch(b.cell) /\ Beside(b.cell)
  <2>1. \A d \in Cells : d # b.cell => cell'[d] = cell[d]
    BY <1>5 DEF Basic, TypeOK
  <2> QED
    BY <1>1, <1>3, <1>5, <2>1, BesideCards
<1> QED
  BY <1>2, <1>4, <1>5

LEMMA CollectCards ==
  ASSUME Basic, CardInv, NEW m \in Mutators, Collect(m)
  PROVE  CardInv'
<1>1. /\ \A n \in Mutators : pc[n] = "run" /\ pc'[n] \in {"run", "resumed"}
      /\ UNCHANGED <<dirty, lost, behind>>
      /\ \A c \in Cells : cell'[c].obj = cell[c].obj
  BY Rewritten DEF Collect, Basic, TypeOK
<1>2. SweepInv'
  BY <1>1, KeepSweep DEF CardInv
<1>3. OnlyLostForgotten'
  BY <1>1 DEF CardInv, OnlyLostForgotten, Covered, IsPointer
<1> QED
  BY <1>2, <1>3 DEF CardInv

LEMMA BeginClearCards ==
  ASSUME Basic, CardInv, NEW m \in Mutators, BeginClear(m)
  PROVE  CardInv'
<1>1. /\ pc[m] = "resumed" /\ pc'[m] = "sweep" /\ at'[m] = [cell |-> 1, limit |-> used]
      /\ \A n \in Mutators : n # m => pc'[n] = pc[n] /\ at'[n] = at[n]
      /\ UNCHANGED <<used, cell, dirty, lost>> /\ used \in Nat
  BY StaticAssumption DEF BeginClear, Basic, TypeOK
<1>2. SweepInv'
  <2> SUFFICES ASSUME NEW n \in Mutators, NEW c \in Cells, Passed(n, c)'
               PROVE  ~IsPointer(cell[c])
    BY <1>1 DEF SweepInv, IsPointer
  <2>1. n = m
    BY <1>1 DEF Passed, Basic, OneSweep
  <2>2. c \in Nat /\ ~(c < 1)
    BY DEF Cells
  <2>3. c > used
    BY <1>1, <2>1, <2>2 DEF Passed
  <2> QED
    BY <2>3 DEF Basic, TopInv
<1>3. OnlyLostForgotten'
  BY <1>1, KeepCovered DEF CardInv
<1> QED
  BY <1>2, <1>3 DEF CardInv

LEMMA SweepCellCards ==
  ASSUME Basic, CardInv, NEW m \in Mutators, SweepCell(m)
  PROVE  CardInv'
<1> DEFINE a == at[m].cell
           l == at[m].limit
<1>1. /\ pc[m] = "sweep" /\ a \in Nat \ {0} /\ a <= l /\ l \in Nat
      /\ NextCard(a) \in Nat \ {0}
      /\ UNCHANGED <<cell, dirty, lost, behind>>
      /\ \/ /\ at' = [at EXCEPT ![m].cell = NextCard(a)] /\ pc' = pc
         \/ /\ at' = at /\ pc' = [pc EXCEPT ![m] = "clean"]
            /\ ~IsPointer(cell[a])
            /\ a = l \/ CardOf(a + 1) # CardOf(a)
         \/ /\ at' = [at EXCEPT ![m].cell = a + 1] /\ pc' = pc
            /\ ~IsPointer(cell[a])
            /\ CardOf(a + 1) = CardOf(a)
  BY SweepWays DEF ghosts
<1>2. /\ at \in [Mutators -> [cell : Nat, limit : 0..NCells]]
      /\ pc \in [Mutators -> {"run", "mark", "fill", "resumed", "sweep", "clean"}]
  BY DEF Basic, TypeOK
<1>3. /\ \A n \in Mutators : n # m => pc'[n] = pc[n] /\ at'[n] = at[n]
      /\ at'[m].limit = l
  BY <1>1, <1>2
<1>4. \A c \in Cells :
        (c > l \/ (c < a /\ CardOf(c) = CardOf(a))) => ~IsPointer(cell[c]) \/ c \in behind
  BY <1>1 DEF CardInv, SweepInv, Passed
<1>5. ASSUME NEW c \in Cells, Passed(m, c)'
      PROVE  ~IsPointer(cell[c]) \/ c \in behind
  <2>0. c \in Nat \ {0}
    BY DEF Cells
  <2>1. CASE at' = [at EXCEPT ![m].cell = NextCard(a)] /\ pc' = pc
    <3>1. at'[m].cell = NextCard(a) /\ pc'[m] = "sweep"
      BY <1>1, <1>2, <2>1
    <3>2. c < NextCard(a) => CardOf(c) # CardOf(NextCard(a))
      BY <1>1, <2>0, NextCardFirst
    <3>3. c > l
      BY <1>3, <1>5, <3>1, <3>2 DEF Passed
    <3> QED
      BY <1>4, <3>3
  <2>2. CASE /\ at' = at /\ pc' = [pc EXCEPT ![m] = "clean"]
             /\ ~IsPointer(cell[a])
             /\ a = l \/ CardOf(a + 1) # CardOf(a)
    <3>1. c > l \/ CardOf(c) = CardOf(a)
      BY <1>2, <1>5, <2>2 DEF Passed
    <3>2. CASE c < a \/ c > l
      BY <1>1, <1>4, <2>0, <3>1, <3>2
    <3>3. CASE c = a
      BY <2>2, <3>3
    <3>4. CASE c > a /\ a = l
      BY <1>4, <3>4
    <3>5. CASE c > a /\ CardOf(c) = CardOf(a) /\ CardOf(a + 1) # CardOf(a)
      <4>1. a + 1 \in Nat \ {0} /\ a + 1 <= c /\ a <= a + 1
        BY <1>1, <2>0, <3>5
      <4>2. /\ CardOf(a) \in Nat /\ CardOf(a + 1) \in Nat
            /\ CardOf(a) <= CardOf(a + 1) /\ CardOf(a + 1) <= CardOf(c)
        BY <1>1, <2>0, <4>1, CardOrder
      <4> QED
        BY <3>5, <4>2
    <3> QED
      BY <1>1, <2>0, <2>2, <3>1, <3>2, <3>3, <3>4, <3>5
  <2>3. CASE /\ at' = [at EXCEPT ![m].cell = a + 1] /\ pc' = pc
             /\ ~IsPointer(cell[a])
             /\ CardOf(a + 1) = CardOf(a)
    <3>1. at'[m].cell = a + 1 /\ pc'[m] = "sweep"
      BY <1>1, <1>2, <2>3
    <3>2. c > l \/ (c < a + 1 /\ CardOf(c) = CardOf(a))
      BY <1>3, <1>5, <2>3, <3>1 DEF Passed
    <3>3. c > l \/ c = a \/ (c < a /\ CardOf(c) = CardOf(a))
      BY <1>1, <2>0, <3>2
    <3> QED
      BY <1>4, <2>3, <3>3
  <2> QED
    BY <1>1, <2>1, <2>2, <2>3
<1> HIDE DEF a, l
<1>6. SweepInv'
  <2> SUFFICES ASSUME NEW n \in Mutators, NEW c \in Cells, Passed(n, c)'
               PROVE  ~IsPointer(cell[c]) \/ c \in behind
    BY <1>1 DEF SweepInv, IsPointer
  <2>1. CASE n = m
    BY <1>5, <2>1
  <2>2. CASE n # m
    BY <1>3, <2>2 DEF CardInv, SweepInv, Passed
  <2> QED
    BY <2>1, <2>2
<1>7. OnlyLostForgotten'
  BY <1>1, <1>3, KeepCovered DEF CardInv
<1> QED
  BY <1>6, <1>7 DEF CardInv

LEMMA CleanCardCards ==
  ASSUME Basic, CardInv, NEW m \in Mutators, CleanCard(m)
  PROVE  CardInv'
<1> DEFINE a == at[m].cell
<1>1. /\ pc[m] = "clean" /\ pc'[m] = "sweep" /\ a \in Nat \ {0}
      /\ at'[m].cell = NextCard(a) /\ at'[m].limit = at[m].limit
      /\ \A n \in Mutators : n # m => pc'[n] = pc[n] /\ at'[n] = at[n]
      /\ cell' = cell /\ behind' = behind /\ dirty' = dirty \ {CardOf(a)}
      /\ lost' = lost \cup (behind \cap CellsOf(CardOf(a)))
  BY DEF CleanCard, Basic, TypeOK, PlaceInv
<1> HIDE DEF a
<1>2. \A c \in Cells : CardOf(c) = CardOf(a) => ~IsPointer(cell[c]) \/ c \in behind
  BY <1>1 DEF CardInv, SweepInv, Passed, a
<1>3. SweepInv'
  <2> SUFFICES ASSUME NEW n \in Mutators, NEW c \in Cells, Passed(n, c)'
               PROVE  ~IsPointer(cell[c]) \/ c \in behind
    BY <1>1 DEF SweepInv, IsPointer
  <2>1. CASE n = m
    <3>1. c < NextCard(a) => CardOf(c) # CardOf(NextCard(a))
      BY <1>1, NextCardFirst DEF Cells
    <3>2. c > at[m].limit
      BY <1>1, <2>1, <3>1 DEF Passed
    <3>3. Passed(m, c)
      BY <1>1, <3>2 DEF Passed
    <3> QED
      BY <3>3 DEF CardInv, SweepInv
  <2>2. CASE n # m
    BY <1>1, <2>2 DEF CardInv, SweepInv, Passed
  <2> QED
    BY <2>1, <2>2
<1>4. OnlyLostForgotten'
  <2> SUFFICES ASSUME NEW d \in Cells, d \notin lost', IsPointer(cell[d]), CardOf(d) \notin dirty'
               PROVE  \E n \in Mutators : pc'[n] = "mark" /\ at'[n].cell = d
    BY <1>1 DEF OnlyLostForgotten, Covered, IsPointer
  <2>1. CardOf(d) # CardOf(a)
    BY <1>1, <1>2 DEF CellsOf
  <2>2. d \notin lost /\ CardOf(d) \notin dirty
    BY <1>1, <2>1
  <2>3. PICK n \in Mutators : pc[n] = "mark" /\ at[n].cell = d
    BY <2>2 DEF CardInv, OnlyLostForgotten, Covered
  <2> QED
    BY <1>1, <2>3
<1> QED
  BY <1>3, <1>4 DEF CardInv

LEMMA CardStep ==
  ASSUME Basic, CardInv, [Next]_vars
  PROVE  CardInv'
<1>1. ASSUME NEW m \in Mutators,
             \/ Allocate(m) \/ Load(m) \/ MarkCard(m) \/ BumpStatic(m)
             \/ FillStatic(m) \/ Collect(m) \/ BeginClear(m) \/ SweepCell(m)
             \/ CleanCard(m) \/ EndClear(m) \/ DynamicUnbind(m)
      PROVE  CardInv'
  BY ONLY Basic, CardInv, <1>1, QuietCards, MarkCards, FillCards, CollectCards,
     BeginClearCards, SweepCellCards, CleanCardCards, DynamicUnbindCards
<1>2. ASSUME NEW m \in Mutators, NEW c \in Cells, Store(m, c) \/ DynamicBind(m, c)
      PROVE  CardInv'
  BY ONLY Basic, CardInv, <1>2, StoreCards, DynamicBindCards
<1>3. CASE UNCHANGED vars
  BY <1>3 DEF vars, CardInv, SweepInv, Passed, OnlyLostForgotten, Covered, IsPointer
<1> QED
  BY ONLY [Next]_vars, <1>1, <1>2, <1>3 DEF Next

LEMMA CardInvariance == Spec => []CardInv
<1>1. Init => CardInv
  BY DEF Init, CardInv, SweepInv, Passed, OnlyLostForgotten, Covered, IsPointer
<1>2. Basic /\ CardInv /\ [Next]_vars => CardInv'
  BY CardStep
<1> QED
  BY <1>1, <1>2, BasicInvariance, PTL DEF Spec

-----------------------------------------------------------------------------
(* Addresses.                                                              *)

\* A step that moves no object keeps a word intact; a register's word is.
LEMMA RegisterIntact ==
  ASSUME Basic, RootsIntact, NEW m \in Mutators
  PROVE  Word(reg[m]) \in Words /\ Intact(Word(reg[m]))
<1>1. reg[m] \in Objects \cup {Immediate}
  BY DEF Basic, TypeOK
<1> QED
  BY <1>1, Addressed DEF Basic, RootsIntact, Intact, IsPointer, Word

\* A store of an intact word into cell c.
LEMMA StoreFresh ==
  ASSUME Basic, NoStaleCell, NEW c \in Cells, NEW w \in Words, Intact(w),
         cell' = [cell EXCEPT ![c] = w], home' = home
  PROVE  NoStaleCell'
<1>1. cell'[c] = w /\ \A d \in Cells : d # c => cell'[d] = cell[d]
  BY StoredWord DEF Basic
<1> QED
  BY <1>1 DEF NoStaleCell, Intact, IsPointer

LEMMA AllocateFresh ==
  ASSUME Basic, FreshInv, ~missed, NEW m \in Mutators, Allocate(m)
  PROVE  FreshInv'
<1>1. PICK o \in Objects : /\ home[o] = Free
                           /\ home' = [home EXCEPT ![o] = 0]
                           /\ reg' = [reg EXCEPT ![m] = o]
  BY DEF Allocate
<1>2. /\ \A p : p # Immediate /\ home[p] # Free => home'[p] = home[p]
      /\ home'[o] = 0 /\ 0 # Free
  BY <1>1 DEF Basic, TypeOK, Free
<1>3. UNCHANGED <<cell, bound>>
  BY DEF Allocate
<1>4. NoStaleCell' /\ SavedIntact'
  <2>1. NoStaleCell'
    BY <1>2, <1>3 DEF FreshInv, NoStaleCell, IsPointer
  <2>2. \A w : Intact(w) => (w.obj # Immediate => home'[w.obj] # Free /\ w.addr = home'[w.obj])
    BY <1>2 DEF Intact, IsPointer
  <2>3. SavedIntact'
    BY <1>3, <2>2 DEF FreshInv, SavedIntact, Intact, IsPointer
  <2> QED
    BY <2>1, <2>3
<1>5. RootsIntact'
  BY <1>1, <1>2 DEF FreshInv, RootsIntact, Basic, TypeOK
<1> QED
  BY <1>4, <1>5 DEF FreshInv

LEMMA LoadFresh ==
  ASSUME Basic, FreshInv, ~missed, NEW m \in Mutators, Load(m)
  PROVE  FreshInv'
<1>1. PICK w \in {cell[c] : c \in 1..used} \cup {[obj |-> Immediate, addr |-> 0]} :
        reg' = [reg EXCEPT ![m] = w.obj]
  BY DEF Load
<1>2. w.obj # Immediate => home[w.obj] # Free
  <2>1. CASE w = [obj |-> Immediate, addr |-> 0]
    BY <2>1
  <2>2. ASSUME NEW c \in 1..used, w = cell[c] PROVE w.obj # Immediate => home[w.obj] # Free
    <3>1. c \in Cells
      BY StaticAssumption DEF Basic, TypeOK, Cells
    <3> QED
      BY <2>2, <3>1 DEF FreshInv, NoStaleCell, IsPointer
  <2> QED
    BY <1>1, <2>1, <2>2
<1>3. UNCHANGED <<cell, bound, home>>
  BY DEF Load
<1>4. RootsIntact'
  BY <1>1, <1>2, <1>3 DEF FreshInv, RootsIntact, Basic, TypeOK
<1>5. NoStaleCell' /\ SavedIntact'
  BY <1>3 DEF FreshInv, NoStaleCell, SavedIntact, Intact, IsPointer
<1> QED
  BY <1>4, <1>5 DEF FreshInv

\* The steps that touch no root, no binding, no cell and no object.
LEMMA QuietFresh ==
  ASSUME FreshInv, UNCHANGED <<cell, home, reg, bound, missed>>
  PROVE  FreshInv'
BY DEF FreshInv, RootsIntact, SavedIntact, NoStaleCell, Intact, IsPointer

LEMMA StoringFresh ==
  ASSUME Basic, FreshInv, ~missed, NEW m \in Mutators, NEW c \in Cells,
         cell' = [cell EXCEPT ![c] = Word(reg[m])], UNCHANGED <<home, reg, bound>>
  PROVE  FreshInv'
<1>1. RootsIntact' /\ SavedIntact'
  BY DEF FreshInv, RootsIntact, SavedIntact, Intact, IsPointer
<1>2. NoStaleCell'
  BY RegisterIntact, StoreFresh DEF FreshInv
<1> QED
  BY <1>1, <1>2 DEF FreshInv

LEMMA DynamicBindFresh ==
  ASSUME Basic, FreshInv, ~missed, NEW m \in Mutators, NEW c \in Cells, DynamicBind(m, c)
  PROVE  FreshInv'
<1> DEFINE b == [cell |-> c, saved |-> cell[c]]
           s == Append(bound[m], b)
<1>1. b \in Saved /\ Intact(b.saved)
  <2>1. cell[c] \in Words /\ Intact(cell[c])
    BY DEF FreshInv, NoStaleCell, Intact, Basic, TypeOK, Words
  <2> QED
    BY <2>1 DEF Saved
<1>2. bound' = [bound EXCEPT ![m] = s] /\ UNCHANGED <<home, reg>>
      /\ cell' = [cell EXCEPT ![c] = Word(reg[m])]
  BY DEF DynamicBind
<1>3. bound[m] \in Seq(Saved) /\ bound \in [Mutators -> Seq(Saved)]
  BY DEF Basic, BoundInv
<1> HIDE DEF b
<1>4. /\ Len(s) = Len(bound[m]) + 1 /\ Len(bound[m]) \in Nat
      /\ \A i \in 1..Len(s) : s[i] = IF i <= Len(bound[m]) THEN bound[m][i] ELSE b
  BY <1>1, <1>3
<1> HIDE DEF s
<1>5. \A i \in 1..Len(s) : Intact(s[i].saved)
  BY <1>1, <1>4 DEF FreshInv, SavedIntact
<1>6. SavedIntact'
  <2>1. \A n \in Mutators : bound'[n] = IF n = m THEN s ELSE bound[n]
    BY <1>2, <1>3
  <2>2. \A n \in Mutators : \A i \in 1..Len(bound'[n]) : Intact(bound'[n][i].saved)
    BY <1>5, <2>1 DEF FreshInv, SavedIntact
  <2> QED
    BY <1>2, <2>2 DEF SavedIntact, Intact, IsPointer
<1>7. NoStaleCell'
  BY <1>2, RegisterIntact, StoreFresh DEF FreshInv
<1>8. RootsIntact'
  BY <1>2 DEF FreshInv, RootsIntact
<1> QED
  BY <1>6, <1>7, <1>8 DEF FreshInv

LEMMA DynamicUnbindFresh ==
  ASSUME Basic, FreshInv, ~missed, NEW m \in Mutators, DynamicUnbind(m)
  PROVE  FreshInv'
<1> DEFINE b == bound[m][Len(bound[m])]
<1>1. b \in Saved /\ b.cell \in Cells /\ b.saved \in Words /\ Intact(b.saved)
  BY Unbinding DEF Saved, FreshInv, SavedIntact
<1>2. /\ cell' = [cell EXCEPT ![b.cell] = b.saved] \/ cell' = cell
      /\ UNCHANGED <<home, reg>>
  BY DEF DynamicUnbind
<1>3. SavedIntact'
  <2>1. \A n \in Mutators : Len(bound'[n]) \in Nat /\ Len(bound[n]) \in Nat
                            /\ Len(bound'[n]) <= Len(bound[n])
    BY Unbinding DEF Basic, BoundInv
  <2>2. \A n \in Mutators : \A i \in 1..Len(bound'[n]) :
          i \in 1..Len(bound[n]) /\ bound'[n][i] = bound[n][i]
    BY <2>1, Unbinding
  <2> QED
    BY <1>2, <2>2 DEF FreshInv, SavedIntact, Intact, IsPointer
<1> HIDE DEF b
<1>4. NoStaleCell'
  <2>1. CASE cell' = cell
    BY <1>2, <2>1 DEF FreshInv, NoStaleCell, IsPointer
  <2>2. CASE cell' = [cell EXCEPT ![b.cell] = b.saved]
    BY <1>1, <1>2, <2>2, StoreFresh DEF FreshInv
  <2> QED
    BY <1>2, <2>1, <2>2
<1>5. RootsIntact'
  BY <1>2 DEF FreshInv, RootsIntact
<1> QED
  BY <1>3, <1>4, <1>5 DEF FreshInv

\* What a collection finds it keeps: every root, every saved word and, when it
\* passes over no lost cell, every cell is intact afterwards.
LEMMA CollectFresh ==
  ASSUME Basic, CardInv, FreshInv, ~missed, NEW m \in Mutators, Collect(m)
  PROVE  FreshInv'
<1> USE StaticAssumption
<1> SUFFICES ASSUME ~missed' PROVE RootsIntact' /\ SavedIntact' /\ NoStaleCell'
  BY DEF FreshInv
<1>1. PICK cascade \in BOOLEAN :
       LET live      == {o \in Objects : home[o] # Free}
           condemned == IF cascade THEN live ELSE live \ old
           found     == condemned \cap ({reg[n] : n \in Mutators} \cup Pinned
                                          \cup {cell[c].obj : c \in PresentCells})
           moved     == found \ Pinned
       IN /\ home' = [o \in Objects |-> IF o \in moved THEN 1 - home[o]
                                        ELSE IF o \in found THEN home[o]
                                        ELSE IF o \in condemned THEN Free
                                        ELSE home[o]]
          /\ old' = (old \ condemned) \cup found
          /\ cell' = [c \in Cells |->
               IF c \in PresentCells /\ cell[c].obj \in moved
                 THEN [cell[c] EXCEPT !.addr = home'[cell[c].obj]] ELSE cell[c]]
  BY DEF Collect
<1> DEFINE condemned == IF cascade THEN {o \in Objects : home[o] # Free}
                                   ELSE {o \in Objects : home[o] # Free} \ old
           found == condemned \cap ({reg[n] : n \in Mutators} \cup Pinned
                                      \cup {cell[c].obj : c \in PresentCells})
           moved == found \ Pinned
<1>2. /\ condemned \subseteq Objects /\ \A o \in condemned : home[o] \in 0..1
      /\ found \subseteq condemned
      /\ moved = found \ Pinned
      /\ \A n \in Mutators : reg[n] \in condemned => reg[n] \in found
      /\ \A o \in Pinned : o \in condemned => o \in found
      /\ \A c \in PresentCells : cell[c].obj \in condemned => cell[c].obj \in found
  BY DEF Basic, TypeOK, Free
<1>3. /\ home' = [o \in Objects |-> IF o \in moved THEN 1 - home[o]
                                    ELSE IF o \in found THEN home[o]
                                    ELSE IF o \in condemned THEN Free ELSE home[o]]
      /\ cell' = [c \in Cells |-> IF c \in PresentCells /\ cell[c].obj \in moved
                   THEN [cell[c] EXCEPT !.addr = home'[cell[c].obj]] ELSE cell[c]]
      /\ UNCHANGED <<reg, bound>>
  BY <1>1 DEF Collect
<1> HIDE DEF condemned, found, moved
<1>4. ASSUME NEW o \in Objects, home[o] # Free, o \in condemned => o \in found
      PROVE  home'[o] # Free /\ (o \notin moved => home'[o] = home[o])
  BY <1>2, <1>3, <1>4 DEF Free
<1>5. RootsIntact'
  <2> SUFFICES ASSUME NEW n \in Mutators, reg[n] # Immediate
               PROVE  home'[reg[n]] # Free
    BY <1>3 DEF RootsIntact
  <2>1. reg[n] \in Objects /\ home[reg[n]] # Free
    BY DEF FreshInv, RootsIntact, Basic, TypeOK
  <2> QED
    BY <1>2, <1>4, <2>1
<1>6. SavedIntact'
  <2> SUFFICES ASSUME NEW n \in Mutators, NEW i \in 1..Len(bound[n]),
                      IsPointer(bound[n][i].saved)
               PROVE  /\ home'[bound[n][i].saved.obj] # Free
                      /\ bound[n][i].saved.addr = home'[bound[n][i].saved.obj]
    BY <1>3 DEF SavedIntact, Intact, IsPointer
  <2> DEFINE w == bound[n][i].saved
  <2>1. bound[n][i] \in Saved
    BY DEF Basic, BoundInv
  <2>2. w.obj \in Objects /\ w.obj \in Pinned
    BY <2>1 DEF Saved, Words, IsPointer, Pinned
  <2>3. home[w.obj] # Free /\ w.addr = home[w.obj]
    BY DEF FreshInv, SavedIntact, Intact
  <2> QED
    BY <1>2, <1>4, <2>2, <2>3
<1>7. NoStaleCell'
  <2> SUFFICES ASSUME NEW c \in Cells, IsPointer(cell'[c])
               PROVE  home'[cell'[c].obj] # Free /\ cell'[c].addr = home'[cell'[c].obj]
    BY DEF NoStaleCell, IsPointer
  <2>1. cell'[c].obj = cell[c].obj
    BY Rewritten DEF Basic
  <2>2. /\ cell[c] \in Words /\ cell[c].obj \in Objects /\ home[cell[c].obj] # Free
        /\ cell[c].addr = home[cell[c].obj] /\ IsPointer(cell[c])
    BY <2>1 DEF FreshInv, NoStaleCell, IsPointer, Basic, TypeOK, Words
  <2>3. c \in 1..used
    BY <2>2 DEF Basic, TopInv, TypeOK, Cells
  <2>4. c \in ScannedCells
    <3>1. \A n \in Mutators : pc[n] = "run"
      BY DEF Collect
    <3>2. c \in lost => c \in ScannedCells
      BY <2>2 DEF Collect
    <3>3. c \notin lost => CardOf(c) \in dirty
      BY <2>2, <3>1 DEF CardInv, OnlyLostForgotten, Covered
    <3> QED
      BY <2>3, <3>2, <3>3 DEF ScannedCells
  <2>5. c \in PresentCells
    BY <2>2, <2>4 DEF PresentCells
  <2>6. home'[cell[c].obj] # Free
        /\ (cell[c].obj \notin moved => home'[cell[c].obj] = home[cell[c].obj])
    BY <1>2, <1>4, <2>2, <2>5
  <2>7. CASE cell[c].obj \in moved
    <3>1. cell'[c] = [cell[c] EXCEPT !.addr = home'[cell[c].obj]]
      BY <1>3, <2>5, <2>7
    <3>2. cell'[c].addr = home'[cell[c].obj]
      BY <2>2, <3>1 DEF Words
    <3> QED
      BY <2>1, <2>6, <3>2
  <2>8. CASE cell[c].obj \notin moved
    BY <1>3, <2>2, <2>6, <2>8
  <2> QED
    BY <2>7, <2>8
<1> QED
  BY <1>5, <1>6, <1>7

LEMMA FreshStep ==
  ASSUME Basic, CardInv, FreshInv, [Next]_vars
  PROVE  FreshInv'
<1>1. CASE missed
  <2>1. ASSUME NEW m \in Mutators,
               \/ Allocate(m) \/ Load(m) \/ MarkCard(m) \/ BumpStatic(m) \/ FillStatic(m)
        PROVE  missed'
    BY <1>1, <2>1 DEF ghosts, Allocate, Load, MarkCard, BumpStatic, FillStatic
  <2>2. ASSUME NEW m \in Mutators,
               \/ Collect(m) \/ BeginClear(m) \/ SweepCell(m) \/ CleanCard(m)
               \/ EndClear(m) \/ DynamicUnbind(m)
        PROVE  missed'
    BY <1>1, <2>2 DEF ghosts, Collect, BeginClear, SweepCell, CleanCard, EndClear, DynamicUnbind
  <2>3. ASSUME NEW m \in Mutators, NEW c \in Cells, Store(m, c) \/ DynamicBind(m, c)
        PROVE  missed'
    BY <1>1, <2>3 DEF Store, DynamicBind
  <2>4. ASSUME UNCHANGED vars PROVE missed'
    BY ONLY <1>1, <2>4 DEF vars
  <2>5. missed'
    <3>1. ASSUME Next PROVE missed'
      BY ONLY <3>1, <2>1, <2>2, <2>3 DEF Next
    <3> QED
      BY ONLY [Next]_vars, <2>4, <3>1
  <2> QED
    BY <2>5 DEF FreshInv
<1>2. CASE ~missed
  <2>1. ASSUME NEW m \in Mutators, Allocate(m) \/ Load(m) \/ Collect(m) \/ DynamicUnbind(m)
        PROVE  FreshInv'
    BY ONLY Basic, CardInv, FreshInv, <1>2, <2>1, AllocateFresh, LoadFresh, CollectFresh,
       DynamicUnbindFresh
  <2>2. ASSUME NEW m \in Mutators, NEW c \in Cells, Store(m, c) \/ DynamicBind(m, c)
        PROVE  FreshInv'
    <3>1. CASE Store(m, c)
      BY <1>2, <3>1, StoringFresh DEF Store
    <3>2. CASE DynamicBind(m, c)
      BY ONLY Basic, FreshInv, <1>2, <3>2, DynamicBindFresh
    <3> QED
      BY <2>2, <3>1, <3>2
  <2>3. ASSUME NEW m \in Mutators, FillStatic(m)
        PROVE  FreshInv'
    <3>1. at[m].cell \in Cells
      BY <2>3, StaticAssumption DEF FillStatic, Basic, PlaceInv, TypeOK, Cells
    <3> QED
      BY <1>2, <2>3, <3>1, StoringFresh DEF FillStatic
  <2>4. ASSUME NEW m \in Mutators,
               \/ MarkCard(m) \/ BumpStatic(m) \/ BeginClear(m) \/ SweepCell(m)
               \/ CleanCard(m) \/ EndClear(m)
        PROVE  FreshInv'
    BY <2>4, QuietFresh DEF MarkCard, BumpStatic, BeginClear, SweepCell, CleanCard, EndClear, ghosts
  <2>5. CASE UNCHANGED vars
    BY <2>5, QuietFresh DEF vars
  <2> QED
    BY ONLY [Next]_vars, <2>1, <2>2, <2>3, <2>4, <2>5 DEF Next
<1> QED
  BY <1>1, <1>2

-----------------------------------------------------------------------------
(* The theorems.                                                           *)

\* The bump pointer stays inside the reservation, whichever mutators allocate
\* (StaticArea::try_alloc_cells).
THEOREM StaticTypes == Spec => []TypeOK
<1>1. Basic => TypeOK
  BY DEF Basic
<1> QED
  BY <1>1, BasicInvariance, PTL

\* A static cell with a heap pointer is on a dirty card or about to be, unless
\* it was stored beside the barrier or behind the sweep: the barrier and
\* clear_static_cards_unless_intergen lose no other, wherever cards and the
\* bump pointer lie and whatever the mutators interleave.
THEOREM Remembered == Spec => []OnlyLostForgotten
<1>1. CardInv => OnlyLostForgotten
  BY DEF CardInv
<1> QED
  BY <1>1, CardInvariance, PTL

\* Every pointer in a static cell is the present address of a live object,
\* after any number of collections and cascades, until a collection passes
\* over a lost cell (drive_minor).
THEOREM NeverStale == Spec => []StaleOnlyIfMissed
<1>1. Init => FreshInv
  <2>1. Init => \A m \in Mutators : bound[m] = <<>>
    BY DEF Init
  <2> QED
    BY <2>1 DEF Init, FreshInv, RootsIntact, SavedIntact, NoStaleCell, IsPointer
<1>2. Basic /\ CardInv /\ FreshInv /\ [Next]_vars => FreshInv'
  BY FreshStep
<1>3. FreshInv => StaleOnlyIfMissed
  BY DEF FreshInv, StaleOnlyIfMissed
<1> QED
  BY <1>1, <1>2, <1>3, BasicInvariance, CardInvariance, PTL DEF Spec
=============================================================================
