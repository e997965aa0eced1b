------------------------------ MODULE PageHeap ------------------------------
(***************************************************************************)
(* The generational, evacuating page heap of newgc-core                    *)
(* (crates/newgc-core/src/page_heap: alloc, cycle, evac, mark, pin, space) *)
(* under one mutator.                                                      *)
(*                                                                         *)
(* A collection runs with the world stopped, as the module Safepoint       *)
(* guarantees.  It is a sequence of passes, each evacuating one generation *)
(* into another; a pass marks, then handles the pages of its generation in *)
(* chunks that fit in the free pages: copy the marked objects, rewrite the *)
(* references to them, reclaim the pages.                                  *)
(*                                                                         *)
(* An object is a cons of one reference and fills one slot of a page; id   *)
(* is its identity, which the code does not have.  Every slot is a card.   *)
(* Root slots are precise (visited and rewritten); stack slots are         *)
(* conservative: what they point at is pinned.                             *)
(***************************************************************************)
EXTENDS Naturals, FiniteSets, SequencesExt

CONSTANTS NPages, SlotsPerPage,
          RootSlots, StackSlots,
          Nil,              \* no reference, and no page of a region
          YoungPageCap,     \* PageHeap.young_page_cap
          G0_PROMOTION_THRESHOLD, G1_PROMOTION_THRESHOLD,
          Kinds,            \* the collections that are driven
          DeadWords,        \* may a dead stack word look like a reference?
          MaxAllocs, MaxCycles   \* bounds of the exploration

ASSUME PageHeapAssumption ==
  /\ NPages \in Nat \ {0} /\ SlotsPerPage \in Nat \ {0}
  /\ RootSlots \cap StackSlots = {}
  /\ Nil \notin (1..NPages) \X (1..SlotsPerPage)
  /\ Nil \notin 1..NPages /\ Nil \notin 1..MaxAllocs
  /\ YoungPageCap \in 1..NPages
  /\ G0_PROMOTION_THRESHOLD \in Nat \ {0} /\ G1_PROMOTION_THRESHOLD \in Nat \ {0}
  /\ Kinds \subseteq {"minor", "major", "full"} /\ DeadWords \in BOOLEAN
  /\ MaxAllocs \in Nat /\ MaxCycles \in Nat

Pages == 1..NPages
Addr  == Pages \X (1..SlotsPerPage)
Ids   == 1..MaxAllocs
Slots == RootSlots \cup StackSlots
Gens  == {"G0", "G1", "Tenured"}
PageOf(a) == a[1]

VARIABLES gen,        \* PageDesc.generation of each page
          freeList,   \* free_page_list, a stack
          region,     \* alloc_regions: the open page of each generation
          start,      \* the start bits
          cell,       \* the memory
          dirty,      \* the card table
          value,      \* the reference each slot holds
          minors,     \* minors_since_g0_promote
          promotes,   \* g0_promotes_since_g1_promote
          phase,      \* where the collection is
          passes,     \* the evacuations it still has to make
          snap,       \* descs_at_scan_time: the generations card scans see
          marked,     \* mark_bits
          pinned,     \* pinned_cells
          pending,    \* from_pages not yet handled
          chunk,      \* the pages of the current chunk
          allocs, cycles   \* counted against the bounds

table  == <<gen, freeList, region>>
memory == <<start, cell, dirty>>
clock  == <<minors, promotes, cycles>>
pass   == <<passes, snap, marked, pinned, pending>>
vars   == <<table, memory, value, clock, phase, pass, chunk, allocs>>

Zero == [kind |-> "zero", id |-> 0, ref |-> Nil]
Object(i, r) == [kind |-> "obj", id |-> i, ref |-> r]
Forward(i, to) == [kind |-> "fwd", id |-> i, ref |-> to]

Closed == [page |-> Nil, next |-> 1]
Pass(from, dest, scan) == [from |-> from, dest |-> dest, scan |-> scan]

Init ==
  /\ gen = [p \in Pages |-> "Free"]
  /\ freeList = [i \in Pages |-> NPages + 1 - i]
  /\ region = [g \in Gens |-> Closed]
  /\ start = {} /\ dirty = {}
  /\ cell = [a \in Addr |-> Zero]
  /\ value = [s \in Slots |-> Nil]
  /\ minors = 0 /\ promotes = 0
  /\ phase = "run"
  /\ passes = <<>> /\ snap = gen
  /\ marked = {} /\ pinned = {} /\ pending = <<>> /\ chunk = {}
  /\ allocs = 0 /\ cycles = 0

PagesIn(g) == {p \in Pages : gen[p] = g}

\* The pages P in ascending order, as a walk over the descriptors lists them.
InOrder(P) ==
  [i \in 1..Cardinality(P) |-> CHOOSE p \in P : Cardinality({q \in P : q <= p}) = i]

On(P) == {a \in Addr : PageOf(a) \in P}

(***************************************************************************)
(* Allocation in a generation: bump the open page, else open a free one.   *)
(***************************************************************************)
Fits(g) == region[g].page # Nil /\ region[g].next <= SlotsPerPage
CanPlace(g) == Fits(g) \/ freeList # <<>>
Place(g) == IF Fits(g) THEN <<region[g].page, region[g].next>>
                       ELSE <<Last(freeList), 1>>

\* Slot a of generation g is taken and holds c.
Take(g, a, newCell, newStart) ==
  /\ region' = [region EXCEPT ![g] = [page |-> PageOf(a), next |-> a[2] + 1]]
  /\ gen' = [gen EXCEPT ![PageOf(a)] = g]
  /\ freeList' = IF Fits(g) THEN freeList ELSE Front(freeList)
  /\ start' = (IF Fits(g) THEN newStart ELSE newStart \ On({PageOf(a)})) \cup {a}
  /\ cell' = newCell

(***************************************************************************)
(* The mutator.  A collection may start between any two of its steps.      *)
(***************************************************************************)
Resident(a) == a \in start /\ cell[a].kind = "obj"

UnderCap == Fits("G0") \/ Cardinality(PagesIn("G0")) < YoungPageCap

\* s := (cons nil t)
AllocCons(s, t) ==
  /\ phase = "run" /\ allocs < MaxAllocs
  /\ UnderCap /\ CanPlace("G0")
  /\ LET a == Place("G0")
         i == CHOOSE j \in Ids : \A b \in start : cell[b].id # j
     IN /\ Take("G0", a, [cell EXCEPT ![a] = Object(i, value[t])], start)
        /\ value' = [value EXCEPT ![s] = a]
  /\ allocs' = allocs + 1
  /\ UNCHANGED <<dirty, clock, phase, pass, chunk>>

\* Defect: a store without its card barrier.
RplacdUnmarked(s, t) ==
  /\ phase = "run" /\ value[s] # Nil
  /\ cell' = [cell EXCEPT ![value[s]].ref = value[t]]
  /\ UNCHANGED <<table, start, dirty, value, clock, phase, pass, chunk, allocs>>

\* (rplacd s t)
Rplacd(s, t) ==
  /\ phase = "run" /\ value[s] # Nil
  /\ cell' = [cell EXCEPT ![value[s]].ref = value[t]]
  /\ dirty' = dirty \cup {value[s]}
  /\ UNCHANGED <<table, start, value, clock, phase, pass, chunk, allocs>>

SetSlot(s, v) ==
  /\ phase = "run" /\ value' = [value EXCEPT ![s] = v]
  /\ UNCHANGED <<table, memory, clock, phase, pass, chunk, allocs>>

Cdr(s, t) == value[t] # Nil /\ SetSlot(s, cell[value[t]].ref)
Move(s, t) == SetSlot(s, value[t])
Clear(s) == SetSlot(s, Nil)

(***************************************************************************)
(* A collection is driven: the stack is pinned and the passes are chosen.  *)
(* One dead word of the stack may look like a reference too.               *)
(***************************************************************************)
PinGens(kind) == [minor |-> {"G0", "G1"}, major |-> {}, full |-> Gens][kind]

PromoteG0 == minors + 1 >= G0_PROMOTION_THRESHOLD
Cascade   == PromoteG0 /\ promotes + 1 >= G1_PROMOTION_THRESHOLD

MinorPasses ==
  LET young == Pass("G0", IF PromoteG0 THEN "G1" ELSE "G0", "driven")
  IN IF Cascade THEN <<young, Pass("G1", "Tenured", "driven")>> ELSE <<young>>
MajorPasses == <<Pass("G1", "Tenured", "driven"), Pass("G0", "G0", "now")>>
FullPasses ==
  <<Pass("G0", "G1", "now"), Pass("G1", "Tenured", "now"),
    Pass("Tenured", "Tenured", "none")>>

\* Defect: a promotion does not restart the count.
CollectMinorNoReset ==
  /\ passes' = MinorPasses
  /\ minors' = minors + 1
  /\ promotes' = IF Cascade THEN 0 ELSE IF PromoteG0 THEN promotes + 1 ELSE promotes

CollectMinor ==
  /\ passes' = MinorPasses
  /\ minors' = IF PromoteG0 THEN 0 ELSE minors + 1
  /\ promotes' = IF Cascade THEN 0 ELSE IF PromoteG0 THEN promotes + 1 ELSE promotes

CollectMajor == passes' = MajorPasses /\ minors' = 0 /\ promotes' = 0
CollectFull  == passes' = FullPasses /\ minors' = 0 /\ promotes' = 0

\* pin_pointers_in_ranges, for each generation it is called for.
Pins(kind, word) ==
  {a \in start : /\ a = word \/ \E s \in StackSlots : value[s] = a
                 /\ gen[PageOf(a)] \in PinGens(kind)}

\* collect_major has no driver that pins: its caller holds precise roots only.
Collect(kind, word) ==
  /\ phase = "run" /\ cycles < MaxCycles
  /\ kind = "major" => word = Nil /\ \A s \in StackSlots : value[s] = Nil
  /\ CASE kind = "minor" -> CollectMinor
       [] kind = "major" -> CollectMajor
       [] kind = "full"  -> CollectFull
  /\ pinned' = Pins(kind, word)
  /\ snap' = gen
  /\ phase' = "pass" /\ cycles' = cycles + 1
  /\ UNCHANGED <<table, memory, value, marked, pending, chunk, allocs>>

(***************************************************************************)
(* evacuate_with_roots: the marks, then the list of pages.                 *)
(***************************************************************************)
fromGen == Head(passes).from
destGen == Head(passes).dest

\* The objects whose cards a scan visits, under the generations G.
CardRoots(G) == {a \in dirty \cap start : G[PageOf(a)] \notin {"Free", fromGen}}

\* The objects of From that the objects S reach inside From: the least set
\* that the references leading on from it do not leave.
Traced(T, S, From) ==
  S \cap From \subseteq T /\ \A a \in T : cell[a].ref \in From => cell[a].ref \in T
Closure(S, From) ==
  LET Sets == {T \in SUBSET From : Traced(T, S, From)}
  IN {a \in From : \A T \in Sets : a \in T}

ScanGens ==
  CASE Head(passes).scan = "driven" -> snap
    [] Head(passes).scan = "now"    -> gen
    [] Head(passes).scan = "none"   -> [p \in Pages |-> "Free"]

RootRefs  == {value[s] : s \in RootSlots} \cup {cell[a].ref : a \in CardRoots(ScanGens)}
PinnedRefs == pinned \cup {cell[a].ref : a \in pinned}

\* Defect: what only a pinned object reaches is not marked.
MarkPrecise(From) == Closure(RootRefs \cup pinned, From \ pinned) \cup (pinned \cap From)

Mark(From) == Closure(RootRefs \cup PinnedRefs, From)

BeginPass ==
  /\ phase = "pass" /\ passes # <<>>
  /\ marked' = Mark(start \cap On(PagesIn(fromGen)))
  /\ pending' = InOrder(PagesIn(fromGen))
  /\ region' = [region EXCEPT ![fromGen] = Closed]
  /\ snap' = ScanGens
  /\ phase' = "chunk"
  /\ UNCHANGED <<gen, freeList, memory, value, clock, passes, pinned, chunk, allocs>>

\* Seven eighths of the free pages that no pinned page will hold back.
Budget ==
  LET free == Cardinality(PagesIn("Free"))
      held == Cardinality({p \in PagesIn(fromGen) : \E a \in pinned : PageOf(a) = p})
  IN IF held >= free THEN 0 ELSE ((free - held) * 7) \div 8

AtMost(m, n) == IF m < n THEN m ELSE n

\* Defect: no floor of one page.
ChunkSizeNoFloor == AtMost(Budget, Len(pending))
ChunkSize == AtMost(IF Budget = 0 THEN 1 ELSE Budget, Len(pending))

TakeChunk ==
  /\ phase = "chunk" /\ pending # <<>>
  /\ chunk' = ToSet(SubSeq(pending, 1, ChunkSize))
  /\ pending' = SubSeq(pending, ChunkSize + 1, Len(pending))
  /\ phase' = "copy"
  /\ UNCHANGED <<table, memory, value, clock, passes, snap, marked, pinned, allocs>>

(***************************************************************************)
(* Phase 1: copy the marked objects of the chunk, in page order.           *)
(***************************************************************************)
ToCopy == {a \in (marked \cap start) \ pinned :
             PageOf(a) \in chunk /\ cell[a].kind # "fwd"}
First(S) == CHOOSE a \in S : \A b \in S : a[1] < b[1] \/ (a[1] = b[1] /\ a[2] <= b[2])

CopyObject ==
  /\ phase = "copy" /\ ToCopy # {} /\ CanPlace(destGen)
  /\ LET a == First(ToCopy)
         d == Place(destGen)
     IN /\ Take(destGen, d, [cell EXCEPT ![d] = cell[a], ![a] = Forward(cell[a].id, d)], start)
        /\ dirty' = dirty \cup {d}
  /\ UNCHANGED <<value, clock, phase, pass, chunk, allocs>>

\* GcStallError::mid_evac_oom unwinds; the heap is poisoned for good.
Stall ==
  /\ phase = "copy" /\ ToCopy # {} /\ ~CanPlace(destGen)
  /\ phase' = "stalled"
  /\ UNCHANGED <<table, memory, value, clock, pass, chunk, allocs>>

(***************************************************************************)
(* Phase 2: rewrite the references to what was copied, in the roots, the   *)
(* dirty cards, the pages of the destination and the pinned objects.       *)
(***************************************************************************)
Forwarded(r) == r # Nil /\ gen[PageOf(r)] # "Free" /\ r \in start /\ cell[r].kind = "fwd"
Target(r) == IF Forwarded(r) THEN cell[r].ref ELSE r

Swept == {a \in start :
            /\ cell[a].kind = "obj"
            /\ PageOf(a) \in PagesIn(destGen) \/ a \in CardRoots(snap) \/ a \in pinned}

Rewrite ==
  /\ phase = "copy" /\ ToCopy = {}
  /\ value' = [s \in Slots |-> IF s \in RootSlots THEN Target(value[s]) ELSE value[s]]
  /\ cell' = [a \in Addr |->
                IF a \in Swept THEN [cell[a] EXCEPT !.ref = Target(@)] ELSE cell[a]]
  /\ phase' = "reclaim"
  /\ UNCHANGED <<table, start, dirty, clock, pass, chunk, allocs>>

(***************************************************************************)
(* Phase 3: pinned pages flip to the destination in place, the others are  *)
(* freed.  Everything but the pinned objects is wiped.                     *)
(***************************************************************************)
Flipped == {p \in chunk : \E a \in pinned : PageOf(a) = p}
Released == chunk \ Flipped

\* Defect: released pages keep their start bits.
ReclaimKeepsBits ==
  /\ phase = "reclaim"
  /\ gen' = [p \in Pages |-> CASE p \in Flipped -> destGen
                               [] p \in Released -> "Free" [] OTHER -> gen[p]]
  /\ freeList' = freeList \o InOrder(Released)
  /\ start' = start \ (On(Flipped) \ pinned)
  /\ cell' = [a \in Addr |-> IF a \in On(chunk) \ pinned THEN Zero ELSE cell[a]]
  /\ dirty' = dirty \cup (pinned \cap On(Flipped))
  /\ chunk' = {}
  /\ phase' = "chunk"
  /\ UNCHANGED <<region, value, clock, pass, allocs>>

Reclaim ==
  /\ phase = "reclaim"
  /\ gen' = [p \in Pages |-> CASE p \in Flipped -> destGen
                               [] p \in Released -> "Free" [] OTHER -> gen[p]]
  /\ freeList' = freeList \o InOrder(Released)
  /\ start' = start \ (On(chunk) \ pinned)
  /\ cell' = [a \in Addr |-> IF a \in On(chunk) \ pinned THEN Zero ELSE cell[a]]
  /\ dirty' = dirty \cup (pinned \cap On(Flipped))
  /\ chunk' = {}
  /\ phase' = "chunk"
  /\ UNCHANGED <<region, value, clock, pass, allocs>>

\* Defect: the pins are dropped with the first pass.
EndPassUnpins ==
  /\ phase = "chunk" /\ pending = <<>>
  /\ passes' = Tail(passes) /\ marked' = {} /\ pinned' = {}
  /\ phase' = "pass"
  /\ UNCHANGED <<table, memory, value, clock, snap, pending, chunk, allocs>>

EndPass ==
  /\ phase = "chunk" /\ pending = <<>> /\ chunk = {}
  /\ passes' = Tail(passes) /\ marked' = {}
  /\ phase' = "pass"
  /\ UNCHANGED <<table, memory, value, clock, snap, pinned, pending, chunk, allocs>>

\* Defect: the cards are cleared and not rebuilt.
FinishClears ==
  /\ phase = "pass" /\ passes = <<>>
  /\ dirty' = {}
  /\ pinned' = {} /\ snap' = [p \in Pages |-> "Free"]
  /\ phase' = "run"
  /\ UNCHANGED <<table, start, cell, value, clock, passes, marked, pending, chunk, allocs>>

\* rebuild_cards_for_old_gens and clear_all_pins.
Finish ==
  /\ phase = "pass" /\ passes = <<>>
  /\ dirty' = {a \in Addr : gen[PageOf(a)] # "Free" /\ cell[a].kind = "obj" /\ cell[a].ref # Nil}
  /\ pinned' = {} /\ snap' = [p \in Pages |-> "Free"]
  /\ phase' = "run"
  /\ UNCHANGED <<table, start, cell, value, clock, passes, marked, pending, chunk, allocs>>

(***************************************************************************)
(* The specification.                                                      *)
(***************************************************************************)
\* A result arrives in a root; the stack gets it by being spilled to.
Mutate ==
  \/ \E s \in RootSlots, t \in Slots : AllocCons(s, t) \/ Cdr(s, t)
  \/ \E s, t \in Slots : Rplacd(s, t) \/ Move(s, t)
  \/ \E s \in Slots : Clear(s)
Drive == \E kind \in Kinds, word \in {Nil} \cup IF DeadWords THEN Addr ELSE {} :
           Collect(kind, word)
Collector ==
  \/ BeginPass \/ TakeChunk \/ CopyObject \/ Stall
  \/ Rewrite \/ Reclaim \/ EndPass \/ Finish

Next == Mutate \/ Drive \/ Collector
Spec == Init /\ [][Next]_vars

\* A collection is one call: once driven it runs on.
FairSpec == Spec /\ WF_vars(Collector)

(***************************************************************************)
(* Properties.                                                             *)
(***************************************************************************)
References == Addr \cup {Nil}

\* Every variable has its type; between collections the promotion counts are
\* below their thresholds (cycle.rs resets the one it acts on).
TypeOK ==
  /\ gen \in [Pages -> Gens \cup {"Free"}]
  /\ freeList \in Seq(Pages)
  /\ region \in [Gens -> [page : Pages \cup {Nil}, next : 1..SlotsPerPage + 1]]
  /\ start \subseteq Addr /\ dirty \subseteq Addr
  /\ cell \in [Addr -> [kind : {"zero", "obj", "fwd"}, id : Ids \cup {0}, ref : References]]
  /\ value \in [Slots -> References]
  /\ minors \in 0..G0_PROMOTION_THRESHOLD - 1
  /\ promotes \in 0..G1_PROMOTION_THRESHOLD - 1
  /\ phase \in {"run", "pass", "chunk", "copy", "reclaim", "stalled"}
  /\ passes \in Seq([from : Gens, dest : Gens, scan : {"driven", "now", "none"}])
  /\ snap \in [Pages -> Gens \cup {"Free"}]
  /\ marked \subseteq Addr /\ pinned \subseteq Addr
  /\ pending \in Seq(Pages) /\ chunk \subseteq Pages
  /\ allocs \in 0..MaxAllocs /\ cycles \in 0..MaxCycles

\* The free list holds the free pages, each once, and they are blank: no start
\* bit for a conservative word to hit, no byte for a stale word to read.  An
\* open page belongs to its generation.
FreePagesExact ==
  /\ ToSet(freeList) = PagesIn("Free") /\ IsInjective(freeList)
  /\ \A a \in On(PagesIn("Free")) : a \notin start /\ cell[a] = Zero
  /\ \A g \in Gens : region[g].page # Nil => gen[region[g].page] = g

\* Between collections no start bit covers a forwarding marker, and what any
\* object refers to, a dead one included, is an object: a dead word of the
\* stack may revive it at the next collection.
HeapClosed ==
  phase = "run" =>
    \A a \in start : /\ cell[a].kind = "obj"
                     /\ cell[a].ref # Nil => Resident(cell[a].ref)

Age(g) == CASE g = "G0" -> 0 [] g = "G1" -> 1 [] g = "Tenured" -> 2

\* Between collections a reference into a younger generation is on a dirty
\* card, or the next minor collection would not see it.
RememberedSet ==
  phase = "run" =>
    \A a \in start \ dirty :
      Resident(cell[a].ref) => Age(gen[PageOf(a)]) <= Age(gen[PageOf(cell[a].ref)])

\* A reference as the program will see it once the collection is over.
Final(r) == IF r \in start /\ cell[r].kind = "fwd" THEN cell[r].ref ELSE r

\* The objects the slots reach.
Reached ==
  LET Heads == {Final(value[s]) : s \in Slots} \ {Nil}
      Rest  == {Final(r) : r \in {cell[a].ref : a \in Addr}} \ (Heads \cup {Nil})
      Sets  == {U \in SUBSET Rest :
                  \A a \in Heads \cup U : Final(cell[a].ref) \in Heads \cup U \cup {Nil}}
  IN Heads \cup {a \in Rest : \A U \in Sets : a \in U}

\* When the first object of a pass is copied, every object of its generation
\* that the slots reach is marked (I-1 of docs/GC_CHUNKED_INVARIANTS.md).
MarkComplete ==
  phase = "chunk" /\ Len(pending) = Cardinality(PagesIn(fromGen)) =>
    Reached \cap On(PagesIn(fromGen)) \subseteq marked

\* Once the references to a chunk are rewritten, no word the program can reach
\* refers to a slot of the chunk, a pinned object excepted (I-3).
ChunkUnreferenced ==
  phase = "reclaim" =>
    \A r \in {value[s] : s \in Slots} \cup {cell[a].ref : a \in Reached} :
      r \in On(chunk) => r \in pinned

\* The identity of what a reference denotes; 0 is nobody's.  A stack word is
\* never rewritten, so it must denote its object where it stands.
Denotes(r) == IF r = Nil THEN Nil ELSE IF Resident(r) THEN cell[r].id ELSE 0
Shown(s) == IF s \in StackSlots THEN Denotes(value[s]) ELSE Denotes(Final(value[s]))

Objects == {a \in start : cell[a].kind = "obj"}

Graph == INSTANCE LispGraph
  WITH head <- [s \in Slots |-> Shown(s)],
       links <- {<<cell[a].id, Denotes(Final(cell[a].ref))>> : a \in Reached \cap Objects}

\* The program sees a graph of conses that no collection changes.
ImplementsLispGraph == Graph!Spec

\* A collection ends, if only by running out of memory.
CollectionEnds == phase = "pass" ~> phase \in {"run", "stalled"}
=============================================================================
