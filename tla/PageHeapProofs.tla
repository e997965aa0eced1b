--------------------------- MODULE PageHeapProofs ---------------------------
(***************************************************************************)
(* For any number and size of pages, slots, objects and collections of     *)
(* PageHeap.                                                               *)
(***************************************************************************)
EXTENDS PageHeap, FiniteSetTheorems, SequenceTheorems, NaturalsInduction, TLAPS

-----------------------------------------------------------------------------
(* Pages in order.                                                         *)

\* A sequence is as long as its domain says.
LEMMA LenDomain ==
  ASSUME NEW S, NEW s \in Seq(S), NEW n \in Nat, DOMAIN s = 1..n
  PROVE  Len(s) = n
<1>1. Len(s) \in Nat /\ DOMAIN s = 1..Len(s)
  BY LenProperties
<1>2. \A a, b \in Nat : 1..a = 1..b => a = b
  <2>1. ASSUME NEW a \in Nat, NEW b \in Nat, 1..a = 1..b
        PROVE  ~(a < b) /\ ~(b < a)
    <3>1. a \in 1..a <=> a \in 1..b
      BY <2>1
    <3>2. b \in 1..a <=> b \in 1..b
      BY <2>1
    <3> QED
      BY <3>1, <3>2
  <2> QED
    BY <2>1
<1> QED
  BY <1>1, <1>2

\* Numbers up to a bound are finite in number.
LEMMA FiniteNumbers ==
  ASSUME NEW m \in Nat, NEW P \in SUBSET (1..m)
  PROVE  IsFiniteSet(P) /\ Cardinality(P) \in Nat
<1>1. IsFiniteSet(1..m)
  BY FS_Interval
<1> QED
  BY <1>1, FS_Subset, FS_CardinalityType

LEMMA FinitePages ==
  ASSUME NEW P \in SUBSET Pages
  PROVE  IsFiniteSet(P) /\ Cardinality(P) \in Nat
BY PageHeapAssumption, FiniteNumbers DEF Pages

\* The members of P up to p, of which there are as many as p is far in P.
UpTo(P, p) == {q \in P : q <= p}

LEMMA RankIs ==
  ASSUME NEW m \in Nat, NEW P \in SUBSET (1..m)
  PROVE  /\ \A p \in P : Cardinality(UpTo(P, p)) \in 1..Cardinality(P)
         /\ \A p, q \in P : p < q => Cardinality(UpTo(P, p)) < Cardinality(UpTo(P, q))
<1>0. \A x \in P : x \in Nat
  OBVIOUS
<1>1. \A p \in P : /\ UpTo(P, p) \in SUBSET P /\ IsFiniteSet(UpTo(P, p))
                   /\ Cardinality(UpTo(P, p)) \in Nat
  <2>1. \A p \in P : UpTo(P, p) \in SUBSET P /\ UpTo(P, p) \in SUBSET (1..m)
    BY DEF UpTo
  <2> QED
    BY <2>1, FiniteNumbers
<1>2. ASSUME NEW p \in P
      PROVE  Cardinality(UpTo(P, p)) \in 1..Cardinality(P)
  <2>1. Cardinality(UpTo(P, p)) <= Cardinality(P)
    BY <1>1, FiniteNumbers, FS_Subset
  <2>2. p \in UpTo(P, p)
    BY <1>0 DEF UpTo
  <2>3. Cardinality(UpTo(P, p)) # 0
    BY <1>1, <2>2, FS_EmptySet
  <2> QED
    BY <1>1, <2>1, <2>3, FiniteNumbers
<1>3. ASSUME NEW p \in P, NEW q \in P, p < q
      PROVE  Cardinality(UpTo(P, p)) < Cardinality(UpTo(P, q))
  <2>0. p \in Nat /\ q \in Nat
    BY <1>0
  <2>1. UpTo(P, p) \in SUBSET UpTo(P, q)
    <3>1. \A x \in P : x <= p => x <= q
      BY <1>0, <2>0, <1>3
    <3> QED
      BY <3>1 DEF UpTo
  <2>2. q \in UpTo(P, q) /\ q \notin UpTo(P, p)
    BY <1>3, <2>0 DEF UpTo
  <2>3. Cardinality(UpTo(P, p)) <= Cardinality(UpTo(P, q))
    BY <1>1, <2>1, FS_Subset
  <2>4. Cardinality(UpTo(P, p)) # Cardinality(UpTo(P, q))
    BY <1>1, <2>1, <2>2, FS_Subset
  <2> QED
    BY <1>1, <2>3, <2>4
<1> QED
  BY <1>2, <1>3

\* There is a member at each rank.
LEMMA RankFound ==
  ASSUME NEW m \in Nat, NEW P \in SUBSET (1..m), NEW i \in 1..Cardinality(P)
  PROVE  \E p \in P : Cardinality(UpTo(P, p)) = i
<1> DEFINE n == Cardinality(P)
           r == [p \in P |-> Cardinality(UpTo(P, p))]
           T == (1..n) \ {i}
<1>1. n \in Nat /\ IsFiniteSet(P)
  BY FiniteNumbers
<1>r. /\ \A p \in P : Cardinality(UpTo(P, p)) \in 1..Cardinality(P)
      /\ \A p, q \in P : p < q => Cardinality(UpTo(P, p)) < Cardinality(UpTo(P, q))
  BY RankIs
<1> SUFFICES ASSUME \A p \in P : Cardinality(UpTo(P, p)) # i
             PROVE  FALSE
  OBVIOUS
<1>2. r \in [P -> T]
  BY <1>r
<1>3. IsFiniteSet(T) /\ Cardinality(T) < Cardinality(P)
  <2>1. IsFiniteSet(1..n) /\ Cardinality(1..n) = n
    BY <1>1, FS_Interval
  <2>2. IsFiniteSet(T) /\ Cardinality(T) = n - 1
    <3>1. i \in 1..n
      OBVIOUS
    <3> HIDE DEF n
    <3>2. Cardinality(T) = IF i \in 1..n THEN Cardinality(1..n) - 1 ELSE Cardinality(1..n)
      BY <2>1, FS_RemoveElement
    <3>3. IsFiniteSet(T)
      BY <2>1, FS_RemoveElement
    <3> QED
      BY <2>1, <3>1, <3>2, <3>3
  <2> QED
    BY <1>1, <2>2
<1> HIDE DEF r, T
<1>4. PICK p, q \in P : p # q /\ r[p] = r[q]
  BY <1>1, <1>2, <1>3, FS_PigeonHole
<1>5. p \in Nat /\ q \in Nat
  OBVIOUS
<1>6. p < q \/ q < p
  BY <1>4, <1>5
<1> QED
  BY <1>4, <1>6, <1>r DEF r

\* The member of rank one is the least.
LEMMA LeastIs ==
  ASSUME NEW m \in Nat, NEW P \in SUBSET (1..m), P # {}
  PROVE  \E p \in P : \A q \in P : p <= q
<1>1. Cardinality(P) \in Nat /\ Cardinality(P) # 0
  BY FiniteNumbers, FS_EmptySet
<1>2. PICK p \in P : Cardinality(UpTo(P, p)) = 1
  BY <1>1, RankFound
<1>r. /\ \A x \in P : Cardinality(UpTo(P, x)) \in 1..Cardinality(P)
      /\ \A x, y \in P : x < y => Cardinality(UpTo(P, x)) < Cardinality(UpTo(P, y))
  BY RankIs
<1>3. ASSUME NEW q \in P
      PROVE  p <= q
  <2>1. p \in Nat /\ q \in Nat /\ Cardinality(UpTo(P, q)) \in 1..Cardinality(P)
    BY <1>r
  <2>2. ~(q < p)
    BY <1>1, <1>2, <2>1, <1>r
  <2> QED
    BY <2>1, <2>2
<1> QED
  BY <1>3

\* InOrder lists the pages of P once each.
LEMMA InOrderIs ==
  ASSUME NEW P \in SUBSET Pages
  PROVE  /\ InOrder(P) \in Seq(P) /\ InOrder(P) \in Seq(Pages)
         /\ Len(InOrder(P)) = Cardinality(P)
         /\ ToSet(InOrder(P)) = P /\ IsInjective(InOrder(P))
<1> DEFINE n == Cardinality(P)
           s == InOrder(P)
<1>0. NPages \in Nat /\ P \in SUBSET (1..NPages)
  BY PageHeapAssumption DEF Pages
<1>1. n \in Nat
  BY FinitePages
<1>2. /\ DOMAIN s = 1..n
      /\ \A i \in 1..n : s[i] \in P /\ Cardinality(UpTo(P, s[i])) = i
  <2>1. s = [i \in 1..n |-> CHOOSE p \in P : Cardinality(UpTo(P, p)) = i]
    BY DEF InOrder, UpTo
  <2>2. ASSUME NEW i \in 1..n
        PROVE  s[i] \in P /\ Cardinality(UpTo(P, s[i])) = i
    <3>1. \E p \in P : Cardinality(UpTo(P, p)) = i
      BY <1>0, RankFound
    <3>2. s[i] = CHOOSE p \in P : Cardinality(UpTo(P, p)) = i
      BY <2>1
    <3> HIDE DEF s
    <3> QED
      BY <3>1, <3>2, Zenon
  <2> QED
    BY <2>1, <2>2
<1>3. s \in [1..n -> P]
  BY <1>2 DEF InOrder
<1>4. s \in Seq(P) /\ s \in Seq(Pages)
  <2>1. s \in [1..n -> Pages]
    BY <1>3
  <2> QED
    BY <1>1, <1>3, <2>1, SeqDef
<1> HIDE DEF s, n
<1>5. Len(s) = n
  BY <1>1, <1>2, <1>4, LenDomain
<1>6. IsInjective(s)
  BY <1>2 DEF IsInjective
<1>r. /\ \A p \in P : Cardinality(UpTo(P, p)) \in 1..Cardinality(P)
      /\ \A p, q \in P : p < q => Cardinality(UpTo(P, p)) < Cardinality(UpTo(P, q))
  BY <1>0, RankIs
<1>a. P \subseteq Nat
  BY PageHeapAssumption DEF Pages
<1>7. \A p \in P : \E i \in 1..n : s[i] = p
  <2>1. SUFFICES ASSUME NEW p \in P
                 PROVE  s[Cardinality(UpTo(P, p))] = p
    BY <1>r DEF n
  <2> DEFINE i == Cardinality(UpTo(P, p))
  <2>2. i \in 1..n
    BY <1>r DEF n
  <2>3. s[i] \in P /\ Cardinality(UpTo(P, s[i])) = i
    BY <1>2, <2>2
  <2>4. s[i] \in Nat /\ p \in Nat
    BY <1>a, <2>3
  <2>5. ~(s[i] < p) /\ ~(p < s[i])
    BY <1>r, <2>3
  <2> HIDE DEF i
  <2> QED
    BY <2>4, <2>5 DEF i
<1>8. ToSet(s) = P
  BY <1>2, <1>7 DEF ToSet
<1> QED
  BY <1>4, <1>5, <1>6, <1>8 DEF s, n

-----------------------------------------------------------------------------
(* The invariant.                                                          *)

Collecting == {"chunk", "copy", "reclaim", "stalled"}

\* What is set in each phase.
PhaseInv ==
  /\ phase \in Collecting => passes # <<>>
  /\ phase \notin Collecting => pending = <<>>
  /\ phase \in {"run", "pass", "chunk"} => chunk = {}
  /\ phase = "run" => passes = <<>>

\* The pages of the pass under way that it has not handled.
Ahead == ToSet(pending) \cup chunk

PageInv ==
  /\ ToSet(freeList) = PagesIn("Free") /\ IsInjective(freeList)
  /\ IsInjective(pending) /\ ToSet(pending) \cap chunk = {}
  /\ \A p \in Ahead : gen[p] = fromGen
  /\ \A g \in Gens : LET p == region[g].page IN
       p # Nil => /\ gen[p] = g /\ p \notin Ahead
                  /\ \A a \in start : PageOf(a) = p => a[2] < region[g].next

\* A start bit is on a used page and covers an object, or the marker of one
\* that the chunk under way has lost.
StartInv ==
  /\ \A a \in start : gen[PageOf(a)] # "Free" /\ cell[a].kind # "zero"
  /\ \A a \in Addr : cell[a].kind = "fwd" => a \in On(chunk) \ pinned
  /\ pinned \subseteq start

\* The identities in use, no more than there have been allocations.
UsedIds == {cell[a].id : a \in start}
IdInv == IsFiniteSet(UsedIds) /\ Cardinality(UsedIds) <= allocs

\* An object with a reference is young or on a dirty card.
CardInv ==
  \A a \in start \ dirty :
    cell[a].kind = "obj" /\ cell[a].ref # Nil => gen[PageOf(a)] = "G0"

BaseInv == TypeOK /\ PhaseInv /\ PageInv /\ StartInv /\ IdInv /\ CardInv

-----------------------------------------------------------------------------
(* Placing an object.                                                      *)

\* Addresses and their pages.
LEMMA Addresses ==
  /\ \A a \in Addr : /\ PageOf(a) \in Pages /\ a[2] \in 1..SlotsPerPage
                     /\ a = <<PageOf(a), a[2]>>
  /\ \A p \in Pages, i \in 1..SlotsPerPage :
       <<p, i>> \in Addr /\ PageOf(<<p, i>>) = p
  /\ Nil \notin Addr /\ Nil \notin Pages
  /\ SlotsPerPage \in Nat \ {0} /\ NPages \in Nat \ {0}
BY PageHeapAssumption DEF Addr, Pages, PageOf

\* The last page of the free list, and what is left of the list.
LEMMA PopFree ==
  ASSUME NEW s \in Seq(Pages), s # <<>>, IsInjective(s)
  PROVE  /\ Last(s) \in Pages /\ Last(s) \in ToSet(s)
         /\ Front(s) \in Seq(Pages) /\ IsInjective(Front(s))
         /\ ToSet(Front(s)) = ToSet(s) \ {Last(s)}
<1>1. Len(s) \in Nat /\ Len(s) # 0 /\ DOMAIN s = 1..Len(s)
  BY LenProperties, EmptySeq
<1>2. Last(s) = s[Len(s)] /\ Len(s) \in 1..Len(s)
  BY <1>1 DEF Last
<1>3. \A i \in 1..Len(s) : s[i] \in Pages
  BY <1>1, ElementOfSeq
<1>4. Front(s) = SubSeq(s, 1, Len(s) - 1)
  BY DEF Front
<1>5. /\ Front(s) \in Seq(Pages) /\ Len(Front(s)) = Len(s) - 1
      /\ \A i \in 1..Len(s) - 1 : Front(s)[i] = s[i]
  BY <1>1, <1>4, SubSeqProperties
<1>6. DOMAIN Front(s) = 1..Len(s) - 1
  BY <1>5, LenProperties
<1>7. IsInjective(Front(s))
  BY <1>1, <1>5, <1>6 DEF IsInjective
<1>8. ToSet(Front(s)) = ToSet(s) \ {Last(s)}
  <2>1. ASSUME NEW i \in 1..Len(s) - 1
        PROVE  Front(s)[i] \in ToSet(s) /\ Front(s)[i] # Last(s)
    BY <1>1, <1>2, <1>5 DEF ToSet, IsInjective
  <2>2. ASSUME NEW i \in 1..Len(s), s[i] # Last(s)
        PROVE  s[i] \in ToSet(Front(s))
    <3>1. i \in 1..Len(s) - 1
      BY <1>1, <1>2, <2>2
    <3> QED
      BY <1>5, <1>6, <3>1 DEF ToSet
  <2> QED
    BY <1>1, <1>6, <2>1, <2>2 DEF ToSet
<1> QED
  BY <1>1, <1>2, <1>3, <1>5, <1>7, <1>8 DEF ToSet

\* Outside a pass no page is ahead; inside one its generations are known.
LEMMA PassIs ==
  ASSUME TypeOK, PhaseInv
  PROVE  /\ phase \in Collecting => /\ fromGen \in Gens /\ destGen \in Gens
                                    /\ Head(passes).scan \in {"driven", "now", "none"}
         /\ phase \notin Collecting => Ahead = {}
<1>1. ASSUME phase \in Collecting
      PROVE  Head(passes) \in [from : Gens, dest : Gens, scan : {"driven", "now", "none"}]
  BY <1>1, HeadTailProperties DEF PhaseInv, TypeOK
<1>2. ASSUME phase \notin Collecting
      PROVE  Ahead = {}
  <2>1. chunk = {} /\ pending = <<>>
    BY <1>2 DEF PhaseInv, TypeOK, Collecting
  <2> QED
    BY <2>1 DEF Ahead, ToSet
<1> QED
  BY <1>1, <1>2 DEF fromGen, destGen

\* An object is placed on a page of its generation or on a free one, in a slot
\* that was nobody's.
LEMMA TakeIs ==
  ASSUME TypeOK, PhaseInv, PageInv, StartInv, NEW g \in Gens, CanPlace(g), NEW a, a = Place(g),
         NEW c, Take(g, a, c, start)
  PROVE  /\ a \in Addr \ start /\ PageOf(a) \in Pages \ Ahead
         /\ gen[PageOf(a)] \in {g, "Free"}
         /\ gen' = [gen EXCEPT ![PageOf(a)] = g]
         /\ start' = start \cup {a} /\ cell' = c
         /\ region' \in [Gens -> [page : Pages \cup {Nil}, next : 1..SlotsPerPage + 1]]
         /\ freeList' \in Seq(Pages)
         /\ ToSet(freeList') = {p \in Pages : gen'[p] = "Free"} /\ IsInjective(freeList')
         /\ \A h \in Gens :
              LET p == region'[h].page IN
              p # Nil => /\ gen'[p] = h /\ p \notin Ahead
                         /\ \A b \in start' : PageOf(b) = p => b[2] < region'[h].next
<1>0. /\ gen \in [Pages -> Gens \cup {"Free"}]
      /\ freeList \in Seq(Pages) /\ start \subseteq Addr
      /\ region \in [Gens -> [page : Pages \cup {Nil}, next : 1..SlotsPerPage + 1]]
      /\ "Free" \notin Gens
  BY DEF TypeOK, Gens
<1> DEFINE q == PageOf(a)
<1>1. CASE Fits(g)
  <2>1. a = <<region[g].page, region[g].next>>
    BY <1>1 DEF Place
  <2>2. region[g].page \in Pages /\ region[g].next \in 1..SlotsPerPage
    BY <1>0, <1>1, Addresses DEF Fits
  <2>3. a \in Addr /\ q = region[g].page /\ a[2] = region[g].next
    BY <2>1, <2>2, Addresses DEF PageOf
  <2>4. gen[q] = g /\ q \notin Ahead /\ \A b \in start : PageOf(b) = q => b[2] < a[2]
    BY <1>1, <2>3 DEF PageInv, Fits
  <2>5. a \notin start
    BY <2>2, <2>3, <2>4
  <2>6. /\ region' = [region EXCEPT ![g] = [page |-> q, next |-> a[2] + 1]]
        /\ gen' = [gen EXCEPT ![q] = g] /\ freeList' = freeList
        /\ start' = start \cup {a} /\ cell' = c
    BY <1>1 DEF Take
  <2>7. gen' = gen
    BY <1>0, <2>3, <2>4, <2>6
  <2>8. a[2] + 1 \in 1..SlotsPerPage + 1 /\ q \in Pages
    BY <2>2, <2>3, Addresses
  <2>9. ToSet(freeList') = {p \in Pages : gen'[p] = "Free"} /\ IsInjective(freeList')
    BY <2>6, <2>7 DEF PageInv, PagesIn
  <2>10. ASSUME NEW h \in Gens, region'[h].page # Nil
         PROVE  /\ gen'[region'[h].page] = h /\ region'[h].page \notin Ahead
                /\ \A b \in start' : PageOf(b) = region'[h].page => b[2] < region'[h].next
    <3>1. CASE h = g
      <4>1. region'[h].page = q /\ region'[h].next = a[2] + 1
        BY <1>0, <2>6, <3>1
      <4>2. \A b \in start : b[2] \in Nat
        BY <1>0, Addresses
      <4> QED
        BY <2>2, <2>3, <2>4, <2>6, <2>7, <3>1, <4>1, <4>2
    <3>2. CASE h # g
      <4>1. region'[h] = region[h]
        BY <1>0, <2>6, <3>2
      <4>2. /\ gen[region[h].page] = h /\ region[h].page \notin Ahead
            /\ \A b \in start : PageOf(b) = region[h].page => b[2] < region[h].next
        BY <2>10, <4>1 DEF PageInv
      <4> QED
        BY <2>4, <2>6, <2>7, <3>2, <4>1, <4>2
    <3> QED
      BY <3>1, <3>2
  <2> QED
    BY <1>0, <2>3, <2>4, <2>5, <2>6, <2>8, <2>9, <2>10
<1>2. CASE ~Fits(g)
  <2>1. freeList # <<>> /\ IsInjective(freeList) /\ a = <<Last(freeList), 1>>
    BY <1>2 DEF CanPlace, Place, PageInv
  <2>2. /\ Last(freeList) \in Pages /\ Last(freeList) \in ToSet(freeList)
        /\ Front(freeList) \in Seq(Pages) /\ IsInjective(Front(freeList))
        /\ ToSet(Front(freeList)) = ToSet(freeList) \ {Last(freeList)}
    BY <1>0, <2>1, PopFree
  <2>3. a \in Addr /\ q = Last(freeList) /\ a[2] = 1
    BY <2>1, <2>2, Addresses DEF PageOf
  <2>4. gen[q] = "Free" /\ q \in Pages
    BY <2>2, <2>3 DEF PageInv, PagesIn
  <2>5. \A b \in start : PageOf(b) # q
    BY <2>4 DEF StartInv
  <2>6. /\ region' = [region EXCEPT ![g] = [page |-> q, next |-> a[2] + 1]]
        /\ gen' = [gen EXCEPT ![q] = g] /\ freeList' = Front(freeList)
        /\ start' = (start \ On({q})) \cup {a} /\ cell' = c
    BY <1>2 DEF Take
  <2>7. start' = start \cup {a}
    BY <2>5, <2>6 DEF On
  <2>8. q \notin Ahead
    <3>1. Ahead = {} \/ fromGen # "Free"
      BY <1>0, PassIs
    <3> QED
      BY <2>4, <3>1 DEF PageInv
  <2>9. ToSet(freeList') = {p \in Pages : gen'[p] = "Free"} /\ IsInjective(freeList')
    BY <1>0, <2>2, <2>3, <2>6 DEF PageInv, PagesIn
  <2>10. ASSUME NEW h \in Gens, region'[h].page # Nil
         PROVE  /\ gen'[region'[h].page] = h /\ region'[h].page \notin Ahead
                /\ \A b \in start' : PageOf(b) = region'[h].page => b[2] < region'[h].next
    <3>1. CASE h = g
      <4>1. region'[h].page = q /\ region'[h].next = 2
        BY <1>0, <2>3, <2>6, <3>1
      <4>2. \A b \in start' : PageOf(b) = q => b = a
        BY <2>5, <2>7
      <4>3. gen'[q] = g
        BY <1>0, <2>4, <2>6
      <4> QED
        BY ONLY <2>3, <2>8, <3>1, <4>1, <4>2, <4>3
    <3>2. CASE h # g
      <4>1. region'[h] = region[h]
        BY <1>0, <2>6, <3>2
      <4>2. /\ gen[region[h].page] = h /\ region[h].page \notin Ahead
            /\ \A b \in start : PageOf(b) = region[h].page => b[2] < region[h].next
        BY <2>10, <4>1 DEF PageInv
      <4>3. q # region[h].page
        BY <1>0, <2>4, <4>2
      <4>4. gen'[region[h].page] = gen[region[h].page]
        BY <1>0, <2>6, <2>10, <4>1, <4>3
      <4> QED
        BY <2>7, <4>1, <4>2, <4>3, <4>4
    <3> QED
      BY <3>1, <3>2
  <2>11. region' \in [Gens -> [page : Pages \cup {Nil}, next : 1..SlotsPerPage + 1]]
    <3>1. [page |-> q, next |-> a[2] + 1] \in [page : Pages \cup {Nil}, next : 1..SlotsPerPage + 1]
      BY <2>3, <2>4, Addresses
    <3> QED
      BY <1>0, <2>6, <3>1
  <2> QED
    BY <1>0, <2>2, <2>3, <2>4, <2>5, <2>6, <2>7, <2>8, <2>9, <2>10, <2>11
<1> QED
  BY <1>1, <1>2

\* The first of some addresses, in page order, is one of them.
LEMMA FirstIs ==
  ASSUME NEW S \in SUBSET Addr, S # {}
  PROVE  First(S) \in S
<1> DEFINE P == {a[1] : a \in S}
<1>1. /\ NPages \in Nat /\ SlotsPerPage \in Nat
      /\ \A a \in S : a[1] \in 1..NPages /\ a[2] \in 1..SlotsPerPage /\ a = <<a[1], a[2]>>
  BY Addresses DEF Pages, PageOf
<1>2. P \in SUBSET (1..NPages) /\ P # {}
  BY <1>1
<1> HIDE DEF P
<1>3. PICK p \in P : \A q \in P : p <= q
  BY <1>1, <1>2, LeastIs
<1> DEFINE Q == {a[2] : a \in {b \in S : b[1] = p}}
<1>4. Q \in SUBSET (1..SlotsPerPage) /\ Q # {}
  BY <1>1 DEF P
<1> HIDE DEF Q
<1>5. PICK i \in Q : \A j \in Q : i <= j
  BY <1>1, <1>4, LeastIs
<1>6. PICK a \in S : a[1] = p /\ a[2] = i
  BY DEF Q
<1>7. \A b \in S : a[1] < b[1] \/ (a[1] = b[1] /\ a[2] <= b[2])
  <2>1. ASSUME NEW b \in S
        PROVE  a[1] < b[1] \/ (a[1] = b[1] /\ a[2] <= b[2])
    <3>1. a[1] <= b[1] /\ a[1] \in Nat /\ b[1] \in Nat
      BY <1>1, <1>3, <1>6 DEF P
    <3>2. b[1] = p => a[2] <= b[2]
      BY <1>5, <1>6 DEF Q
    <3> QED
      BY <1>6, <3>1, <3>2
  <2> QED
    BY <2>1
<1>8. \E x \in S : \A b \in S : x[1] < b[1] \/ (x[1] = b[1] /\ x[2] <= b[2])
  BY <1>7
<1> QED
  BY <1>8 DEF First

-----------------------------------------------------------------------------
(* What each step leaves true.                                             *)

LEMMA HeapAtFirst == Init => BaseInv
<1> SUFFICES ASSUME Init
             PROVE  BaseInv
  OBVIOUS
<1>0. /\ NPages \in Nat \ {0} /\ G0_PROMOTION_THRESHOLD \in Nat \ {0}
      /\ G1_PROMOTION_THRESHOLD \in Nat \ {0} /\ SlotsPerPage \in Nat \ {0}
      /\ MaxAllocs \in Nat /\ MaxCycles \in Nat /\ Nil \notin Pages
  BY PageHeapAssumption DEF Pages
<1>1. /\ freeList \in Seq(Pages) /\ Len(freeList) = NPages /\ DOMAIN freeList = Pages
      /\ \A i \in Pages : freeList[i] = NPages + 1 - i
  <2>1. freeList = [i \in 1..NPages |-> NPages + 1 - i]
    BY DEF Init, Pages
  <2>2. freeList \in [1..NPages -> Pages]
    BY <1>0, <2>1 DEF Pages
  <2>3. freeList \in Seq(Pages)
    BY <1>0, <2>2, SeqDef
  <2> QED
    BY <1>0, <2>1, <2>3, LenDomain DEF Pages
<1>2. ToSet(freeList) = Pages /\ IsInjective(freeList)
  <2>1. \A p \in Pages : NPages + 1 - p \in Pages /\ freeList[NPages + 1 - p] = p
    BY <1>0, <1>1 DEF Pages
  <2>2. \A p \in Pages : freeList[p] \in Pages
    BY <1>0, <1>1, ElementOfSeq DEF Pages
  <2>3. ToSet(freeList) = Pages
    <3>1. ToSet(freeList) = {freeList[p] : p \in Pages}
      BY <1>1 DEF ToSet
    <3> QED
      BY <2>1, <2>2, <3>1
  <2>4. ASSUME NEW p \in Pages, NEW q \in Pages, freeList[p] = freeList[q]
        PROVE  p = q
    <3>1. p \in Int /\ q \in Int /\ NPages \in Int
      BY <1>0 DEF Pages
    <3>2. NPages + 1 - p = NPages + 1 - q
      BY <1>1, <2>4
    <3> QED
      BY <3>1, <3>2
  <2> QED
    BY <1>1, <2>3, <2>4 DEF IsInjective
<1>3. TypeOK
  <2>1. Zero \in [kind : {"zero", "obj", "fwd"}, id : Ids \cup {0}, ref : References]
    BY DEF Zero, References
  <2>2. /\ passes \in Seq([from : Gens, dest : Gens, scan : {"driven", "now", "none"}])
        /\ pending \in Seq(Pages)
    BY DEF Init
  <2>3. minors \in 0..G0_PROMOTION_THRESHOLD - 1 /\ promotes \in 0..G1_PROMOTION_THRESHOLD - 1
    BY <1>0 DEF Init
  <2>4. Closed \in [page : Pages \cup {Nil}, next : 1..SlotsPerPage + 1]
    BY <1>0 DEF Closed
  <2> QED
    BY <1>0, <1>1, <2>1, <2>2, <2>3, <2>4 DEF Init, TypeOK, References
<1>4. PhaseInv
  BY DEF Init, PhaseInv, Collecting
<1>5. PageInv
  BY <1>0, <1>2 DEF Init, PageInv, PagesIn, Ahead, Closed, ToSet, IsInjective
<1>6. StartInv
  BY DEF Init, StartInv, Zero
<1>7. IdInv
  <2>1. UsedIds = {} /\ allocs = 0
    BY DEF Init, UsedIds
  <2> QED
    BY <2>1, FS_EmptySet DEF IdInv
<1>8. CardInv
  BY DEF Init, CardInv
<1> QED
  BY <1>3, <1>4, <1>5, <1>6, <1>7, <1>8 DEF BaseInv

LEMMA IdleKeeps ==
  ASSUME BaseInv, UNCHANGED vars
  PROVE  BaseInv'
BY DEF BaseInv, TypeOK, PhaseInv, PageInv, StartInv, UsedIds, IdInv, CardInv, Ahead,
       fromGen, PagesIn, On, vars, table, memory, clock, pass

\* A register or stack move.
LEMMA SetSlotKeeps ==
  ASSUME BaseInv, NEW s \in Slots, NEW v \in References, SetSlot(s, v)
  PROVE  BaseInv'
<1>1. TypeOK'
  BY DEF BaseInv, TypeOK, SetSlot, table, memory, clock, pass
<1> QED
  BY <1>1 DEF BaseInv, PhaseInv, PageInv, StartInv, UsedIds, IdInv, CardInv, Ahead,
              fromGen, PagesIn, On, SetSlot, table, memory, clock, pass

\* A write into an object, or into one that is no more.
LEMMA RplacdKeeps ==
  ASSUME BaseInv, NEW s \in Slots, NEW t \in Slots, Rplacd(s, t)
  PROVE  BaseInv'
<1>0. /\ value[s] \in Addr /\ value[t] \in References
      /\ cell \in [Addr -> [kind : {"zero", "obj", "fwd"}, id : Ids \cup {0}, ref : References]]
      /\ start \subseteq Addr
  BY DEF BaseInv, TypeOK, Rplacd, References
<1>1. cell' = [cell EXCEPT ![value[s]].ref = value[t]]
  BY DEF Rplacd
<1>2. cell' \in [Addr -> [kind : {"zero", "obj", "fwd"}, id : Ids \cup {0}, ref : References]]
  BY <1>0, <1>1
<1>3. \A a \in Addr : /\ cell'[a].kind = cell[a].kind /\ cell'[a].id = cell[a].id
                      /\ a # value[s] => cell'[a].ref = cell[a].ref
  BY <1>0, <1>1
<1>4. TypeOK'
  BY <1>0, <1>2 DEF BaseInv, TypeOK, Rplacd, table, clock, pass
<1>5. PhaseInv' /\ PageInv'
  BY DEF BaseInv, PhaseInv, PageInv, Ahead, fromGen, PagesIn, Rplacd, table, clock, pass
<1>6. StartInv'
  BY <1>0, <1>3 DEF BaseInv, StartInv, On, Rplacd, table, clock, pass
<1>7. IdInv'
  <2>1. UsedIds' = UsedIds
    BY <1>0, <1>3 DEF UsedIds, Rplacd
  <2> QED
    BY <2>1 DEF BaseInv, IdInv, Rplacd
<1>8. CardInv'
  BY <1>0, <1>3 DEF BaseInv, CardInv, Rplacd, table
<1> QED
  BY <1>4, <1>5, <1>6, <1>7, <1>8 DEF BaseInv

\* There is an identity nobody has.
LEMMA FreshId ==
  ASSUME TypeOK, IdInv, allocs < MaxAllocs
  PROVE  \E j \in Ids : \A b \in start : cell[b].id # j
<1>1. IsFiniteSet(Ids) /\ Cardinality(Ids) = MaxAllocs /\ MaxAllocs \in Nat
  BY PageHeapAssumption, FS_Interval DEF Ids
<1>2. ~(Ids \subseteq UsedIds)
  <2>1. ASSUME Ids \subseteq UsedIds
        PROVE  FALSE
    <3>1. Cardinality(Ids) <= Cardinality(UsedIds) /\ Cardinality(UsedIds) \in Nat
      BY <2>1, FS_Subset, FS_CardinalityType DEF IdInv
    <3> QED
      BY <1>1, <3>1 DEF IdInv, TypeOK
  <2> QED
    BY <2>1
<1> QED
  BY <1>2 DEF UsedIds

\* One more is at most one more.
LEMMA AddOne ==
  ASSUME NEW S, NEW x, IsFiniteSet(S)
  PROVE  IsFiniteSet(S \cup {x}) /\ Cardinality(S \cup {x}) <= Cardinality(S) + 1
<1>1. Cardinality(S) \in Nat
  BY FS_CardinalityType
<1> SUFFICES ASSUME NEW T, T = S \cup {x}
             PROVE  IsFiniteSet(T) /\ Cardinality(T) <= Cardinality(S) + 1
  OBVIOUS
<1>2. CASE x \in S
  <2>1. T = S
    BY <1>2
  <2>2. IsFiniteSet(T) /\ Cardinality(T) = Cardinality(S)
    BY <2>1, Zenon
  <2> QED
    BY <1>1, <2>2
<1>3. CASE x \notin S
  <2>1. IsFiniteSet(T) /\ Cardinality(T) = Cardinality(S) + 1
    BY <1>3, FS_AddElement
  <2> QED
    BY <1>1, <2>1
<1> QED
  BY <1>2, <1>3

LEMMA AllocKeeps ==
  ASSUME BaseInv, NEW s \in RootSlots, NEW t \in Slots, AllocCons(s, t)
  PROVE  BaseInv'
<1> DEFINE a == Place("G0")
           i == CHOOSE j \in Ids : \A b \in start : cell[b].id # j
           c == [cell EXCEPT ![a] = Object(i, value[t])]
<1>0. /\ value[t] \in References /\ value \in [Slots -> References] /\ s \in Slots
      /\ cell \in [Addr -> [kind : {"zero", "obj", "fwd"}, id : Ids \cup {0}, ref : References]]
      /\ start \subseteq Addr /\ gen \in [Pages -> Gens \cup {"Free"}]
      /\ allocs \in 0..MaxAllocs /\ allocs < MaxAllocs /\ MaxAllocs \in Nat /\ phase = "run"
  BY PageHeapAssumption DEF BaseInv, TypeOK, AllocCons, Slots
<1>1. /\ Take("G0", a, c, start) /\ CanPlace("G0") /\ "G0" \in Gens
      /\ value' = [value EXCEPT ![s] = a] /\ allocs' = allocs + 1
      /\ UNCHANGED <<dirty, clock, phase, pass, chunk>>
  BY DEF AllocCons, Gens
<1>2. i \in Ids
  BY <1>0, FreshId DEF BaseInv
<1> HIDE DEF a, i, c
<1>3. /\ a \in Addr \ start /\ PageOf(a) \in Pages \ Ahead
      /\ gen[PageOf(a)] \in {"G0", "Free"}
      /\ gen' = [gen EXCEPT ![PageOf(a)] = "G0"]
      /\ start' = start \cup {a} /\ cell' = c
      /\ region' \in [Gens -> [page : Pages \cup {Nil}, next : 1..SlotsPerPage + 1]]
      /\ freeList' \in Seq(Pages)
      /\ ToSet(freeList') = {p \in Pages : gen'[p] = "Free"} /\ IsInjective(freeList')
      /\ \A h \in Gens :
           LET p == region'[h].page IN
           p # Nil => /\ gen'[p] = h /\ p \notin Ahead
                      /\ \A b \in start' : PageOf(b) = p => b[2] < region'[h].next
  <2>1. a = Place("G0")
    BY DEF a
  <2> QED
    BY <1>1, <2>1, TakeIs DEF BaseInv
<1>4. c \in [Addr -> [kind : {"zero", "obj", "fwd"}, id : Ids \cup {0}, ref : References]]
  BY <1>0, <1>2, <1>3 DEF c, Object
<1>5. TypeOK'
  <2>1. allocs' \in 0..MaxAllocs /\ value' \in [Slots -> References] /\ start' \subseteq Addr
    BY <1>0, <1>1, <1>3 DEF References
  <2>2. gen' \in [Pages -> Gens \cup {"Free"}]
    BY <1>0, <1>1, <1>3
  <2> QED
    BY <1>1, <1>3, <1>4, <2>1, <2>2 DEF BaseInv, TypeOK, clock, pass
<1>6. PhaseInv'
  BY <1>1 DEF BaseInv, PhaseInv, pass
<1>7. Ahead = {} /\ Ahead' = {} /\ pending' = pending /\ chunk' = chunk
  <2>1. Ahead = {}
    BY <1>0, PassIs DEF BaseInv, Collecting
  <2> QED
    BY <1>1, <2>1 DEF Ahead, pass
<1>8. PageInv'
  BY <1>3, <1>7 DEF BaseInv, PageInv, PagesIn
<1>9. StartInv'
  <2>1. \A b \in Addr : b # a => cell'[b] = cell[b]
    BY <1>0, <1>3 DEF c
  <2>2. cell'[a].kind = "obj"
    BY <1>0, <1>3 DEF c, Object
  <2>3. \A b \in start : gen'[PageOf(b)] # "Free"
    BY <1>0, <1>3, Addresses DEF BaseInv, StartInv
  <2>4. gen'[PageOf(a)] = "G0"
    BY <1>0, <1>3
  <2> QED
    BY <1>0, <1>1, <1>3, <2>1, <2>2, <2>3, <2>4 DEF BaseInv, StartInv, On, pass
<1>10. IdInv'
  <2>1. UsedIds' \subseteq UsedIds \cup {i}
    <3>1. \A b \in start : cell'[b].id = cell[b].id
      BY <1>0, <1>3 DEF c
    <3>2. cell'[a].id = i
      BY <1>0, <1>3 DEF c, Object
    <3> QED
      BY <1>3, <3>1, <3>2 DEF UsedIds
  <2>2. IsFiniteSet(UsedIds \cup {i}) /\ Cardinality(UsedIds \cup {i}) <= Cardinality(UsedIds) + 1
    BY AddOne DEF BaseInv, IdInv
  <2>3. /\ IsFiniteSet(UsedIds') /\ Cardinality(UsedIds') <= Cardinality(UsedIds \cup {i})
    BY <2>1, <2>2, FS_Subset
  <2>4. Cardinality(UsedIds) \in Nat /\ Cardinality(UsedIds') \in Nat
        /\ Cardinality(UsedIds \cup {i}) \in Nat /\ Cardinality(UsedIds) <= allocs
    BY <2>2, <2>3, FS_CardinalityType DEF BaseInv, IdInv
  <2> QED
    BY <1>0, <1>1, <2>2, <2>3, <2>4 DEF IdInv
<1>11. CardInv'
  <2>1. \A b \in start : cell'[b] = cell[b]
    BY <1>0, <1>3 DEF c
  <2>2. \A b \in start : gen[PageOf(b)] = "G0" => gen'[PageOf(b)] = "G0"
    BY <1>0, <1>3, Addresses
  <2>3. gen'[PageOf(a)] = "G0"
    BY <1>0, <1>3
  <2> QED
    BY <1>1, <1>3, <2>1, <2>2, <2>3 DEF BaseInv, CardInv
<1> QED
  BY <1>5, <1>6, <1>8, <1>9, <1>10, <1>11 DEF BaseInv

PassRecords == [from : Gens, dest : Gens, scan : {"driven", "now", "none"}]

\* The passes of each kind of collection.
LEMMA PassesAre ==
  /\ MinorPasses = IF Cascade THEN <<Pass("G0", "G1", "driven"), Pass("G1", "Tenured", "driven")>>
                              ELSE <<Pass("G0", IF PromoteG0 THEN "G1" ELSE "G0", "driven")>>
  /\ MinorPasses \in Seq(PassRecords) /\ MajorPasses \in Seq(PassRecords)
  /\ FullPasses \in Seq(PassRecords)
<1>1. MinorPasses = IF Cascade THEN <<Pass("G0", "G1", "driven"), Pass("G1", "Tenured", "driven")>>
                               ELSE <<Pass("G0", IF PromoteG0 THEN "G1" ELSE "G0", "driven")>>
  <2>1. Cascade => PromoteG0
    BY DEF Cascade
  <2> QED
    BY <2>1 DEF MinorPasses
<1>2. \A f, d \in Gens, c \in {"driven", "now", "none"} : Pass(f, d, c) \in PassRecords
  BY DEF Pass, PassRecords
<1>3. MinorPasses \in Seq(PassRecords)
  BY <1>1, <1>2 DEF Gens
<1> QED
  BY <1>1, <1>2, <1>3 DEF Gens, MajorPasses, FullPasses

LEMMA CollectKeeps ==
  ASSUME BaseInv, NEW kind \in Kinds, NEW word, Collect(kind, word)
  PROVE  BaseInv'
<1>0. kind \in {"minor", "major", "full"} /\ phase = "run" /\ phase' = "pass"
  BY PageHeapAssumption DEF Collect
<1>1. passes' \in Seq(PassRecords)
  BY <1>0, PassesAre DEF Collect, CollectMinor, CollectMajor, CollectFull
<1>2. minors' \in 0..G0_PROMOTION_THRESHOLD - 1 /\ promotes' \in 0..G1_PROMOTION_THRESHOLD - 1
  <2>1. /\ minors \in 0..G0_PROMOTION_THRESHOLD - 1 /\ promotes \in 0..G1_PROMOTION_THRESHOLD - 1
        /\ G0_PROMOTION_THRESHOLD \in Nat \ {0} /\ G1_PROMOTION_THRESHOLD \in Nat \ {0}
    BY PageHeapAssumption DEF BaseInv, TypeOK
  <2>2. CASE kind = "minor"
    <3>1. CollectMinor
      BY <2>2 DEF Collect
    <3> QED
      BY <2>1, <3>1 DEF CollectMinor, PromoteG0, Cascade
  <2>3. CASE kind # "minor"
    <3>1. CollectMajor \/ CollectFull
      BY <1>0, <2>3 DEF Collect
    <3> QED
      BY <2>1, <3>1 DEF CollectMajor, CollectFull
  <2> QED
    BY <2>2, <2>3
<1>3. pinned' \subseteq start
  BY DEF Collect, Pins
<1>4. cycles' \in 0..MaxCycles
  <2>1. cycles \in 0..MaxCycles /\ cycles < MaxCycles /\ cycles' = cycles + 1
    BY DEF Collect, BaseInv, TypeOK
  <2> QED
    BY <2>1, PageHeapAssumption
<1>5. TypeOK'
  BY <1>0, <1>1, <1>2, <1>3, <1>4 DEF BaseInv, TypeOK, Collect, table, memory, PassRecords
<1>6. pending = <<>> /\ chunk = {} /\ Ahead = {} /\ pending' = pending /\ chunk' = chunk /\ Ahead' = {}
  <2>1. pending = <<>> /\ chunk = {} /\ Ahead = {}
    BY <1>0, PassIs DEF BaseInv, PhaseInv, Collecting
  <2> QED
    BY <2>1 DEF Collect, Ahead
<1>7. PhaseInv'
  BY <1>0, <1>6 DEF PhaseInv, Collecting
<1>8. PageInv'
  BY <1>6 DEF BaseInv, PageInv, PagesIn, Collect, table, memory
<1>9. StartInv'
  BY <1>3, <1>6 DEF BaseInv, StartInv, Collect, table, memory, On
<1>10. IdInv' /\ CardInv'
  BY DEF BaseInv, IdInv, UsedIds, CardInv, Collect, table, memory
<1> QED
  BY <1>5, <1>7, <1>8, <1>9, <1>10 DEF BaseInv

\* What is marked is in the generation of the pass.
LEMMA MarkIs ==
  ASSUME NEW From \in SUBSET Addr
  PROVE  Mark(From) \subseteq From
BY DEF Mark, Closure

\* The pass at the head.
LEMMA HeadPassIs ==
  ASSUME TypeOK, passes # <<>>
  PROVE  fromGen \in Gens /\ destGen \in Gens /\ Head(passes).scan \in {"driven", "now", "none"}
<1>1. passes \in Seq(PassRecords)
  BY DEF TypeOK, PassRecords
<1>2. Head(passes) \in PassRecords
  BY <1>1, HeadTailProperties
<1> QED
  BY <1>2 DEF PassRecords, fromGen, destGen

\* The generations a scan of the cards sees.
LEMMA ScanIs ==
  ASSUME TypeOK, PhaseInv, phase = "pass", passes # <<>>
  PROVE  ScanGens \in [Pages -> Gens \cup {"Free"}]
<1>1. Head(passes).scan \in {"driven", "now", "none"}
  BY HeadPassIs
<1> QED
  BY <1>1 DEF ScanGens, TypeOK

LEMMA BeginPassKeeps ==
  ASSUME BaseInv, BeginPass
  PROVE  BaseInv'
<1>0. /\ phase = "pass" /\ phase' = "chunk" /\ passes # <<>> /\ chunk = {} /\ chunk' = {}
      /\ pending' = InOrder(PagesIn(fromGen)) /\ region' = [region EXCEPT ![fromGen] = Closed]
      /\ fromGen \in Gens /\ fromGen' = fromGen
      /\ UNCHANGED <<gen, freeList, memory, value, clock, passes, pinned, chunk, allocs>>
  <2>1. fromGen \in Gens
    BY HeadPassIs DEF BeginPass, BaseInv
  <2> QED
    BY <2>1 DEF BeginPass, BaseInv, PhaseInv, fromGen
<1>1. /\ pending' \in Seq(Pages) /\ ToSet(pending') = PagesIn(fromGen) /\ IsInjective(pending')
      /\ PagesIn(fromGen) \subseteq Pages
  <2>1. PagesIn(fromGen) \in SUBSET Pages
    BY DEF PagesIn
  <2> QED
    BY <1>0, <2>1, InOrderIs
<1>2. region' \in [Gens -> [page : Pages \cup {Nil}, next : 1..SlotsPerPage + 1]]
  <2>1. Closed \in [page : Pages \cup {Nil}, next : 1..SlotsPerPage + 1]
    BY Addresses DEF Closed
  <2> QED
    BY <1>0, <2>1 DEF BaseInv, TypeOK
<1>3. marked' \subseteq Addr
  <2>1. start \cap On(PagesIn(fromGen)) \in SUBSET Addr
    BY DEF On
  <2> QED
    BY <2>1, MarkIs DEF BeginPass
<1>4. snap' \in [Pages -> Gens \cup {"Free"}]
  BY <1>0, ScanIs DEF BeginPass, BaseInv
<1>5. TypeOK'
  BY <1>0, <1>1, <1>2, <1>3, <1>4 DEF BaseInv, TypeOK, memory, clock
<1>6. PhaseInv'
  BY <1>0 DEF PhaseInv, Collecting
<1>7. PageInv'
  <2>1. Ahead' = PagesIn(fromGen)
    BY <1>0, <1>1 DEF Ahead
  <2>2. \A p \in Ahead' : gen'[p] = fromGen'
    BY <1>0, <2>1 DEF PagesIn
  <2>3. ASSUME NEW g \in Gens, region'[g].page # Nil
        PROVE  /\ g # fromGen /\ region'[g] = region[g]
    BY <1>0, <2>3 DEF BaseInv, TypeOK, Closed
  <2>4. ASSUME NEW g \in Gens, region'[g].page # Nil
        PROVE  /\ gen'[region'[g].page] = g /\ region'[g].page \notin Ahead'
               /\ \A a \in start' : PageOf(a) = region'[g].page => a[2] < region'[g].next
    <3>1. g # fromGen /\ region'[g] = region[g]
      BY <2>3, <2>4
    <3>2. /\ gen[region[g].page] = g
          /\ \A a \in start : PageOf(a) = region[g].page => a[2] < region[g].next
      BY <2>4, <3>1 DEF BaseInv, PageInv
    <3> QED
      BY <1>0, <2>1, <3>1, <3>2 DEF PagesIn, memory
  <2>5. ToSet(freeList') = PagesIn("Free")' /\ IsInjective(freeList')
    BY <1>0 DEF BaseInv, PageInv, PagesIn
  <2> QED
    BY <1>0, <1>1, <2>2, <2>4, <2>5 DEF PageInv
<1>8. StartInv' /\ IdInv' /\ CardInv'
  BY <1>0 DEF BaseInv, StartInv, On, IdInv, UsedIds, CardInv, memory
<1> QED
  BY <1>5, <1>6, <1>7, <1>8 DEF BaseInv

\* A list of pages cut in two.
LEMMA CutPages ==
  ASSUME NEW s \in Seq(Pages), IsInjective(s), NEW k \in 0..Len(s)
  PROVE  LET a == SubSeq(s, 1, k)
             b == SubSeq(s, k + 1, Len(s))
         IN /\ b \in Seq(Pages) /\ IsInjective(b)
            /\ ToSet(a) \subseteq Pages
            /\ ToSet(a) \cup ToSet(b) = ToSet(s) /\ ToSet(a) \cap ToSet(b) = {}
<1> DEFINE n == Len(s)
           a == SubSeq(s, 1, k)
           b == SubSeq(s, k + 1, n)
<1>1. n \in Nat /\ DOMAIN s = 1..n /\ k \in Nat /\ k <= n
  BY LenProperties
<1>2. \A i \in 1..n : s[i] \in Pages
  BY <1>1, ElementOfSeq
<1>3. /\ a \in Seq(Pages) /\ Len(a) = k /\ \A i \in 1..k : a[i] = s[i]
  BY <1>1, SubSeqProperties
<1>4. /\ b \in Seq(Pages) /\ Len(b) = n - k /\ \A i \in 1..n - k : b[i] = s[k + i]
  <2>1. k + 1 \in 1..Len(s) + 1 /\ n \in k..Len(s)
    BY <1>1
  <2>2. Len(b) = IF k + 1 <= n THEN n - (k + 1) + 1 ELSE 0
    BY <1>1, <2>1, SubSeqProperties
  <2>3. \A i \in 1..Len(b) : b[i] = s[k + 1 + i - 1]
    BY <1>1, <2>1, SubSeqProperties
  <2>4. b \in Seq(Pages)
    BY <1>1, <2>1, SubSeqProperties
  <2>5. Len(b) = n - k
    <3> HIDE DEF b, n
    <3>1. CASE k + 1 <= n
      BY <1>1, <2>2, <3>1
    <3>2. CASE ~(k + 1 <= n)
      <4>1. k = n /\ Len(b) = 0
        BY <1>1, <2>2, <3>2
      <4> QED
        BY <1>1, <4>1
    <3> QED
      BY <3>1, <3>2
  <2>6. \A i \in 1..n - k : k + 1 + i - 1 = k + i
    BY <1>1
  <2> QED
    BY <2>3, <2>4, <2>5, <2>6
<1> HIDE DEF a, b, n
<1>5. DOMAIN a = 1..k /\ DOMAIN b = 1..n - k
  BY <1>3, <1>4, LenProperties
<1>6. ToSet(a) = {s[i] : i \in 1..k} /\ ToSet(b) = {s[i] : i \in k + 1..n} /\ ToSet(s) = {s[i] : i \in 1..n}
  <2>1. ToSet(a) = {s[i] : i \in 1..k}
    BY <1>3, <1>5 DEF ToSet
  <2>2. ToSet(b) = {s[k + i] : i \in 1..n - k}
    BY <1>4, <1>5 DEF ToSet
  <2>3. \A i \in k + 1..n : i - k \in 1..n - k /\ k + (i - k) = i
    BY <1>1
  <2>4. \A i \in 1..n - k : k + i \in k + 1..n
    BY <1>1
  <2>5. {s[k + i] : i \in 1..n - k} = {s[i] : i \in k + 1..n}
    BY <2>3, <2>4
  <2>6. ToSet(s) = {s[i] : i \in 1..n}
    BY <1>1 DEF ToSet
  <2> QED
    BY <2>1, <2>2, <2>5, <2>6
<1>7. \A i, j \in 1..n : s[i] = s[j] => i = j
  BY <1>1 DEF IsInjective
<1>8. IsInjective(b)
  <2>1. ASSUME NEW i \in 1..n - k, NEW j \in 1..n - k, b[i] = b[j]
        PROVE  i = j
    <3>1. k + i \in 1..n /\ k + j \in 1..n
      BY <1>1
    <3>2. k + i = k + j
      BY <1>4, <1>7, <2>1, <3>1
    <3> QED
      BY <1>1, <3>2
  <2> QED
    BY <1>5, <2>1 DEF IsInjective
<1>9. \A i \in 1..k : i \in 1..n /\ i \notin k + 1..n
  BY <1>1
<1>10. \A i \in k + 1..n : i \in 1..n
  BY <1>1
<1>11. \A i \in 1..n : i \in 1..k \/ i \in k + 1..n
  BY <1>1
<1>12. ToSet(a) \cap ToSet(b) = {}
  BY <1>6, <1>7, <1>9, <1>10
<1>13. ToSet(a) \cup ToSet(b) = ToSet(s) /\ ToSet(a) \subseteq Pages
  BY <1>2, <1>6, <1>9, <1>10, <1>11
<1> QED
  BY <1>4, <1>8, <1>12, <1>13 DEF a, b, n

\* A chunk takes some of the pages that wait, and at least one.
LEMMA ChunkSizeIs ==
  ASSUME TypeOK, pending # <<>>
  PROVE  ChunkSize \in 1..Len(pending)
<1>1. Len(pending) \in Nat /\ Len(pending) # 0
  BY EmptySeq, LenProperties DEF TypeOK
<1>2. Budget \in Nat
  <2> DEFINE free == Cardinality(PagesIn("Free"))
             held == Cardinality({p \in PagesIn(fromGen) : \E a \in pinned : PageOf(a) = p})
  <2>1. free \in Nat /\ held \in Nat
    <3>1. PagesIn("Free") \in SUBSET Pages
      BY DEF PagesIn
    <3>2. {p \in PagesIn(fromGen) : \E a \in pinned : PageOf(a) = p} \in SUBSET Pages
      BY DEF PagesIn
    <3> QED
      BY <3>1, <3>2, FinitePages
  <2>2. Budget = IF held >= free THEN 0 ELSE ((free - held) * 7) \div 8
    BY DEF Budget
  <2> HIDE DEF free, held
  <2> QED
    BY <2>1, <2>2
<1> QED
  BY <1>1, <1>2 DEF ChunkSize, AtMost

LEMMA TakeChunkKeeps ==
  ASSUME BaseInv, TakeChunk
  PROVE  BaseInv'
<1>0. /\ phase = "chunk" /\ phase' = "copy" /\ passes # <<>> /\ chunk = {} /\ pending # <<>>
      /\ UNCHANGED <<table, memory, value, clock, passes, snap, marked, pinned, allocs>>
  BY DEF TakeChunk, BaseInv, PhaseInv, Collecting
<1>1. /\ pending' \in Seq(Pages) /\ IsInjective(pending') /\ chunk' \subseteq Pages
      /\ chunk' \cup ToSet(pending') = ToSet(pending) /\ chunk' \cap ToSet(pending') = {}
  <2>1. ChunkSize \in 0..Len(pending)
    BY <1>0, ChunkSizeIs DEF BaseInv
  <2>2. pending \in Seq(Pages) /\ IsInjective(pending)
    BY DEF BaseInv, TypeOK, PageInv
  <2>3. /\ chunk' = ToSet(SubSeq(pending, 1, ChunkSize))
        /\ pending' = SubSeq(pending, ChunkSize + 1, Len(pending))
    BY DEF TakeChunk
  <2> HIDE DEF TakeChunk
  <2> QED
    BY <2>1, <2>2, <2>3, CutPages
<1>2. TypeOK'
  BY <1>0, <1>1 DEF BaseInv, TypeOK, table, memory, clock
<1>3. PhaseInv'
  BY <1>0 DEF PhaseInv, Collecting
<1>4. PageInv'
  <2>1. Ahead' = Ahead
    BY <1>0, <1>1 DEF Ahead
  <2> QED
    BY <1>0, <1>1, <2>1 DEF BaseInv, PageInv, PagesIn, fromGen, table, memory
<1>5. StartInv'
  BY <1>0 DEF BaseInv, StartInv, On, table, memory
<1>6. IdInv' /\ CardInv'
  BY <1>0 DEF BaseInv, IdInv, UsedIds, CardInv, table, memory
<1> QED
  BY <1>2, <1>3, <1>4, <1>5, <1>6 DEF BaseInv

\* What a copy does to the memory.
LEMMA CopyIs ==
  ASSUME BaseInv, CopyObject
  PROVE  \E a \in ToCopy, d \in Addr \ start :
           /\ a \in start /\ cell[a].kind = "obj" /\ PageOf(a) \in chunk /\ a \in marked \ pinned
           /\ PageOf(d) \in Pages \ Ahead /\ gen[PageOf(d)] \in {destGen, "Free"}
           /\ gen' = [gen EXCEPT ![PageOf(d)] = destGen]
           /\ start' = start \cup {d} /\ dirty' = dirty \cup {d}
           /\ cell' = [cell EXCEPT ![d] = cell[a], ![a] = Forward(cell[a].id, d)]
           /\ region' \in [Gens -> [page : Pages \cup {Nil}, next : 1..SlotsPerPage + 1]]
           /\ freeList' \in Seq(Pages)
           /\ ToSet(freeList') = {p \in Pages : gen'[p] = "Free"} /\ IsInjective(freeList')
           /\ \A h \in Gens :
                LET p == region'[h].page IN
                p # Nil => /\ gen'[p] = h /\ p \notin Ahead
                           /\ \A b \in start' : PageOf(b) = p => b[2] < region'[h].next
<1> DEFINE a == First(ToCopy)
           d == Place(destGen)
           c == [cell EXCEPT ![d] = cell[a], ![a] = Forward(cell[a].id, d)]
<1>1. ToCopy \in SUBSET Addr /\ ToCopy # {}
  BY DEF ToCopy, CopyObject, BaseInv, TypeOK
<1>2. a \in ToCopy
  BY <1>1, FirstIs
<1>3. /\ a \in start /\ PageOf(a) \in chunk /\ a \in marked \ pinned
      /\ cell[a].kind \in {"zero", "obj", "fwd"} /\ cell[a].kind # "fwd"
  BY <1>1, <1>2 DEF ToCopy, BaseInv, TypeOK
<1>4. cell[a].kind = "obj"
  BY <1>3 DEF BaseInv, StartInv
<1>5. destGen \in Gens
  BY PassIs DEF BaseInv, CopyObject, Collecting
<1>6. /\ Take(destGen, d, c, start) /\ CanPlace(destGen) /\ dirty' = dirty \cup {d}
  BY DEF CopyObject
<1>7. d = Place(destGen)
  OBVIOUS
<1> HIDE DEF a, d, c
<1>8. /\ d \in Addr \ start /\ PageOf(d) \in Pages \ Ahead
      /\ gen[PageOf(d)] \in {destGen, "Free"}
      /\ gen' = [gen EXCEPT ![PageOf(d)] = destGen]
      /\ start' = start \cup {d} /\ cell' = c
      /\ region' \in [Gens -> [page : Pages \cup {Nil}, next : 1..SlotsPerPage + 1]]
      /\ freeList' \in Seq(Pages)
      /\ ToSet(freeList') = {p \in Pages : gen'[p] = "Free"} /\ IsInjective(freeList')
      /\ \A h \in Gens :
           LET p == region'[h].page IN
           p # Nil => /\ gen'[p] = h /\ p \notin Ahead
                      /\ \A b \in start' : PageOf(b) = p => b[2] < region'[h].next
  BY <1>5, <1>6, <1>7, TakeIs DEF BaseInv
<1> QED
  BY <1>2, <1>3, <1>4, <1>6, <1>8 DEF c

LEMMA CopyKeeps ==
  ASSUME BaseInv, CopyObject
  PROVE  BaseInv'
<1>0. /\ cell \in [Addr -> [kind : {"zero", "obj", "fwd"}, id : Ids \cup {0}, ref : References]]
      /\ start \subseteq Addr /\ dirty \subseteq Addr /\ gen \in [Pages -> Gens \cup {"Free"}]
      /\ phase = "copy" /\ destGen \in Gens
      /\ UNCHANGED <<value, clock, phase, pass, chunk, allocs>>
  BY PassIs DEF BaseInv, TypeOK, CopyObject, Collecting
<1>1. PICK a \in ToCopy, d \in Addr \ start :
           /\ a \in start /\ cell[a].kind = "obj" /\ PageOf(a) \in chunk /\ a \in marked \ pinned
           /\ PageOf(d) \in Pages \ Ahead /\ gen[PageOf(d)] \in {destGen, "Free"}
           /\ gen' = [gen EXCEPT ![PageOf(d)] = destGen]
           /\ start' = start \cup {d} /\ dirty' = dirty \cup {d}
           /\ cell' = [cell EXCEPT ![d] = cell[a], ![a] = Forward(cell[a].id, d)]
           /\ region' \in [Gens -> [page : Pages \cup {Nil}, next : 1..SlotsPerPage + 1]]
           /\ freeList' \in Seq(Pages)
           /\ ToSet(freeList') = {p \in Pages : gen'[p] = "Free"} /\ IsInjective(freeList')
           /\ \A h \in Gens :
                LET p == region'[h].page IN
                p # Nil => /\ gen'[p] = h /\ p \notin Ahead
                           /\ \A b \in start' : PageOf(b) = p => b[2] < region'[h].next
  BY CopyIs
<1>2. /\ a # d /\ cell'[d] = cell[a] /\ cell'[a] = Forward(cell[a].id, d)
      /\ \A b \in Addr : b # a /\ b # d => cell'[b] = cell[b]
  BY <1>0, <1>1
<1>3. cell' \in [Addr -> [kind : {"zero", "obj", "fwd"}, id : Ids \cup {0}, ref : References]]
  BY <1>0, <1>1 DEF Forward, References
<1>4. /\ gen' \in [Pages -> Gens \cup {"Free"}] /\ gen'[PageOf(d)] = destGen
      /\ \A p \in Pages : p # PageOf(d) => gen'[p] = gen[p]
  BY <1>0, <1>1
<1>5. TypeOK'
  <2>1. /\ start' \subseteq Addr /\ dirty' \subseteq Addr /\ freeList' \in Seq(Pages)
        /\ region' \in [Gens -> [page : Pages \cup {Nil}, next : 1..SlotsPerPage + 1]]
    BY <1>0, <1>1
  <2>2. gen' \in [Pages -> Gens \cup {"Free"}]
    BY <1>4
  <2>3. TypeOK
    BY DEF BaseInv
  <2> QED
    BY ONLY <1>0, <1>3, <2>1, <2>2, <2>3 DEF TypeOK, clock, pass
<1>6. PhaseInv'
  BY <1>0 DEF BaseInv, PhaseInv, pass
<1>7. PageInv'
  <2>1. Ahead' = Ahead /\ Ahead \subseteq Pages /\ fromGen' = fromGen
    <3>1. pending \in Seq(Pages) /\ chunk \subseteq Pages
      BY DEF BaseInv, TypeOK
    <3>2. ToSet(pending) \subseteq Pages
      BY <3>1, LenProperties, ElementOfSeq DEF ToSet
    <3> QED
      BY <1>0, <3>1, <3>2 DEF Ahead, fromGen, pass
  <2>2. \A p \in Ahead : gen'[p] = gen[p]
    BY <1>1, <1>4, <2>1
  <2> QED
    BY <1>0, <1>1, <2>1, <2>2 DEF BaseInv, PageInv, PagesIn, pass
<1>8. StartInv'
  <2>1. \A b \in start' : gen'[PageOf(b)] # "Free" /\ cell'[b].kind # "zero"
    <3>1. \A b \in start : gen[PageOf(b)] # "Free" /\ cell[b].kind # "zero"
      BY DEF BaseInv, StartInv
    <3>2. "Free" \notin Gens
      BY DEF Gens
    <3> QED
      BY <1>0, <1>1, <1>2, <1>4, <3>1, <3>2, Addresses DEF Forward
  <2>2. \A b \in Addr : cell'[b].kind = "fwd" => b \in On(chunk) \ pinned
    BY <1>0, <1>1, <1>2 DEF BaseInv, StartInv, On
  <2> QED
    BY <1>0, <1>1, <2>1, <2>2 DEF BaseInv, StartInv, On, pass
<1>9. IdInv'
  <2>1. UsedIds' = UsedIds
    <3>1. cell'[a].id = cell[a].id /\ cell'[d].id = cell[a].id
      BY <1>2 DEF Forward
    <3>2. \A b \in start : cell'[b].id = cell[b].id
      BY <1>0, <1>1, <1>2, <3>1
    <3>3. start' = start \cup {d} /\ a \in start
      BY <1>1
    <3> QED
      BY ONLY <3>1, <3>2, <3>3 DEF UsedIds
  <2> QED
    BY <1>0, <2>1 DEF BaseInv, IdInv
<1>10. CardInv'
  <2>1. \A b \in start : gen'[PageOf(b)] = gen[PageOf(b)]
    <3>1. \A b \in start : gen[PageOf(b)] # "Free" /\ PageOf(b) \in Pages
      BY <1>0, Addresses DEF BaseInv, StartInv
    <3> QED
      BY <1>1, <1>4, <3>1
  <2> QED
    BY <1>0, <1>1, <1>2, <2>1 DEF BaseInv, CardInv, Forward
<1> QED
  BY <1>5, <1>6, <1>7, <1>8, <1>9, <1>10 DEF BaseInv

LEMMA StallKeeps ==
  ASSUME BaseInv, Stall
  PROVE  BaseInv'
<1>1. phase = "copy" /\ phase' = "stalled" /\ UNCHANGED <<table, memory, value, clock, pass, chunk, allocs>>
  BY DEF Stall
<1>2. TypeOK' /\ PhaseInv'
  BY <1>1 DEF BaseInv, TypeOK, PhaseInv, Collecting, table, memory, clock, pass
<1> QED
  BY <1>1, <1>2 DEF BaseInv, PageInv, StartInv, UsedIds, IdInv, CardInv, Ahead,
              fromGen, PagesIn, On, table, memory, pass

\* A reference after it is rewritten.
LEMMA TargetIs ==
  ASSUME TypeOK, NEW r \in References
  PROVE  Target(r) \in References /\ (r = Nil => Target(r) = Nil)
<1>1. CASE Forwarded(r)
  <2>1. r \in Addr /\ Target(r) = cell[r].ref
    BY <1>1 DEF Forwarded, Target, References
  <2>2. cell[r].ref \in References
    BY <2>1 DEF TypeOK
  <2> QED
    BY <1>1, <2>1, <2>2 DEF Forwarded
<1>2. CASE ~Forwarded(r)
  BY <1>2 DEF Target
<1> QED
  BY <1>1, <1>2

\* What a rewrite does to the memory.
LEMMA RewriteIs ==
  ASSUME TypeOK, Rewrite
  PROVE  /\ cell' \in [Addr -> [kind : {"zero", "obj", "fwd"}, id : Ids \cup {0}, ref : References]]
         /\ value' \in [Slots -> References]
         /\ \A a \in Addr :
              /\ cell'[a].kind = cell[a].kind /\ cell'[a].id = cell[a].id
              /\ cell'[a].ref = IF a \in Swept THEN Target(cell[a].ref) ELSE cell[a].ref
         /\ \A s \in Slots : value'[s] = IF s \in RootSlots THEN Target(value[s]) ELSE value[s]
<1>0. /\ cell \in [Addr -> [kind : {"zero", "obj", "fwd"}, id : Ids \cup {0}, ref : References]]
      /\ value \in [Slots -> References]
  BY DEF TypeOK
<1>1. /\ cell' = [a \in Addr |-> IF a \in Swept THEN [cell[a] EXCEPT !.ref = Target(@)] ELSE cell[a]]
      /\ value' = [s \in Slots |-> IF s \in RootSlots THEN Target(value[s]) ELSE value[s]]
  BY DEF Rewrite
<1>2. \A a \in Addr : cell[a] \in [kind : {"zero", "obj", "fwd"}, id : Ids \cup {0}, ref : References]
                      /\ Target(cell[a].ref) \in References
  BY <1>0, TargetIs
<1>3. \A s \in Slots : value[s] \in References /\ Target(value[s]) \in References
  BY <1>0, TargetIs
<1> QED
  BY <1>1, <1>2, <1>3

LEMMA RewriteKeeps ==
  ASSUME BaseInv, Rewrite
  PROVE  BaseInv'
<1>0. /\ phase = "copy" /\ phase' = "reclaim"
      /\ UNCHANGED <<table, start, dirty, clock, pass, chunk, allocs>>
  BY DEF Rewrite
<1>1. /\ cell' \in [Addr -> [kind : {"zero", "obj", "fwd"}, id : Ids \cup {0}, ref : References]]
      /\ value' \in [Slots -> References]
      /\ \A a \in Addr :
           /\ cell'[a].kind = cell[a].kind /\ cell'[a].id = cell[a].id
           /\ cell'[a].ref = IF a \in Swept THEN Target(cell[a].ref) ELSE cell[a].ref
  BY RewriteIs DEF BaseInv
<1>2. TypeOK'
  BY <1>0, <1>1 DEF BaseInv, TypeOK, table, clock, pass
<1>3. PhaseInv'
  BY <1>0 DEF BaseInv, PhaseInv, Collecting, pass
<1>4. PageInv'
  BY <1>0 DEF BaseInv, PageInv, PagesIn, Ahead, fromGen, table, pass
<1>5. start \subseteq Addr
  BY DEF BaseInv, TypeOK
<1>6. StartInv'
  BY <1>0, <1>1, <1>5 DEF BaseInv, StartInv, On, table, pass
<1>7. IdInv'
  <2>1. UsedIds' = UsedIds
    BY <1>0, <1>1, <1>5 DEF UsedIds
  <2> QED
    BY <1>0, <2>1 DEF BaseInv, IdInv
<1>8. CardInv'
  <2>1. \A a \in start : cell[a].ref = Nil => cell'[a].ref = Nil
    <3>1. \A a \in start : cell[a].ref \in References
      BY <1>5 DEF BaseInv, TypeOK
    <3> QED
      BY <1>1, <1>5, <3>1, TargetIs DEF BaseInv
  <2> QED
    BY <1>0, <1>1, <1>5, <2>1 DEF BaseInv, CardInv, table
<1> QED
  BY <1>2, <1>3, <1>4, <1>6, <1>7, <1>8 DEF BaseInv

\* Two lists of different pages in a row.
LEMMA JoinPages ==
  ASSUME NEW s \in Seq(Pages), NEW t \in Seq(Pages), IsInjective(s), IsInjective(t),
         ToSet(s) \cap ToSet(t) = {}
  PROVE  s \o t \in Seq(Pages) /\ IsInjective(s \o t) /\ ToSet(s \o t) = ToSet(s) \cup ToSet(t)
<1> DEFINE u == s \o t
           m == Len(s)
           n == Len(t)
<1>1. m \in Nat /\ n \in Nat /\ DOMAIN s = 1..m /\ DOMAIN t = 1..n
  BY LenProperties
<1>2. /\ u \in Seq(Pages) /\ Len(u) = m + n
      /\ \A i \in 1..m + n : u[i] = IF i <= m THEN s[i] ELSE t[i - m]
  BY ConcatProperties
<1>3. DOMAIN u = 1..m + n
  BY <1>2, LenProperties
<1> HIDE DEF u, m, n
<1>4. \A i \in 1..m : i \in 1..m + n /\ u[i] = s[i]
  BY <1>1, <1>2
<1>5. \A i \in 1..n : m + i \in 1..m + n /\ u[m + i] = t[i]
  BY <1>1, <1>2
<1>6. \A i \in 1..m + n : i \in 1..m \/ (i - m \in 1..n /\ m + (i - m) = i)
  BY <1>1
<1>7. ToSet(u) = ToSet(s) \cup ToSet(t)
  <2>1. ToSet(u) \subseteq ToSet(s) \cup ToSet(t)
    <3>1. ASSUME NEW i \in 1..m + n
          PROVE  u[i] \in ToSet(s) \cup ToSet(t)
      <4>1. CASE i \in 1..m
        BY <1>1, <1>4, <4>1 DEF ToSet
      <4>2. CASE i - m \in 1..n /\ m + (i - m) = i
        BY <1>1, <1>5, <4>2 DEF ToSet
      <4> QED
        BY <1>6, <4>1, <4>2
    <3> QED
      BY <1>3, <3>1 DEF ToSet
  <2>2. ToSet(s) \subseteq ToSet(u)
    BY <1>1, <1>3, <1>4 DEF ToSet
  <2>3. ToSet(t) \subseteq ToSet(u)
    BY <1>1, <1>3, <1>5 DEF ToSet
  <2> QED
    BY <2>1, <2>2, <2>3
<1>8. ASSUME NEW i \in 1..m + n, NEW j \in 1..m + n, u[i] = u[j]
      PROVE  i = j
  <2>1. CASE i \in 1..m /\ j \in 1..m
    BY <1>1, <1>4, <1>8, <2>1 DEF IsInjective
  <2>2. CASE i - m \in 1..n /\ j - m \in 1..n
    <3>1. t[i - m] = t[j - m]
      BY <1>5, <1>6, <1>8, <2>2, <1>1
    <3>2. i - m = j - m
      BY <1>1, <2>2, <3>1 DEF IsInjective
    <3> QED
      BY <1>1, <3>2
  <2>3. CASE i \in 1..m /\ j - m \in 1..n
    <3>1. u[i] = s[i] /\ s[i] \in ToSet(s)
      BY <1>1, <1>4, <2>3 DEF ToSet
    <3>2. t[j - m] \in ToSet(t) /\ m + (j - m) = j
      BY <1>1, <1>5, <2>3 DEF ToSet
    <3>3. u[m + (j - m)] = t[j - m]
      BY <1>5, <2>3
    <3> QED
      BY <1>8, <3>1, <3>2, <3>3
  <2>4. CASE i - m \in 1..n /\ j \in 1..m
    <3>1. u[j] = s[j] /\ s[j] \in ToSet(s)
      BY <1>1, <1>4, <2>4 DEF ToSet
    <3>2. t[i - m] \in ToSet(t) /\ m + (i - m) = i
      BY <1>1, <1>5, <2>4 DEF ToSet
    <3>3. u[m + (i - m)] = t[i - m]
      BY <1>5, <2>4
    <3> QED
      BY <1>8, <3>1, <3>2, <3>3
  <2> QED
    BY <1>6, <2>1, <2>2, <2>3, <2>4
<1>9. IsInjective(u)
  BY <1>3, <1>8 DEF IsInjective
<1> QED
  BY <1>2, <1>7, <1>9 DEF u

LEMMA ReclaimKeeps ==
  ASSUME BaseInv, Reclaim
  PROVE  BaseInv'
<1>0. /\ cell \in [Addr -> [kind : {"zero", "obj", "fwd"}, id : Ids \cup {0}, ref : References]]
      /\ start \subseteq Addr /\ dirty \subseteq Addr /\ gen \in [Pages -> Gens \cup {"Free"}]
      /\ chunk \subseteq Pages /\ pending \in Seq(Pages) /\ freeList \in Seq(Pages)
      /\ phase = "reclaim" /\ destGen \in Gens /\ fromGen \in Gens /\ "Free" \notin Gens
      /\ phase' = "chunk" /\ chunk' = {} /\ fromGen' = fromGen
      /\ start' = start \ (On(chunk) \ pinned) /\ dirty' = dirty \cup (pinned \cap On(Flipped))
      /\ freeList' = freeList \o InOrder(Released)
      /\ UNCHANGED <<region, value, clock, pass, allocs>>
  BY PassIs DEF BaseInv, TypeOK, Reclaim, Collecting, Gens, fromGen, pass
<1>1. /\ Flipped \subseteq chunk /\ Released \subseteq chunk /\ Flipped \cap Released = {}
      /\ Flipped \cup Released = chunk
  BY DEF Flipped, Released
<1>2. /\ gen' \in [Pages -> Gens \cup {"Free"}]
      /\ \A p \in Pages : /\ p \in Flipped => gen'[p] = destGen
                          /\ p \in Released => gen'[p] = "Free"
                          /\ p \notin chunk => gen'[p] = gen[p]
  <2>1. gen' = [p \in Pages |-> CASE p \in Flipped -> destGen
                                  [] p \in Released -> "Free" [] OTHER -> gen[p]]
    BY DEF Reclaim
  <2> QED
    BY <1>0, <1>1, <2>1
<1>3. /\ cell' \in [Addr -> [kind : {"zero", "obj", "fwd"}, id : Ids \cup {0}, ref : References]]
      /\ \A a \in Addr : cell'[a] = IF a \in On(chunk) \ pinned THEN Zero ELSE cell[a]
  <2>1. cell' = [a \in Addr |-> IF a \in On(chunk) \ pinned THEN Zero ELSE cell[a]]
    BY DEF Reclaim
  <2>2. Zero \in [kind : {"zero", "obj", "fwd"}, id : Ids \cup {0}, ref : References]
    BY DEF Zero, References
  <2> QED
    BY <1>0, <2>1, <2>2
<1>4. /\ freeList' \in Seq(Pages) /\ IsInjective(freeList')
      /\ ToSet(freeList') = PagesIn("Free") \cup Released
  <2>1. Released \in SUBSET Pages
    BY <1>0, <1>1
  <2>2. /\ InOrder(Released) \in Seq(Pages) /\ IsInjective(InOrder(Released))
        /\ ToSet(InOrder(Released)) = Released
    BY <2>1, InOrderIs
  <2>3. PagesIn("Free") \cap Released = {}
    BY <1>0, <1>1 DEF BaseInv, PageInv, PagesIn, Ahead
  <2>4. ToSet(freeList) = PagesIn("Free") /\ IsInjective(freeList)
    BY DEF BaseInv, PageInv
  <2> QED
    BY <1>0, <2>2, <2>3, <2>4, JoinPages
<1>5. TypeOK'
  BY <1>0, <1>2, <1>3, <1>4 DEF BaseInv, TypeOK, clock, pass
<1>6. PhaseInv'
  BY <1>0 DEF BaseInv, PhaseInv, Collecting, pass
<1>7. PageInv'
  <2>1. /\ Ahead' = ToSet(pending) /\ Ahead' \subseteq Ahead /\ Ahead' \cap chunk = {}
        /\ Ahead' \subseteq Pages
    <3>1. ToSet(pending) \subseteq Pages
      BY <1>0, LenProperties, ElementOfSeq DEF ToSet
    <3> QED
      BY <1>0, <3>1 DEF Ahead, BaseInv, PageInv, pass
  <2>2. \A p \in Ahead' : gen'[p] = fromGen'
    BY <1>0, <1>2, <2>1 DEF BaseInv, PageInv
  <2>3. ASSUME NEW g \in Gens, region'[g].page # Nil
        PROVE  /\ gen'[region'[g].page] = g /\ region'[g].page \notin Ahead'
               /\ \A a \in start' : PageOf(a) = region'[g].page => a[2] < region'[g].next
    <3>1. /\ gen[region[g].page] = g /\ region[g].page \notin Ahead
          /\ \A a \in start : PageOf(a) = region[g].page => a[2] < region[g].next
      BY <1>0, <2>3 DEF BaseInv, PageInv
    <3>2. region[g].page \in Pages
      BY <1>0, <2>3 DEF BaseInv, TypeOK
    <3> QED
      BY <1>0, <1>2, <2>1, <3>1, <3>2 DEF Ahead
  <2>4. PagesIn("Free")' = PagesIn("Free") \cup Released
    <3>1. \A p \in chunk : gen[p] # "Free"
      BY <1>0 DEF BaseInv, PageInv, Ahead
    <3>2. \A p \in Pages : gen'[p] = "Free" <=> gen[p] = "Free" \/ p \in Released
      BY <1>0, <1>1, <1>2, <3>1
    <3> QED
      BY <1>0, <1>1, <3>2 DEF PagesIn
  <2> QED
    BY <1>0, <1>4, <2>2, <2>3, <2>4 DEF BaseInv, PageInv, pass
<1>8. StartInv'
  <2>1. ASSUME NEW a \in start'
        PROVE  gen'[PageOf(a)] # "Free" /\ cell'[a].kind # "zero"
    <3>1. a \in start /\ PageOf(a) \in Pages /\ a \in Addr /\ a \notin On(chunk) \ pinned
      BY <1>0, <2>1, Addresses
    <3>2. gen[PageOf(a)] # "Free" /\ cell[a].kind # "zero"
      BY <3>1 DEF BaseInv, StartInv
    <3>3. PageOf(a) \in chunk => PageOf(a) \in Flipped
      BY <3>1 DEF On, Flipped
    <3> QED
      BY <1>0, <1>2, <1>3, <3>1, <3>2, <3>3
  <2>2. \A a \in Addr : cell'[a].kind # "fwd"
    BY <1>3 DEF BaseInv, StartInv, Zero
  <2>3. pinned' \subseteq start'
    BY <1>0 DEF BaseInv, StartInv, pass
  <2> QED
    BY <2>1, <2>2, <2>3 DEF StartInv
<1>9. IdInv'
  <2>1. UsedIds' \subseteq UsedIds
    BY <1>0, <1>3 DEF UsedIds
  <2>2. IsFiniteSet(UsedIds') /\ Cardinality(UsedIds') <= Cardinality(UsedIds)
    BY <2>1, FS_Subset DEF BaseInv, IdInv
  <2>3. /\ Cardinality(UsedIds) \in Nat /\ Cardinality(UsedIds') \in Nat
        /\ Cardinality(UsedIds) <= allocs /\ allocs \in Nat /\ allocs' = allocs
    BY <1>0, <2>2, FS_CardinalityType DEF BaseInv, IdInv, TypeOK
  <2> QED
    BY <2>2, <2>3 DEF IdInv
<1>10. CardInv'
  <2>1. ASSUME NEW a \in start' \ dirty', cell'[a].kind = "obj", cell'[a].ref # Nil
        PROVE  gen'[PageOf(a)] = "G0"
    <3>1. /\ a \in start \ dirty /\ PageOf(a) \in Pages /\ a \in Addr
          /\ a \notin On(chunk) \ pinned /\ a \notin pinned \cap On(Flipped)
      BY <1>0, <2>1, Addresses
    <3>2. PageOf(a) \notin chunk
      BY <3>1 DEF On, Flipped
    <3> QED
      BY <1>0, <1>2, <1>3, <2>1, <3>1, <3>2 DEF BaseInv, CardInv
  <2> QED
    BY <2>1 DEF CardInv
<1> QED
  BY <1>5, <1>6, <1>7, <1>8, <1>9, <1>10 DEF BaseInv

LEMMA EndPassKeeps ==
  ASSUME BaseInv, EndPass
  PROVE  BaseInv'
<1>0. /\ phase = "chunk" /\ phase' = "pass" /\ pending = <<>> /\ chunk = {} /\ passes # <<>>
      /\ passes' = Tail(passes) /\ marked' = {}
      /\ UNCHANGED <<table, memory, value, clock, snap, pinned, pending, chunk, allocs>>
  BY DEF EndPass, BaseInv, PhaseInv, Collecting
<1>1. passes' \in Seq([from : Gens, dest : Gens, scan : {"driven", "now", "none"}])
  BY <1>0, HeadTailProperties DEF BaseInv, TypeOK
<1>2. TypeOK'
  BY <1>0, <1>1 DEF BaseInv, TypeOK, table, memory, clock
<1>3. PhaseInv'
  BY <1>0 DEF PhaseInv, Collecting
<1>4. Ahead = {} /\ Ahead' = {}
  BY <1>0 DEF Ahead, ToSet
<1>5. PageInv'
  BY <1>0, <1>4 DEF BaseInv, PageInv, PagesIn, table, memory
<1>6. StartInv' /\ IdInv' /\ CardInv'
  BY <1>0 DEF BaseInv, StartInv, On, IdInv, UsedIds, CardInv, table, memory
<1> QED
  BY <1>2, <1>3, <1>5, <1>6 DEF BaseInv

LEMMA FinishKeeps ==
  ASSUME BaseInv, Finish
  PROVE  BaseInv'
<1>0. /\ phase = "pass" /\ phase' = "run" /\ pending = <<>> /\ chunk = {} /\ passes = <<>>
      /\ dirty' = {a \in Addr : gen[PageOf(a)] # "Free" /\ cell[a].kind = "obj" /\ cell[a].ref # Nil}
      /\ pinned' = {} /\ snap' = [p \in Pages |-> "Free"]
      /\ UNCHANGED <<table, start, cell, value, clock, passes, marked, pending, chunk, allocs>>
  BY DEF Finish, BaseInv, PhaseInv, Collecting
<1>1. TypeOK'
  BY <1>0 DEF BaseInv, TypeOK, table, clock
<1>2. PhaseInv'
  BY <1>0 DEF PhaseInv, Collecting
<1>3. PageInv'
  BY <1>0 DEF BaseInv, PageInv, PagesIn, Ahead, fromGen, table
<1>4. StartInv'
  BY <1>0 DEF BaseInv, StartInv, On, table
<1>5. IdInv'
  BY <1>0 DEF BaseInv, IdInv, UsedIds
<1>6. CardInv'
  BY <1>0 DEF BaseInv, CardInv, StartInv, TypeOK, table
<1> QED
  BY <1>1, <1>2, <1>3, <1>4, <1>5, <1>6 DEF BaseInv

LEMMA BaseKept ==
  ASSUME BaseInv, [Next]_vars
  PROVE  BaseInv'
<1>0. /\ value \in [Slots -> References] /\ RootSlots \subseteq Slots /\ Nil \in References
      /\ \A t \in Slots : value[t] # Nil => cell[value[t]].ref \in References
  BY DEF BaseInv, TypeOK, Slots, References
<1>1. ASSUME NEW s \in RootSlots, NEW t \in Slots, AllocCons(s, t)
      PROVE  BaseInv'
  BY <1>1, AllocKeeps
<1>2. ASSUME NEW s \in Slots, NEW t \in Slots, Cdr(s, t)
      PROVE  BaseInv'
  BY <1>0, <1>2, SetSlotKeeps DEF Cdr
<1>3. ASSUME NEW s \in Slots, NEW t \in Slots, Rplacd(s, t)
      PROVE  BaseInv'
  BY <1>3, RplacdKeeps
<1>4. ASSUME NEW s \in Slots, NEW t \in Slots, Move(s, t)
      PROVE  BaseInv'
  BY <1>0, <1>4, SetSlotKeeps DEF Move
<1>5. ASSUME NEW s \in Slots, Clear(s)
      PROVE  BaseInv'
  BY <1>0, <1>5, SetSlotKeeps DEF Clear
<1>6. CASE Drive
  BY <1>6, CollectKeeps DEF Drive
<1>7. CASE Collector
  BY <1>7, BeginPassKeeps, TakeChunkKeeps, CopyKeeps, StallKeeps, RewriteKeeps, ReclaimKeeps,
     EndPassKeeps, FinishKeeps DEF Collector
<1>8. CASE UNCHANGED vars
  BY <1>8, IdleKeeps
<1> QED
  BY <1>0, <1>1, <1>2, <1>3, <1>4, <1>5, <1>6, <1>7, <1>8 DEF Next, Mutate

LEMMA HeapInvariance == Spec => []BaseInv
BY HeapAtFirst, BaseKept, PTL DEF Spec

\* The page table, the free list, the counts of collections and the marks keep
\* their types; a count that reaches its threshold is restarted (collect_minor).
THEOREM HeapTypes == Spec => []TypeOK
<1>1. BaseInv => TypeOK
  BY DEF BaseInv
<1> QED
  BY <1>1, HeapInvariance, PTL

\* Between collections every reference into a younger generation is on a dirty
\* card, whatever was promoted, pinned or split into chunks
\* (rebuild_cards_for_old_gens, ncl_set_cdr).
THEOREM CardsRemember == Spec => []RememberedSet
<1>1. BaseInv => RememberedSet
  <2>1. ASSUME BaseInv, phase = "run", NEW a \in start \ dirty, Resident(cell[a].ref)
        PROVE  Age(gen[PageOf(a)]) <= Age(gen[PageOf(cell[a].ref)])
    <3>1. /\ cell \in [Addr -> [kind : {"zero", "obj", "fwd"}, id : Ids \cup {0}, ref : References]]
          /\ start \subseteq Addr /\ gen \in [Pages -> Gens \cup {"Free"}] /\ chunk = {}
      BY <2>1 DEF BaseInv, TypeOK, PhaseInv
    <3>2. a \in Addr /\ cell[a].ref \in start /\ cell[a].ref # Nil
      BY <2>1, <3>1, Addresses DEF Resident
    <3>3. cell[a].kind = "obj"
      BY <2>1, <3>1, <3>2 DEF BaseInv, StartInv, On
    <3>4. gen[PageOf(a)] = "G0"
      BY <2>1, <3>2, <3>3 DEF BaseInv, CardInv
    <3>5. gen[PageOf(cell[a].ref)] \in Gens
      BY <2>1, <3>1, <3>2, Addresses DEF BaseInv, StartInv
    <3> QED
      BY <3>4, <3>5 DEF Age, Gens
  <2> QED
    BY <2>1 DEF RememberedSet
<1> QED
  BY <1>1, HeapInvariance, PTL

-----------------------------------------------------------------------------
(* What the collections keep.  Two things the heap does lose are set       *)
(* aside: a promotion in several chunks, and a major collection, whose     *)
(* first pass does not see what young objects on clean cards refer to.     *)

\* A pass that promotes takes its pages in one chunk.
PromotesWhole == phase = "copy" /\ fromGen # destGen => pending = <<>>

MinorTails ==
  {<<>>, <<Pass("G0", "G0", "driven")>>, <<Pass("G0", "G1", "driven")>>,
   <<Pass("G0", "G1", "driven"), Pass("G1", "Tenured", "driven")>>,
   <<Pass("G1", "Tenured", "driven")>>}
FullTails ==
  {FullPasses, <<Pass("G1", "Tenured", "now"), Pass("Tenured", "Tenured", "none")>>,
   <<Pass("Tenured", "Tenured", "none")>>}

\* The generations younger than the one that is evacuated are empty; one that
\* is promoted has no pages but those ahead.
GenInv ==
  /\ passes \in MinorTails \cup FullTails
  /\ passes # <<>> /\ fromGen # "G0" => \A p \in Pages : gen[p] # "G0"
  /\ passes # <<>> /\ fromGen = "Tenured" => \A p \in Pages : gen[p] # "G1"
  /\ phase \in Collecting /\ fromGen # destGen =>
       \A p \in Pages : gen[p] = fromGen => p \in Ahead

\* A card scan sees the pages outside the pass under the generations they have.
SnapInv ==
  /\ phase = "pass" /\ passes # <<>> =>
       \A p \in Pages : gen[p] \notin {"Free", fromGen} => ScanGens[p] = gen[p]
  /\ phase \in Collecting =>
       \A p \in Pages : gen[p] \notin {"Free", fromGen, destGen} => snap[p] = gen[p]

\* What a stack word denotes is pinned, or on no page that will be evacuated.
AnchorInv ==
  phase # "run" =>
    \A s \in StackSlots : value[s] # Nil =>
      value[s] \in pinned \/ (gen[PageOf(value[s])] = "Tenured" /\ passes \in MinorTails)

\* The objects this collection keeps: all but those ahead that nobody marked
\* or pinned, and, once the references are rewritten, those that moved.
Doomed == On(Ahead) \ (marked \cup pinned)
Moved  == IF phase = "reclaim" THEN On(chunk) \ pinned ELSE {}
Kept   == start \ (Doomed \cup Moved)

RefInv ==
  /\ \A a \in Kept : cell[a].kind = "obj" => cell[a].ref \in Kept \cup {Nil}
  /\ \A s \in Slots : value[s] \in Kept \cup {Nil}
  /\ \A a \in start : cell[a].kind = "fwd" =>
       /\ cell[a].ref \in start /\ cell[cell[a].ref].kind = "obj"
       /\ PageOf(cell[a].ref) \notin Ahead
  /\ \A a \in Addr \ start : cell[a] = Zero
  /\ phase \in Collecting => pinned \cap On(ToSet(pending)) \subseteq marked

KeepInv == BaseInv /\ GenInv /\ SnapInv /\ AnchorInv /\ RefInv

LEMMA KeepAtFirst == Init => KeepInv
<1> SUFFICES ASSUME Init
             PROVE  KeepInv
  OBVIOUS
<1>1. BaseInv
  BY HeapAtFirst
<1>2. GenInv /\ SnapInv /\ AnchorInv
  BY DEF Init, GenInv, SnapInv, AnchorInv, Collecting, MinorTails
<1>3. RefInv
  BY DEF Init, RefInv, Kept, Collecting
<1> QED
  BY <1>1, <1>2, <1>3 DEF KeepInv

\* The passes a collection may still have to make.
LEMMA TailsAre ==
  ASSUME passes \in MinorTails \cup FullTails, passes # <<>>
  PROVE  /\ <<fromGen, destGen, Head(passes).scan>> \in
              {<<"G0", "G0", "driven">>, <<"G0", "G1", "driven">>, <<"G1", "Tenured", "driven">>,
               <<"G0", "G1", "now">>, <<"G1", "Tenured", "now">>, <<"Tenured", "Tenured", "none">>}
         /\ passes \in MinorTails => fromGen # "Tenured"
         /\ Tail(passes) \in MinorTails \cup FullTails
         /\ passes \in MinorTails => Tail(passes) \in MinorTails
         /\ Tail(passes) # <<>> =>
              /\ Head(Tail(passes)).from = destGen /\ fromGen # destGen
              /\ Head(Tail(passes)).scan \in {"driven", "now", "none"}
              /\ Head(Tail(passes)).scan = "driven" => destGen = "G1"
              /\ Head(Tail(passes)).scan = "none" => destGen = "Tenured"
<1> DEFINE p1 == Pass("G0", "G0", "driven")
           p2 == Pass("G0", "G1", "driven")
           p3 == Pass("G1", "Tenured", "driven")
           q1 == Pass("G0", "G1", "now")
           q2 == Pass("G1", "Tenured", "now")
           q3 == Pass("Tenured", "Tenured", "none")
<1>1. \A x : Head(<<x>>) = x /\ Tail(<<x>>) = <<>> /\ <<x>> # <<>>
  OBVIOUS
<1>2. \A x, y : Head(<<x, y>>) = x /\ Tail(<<x, y>>) = <<y>> /\ <<x, y>> # <<>>
  OBVIOUS
<1>3. \A x, y, z : Head(<<x, y, z>>) = x /\ Tail(<<x, y, z>>) = <<y, z>> /\ <<x, y, z>> # <<>>
  OBVIOUS
<1>4. /\ MinorTails = {<<>>, <<p1>>, <<p2>>, <<p2, p3>>, <<p3>>}
      /\ FullTails = {<<q1, q2, q3>>, <<q2, q3>>, <<q3>>}
  BY DEF MinorTails, FullTails, FullPasses
<1>5. /\ p1.from = "G0" /\ p1.dest = "G0" /\ p1.scan = "driven"
      /\ p2.from = "G0" /\ p2.dest = "G1" /\ p2.scan = "driven"
      /\ p3.from = "G1" /\ p3.dest = "Tenured" /\ p3.scan = "driven"
      /\ q1.from = "G0" /\ q1.dest = "G1" /\ q1.scan = "now"
      /\ q2.from = "G1" /\ q2.dest = "Tenured" /\ q2.scan = "now"
      /\ q3.from = "Tenured" /\ q3.dest = "Tenured" /\ q3.scan = "none"
  BY DEF Pass
<1> HIDE DEF p1, p2, p3, q1, q2, q3
<1>6. \/ passes = <<p1>> \/ passes = <<p2>> \/ passes = <<p2, p3>> \/ passes = <<p3>>
      \/ passes = <<q1, q2, q3>> \/ passes = <<q2, q3>> \/ passes = <<q3>>
  BY <1>4
<1>7. CASE passes = <<p1>>
  BY <1>1, <1>4, <1>5, <1>7 DEF fromGen, destGen
<1>8. CASE passes = <<p2>>
  BY <1>1, <1>4, <1>5, <1>8 DEF fromGen, destGen
<1>9. CASE passes = <<p2, p3>>
  BY <1>1, <1>2, <1>4, <1>5, <1>9 DEF fromGen, destGen
<1>10. CASE passes = <<p3>>
  BY <1>1, <1>4, <1>5, <1>10 DEF fromGen, destGen
<1>11. CASE passes = <<q1, q2, q3>>
  <2>1. passes \notin MinorTails
    BY <1>1, <1>2, <1>3, <1>4, <1>5, <1>11
  <2> QED
    BY <1>1, <1>2, <1>3, <1>4, <1>5, <1>11, <2>1 DEF fromGen, destGen
<1>12. CASE passes = <<q2, q3>>
  <2>1. passes \notin MinorTails
    BY <1>1, <1>2, <1>3, <1>4, <1>5, <1>12
  <2> QED
    BY <1>1, <1>2, <1>3, <1>4, <1>5, <1>12, <2>1 DEF fromGen, destGen
<1>13. CASE passes = <<q3>>
  <2>1. passes \notin MinorTails
    BY <1>1, <1>2, <1>3, <1>4, <1>5, <1>13
  <2> QED
    BY <1>1, <1>2, <1>3, <1>4, <1>5, <1>13, <2>1 DEF fromGen, destGen
<1> QED
  BY <1>6, <1>7, <1>8, <1>9, <1>10, <1>11, <1>12, <1>13

\* Nothing is doomed outside a pass.
LEMMA KeptIs ==
  /\ TypeOK /\ PhaseInv /\ phase \in {"run", "pass"} => Kept = start
  /\ Kept \subseteq start
  /\ \A p : On({p}) \subseteq Addr
<1>1. ASSUME TypeOK, PhaseInv, phase \in {"run", "pass"}
      PROVE  Kept = start
  <2>1. Ahead = {}
    BY <1>1, PassIs DEF Collecting
  <2> QED
    BY <1>1, <2>1 DEF Kept, Doomed, Moved, On
<1> QED
  BY <1>1 DEF Kept, On

\* In the mutator's time every object is kept, and refers to objects.
LEMMA RunIs ==
  ASSUME KeepInv, phase = "run"
  PROVE  /\ Kept = start /\ chunk = {} /\ pending = <<>> /\ Ahead = {}
         /\ \A a \in start : cell[a].kind = "obj" /\ cell[a].ref \in start \cup {Nil}
         /\ \A s \in Slots : value[s] \in start \cup {Nil}
         /\ \A a \in Addr \ start : cell[a] = Zero
         /\ start \subseteq Addr
<1>1. Kept = start /\ chunk = {} /\ pending = <<>> /\ Ahead = {} /\ start \subseteq Addr
  BY KeptIs, PassIs DEF KeepInv, BaseInv, PhaseInv, Collecting, TypeOK
<1>2. \A a \in start : cell[a].kind = "obj"
  BY <1>1 DEF KeepInv, BaseInv, StartInv, TypeOK, On
<1> QED
  BY <1>1, <1>2 DEF KeepInv, RefInv

\* What is left to show of a step of the mutator.
LEMMA RunKeeps ==
  ASSUME BaseInv', phase' = "run", Ahead' = {},
         \A a \in start' : cell'[a].kind = "obj" => cell'[a].ref \in start' \cup {Nil},
         \A s \in Slots : value'[s] \in start' \cup {Nil},
         \A a \in Addr \ start' : cell'[a] = Zero
  PROVE  KeepInv'
<1>1. passes' = <<>> /\ chunk' = {} /\ start' \subseteq Addr
  BY DEF BaseInv, PhaseInv, TypeOK
<1>2. GenInv' /\ SnapInv' /\ AnchorInv'
  BY <1>1 DEF GenInv, SnapInv, AnchorInv, Collecting, MinorTails
<1>3. Kept' = start'
  BY <1>1 DEF Kept, Doomed, Moved, On
<1>4. \A a \in start' : cell'[a].kind # "fwd"
  BY <1>1 DEF BaseInv, StartInv, On
<1>5. RefInv'
  BY <1>3, <1>4 DEF RefInv, Collecting
<1> QED
  BY <1>2, <1>5 DEF KeepInv

LEMMA AllocKeepsRefs ==
  ASSUME KeepInv, NEW s \in RootSlots, NEW t \in Slots, AllocCons(s, t)
  PROVE  KeepInv'
<1> DEFINE a == Place("G0")
           i == CHOOSE j \in Ids : \A b \in start : cell[b].id # j
           c == [cell EXCEPT ![a] = Object(i, value[t])]
<1>0. /\ BaseInv /\ BaseInv' /\ phase = "run" /\ phase' = "run"
      /\ cell \in [Addr -> [kind : {"zero", "obj", "fwd"}, id : Ids \cup {0}, ref : References]]
      /\ value \in [Slots -> References]
  BY AllocKeeps DEF KeepInv, BaseInv, TypeOK, AllocCons
<1>1. /\ Take("G0", a, c, start) /\ CanPlace("G0") /\ "G0" \in Gens
      /\ value' = [value EXCEPT ![s] = a]
  BY DEF AllocCons, Gens
<1>2. Object(i, value[t]).ref = value[t]
  BY DEF Object
<1> HIDE DEF i
<1>3. a \in Addr \ start /\ start' = start \cup {a} /\ cell' = c
  <2>1. a = Place("G0")
    OBVIOUS
  <2> HIDE DEF a, c
  <2> QED
    BY <1>0, <1>1, <2>1, TakeIs DEF BaseInv
<1> HIDE DEF a
<1>4. cell'[a].ref = value[t] /\ \A b \in Addr : b # a => cell'[b] = cell[b]
  BY <1>0, <1>2, <1>3 DEF c
<1>5. Ahead' = {}
  BY <1>0, RunIs DEF Ahead, AllocCons, pass
<1>6. \A b \in start' : cell'[b].ref \in start' \cup {Nil}
  BY <1>0, <1>3, <1>4, RunIs
<1>7. \A r \in Slots : value'[r] \in start' \cup {Nil}
  BY <1>0, <1>1, <1>3, RunIs
<1>8. \A b \in Addr \ start' : cell'[b] = Zero
  BY <1>0, <1>3, <1>4, RunIs
<1> HIDE DEF c
<1> QED
  BY <1>0, <1>5, <1>6, <1>7, <1>8, RunKeeps

LEMMA RplacdKeepsRefs ==
  ASSUME KeepInv, NEW s \in Slots, NEW t \in Slots, Rplacd(s, t)
  PROVE  KeepInv'
<1>0. /\ BaseInv /\ BaseInv' /\ phase = "run" /\ phase' = "run"
      /\ cell \in [Addr -> [kind : {"zero", "obj", "fwd"}, id : Ids \cup {0}, ref : References]]
      /\ value[s] # Nil /\ start' = start /\ value' = value
      /\ cell' = [cell EXCEPT ![value[s]].ref = value[t]]
  BY RplacdKeeps DEF KeepInv, BaseInv, TypeOK, Rplacd, table
<1>1. Ahead' = {}
  BY <1>0, RunIs DEF Ahead, Rplacd, pass
<1>2. value[s] \in start /\ value[s] \in Addr
  BY <1>0, RunIs
<1>3. \A b \in Addr : b # value[s] => cell'[b] = cell[b]
  BY <1>0
<1>4. cell'[value[s]].ref = value[t]
  BY <1>0, <1>2
<1>5. \A b \in start' : cell'[b].ref \in start' \cup {Nil}
  BY <1>0, <1>2, <1>3, <1>4, RunIs
<1>6. \A r \in Slots : value'[r] \in start' \cup {Nil}
  BY <1>0, RunIs
<1>7. \A b \in Addr \ start' : cell'[b] = Zero
  BY <1>0, <1>2, <1>3, RunIs
<1> QED
  BY <1>0, <1>1, <1>5, <1>6, <1>7, RunKeeps

LEMMA SetSlotKeepsRefs ==
  ASSUME KeepInv, NEW s \in Slots, NEW v \in start \cup {Nil}, SetSlot(s, v)
  PROVE  KeepInv'
<1>0. v \in References /\ phase = "run" /\ value \in [Slots -> References]
  BY Addresses DEF KeepInv, BaseInv, TypeOK, References, SetSlot
<1>1. /\ BaseInv' /\ phase' = "run" /\ start' = start /\ cell' = cell
      /\ value' = [value EXCEPT ![s] = v] /\ Ahead' = Ahead
  BY <1>0, SetSlotKeeps DEF KeepInv, SetSlot, memory, Ahead, pass
<1>2. \A r \in Slots : value'[r] \in start' \cup {Nil}
  BY <1>0, <1>1, RunIs
<1> QED
  BY <1>0, <1>1, <1>2, RunIs, RunKeeps

LEMMA IdleKeepsRefs ==
  ASSUME KeepInv, UNCHANGED vars
  PROVE  KeepInv'
<1>1. BaseInv'
  BY IdleKeeps DEF KeepInv
<1>2. /\ GenInv' /\ SnapInv' /\ AnchorInv'
  BY DEF KeepInv, GenInv, SnapInv, AnchorInv, ScanGens, Ahead, fromGen, destGen, vars, table,
         memory, clock, pass
<1>3. RefInv'
  BY DEF KeepInv, RefInv, Kept, Doomed, Moved, On, Ahead, vars, table, memory, clock, pass
<1> QED
  BY <1>1, <1>2, <1>3 DEF KeepInv

\* A collection begins: every stack word is anchored.
LEMMA CollectKeepsRefs ==
  ASSUME KeepInv, "major" \notin Kinds, NEW kind \in Kinds, NEW word, Collect(kind, word)
  PROVE  KeepInv'
<1>0. /\ kind \in {"minor", "full"} /\ phase = "run" /\ phase' = "pass" /\ BaseInv /\ BaseInv'
      /\ snap' = gen /\ pinned' = Pins(kind, word)
      /\ UNCHANGED <<table, memory, value, marked, pending, chunk, allocs>>
  BY PageHeapAssumption, CollectKeeps DEF KeepInv, Collect
<1>2. /\ kind = "minor" => passes' = MinorPasses
      /\ kind = "full" => passes' = FullPasses
  BY DEF Collect, CollectMinor, CollectFull
<1>3. /\ MinorPasses \in MinorTails /\ MinorPasses # <<>> /\ Head(MinorPasses).from = "G0"
      /\ Head(MinorPasses).scan = "driven"
  <2>1. CASE Cascade
    <3>1. MinorPasses = <<Pass("G0", "G1", "driven"), Pass("G1", "Tenured", "driven")>>
      BY <2>1, PassesAre
    <3> QED
      BY <3>1 DEF MinorTails, Pass
  <2>2. CASE ~Cascade
    <3>1. MinorPasses = <<Pass("G0", IF PromoteG0 THEN "G1" ELSE "G0", "driven")>>
      BY <2>2, PassesAre
    <3>2. MinorPasses = <<Pass("G0", "G1", "driven")>> \/ MinorPasses = <<Pass("G0", "G0", "driven")>>
      BY <3>1
    <3> QED
      BY <3>2 DEF MinorTails, Pass
  <2> QED
    BY <2>1, <2>2
<1>4. FullPasses \in FullTails /\ FullPasses # <<>> /\ Head(FullPasses).from = "G0"
      /\ Head(FullPasses).scan = "now"
  BY DEF FullTails, FullPasses, Pass
<1>5. /\ passes' \in MinorTails \cup FullTails /\ passes' # <<>> /\ fromGen' = "G0"
      /\ Head(passes').scan \in {"driven", "now"}
      /\ kind = "minor" => passes' \in MinorTails
  BY <1>0, <1>2, <1>3, <1>4 DEF fromGen
<1>6. GenInv'
  BY <1>0, <1>5 DEF GenInv, Collecting
<1>7. SnapInv'
  <2>1. ScanGens' = gen'
    BY <1>0, <1>5 DEF ScanGens, table
  <2> QED
    BY <1>0, <2>1 DEF SnapInv, Collecting
<1>8. AnchorInv'
  <2>1. ASSUME NEW s \in StackSlots, value[s] # Nil
        PROVE  value[s] \in pinned' \/ (gen[PageOf(value[s])] = "Tenured" /\ kind = "minor")
    <3>1. value[s] \in start /\ PageOf(value[s]) \in Pages
      BY <1>0, <2>1, RunIs, Addresses DEF Slots
    <3>2. gen[PageOf(value[s])] \in Gens
      BY <1>0, <3>1 DEF BaseInv, TypeOK, StartInv
    <3>3. gen[PageOf(value[s])] \in PinGens(kind) => value[s] \in pinned'
      BY <1>0, <3>1 DEF Pins
    <3>4. PinGens("minor") = {"G0", "G1"} /\ PinGens("full") = Gens
      BY DEF PinGens
    <3> QED
      BY <1>0, <3>2, <3>3, <3>4 DEF Gens
  <2> QED
    BY <1>0, <1>5, <2>1 DEF AnchorInv, table
<1>9. RefInv'
  <2>1. Kept' = start' /\ start' = start /\ cell' = cell
    BY <1>0, RunIs DEF Kept, Doomed, Moved, Ahead, On, memory
  <2> QED
    BY <1>0, <2>1, RunIs DEF RefInv, Collecting
<1> QED
  BY <1>0, <1>6, <1>7, <1>8, <1>9 DEF KeepInv

\* The closure holds what it starts from and what its members refer to.
LEMMA ClosureIs ==
  ASSUME NEW S, NEW From
  PROVE  /\ Closure(S, From) \subseteq From /\ S \cap From \subseteq Closure(S, From)
         /\ \A a \in Closure(S, From) : cell[a].ref \in From => cell[a].ref \in Closure(S, From)
BY DEF Closure, Traced

\* A pass begins: what the objects that stay refer to is marked, for a young
\* object outside the generation would be a young page, and an older one with
\* a reference is on a dirty card, seen under the generation it has.
LEMMA BeginPassKeepsRefs ==
  ASSUME KeepInv, BeginPass
  PROVE  KeepInv'
<1> DEFINE P == PagesIn(fromGen)
           F == start \cap On(P)
<1>0. /\ phase = "pass" /\ phase' = "chunk" /\ passes # <<>> /\ BaseInv /\ BaseInv'
      /\ pending' = InOrder(P) /\ marked' = Mark(F) /\ snap' = ScanGens /\ chunk = {}
      /\ UNCHANGED <<gen, freeList, memory, value, clock, passes, pinned, chunk, allocs>>
      /\ fromGen' = fromGen /\ destGen' = destGen
  BY BeginPassKeeps DEF BeginPass, KeepInv, BaseInv, PhaseInv, fromGen, destGen
<1>1. /\ start \subseteq Addr /\ gen \in [Pages -> Gens \cup {"Free"}] /\ pinned \subseteq start
      /\ Kept = start /\ fromGen \in Gens
  BY <1>0, KeptIs, HeadPassIs DEF BaseInv, TypeOK, StartInv
<1>2. Ahead' = P /\ ToSet(pending') = P
  <2>1. P \in SUBSET Pages
    BY DEF PagesIn
  <2> QED
    BY <1>0, <2>1, InOrderIs DEF Ahead
<1>3. /\ RootRefs \cap F \subseteq marked' /\ PinnedRefs \cap F \subseteq marked'
      /\ \A a \in marked' : cell[a].ref \in F => cell[a].ref \in marked'
      /\ marked' \subseteq F
  BY <1>0, ClosureIs DEF Mark
<1>4. Kept' = start \ (On(P) \ (marked' \cup pinned))
  BY <1>0, <1>2 DEF Kept, Doomed, Moved, On, memory
<1>5. GenInv'
  BY <1>0, <1>2 DEF KeepInv, GenInv, PagesIn, Collecting
<1>6. SnapInv'
  BY <1>0 DEF KeepInv, SnapInv, Collecting
<1>7. AnchorInv'
  BY <1>0 DEF KeepInv, AnchorInv, memory
<1>8. RefInv'
  <2>1. ASSUME NEW a \in Kept', cell[a].kind = "obj", cell[a].ref # Nil
        PROVE  cell[a].ref \in Kept'
    <3>1. a \in start /\ cell[a].ref \in start /\ a \in Addr /\ PageOf(a) \in Pages
      BY <1>1, <1>4, <2>1, Addresses DEF KeepInv, RefInv
    <3>2. SUFFICES ASSUME cell[a].ref \in On(P)
                   PROVE  cell[a].ref \in marked'
      BY <1>4, <3>1
    <3>3. cell[a].ref \in F
      BY <3>1, <3>2
    <3>4. CASE a \in marked'
      BY <1>3, <3>3, <3>4
    <3>5. CASE a \in pinned
      BY <1>3, <3>3, <3>5 DEF PinnedRefs
    <3>6. CASE a \notin On(P)
      <4>1. gen[PageOf(a)] \in Gens /\ gen[PageOf(a)] # fromGen
        BY <1>0, <1>1, <3>1, <3>6 DEF BaseInv, StartInv, On, PagesIn
      <4>2. gen[PageOf(a)] # "G0"
        BY <1>0, <3>1, <4>1 DEF KeepInv, GenInv
      <4>3. a \in dirty
        BY <2>1, <3>1, <4>2 DEF KeepInv, BaseInv, CardInv
      <4>4. ScanGens[PageOf(a)] = gen[PageOf(a)]
        BY <1>0, <3>1, <4>1 DEF KeepInv, SnapInv, Gens
      <4>5. a \in CardRoots(ScanGens)
        BY <3>1, <4>1, <4>3, <4>4 DEF CardRoots, Gens
      <4> QED
        BY <1>3, <3>3, <4>5 DEF RootRefs
    <3> QED
      BY <1>4, <2>1, <3>4, <3>5, <3>6
  <2>2. ASSUME NEW s \in Slots, value[s] # Nil
        PROVE  value[s] \in Kept'
    <3>1. value[s] \in start
      BY <1>1, <2>2 DEF KeepInv, RefInv
    <3>2. SUFFICES ASSUME value[s] \in On(P)
                   PROVE  value[s] \in marked' \cup pinned
      BY <1>4, <3>1
    <3>3. CASE s \in RootSlots
      BY <1>3, <3>1, <3>2, <3>3 DEF RootRefs
    <3>4. CASE s \in StackSlots
      <4>1. value[s] \in pinned \/ (gen[PageOf(value[s])] = "Tenured" /\ passes \in MinorTails)
        BY <1>0, <2>2, <3>4 DEF KeepInv, AnchorInv
      <4>2. gen[PageOf(value[s])] = fromGen
        BY <3>2 DEF On, PagesIn
      <4>3. passes \in MinorTails => fromGen # "Tenured"
        BY <1>0, TailsAre DEF KeepInv, GenInv
      <4> QED
        BY <4>1, <4>2, <4>3
    <3> QED
      BY <3>3, <3>4 DEF Slots
  <2>3. pinned' \cap On(ToSet(pending')) \subseteq marked'
    <3>1. pinned \cap On(P) \subseteq PinnedRefs \cap F
      BY <1>1 DEF PinnedRefs
    <3> QED
      BY <1>0, <1>2, <1>3, <3>1 DEF On
  <2>4. \A a \in start' : cell'[a].kind # "fwd"
    BY <1>0, <1>1 DEF BaseInv, StartInv, On, memory
  <2> QED
    BY <1>0, <2>1, <2>2, <2>3, <2>4 DEF KeepInv, RefInv, memory
<1> QED
  BY <1>0, <1>5, <1>6, <1>7, <1>8 DEF KeepInv

LEMMA TakeChunkKeepsRefs ==
  ASSUME KeepInv, TakeChunk
  PROVE  KeepInv'
<1>0. /\ phase = "chunk" /\ phase' = "copy" /\ BaseInv' /\ passes # <<>>
      /\ UNCHANGED <<table, memory, value, clock, passes, snap, marked, pinned, allocs>>
      /\ fromGen' = fromGen /\ destGen' = destGen
  BY TakeChunkKeeps DEF TakeChunk, KeepInv, BaseInv, PhaseInv, Collecting, fromGen, destGen
<1>1. Ahead' = Ahead /\ ToSet(pending') \subseteq ToSet(pending)
  <2>1. pending \in Seq(Pages) /\ IsInjective(pending) /\ chunk = {} /\ pending # <<>>
    BY <1>0 DEF KeepInv, BaseInv, TypeOK, PageInv, PhaseInv, TakeChunk
  <2>2. ChunkSize \in 0..Len(pending)
    BY <2>1, ChunkSizeIs DEF KeepInv, BaseInv
  <2>3. /\ chunk' = ToSet(SubSeq(pending, 1, ChunkSize))
        /\ pending' = SubSeq(pending, ChunkSize + 1, Len(pending))
    BY DEF TakeChunk
  <2>4. chunk' \cup ToSet(pending') = ToSet(pending)
    BY <2>1, <2>2, <2>3, CutPages
  <2> QED
    BY <2>1, <2>4 DEF Ahead
<1>2. GenInv' /\ SnapInv' /\ AnchorInv'
  BY <1>0, <1>1 DEF KeepInv, GenInv, SnapInv, AnchorInv, Collecting, table, memory
<1>3. Kept' = Kept
  BY <1>0, <1>1 DEF Kept, Doomed, Moved, On, memory, table
<1>4. RefInv'
  BY <1>0, <1>1, <1>3 DEF KeepInv, RefInv, Collecting, On, memory
<1> QED
  BY <1>0, <1>2, <1>4 DEF KeepInv

\* A copy is kept, and leaves a marker that leads to it.
LEMMA CopyKeepsRefs ==
  ASSUME KeepInv, CopyObject
  PROVE  KeepInv'
<1>0. /\ BaseInv /\ BaseInv' /\ phase = "copy"
      /\ cell \in [Addr -> [kind : {"zero", "obj", "fwd"}, id : Ids \cup {0}, ref : References]]
      /\ start \subseteq Addr /\ gen \in [Pages -> Gens \cup {"Free"}]
      /\ UNCHANGED <<value, clock, phase, pass, chunk, allocs>>
      /\ fromGen' = fromGen /\ destGen' = destGen /\ Ahead' = Ahead
  BY CopyKeeps DEF CopyObject, KeepInv, BaseInv, TypeOK, fromGen, destGen, Ahead, pass
<1>1. PICK a \in ToCopy, d \in Addr \ start :
           /\ a \in start /\ cell[a].kind = "obj" /\ PageOf(a) \in chunk /\ a \in marked \ pinned
           /\ PageOf(d) \in Pages \ Ahead /\ gen[PageOf(d)] \in {destGen, "Free"}
           /\ gen' = [gen EXCEPT ![PageOf(d)] = destGen]
           /\ start' = start \cup {d}
           /\ cell' = [cell EXCEPT ![d] = cell[a], ![a] = Forward(cell[a].id, d)]
  BY <1>0, CopyIs
<1>2. /\ a # d /\ cell'[d] = cell[a] /\ cell'[a] = Forward(cell[a].id, d)
      /\ \A b \in Addr : b # a /\ b # d => cell'[b] = cell[b]
  BY <1>0, <1>1
<1>3. /\ gen'[PageOf(d)] = destGen /\ \A p \in Pages : p # PageOf(d) => gen'[p] = gen[p]
  BY <1>0, <1>1
<1>4. \A b \in start : gen'[PageOf(b)] = gen[PageOf(b)] /\ PageOf(b) \in Pages
  <2>1. \A b \in start : gen[PageOf(b)] # "Free" /\ PageOf(b) \in Pages
    BY <1>0, Addresses DEF BaseInv, StartInv
  <2> QED
    BY <1>1, <1>3, <2>1
<1>5. Kept' = Kept \cup {d} /\ d \notin On(Ahead) /\ a \in Kept
  <2>1. d \notin On(Ahead)
    BY <1>1 DEF On
  <2>2. a \in Kept
    BY <1>0, <1>1 DEF Kept, Doomed, Moved
  <2> QED
    BY <1>0, <1>1, <2>1, <2>2 DEF Kept, Doomed, Moved, On, pass
<1>6. GenInv'
  <2>1. /\ passes # <<>>
        /\ fromGen # "G0" => destGen # "G0"
        /\ fromGen = "Tenured" => destGen = "Tenured"
    <3>1. passes # <<>> /\ passes \in MinorTails \cup FullTails
      BY <1>0 DEF KeepInv, GenInv, BaseInv, PhaseInv, Collecting
    <3> QED
      BY <3>1, TailsAre
  <2> QED
    BY <1>0, <1>1, <1>3, <2>1 DEF KeepInv, GenInv, Collecting, pass
<1>7. SnapInv'
  BY <1>0, <1>1, <1>3 DEF KeepInv, SnapInv, Collecting, pass
<1>8. AnchorInv'
  <2>1. \A s \in StackSlots : value[s] # Nil => value[s] \in start
    BY DEF KeepInv, RefInv, Kept, Slots
  <2> QED
    BY <1>0, <1>4, <2>1 DEF KeepInv, AnchorInv, pass
<1>9. RefInv'
  <2>1. ASSUME NEW b \in Kept', cell'[b].kind = "obj"
        PROVE  cell'[b].ref \in Kept' \cup {Nil}
    <3>1. CASE b = d
      BY <1>1, <1>2, <1>5, <3>1 DEF KeepInv, RefInv
    <3>2. CASE b = a
      BY <1>2, <2>1, <3>2 DEF Forward
    <3>3. CASE b # a /\ b # d
      <4>1. b \in Kept /\ b \in Addr
        BY <1>0, <1>5, <3>3 DEF Kept
      <4> QED
        BY <1>2, <1>5, <2>1, <3>3, <4>1 DEF KeepInv, RefInv
    <3> QED
      BY <3>1, <3>2, <3>3
  <2>2. \A s \in Slots : value'[s] \in Kept' \cup {Nil}
    BY <1>0, <1>5 DEF KeepInv, RefInv
  <2>3. ASSUME NEW b \in start', cell'[b].kind = "fwd"
        PROVE  /\ cell'[b].ref \in start' /\ cell'[cell'[b].ref].kind = "obj"
               /\ PageOf(cell'[b].ref) \notin Ahead'
    <3>1. CASE b = d
      BY <1>1, <1>2, <2>3, <3>1
    <3>2. CASE b = a
      BY <1>0, <1>1, <1>2, <3>2 DEF Forward
    <3>3. CASE b # a /\ b # d
      <4>1. b \in start /\ cell'[b] = cell[b]
        BY <1>0, <1>1, <1>2, <3>3
      <4>2. /\ cell[b].ref \in start /\ cell[cell[b].ref].kind = "obj"
            /\ PageOf(cell[b].ref) \notin Ahead
        BY <2>3, <4>1 DEF KeepInv, RefInv
      <4>3. cell[b].ref # a /\ cell[b].ref # d
        BY <1>1, <4>2 DEF Ahead
      <4> QED
        BY <1>0, <1>1, <1>2, <4>1, <4>2, <4>3
    <3> QED
      BY <3>1, <3>2, <3>3
  <2>4. \A b \in Addr \ start' : cell'[b] = Zero
    BY <1>1, <1>2 DEF KeepInv, RefInv
  <2>5. pinned' \cap On(ToSet(pending')) \subseteq marked'
    BY <1>0 DEF KeepInv, RefInv, Collecting, pass, On
  <2> QED
    BY <2>1, <2>2, <2>3, <2>4, <2>5 DEF RefInv
<1> QED
  BY <1>0, <1>6, <1>7, <1>8, <1>9 DEF KeepInv

LEMMA StallKeepsRefs ==
  ASSUME KeepInv, Stall
  PROVE  KeepInv'
<1>0. /\ phase = "copy" /\ phase' = "stalled" /\ BaseInv'
      /\ UNCHANGED <<table, memory, value, clock, pass, chunk, allocs>>
      /\ fromGen' = fromGen /\ destGen' = destGen /\ Ahead' = Ahead
  BY StallKeeps DEF Stall, KeepInv, fromGen, destGen, Ahead, pass
<1>1. GenInv' /\ SnapInv' /\ AnchorInv'
  BY <1>0 DEF KeepInv, GenInv, SnapInv, AnchorInv, Collecting, table, pass
<1>2. Kept' = Kept
  BY <1>0 DEF Kept, Doomed, Moved, On, memory, pass
<1>3. RefInv'
  BY <1>0, <1>2 DEF KeepInv, RefInv, Collecting, On, memory, pass
<1> QED
  BY <1>0, <1>1, <1>3 DEF KeepInv

\* Once all that is marked in the chunk has moved, a reference the rewrite
\* visits leads to what is kept.
LEMMA TargetKept ==
  ASSUME KeepInv, Rewrite, NEW r \in Kept
  PROVE  Target(r) \in Kept \ (On(chunk) \ pinned)
<1>0. /\ ToCopy = {} /\ phase = "copy" /\ start \subseteq Addr /\ r \in start /\ r \in Addr
      /\ Kept = start \ (On(Ahead) \ (marked \cup pinned)) /\ Nil \notin Addr
  BY Addresses DEF KeepInv, BaseInv, TypeOK, Rewrite, Kept, Doomed, Moved
<1>1. CASE r \in On(chunk) \ pinned
  <2>1. r \in marked /\ PageOf(r) \in chunk
    BY <1>0, <1>1 DEF On, Ahead
  <2>2. cell[r].kind = "fwd"
    BY <1>0, <1>1, <2>1 DEF ToCopy
  <2>3. Forwarded(r)
    BY <1>0, <2>2 DEF Forwarded, KeepInv, BaseInv, StartInv
  <2>4. /\ Target(r) = cell[r].ref /\ cell[r].ref \in start /\ PageOf(cell[r].ref) \notin Ahead
    BY <1>0, <2>2, <2>3 DEF Target, KeepInv, RefInv
  <2> QED
    BY <1>0, <2>4 DEF On, Ahead
<1>2. CASE r \notin On(chunk) \ pinned
  <2>1. cell[r].kind # "fwd"
    BY <1>0, <1>2 DEF KeepInv, BaseInv, StartInv
  <2>2. Target(r) = r
    BY <2>1 DEF Target, Forwarded
  <2> QED
    BY <1>2, <2>2
<1> QED
  BY <1>1, <1>2

\* The rewrite visits every object that stays and has a reference.
LEMMA SweptAll ==
  ASSUME KeepInv, PromotesWhole, Rewrite,
         NEW a \in Kept \ (On(chunk) \ pinned), cell[a].kind = "obj", cell[a].ref # Nil
  PROVE  a \in Swept
<1>0. /\ phase = "copy" /\ a \in start /\ a \in Addr /\ PageOf(a) \in Pages
      /\ gen[PageOf(a)] \in Gens /\ fromGen \in Gens /\ destGen \in Gens
  <2>1. phase = "copy" /\ a \in start /\ a \in Addr /\ gen \in [Pages -> Gens \cup {"Free"}]
    BY DEF KeepInv, BaseInv, TypeOK, Rewrite, Kept
  <2>2. PageOf(a) \in Pages /\ gen[PageOf(a)] # "Free"
    BY <2>1, Addresses DEF KeepInv, BaseInv, StartInv
  <2> QED
    BY <2>1, <2>2, PassIs DEF KeepInv, BaseInv, Collecting
<1>1. CASE gen[PageOf(a)] = destGen
  BY <1>0, <1>1 DEF Swept, PagesIn
<1>2. CASE gen[PageOf(a)] = fromGen /\ fromGen # destGen
  <2>1. pending = <<>>
    BY <1>0, <1>2 DEF PromotesWhole
  <2>2. PageOf(a) \in Ahead
    BY <1>0, <1>2 DEF KeepInv, GenInv, Collecting
  <2>3. PageOf(a) \in chunk
    BY <2>1, <2>2 DEF Ahead, ToSet
  <2> QED
    BY <1>0, <2>3 DEF Swept, On
<1>3. CASE gen[PageOf(a)] # fromGen /\ gen[PageOf(a)] # destGen
  <2>1. gen[PageOf(a)] # "G0"
    <3>1. passes # <<>> /\ passes \in MinorTails \cup FullTails
      BY <1>0 DEF KeepInv, GenInv, BaseInv, PhaseInv, Collecting
    <3> QED
      BY <1>0, <1>3, <3>1 DEF KeepInv, GenInv
  <2>2. a \in dirty
    BY <1>0, <2>1 DEF KeepInv, BaseInv, CardInv
  <2>3. snap[PageOf(a)] = gen[PageOf(a)]
    BY <1>0, <1>3 DEF KeepInv, SnapInv, Collecting, Gens
  <2>4. a \in CardRoots(snap)
    BY <1>0, <1>3, <2>2, <2>3 DEF CardRoots, Gens
  <2> QED
    BY <1>0, <2>4 DEF Swept
<1> QED
  BY <1>0, <1>1, <1>2, <1>3

LEMMA RewriteKeepsRefs ==
  ASSUME KeepInv, PromotesWhole, Rewrite
  PROVE  KeepInv'
<1>0. /\ phase = "copy" /\ phase' = "reclaim" /\ BaseInv /\ BaseInv' /\ start \subseteq Addr
      /\ UNCHANGED <<table, start, dirty, clock, pass, chunk, allocs>>
      /\ fromGen' = fromGen /\ destGen' = destGen /\ Ahead' = Ahead
      /\ cell \in [Addr -> [kind : {"zero", "obj", "fwd"}, id : Ids \cup {0}, ref : References]]
  BY RewriteKeeps DEF Rewrite, KeepInv, BaseInv, TypeOK, fromGen, destGen, Ahead, pass
<1>1. /\ \A a \in Addr :
           /\ cell'[a].kind = cell[a].kind /\ cell'[a].id = cell[a].id
           /\ cell'[a].ref = IF a \in Swept THEN Target(cell[a].ref) ELSE cell[a].ref
      /\ \A s \in Slots : value'[s] = IF s \in RootSlots THEN Target(value[s]) ELSE value[s]
      /\ cell' \in [Addr -> [kind : {"zero", "obj", "fwd"}, id : Ids \cup {0}, ref : References]]
  BY <1>0, RewriteIs DEF BaseInv
<1>2. Kept' = Kept \ (On(chunk) \ pinned) /\ Kept \subseteq start /\ Target(Nil) = Nil
  BY <1>0 DEF Kept, Doomed, Moved, On, pass, Target, Forwarded
<1>3. GenInv' /\ SnapInv'
  BY <1>0 DEF KeepInv, GenInv, SnapInv, Collecting, table, pass
<1>4. \A s \in StackSlots : value[s] # Nil => value[s] \notin On(chunk) \ pinned
  <2>1. ASSUME NEW s \in StackSlots, value[s] # Nil, value[s] \in On(chunk)
        PROVE  value[s] \in pinned
    <3>1. value[s] \in pinned \/ (gen[PageOf(value[s])] = "Tenured" /\ passes \in MinorTails)
      BY <1>0, <2>1 DEF KeepInv, AnchorInv
    <3>2. gen[PageOf(value[s])] = fromGen
      BY <2>1 DEF On, Ahead, KeepInv, BaseInv, PageInv
    <3>3. passes # <<>> /\ passes \in MinorTails \cup FullTails
      BY <1>0 DEF KeepInv, GenInv, BaseInv, PhaseInv, Collecting
    <3> QED
      BY <3>1, <3>2, <3>3, TailsAre
  <2> QED
    BY <2>1
<1>5. \A s \in StackSlots : value'[s] = value[s]
  <2>1. \A s \in StackSlots : s \notin RootSlots
    BY PageHeapAssumption
  <2> QED
    BY <1>1, <2>1 DEF Slots
<1>6. AnchorInv'
  BY <1>0, <1>5 DEF KeepInv, AnchorInv, table, pass
<1>7. RefInv'
  <2>1. ASSUME NEW a \in Kept', cell'[a].kind = "obj"
        PROVE  cell'[a].ref \in Kept' \cup {Nil}
    <3>1. a \in Kept \ (On(chunk) \ pinned) /\ a \in Addr /\ cell[a].kind = "obj"
      BY <1>0, <1>1, <1>2, <2>1
    <3>2. cell[a].ref \in Kept \cup {Nil}
      BY <3>1 DEF KeepInv, RefInv
    <3>3. CASE cell[a].ref = Nil
      BY <1>1, <1>2, <3>1, <3>3
    <3>4. CASE cell[a].ref \in Kept /\ cell[a].ref # Nil
      <4>1. a \in Swept
        BY <3>1, <3>4, SweptAll
      <4>2. Target(cell[a].ref) \in Kept'
        BY <1>2, <3>4, TargetKept
      <4> QED
        BY <1>1, <3>1, <4>1, <4>2
    <3> QED
      BY <3>2, <3>3, <3>4
  <2>2. ASSUME NEW s \in Slots
        PROVE  value'[s] \in Kept' \cup {Nil}
    <3>1. value[s] \in Kept \cup {Nil}
      BY DEF KeepInv, RefInv
    <3>2. CASE s \in RootSlots
      BY <1>1, <1>2, <3>1, <3>2, TargetKept
    <3>3. CASE s \in StackSlots
      BY <1>2, <1>4, <1>5, <3>1, <3>3
    <3> QED
      BY <3>2, <3>3 DEF Slots
  <2>3. ASSUME NEW b \in start', cell'[b].kind = "fwd"
        PROVE  /\ cell'[b].ref \in start' /\ cell'[cell'[b].ref].kind = "obj"
               /\ PageOf(cell'[b].ref) \notin Ahead'
    <3>1. b \in start /\ b \in Addr /\ cell[b].kind = "fwd" /\ b \notin Swept
      BY <1>0, <1>1, <2>3 DEF Swept
    <3>2. /\ cell[b].ref \in start /\ cell[cell[b].ref].kind = "obj"
          /\ PageOf(cell[b].ref) \notin Ahead
      BY <3>1 DEF KeepInv, RefInv
    <3> QED
      BY <1>0, <1>1, <3>1, <3>2
  <2>4. ASSUME NEW b \in Addr \ start'
        PROVE  cell'[b] = Zero
    <3>1. b \in Addr \ start /\ b \notin Swept
      BY <1>0 DEF Swept
    <3>2. cell' = [a \in Addr |->
                     IF a \in Swept THEN [cell[a] EXCEPT !.ref = Target(@)] ELSE cell[a]]
      BY DEF Rewrite
    <3> QED
      BY <3>1, <3>2 DEF KeepInv, RefInv
  <2>5. pinned' \cap On(ToSet(pending')) \subseteq marked'
    BY <1>0 DEF KeepInv, RefInv, Collecting, pass, On
  <2> QED
    BY <2>1, <2>2, <2>3, <2>4, <2>5 DEF RefInv
<1> QED
  BY <1>0, <1>3, <1>6, <1>7 DEF KeepInv

LEMMA ReclaimKeepsRefs ==
  ASSUME KeepInv, Reclaim
  PROVE  KeepInv'
<1>0. /\ phase = "reclaim" /\ phase' = "chunk" /\ BaseInv /\ BaseInv' /\ chunk' = {}
      /\ start \subseteq Addr /\ chunk \subseteq Pages
      /\ start' = start \ (On(chunk) \ pinned)
      /\ UNCHANGED <<region, value, clock, pass, allocs>>
      /\ fromGen' = fromGen /\ destGen' = destGen
      /\ passes # <<>> /\ passes \in MinorTails \cup FullTails
      /\ ToSet(pending) \cap chunk = {} /\ Ahead' = ToSet(pending) /\ pending' = pending
  BY ReclaimKeeps DEF Reclaim, KeepInv, GenInv, BaseInv, TypeOK, PhaseInv, PageInv, Collecting,
     fromGen, destGen, Ahead, pass
<1>1. \A p \in Pages : /\ p \in chunk => gen[p] = fromGen /\ gen'[p] \in {destGen, "Free"}
                       /\ p \notin chunk => gen'[p] = gen[p]
  <2>1. gen' = [p \in Pages |-> CASE p \in Flipped -> destGen
                                  [] p \in Released -> "Free" [] OTHER -> gen[p]]
    BY DEF Reclaim
  <2>2. Flipped \cup Released = chunk /\ Flipped \cap Released = {}
    BY DEF Flipped, Released
  <2>3. \A p \in chunk : gen[p] = fromGen
    BY DEF Ahead, KeepInv, BaseInv, PageInv
  <2> QED
    BY <2>1, <2>2, <2>3
<1>2. \A a \in Addr : cell'[a] = IF a \in On(chunk) \ pinned THEN Zero ELSE cell[a]
  BY DEF Reclaim
<1>3. /\ fromGen # "G0" => destGen # "G0"
      /\ fromGen = "Tenured" => destGen = "Tenured"
      /\ passes \in MinorTails => fromGen # "Tenured"
  BY <1>0, TailsAre
<1>4. Kept' = Kept
  <2>1. Kept = start \ ((On(ToSet(pending) \cup chunk) \ (marked \cup pinned)) \cup (On(chunk) \ pinned))
    BY <1>0 DEF Kept, Doomed, Moved, Ahead
  <2>2. Kept' = start' \ (On(ToSet(pending)) \ (marked \cup pinned))
    BY <1>0 DEF Kept, Doomed, Moved, On, pass
  <2> QED
    BY <1>0, <2>1, <2>2 DEF On
<1>5. GenInv'
  <2>1. "Free" # "G0" /\ "Free" # "G1" /\ fromGen \in Gens
    BY <1>0, HeadPassIs DEF BaseInv
  <2> QED
    BY <1>0, <1>1, <1>3, <2>1 DEF KeepInv, GenInv, Collecting, Ahead, pass, Gens
<1>6. SnapInv'
  BY <1>0, <1>1 DEF KeepInv, SnapInv, Collecting, pass
<1>7. AnchorInv'
  <2>1. ASSUME NEW s \in StackSlots, value[s] # Nil, gen[PageOf(value[s])] = "Tenured",
               passes \in MinorTails
        PROVE  gen'[PageOf(value[s])] = "Tenured"
    <3>1. value[s] \in start
      BY <2>1 DEF KeepInv, RefInv, Kept, Slots
    <3>2. PageOf(value[s]) \in Pages
      BY <1>0, <3>1, Addresses
    <3> QED
      BY <1>1, <1>3, <2>1, <3>2
  <2> QED
    BY <1>0, <2>1 DEF KeepInv, AnchorInv, pass
<1>8. RefInv'
  <2>1. \A a \in Kept : a \in Addr /\ cell'[a] = cell[a]
    BY <1>0, <1>2 DEF Kept, Moved
  <2>2. \A a \in Addr : cell'[a].kind # "fwd"
    BY <1>2 DEF KeepInv, BaseInv, StartInv, Zero
  <2>3. \A a \in Addr \ start' : cell'[a] = Zero
    BY <1>0, <1>2 DEF KeepInv, RefInv
  <2>4. pinned' \cap On(ToSet(pending')) \subseteq marked'
    BY <1>0 DEF KeepInv, RefInv, Collecting, pass, On
  <2> QED
    BY <1>0, <1>4, <2>1, <2>2, <2>3, <2>4 DEF KeepInv, RefInv
<1> QED
  BY <1>0, <1>5, <1>6, <1>7, <1>8 DEF KeepInv

LEMMA EndPassKeepsRefs ==
  ASSUME KeepInv, EndPass
  PROVE  KeepInv'
<1>0. /\ phase = "chunk" /\ phase' = "pass" /\ pending = <<>> /\ chunk = {} /\ passes # <<>>
      /\ passes' = Tail(passes) /\ passes \in MinorTails \cup FullTails
      /\ BaseInv /\ BaseInv' /\ fromGen \in Gens /\ destGen \in Gens
      /\ UNCHANGED <<table, memory, value, clock, snap, pinned, pending, chunk, allocs>>
  BY EndPassKeeps, HeadPassIs
     DEF EndPass, KeepInv, GenInv, BaseInv, PhaseInv, Collecting
<1>1. Ahead = {} /\ Ahead' = {}
  BY <1>0 DEF Ahead, ToSet
<1>2. /\ <<fromGen, destGen, Head(passes).scan>> \in
              {<<"G0", "G0", "driven">>, <<"G0", "G1", "driven">>, <<"G1", "Tenured", "driven">>,
               <<"G0", "G1", "now">>, <<"G1", "Tenured", "now">>, <<"Tenured", "Tenured", "none">>}
      /\ passes' \in MinorTails \cup FullTails
      /\ passes \in MinorTails => passes' \in MinorTails
      /\ passes' # <<>> =>
           /\ fromGen' = destGen /\ fromGen # destGen
           /\ Head(passes').scan \in {"driven", "now", "none"}
           /\ Head(passes').scan = "driven" => destGen = "G1"
           /\ Head(passes').scan = "none" => destGen = "Tenured"
  BY <1>0, TailsAre DEF fromGen
<1>3. fromGen # destGen => \A p \in Pages : gen[p] # fromGen
  BY <1>0, <1>1 DEF KeepInv, GenInv, Collecting
<1>4. passes' # <<>> =>
        /\ \/ fromGen = "G0" /\ destGen = "G1"
           \/ fromGen = "G1" /\ destGen = "Tenured"
        /\ fromGen # "G0" => \A p \in Pages : gen[p] # "G0"
  BY <1>0, <1>2 DEF KeepInv, GenInv
<1>5. GenInv'
  BY <1>0, <1>2, <1>3, <1>4 DEF GenInv, Collecting, table
<1>6. SnapInv'
  <2>1. ASSUME passes' # <<>>, NEW p \in Pages, gen[p] \notin {"Free", destGen}
        PROVE  ScanGens'[p] = gen[p]
    <3>1. gen[p] # fromGen /\ gen[p] \in Gens
      BY <1>0, <1>2, <1>3, <2>1 DEF BaseInv, TypeOK
    <3>2. snap[p] = gen[p]
      BY <1>0, <2>1, <3>1 DEF KeepInv, SnapInv, Collecting
    <3>3. CASE Head(passes').scan = "driven"
      BY <1>0, <3>2, <3>3 DEF ScanGens
    <3>4. CASE Head(passes').scan = "now"
      BY <1>0, <3>4 DEF ScanGens, table
    <3>5. CASE Head(passes').scan = "none"
      BY <1>2, <1>4, <2>1, <3>1, <3>5 DEF Gens
    <3> QED
      BY <1>2, <2>1, <3>3, <3>4, <3>5
  <2> QED
    BY <1>0, <1>2, <2>1 DEF SnapInv, Collecting, table
<1>7. AnchorInv'
  BY <1>0, <1>2 DEF KeepInv, AnchorInv, table
<1>8. Kept' = Kept
  BY <1>0, <1>1 DEF Kept, Doomed, Moved, On, memory
<1>9. RefInv'
  BY <1>0, <1>1, <1>8 DEF KeepInv, RefInv, Collecting, memory
<1> QED
  BY <1>0, <1>5, <1>6, <1>7, <1>9 DEF KeepInv

LEMMA FinishKeepsRefs ==
  ASSUME KeepInv, Finish
  PROVE  KeepInv'
<1>0. /\ phase = "pass" /\ phase' = "run" /\ BaseInv /\ BaseInv' /\ chunk = {} /\ Kept = start
      /\ pending = <<>> /\ start \subseteq Addr
      /\ UNCHANGED <<table, start, cell, value, clock, passes, marked, pending, chunk, allocs>>
  BY FinishKeeps, KeptIs DEF Finish, KeepInv, BaseInv, PhaseInv, TypeOK, Collecting
<1>1. Ahead' = {}
  BY <1>0 DEF Ahead, ToSet
<1> QED
  BY <1>0, <1>1, RunKeeps DEF KeepInv, RefInv

-----------------------------------------------------------------------------
(* The collections keep what the program has.                              *)

LEMMA KeepKept ==
  ASSUME KeepInv, PromotesWhole, "major" \notin Kinds, [Next]_vars
  PROVE  KeepInv'
<1>0. /\ RootSlots \subseteq Slots
      /\ phase = "run" => /\ \A s \in Slots : value[s] \in start \cup {Nil}
                          /\ \A a \in start : cell[a].ref \in start \cup {Nil}
  BY RunIs DEF Slots
<1>1. ASSUME NEW s \in RootSlots, NEW t \in Slots, AllocCons(s, t)
      PROVE  KeepInv'
  BY <1>1, AllocKeepsRefs
<1>2. ASSUME NEW s \in Slots, NEW t \in Slots, Cdr(s, t)
      PROVE  KeepInv'
  <2>1. value[t] \in start /\ cell[value[t]].ref \in start \cup {Nil}
    BY <1>0, <1>2 DEF Cdr, SetSlot
  <2> QED
    BY <1>2, <2>1, SetSlotKeepsRefs DEF Cdr
<1>3. ASSUME NEW s \in Slots, NEW t \in Slots, Rplacd(s, t)
      PROVE  KeepInv'
  BY <1>3, RplacdKeepsRefs
<1>4. ASSUME NEW s \in Slots, NEW t \in Slots, Move(s, t)
      PROVE  KeepInv'
  <2>1. value[t] \in start \cup {Nil}
    BY <1>0, <1>4 DEF Move, SetSlot
  <2> QED
    BY <1>4, <2>1, SetSlotKeepsRefs DEF Move
<1>5. ASSUME NEW s \in Slots, Clear(s)
      PROVE  KeepInv'
  BY <1>5, SetSlotKeepsRefs DEF Clear
<1>6. CASE Drive
  BY <1>6, CollectKeepsRefs DEF Drive
<1>7. CASE Collector
  BY <1>7, BeginPassKeepsRefs, TakeChunkKeepsRefs, CopyKeepsRefs, StallKeepsRefs,
     RewriteKeepsRefs, ReclaimKeepsRefs, EndPassKeepsRefs, FinishKeepsRefs DEF Collector
<1>8. CASE UNCHANGED vars
  BY <1>8, IdleKeepsRefs
<1> QED
  BY <1>0, <1>1, <1>2, <1>3, <1>4, <1>5, <1>6, <1>7, <1>8 DEF Next, Mutate

\* Under the two premises nothing the program can still reach is lost.
LEMMA KeepInvariance ==
  ASSUME "major" \notin Kinds
  PROVE  Spec /\ []PromotesWhole => []KeepInv
<1>1. KeepInv /\ PromotesWhole /\ [Next]_vars => KeepInv'
  BY KeepKept
<1> QED
  BY <1>1, KeepAtFirst, PTL DEF Spec

\* A set of objects that nothing in it or in the slots leads out of holds all
\* that the slots reach.
LEMMA ReachedIs ==
  ASSUME NEW K \in SUBSET Addr, Nil \notin K,
         \A s \in Slots : Final(value[s]) \in K \cup {Nil},
         \A a \in K : Final(cell[a].ref) \in K \cup {Nil}
  PROVE  Reached \subseteq K
<1> DEFINE Heads == {Final(value[s]) : s \in Slots} \ {Nil}
           Rest  == {Final(r) : r \in {cell[a].ref : a \in Addr}} \ (Heads \cup {Nil})
           Stays(U) == \A a \in Heads \cup U : Final(cell[a].ref) \in Heads \cup U \cup {Nil}
           Sets  == {U \in SUBSET Rest : Stays(U)}
           U0 == Rest \cap K
<1>1. Heads \subseteq K
  OBVIOUS
<1>2. ASSUME NEW a \in Heads \cup U0
      PROVE  Final(cell[a].ref) \in Heads \cup U0 \cup {Nil}
  <2>1. a \in K /\ a \in Addr
    BY <1>1
  <2>2. Final(cell[a].ref) \in K \cup {Nil}
    BY <2>1
  <2>3. Final(cell[a].ref) \in {Final(r) : r \in {cell[b].ref : b \in Addr}}
    BY <2>1
  <2> QED
    BY <2>2, <2>3
<1>3. U0 \in Sets
  BY <1>2
<1>4. Reached = Heads \cup {a \in Rest : \A U \in Sets : a \in U}
  BY DEF Reached
<1> QED
  BY <1>1, <1>3, <1>4

\* A list of pages without repetition that is as long as P is large, and is of
\* pages of P only, lists all of P.
LEMMA AllListed ==
  ASSUME NEW s \in Seq(Pages), IsInjective(s), NEW P \in SUBSET Pages,
         ToSet(s) \subseteq P, Len(s) = Cardinality(P)
  PROVE  ToSet(s) = P
<1>1. Len(s) \in Nat /\ DOMAIN s = 1..Len(s) /\ s \in [1..Len(s) -> Pages]
  BY LenProperties
<1>2. s \in [1..Len(s) -> P]
  BY <1>1 DEF ToSet
<1>3. s \in Injection(1..Len(s), P)
  BY <1>1, <1>2 DEF IsInjective, Injection
<1>4. IsFiniteSet(P) /\ IsFiniteSet(1..Len(s)) /\ Cardinality(1..Len(s)) = Len(s)
  <2>1. IsFiniteSet(P)
    BY FinitePages
  <2>2. 1 \in Int /\ Len(s) \in Int
    BY <1>1
  <2>3. Cardinality(1..Len(s)) = IF 1 > Len(s) THEN 0 ELSE Len(s) - 1 + 1
    BY <2>2, FS_Interval
  <2>4. IsFiniteSet(1..Len(s))
    BY <2>2, FS_Interval
  <2> QED
    BY <1>1, <2>1, <2>3, <2>4
<1>5. s \in Surjection(1..Len(s), P)
  BY <1>3, <1>4, FS_Injection
<1> QED
  BY <1>1, <1>2, <1>5 DEF Surjection, ToSet

\* The free list holds the free pages, each once, whatever the collections do.
\* An open page belongs to its generation (alloc.rs, release_page).
THEOREM FreeListExact ==
  Spec => [](/\ ToSet(freeList) = PagesIn("Free") /\ IsInjective(freeList)
             /\ \A g \in Gens : region[g].page # Nil => gen[region[g].page] = g)
<1>1. BaseInv => /\ ToSet(freeList) = PagesIn("Free") /\ IsInjective(freeList)
                 /\ \A g \in Gens : region[g].page # Nil => gen[region[g].page] = g
  BY DEF BaseInv, PageInv
<1> QED
  BY <1>1, HeapInvariance, PTL

\* A released page has lost its start bits and every word of it is wiped, so a
\* stale word of the stack finds nothing on it (cycle.rs phase 3), and no live
\* reference lets the program write to it.
THEOREM FreePagesBlank ==
  ASSUME "major" \notin Kinds
  PROVE  Spec /\ []PromotesWhole => []FreePagesExact
<1>1. KeepInv => FreePagesExact
  <2>1. ASSUME KeepInv, NEW a \in On(PagesIn("Free"))
        PROVE  a \notin start /\ cell[a] = Zero
    <3>1. a \in Addr /\ gen[PageOf(a)] = "Free"
      BY <2>1 DEF On, PagesIn
    <3>2. a \notin start
      BY <2>1, <3>1 DEF KeepInv, BaseInv, StartInv
    <3> QED
      BY <2>1, <3>1, <3>2 DEF KeepInv, RefInv
  <2>2. BaseInv => /\ ToSet(freeList) = PagesIn("Free") /\ IsInjective(freeList)
                   /\ \A g \in Gens : region[g].page # Nil => gen[region[g].page] = g
    BY DEF BaseInv, PageInv
  <2> QED
    BY <2>1, <2>2 DEF KeepInv, FreePagesExact
<1> QED
  BY <1>1, KeepInvariance, PTL

\* Between collections every object, dead or alive, refers to objects: a dead
\* word of the stack may keep it at the next collection (pin_pointers_in_ranges).
THEOREM HeapIsClosed ==
  ASSUME "major" \notin Kinds
  PROVE  Spec /\ []PromotesWhole => []HeapClosed
<1>1. KeepInv => HeapClosed
  <2>1. ASSUME KeepInv, phase = "run", NEW a \in start
        PROVE  /\ cell[a].kind = "obj"
               /\ cell[a].ref # Nil => Resident(cell[a].ref)
    BY <2>1, RunIs DEF Resident
  <2> QED
    BY <2>1 DEF HeapClosed
<1> QED
  BY <1>1, KeepInvariance, PTL

\* When the first chunk of a pass is taken, every object of its generation that
\* the slots reach is marked: from precise roots, from what is pinned, or from
\* an older object by its dirty card (I-1 of GC_CHUNKED_INVARIANTS.md).
THEOREM MarksComplete ==
  ASSUME "major" \notin Kinds
  PROVE  Spec /\ []PromotesWhole => []MarkComplete
<1>1. KeepInv => MarkComplete
  <2>1. SUFFICES ASSUME KeepInv, phase = "chunk", Len(pending) = Cardinality(PagesIn(fromGen))
                 PROVE  Reached \cap On(PagesIn(fromGen)) \subseteq marked
    BY DEF MarkComplete
  <2>2. /\ BaseInv /\ RefInv /\ chunk = {} /\ pending \in Seq(Pages) /\ IsInjective(pending)
        /\ start \subseteq Addr /\ Nil \notin Addr
    BY <2>1, Addresses DEF KeepInv, BaseInv, TypeOK, PhaseInv, PageInv
  <2>3. Ahead = ToSet(pending) /\ PagesIn(fromGen) \subseteq Pages
    BY <2>2 DEF Ahead, PagesIn
  <2>4. ToSet(pending) \subseteq PagesIn(fromGen)
    <3>1. ToSet(pending) \subseteq Pages
      BY <2>2, LenProperties, ElementOfSeq DEF ToSet
    <3> QED
      BY <2>2, <2>3, <3>1 DEF BaseInv, PageInv, PagesIn
  <2>5. ToSet(pending) = PagesIn(fromGen)
    BY <2>1, <2>2, <2>3, <2>4, AllListed
  <2>6. /\ Kept = start \ (On(PagesIn(fromGen)) \ (marked \cup pinned))
        /\ pinned \cap On(PagesIn(fromGen)) \subseteq marked
    BY <2>1, <2>2, <2>3, <2>5 DEF Kept, Doomed, Moved, RefInv, Collecting
  <2>7. \A r \in start : cell[r].kind = "obj"
    BY <2>2 DEF BaseInv, StartInv, TypeOK, On
  <2>8. Reached \subseteq Kept
    <3>1. Kept \in SUBSET Addr /\ Nil \notin Kept /\ Kept \subseteq start
      BY <2>2, <2>6
    <3>2. \A r : Final(r) = r
      BY <2>7 DEF Final
    <3>3. \A s \in Slots : Final(value[s]) \in Kept \cup {Nil}
      BY <2>2, <3>2 DEF RefInv
    <3>4. \A a \in Kept : Final(cell[a].ref) \in Kept \cup {Nil}
      BY <2>2, <2>7, <3>1, <3>2 DEF RefInv
    <3> QED
      BY <3>1, <3>3, <3>4, ReachedIs
  <2> QED
    BY <2>6, <2>8
<1> QED
  BY <1>1, KeepInvariance, PTL

\* Once the references to a chunk are rewritten nothing the program can reach
\* refers to a slot of its pages, a pinned object excepted: what is released
\* or wiped next is missed by nobody (I-3 of GC_CHUNKED_INVARIANTS.md).
THEOREM ChunksUnreferenced ==
  ASSUME "major" \notin Kinds
  PROVE  Spec /\ []PromotesWhole => []ChunkUnreferenced
<1>1. KeepInv => ChunkUnreferenced
  <2>1. SUFFICES ASSUME KeepInv, phase = "reclaim",
                        NEW r \in {value[s] : s \in Slots} \cup {cell[a].ref : a \in Reached},
                        r \in On(chunk)
                 PROVE  r \in pinned
    BY DEF ChunkUnreferenced
  <2>2. /\ BaseInv /\ RefInv /\ start \subseteq Addr /\ Nil \notin Addr
        /\ Kept = start \ (Doomed \cup (On(chunk) \ pinned)) /\ On(chunk) \subseteq Addr
    BY <2>1, Addresses DEF KeepInv, BaseInv, TypeOK, Kept, Moved, On
  <2>3. \A a \in Kept : cell[a].kind = "obj"
    BY <2>2 DEF BaseInv, StartInv, TypeOK
  <2>4. Reached \subseteq Kept
    <3>1. Kept \in SUBSET Addr /\ Nil \notin Kept
      BY <2>2
    <3>2. \A q \in Kept \cup {Nil} : Final(q) = q
      BY <2>2, <2>3 DEF Final
    <3>3. \A s \in Slots : Final(value[s]) \in Kept \cup {Nil}
      BY <2>2, <3>2 DEF RefInv
    <3>4. \A a \in Kept : Final(cell[a].ref) \in Kept \cup {Nil}
      BY <2>2, <2>3, <3>2 DEF RefInv
    <3> QED
      BY <3>1, <3>3, <3>4, ReachedIs
  <2>5. r \in Kept \cup {Nil}
    BY <2>2, <2>3, <2>4 DEF RefInv
  <2> QED
    BY <2>1, <2>2, <2>5
<1> QED
  BY <1>1, KeepInvariance, PTL

-----------------------------------------------------------------------------
(* Identities.                                                             *)

\* What is not blank has an identity, and no two objects have the same.
IdentInv ==
  /\ \A a \in Addr : cell[a].kind # "zero" => cell[a].id \in Ids
  /\ \A a, b \in start :
       cell[a].kind = "obj" /\ cell[b].kind = "obj" /\ cell[a].id = cell[b].id => a = b

\* What an allocation does to the memory.
LEMMA AllocIs ==
  ASSUME BaseInv, NEW s \in RootSlots, NEW t \in Slots, AllocCons(s, t)
  PROVE  \E a \in Addr \ start, i \in Ids :
           /\ start' = start \cup {a} /\ value' = [value EXCEPT ![s] = a]
           /\ cell' = [cell EXCEPT ![a] = Object(i, value[t])]
           /\ \A b \in start : cell[b].id # i
<1> DEFINE a == Place("G0")
           i == CHOOSE j \in Ids : \A b \in start : cell[b].id # j
           c == [cell EXCEPT ![a] = Object(i, value[t])]
<1>1. /\ Take("G0", a, c, start) /\ CanPlace("G0") /\ "G0" \in Gens
      /\ value' = [value EXCEPT ![s] = a] /\ allocs < MaxAllocs
  BY DEF AllocCons, Gens
<1>2. i \in Ids /\ \A b \in start : cell[b].id # i
  BY <1>1, FreshId DEF BaseInv
<1> HIDE DEF i
<1>3. a \in Addr \ start /\ start' = start \cup {a} /\ cell' = c
  <2>1. a = Place("G0")
    OBVIOUS
  <2> HIDE DEF a, c
  <2> QED
    BY <1>1, <2>1, TakeIs DEF BaseInv
<1> QED
  BY <1>1, <1>2, <1>3

\* A step that gives nothing a new identity keeps them distinct.
LEMMA IdentShrinks ==
  ASSUME BaseInv, IdentInv, start' \subseteq start,
         \A a \in Addr : \/ cell'[a].kind = "zero"
                         \/ cell'[a].kind = cell[a].kind /\ cell'[a].id = cell[a].id
  PROVE  IdentInv'
<1>1. start \subseteq Addr /\ start' \subseteq Addr
  BY DEF BaseInv, TypeOK
<1>2. \A a \in Addr : cell'[a].kind # "zero" => cell'[a].id \in Ids
  BY DEF IdentInv
<1>3. \A a, b \in start' :
        cell'[a].kind = "obj" /\ cell'[b].kind = "obj" /\ cell'[a].id = cell'[b].id => a = b
  BY <1>1 DEF IdentInv
<1> QED
  BY <1>2, <1>3 DEF IdentInv, Addr, Pages, Ids

LEMMA IdentAtFirst == Init => IdentInv
BY DEF Init, IdentInv, Zero

LEMMA IdentKept ==
  ASSUME BaseInv, IdentInv, [Next]_vars
  PROVE  IdentInv'
<1>0. /\ cell \in [Addr -> [kind : {"zero", "obj", "fwd"}, id : Ids \cup {0}, ref : References]]
      /\ start \subseteq Addr
  BY DEF BaseInv, TypeOK
<1>1. ASSUME NEW s \in RootSlots, NEW t \in Slots, AllocCons(s, t)
      PROVE  IdentInv'
  <2>1. PICK a \in Addr \ start, i \in Ids :
          /\ start' = start \cup {a} /\ cell' = [cell EXCEPT ![a] = Object(i, value[t])]
          /\ \A b \in start : cell[b].id # i
    BY <1>1, AllocIs
  <2>2. Object(i, value[t]).id = i
    BY DEF Object
  <2>3. cell'[a].id = i /\ \A b \in Addr : b # a => cell'[b] = cell[b]
    BY <1>0, <2>1, <2>2
  <2> QED
    BY <1>0, <2>1, <2>3 DEF IdentInv
<1>2. ASSUME NEW s \in Slots, NEW t \in Slots, Rplacd(s, t)
      PROVE  IdentInv'
  <2>1. start' = start /\ cell' = [cell EXCEPT ![value[s]].ref = value[t]]
    BY <1>2 DEF Rplacd
  <2>2. \A a \in Addr : cell'[a].kind = cell[a].kind /\ cell'[a].id = cell[a].id
    BY <1>0, <2>1
  <2> QED
    BY <2>1, <2>2, IdentShrinks
<1>3. CASE CopyObject
  <2>1. PICK a \in ToCopy, d \in Addr \ start :
          /\ a \in start /\ cell[a].kind = "obj"
          /\ start' = start \cup {d}
          /\ cell' = [cell EXCEPT ![d] = cell[a], ![a] = Forward(cell[a].id, d)]
    BY <1>3, CopyIs
  <2>2. Forward(cell[a].id, d).id = cell[a].id /\ Forward(cell[a].id, d).kind = "fwd"
    BY DEF Forward
  <2>3. /\ cell'[d] = cell[a] /\ cell'[a].id = cell[a].id /\ cell'[a].kind = "fwd"
        /\ \A b \in Addr : b # a /\ b # d => cell'[b] = cell[b]
    BY <1>0, <2>1, <2>2
  <2> QED
    BY <1>0, <2>1, <2>3 DEF IdentInv
<1>4. CASE Rewrite
  <2>1. /\ start' = start
        /\ cell' = [a \in Addr |->
                      IF a \in Swept THEN [cell[a] EXCEPT !.ref = Target(@)] ELSE cell[a]]
    BY <1>4 DEF Rewrite
  <2>2. \A a \in Addr : cell'[a].kind = cell[a].kind /\ cell'[a].id = cell[a].id
    BY <1>0, <2>1
  <2> QED
    BY <2>1, <2>2, IdentShrinks
<1>5. CASE Reclaim
  <2>1. /\ start' = start \ (On(chunk) \ pinned)
        /\ cell' = [a \in Addr |-> IF a \in On(chunk) \ pinned THEN Zero ELSE cell[a]]
    BY <1>5 DEF Reclaim
  <2>2. \A a \in Addr : cell'[a].kind = "zero" \/ cell'[a] = cell[a]
    BY <2>1 DEF Zero
  <2> QED
    BY <2>1, <2>2, IdentShrinks
<1>6. CASE start' = start /\ cell' = cell
  BY <1>6, IdentShrinks
<1>7. ASSUME NEW s \in Slots, NEW t \in Slots, Cdr(s, t) \/ Move(s, t) \/ Clear(s)
      PROVE  start' = start /\ cell' = cell
  BY <1>7 DEF Cdr, Move, Clear, SetSlot, memory
<1>8. Drive \/ BeginPass \/ TakeChunk \/ Stall \/ EndPass \/ Finish \/ UNCHANGED vars
        => start' = start /\ cell' = cell
  BY DEF Drive, Collect, BeginPass, TakeChunk, Stall, EndPass, Finish, vars, memory
<1> QED
  BY <1>1, <1>2, <1>3, <1>4, <1>5, <1>6, <1>7, <1>8 DEF Next, Mutate, Collector, Slots

-----------------------------------------------------------------------------
(* The graph the program sees.                                             *)

\* What the slots reach: it starts at the slots, it is left by no reference, and
\* it is the least such set.
ReachFacts ==
  /\ Nil \notin Reached
  /\ \A s \in Slots : Final(value[s]) \in Reached \cup {Nil}
  /\ \A a \in Addr \cap Reached : Final(cell[a].ref) \in Reached \cup {Nil}
  /\ \A K \in SUBSET Addr :
       /\ Nil \notin K /\ \A s \in Slots : Final(value[s]) \in K \cup {Nil}
       /\ \A a \in K : Final(cell[a].ref) \in K \cup {Nil}
       => Reached \subseteq K

LEMMA ReachedHas == ReachFacts
<1> DEFINE Heads == {Final(value[s]) : s \in Slots} \ {Nil}
           Rest  == {Final(r) : r \in {cell[a].ref : a \in Addr}} \ (Heads \cup {Nil})
           Stays(U) == \A a \in Heads \cup U : Final(cell[a].ref) \in Heads \cup U \cup {Nil}
           Sets  == {U \in SUBSET Rest : Stays(U)}
<1>1. Reached = Heads \cup {a \in Rest : \A U \in Sets : a \in U}
  BY DEF Reached
<1>2. Nil \notin Reached /\ \A s \in Slots : Final(value[s]) \in Reached \cup {Nil}
  BY <1>1
<1>3. ASSUME NEW a \in Addr \cap Reached, Final(cell[a].ref) \notin Heads \cup {Nil}
      PROVE  Final(cell[a].ref) \in Reached
  <2>1. Final(cell[a].ref) \in Rest
    BY <1>3
  <2>2. ASSUME NEW U \in Sets
        PROVE  Final(cell[a].ref) \in U
    BY <1>1, <1>3, <2>2
  <2> QED
    BY <1>1, <2>1, <2>2
<1>4. \A a \in Addr \cap Reached : Final(cell[a].ref) \in Reached \cup {Nil}
  BY <1>1, <1>3
<1> HIDE DEF Heads, Rest, Sets
<1>5. \A K \in SUBSET Addr :
        /\ Nil \notin K /\ \A s \in Slots : Final(value[s]) \in K \cup {Nil}
        /\ \A a \in K : Final(cell[a].ref) \in K \cup {Nil}
        => Reached \subseteq K
  BY ReachedIs
<1> QED
  BY <1>2, <1>4, <1>5 DEF ReachFacts

\* The identity a final reference stands for, and what the objects R link.
Id(r) == IF r = Nil THEN Nil ELSE cell[r].id
LinksOf(R) == {<<cell[a].id, Id(Final(cell[a].ref))>> : a \in R}

\* The graph as LispGraph has it.
HeadNow  == [s \in Slots |-> Shown(s)]
LinksNow == {<<cell[a].id, Denotes(Final(cell[a].ref))>> : a \in Reached \cap Objects}

\* The objects that are kept, where they stand now.
Standing == {a \in Kept : cell[a].kind = "obj"}

\* A reference to what is kept leads to where it stands.
LEMMA FinalStands ==
  ASSUME KeepInv, NEW r \in Kept \cup {Nil}
  PROVE  /\ Final(r) \in Standing \cup {Nil} /\ Nil \notin Standing /\ Standing \subseteq Addr
         /\ r = Nil <=> Final(r) = Nil
         /\ \A a \in Standing : Final(a) = a
<1>0. /\ start \subseteq Addr /\ Nil \notin Addr /\ Kept \subseteq start /\ chunk \subseteq Ahead
  BY Addresses, KeptIs DEF KeepInv, BaseInv, TypeOK, Ahead
<1>1. CASE r = Nil
  BY <1>0, <1>1 DEF Final, Standing
<1>2. CASE r \in Kept /\ cell[r].kind # "fwd"
  <2>1. cell[r].kind = "obj"
    BY <1>0, <1>2 DEF KeepInv, BaseInv, StartInv, TypeOK
  <2> QED
    BY <1>0, <1>2, <2>1 DEF Final, Standing
<1>3. CASE r \in Kept /\ cell[r].kind = "fwd"
  <2>1. /\ Final(r) = cell[r].ref /\ cell[r].ref \in start /\ cell[cell[r].ref].kind = "obj"
        /\ PageOf(cell[r].ref) \notin Ahead
    BY <1>0, <1>3 DEF Final, KeepInv, RefInv
  <2>2. cell[r].ref \in Kept
    BY <1>0, <2>1 DEF Kept, Doomed, Moved, On
  <2> QED
    BY <1>0, <1>3, <2>1, <2>2 DEF Standing, Final
<1> QED
  BY <1>1, <1>2, <1>3

\* Everything the program reaches is kept, and its slots denote objects where
\* they stand, the words of the stack included.
GraphFacts ==
  /\ Reached \subseteq Standing
  /\ HeadNow = [s \in Slots |-> Id(Final(value[s]))]
  /\ LinksNow = LinksOf(Reached)

LEMMA GraphIs == KeepInv => GraphFacts
<1> SUFFICES ASSUME KeepInv
             PROVE  GraphFacts
  OBVIOUS
<1>0. /\ Standing \subseteq Addr /\ Nil \notin Standing /\ Standing \subseteq Kept
      /\ Kept \subseteq start
      /\ \A r \in Kept \cup {Nil} : Final(r) \in Standing \cup {Nil}
  BY FinalStands, KeptIs DEF Standing
<1>1. /\ \A s \in Slots : value[s] \in Kept \cup {Nil}
      /\ \A a \in Standing : cell[a].ref \in Kept \cup {Nil}
  BY DEF KeepInv, RefInv, Standing
<1>2. Reached \subseteq Standing
  BY <1>0, <1>1, ReachedIs
<1>3. \A r \in Standing \cup {Nil} : Denotes(r) = Id(r)
  BY <1>0 DEF Denotes, Id, Resident, Standing
<1>4. ASSUME NEW s \in Slots
      PROVE  Shown(s) = Id(Final(value[s]))
  <2>1. CASE s \notin StackSlots
    BY <1>0, <1>1, <1>3, <2>1 DEF Shown
  <2>2. CASE s \in StackSlots
    <3>1. CASE value[s] = Nil
      <4>1. Final(value[s]) = value[s]
        BY <3>1, Addresses DEF Final, KeepInv, BaseInv, TypeOK
      <4> QED
        BY <1>3, <2>2, <3>1, <4>1 DEF Shown
    <3>2. CASE value[s] # Nil
      <4>1. value[s] \in Kept /\ value[s] \in start /\ start \subseteq Addr
        BY <1>0, <1>1, <3>2 DEF KeepInv, BaseInv, TypeOK
      <4>2. cell[value[s]].kind # "fwd"
        <5>1. CASE phase = "run"
          BY <1>1, <4>1, <5>1, RunIs
        <5>2. CASE value[s] \in pinned
          BY <4>1, <5>2 DEF KeepInv, BaseInv, StartInv
        <5>3. CASE phase # "run" /\ gen[PageOf(value[s])] = "Tenured" /\ passes \in MinorTails
          <6>1. ASSUME cell[value[s]].kind = "fwd"
                PROVE  FALSE
            <7>1. PageOf(value[s]) \in chunk
              BY <4>1, <6>1 DEF KeepInv, BaseInv, StartInv, On
            <7>2. gen[PageOf(value[s])] = fromGen /\ phase \in Collecting
              BY <7>1, PassIs DEF KeepInv, BaseInv, PageInv, Ahead
            <7>3. passes # <<>>
              BY <7>2 DEF KeepInv, BaseInv, PhaseInv
            <7> QED
              BY <5>3, <7>2, <7>3, TailsAre
          <6> QED
            BY <6>1
        <5> QED
          BY <2>2, <3>2, <5>1, <5>2, <5>3 DEF KeepInv, AnchorInv
      <4>3. value[s] \in Standing
        BY <4>1, <4>2 DEF Standing, KeepInv, BaseInv, StartInv, TypeOK
      <4>4. Final(value[s]) = value[s]
        BY <4>2 DEF Final
      <4> QED
        BY <1>3, <2>2, <4>3, <4>4 DEF Shown
    <3> QED
      BY <3>1, <3>2
  <2> QED
    BY <2>1, <2>2
<1>5. Reached \cap Objects = Reached
  BY <1>0, <1>2 DEF Objects, Standing
<1>6. \A a \in Reached : Denotes(Final(cell[a].ref)) = Id(Final(cell[a].ref))
  BY <1>0, <1>1, <1>2, <1>3
<1> QED
  BY <1>2, <1>4, <1>5, <1>6 DEF GraphFacts, HeadNow, LinksNow, LinksOf

\* A step that moves what stands from where it stands to mu, and leads every
\* reference there, is not seen.
LEMMA Carried ==
  ASSUME KeepInv, KeepInv', NEW mu \in [Addr -> Addr],
         \A s \in Slots : Final(value[s])' =
            IF Final(value[s]) = Nil THEN Nil ELSE mu[Final(value[s])],
         \A b \in Standing :
           /\ cell'[mu[b]].id = cell[b].id
           /\ Final(cell[mu[b]].ref)' =
                IF Final(cell[b].ref) = Nil THEN Nil ELSE mu[Final(cell[b].ref)]
  PROVE  HeadNow' = HeadNow /\ LinksNow' = LinksNow
<1> DEFINE Image == {mu[b] : b \in Reached}
           Stay  == {b \in Reached : mu[b] \in Reached'}
<1>0. /\ Standing \subseteq Addr /\ Nil \notin Addr
  BY FinalStands, Addresses
<1>1. GraphFacts /\ GraphFacts'
  <2>1. KeepInv' => GraphFacts'
    BY GraphIs, PTL
  <2> QED
    BY <2>1, GraphIs
<1>2. ReachFacts /\ ReachFacts'
  BY ReachedHas, PTL
<1>3. Reached \subseteq Standing /\ Reached \subseteq Addr /\ Nil \notin Reached
  BY <1>0, <1>1, <1>2 DEF GraphFacts, ReachFacts
<1>4. /\ \A s \in Slots : Final(value[s]) \in Reached \cup {Nil}
      /\ \A a \in Reached : Final(cell[a].ref) \in Reached \cup {Nil}
  BY <1>2, <1>3 DEF ReachFacts
<1>5. /\ \A s \in Slots : Final(value[s])' \in Reached' \cup {Nil}
      /\ \A a \in Addr \cap Reached' : Final(cell[a].ref)' \in Reached' \cup {Nil}
      /\ Nil \notin Reached'
  BY <1>2 DEF ReachFacts, Addr, Pages, Slots
<1>6. Reached' \subseteq Image
  <2>1. Image \in SUBSET Addr /\ Nil \notin Image
    BY <1>0, <1>3
  <2>2. \A s \in Slots : Final(value[s])' \in Image \cup {Nil}
    BY <1>4
  <2>3. \A a \in Image : Final(cell[a].ref)' \in Image \cup {Nil}
    BY <1>3, <1>4
  <2>4. \A K \in SUBSET Addr :
          /\ Nil \notin K /\ \A s \in Slots : Final(value[s])' \in K \cup {Nil}
          /\ \A a \in K : Final(cell[a].ref)' \in K \cup {Nil}
          => Reached' \subseteq K
    BY <1>2 DEF ReachFacts, Addr, Pages, Slots
  <2> QED
    BY <2>1, <2>2, <2>3, <2>4
<1>7. Reached \subseteq Stay
  <2>1. Stay \in SUBSET Addr /\ Nil \notin Stay
    BY <1>0, <1>3
  <2>2. \A s \in Slots : Final(value[s]) \in Stay \cup {Nil}
    BY <1>0, <1>3, <1>4, <1>5
  <2>3. \A a \in Stay : Final(cell[a].ref) \in Stay \cup {Nil}
    <3> SUFFICES ASSUME NEW a \in Stay, Final(cell[a].ref) # Nil
                 PROVE  Final(cell[a].ref) \in Stay
      OBVIOUS
    <3>1. a \in Standing /\ Final(cell[a].ref) \in Reached /\ mu[a] \in Addr \cap Reached'
      BY <1>3, <1>4
    <3>2. mu[Final(cell[a].ref)] = Final(cell[mu[a]].ref)'
      BY <3>1
    <3>3. Final(cell[mu[a]].ref)' \in Reached' \cup {Nil}
      BY <1>5, <3>1
    <3>4. mu[Final(cell[a].ref)] \in Addr
      BY <1>3, <3>1
    <3> QED
      BY <1>0, <3>1, <3>2, <3>3, <3>4
  <2> QED
    BY <2>1, <2>2, <2>3, ReachedIs
<1>8. Reached' = Image
  BY <1>6, <1>7
<1>9. ASSUME NEW b \in Reached
      PROVE  /\ cell'[mu[b]].id = cell[b].id
             /\ Id(Final(cell[mu[b]].ref))' = Id(Final(cell[b].ref))
  BY <1>0, <1>3, <1>4, <1>9 DEF Id
<1>10. ASSUME NEW s \in Slots
       PROVE  Id(Final(value[s]))' = Id(Final(value[s]))
  BY <1>0, <1>3, <1>4, <1>10 DEF Id
<1>11. HeadNow' = HeadNow
  BY <1>1, <1>10 DEF GraphFacts, Slots
<1>12. LinksOf(Reached)' = LinksOf(Reached)
  <2>1. LinksOf(Reached)' = {<<cell'[a].id, Id(Final(cell[a].ref))'>> : a \in Image}
    BY <1>8 DEF LinksOf
  <2> QED
    BY <1>9, <2>1 DEF LinksOf
<1> QED
  BY <1>1, <1>11, <1>12 DEF GraphFacts

\* A step that leaves slots and memory alone is not seen.
LEMMA UntouchedUnseen ==
  ASSUME start' = start, cell' = cell, value' = value
  PROVE  HeadNow' = HeadNow /\ LinksNow' = LinksNow
BY DEF HeadNow, LinksNow, Shown, Denotes, Resident, Final, Reached, Objects, Slots, Addr, Pages

\* A copy carries an object from its old place to its new one.
LEMMA CopyUnseen ==
  ASSUME KeepInv, KeepInv', CopyObject
  PROVE  HeadNow' = HeadNow /\ LinksNow' = LinksNow
<1>0. /\ cell \in [Addr -> [kind : {"zero", "obj", "fwd"}, id : Ids \cup {0}, ref : References]]
      /\ start \subseteq Addr /\ Nil \notin Addr /\ phase = "copy" /\ value' = value
      /\ BaseInv /\ chunk \subseteq Ahead
  BY Addresses DEF KeepInv, BaseInv, TypeOK, CopyObject, Ahead
<1>1. PICK a \in ToCopy, d \in Addr \ start :
        /\ a \in start /\ cell[a].kind = "obj" /\ PageOf(a) \in chunk /\ a \in marked \ pinned
        /\ start' = start \cup {d}
        /\ cell' = [cell EXCEPT ![d] = cell[a], ![a] = Forward(cell[a].id, d)]
  BY <1>0, CopyIs
<1> DEFINE mu == [b \in Addr |-> IF b = a THEN d ELSE b]
<1>2. Forward(cell[a].id, d).ref = d /\ Forward(cell[a].id, d).kind = "fwd"
  BY DEF Forward
<1>3. /\ cell'[d] = cell[a] /\ cell'[a].ref = d /\ cell'[a].kind = "fwd"
      /\ \A b \in Addr : b # a /\ b # d => cell'[b] = cell[b]
      /\ a # d /\ a \in Addr
  BY <1>0, <1>1, <1>2
<1>4. /\ Standing \subseteq Kept /\ Kept \subseteq start
      /\ \A r \in Kept \cup {Nil} : Final(r) \in Standing \cup {Nil}
      /\ \A s \in Slots : value[s] \in Kept \cup {Nil}
      /\ \A b \in Standing : cell[b].ref \in Kept \cup {Nil}
  BY FinalStands, KeptIs DEF Standing, KeepInv, RefInv
<1>5. ASSUME NEW r \in Kept \cup {Nil}
      PROVE  (IF r \in start' /\ cell'[r].kind = "fwd" THEN cell'[r].ref ELSE r)
               = IF Final(r) = Nil THEN Nil ELSE mu[Final(r)]
  <2>1. CASE r = Nil
    BY <1>0, <1>1, <2>1 DEF Final
  <2>2. CASE r = a
    BY <1>0, <1>1, <1>3, <2>2 DEF Final
  <2>3. CASE r \in Kept /\ r # a
    <3>1. r \in start /\ r \in Addr /\ cell'[r] = cell[r] /\ r # Nil
      BY <1>0, <1>1, <1>3, <1>4, <2>3
    <3>2. CASE cell[r].kind = "fwd"
      <4>1. /\ Final(r) = cell[r].ref /\ cell[r].ref \in start
            /\ PageOf(cell[r].ref) \notin Ahead
        BY <3>1, <3>2 DEF Final, KeepInv, RefInv
      <4>2. cell[r].ref # a /\ cell[r].ref # Nil /\ cell[r].ref \in Addr
        BY <1>0, <1>1, <4>1
      <4> QED
        BY <1>1, <3>1, <3>2, <4>1, <4>2
    <3>3. CASE cell[r].kind # "fwd"
      BY <1>1, <2>3, <3>1, <3>3 DEF Final
    <3> QED
      BY <3>2, <3>3
  <2> QED
    BY <2>1, <2>2, <2>3
<1>6. mu \in [Addr -> Addr]
  BY <1>1
<1>7. ASSUME NEW s \in Slots
      PROVE  Final(value[s])' = IF Final(value[s]) = Nil THEN Nil ELSE mu[Final(value[s])]
  <2>1. value[s] \in Kept \cup {Nil} /\ value'[s] = value[s]
    BY <1>0, <1>4
  <2> HIDE DEF mu
  <2> QED
    BY <1>5, <2>1 DEF Final
<1>8. ASSUME NEW b \in Standing
      PROVE  /\ cell'[mu[b]].id = cell[b].id
             /\ Final(cell[mu[b]].ref)' =
                  IF Final(cell[b].ref) = Nil THEN Nil ELSE mu[Final(cell[b].ref)]
  <2>1. cell[b].ref \in Kept \cup {Nil} /\ b \in Addr /\ b # d
    BY <1>0, <1>1, <1>4
  <2>2. cell'[mu[b]] = cell[b]
    BY <1>3, <2>1
  <2> HIDE DEF mu
  <2> QED
    BY <1>5, <2>1, <2>2 DEF Final
<1> HIDE DEF mu
<1> QED
  BY <1>6, <1>7, <1>8, Carried

\* The rewrite leads a reference to where it led already.
LEMMA RewriteUnseen ==
  ASSUME KeepInv, KeepInv', Rewrite
  PROVE  HeadNow' = HeadNow /\ LinksNow' = LinksNow
<1> DEFINE mu == [b \in Addr |-> b]
<1>0. /\ cell \in [Addr -> [kind : {"zero", "obj", "fwd"}, id : Ids \cup {0}, ref : References]]
      /\ start \subseteq Addr /\ Nil \notin Addr
      /\ value' = [s \in Slots |-> IF s \in RootSlots THEN Target(value[s]) ELSE value[s]]
      /\ cell' = [a \in Addr |->
                    IF a \in Swept THEN [cell[a] EXCEPT !.ref = Target(@)] ELSE cell[a]]
      /\ start' = start
  BY Addresses DEF KeepInv, BaseInv, TypeOK, Rewrite
<1>1. /\ Standing \subseteq Kept /\ Kept \subseteq start /\ Standing \subseteq Addr
      /\ \A r \in Kept \cup {Nil} : Final(r) \in Standing \cup {Nil}
      /\ \A r \in Standing : Final(r) = r
      /\ \A s \in Slots : value[s] \in Kept \cup {Nil}
      /\ \A b \in Standing : cell[b].ref \in Kept \cup {Nil}
  BY FinalStands, KeptIs DEF Standing, KeepInv, RefInv
<1>2. /\ \A a \in Addr : cell'[a].kind = cell[a].kind /\ cell'[a].id = cell[a].id
      /\ \A a \in Addr : cell[a].kind = "fwd" => cell'[a] = cell[a]
      /\ \A a \in Addr : cell'[a].ref \in {cell[a].ref, Target(cell[a].ref)}
  BY <1>0 DEF Swept
<1>3. ASSUME NEW r \in Kept \cup {Nil}
      PROVE  Target(r) = Final(r)
  BY <1>0, <1>1 DEF Target, Forwarded, Final, KeepInv, BaseInv, StartInv
<1>4. \A r \in Kept \cup {Nil} :
        (IF r \in start' /\ cell'[r].kind = "fwd" THEN cell'[r].ref ELSE r) = Final(r)
  BY <1>0, <1>1, <1>2 DEF Final
<1>5. \A r \in Kept \cup {Nil} : \A q \in {r, Target(r)} :
        (IF q \in start' /\ cell'[q].kind = "fwd" THEN cell'[q].ref ELSE q) = Final(r)
  <2> SUFFICES ASSUME NEW r \in Kept \cup {Nil}
               PROVE  (IF Target(r) \in start' /\ cell'[Target(r)].kind = "fwd"
                       THEN cell'[Target(r)].ref ELSE Target(r)) = Final(r)
    BY <1>4
  <2>1. Target(r) \in Standing \cup {Nil} /\ Target(r) = Final(r)
    BY <1>1, <1>3
  <2>2. Final(Target(r)) = Target(r) /\ Target(r) \in Kept \cup {Nil}
    BY <1>0, <1>1, <2>1 DEF Final
  <2> QED
    BY <1>4, <2>1, <2>2
<1>6. \A b \in Standing \cup {Nil} : (IF b = Nil THEN Nil ELSE mu[b]) = b
  BY <1>1
<1>7. ASSUME NEW s \in Slots
      PROVE  Final(value[s])' = IF Final(value[s]) = Nil THEN Nil ELSE mu[Final(value[s])]
  <2>1. value[s] \in Kept \cup {Nil} /\ value'[s] \in {value[s], Target(value[s])}
    BY <1>0, <1>1
  <2>2. Final(value[s])' = Final(value[s])
    BY <1>5, <2>1 DEF Final
  <2> QED
    BY <1>1, <1>6, <2>1, <2>2
<1>8. ASSUME NEW b \in Standing
      PROVE  /\ cell'[mu[b]].id = cell[b].id
             /\ Final(cell[mu[b]].ref)' =
                  IF Final(cell[b].ref) = Nil THEN Nil ELSE mu[Final(cell[b].ref)]
  <2>1. /\ mu[b] = b /\ cell[b].ref \in Kept \cup {Nil}
        /\ cell'[b].id = cell[b].id /\ cell'[b].ref \in {cell[b].ref, Target(cell[b].ref)}
    BY <1>1, <1>2
  <2>2. Final(cell[b].ref)' = Final(cell[b].ref)
    BY <1>5, <2>1 DEF Final
  <2> QED
    BY <1>1, <1>6, <2>1, <2>2
<1>9. mu \in [Addr -> Addr]
  OBVIOUS
<1> HIDE DEF mu
<1> QED
  BY <1>7, <1>8, <1>9, Carried

\* What a chunk loses is nothing that stands.
LEMMA ReclaimUnseen ==
  ASSUME KeepInv, KeepInv', Reclaim
  PROVE  HeadNow' = HeadNow /\ LinksNow' = LinksNow
<1> DEFINE mu == [b \in Addr |-> b]
<1>0. /\ start \subseteq Addr /\ Nil \notin Addr /\ value' = value
      /\ start' = start \ (On(chunk) \ pinned)
      /\ cell' = [a \in Addr |-> IF a \in On(chunk) \ pinned THEN Zero ELSE cell[a]]
      /\ Kept = start \ (Doomed \cup (On(chunk) \ pinned))
  BY Addresses DEF KeepInv, BaseInv, TypeOK, Reclaim, Kept, Moved
<1>1. /\ Standing \subseteq Kept /\ Kept \subseteq start
      /\ \A s \in Slots : value[s] \in Kept \cup {Nil}
      /\ \A b \in Standing : cell[b].ref \in Kept \cup {Nil}
  BY KeptIs DEF Standing, KeepInv, RefInv
<1>2. \A r \in Kept : r \in Addr /\ r \in start' /\ cell'[r] = cell[r] /\ cell[r].kind # "fwd"
  BY <1>0 DEF KeepInv, BaseInv, StartInv
<1>3. \A r \in Kept \cup {Nil} :
        /\ Final(r) = r
        /\ (IF r \in start' /\ cell'[r].kind = "fwd" THEN cell'[r].ref ELSE r) = r
        /\ (IF r = Nil THEN Nil ELSE mu[r]) = r
  BY <1>0, <1>2 DEF Final
<1>4. ASSUME NEW s \in Slots
      PROVE  Final(value[s])' = IF Final(value[s]) = Nil THEN Nil ELSE mu[Final(value[s])]
  <2>1. Final(value[s])' = value[s]
    BY <1>0, <1>1, <1>3 DEF Final
  <2> QED
    BY <1>1, <1>3, <2>1
<1>5. ASSUME NEW b \in Standing
      PROVE  /\ cell'[mu[b]].id = cell[b].id
             /\ Final(cell[mu[b]].ref)' =
                  IF Final(cell[b].ref) = Nil THEN Nil ELSE mu[Final(cell[b].ref)]
  <2>1. mu[b] = b /\ cell'[b] = cell[b] /\ cell[b].ref \in Kept \cup {Nil}
    BY <1>1, <1>2
  <2>2. Final(cell[b].ref)' = cell[b].ref
    BY <1>3, <2>1 DEF Final
  <2> QED
    BY <1>3, <2>1, <2>2
<1>6. mu \in [Addr -> Addr]
  OBVIOUS
<1> HIDE DEF mu
<1> QED
  BY <1>4, <1>5, <1>6, Carried

-----------------------------------------------------------------------------
(* The program sees the graph of LispGraph.                                *)

\* The identity of r in the memory c, and what the objects R link there.
IdIn(c, r) == IF r = Nil THEN Nil ELSE c[r].id
Edges(c, R) == {<<c[a].id, IdIn(c, c[a].ref)>> : a \in R}

\* No slot and no link leads out of the identities U.
HeadsIn(h, U) == \A s \in Slots : h[s] \in U \cup {Nil}
StaysIn(L, U) == \A l \in L : l[1] \in U => l[2] \in U \cup {Nil}

\* Live computes what the slots h reach, for any set C of identities that is
\* the least one to hold them and to be left by no link.
LEMMA LiveIs ==
  ASSUME NEW h, NEW L, NEW C \in SUBSET Ids, HeadsIn(h, C), StaysIn(L, C),
         \A U \in SUBSET C : HeadsIn(h, U) /\ StaysIn(L, U) => C \subseteq U
  PROVE  Graph!Live(h, L) = {l \in L : l[1] \in C}
<1> DEFINE Heads == {h[s] : s \in Slots} \ {Nil}
           Sets  == {U \in SUBSET (Ids \ Heads) :
                       \A l \in L : l[1] \in Heads \cup U => l[2] \in Heads \cup U \cup {Nil}}
<1>1. Graph!Live(h, L) = {l \in L : l[1] \in Heads \/ \A U \in Sets : l[1] \in U}
  BY DEF Graph!Live
<1>2. Heads \subseteq C /\ Nil \notin Ids
  BY PageHeapAssumption DEF Ids, HeadsIn
<1>3. ASSUME NEW l \in L, \A U \in Sets : l[1] \in U
      PROVE  l[1] \in C
  <2>1. Heads \cup (C \ Heads) = C
    BY <1>2
  <2>2. C \ Heads \in Sets
    BY <1>2, <2>1 DEF StaysIn
  <2> QED
    BY <1>3, <2>2
<1>4. ASSUME NEW l \in L, l[1] \in C, l[1] \notin Heads, NEW U \in Sets
      PROVE  l[1] \in U
  <2> DEFINE K == Heads \cup (U \cap C)
  <2>1. K \in SUBSET C /\ HeadsIn(h, K)
    BY <1>2 DEF HeadsIn
  <2>2. StaysIn(L, K)
    <3>1. \A k \in L : k[1] \in Heads \cup U => k[2] \in Heads \cup U \cup {Nil}
      OBVIOUS
    <3> QED
      BY <1>2, <3>1 DEF StaysIn
  <2> HIDE DEF K
  <2>3. C \subseteq K
    BY <2>1, <2>2
  <2> QED
    BY <1>4, <2>3 DEF K
<1> HIDE DEF Sets
<1> QED
  BY <1>1, <1>2, <1>3, <1>4

\* What the slots v reach in the memory c are the objects M; objects besides
\* them are not seen.
LEMMA LiveObjects ==
  ASSUME NEW c, NEW v, NEW R, NEW M \in SUBSET R,
         \A a \in R : c[a].id \in Ids,
         \A a, b \in R : c[a].id = c[b].id => a = b,
         \A s \in Slots : v[s] \in M \cup {Nil},
         \A a \in M : c[a].ref \in M \cup {Nil},
         \A K \in SUBSET M :
           /\ \A s \in Slots : v[s] \in K \cup {Nil}
           /\ \A a \in K : c[a].ref \in K \cup {Nil}
           => M \subseteq K
  PROVE  Graph!Live([s \in Slots |-> IdIn(c, v[s])], Edges(c, R)) = Edges(c, M)
<1> DEFINE C == {c[a].id : a \in M}
           h == [s \in Slots |-> IdIn(c, v[s])]
           L == Edges(c, R)
<1>0. Nil \notin Ids
  BY PageHeapAssumption DEF Ids
<1>1. C \in SUBSET Ids /\ \A s \in Slots : h[s] = IdIn(c, v[s])
  OBVIOUS
<1>2. \A r \in M \cup {Nil} : IdIn(c, r) \in C \cup {Nil}
  BY DEF IdIn
<1>3. \A l \in L : \E a \in R : l[1] = c[a].id /\ l[2] = IdIn(c, c[a].ref)
  BY DEF Edges
<1>4. \A a \in R : c[a].id \in C => a \in M
  OBVIOUS
<1>5. ASSUME NEW a \in R
      PROVE  \E l \in L : l[1] = c[a].id /\ l[2] = IdIn(c, c[a].ref)
  <2>1. <<c[a].id, IdIn(c, c[a].ref)>> \in L
    BY DEF Edges
  <2> QED
    BY <2>1
<1>6. ASSUME NEW U \in SUBSET C, HeadsIn(h, U), StaysIn(L, U)
      PROVE  C \subseteq U
  <2> DEFINE K == {a \in M : c[a].id \in U}
  <2>1. \A r \in M \cup {Nil} : IdIn(c, r) \in U \cup {Nil} => r \in K \cup {Nil}
    BY <1>0 DEF IdIn
  <2>2. \A s \in Slots : v[s] \in K \cup {Nil}
    <3> HIDE DEF K, h
    <3> QED
      BY <1>1, <1>6, <2>1 DEF HeadsIn
  <2>3. \A a \in K : c[a].ref \in K \cup {Nil}
    <3> SUFFICES ASSUME NEW a \in K
                 PROVE  c[a].ref \in K \cup {Nil}
      OBVIOUS
    <3>1. PICK l \in L : l[1] = c[a].id /\ l[2] = IdIn(c, c[a].ref)
      BY <1>5
    <3>2. IdIn(c, c[a].ref) \in U \cup {Nil}
      BY <1>6, <3>1 DEF StaysIn
    <3> QED
      BY <2>1, <3>2
  <2>4. M \subseteq K
    BY <2>2, <2>3
  <2> QED
    BY <2>4
<1>7. StaysIn(L, C)
  BY <1>2, <1>3, <1>4 DEF StaysIn
<1>8. HeadsIn(h, C)
  BY <1>1, <1>2 DEF HeadsIn
<1>9. {l \in L : l[1] \in C} = Edges(c, M)
  BY <1>4 DEF Edges
<1> HIDE DEF C, h, L
<1>10. Graph!Live(h, L) = {l \in L : l[1] \in C}
  BY <1>1, <1>6, <1>7, <1>8, LiveIs
<1> QED
  BY <1>9, <1>10 DEF h, L

\* Between collections a reference leads where it points, and the objects that
\* are reached are on the start bits.
RunGraph ==
  /\ Reached \subseteq start /\ Nil \notin Reached
  /\ \A a \in start : cell[a].kind = "obj" /\ cell[a].ref \in start \cup {Nil}
  /\ \A s \in Slots : value[s] \in Reached \cup {Nil}
  /\ \A a \in Reached : cell[a].ref \in Reached \cup {Nil}
  /\ \A K \in SUBSET start :
       /\ \A s \in Slots : value[s] \in K \cup {Nil}
       /\ \A a \in K : cell[a].ref \in K \cup {Nil}
       => Reached \subseteq K
  /\ HeadNow = [s \in Slots |-> IdIn(cell, value[s])]
  /\ LinksNow = Edges(cell, Reached)

LEMMA RunGraphIs == KeepInv /\ phase = "run" => RunGraph
<1> SUFFICES ASSUME KeepInv, phase = "run"
             PROVE  RunGraph
  OBVIOUS
<1>0. Nil \notin Addr
  BY Addresses
<1>1. /\ Kept = start /\ start \subseteq Addr
      /\ \A a \in start : cell[a].kind = "obj" /\ cell[a].ref \in start \cup {Nil}
      /\ \A s \in Slots : value[s] \in start \cup {Nil}
  BY RunIs
<1>2. \A r \in start \cup {Nil} : Final(r) = r /\ Id(Final(r)) = IdIn(cell, r)
  BY <1>0, <1>1 DEF Final, Id, IdIn
<1>3. /\ Reached \subseteq start
      /\ HeadNow = [s \in Slots |-> Id(Final(value[s]))]
      /\ LinksNow = LinksOf(Reached)
  BY <1>1, GraphIs DEF GraphFacts, Standing
<1>4. /\ Nil \notin Reached
      /\ \A s \in Slots : value[s] \in Reached \cup {Nil}
      /\ \A a \in Reached : cell[a].ref \in Reached \cup {Nil}
  BY <1>1, <1>2, <1>3, ReachedHas DEF ReachFacts
<1>5. ASSUME NEW K \in SUBSET start, \A s \in Slots : value[s] \in K \cup {Nil},
             \A a \in K : cell[a].ref \in K \cup {Nil}
      PROVE  Reached \subseteq K
  BY <1>0, <1>1, <1>2, <1>5, ReachedIs
<1>6. HeadNow = [s \in Slots |-> IdIn(cell, value[s])]
  BY <1>1, <1>2, <1>3
<1>7. LinksNow = Edges(cell, Reached)
  BY <1>1, <1>2, <1>3 DEF LinksOf, Edges
<1> QED
  BY <1>1, <1>3, <1>4, <1>5, <1>6, <1>7 DEF RunGraph

\* A step after which the program sees the slots h and what they reach of L.
Shows(h, L) == HeadNow' = h /\ LinksNow' = Graph!Live(h, L)

\* The operations of LispGraph, in these terms.
LEMMA GraphStepsAre ==
  ASSUME NEW s \in Slots, NEW t \in Slots
  PROVE  /\ (\E i \in Ids \ {l[1] : l \in LinksNow} :
                Shows([HeadNow EXCEPT ![s] = i], LinksNow \cup {<<i, HeadNow[t]>>}))
              => Graph!Cons(s, t)
         /\ HeadNow[s] # Nil
              /\ Shows(HeadNow, {l \in LinksNow : l[1] # HeadNow[s]} \cup {<<HeadNow[s], HeadNow[t]>>})
              => Graph!Rplacd(s, t)
         /\ HeadNow[t] # Nil
              /\ (\E l \in LinksNow : /\ l[1] = HeadNow[t]
                                      /\ Shows([HeadNow EXCEPT ![s] = l[2]], LinksNow))
              => Graph!Cdr(s, t)
         /\ Shows([HeadNow EXCEPT ![s] = HeadNow[t]], LinksNow) => Graph!Move(s, t)
         /\ Shows([HeadNow EXCEPT ![s] = Nil], LinksNow) => Graph!Clear(s)
<1>1. (\E i \in Ids \ {l[1] : l \in LinksNow} :
         Shows([HeadNow EXCEPT ![s] = i], LinksNow \cup {<<i, HeadNow[t]>>}))
        => Graph!Cons(s, t)
  BY DEF Graph!Cons, Graph!Becomes, Shows, HeadNow, LinksNow
<1>2. HeadNow[s] # Nil
        /\ Shows(HeadNow, {l \in LinksNow : l[1] # HeadNow[s]} \cup {<<HeadNow[s], HeadNow[t]>>})
        => Graph!Rplacd(s, t)
  BY DEF Graph!Rplacd, Graph!Becomes, Shows, HeadNow, LinksNow
<1>3. HeadNow[t] # Nil
        /\ (\E l \in LinksNow : /\ l[1] = HeadNow[t]
                                /\ Shows([HeadNow EXCEPT ![s] = l[2]], LinksNow))
        => Graph!Cdr(s, t)
  BY DEF Graph!Cdr, Graph!Becomes, Shows, HeadNow, LinksNow
<1>4. Shows([HeadNow EXCEPT ![s] = HeadNow[t]], LinksNow) => Graph!Move(s, t)
  BY DEF Graph!Move, Graph!Becomes, Shows, HeadNow, LinksNow
<1>5. Shows([HeadNow EXCEPT ![s] = Nil], LinksNow) => Graph!Clear(s)
  BY DEF Graph!Clear, Graph!Becomes, Shows, HeadNow, LinksNow
<1> QED
  BY <1>1, <1>2, <1>3, <1>4, <1>5

\* What a step of the mutator leads to, in the graph's own terms: the objects R
\* hold all that is reached after it.
LEMMA StepSeen ==
  ASSUME IdentInv', BaseInv', RunGraph', NEW R \in SUBSET start',
         \A s \in Slots : value'[s] \in R \cup {Nil},
         \A a \in R : cell'[a].ref \in R \cup {Nil}
  PROVE  Shows(HeadNow', Edges(cell', R))
<1>1. /\ start' \subseteq Addr
      /\ \A a \in start' : cell'[a].kind = "obj"
  BY DEF BaseInv, TypeOK, RunGraph, Addr, Pages
<1>2. /\ Reached' \subseteq R /\ Reached' \subseteq start'
      /\ \A s \in Slots : value'[s] \in Reached' \cup {Nil}
      /\ \A a \in Reached' : cell'[a].ref \in Reached' \cup {Nil}
  BY DEF RunGraph, Slots
<1>3. /\ \A a \in R : cell'[a].id \in Ids
      /\ \A a, b \in R : cell'[a].id = cell'[b].id => a = b
  BY <1>1 DEF IdentInv, Addr, Pages, Ids
<1>4. \A K \in SUBSET Reached' :
        /\ \A s \in Slots : value'[s] \in K \cup {Nil}
        /\ \A a \in K : cell'[a].ref \in K \cup {Nil}
        => Reached' \subseteq K
  BY <1>2 DEF RunGraph, Slots
<1>5. /\ HeadNow' = [s \in Slots |-> IdIn(cell', value'[s])]
      /\ LinksNow' = Edges(cell', Reached')
  BY DEF RunGraph, Slots, IdIn, Edges
<1>6. Graph!Live([s \in Slots |-> IdIn(cell', value'[s])], Edges(cell', R)) = Edges(cell', Reached')
  BY <1>2, <1>3, <1>4, LiveObjects
<1> QED
  BY <1>5, <1>6 DEF Shows

\* A cons is a new object of the graph.
LEMMA AllocSeen ==
  ASSUME KeepInv, IdentInv', KeepInv', RunGraph, RunGraph', NEW s \in RootSlots, NEW t \in Slots,
         AllocCons(s, t)
  PROVE  Graph!Cons(s, t)
<1>0. /\ cell \in [Addr -> [kind : {"zero", "obj", "fwd"}, id : Ids \cup {0}, ref : References]]
      /\ value \in [Slots -> References] /\ start \subseteq Addr /\ Nil \notin Addr
      /\ BaseInv /\ BaseInv' /\ s \in Slots
  BY Addresses DEF KeepInv, BaseInv, TypeOK, Slots
<1>1. PICK a \in Addr \ start, i \in Ids :
        /\ start' = start \cup {a} /\ value' = [value EXCEPT ![s] = a]
        /\ cell' = [cell EXCEPT ![a] = Object(i, value[t])]
        /\ \A b \in start : cell[b].id # i
  BY <1>0, AllocIs
<1> DEFINE R == Reached \cup {a}
           r == value[t]
<1>2. /\ cell'[a].id = i /\ cell'[a].ref = r
      /\ \A b \in Addr : b # a => cell'[b] = cell[b]
  BY <1>0, <1>1 DEF Object
<1>3. /\ Reached \subseteq start /\ r \in Reached \cup {Nil}
      /\ \A u \in Slots : value[u] \in Reached \cup {Nil}
      /\ \A b \in Reached : cell[b].ref \in Reached \cup {Nil}
      /\ HeadNow = [u \in Slots |-> IdIn(cell, value[u])]
      /\ LinksNow = Edges(cell, Reached)
  BY DEF RunGraph
<1>4. /\ R \in SUBSET start'
      /\ \A u \in Slots : value'[u] \in R \cup {Nil}
      /\ \A b \in R : cell'[b].ref \in R \cup {Nil}
  BY <1>0, <1>1, <1>2, <1>3
<1>5. \A q \in Reached \cup {Nil} : IdIn(cell', q) = IdIn(cell, q)
  BY <1>0, <1>1, <1>2, <1>3 DEF IdIn
<1>6. HeadNow' = [HeadNow EXCEPT ![s] = i]
  <2>1. HeadNow' = [u \in Slots |-> IdIn(cell', value'[u])]
    BY DEF RunGraph, Slots, IdIn
  <2>2. ASSUME NEW u \in Slots
        PROVE  IdIn(cell', value'[u]) = IF u = s THEN i ELSE IdIn(cell, value[u])
    <3>1. CASE u = s
      BY <1>0, <1>1, <1>2, <3>1 DEF IdIn
    <3>2. CASE u # s
      BY <1>0, <1>1, <1>3, <1>5, <3>2
    <3> QED
      BY <3>1, <3>2
  <2> QED
    BY <1>3, <2>1, <2>2
<1>7. Edges(cell', R) = LinksNow \cup {<<i, HeadNow[t]>>}
  <2>1. \A b \in Reached : /\ cell'[b].id = cell[b].id
                           /\ IdIn(cell', cell'[b].ref) = IdIn(cell, cell[b].ref)
    BY <1>0, <1>1, <1>2, <1>3, <1>5
  <2>2. cell'[a].id = i /\ IdIn(cell', cell'[a].ref) = HeadNow[t]
    BY <1>2, <1>3, <1>5
  <2> QED
    BY <1>3, <2>1, <2>2 DEF Edges
<1>8. i \in Ids \ {l[1] : l \in LinksNow}
  BY <1>1, <1>3 DEF Edges
<1> HIDE DEF R, r
<1>9. Shows(HeadNow', Edges(cell', R))
  BY <1>0, <1>4, StepSeen
<1>10. Shows([HeadNow EXCEPT ![s] = i], LinksNow \cup {<<i, HeadNow[t]>>})
  BY <1>6, <1>7, <1>9
<1>11. \E j \in Ids \ {l[1] : l \in LinksNow} :
         Shows([HeadNow EXCEPT ![s] = j], LinksNow \cup {<<j, HeadNow[t]>>})
  BY <1>8, <1>10
<1> QED
  BY <1>0, <1>11, GraphStepsAre

\* (rplacd s t) is the graph's.
LEMMA RplacdSeen ==
  ASSUME KeepInv, IdentInv, IdentInv', KeepInv', RunGraph, RunGraph',
         NEW s \in Slots, NEW t \in Slots, Rplacd(s, t)
  PROVE  Graph!Rplacd(s, t)
<1> DEFINE x == value[s]
           r == value[t]
           R == Reached
<1>0. /\ cell \in [Addr -> [kind : {"zero", "obj", "fwd"}, id : Ids \cup {0}, ref : References]]
      /\ start \subseteq Addr /\ Nil \notin Addr /\ BaseInv' /\ Nil \notin Ids
      /\ start' = start /\ value' = value /\ cell' = [cell EXCEPT ![x].ref = r] /\ x # Nil
  BY Addresses, PageHeapAssumption DEF KeepInv, BaseInv, TypeOK, Rplacd, Ids
<1>1. /\ Reached \subseteq start /\ x \in Reached /\ r \in Reached \cup {Nil}
      /\ \A u \in Slots : value[u] \in Reached \cup {Nil}
      /\ \A b \in Reached : cell[b].ref \in Reached \cup {Nil} /\ cell[b].kind = "obj"
      /\ HeadNow = [u \in Slots |-> IdIn(cell, value[u])]
      /\ LinksNow = Edges(cell, Reached)
  BY <1>0 DEF RunGraph
<1>2. /\ cell'[x].ref = r
      /\ \A b \in Addr : cell'[b].id = cell[b].id /\ (b # x => cell'[b].ref = cell[b].ref)
  BY <1>0, <1>1
<1>3. \A q \in Reached \cup {Nil} : IdIn(cell', q) = IdIn(cell, q)
  BY <1>0, <1>1, <1>2 DEF IdIn
<1>4. HeadNow[s] = cell[x].id /\ cell[x].id \in Ids /\ HeadNow[t] = IdIn(cell, r)
      /\ \A b \in Reached : cell[b].id = cell[x].id <=> b = x
  BY <1>0, <1>1 DEF IdIn, IdentInv
<1>5. HeadNow' = HeadNow
  <2>1. HeadNow' = [u \in Slots |-> IdIn(cell', value'[u])]
    BY DEF RunGraph, Slots, IdIn
  <2> QED
    BY <1>0, <1>1, <1>3, <2>1
<1>6. Edges(cell', Reached) = {l \in LinksNow : l[1] # HeadNow[s]} \cup {<<HeadNow[s], HeadNow[t]>>}
  <2>1. \A b \in Reached : b # x => /\ cell'[b].id = cell[b].id
                                   /\ IdIn(cell', cell'[b].ref) = IdIn(cell, cell[b].ref)
    BY <1>0, <1>1, <1>2, <1>3
  <2>2. cell'[x].id = HeadNow[s] /\ IdIn(cell', cell'[x].ref) = HeadNow[t]
    BY <1>0, <1>1, <1>2, <1>3, <1>4
  <2>3. {l \in LinksNow : l[1] # HeadNow[s]}
          = {<<cell[b].id, IdIn(cell, cell[b].ref)>> : b \in Reached \ {x}}
    BY <1>1, <1>4 DEF Edges
  <2>4. Edges(cell', Reached)
          = {<<cell'[b].id, IdIn(cell', cell'[b].ref)>> : b \in Reached \ {x}}
              \cup {<<cell'[x].id, IdIn(cell', cell'[x].ref)>>}
    BY <1>1 DEF Edges
  <2>5. {<<cell'[b].id, IdIn(cell', cell'[b].ref)>> : b \in Reached \ {x}}
          = {<<cell[b].id, IdIn(cell, cell[b].ref)>> : b \in Reached \ {x}}
    BY <2>1
  <2> QED
    BY <2>2, <2>3, <2>4, <2>5
<1>7. Shows(HeadNow', Edges(cell', R))
  <2>1. /\ R \in SUBSET start'
        /\ \A u \in Slots : value'[u] \in R \cup {Nil}
        /\ \A b \in R : cell'[b].ref \in R \cup {Nil}
    BY <1>0, <1>1, <1>2
  <2> HIDE DEF R
  <2> QED
    BY <1>0, <2>1, StepSeen
<1>8. HeadNow[s] # Nil
  BY <1>0, <1>4
<1> QED
  BY <1>5, <1>6, <1>7, <1>8, GraphStepsAre

\* A slot that takes a reference that is reached, or nil.
LEMMA SetSlotSeen ==
  ASSUME KeepInv, IdentInv', KeepInv', RunGraph, RunGraph', NEW s \in Slots,
         NEW v \in Reached \cup {Nil}, SetSlot(s, v)
  PROVE  Shows([HeadNow EXCEPT ![s] = IdIn(cell, v)], LinksNow)
<1> DEFINE R == Reached
<1>0. /\ value \in [Slots -> References] /\ BaseInv'
      /\ start' = start /\ cell' = cell /\ value' = [value EXCEPT ![s] = v]
  BY DEF KeepInv, BaseInv, TypeOK, SetSlot, memory
<1>1. /\ Reached \subseteq start
      /\ \A u \in Slots : value[u] \in Reached \cup {Nil}
      /\ \A b \in Reached : cell[b].ref \in Reached \cup {Nil}
      /\ HeadNow = [u \in Slots |-> IdIn(cell, value[u])]
      /\ LinksNow = Edges(cell, Reached)
  BY DEF RunGraph
<1>2. HeadNow' = [HeadNow EXCEPT ![s] = IdIn(cell, v)]
  <2>1. HeadNow' = [u \in Slots |-> IdIn(cell', value'[u])]
    BY DEF RunGraph, Slots, IdIn
  <2> QED
    BY <1>0, <1>1, <2>1
<1>3. Shows(HeadNow', Edges(cell', R))
  <2>1. /\ R \in SUBSET start'
        /\ \A u \in Slots : value'[u] \in R \cup {Nil}
        /\ \A b \in R : cell'[b].ref \in R \cup {Nil}
    BY <1>0, <1>1
  <2> HIDE DEF R
  <2> QED
    BY <1>0, <2>1, StepSeen
<1> QED
  BY <1>0, <1>1, <1>2, <1>3

LEMMA SlotSeen ==
  ASSUME KeepInv, IdentInv, IdentInv', KeepInv', RunGraph, RunGraph',
         NEW s \in Slots, NEW t \in Slots, Cdr(s, t) \/ Move(s, t) \/ Clear(s)
  PROVE  Graph!Cdr(s, t) \/ Graph!Move(s, t) \/ Graph!Clear(s)
<1>0. /\ Nil \notin Ids /\ Reached \subseteq start /\ start \subseteq Addr
      /\ \A u \in Slots : value[u] \in Reached \cup {Nil}
      /\ \A b \in Reached : cell[b].ref \in Reached \cup {Nil} /\ cell[b].kind = "obj"
      /\ HeadNow = [u \in Slots |-> IdIn(cell, value[u])]
      /\ LinksNow = Edges(cell, Reached)
  BY PageHeapAssumption DEF RunGraph, Ids, KeepInv, BaseInv, TypeOK
<1>1. CASE Cdr(s, t)
  <2> DEFINE x == value[t]
             l == <<cell[x].id, IdIn(cell, cell[x].ref)>>
  <2>1. x # Nil /\ SetSlot(s, cell[x].ref)
    BY <1>1 DEF Cdr
  <2>2. x \in Reached /\ cell[x].ref \in Reached \cup {Nil} /\ cell[x].id \in Ids
    BY <1>0, <2>1 DEF IdentInv
  <2>3. HeadNow[t] = cell[x].id /\ HeadNow[t] # Nil
    BY <1>0, <2>1, <2>2 DEF IdIn
  <2>4. l \in LinksNow /\ l[1] = HeadNow[t] /\ l[2] = IdIn(cell, cell[x].ref)
    BY <1>0, <2>2, <2>3 DEF Edges
  <2> HIDE DEF x, l
  <2>5. Shows([HeadNow EXCEPT ![s] = l[2]], LinksNow)
    BY <2>1, <2>2, <2>4, SetSlotSeen
  <2>6. Graph!Cdr(s, t)
    BY <2>3, <2>4, <2>5, GraphStepsAre
  <2> QED
    BY <2>6
<1>2. CASE Move(s, t)
  <2>1. SetSlot(s, value[t]) /\ value[t] \in Reached \cup {Nil} /\ HeadNow[t] = IdIn(cell, value[t])
    BY <1>0, <1>2 DEF Move
  <2>2. Shows([HeadNow EXCEPT ![s] = HeadNow[t]], LinksNow)
    BY <2>1, SetSlotSeen
  <2>3. Graph!Move(s, t)
    BY <2>2, GraphStepsAre
  <2> QED
    BY <2>3
<1>3. CASE Clear(s)
  <2>1. SetSlot(s, Nil) /\ IdIn(cell, Nil) = Nil
    BY <1>3 DEF Clear, IdIn
  <2>2. Shows([HeadNow EXCEPT ![s] = Nil], LinksNow)
    BY <2>1, SetSlotSeen
  <2>3. Graph!Clear(s)
    BY <2>2, GraphStepsAre
  <2> QED
    BY <2>3
<1> QED
  BY <1>1, <1>2, <1>3

\* The first state shows the empty graph.
LEMMA GraphAtFirst == Init => Graph!Init
<1> SUFFICES ASSUME Init
             PROVE  Graph!Init
  OBVIOUS
<1>1. RunGraph
  BY KeepAtFirst, RunGraphIs DEF Init
<1>2. Reached = {} /\ \A s \in Slots : value[s] = Nil
  BY <1>1 DEF RunGraph, Init
<1>3. HeadNow = [s \in Slots |-> Nil] /\ LinksNow = {}
  BY <1>1, <1>2 DEF RunGraph, IdIn, Edges
<1> QED
  BY <1>3 DEF Graph!Init, HeadNow, LinksNow

\* Every step of the heap is a step of the graph or is not seen.
LEMMA StepsSeen ==
  ASSUME KeepInv, KeepInv', IdentInv, IdentInv', [Next]_vars
  PROVE  [Graph!Next]_(Graph!graph)
<1> DEFINE Unseen == HeadNow' = HeadNow /\ LinksNow' = LinksNow
<1>1. Unseen => [Graph!Next]_(Graph!graph)
  BY DEF Graph!graph, HeadNow, LinksNow
<1>2. phase = "run" => RunGraph
  BY RunGraphIs
<1>3. phase' = "run" => RunGraph'
  <2>1. (KeepInv /\ phase = "run" => RunGraph)'
    BY RunGraphIs, PTL
  <2> QED
    BY <2>1
<1>4. ASSUME NEW s \in RootSlots, NEW t \in Slots, AllocCons(s, t)
      PROVE  Graph!Next
  <2>1. Graph!Cons(s, t) /\ s \in Slots
    BY <1>2, <1>3, <1>4, AllocSeen DEF AllocCons, Slots
  <2> QED
    BY <2>1 DEF Graph!Next
<1>5. ASSUME NEW s \in Slots, NEW t \in Slots, Rplacd(s, t)
      PROVE  Graph!Next
  <2>1. Graph!Rplacd(s, t)
    BY <1>2, <1>3, <1>5, RplacdSeen DEF Rplacd
  <2> QED
    BY <2>1 DEF Graph!Next
<1>6. ASSUME NEW s \in Slots, NEW t \in Slots, Cdr(s, t) \/ Move(s, t) \/ Clear(s)
      PROVE  Graph!Next
  <2>1. phase = "run" /\ phase' = "run"
    BY <1>6 DEF Cdr, Move, Clear, SetSlot
  <2>2. Graph!Cdr(s, t) \/ Graph!Move(s, t) \/ Graph!Clear(s)
    BY <1>2, <1>3, <1>6, <2>1, SlotSeen
  <2> QED
    BY <2>2 DEF Graph!Next
<1>7. CASE CopyObject
  BY <1>1, <1>7, CopyUnseen
<1>8. CASE Rewrite
  BY <1>1, <1>8, RewriteUnseen
<1>9. CASE Reclaim
  BY <1>1, <1>9, ReclaimUnseen
<1>10. CASE Drive \/ BeginPass \/ TakeChunk \/ Stall \/ EndPass \/ Finish \/ UNCHANGED vars
  <2>1. start' = start /\ cell' = cell /\ value' = value
    BY <1>10 DEF Drive, Collect, BeginPass, TakeChunk, Stall, EndPass, Finish, vars, memory
  <2> QED
    BY <1>1, <2>1, UntouchedUnseen
<1> HIDE DEF Unseen
<1> QED
  BY <1>4, <1>5, <1>6, <1>7, <1>8, <1>9, <1>10 DEF Next, Mutate, Collector, Slots

\* The program sees a graph of conses and no collection: whatever a collection
\* copies, pins, rewrites and frees (cycle.rs, evac.rs, pin.rs), its slots and
\* the objects they reach stay the graph that LispGraph describes.
THEOREM CollectionsUnseen ==
  ASSUME "major" \notin Kinds
  PROVE  Spec /\ []PromotesWhole => ImplementsLispGraph
<1>1. Init => Graph!Init
  BY GraphAtFirst
<1>2. KeepInv /\ KeepInv' /\ IdentInv /\ IdentInv' /\ [Next]_vars => [Graph!Next]_(Graph!graph)
  BY StepsSeen
<1>3. Init => IdentInv
  BY IdentAtFirst
<1>4. BaseInv /\ IdentInv /\ [Next]_vars => IdentInv'
  BY IdentKept
<1>5. Spec => []IdentInv
  BY <1>3, <1>4, HeapInvariance, PTL DEF Spec
<1> QED
  BY <1>1, <1>2, <1>5, KeepInvariance, PTL DEF Spec, ImplementsLispGraph, Graph!Spec

-----------------------------------------------------------------------------
(* A heap with room promotes whole generations.                            *)

\* A page in use has a start bit.
UsedInv == \A p \in Pages : gen[p] # "Free" => \E a \in start : PageOf(a) = p

LEMMA UsedKept ==
  ASSUME BaseInv, UsedInv, [Next]_vars
  PROVE  UsedInv'
<1>0. gen \in [Pages -> Gens \cup {"Free"}] /\ start \subseteq Addr /\ pinned \subseteq start
  BY DEF BaseInv, TypeOK, StartInv
<1>1. ASSUME NEW a \in Addr, NEW g, gen' = [gen EXCEPT ![PageOf(a)] = g],
             start' = start \cup {a}
      PROVE  UsedInv'
  <2>1. \A p \in Pages : gen'[p] # "Free" => \E b \in start' : PageOf(b) = p
    <3>1. ASSUME NEW p \in Pages, p # PageOf(a), gen'[p] # "Free"
          PROVE  \E b \in start' : PageOf(b) = p
      <4>1. gen[p] # "Free"
        BY <1>0, <1>1, <3>1
      <4> QED
        BY <1>1, <4>1 DEF UsedInv
    <3> QED
      BY <1>1, <3>1
  <2> QED
    BY <2>1 DEF UsedInv, Pages
<1>2. ASSUME NEW s \in RootSlots, NEW t \in Slots, AllocCons(s, t)
      PROVE  UsedInv'
  <2>1. PICK c, a : /\ a = Place("G0") /\ Take("G0", a, c, start)
                    /\ CanPlace("G0") /\ "G0" \in Gens
    BY <1>2 DEF AllocCons, Gens
  <2>2. a \in Addr /\ gen' = [gen EXCEPT ![PageOf(a)] = "G0"] /\ start' = start \cup {a}
    BY <2>1, TakeIs DEF BaseInv
  <2> QED
    BY <1>1, <2>2
<1>3. CASE CopyObject
  BY <1>1, <1>3, CopyIs
<1>4. CASE Reclaim
  <2>1. /\ gen' = [p \in Pages |-> CASE p \in Flipped -> destGen
                                     [] p \in Released -> "Free" [] OTHER -> gen[p]]
        /\ start' = start \ (On(chunk) \ pinned)
    BY <1>4 DEF Reclaim
  <2>2. ASSUME NEW p \in Pages, gen'[p] # "Free"
        PROVE  \E b \in start' : PageOf(b) = p
    <3>1. CASE p \in Flipped
      <4>1. PICK b \in pinned : PageOf(b) = p
        BY <3>1 DEF Flipped
      <4> QED
        BY <1>0, <2>1, <4>1
    <3>2. CASE p \notin Flipped
      <4>1. p \notin Released /\ p \notin chunk
        BY <2>1, <2>2, <3>2 DEF Released
      <4>2. gen[p] # "Free"
        BY <2>1, <2>2, <3>2, <4>1
      <4>3. PICK b \in start : PageOf(b) = p
        BY <4>2 DEF UsedInv
      <4> QED
        BY <2>1, <4>1, <4>3 DEF On
    <3> QED
      BY <3>1, <3>2
  <2> QED
    BY <2>2 DEF UsedInv, Pages
<1>5. CASE gen' = gen /\ start' = start
  BY <1>5 DEF UsedInv, Pages
<1>6. ASSUME NEW s \in Slots, NEW t \in Slots, Cdr(s, t) \/ Move(s, t) \/ Clear(s) \/ Rplacd(s, t)
      PROVE  gen' = gen /\ start' = start
  BY <1>6 DEF Cdr, Move, Clear, SetSlot, Rplacd, memory, table
<1>7. Drive \/ BeginPass \/ TakeChunk \/ Stall \/ Rewrite \/ EndPass \/ Finish \/ UNCHANGED vars
        => gen' = gen /\ start' = start
  BY DEF Drive, Collect, BeginPass, TakeChunk, Stall, Rewrite, EndPass, Finish, vars, memory, table
<1> QED
  BY <1>2, <1>3, <1>4, <1>5, <1>6, <1>7 DEF Next, Mutate, Collector, Slots

\* Outside a chunk the pages in use are no more than the objects allocated.
LEMMA UsedFew ==
  ASSUME BaseInv, IdentInv, UsedInv, chunk = {}
  PROVE  Cardinality(Pages \ PagesIn("Free")) <= MaxAllocs
<1> DEFINE Used == Pages \ PagesIn("Free")
           At(p) == CHOOSE a \in start : PageOf(a) = p
           f == [p \in Used |-> cell[At(p)].id]
<1>1. \A p \in Used : At(p) \in start /\ PageOf(At(p)) = p
  BY DEF UsedInv, PagesIn
<1>2. \A a \in start : a \in Addr /\ cell[a].kind = "obj"
  BY DEF BaseInv, TypeOK, StartInv, On
<1>3. \A p \in Used : f[p] \in UsedIds
  BY <1>1 DEF UsedIds
<1>4. ASSUME NEW p \in Used, NEW q \in Used, f[p] = f[q]
      PROVE  p = q
  <2>1. cell[At(p)].id = cell[At(q)].id
    BY <1>4
  <2>2. At(p) = At(q)
    <3> HIDE DEF At
    <3> QED
      BY <1>1, <1>2, <2>1 DEF IdentInv
  <2> QED
    BY <1>1, <2>2
<1>5. f \in Injection(Used, UsedIds)
  BY <1>3, <1>4 DEF Injection, IsInjective
<1> HIDE DEF f, At
<1>6. Cardinality(Used) <= Cardinality(UsedIds) /\ Cardinality(Used) \in Nat
  <2>1. IsFiniteSet(UsedIds)
    BY DEF BaseInv, IdInv
  <2>2. Cardinality(Used) <= Cardinality(UsedIds)
    BY <1>5, <2>1, FS_Injection
  <2>3. Used \in SUBSET Pages
    OBVIOUS
  <2> QED
    BY <2>2, <2>3, FinitePages
<1>7. Cardinality(UsedIds) \in Nat /\ Cardinality(UsedIds) <= allocs /\ allocs \in 0..MaxAllocs
  BY FS_CardinalityType DEF BaseInv, IdInv, TypeOK
<1> QED
  BY <1>6, <1>7, PageHeapAssumption

\* Where four pages are at hand for every object, a chunk takes all that waits.
LEMMA ChunkTakesAll ==
  ASSUME BaseInv, IdentInv, UsedInv, NPages >= 4 * MaxAllocs, TakeChunk
  PROVE  pending' = <<>>
<1> DEFINE Free == PagesIn("Free")
           Used == Pages \ Free
           Held == {p \in PagesIn(fromGen) : \E a \in pinned : PageOf(a) = p}
           u == Cardinality(Used)
           n == Len(pending)
           free == Cardinality(Free)
           held == Cardinality(Held)
<1>0. /\ phase = "chunk" /\ chunk = {} /\ pending # <<>> /\ passes # <<>>
      /\ pending \in Seq(Pages) /\ IsInjective(pending)
      /\ gen \in [Pages -> Gens \cup {"Free"}] /\ "Free" \notin Gens
      /\ NPages \in Nat /\ MaxAllocs \in Nat
  BY PageHeapAssumption DEF TakeChunk, BaseInv, TypeOK, PhaseInv, PageInv, Gens
<1>1. /\ Free \in SUBSET Pages /\ Used \in SUBSET Pages
      /\ IsFiniteSet(Used) /\ u \in Nat /\ free \in Nat /\ held \in Nat
  <2>1. Free \in SUBSET Pages /\ Used \in SUBSET Pages /\ Held \in SUBSET Pages
    BY DEF PagesIn
  <2> QED
    BY <2>1, FinitePages
<1>2. u <= MaxAllocs
  BY <1>0, UsedFew
<1>3. free = NPages - u
  <2>1. IsFiniteSet(Pages) /\ Cardinality(Pages) = NPages
    BY <1>0, FS_Interval, PageHeapAssumption DEF Pages
  <2>2. Pages \cap Used = Used /\ Pages \ Used = Free
    BY <1>1
  <2>3. Cardinality(Pages \ Used) = Cardinality(Pages) - Cardinality(Pages \cap Used)
    BY <2>1, FS_Difference
  <2> QED
    BY <2>1, <2>2, <2>3
<1>4. PagesIn(fromGen) \subseteq Used
  <2>1. fromGen \in Gens
    BY <1>0, PassIs DEF BaseInv, Collecting
  <2> QED
    BY <1>0, <2>1 DEF PagesIn
<1>5. held <= u
  BY <1>1, <1>4, FS_Subset
<1>6. n \in Nat /\ n # 0 /\ n <= u
  <2>1. n \in Nat /\ n # 0 /\ pending \in [1..n -> Pages]
    BY <1>0, EmptySeq, LenProperties
  <2>2. \A i \in 1..n : pending[i] \in Used
    <3>1. \A i \in 1..n : pending[i] \in Ahead
      BY <1>0, <2>1, LenProperties DEF Ahead, ToSet
    <3>2. \A p \in Ahead : gen[p] = fromGen
      BY DEF BaseInv, PageInv
    <3> QED
      BY <1>4, <2>1, <3>1, <3>2 DEF PagesIn
  <2>3. pending \in Injection(1..n, Used)
    <3> HIDE DEF Used
    <3>1. DOMAIN pending = 1..n
      BY <2>1
    <3>2. pending \in [1..n -> Used]
      BY <2>1, <2>2
    <3> QED
      BY <1>0, <3>1, <3>2 DEF IsInjective, Injection
  <2>4. Cardinality(1..n) <= u
    <3> HIDE DEF Used, n
    <3>1. IsFiniteSet(Used)
      BY <1>1
    <3> QED
      BY <2>3, <3>1, FS_Injection
  <2>5. Cardinality(1..n) = n
    <3>1. 1 \in Int /\ n \in Int
      BY <2>1
    <3>2. Cardinality(1..n) = IF 1 > n THEN 0 ELSE n - 1 + 1
      BY <3>1, FS_Interval
    <3> QED
      BY <2>1, <3>2
  <2> QED
    BY <2>1, <2>4, <2>5
<1>7. Budget = IF held >= free THEN 0 ELSE ((free - held) * 7) \div 8
  BY DEF Budget
<1>8. ChunkSize = AtMost(IF Budget = 0 THEN 1 ELSE Budget, n)
  BY DEF ChunkSize
<1>9. pending' = SubSeq(pending, ChunkSize + 1, n)
  BY DEF TakeChunk
<1> HIDE DEF Free, Used, Held, u, n, free, held
<1>10. Budget \in Nat /\ Budget >= n
  <2>1. free - held >= 2 * n /\ held < free /\ free - held \in Nat
    BY <1>0, <1>1, <1>2, <1>3, <1>5, <1>6
  <2>2. \A x \in Nat : x >= 2 * n => (x * 7) \div 8 \in Nat /\ (x * 7) \div 8 >= n
    BY <1>6
  <2> QED
    BY <1>7, <2>1, <2>2, <1>1
<1>11. ChunkSize = n
  BY <1>6, <1>8, <1>10 DEF AtMost
<1>12. pending' = SubSeq(pending, n + 1, n)
  BY <1>9, <1>11
<1> QED
  BY <1>0, <1>6, <1>12, SubSeqProperties, EmptySeq

\* On a heap with four pages for every object ever allocated no promotion is
\* split: the first chunk of a pass takes the whole generation (chunk_size).
THEOREM RoomSuffices ==
  ASSUME NPages >= 4 * MaxAllocs
  PROVE  Spec => []PromotesWhole
<1> DEFINE Whole == phase = "copy" => pending = <<>>
           Inv == BaseInv /\ IdentInv /\ UsedInv /\ Whole
<1>1. Init => Inv
  <2>1. Init => UsedInv /\ Whole
    BY DEF Init, UsedInv
  <2> QED
    BY <2>1, HeapAtFirst, IdentAtFirst
<1>2. Inv /\ [Next]_vars => Inv'
  <2> SUFFICES ASSUME BaseInv, IdentInv, UsedInv, Whole, [Next]_vars
               PROVE  Inv'
    OBVIOUS
  <2>1. BaseInv' /\ IdentInv' /\ UsedInv'
    BY BaseKept, IdentKept, UsedKept
  <2>2. CASE TakeChunk
    <3>1. pending' = <<>>
      BY <2>2, ChunkTakesAll
    <3> QED
      BY <2>1, <3>1
  <2>3. CopyObject \/ Stall \/ UNCHANGED vars => phase' # "copy" \/ (phase = "copy" /\ pending' = pending)
                                                   \/ (phase' = phase /\ pending' = pending)
    BY DEF CopyObject, Stall, pass, vars
  <2>4. BeginPass \/ Rewrite \/ Reclaim \/ EndPass \/ Finish \/ Drive => phase' # "copy"
    BY DEF BeginPass, Rewrite, Reclaim, EndPass, Finish, Drive, Collect
  <2>5. Mutate => phase' # "copy"
    BY DEF Mutate, AllocCons, Cdr, Move, Clear, SetSlot, Rplacd
  <2> QED
    BY <2>1, <2>2, <2>3, <2>4, <2>5 DEF Next, Collector
<1>3. Inv => PromotesWhole
  BY DEF PromotesWhole
<1> QED
  BY <1>1, <1>2, <1>3, PTL DEF Spec

=============================================================================
