------------------------- MODULE NonLocalExitProofs -------------------------
(***************************************************************************)
(* For any program, names, tags, values and depth: the types of            *)
(* NonLocalExit; and until an exit goes astray, that the top level is      *)
(* clean and that each exit has the dynamic extent it promises.            *)
(*                                                                         *)
(* The invariant says of the registers, and of the copies of them that     *)
(* cleanups, loops and handlers keep, that each set of flags leads to one  *)
(* frame and to no other on the way (Sound). The proofs are about the      *)
(* first n frames of a stack: what each action does to the stack comes     *)
(* last, then the mapping to the forms of DynamicExtent.                   *)
(***************************************************************************)
EXTENDS NonLocalExit, FiniteSetTheorems, SequenceTheorems,
        WellFoundedInduction, TLAPS

-----------------------------------------------------------------------------
(* The inductive invariant, over the first n frames of f, the registers R  *)
(* and the exit e.                                                         *)

Loopish(fr) == fr.kind = "loop" \/ (fr.kind = "block" /\ fr.name = Nil)
Handling(fr) == fr.kind \in {"handler", "guard"}

NoLoop(f, a, b) == \A i \in a..b : ~Loopish(f[i])
NoHandler(f, a, b) == \A i \in a..b : ~Handling(f[i])

(* Nothing is under way, so what an unwind-protect saves is clear.         *)
AtRest(R, e) ==
    /\ e = NoExit
    /\ ~R.abort /\ R.target = None /\ ~R.throw

(* The registers lead the exit e to the frame it was started for, and to   *)
(* no other: one conjunction per kind of exit.                             *)
ByBlock(f, R, e, n) ==
    /\ f[e.goal].kind = "block"
    /\ R.target = f[e.goal].name /\ R.target # None /\ ~R.throw
    /\ f[e.goal].value = e.value
    /\ \A i \in (e.goal + 1)..n : ~(f[i].kind = "block" /\ f[i].name = R.target)

ByThrow(f, R, e, n) ==
    /\ f[e.goal].kind = "catch"
    /\ R.target = None /\ R.throw /\ R.tag = f[e.goal].name
    /\ f[e.goal].value = e.value
    /\ \A i \in (e.goal + 1)..n : ~(f[i].kind = "catch" /\ f[i].name = R.tag)

ByReturn(f, R, e, n) ==
    /\ Loopish(f[e.goal])
    /\ R.target = None /\ ~R.throw
    /\ R.loop /\ R.loopValue = e.value
    /\ NoLoop(f, e.goal + 1, n)

ByCondition(f, R, e, n) ==
    /\ Handling(f[e.goal])
    /\ R.target = None /\ ~R.throw
    /\ R.cond /\ R.slot = e.value
    /\ NoHandler(f, e.goal + 1, n)

InFlight(f, R, e, n) ==
    /\ R.abort
    /\ e.goal \in 1..n
    /\ \A i \in e.goal..n : f[i].kind \notin {"cleanup", "failed"}
    /\ \/ ByBlock(f, R, e, n) \/ ByThrow(f, R, e, n)
       \/ ByReturn(f, R, e, n) \/ ByCondition(f, R, e, n)

Consistent(f, R, e, n) == AtRest(R, e) \/ InFlight(f, R, e, n)

(* What a cleanup holds up was consistent when it began and still is.      *)
HeldInv(f, n) ==
    \A c \in 1..n :
        f[c].kind = "cleanup" => Consistent(f, f[c].saved, f[c].held, c - 1)

IsReturn(f, R, e) == R.abort /\ R.target = None /\ e.goal # 0 /\ Loopish(f[e.goal])
IsCondition(f, R, e) == R.abort /\ e.goal # 0 /\ Handling(f[e.goal])

HoldsReturn(f, c) == f[c].kind = "cleanup" /\ IsReturn(f, f[c].saved, f[c].held)
HoldsCondition(f, c) == f[c].kind = "cleanup" /\ IsCondition(f, f[c].saved, f[c].held)

(* unwind-protect does not save the registers of a (return). While one is  *)
(* held up at c they are in place, or kept by the first loop above c, which*)
(* no block NIL precedes.                                                  *)
LoopKept(f, R, n) ==
    \A c \in 1..n : HoldsReturn(f, c) =>
        /\ NoLoop(f, c + 1, n) => R.loop /\ R.loopValue = f[c].held.value
        /\ \A j \in (c + 1)..n :
             Loopish(f[j]) /\ NoLoop(f, c + 1, j - 1)
               => /\ f[j].kind = "loop"
                  /\ f[j].saved.loop /\ f[j].saved.loopValue = f[c].held.value

(* The flag is up for no other reason, nor was it when a loop began.       *)
LoopCause(f, R, e, n) ==
    /\ R.loop =>
         \/ IsReturn(f, R, e)
         \/ \E c \in 1..n : HoldsReturn(f, c) /\ NoLoop(f, c + 1, n)
    /\ \A j \in 1..n : f[j].kind = "loop" /\ f[j].saved.loop =>
         \E c \in 1..(j - 1) : HoldsReturn(f, c) /\ NoLoop(f, c + 1, j - 1)

(* So it is with the registers of a condition and the first handler.       *)
CondKept(f, R, n) ==
    \A c \in 1..n : HoldsCondition(f, c) =>
        /\ NoHandler(f, c + 1, n) => R.cond /\ R.slot = f[c].held.value
        /\ \A j \in (c + 1)..n :
             Handling(f[j]) /\ NoHandler(f, c + 1, j - 1)
               => f[j].saved.cond /\ f[j].saved.slot = f[c].held.value

CondCause(f, R, e, n) ==
    /\ R.cond =>
         \/ IsCondition(f, R, e)
         \/ \E c \in 1..n : HoldsCondition(f, c) /\ NoHandler(f, c + 1, n)
    /\ \A j \in 1..n : Handling(f[j]) /\ f[j].saved.cond =>
         \E c \in 1..(j - 1) : HoldsCondition(f, c) /\ NoHandler(f, c + 1, j - 1)

LoopInv(f, R, e, n) == LoopKept(f, R, n) /\ LoopCause(f, R, e, n)
CondInv(f, R, e, n) == CondKept(f, R, n) /\ CondCause(f, R, e, n)

(* A frame failed is the innermost, with nothing under way; names of       *)
(* blocks are names.                                                       *)
Shape(f, e, n) ==
    \A i \in 1..n :
        /\ f[i].kind = "failed" => i = n /\ e = NoExit
        /\ f[i].kind = "block" => f[i].name \in BlockNames

Sound(f, R, e, n) ==
    /\ Consistent(f, R, e, n)
    /\ HeldInv(f, n)
    /\ LoopInv(f, R, e, n)
    /\ CondInv(f, R, e, n)

Counted == handlerDepth = Cardinality(Handlers)

PlaceOK == at \in Places /\ astray \in BOOLEAN

(* The types need no more than this.                                       *)
BasicInv == TypeOK /\ Counted

IInv ==
    /\ BasicInv
    /\ Shape(frames, exit, Len(frames))
    /\ Sound(frames, regs, exit, Len(frames))

(* No code starts while an exit is under way, and no session goes on that  *)
(* has an error.                                                           *)
Fresh ==
    /\ at = "entered" => ~regs.abort
    /\ at = "session" /\ frames # <<>> => Top.kind # "failed"

(* No condition is pending below the first handler.                        *)
NoneBelow(f, R, n) ==
    /\ NoHandler(f, 1, n) => ~R.cond
    /\ \A j \in 1..n : Handling(f[j]) /\ NoHandler(f, 1, j - 1) => ~f[j].saved.cond

BelowInv == NoneBelow(frames, regs, Len(frames))

ExitInv == BasicInv /\ BelowInv /\ (astray \/ (IInv /\ Fresh))

(* Code runs in which no exit is under way.                                *)
Open == alive /\ ~regs.abort /\ (frames # <<>> => Top.kind # "failed")

-----------------------------------------------------------------------------
(* What holds of the first n frames holds however the rest changes.        *)

Same(f, h, n) == \A i \in 1..n : h[i] = f[i]

(* The same up to values stashed where no cleanup is above.                *)
Alike(f, h, n) ==
    \A i \in 1..n :
        /\ h[i].kind = f[i].kind /\ h[i].name = f[i].name
        /\ h[i].saved = f[i].saved /\ h[i].held = f[i].held
        /\ \A c \in (i + 1)..n : f[c].kind = "cleanup" => h[i].value = f[i].value

\* Equal frames differ in no stashed value.
LEMMA SameIsAlike ==
  ASSUME NEW f, NEW h, NEW n \in Nat, Same(f, h, n)
  PROVE  Alike(f, h, n)
BY DEF Same, Alike

\* The registers lead an exit through equal frames alike.
LEMMA SameConsistent ==
  ASSUME NEW f, NEW h, NEW n \in Nat, Same(f, h, n),
         NEW R, NEW e, Consistent(f, R, e, n)
  PROVE  Consistent(h, R, e, n)
<1>1. CASE AtRest(R, e)
  BY <1>1 DEF Consistent
<1>2. CASE InFlight(f, R, e, n)
  <2>1. e.goal \in 1..n /\ h[e.goal] = f[e.goal]
    BY <1>2 DEF InFlight, Same
  <2>2. \A i \in e.goal..n : i \in 1..n /\ h[i] = f[i]
    BY <2>1 DEF Same
  <2>3. \A i \in (e.goal + 1)..n : h[i] = f[i]
    BY <2>1, <2>2
  <2>4. ByBlock(f, R, e, n) => ByBlock(h, R, e, n)
    BY <2>1, <2>3 DEF ByBlock
  <2>5. ByThrow(f, R, e, n) => ByThrow(h, R, e, n)
    BY <2>1, <2>3 DEF ByThrow
  <2>6. ByReturn(f, R, e, n) => ByReturn(h, R, e, n)
    BY <2>1, <2>3 DEF ByReturn, NoLoop
  <2>7. ByCondition(f, R, e, n) => ByCondition(h, R, e, n)
    BY <2>1, <2>3 DEF ByCondition, NoHandler
  <2> QED
    BY <1>2, <2>1, <2>2, <2>4, <2>5, <2>6, <2>7 DEF InFlight, Consistent
<1> QED
  BY <1>1, <1>2 DEF Consistent

\* A cleanup holds up an exit to a frame below it, or none.
LEMMA HeldGoal ==
  ASSUME NEW f, NEW n \in Nat, HeldInv(f, n),
         NEW c \in 1..n, f[c].kind = "cleanup"
  PROVE  f[c].held.goal \in 0..(c - 1)
BY DEF HeldInv, Consistent, AtRest, InFlight, NoExit

\* What cleanups hold up does not depend on values stashed above them.
LEMMA AlikeHeld ==
  ASSUME NEW f, NEW h, NEW n \in Nat, Alike(f, h, n), HeldInv(f, n)
  PROVE  /\ HeldInv(h, n)
         /\ \A c \in 1..n : HoldsReturn(h, c) <=> HoldsReturn(f, c)
         /\ \A c \in 1..n : HoldsCondition(h, c) <=> HoldsCondition(f, c)
<1>1. ASSUME NEW c \in 1..n, f[c].kind = "cleanup"
      PROVE  Consistent(h, f[c].saved, f[c].held, c - 1)
  <2>1. CASE AtRest(f[c].saved, f[c].held)
    BY <2>1 DEF Consistent
  <2>2. CASE InFlight(f, f[c].saved, f[c].held, c - 1)
    <3> DEFINE R == f[c].saved
               e == f[c].held
    <3> HIDE DEF R, e
    <3>1. e.goal \in 1..(c - 1)
      BY <2>2 DEF InFlight, R, e
    <3>2. \A i \in e.goal..(c - 1) :
             /\ h[i].kind = f[i].kind /\ h[i].name = f[i].name
             /\ h[i].value = f[i].value
      BY <1>1, <3>1 DEF Alike
    <3>3. ByBlock(f, R, e, c - 1) => ByBlock(h, R, e, c - 1)
      BY <3>1, <3>2 DEF ByBlock
    <3>4. ByThrow(f, R, e, c - 1) => ByThrow(h, R, e, c - 1)
      BY <3>1, <3>2 DEF ByThrow
    <3>5. ByReturn(f, R, e, c - 1) => ByReturn(h, R, e, c - 1)
      BY <3>1, <3>2 DEF ByReturn, NoLoop, Loopish
    <3>6. ByCondition(f, R, e, c - 1) => ByCondition(h, R, e, c - 1)
      BY <3>1, <3>2 DEF ByCondition, NoHandler, Handling
    <3>7. InFlight(f, R, e, c - 1)
      BY <2>2 DEF R, e
    <3>8. InFlight(h, R, e, c - 1)
      BY <3>1, <3>2, <3>3, <3>4, <3>5, <3>6, <3>7 DEF InFlight
    <3> QED
      BY <3>8 DEF Consistent, R, e
  <2> QED
    BY <1>1, <2>1, <2>2 DEF HeldInv, Consistent
<1>2. HeldInv(h, n)
  BY <1>1 DEF HeldInv, Alike
<1>3. ASSUME NEW c \in 1..n
      PROVE  (HoldsReturn(h, c) <=> HoldsReturn(f, c))
             /\ (HoldsCondition(h, c) <=> HoldsCondition(f, c))
  <2>1. CASE f[c].kind # "cleanup"
    BY <2>1 DEF HoldsReturn, HoldsCondition, Alike
  <2>2. CASE f[c].kind = "cleanup"
    <3>1. f[c].held.goal \in 0..(c - 1)
      BY <2>2, HeldGoal
    <3> QED
      BY <2>2, <3>1 DEF HoldsReturn, HoldsCondition, IsReturn, IsCondition,
                        Loopish, Handling, Alike
  <2> QED
    BY <2>1, <2>2
<1> QED
  BY <1>2, <1>3

\* Nor do the flags of a (return) and of a condition.
LEMMA AlikeKept ==
  ASSUME NEW f, NEW h, NEW n \in Nat, Alike(f, h, n), HeldInv(f, n),
         NEW R, NEW e, e.goal \in 0..n
  PROVE  /\ LoopKept(f, R, n) => LoopKept(h, R, n)
         /\ CondKept(f, R, n) => CondKept(h, R, n)
         /\ LoopCause(f, R, e, n) => LoopCause(h, R, e, n)
         /\ CondCause(f, R, e, n) => CondCause(h, R, e, n)
<1>1. /\ \A c \in 1..n : HoldsReturn(h, c) <=> HoldsReturn(f, c)
      /\ \A c \in 1..n : HoldsCondition(h, c) <=> HoldsCondition(f, c)
  BY AlikeHeld
<1>2. \A i \in 1..n : /\ h[i].kind = f[i].kind
                      /\ h[i].saved = f[i].saved /\ h[i].held = f[i].held
                      /\ Loopish(h[i]) <=> Loopish(f[i])
                      /\ Handling(h[i]) <=> Handling(f[i])
  BY DEF Alike, Loopish, Handling
<1>3. /\ \A c \in 1..n : /\ NoLoop(h, c + 1, n) <=> NoLoop(f, c + 1, n)
                         /\ NoHandler(h, c + 1, n) <=> NoHandler(f, c + 1, n)
      /\ \A c \in 1..n, j \in 1..n :
           /\ NoLoop(h, c + 1, j - 1) <=> NoLoop(f, c + 1, j - 1)
           /\ NoHandler(h, c + 1, j - 1) <=> NoHandler(f, c + 1, j - 1)
  BY <1>2 DEF NoLoop, NoHandler
<1>4. ASSUME LoopKept(f, R, n)
      PROVE  LoopKept(h, R, n)
  <2>1. ASSUME NEW c \in 1..n, HoldsReturn(h, c), NoLoop(h, c + 1, n)
        PROVE  R.loop /\ R.loopValue = h[c].held.value
    <3>1. HoldsReturn(f, c) /\ NoLoop(f, c + 1, n) /\ h[c].held = f[c].held
      BY <1>1, <1>2, <1>3, <2>1
    <3> QED
      BY <1>4, <3>1 DEF LoopKept
  <2>2. ASSUME NEW c \in 1..n, HoldsReturn(h, c),
               NEW j \in (c + 1)..n, Loopish(h[j]), NoLoop(h, c + 1, j - 1)
        PROVE  h[j].kind = "loop" /\ h[j].saved.loop
                 /\ h[j].saved.loopValue = h[c].held.value
    <3>1. /\ HoldsReturn(f, c) /\ Loopish(f[j]) /\ NoLoop(f, c + 1, j - 1)
          /\ h[c].held = f[c].held
          /\ h[j].kind = f[j].kind /\ h[j].saved = f[j].saved
      BY <1>1, <1>2, <1>3, <2>2
    <3> QED
      BY <1>4, <3>1 DEF LoopKept
  <2> QED
    BY <2>1, <2>2 DEF LoopKept
<1>5. ASSUME CondKept(f, R, n)
      PROVE  CondKept(h, R, n)
  <2>1. ASSUME NEW c \in 1..n, HoldsCondition(h, c), NoHandler(h, c + 1, n)
        PROVE  R.cond /\ R.slot = h[c].held.value
    <3>1. HoldsCondition(f, c) /\ NoHandler(f, c + 1, n) /\ h[c].held = f[c].held
      BY <1>1, <1>2, <1>3, <2>1
    <3> QED
      BY <1>5, <3>1 DEF CondKept
  <2>2. ASSUME NEW c \in 1..n, HoldsCondition(h, c),
               NEW j \in (c + 1)..n, Handling(h[j]), NoHandler(h, c + 1, j - 1)
        PROVE  h[j].saved.cond /\ h[j].saved.slot = h[c].held.value
    <3>1. /\ HoldsCondition(f, c) /\ Handling(f[j]) /\ NoHandler(f, c + 1, j - 1)
          /\ h[c].held = f[c].held
          /\ h[j].kind = f[j].kind /\ h[j].saved = f[j].saved
      BY <1>1, <1>2, <1>3, <2>2
    <3> QED
      BY <1>5, <3>1 DEF CondKept
  <2> QED
    BY <2>1, <2>2 DEF CondKept
<1>6. /\ IsReturn(f, R, e) => IsReturn(h, R, e)
      /\ IsCondition(f, R, e) => IsCondition(h, R, e)
  BY <1>2 DEF IsReturn, IsCondition
<1>7. ASSUME LoopCause(f, R, e, n)
      PROVE  LoopCause(h, R, e, n)
  <2>1. ASSUME R.loop, ~IsReturn(h, R, e)
        PROVE  \E c \in 1..n : HoldsReturn(h, c) /\ NoLoop(h, c + 1, n)
    <3>1. PICK c \in 1..n : HoldsReturn(f, c) /\ NoLoop(f, c + 1, n)
      BY <1>7, <1>6, <2>1 DEF LoopCause
    <3> QED
      BY <1>1, <1>3, <3>1
  <2>2. ASSUME NEW j \in 1..n, h[j].kind = "loop", h[j].saved.loop
        PROVE  \E c \in 1..(j - 1) : HoldsReturn(h, c) /\ NoLoop(h, c + 1, j - 1)
    <3>1. PICK c \in 1..(j - 1) : HoldsReturn(f, c) /\ NoLoop(f, c + 1, j - 1)
      BY <1>7, <1>2, <2>2 DEF LoopCause
    <3>2. c \in 1..n
      OBVIOUS
    <3> QED
      BY <1>1, <1>3, <3>1, <3>2
  <2> QED
    BY <2>1, <2>2 DEF LoopCause
<1>8. ASSUME CondCause(f, R, e, n)
      PROVE  CondCause(h, R, e, n)
  <2>1. ASSUME R.cond, ~IsCondition(h, R, e)
        PROVE  \E c \in 1..n : HoldsCondition(h, c) /\ NoHandler(h, c + 1, n)
    <3>1. PICK c \in 1..n : HoldsCondition(f, c) /\ NoHandler(f, c + 1, n)
      BY <1>8, <1>6, <2>1 DEF CondCause
    <3> QED
      BY <1>1, <1>3, <3>1
  <2>2. ASSUME NEW j \in 1..n, Handling(h[j]), h[j].saved.cond
        PROVE  \E c \in 1..(j - 1) : HoldsCondition(h, c) /\ NoHandler(h, c + 1, j - 1)
    <3>1. PICK c \in 1..(j - 1) : HoldsCondition(f, c) /\ NoHandler(f, c + 1, j - 1)
      BY <1>8, <1>2, <2>2 DEF CondCause
    <3>2. c \in 1..n
      OBVIOUS
    <3> QED
      BY <1>1, <1>3, <3>1, <3>2
  <2> QED
    BY <2>1, <2>2 DEF CondCause
<1> QED
  BY <1>4, <1>5, <1>7, <1>8

\* What is sound of some frames is sound of equal ones.
LEMMA SameSound ==
  ASSUME NEW f, NEW h, NEW n \in Nat, Same(f, h, n),
         NEW R, NEW e, Sound(f, R, e, n)
  PROVE  Sound(h, R, e, n)
<1>1. e.goal \in 0..n
  BY DEF Sound, Consistent, AtRest, InFlight, NoExit
<1> QED
  BY <1>1, SameIsAlike, SameConsistent, AlikeHeld, AlikeKept
     DEF Sound, LoopInv, CondInv

-----------------------------------------------------------------------------
(* What each change of the stack and of the registers does to LoopInv.     *)

\* One frame more: no form takes a (return) up to it if none did before it.
LEMMA NoLoopStep ==
  ASSUME NEW f, NEW a \in Int, NEW n \in Int
  PROVE  /\ NoLoop(f, a, n) => NoLoop(f, a, n - 1)
         /\ NoLoop(f, a, n - 1) /\ ~Loopish(f[n]) => NoLoop(f, a, n)
         /\ NoLoop(f, a, n) /\ a <= n => ~Loopish(f[n])
BY DEF NoLoop

\* A frame that does not answer to a (return) is left. (Or a cleanup ends,
\* and the exit that it held is under way again.)
LEMMA LoopPop ==
  ASSUME NEW f, NEW n \in Nat \ {0}, NEW R, NEW e, NEW S, NEW d,
         LoopInv(f, R, e, n), ~Loopish(f[n]),
         IsReturn(f, R, e) \/ HoldsReturn(f, n) => IsReturn(f, S, d),
         S.loop = R.loop, S.loopValue = R.loopValue
  PROVE  LoopInv(f, S, d, n - 1)
<1>1. \A c \in 1..(n - 1) : NoLoop(f, c + 1, n - 1) <=> NoLoop(f, c + 1, n)
  BY NoLoopStep
<1>2. LoopKept(f, S, n - 1)
  BY <1>1 DEF LoopInv, LoopKept
<1>3. ASSUME S.loop, ~IsReturn(f, S, d)
      PROVE  \E c \in 1..(n - 1) : HoldsReturn(f, c) /\ NoLoop(f, c + 1, n - 1)
  <2>1. PICK c \in 1..n : HoldsReturn(f, c) /\ NoLoop(f, c + 1, n)
    BY <1>3 DEF LoopInv, LoopCause
  <2>2. c # n
    BY <1>3, <2>1
  <2> QED
    BY <1>1, <2>1, <2>2
<1>4. LoopCause(f, S, d, n - 1)
  BY <1>3 DEF LoopInv, LoopCause
<1> QED
  BY <1>2, <1>4 DEF LoopInv

\* A loop that ends restores the registers.
LEMMA LoopPopLoop ==
  ASSUME NEW f, NEW n \in Nat \ {0}, NEW R, NEW e, NEW S, NEW d,
         LoopInv(f, R, e, n), f[n].kind = "loop",
         S.loop = f[n].saved.loop, S.loopValue = f[n].saved.loopValue
  PROVE  LoopInv(f, S, d, n - 1)
<1>1. Loopish(f[n])
  BY DEF Loopish
<1>2. ASSUME NEW c \in 1..(n - 1), HoldsReturn(f, c), NoLoop(f, c + 1, n - 1)
      PROVE  S.loop /\ S.loopValue = f[c].held.value
  <2>1. n \in (c + 1)..n /\ c \in 1..n
    OBVIOUS
  <2> QED
    BY <1>1, <1>2, <2>1 DEF LoopInv, LoopKept
<1>3. LoopKept(f, S, n - 1)
  BY <1>2 DEF LoopInv, LoopKept
<1>4. LoopCause(f, S, d, n - 1)
  BY DEF LoopInv, LoopCause
<1> QED
  BY <1>3, <1>4 DEF LoopInv

\* A frame that does not answer to a (return) is entered.
LEMMA LoopPush ==
  ASSUME NEW f, NEW n \in Nat, NEW R, NEW e, NEW S, NEW d,
         LoopInv(f, R, e, n), ~Loopish(f[n + 1]), f[n + 1].kind # "cleanup",
         IsReturn(f, R, e) => IsReturn(f, S, d),
         S.loop = R.loop, S.loopValue = R.loopValue
  PROVE  LoopInv(f, S, d, n + 1)
<1>1. \A c \in 1..n : NoLoop(f, c + 1, n + 1) <=> NoLoop(f, c + 1, n)
  BY DEF NoLoop
<1>2. ASSUME NEW c \in 1..(n + 1), HoldsReturn(f, c)
      PROVE  c \in 1..n
  BY <1>2 DEF HoldsReturn
<1>3. LoopKept(f, S, n + 1)
  BY <1>1, <1>2 DEF LoopInv, LoopKept
<1>4. ASSUME S.loop, ~IsReturn(f, S, d)
      PROVE  \E c \in 1..(n + 1) : HoldsReturn(f, c) /\ NoLoop(f, c + 1, n + 1)
  <2>1. PICK c \in 1..n : HoldsReturn(f, c) /\ NoLoop(f, c + 1, n)
    BY <1>4 DEF LoopInv, LoopCause
  <2> QED
    BY <1>1, <2>1
<1>5. LoopCause(f, S, d, n + 1)
  <2>1. f[n + 1].kind # "loop"
    BY DEF Loopish
  <2> QED
    BY <1>4, <2>1 DEF LoopInv, LoopCause
<1> QED
  BY <1>3, <1>5 DEF LoopInv

\* A cleanup begins and holds up what was under way.
LEMMA LoopPushCleanup ==
  ASSUME NEW f, NEW n \in Nat, NEW R, NEW e, NEW S, NEW d,
         LoopInv(f, R, e, n), Consistent(f, R, e, n),
         f[n + 1].kind = "cleanup", f[n + 1].saved = R, f[n + 1].held = e,
         S.loop = R.loop, S.loopValue = R.loopValue
  PROVE  LoopInv(f, S, d, n + 1)
<1>1. /\ ~Loopish(f[n + 1])
      /\ HoldsReturn(f, n + 1) <=> IsReturn(f, R, e)
  BY DEF Loopish, HoldsReturn
<1>2. \A c \in 1..n : NoLoop(f, c + 1, n + 1) <=> NoLoop(f, c + 1, n)
  BY <1>1 DEF NoLoop
<1>3. IsReturn(f, R, e) => R.loop /\ R.loopValue = e.value
  BY DEF Consistent, AtRest, NoExit, InFlight, ByBlock, ByThrow, ByReturn,
         ByCondition, IsReturn, Loopish, Handling
<1>4. ASSUME NEW c \in 1..(n + 1), HoldsReturn(f, c), NoLoop(f, c + 1, n + 1)
      PROVE  S.loop /\ S.loopValue = f[c].held.value
  <2>1. CASE c = n + 1
    BY <1>1, <1>3, <1>4, <2>1
  <2>2. CASE c \in 1..n
    BY <1>2, <1>4, <2>2 DEF LoopInv, LoopKept
  <2> QED
    BY <2>1, <2>2
<1>5. LoopKept(f, S, n + 1)
  BY <1>1, <1>4 DEF LoopInv, LoopKept
<1>6. ASSUME S.loop
      PROVE  \E c \in 1..(n + 1) : HoldsReturn(f, c) /\ NoLoop(f, c + 1, n + 1)
  <2>1. CASE IsReturn(f, R, e)
    BY <1>1, <2>1 DEF NoLoop
  <2>2. CASE ~IsReturn(f, R, e)
    <3>1. PICK c \in 1..n : HoldsReturn(f, c) /\ NoLoop(f, c + 1, n)
      BY <1>6, <2>2 DEF LoopInv, LoopCause
    <3> QED
      BY <1>2, <3>1
  <2> QED
    BY <2>1, <2>2
<1>7. LoopCause(f, S, d, n + 1)
  BY <1>1, <1>6 DEF LoopInv, LoopCause, Loopish
<1> QED
  BY <1>5, <1>7 DEF LoopInv

\* A loop begins: it keeps the registers and clears them.
LEMMA LoopPushLoop ==
  ASSUME NEW f, NEW n \in Nat, NEW R, NEW e, NEW S, NEW d,
         LoopInv(f, R, e, n), ~IsReturn(f, R, e),
         f[n + 1].kind = "loop", f[n + 1].saved = R, ~S.loop
  PROVE  LoopInv(f, S, d, n + 1)
<1>1. Loopish(f[n + 1])
  BY DEF Loopish
<1>2. \A c \in 1..n : ~NoLoop(f, c + 1, n + 1)
  BY <1>1 DEF NoLoop
<1>3. ASSUME NEW c \in 1..(n + 1), HoldsReturn(f, c)
      PROVE  c \in 1..n
  BY <1>3 DEF HoldsReturn
<1>4. ASSUME NEW c \in 1..n, HoldsReturn(f, c),
             NEW j \in (c + 1)..(n + 1), Loopish(f[j]), NoLoop(f, c + 1, j - 1)
      PROVE  /\ f[j].kind = "loop"
             /\ f[j].saved.loop /\ f[j].saved.loopValue = f[c].held.value
  <2>1. CASE j = n + 1
    BY <1>4, <2>1 DEF LoopInv, LoopKept
  <2>2. CASE j \in (c + 1)..n
    BY <1>4, <2>2 DEF LoopInv, LoopKept
  <2> QED
    BY <2>1, <2>2
<1>5. LoopKept(f, S, n + 1)
  BY <1>2, <1>3, <1>4 DEF LoopKept
<1>6. ASSUME NEW j \in 1..(n + 1), f[j].kind = "loop", f[j].saved.loop
      PROVE  \E c \in 1..(j - 1) : HoldsReturn(f, c) /\ NoLoop(f, c + 1, j - 1)
  <2>1. CASE j = n + 1
    BY <1>6, <2>1 DEF LoopInv, LoopCause
  <2>2. CASE j \in 1..n
    BY <1>6, <2>2 DEF LoopInv, LoopCause
  <2> QED
    BY <2>1, <2>2
<1>7. LoopCause(f, S, d, n + 1)
  BY <1>6 DEF LoopCause
<1> QED
  BY <1>5, <1>7 DEF LoopInv

\* A (return) starts.
LEMMA LoopStart ==
  ASSUME NEW f, NEW n \in Nat, NEW R, NEW e, NEW S, NEW d,
         LoopInv(f, R, e, n), NEW g \in 1..n, Loopish(f[g]),
         \A i \in g..n : f[i].kind # "cleanup",
         S.loop, IsReturn(f, S, d)
  PROVE  LoopInv(f, S, d, n)
<1>1. \A c \in 1..n : HoldsReturn(f, c) => ~NoLoop(f, c + 1, n)
  BY DEF HoldsReturn, NoLoop
<1>2. LoopKept(f, S, n)
  BY <1>1 DEF LoopInv, LoopKept
<1>3. LoopCause(f, S, d, n)
  BY DEF LoopInv, LoopCause
<1> QED
  BY <1>2, <1>3 DEF LoopInv

\* Another exit starts.
LEMMA LoopStay ==
  ASSUME NEW f, NEW n \in Nat, NEW R, NEW e, NEW S, NEW d,
         LoopInv(f, R, e, n), IsReturn(f, R, e) => IsReturn(f, S, d),
         S.loop = R.loop, S.loopValue = R.loopValue
  PROVE  LoopInv(f, S, d, n)
BY DEF LoopInv, LoopKept, LoopCause

\* A block NIL is left with the flag down.
LEMMA LoopPopBlock ==
  ASSUME NEW f, NEW n \in Nat \ {0}, NEW R, NEW e, NEW S, NEW d,
         LoopInv(f, R, e, n), f[n].kind = "block", f[n].name = Nil, ~S.loop
  PROVE  LoopInv(f, S, d, n - 1)
<1>1. Loopish(f[n]) /\ f[n].kind # "loop"
  BY DEF Loopish
<1>2. ASSUME NEW c \in 1..(n - 1), HoldsReturn(f, c), NoLoop(f, c + 1, n - 1)
      PROVE  FALSE
  <2>1. n \in (c + 1)..n /\ c \in 1..n
    OBVIOUS
  <2> QED
    BY <1>1, <1>2, <2>1 DEF LoopInv, LoopKept
<1>3. LoopKept(f, S, n - 1)
  BY <1>2 DEF LoopInv, LoopKept
<1>4. LoopCause(f, S, d, n - 1)
  BY DEF LoopInv, LoopCause
<1> QED
  BY <1>3, <1>4 DEF LoopInv

\* A block NIL is entered with the flag down, so no (return) is held up
\* with no loop above.
LEMMA LoopPushBlock ==
  ASSUME NEW f, NEW n \in Nat, NEW R, NEW e, NEW d,
         LoopInv(f, R, e, n), f[n + 1].kind = "block", f[n + 1].name = Nil,
         ~R.loop
  PROVE  LoopInv(f, R, d, n + 1)
<1>1. /\ Loopish(f[n + 1]) /\ f[n + 1].kind # "loop"
      /\ ~HoldsReturn(f, n + 1)
  BY DEF Loopish, HoldsReturn
<1>2. \A c \in 1..n : HoldsReturn(f, c) => ~NoLoop(f, c + 1, n)
  BY DEF LoopInv, LoopKept
<1>3. \A c \in 1..n : ~NoLoop(f, c + 1, n + 1)
  BY <1>1 DEF NoLoop
<1>4. ASSUME NEW c \in 1..n, HoldsReturn(f, c),
             NEW j \in (c + 1)..(n + 1), Loopish(f[j]), NoLoop(f, c + 1, j - 1)
      PROVE  /\ f[j].kind = "loop"
             /\ f[j].saved.loop /\ f[j].saved.loopValue = f[c].held.value
  <2>1. CASE j = n + 1
    BY <1>2, <1>4, <2>1
  <2>2. CASE j \in (c + 1)..n
    BY <1>4, <2>2 DEF LoopInv, LoopKept
  <2> QED
    BY <2>1, <2>2
<1>5. \A c \in 1..(n + 1) : HoldsReturn(f, c) => c \in 1..n
  BY <1>1
<1>6. LoopKept(f, R, n + 1)
  BY <1>3, <1>4, <1>5 DEF LoopKept
<1>7. LoopCause(f, R, d, n + 1)
  BY <1>1 DEF LoopInv, LoopCause
<1> QED
  BY <1>6, <1>7 DEF LoopInv

-----------------------------------------------------------------------------
(* The same for CondInv. Handlers keep the registers and guards do, so     *)
(* there is no counterpart of the block NIL.                               *)

\* The same for conditions.
LEMMA NoHandlerStep ==
  ASSUME NEW f, NEW a \in Int, NEW n \in Int
  PROVE  /\ NoHandler(f, a, n) => NoHandler(f, a, n - 1)
         /\ NoHandler(f, a, n - 1) /\ ~Handling(f[n]) => NoHandler(f, a, n)
         /\ NoHandler(f, a, n) /\ a <= n => ~Handling(f[n])
BY DEF NoHandler

\* A frame that does not handle conditions is left. (Or a cleanup ends,
\* and the exit that it held is under way again.)
LEMMA CondPop ==
  ASSUME NEW f, NEW n \in Nat \ {0}, NEW R, NEW e, NEW S, NEW d,
         CondInv(f, R, e, n), ~Handling(f[n]),
         IsCondition(f, R, e) \/ HoldsCondition(f, n) => IsCondition(f, S, d),
         S.cond = R.cond, S.slot = R.slot
  PROVE  CondInv(f, S, d, n - 1)
<1>1. \A c \in 1..(n - 1) : NoHandler(f, c + 1, n - 1) <=> NoHandler(f, c + 1, n)
  BY NoHandlerStep
<1>2. CondKept(f, S, n - 1)
  BY <1>1 DEF CondInv, CondKept
<1>3. ASSUME S.cond, ~IsCondition(f, S, d)
      PROVE  \E c \in 1..(n - 1) : HoldsCondition(f, c) /\ NoHandler(f, c + 1, n - 1)
  <2>1. PICK c \in 1..n : HoldsCondition(f, c) /\ NoHandler(f, c + 1, n)
    BY <1>3 DEF CondInv, CondCause
  <2>2. c # n
    BY <1>3, <2>1
  <2> QED
    BY <1>1, <2>1, <2>2
<1>4. CondCause(f, S, d, n - 1)
  BY <1>3 DEF CondInv, CondCause
<1> QED
  BY <1>2, <1>4 DEF CondInv

\* A handler that ends restores the registers.
LEMMA CondPopHandler ==
  ASSUME NEW f, NEW n \in Nat \ {0}, NEW R, NEW e, NEW S, NEW d,
         CondInv(f, R, e, n), Handling(f[n]),
         S.cond = f[n].saved.cond, S.slot = f[n].saved.slot
  PROVE  CondInv(f, S, d, n - 1)
<1>1. Handling(f[n])
  OBVIOUS
<1>2. ASSUME NEW c \in 1..(n - 1), HoldsCondition(f, c), NoHandler(f, c + 1, n - 1)
      PROVE  S.cond /\ S.slot = f[c].held.value
  <2>1. n \in (c + 1)..n /\ c \in 1..n
    OBVIOUS
  <2> QED
    BY <1>1, <1>2, <2>1 DEF CondInv, CondKept
<1>3. CondKept(f, S, n - 1)
  BY <1>2 DEF CondInv, CondKept
<1>4. CondCause(f, S, d, n - 1)
  BY DEF CondInv, CondCause
<1> QED
  BY <1>3, <1>4 DEF CondInv

\* A frame that does not handle conditions is entered.
LEMMA CondPush ==
  ASSUME NEW f, NEW n \in Nat, NEW R, NEW e, NEW S, NEW d,
         CondInv(f, R, e, n), ~Handling(f[n + 1]), f[n + 1].kind # "cleanup",
         IsCondition(f, R, e) => IsCondition(f, S, d),
         S.cond = R.cond, S.slot = R.slot
  PROVE  CondInv(f, S, d, n + 1)
<1>1. \A c \in 1..n : NoHandler(f, c + 1, n + 1) <=> NoHandler(f, c + 1, n)
  BY DEF NoHandler
<1>2. ASSUME NEW c \in 1..(n + 1), HoldsCondition(f, c)
      PROVE  c \in 1..n
  BY <1>2 DEF HoldsCondition
<1>3. CondKept(f, S, n + 1)
  BY <1>1, <1>2 DEF CondInv, CondKept
<1>4. ASSUME S.cond, ~IsCondition(f, S, d)
      PROVE  \E c \in 1..(n + 1) : HoldsCondition(f, c) /\ NoHandler(f, c + 1, n + 1)
  <2>1. PICK c \in 1..n : HoldsCondition(f, c) /\ NoHandler(f, c + 1, n)
    BY <1>4 DEF CondInv, CondCause
  <2> QED
    BY <1>1, <2>1
<1>5. CondCause(f, S, d, n + 1)
  BY <1>4 DEF CondInv, CondCause
<1> QED
  BY <1>3, <1>5 DEF CondInv

\* A cleanup begins and holds up what was under way.
LEMMA CondPushCleanup ==
  ASSUME NEW f, NEW n \in Nat, NEW R, NEW e, NEW S, NEW d,
         CondInv(f, R, e, n), Consistent(f, R, e, n),
         f[n + 1].kind = "cleanup", f[n + 1].saved = R, f[n + 1].held = e,
         S.cond = R.cond, S.slot = R.slot
  PROVE  CondInv(f, S, d, n + 1)
<1>1. /\ ~Handling(f[n + 1])
      /\ HoldsCondition(f, n + 1) <=> IsCondition(f, R, e)
  BY DEF Handling, HoldsCondition
<1>2. \A c \in 1..n : NoHandler(f, c + 1, n + 1) <=> NoHandler(f, c + 1, n)
  BY <1>1 DEF NoHandler
<1>3. IsCondition(f, R, e) => R.cond /\ R.slot = e.value
  BY DEF Consistent, AtRest, NoExit, InFlight, ByBlock, ByThrow, ByReturn,
         ByCondition, IsCondition, Loopish, Handling
<1>4. ASSUME NEW c \in 1..(n + 1), HoldsCondition(f, c), NoHandler(f, c + 1, n + 1)
      PROVE  S.cond /\ S.slot = f[c].held.value
  <2>1. CASE c = n + 1
    BY <1>1, <1>3, <1>4, <2>1
  <2>2. CASE c \in 1..n
    BY <1>2, <1>4, <2>2 DEF CondInv, CondKept
  <2> QED
    BY <2>1, <2>2
<1>5. CondKept(f, S, n + 1)
  BY <1>1, <1>4 DEF CondInv, CondKept
<1>6. ASSUME S.cond
      PROVE  \E c \in 1..(n + 1) : HoldsCondition(f, c) /\ NoHandler(f, c + 1, n + 1)
  <2>1. CASE IsCondition(f, R, e)
    BY <1>1, <2>1 DEF NoHandler
  <2>2. CASE ~IsCondition(f, R, e)
    <3>1. PICK c \in 1..n : HoldsCondition(f, c) /\ NoHandler(f, c + 1, n)
      BY <1>6, <2>2 DEF CondInv, CondCause
    <3> QED
      BY <1>2, <3>1
  <2> QED
    BY <2>1, <2>2
<1>7. CondCause(f, S, d, n + 1)
  BY <1>1, <1>6 DEF CondInv, CondCause, Handling
<1> QED
  BY <1>5, <1>7 DEF CondInv

\* A handler begins: it keeps the registers and clears them.
LEMMA CondPushHandler ==
  ASSUME NEW f, NEW n \in Nat, NEW R, NEW e, NEW S, NEW d,
         CondInv(f, R, e, n), ~IsCondition(f, R, e),
         Handling(f[n + 1]), f[n + 1].saved = R, ~S.cond
  PROVE  CondInv(f, S, d, n + 1)
<1>1. Handling(f[n + 1])
  OBVIOUS
<1>2. \A c \in 1..n : ~NoHandler(f, c + 1, n + 1)
  BY <1>1 DEF NoHandler
<1>3. ASSUME NEW c \in 1..(n + 1), HoldsCondition(f, c)
      PROVE  c \in 1..n
  BY <1>3 DEF HoldsCondition, Handling
<1>4. ASSUME NEW c \in 1..n, HoldsCondition(f, c),
             NEW j \in (c + 1)..(n + 1), Handling(f[j]), NoHandler(f, c + 1, j - 1)
      PROVE  /\ f[j].saved.cond /\ f[j].saved.slot = f[c].held.value
  <2>1. CASE j = n + 1
    BY <1>4, <2>1 DEF CondInv, CondKept
  <2>2. CASE j \in (c + 1)..n
    BY <1>4, <2>2 DEF CondInv, CondKept
  <2> QED
    BY <2>1, <2>2
<1>5. CondKept(f, S, n + 1)
  BY <1>2, <1>3, <1>4 DEF CondKept
<1>6. ASSUME NEW j \in 1..(n + 1), Handling(f[j]), f[j].saved.cond
      PROVE  \E c \in 1..(j - 1) : HoldsCondition(f, c) /\ NoHandler(f, c + 1, j - 1)
  <2>1. CASE j = n + 1
    BY <1>6, <2>1 DEF CondInv, CondCause
  <2>2. CASE j \in 1..n
    BY <1>6, <2>2 DEF CondInv, CondCause
  <2> QED
    BY <2>1, <2>2
<1>7. CondCause(f, S, d, n + 1)
  BY <1>6 DEF CondCause
<1> QED
  BY <1>5, <1>7 DEF CondInv

\* A condition is signalled.
LEMMA CondStart ==
  ASSUME NEW f, NEW n \in Nat, NEW R, NEW e, NEW S, NEW d,
         CondInv(f, R, e, n), NEW g \in 1..n, Handling(f[g]),
         \A i \in g..n : f[i].kind # "cleanup",
         S.cond, IsCondition(f, S, d)
  PROVE  CondInv(f, S, d, n)
<1>1. \A c \in 1..n : HoldsCondition(f, c) => ~NoHandler(f, c + 1, n)
  BY DEF HoldsCondition, NoHandler
<1>2. CondKept(f, S, n)
  BY <1>1 DEF CondInv, CondKept
<1>3. CondCause(f, S, d, n)
  BY DEF CondInv, CondCause
<1> QED
  BY <1>2, <1>3 DEF CondInv

\* Another exit starts.
LEMMA CondStay ==
  ASSUME NEW f, NEW n \in Nat, NEW R, NEW e, NEW S, NEW d,
         CondInv(f, R, e, n), IsCondition(f, R, e) => IsCondition(f, S, d),
         S.cond = R.cond, S.slot = R.slot
  PROVE  CondInv(f, S, d, n)
BY DEF CondInv, CondKept, CondCause

-----------------------------------------------------------------------------
(* Held exits, the exit under way and the count of handlers.               *)

\* The cleanups below a frame that goes.
LEMMA HeldPop ==
  ASSUME NEW f, NEW n \in Nat \ {0}, HeldInv(f, n)
  PROVE  HeldInv(f, n - 1)
BY DEF HeldInv

\* A new frame; a new cleanup holds up what is under way.
LEMMA HeldPush ==
  ASSUME NEW f, NEW n \in Nat, HeldInv(f, n),
         f[n + 1].kind = "cleanup" => Consistent(f, f[n + 1].saved, f[n + 1].held, n)
  PROVE  HeldInv(f, n + 1)
<1>1. \A c \in 1..(n + 1) : c \in 1..n \/ c = n + 1
  OBVIOUS
<1>2. (n + 1) - 1 = n
  OBVIOUS
<1> QED
  BY <1>1, <1>2 DEF HeldInv

\* The kind of the frame sought tells which registers lead there.
LEMMA FlightKinds ==
  ASSUME NEW f, NEW n \in Nat, NEW R, NEW e, InFlight(f, R, e, n)
  PROVE  /\ f[e.goal].kind = "block" /\ R.target # None => ByBlock(f, R, e, n)
         /\ f[e.goal].kind = "catch" => ByThrow(f, R, e, n)
         /\ IsReturn(f, R, e) => ByReturn(f, R, e, n)
         /\ IsCondition(f, R, e) => ByCondition(f, R, e, n)
         /\ ByReturn(f, R, e, n) => IsReturn(f, R, e)
         /\ ByCondition(f, R, e, n) => IsCondition(f, R, e)
         /\ e.goal \in Nat \ {0}
BY DEF InFlight, ByBlock, ByThrow, ByReturn, ByCondition, IsReturn,
       IsCondition, Loopish, Handling

\* A frame other than the one sought is left: the registers of the exit
\* stay as they are.
LEMMA PassConsistent ==
  ASSUME NEW f, NEW n \in Nat \ {0}, NEW R, NEW e, NEW S,
         Consistent(f, R, e, n), e.goal # n,
         S.abort = R.abort, S.target = R.target, S.throw = R.throw, S.tag = R.tag,
         IsReturn(f, R, e) => S.loop = R.loop /\ S.loopValue = R.loopValue,
         IsCondition(f, R, e) => S.cond = R.cond /\ S.slot = R.slot
  PROVE  Consistent(f, S, e, n - 1)
<1>1. CASE AtRest(R, e)
  BY <1>1 DEF AtRest, Consistent
<1>2. CASE InFlight(f, R, e, n)
  <2>1. /\ ByReturn(f, R, e, n) => IsReturn(f, R, e)
        /\ ByCondition(f, R, e, n) => IsCondition(f, R, e)
    BY <1>2, FlightKinds
  <2>2. e.goal \in 1..(n - 1) /\ \A i \in e.goal..(n - 1) : i \in e.goal..n
    BY <1>2 DEF InFlight
  <2>3. \A i \in (e.goal + 1)..(n - 1) : i \in (e.goal + 1)..n
    BY <2>2
  <2>4. ByBlock(f, R, e, n) => ByBlock(f, S, e, n - 1)
    BY <2>3 DEF ByBlock
  <2>5. ByThrow(f, R, e, n) => ByThrow(f, S, e, n - 1)
    BY <2>3 DEF ByThrow
  <2>6. ByReturn(f, R, e, n) => ByReturn(f, S, e, n - 1)
    BY <2>1, <2>3 DEF ByReturn, NoLoop
  <2>7. ByCondition(f, R, e, n) => ByCondition(f, S, e, n - 1)
    BY <2>1, <2>3 DEF ByCondition, NoHandler
  <2> QED
    BY <1>2, <2>2, <2>4, <2>5, <2>6, <2>7 DEF InFlight, Consistent
<1> QED
  BY <1>1, <1>2 DEF Consistent

HandlersOf(f, n) == {i \in 1..n : Handling(f[i])}

\* The handlers among the first frames: how many, and with one frame more.
LEMMA CountHandlers ==
  ASSUME NEW f, NEW n \in Nat
  PROVE  /\ IsFiniteSet(HandlersOf(f, n))
         /\ Cardinality(HandlersOf(f, n)) \in 0..n
         /\ Cardinality(HandlersOf(f, n)) = 0 <=> HandlersOf(f, n) = {}
         /\ Handling(f[n + 1]) =>
              Cardinality(HandlersOf(f, n + 1)) = Cardinality(HandlersOf(f, n)) + 1
         /\ ~Handling(f[n + 1]) => HandlersOf(f, n + 1) = HandlersOf(f, n)
<1>1. IsFiniteSet(1..n) /\ Cardinality(1..n) = n
  BY FS_Interval
<1>2. HandlersOf(f, n) \subseteq 1..n
  BY DEF HandlersOf
<1>3. /\ IsFiniteSet(HandlersOf(f, n))
      /\ Cardinality(HandlersOf(f, n)) \in Nat
      /\ Cardinality(HandlersOf(f, n)) <= n
  BY <1>1, <1>2, FS_Subset, FS_CardinalityType
<1>4. Cardinality(HandlersOf(f, n)) = 0 <=> HandlersOf(f, n) = {}
  BY <1>3, FS_EmptySet
<1>5. ASSUME Handling(f[n + 1])
      PROVE  Cardinality(HandlersOf(f, n + 1)) = Cardinality(HandlersOf(f, n)) + 1
  <2>1. HandlersOf(f, n + 1) = HandlersOf(f, n) \cup {n + 1}
    BY <1>5 DEF HandlersOf
  <2>2. n + 1 \notin HandlersOf(f, n)
    BY DEF HandlersOf
  <2> QED
    BY <1>3, <2>1, <2>2, FS_AddElement
<1>6. ~Handling(f[n + 1]) => HandlersOf(f, n + 1) = HandlersOf(f, n)
  BY DEF HandlersOf
<1> QED
  BY <1>3, <1>4, <1>5, <1>6

\* Stashing a value makes no handler.
LEMMA AlikeHandlers ==
  ASSUME NEW f, NEW h, NEW n \in Nat, Alike(f, h, n)
  PROVE  HandlersOf(h, n) = HandlersOf(f, n)
BY DEF HandlersOf, Handling, Alike

\* The largest of a set of positions exists, so Innermost is it.
LEMMA InnermostIs ==
  ASSUME NEW n \in Nat, NEW P \in SUBSET (1..n)
  PROVE  /\ Innermost(P) \in {0} \cup P
         /\ \A i \in P : i <= Innermost(P)
         /\ P # {} => Innermost(P) \in P
<1> DEFINE Q == {0} \cup P
           T == {t \in 0..n : n - t \in Q}
<1>1. Q \subseteq 0..n
  OBVIOUS
<1>2. T \subseteq Nat /\ T # {}
  <2>1. n \in T
    OBVIOUS
  <2> QED
    BY <2>1
<1>3. PICK t \in T : \A y \in T : ~(<<y, t>> \in OpToRel(<, Nat))
  <2> HIDE DEF T
  <2> QED
    BY <1>2, WFMin, NatLessThanWellFounded
<1> t \in Nat /\ \A y \in T : ~(y < t)
  <2> HIDE DEF T
  <2>1. t \in Nat
    BY <1>2, <1>3
  <2>2. ASSUME NEW y \in T, y < t
        PROVE  FALSE
    <3>1. y \in Nat
      BY <1>2
    <3>2. <<y, t>> \in OpToRel(<, Nat)
      BY <2>1, <2>2, <3>1 DEF OpToRel
    <3> QED
      BY <1>3, <3>2, Zenon
  <2> QED
    BY <2>1, <2>2
<1>4. ASSUME NEW y \in Q
      PROVE  n - t >= y
  <2>1. y \in 0..n /\ t \in 0..n /\ n - y \in 0..n /\ n - (n - y) = y
    BY <1>1
  <2>2. n - y \in T
    BY <2>1
  <2>3. ~(n - y < t)
    BY <2>2
  <2> QED
    BY <2>1, <2>3
<1>5. n - t \in Q
  OBVIOUS
<1>6. /\ Innermost(P) \in Q
      /\ \A y \in Q : Innermost(P) >= y
  <2> HIDE DEF Q
  <2>1. Innermost(P) = CHOOSE x \in Q : \A y \in Q : x >= y
    BY DEF Innermost, Max, Q
  <2> QED
    BY <1>4, <1>5, <2>1
<1>7. Innermost(P) \in 0..n
  BY <1>1, <1>6
<1>8. \A i \in P : Innermost(P) >= i /\ i \in 1..n
  BY <1>6
<1>9. \A i \in P : i <= Innermost(P) /\ Innermost(P) # 0
  BY <1>7, <1>8
<1>10. Innermost(P) \in {0} \cup P
  BY <1>6
<1> QED
  BY <1>9, <1>10

-----------------------------------------------------------------------------
(* What the actions do to the stack, and the types.                        *)

FrameSet == [kind : Kinds, name : BlockNames \cup Tags,
             value : Values \cup {Nil}, saved : Registers, held : Exits]

\* A sequence without its last element.
LEMMA FrontIs ==
  ASSUME NEW S, NEW s \in Seq(S), Len(s) \in Nat \ {0}
  PROVE  /\ Front(s) \in Seq(S)
         /\ Len(Front(s)) = Len(s) - 1
         /\ \A i \in 1..(Len(s) - 1) : Front(s)[i] = s[i]
<1>1. \A i \in 1..(Len(s) - 1) : s[i] \in S
  BY ElementOfSeq
<1>2. /\ Front(s) \in Seq(S)
      /\ Len(Front(s)) = IF 1 <= Len(s) - 1 THEN Len(s) - 1 - 1 + 1 ELSE 0
      /\ \A i \in 1..(Len(s) - 1 - 1 + 1) : Front(s)[i] = s[1 + i - 1]
  BY <1>1, SubSeqProperties DEF Front
<1>3. Len(Front(s)) = Len(s) - 1
  <2>1. CASE 1 <= Len(s) - 1
    <3>1. Len(Front(s)) = Len(s) - 1 - 1 + 1
      BY <1>2, <2>1, Zenon
    <3> QED
      BY <3>1
  <2>2. CASE ~(1 <= Len(s) - 1)
    <3>1. Len(Front(s)) = 0
      BY <1>2, <2>2, Zenon
    <3>2. \A k \in Nat \ {0} : ~(1 <= k - 1) => k - 1 = 0
      OBVIOUS
    <3>3. Len(s) - 1 = 0
      BY <2>2, <3>2, Zenon
    <3> QED
      BY <3>1, <3>3, Zenon
  <2> QED
    BY <2>1, <2>2
<1>4. ASSUME NEW i \in 1..(Len(s) - 1)
      PROVE  Front(s)[i] = s[i]
  <2>1. i \in 1..(Len(s) - 1 - 1 + 1) /\ 1 + i - 1 = i
    OBVIOUS
  <2> QED
    BY <1>2, <2>1
<1> QED
  BY <1>2, <1>3, <1>4

\* What the types say of the frames, and of the innermost one.
LEMMA TypeFacts ==
  ASSUME TypeOK
  PROVE  /\ frames \in Seq(FrameSet) /\ Len(frames) \in Nat
         /\ Len(frames) <= MaxDepth
         /\ \A i \in 1..Len(frames) : frames[i] \in FrameSet
         /\ frames # <<>> => Len(frames) \in Nat \ {0} /\ Top = frames[Len(frames)]
                             /\ Top \in FrameSet
         /\ Handlers = HandlersOf(frames, Len(frames))
         /\ regs \in Registers /\ exit \in Exits
<1>1. frames \in Seq(FrameSet) /\ Len(frames) <= MaxDepth
      /\ regs \in Registers /\ exit \in Exits
  BY DEF TypeOK, FrameSet
<1>2. Len(frames) \in Nat /\ (frames # <<>> => Len(frames) \in Nat \ {0})
  BY <1>1, LenProperties, EmptySeq
<1>3. \A i \in 1..Len(frames) : frames[i] \in FrameSet
  BY <1>1, ElementOfSeq
<1>4. frames # <<>> => Top = frames[Len(frames)] /\ Top \in FrameSet
  BY <1>2, <1>3 DEF Top, Last
<1>5. Handlers = HandlersOf(frames, Len(frames))
  BY DEF Handlers, OfKind, HandlersOf, Handling
<1> QED
  BY <1>1, <1>2, <1>3, <1>4, <1>5

\* The frames after a construct has been entered.
LEMMA PushFacts ==
  ASSUME TypeOK, NEW k \in Kinds, NEW m \in BlockNames \cup Tags, Push(k, m)
  PROVE  /\ frames' \in Seq(FrameSet)
         /\ Len(frames') = Len(frames) + 1 /\ Len(frames) + 1 <= MaxDepth
         /\ Same(frames, frames', Len(frames))
         /\ frames'[Len(frames) + 1] = Frame(k, m)
         /\ result' = Nil /\ alive' = alive /\ exit' = exit
<1>1. Frame(k, m) \in FrameSet
  BY ExitAssumption DEF Frame, FrameSet, TypeOK
<1>2. frames \in Seq(FrameSet) /\ frames' = Append(frames, Frame(k, m))
  BY TypeFacts DEF Push
<1>3. Len(frames) + 1 <= MaxDepth
  BY <1>2, ExitAssumption DEF Push
<1> QED
  BY <1>1, <1>2, <1>3 DEF Push, Same

\* The frames after the innermost one is gone.
LEMMA PopFacts ==
  ASSUME TypeOK, frames # <<>>, frames' = Front(frames)
  PROVE  /\ frames' \in Seq(FrameSet)
         /\ Len(frames) \in Nat \ {0}
         /\ Len(frames') = Len(frames) - 1
         /\ Same(frames, frames', Len(frames) - 1)
<1>1. frames \in Seq(FrameSet) /\ Len(frames) \in Nat \ {0}
  BY TypeFacts
<1>2. \A i \in 1..(Len(frames) - 1) : Front(frames)[i] = frames[i]
  BY <1>1, FrontIs
<1>3. frames' \in Seq(FrameSet) /\ Len(frames') = Len(frames) - 1
  BY <1>1, FrontIs
<1> QED
  BY <1>1, <1>2, <1>3 DEF Same

\* The frames after the innermost one has become another.
LEMMA ReplaceFacts ==
  ASSUME TypeOK, frames # <<>>, NEW x \in FrameSet,
         frames' = Append(Front(frames), x)
         \/ frames' = [frames EXCEPT ![Len(frames)] = x]
  PROVE  /\ frames' \in Seq(FrameSet)
         /\ Len(frames) \in Nat \ {0}
         /\ Len(frames') = Len(frames)
         /\ Same(frames, frames', Len(frames) - 1)
         /\ frames'[Len(frames)] = x
<1>1. frames \in Seq(FrameSet) /\ Len(frames) \in Nat \ {0}
  BY TypeFacts
<1>2. CASE frames' = Append(Front(frames), x)
  <2>1. /\ Front(frames) \in Seq(FrameSet)
        /\ Len(Front(frames)) = Len(frames) - 1
        /\ \A i \in 1..(Len(frames) - 1) : Front(frames)[i] = frames[i]
    BY <1>1, FrontIs
  <2>2. /\ frames' \in Seq(FrameSet)
        /\ Len(frames') = Len(frames) - 1 + 1
        /\ \A i \in 1..(Len(frames) - 1) : frames'[i] = Front(frames)[i]
        /\ frames'[Len(frames) - 1 + 1] = x
    BY <1>2, <2>1, AppendProperties
  <2>3. Len(frames) - 1 + 1 = Len(frames)
    BY <1>1
  <2> QED
    BY <1>1, <2>1, <2>2, <2>3 DEF Same
<1>3. CASE frames' = [frames EXCEPT ![Len(frames)] = x]
  <2>1. Len(frames) \in 1..Len(frames)
    BY <1>1
  <2>2. /\ frames' \in Seq(FrameSet) /\ Len(frames') = Len(frames)
        /\ \A i \in 1..Len(frames) :
             frames'[i] = IF i = Len(frames) THEN x ELSE frames[i]
    BY <1>1, <1>3, <2>1, ExceptSeq
  <2> QED
    BY <1>1, <2>1, <2>2 DEF Same
<1> QED
  BY <1>2, <1>3

\* The value of a (return-from) or of a (throw) is stashed in a frame.
LEMMA StashTypes ==
  ASSUME TypeOK, NEW g \in 1..Len(frames), NEW v \in Values,
         frames' = [frames EXCEPT ![g].value = v]
  PROVE  /\ frames' \in Seq(FrameSet)
         /\ Len(frames') = Len(frames)
         /\ \A i \in 1..Len(frames) :
              /\ frames'[i].kind = frames[i].kind /\ frames'[i].name = frames[i].name
              /\ frames'[i].saved = frames[i].saved /\ frames'[i].held = frames[i].held
              /\ i # g => frames'[i] = frames[i]
         /\ frames'[g].value = v
<1>1. /\ frames \in Seq(FrameSet)
      /\ \A i \in 1..Len(frames) : frames[i] \in FrameSet
  BY TypeFacts
<1> DEFINE x == [frames[g] EXCEPT !.value = v]
<1>2. /\ x \in FrameSet
      /\ x.kind = frames[g].kind /\ x.name = frames[g].name
      /\ x.saved = frames[g].saved /\ x.held = frames[g].held
      /\ x.value = v
  BY <1>1 DEF FrameSet
<1>3. frames' = [frames EXCEPT ![g] = x]
  OBVIOUS
<1> HIDE DEF x
<1>4. /\ frames' \in Seq(FrameSet) /\ Len(frames') = Len(frames)
      /\ \A i \in 1..Len(frames) : frames'[i] = IF i = g THEN x ELSE frames[i]
  BY <1>1, <1>2, <1>3, ExceptSeq
<1> QED
  BY <1>2, <1>4

\* The frames after an exit has stashed its value in its target.
LEMMA StashFacts ==
  ASSUME TypeOK, NEW g \in 1..Len(frames), NEW v \in Values,
         frames' = [frames EXCEPT ![g].value = v],
         \A c \in (g + 1)..Len(frames) : frames[c].kind # "cleanup"
  PROVE  Alike(frames, frames', Len(frames))
<1>1. Len(frames) \in Nat
  BY TypeFacts
<1> QED
  BY <1>1, StashTypes DEF Alike

\* HANDLER_DEPTH is 0 only where nothing handles conditions.
LEMMA CountedIs ==
  ASSUME TypeOK, Counted
  PROVE  /\ handlerDepth = Cardinality(HandlersOf(frames, Len(frames)))
         /\ handlerDepth \in 0..Len(frames)
         /\ handlerDepth = 0 <=> Handlers = {}
BY TypeFacts, CountHandlers DEF Counted

\* What is to be shown of a step for the types and the count.
LEMMA BasicIntro ==
  ASSUME frames' \in Seq(FrameSet), Len(frames') \in Nat, Len(frames') <= MaxDepth,
         regs' \in Registers, exit' \in Exits, alive' \in BOOLEAN,
         result' \in Values \cup {Nil},
         PlaceOK',
         handlerDepth' = Cardinality(HandlersOf(frames', Len(frames')))
  PROVE  BasicInv'
<1>1. handlerDepth' \in 0..MaxDepth
  BY CountHandlers, ExitAssumption
<1>2. Counted'
  BY DEF Counted, Handlers, OfKind, HandlersOf, Handling
<1>3. TypeOK'
  BY <1>1 DEF TypeOK, FrameSet, PlaceOK
<1> QED
  BY <1>2, <1>3 DEF BasicInv

\* A new innermost frame, counted if it handles conditions.
LEMMA BasicPush ==
  ASSUME BasicInv, PlaceOK', NEW k \in Kinds, NEW m \in BlockNames \cup Tags, Push(k, m),
         regs' \in Registers,
         handlerDepth' = handlerDepth + IF k \in {"handler", "guard"} THEN 1 ELSE 0
  PROVE  BasicInv'
<1>1. TypeOK /\ Len(frames) \in Nat
  BY TypeFacts DEF BasicInv
<1>2. /\ frames' \in Seq(FrameSet) /\ Len(frames') = Len(frames) + 1
      /\ Len(frames) + 1 <= MaxDepth
      /\ Same(frames, frames', Len(frames))
      /\ frames'[Len(frames) + 1].kind = k
      /\ result' = Nil /\ alive' = alive /\ exit' = exit
  <2>1. Frame(k, m).kind = k
    BY DEF Frame
  <2> QED
    BY <1>1, <2>1, PushFacts
<1>3. /\ HandlersOf(frames', Len(frames)) = HandlersOf(frames, Len(frames))
      /\ Handling(frames'[Len(frames) + 1]) <=> k \in {"handler", "guard"}
  BY <1>1, <1>2, SameIsAlike, AlikeHandlers DEF Handling
<1>4. handlerDepth = Cardinality(HandlersOf(frames, Len(frames)))
      /\ handlerDepth \in Nat
  BY CountedIs, <1>1 DEF BasicInv
<1>5. handlerDepth' = Cardinality(HandlersOf(frames', Len(frames')))
  BY <1>1, <1>2, <1>3, <1>4, CountHandlers
<1>6. exit' \in Exits /\ alive' \in BOOLEAN /\ result' \in Values \cup {Nil}
  BY <1>1, <1>2 DEF TypeOK
<1> QED
  BY <1>1, <1>2, <1>5, <1>6, BasicIntro

\* The handlers below the innermost frame.
LEMMA CountTop ==
  ASSUME BasicInv, frames # <<>>
  PROVE  Cardinality(HandlersOf(frames, Len(frames) - 1))
           = handlerDepth - IF Handling(Top) THEN 1 ELSE 0
<1>1. TypeOK /\ Len(frames) \in Nat \ {0} /\ Top = frames[Len(frames)]
  BY TypeFacts DEF BasicInv
<1>2. handlerDepth = Cardinality(HandlersOf(frames, Len(frames)))
      /\ handlerDepth \in Nat
  BY CountedIs, <1>1 DEF BasicInv
<1> DEFINE n == Len(frames) - 1
<1>3. n \in Nat /\ n + 1 = Len(frames)
  BY <1>1
<1>4. /\ Cardinality(HandlersOf(frames, n)) \in Int
      /\ Handling(Top) => handlerDepth = Cardinality(HandlersOf(frames, n)) + 1
      /\ ~Handling(Top) => handlerDepth = Cardinality(HandlersOf(frames, n))
  BY <1>1, <1>2, <1>3, CountHandlers
<1> QED
  BY <1>2, <1>4

\* The innermost frame is left.
LEMMA BasicPop ==
  ASSUME BasicInv, PlaceOK', frames # <<>>, frames' = Front(frames),
         regs' \in Registers, exit' \in Exits, alive' \in BOOLEAN,
         result' \in Values \cup {Nil},
         handlerDepth' = handlerDepth - IF Handling(Top) THEN 1 ELSE 0
  PROVE  BasicInv'
<1>1. TypeOK /\ Len(frames) <= MaxDepth
  BY TypeFacts DEF BasicInv
<1>2. /\ frames' \in Seq(FrameSet) /\ Len(frames) \in Nat \ {0}
      /\ Len(frames') = Len(frames) - 1
      /\ Same(frames, frames', Len(frames) - 1)
  BY <1>1, PopFacts
<1>3. Len(frames) - 1 \in Nat /\ Len(frames) - 1 <= MaxDepth
  BY <1>1, <1>2, ExitAssumption
<1>4. HandlersOf(frames', Len(frames')) = HandlersOf(frames, Len(frames) - 1)
  BY <1>2, <1>3, SameIsAlike, AlikeHandlers
<1>5. handlerDepth' = Cardinality(HandlersOf(frames', Len(frames')))
  BY <1>4, CountTop
<1> QED
  BY <1>2, <1>3, <1>5, BasicIntro

\* It is replaced by one that does not handle conditions.
LEMMA BasicReplace ==
  ASSUME BasicInv, PlaceOK', frames # <<>>, NEW x \in FrameSet, ~Handling(x),
         frames' = Append(Front(frames), x)
         \/ frames' = [frames EXCEPT ![Len(frames)] = x],
         regs' \in Registers, exit' \in Exits, alive' \in BOOLEAN,
         result' \in Values \cup {Nil},
         handlerDepth' = handlerDepth - IF Handling(Top) THEN 1 ELSE 0
  PROVE  BasicInv'
<1>1. TypeOK /\ Len(frames) <= MaxDepth
  BY TypeFacts DEF BasicInv
<1>2. /\ frames' \in Seq(FrameSet) /\ Len(frames) \in Nat \ {0}
      /\ Len(frames') = Len(frames)
      /\ Same(frames, frames', Len(frames) - 1)
      /\ frames'[Len(frames)] = x
  BY <1>1, ReplaceFacts
<1> DEFINE n == Len(frames) - 1
<1>3. n \in Nat /\ n + 1 = Len(frames)
  BY <1>2
<1>4. HandlersOf(frames', n) = HandlersOf(frames, n)
  BY <1>2, <1>3, SameIsAlike, AlikeHandlers
<1>5. HandlersOf(frames', Len(frames')) = HandlersOf(frames', n)
  BY <1>2, <1>3, CountHandlers
<1>6. handlerDepth' = Cardinality(HandlersOf(frames', Len(frames')))
  BY <1>4, <1>5, CountTop
<1> QED
  BY <1>1, <1>2, <1>6, BasicIntro

\* No frame is entered or left.
LEMMA BasicStay ==
  ASSUME BasicInv, PlaceOK', frames' \in Seq(FrameSet), Len(frames') = Len(frames),
         Alike(frames, frames', Len(frames)),
         regs' \in Registers, exit' \in Exits, alive' \in BOOLEAN,
         result' \in Values \cup {Nil},
         handlerDepth' = handlerDepth
  PROVE  BasicInv'
<1>1. TypeOK /\ Len(frames) <= MaxDepth /\ Len(frames) \in Nat
  BY TypeFacts DEF BasicInv
<1>2. HandlersOf(frames', Len(frames)) = HandlersOf(frames, Len(frames))
  BY <1>1, AlikeHandlers
<1>3. handlerDepth = Cardinality(HandlersOf(frames, Len(frames)))
  BY <1>1, CountedIs DEF BasicInv
<1> QED
  BY <1>1, <1>2, <1>3, BasicIntro

\* The exit that starts goes to a frame.
LEMMA GoalIs ==
  ASSUME TypeOK, NEW goals \in SUBSET (1..Len(frames)), NEW v \in Values,
         exit' = [goal |-> Innermost(goals), value |-> v]
  PROVE  /\ exit' \in Exits
         /\ exit'.goal = Innermost(goals) /\ exit'.value = v
         /\ goals # {} => Innermost(goals) \in goals
         /\ \A i \in goals : i <= Innermost(goals)
<1>1. Len(frames) \in Nat /\ Len(frames) <= MaxDepth
  BY TypeFacts
<1>2. /\ Innermost(goals) \in {0} \cup goals
      /\ goals # {} => Innermost(goals) \in goals
      /\ \A i \in goals : i <= Innermost(goals)
  BY <1>1, InnermostIs
<1>3. Innermost(goals) \in 0..MaxDepth
  <2>1. goals \subseteq 0..Len(frames) /\ 0 \in 0..Len(frames)
    BY <1>1
  <2>2. Innermost(goals) \in 0..Len(frames)
    BY <1>2, <2>1
  <2> QED
    BY <1>1, <2>2, ExitAssumption
<1> QED
  BY <1>2, <1>3 DEF Exits

\* Which frames the exits look for.
LEMMA GoalSets ==
  ASSUME TypeOK
  PROVE  /\ Handlers \subseteq 1..Len(frames) /\ Loops \subseteq 1..Len(frames)
         /\ \A i \in 1..Len(frames) : i \in Handlers <=> Handling(frames[i])
         /\ \A i \in 1..Len(frames) : i \in Loops <=> Loopish(frames[i])
         /\ \A m : Blocks(m) \subseteq 1..Len(frames)
         /\ \A m : Catches(m) \subseteq 1..Len(frames)
         /\ \A m : \A i \in 1..Len(frames) :
              /\ i \in Blocks(m) <=> frames[i].kind = "block" /\ frames[i].name = m
              /\ i \in Catches(m) <=> frames[i].kind = "catch" /\ frames[i].name = m
BY DEF Handlers, Loops, Blocks, Catches, OfKind, Handling, Loopish

\* The types after a condition has been signalled.
LEMMA BasicSignal ==
  ASSUME TypeOK, NEW v \in Values, Signal(v), alive \in BOOLEAN
  PROVE  /\ regs' \in Registers /\ exit' \in Exits /\ alive' \in BOOLEAN
         /\ result' = Nil
<1>1. CASE handlerDepth = 0
  BY <1>1 DEF Signal, TypeOK
<1>2. CASE handlerDepth # 0
  <2>1. regs' = [regs EXCEPT !.slot = v, !.cond = TRUE, !.abort = TRUE]
        /\ alive' = alive /\ exit' = [goal |-> Innermost(Handlers), value |-> v]
        /\ result' = Nil
    BY <1>2 DEF Signal, StartExit
  <2>2. exit' \in Exits
    BY <2>1, GoalIs, GoalSets
  <2>3. regs' \in Registers
    BY <2>1 DEF TypeOK, Registers
  <2> QED
    BY <2>1, <2>2, <2>3
<1> QED
  BY <1>1, <1>2

\* Types and count: entering a construct.
LEMMA BasicEnter ==
  ASSUME BasicInv, PlaceOK',
         \/ \E m \in BlockNames : NativeBlock(m)
         \/ \E m \in Tags : Catch(m)
         \/ UnwindProtect \/ NativeLoop \/ HandlerCase \/ GuardEnter
  PROVE  BasicInv'
<1>1. Nil \in BlockNames \cup Tags /\ regs \in Registers /\ handlerDepth \in Int
  BY ExitAssumption DEF BasicInv, TypeOK
<1>2. ASSUME NEW k \in {"block", "catch", "protect", "loop"},
             NEW m \in BlockNames \cup Tags, Push(k, m),
             handlerDepth' = handlerDepth, regs' \in Registers
      PROVE  BasicInv'
  BY <1>1, <1>2, BasicPush DEF Kinds
<1>3. ASSUME NEW k \in {"handler", "guard"}, Push(k, Nil),
             handlerDepth' = handlerDepth + 1, regs' \in Registers
      PROVE  BasicInv'
  BY <1>1, <1>3, BasicPush DEF Kinds
<1>4. ASSUME NEW m \in BlockNames, NativeBlock(m)
      PROVE  BasicInv'
  BY <1>1, <1>2, <1>4 DEF NativeBlock
<1>5. ASSUME NEW m \in Tags, Catch(m)
      PROVE  BasicInv'
  BY <1>1, <1>2, <1>5 DEF Catch
<1>6. CASE UnwindProtect
  BY <1>1, <1>2, <1>6 DEF UnwindProtect
<1>7. CASE NativeLoop
  <2>1. regs' \in Registers
    BY <1>1, <1>7 DEF NativeLoop, Registers
  <2> QED
    BY <1>1, <1>2, <1>7, <2>1 DEF NativeLoop
<1>8. CASE HandlerCase \/ GuardEnter
  <2>1. regs' \in Registers
    BY <1>1, <1>8 DEF HandlerCase, GuardEnter, Registers
  <2> QED
    BY <1>1, <1>3, <1>8, <2>1 DEF HandlerCase, GuardEnter
<1> QED
  BY <1>4, <1>5, <1>6, <1>7, <1>8

\* Types and count: starting an exit.
LEMMA BasicStart ==
  ASSUME BasicInv, PlaceOK', NEW v \in Values,
         \/ Error(v) \/ LoopReturn(v)
         \/ \E m \in BlockNames : ReturnFrom(m, v)
         \/ \E m \in Tags : Throw(m, v)
  PROVE  BasicInv'
<1>1. /\ TypeOK /\ regs \in Registers /\ alive \in BOOLEAN
      /\ frames \in Seq(FrameSet) /\ Len(frames) \in Nat
  BY TypeFacts DEF BasicInv, TypeOK
<1>2. ASSUME frames' = frames, handlerDepth' = handlerDepth, result' = Nil,
             regs' \in Registers, exit' \in Exits, alive' \in BOOLEAN
      PROVE  BasicInv'
  BY <1>1, <1>2, BasicStay DEF Alike
<1>3. CASE Error(v)
  BY <1>1, <1>2, <1>3, BasicSignal DEF Error
<1>4. CASE LoopReturn(v)
  <2>1. regs' \in Registers
    BY <1>1, <1>4 DEF LoopReturn, Registers
  <2>2. exit' \in Exits
    BY <1>1, <1>4, GoalIs, GoalSets DEF LoopReturn, StartExit
  <2> QED
    BY <1>1, <1>2, <1>4, <2>1, <2>2 DEF LoopReturn, StartExit
<1>5. ASSUME NEW g \in 1..Len(frames), frames' = [frames EXCEPT ![g].value = v],
             handlerDepth' = handlerDepth, result' = Nil,
             regs' \in Registers, exit' \in Exits, alive' = alive
      PROVE  BasicInv'
  <2>1. /\ frames' \in Seq(FrameSet) /\ Len(frames') = Len(frames)
        /\ \A i \in 1..Len(frames) : frames'[i].kind = frames[i].kind
    BY <1>1, <1>5, StashTypes
  <2>2. HandlersOf(frames', Len(frames')) = HandlersOf(frames, Len(frames))
    BY <2>1 DEF HandlersOf, Handling
  <2>3. handlerDepth = Cardinality(HandlersOf(frames, Len(frames)))
    BY <1>1, CountedIs DEF BasicInv
  <2>4. Len(frames') \in Nat /\ Len(frames') <= MaxDepth
    BY <1>1, <2>1, TypeFacts
  <2> QED
    BY <1>1, <1>5, <2>1, <2>2, <2>3, <2>4, BasicIntro
<1>6. ASSUME NEW m \in BlockNames, ReturnFrom(m, v)
      PROVE  BasicInv'
  <2>1. regs' \in Registers
    BY <1>1, <1>6 DEF ReturnFrom, Registers
  <2>2. exit' \in Exits /\ Innermost(Blocks(m)) \in 1..Len(frames)
    BY <1>1, <1>6, GoalIs, GoalSets DEF ReturnFrom, StartExit
  <2> QED
    BY <1>5, <1>6, <2>1, <2>2 DEF ReturnFrom, StartExit
<1>7. ASSUME NEW m \in Tags, Throw(m, v)
      PROVE  BasicInv'
  <2>1. regs' \in Registers
    BY <1>1, <1>7 DEF Throw, Registers
  <2>2. exit' \in Exits /\ Innermost(Catches(m)) \in 1..Len(frames)
    BY <1>1, <1>7, GoalIs, GoalSets DEF Throw, StartExit
  <2> QED
    BY <1>5, <1>7, <2>1, <2>2 DEF Throw, StartExit
<1> QED
  BY <1>3, <1>4, <1>6, <1>7

\* Types and count: leaving a construct.
LEMMA BasicLeave ==
  ASSUME BasicInv, PlaceOK',
         \/ BlockEnds \/ CatchEnds \/ LoopEnds \/ HandlerCaseEnds
         \/ GuardExit \/ BeginCleanup \/ EndCleanup
         \/ \E v \in Values : EvalFails(v)
  PROVE  BasicInv'
<1>1. /\ TypeOK /\ regs \in Registers /\ alive \in BOOLEAN /\ exit \in Exits
      /\ handlerDepth \in Int
      /\ frames # <<>> => /\ Top \in FrameSet /\ Top.saved \in Registers
                          /\ Top.held \in Exits /\ Top.value \in Values \cup {Nil}
  BY TypeFacts DEF BasicInv, TypeOK, FrameSet
<1>2. NoExit \in Exits
  BY ExitAssumption DEF NoExit, Exits
<1>3. Took => exit' \in Exits
  BY <1>1, <1>2 DEF Took
<1>4. regs.slot \in Values \cup {Nil} /\ regs.loopValue \in Values \cup {Nil}
  BY <1>1 DEF Registers
<1>5. ASSUME frames # <<>>, frames' = Front(frames), regs' \in Registers,
             exit' \in Exits, alive' \in BOOLEAN, result' \in Values \cup {Nil},
             handlerDepth' = handlerDepth, ~Handling(Top)
      PROVE  BasicInv'
  BY <1>1, <1>5, BasicPop
<1>6. ASSUME frames # <<>>, frames' = Front(frames), regs' \in Registers,
             exit' \in Exits, alive' \in BOOLEAN, result' \in Values \cup {Nil},
             handlerDepth' = handlerDepth - 1, Handling(Top)
      PROVE  BasicInv'
  BY <1>1, <1>6, BasicPop
<1>7. CASE BlockEnds
  <2>1. regs' \in Registers
    BY <1>1, <1>7, ZenonT(40) DEF BlockEnds, Registers, None
  <2>2. result' \in Values \cup {Nil}
    BY <1>1, <1>4, <1>7 DEF BlockEnds, Returned
  <2> QED
    BY <1>1, <1>3, <1>5, <1>7, <2>1, <2>2 DEF BlockEnds, Returned, Pop, Handling
<1>8. CASE CatchEnds
  <2>1. regs' \in Registers
    BY <1>1, <1>8 DEF CatchEnds, Registers
  <2>2. result' \in Values \cup {Nil}
    BY <1>1, <1>4, <1>8 DEF CatchEnds, Returned
  <2> QED
    BY <1>1, <1>3, <1>5, <1>8, <2>1, <2>2 DEF CatchEnds, Returned, Pop, Handling
<1>9. ASSUME frames # <<>>, NEW a \in BOOLEAN,
             \/ regs' = [regs EXCEPT !.abort = a, !.loop = Top.saved.loop,
                                     !.loopValue = Top.saved.loopValue]
             \/ regs' = [regs EXCEPT !.abort = a, !.cond = Top.saved.cond,
                                     !.slot = Top.saved.slot]
      PROVE  regs' \in Registers
  BY <1>1, <1>9 DEF Registers
<1>10. regs.abort \in BOOLEAN /\ regs.loop \in BOOLEAN /\ regs.cond \in BOOLEAN
  BY <1>1 DEF Registers
<1>11. /\ (regs.abort /\ ~regs.loop) \in BOOLEAN
       /\ (regs.abort /\ ~regs.cond) \in BOOLEAN
  OBVIOUS
<1>12. CASE LoopEnds
  <2>1. frames # <<>> /\ regs' \in Registers
    BY <1>9, <1>11, <1>12 DEF LoopEnds, Returned
  <2>2. result' \in Values \cup {Nil}
    BY <1>4, <1>12 DEF LoopEnds
  <2> QED
    BY <1>1, <1>3, <1>5, <1>12, <2>1, <2>2 DEF LoopEnds, Returned, Pop, Handling
<1>13. CASE HandlerCaseEnds
  <2>1. frames # <<>> /\ regs' \in Registers
    BY <1>9, <1>11, <1>13 DEF HandlerCaseEnds, Returned
  <2>2. result' \in Values \cup {Nil}
    BY <1>4, <1>13 DEF HandlerCaseEnds
  <2> QED
    BY <1>1, <1>3, <1>6, <1>13, <2>1, <2>2
       DEF HandlerCaseEnds, Returned, Pop, Handling
<1>14. CASE GuardExit
  <2>1. frames # <<>> /\ regs' \in Registers
    BY <1>9, <1>11, <1>14 DEF GuardExit, Returned
  <2>2. result' \in Values \cup {Nil}
    BY <1>4, <1>14 DEF GuardExit
  <2>3. exit' \in Exits /\ alive' \in BOOLEAN /\ Handling(Top)
        /\ handlerDepth' = handlerDepth - 1
    BY <1>1, <1>3, <1>14 DEF GuardExit, Returned, Handling
  <2>4. CASE frames' = Front(frames)
    BY <1>6, <2>1, <2>2, <2>3, <2>4
  <2>5. CASE frames' = [frames EXCEPT ![Len(frames)].kind = "failed"]
    <3> DEFINE x == [Top EXCEPT !.kind = "failed"]
    <3>1. x \in FrameSet /\ ~Handling(x)
      BY <1>1, <2>1 DEF FrameSet, Kinds, Handling
    <3>2. frames' = [frames EXCEPT ![Len(frames)] = x]
      BY <1>1, <2>1, <2>5, TypeFacts
    <3>3. handlerDepth' = handlerDepth - IF Handling(Top) THEN 1 ELSE 0
      BY <2>3
    <3> HIDE DEF x
    <3> QED
      BY <2>1, <2>2, <2>3, <3>1, <3>2, <3>3, BasicReplace
  <2> QED
    BY <1>14, <2>4, <2>5 DEF GuardExit
<1>15. CASE BeginCleanup
  <2>1. frames # <<>> /\ regs' \in Registers /\ ~Handling(Top)
    BY <1>1, <1>15 DEF BeginCleanup, Registers, None, Returned, Handling
  <2>2. /\ exit' \in Exits /\ alive' \in BOOLEAN /\ result' \in Values \cup {Nil}
        /\ handlerDepth' = handlerDepth - IF Handling(Top) THEN 1 ELSE 0
    BY <1>1, <1>2, <1>15, <2>1 DEF BeginCleanup
  <2>3. Frame("cleanup", Nil) \in FrameSet /\ ~Handling(Frame("cleanup", Nil))
    BY <1>1, ExitAssumption DEF Frame, FrameSet, Kinds, Handling
  <2>4. frames' = Append(Front(frames), Frame("cleanup", Nil))
    BY <1>15 DEF BeginCleanup
  <2> QED
    BY <2>1, <2>2, <2>3, <2>4, BasicReplace
<1>16. CASE EndCleanup
  <2>1. frames # <<>> /\ Top.kind = "cleanup"
    BY <1>16 DEF EndCleanup, Returned
  <2>2. regs' \in Registers
    BY <1>1, <1>16, <2>1 DEF EndCleanup, Registers
  <2>3. exit' \in Exits
    BY <1>1, <1>16, <2>1 DEF EndCleanup
  <2> QED
    BY <1>1, <1>5, <1>16, <2>1, <2>2, <2>3 DEF EndCleanup, Handling
<1>17. ASSUME NEW v \in Values, EvalFails(v)
       PROVE  BasicInv'
  <2>1. regs' \in Registers /\ exit' \in Exits /\ alive' \in BOOLEAN /\ result' = Nil
    BY <1>1, <1>17, BasicSignal DEF EvalFails
  <2> QED
    BY <1>1, <1>5, <1>17, <2>1 DEF EvalFails, Returned, Handling
<1> QED
  BY <1>7, <1>8, <1>12, <1>13, <1>14, <1>15, <1>16, <1>17

\* Types and count at the start.
LEMMA BasicInit == Init => BasicInv
<1> SUFFICES ASSUME Init PROVE BasicInv
  OBVIOUS
<1>1. /\ frames \in Seq(FrameSet) /\ Len(frames) = 0
  BY EmptySeq DEF Init
<1>2. Handlers = {}
  BY <1>1 DEF Handlers, OfKind
<1>3. handlerDepth = Cardinality(Handlers)
  BY <1>2, FS_EmptySet DEF Init
<1>4. TypeOK
  <2>1. regs \in Registers
    BY DEF Init, Quiet, Registers
  <2>2. exit \in Exits
    BY ExitAssumption DEF Init, NoExit, Exits
  <2>3. handlerDepth \in 0..MaxDepth /\ Len(frames) <= MaxDepth
    BY <1>1, ExitAssumption DEF Init
  <2>4. result \in Values \cup {Nil} /\ alive \in BOOLEAN /\ at \in Places
        /\ astray \in BOOLEAN
    BY DEF Init, Places
  <2> QED
    BY <1>1, <2>1, <2>2, <2>3, <2>4 DEF TypeOK, FrameSet
<1> QED
  BY <1>3, <1>4 DEF BasicInv, Counted

\* The places of the code.
LEMMA PlaceStep == TypeOK /\ Next => PlaceOK'
<1> SUFFICES ASSUME TypeOK, Next
             PROVE  PlaceOK'
  OBVIOUS
<1>1. at \in Places /\ astray \in BOOLEAN
  BY DEF TypeOK
<1>2. ASSUME NEW goals, NEW v, StartExit(goals, v)
      PROVE  PlaceOK'
  BY <1>2 DEF StartExit, PlaceOK, Places
<1>3. ASSUME NEW v, Signal(v)
      PROVE  PlaceOK'
  BY <1>1, <1>2, <1>3 DEF Signal, PlaceOK
<1>4. ASSUME NEW k, NEW m, Push(k, m)
      PROVE  at' \in Places
  BY <1>4 DEF Push, Places
<1>5. CASE \/ \E m \in BlockNames : NativeBlock(m)
           \/ \E m \in Tags : Catch(m)
           \/ UnwindProtect \/ NativeLoop \/ HandlerCase \/ GuardEnter
  BY <1>1, <1>4, <1>5
     DEF NativeBlock, Catch, UnwindProtect, NativeLoop, HandlerCase, GuardEnter, PlaceOK
<1>6. ASSUME NEW v \in Values,
             \/ Error(v) \/ LoopReturn(v) \/ EvalFails(v)
             \/ \E m \in BlockNames : ReturnFrom(m, v)
             \/ \E m \in Tags : Throw(m, v)
      PROVE  PlaceOK'
  BY <1>2, <1>3, <1>6 DEF Error, LoopReturn, EvalFails, ReturnFrom, Throw
<1>7. CASE \/ BlockEnds \/ CatchEnds \/ LoopEnds \/ HandlerCaseEnds
           \/ GuardExit \/ BeginCleanup \/ EndCleanup
  <2>1. Pop => at' \in Places
    BY DEF Pop, Places
  <2>2. Took => astray' \in BOOLEAN
    BY <1>1 DEF Took
  <2>3. CASE \/ BlockEnds \/ CatchEnds \/ LoopEnds \/ HandlerCaseEnds
    BY <2>1, <2>2, <2>3 DEF BlockEnds, CatchEnds, LoopEnds, HandlerCaseEnds, PlaceOK
  <2>4. CASE GuardExit
    BY <2>2, <2>4 DEF GuardExit, PlaceOK, Places
  <2>5. CASE BeginCleanup \/ EndCleanup
    BY <1>1, <2>5 DEF BeginCleanup, EndCleanup, PlaceOK, Places
  <2> QED
    BY <1>7, <2>3, <2>4, <2>5
<1> QED
  BY <1>5, <1>6, <1>7 DEF Next

\* An exit that has gone astray is not found again.
LEMMA AstrayStays ==
  ASSUME [Next]_vars, astray
  PROVE  astray'
<1>1. ASSUME NEW goals, NEW v, StartExit(goals, v)
      PROVE  astray'
  BY <1>1 DEF StartExit
<1>2. ASSUME NEW v, Signal(v)
      PROVE  astray'
  BY <1>1, <1>2 DEF Signal
<1>3. Took => astray'
  BY DEF Took
<1>4. CASE UNCHANGED vars
  BY <1>4 DEF vars
<1>5. CASE \/ \E m \in BlockNames : NativeBlock(m)
           \/ \E m \in Tags : Catch(m)
           \/ UnwindProtect \/ NativeLoop \/ HandlerCase \/ GuardEnter
  BY <1>5 DEF NativeBlock, Catch, UnwindProtect, NativeLoop, HandlerCase, GuardEnter
<1>6. ASSUME NEW v \in Values,
             \/ Error(v) \/ LoopReturn(v) \/ EvalFails(v)
             \/ \E m \in BlockNames : ReturnFrom(m, v)
             \/ \E m \in Tags : Throw(m, v)
      PROVE  astray'
  BY <1>1, <1>2, <1>6 DEF Error, LoopReturn, EvalFails, ReturnFrom, Throw
<1>7. CASE \/ BlockEnds \/ CatchEnds \/ LoopEnds \/ HandlerCaseEnds
           \/ GuardExit \/ BeginCleanup \/ EndCleanup
  BY <1>3, <1>7
     DEF BlockEnds, CatchEnds, LoopEnds, HandlerCaseEnds, GuardExit, BeginCleanup,
         EndCleanup
<1> QED
  BY <1>4, <1>5, <1>6, <1>7 DEF Next

\* Types and count are kept by every step of every program.
LEMMA BasicStep == BasicInv /\ [Next]_vars => BasicInv'
<1>1. CASE UNCHANGED vars
  BY <1>1 DEF vars, BasicInv, TypeOK, Counted, Handlers, OfKind
<1>2. ASSUME BasicInv, Next
      PROVE  BasicInv'
  <2>1. PlaceOK'
    BY <1>2, PlaceStep DEF BasicInv
  <2> QED
    BY <1>2, <2>1, BasicEnter, BasicStart, BasicLeave DEF Next
<1> QED
  BY <1>1, <1>2

\* Types and count, for every program.
LEMMA BasicInvariance == Spec => []BasicInv
  BY BasicInit, BasicStep, PTL DEF Spec

-----------------------------------------------------------------------------
(* Sound, for each kind of change.                                         *)

\* A construct is entered.
LEMMA SoundPush ==
  ASSUME NEW f, NEW n \in Nat, NEW R, NEW e, NEW S,
         Sound(f, R, e, n), R.abort = FALSE, f[n + 1].kind # "cleanup",
         S.abort = R.abort, S.target = R.target, S.throw = R.throw,
         \/ ~Loopish(f[n + 1]) /\ S.loop = R.loop /\ S.loopValue = R.loopValue
         \/ f[n + 1].kind = "loop" /\ f[n + 1].saved = R /\ ~S.loop
         \/ f[n + 1].kind = "block" /\ f[n + 1].name = Nil /\ ~R.loop /\ S = R,
         \/ ~Handling(f[n + 1]) /\ S.cond = R.cond /\ S.slot = R.slot
         \/ Handling(f[n + 1]) /\ f[n + 1].saved = R /\ ~S.cond
  PROVE  Sound(f, S, e, n + 1)
<1>1. AtRest(R, e) /\ AtRest(S, e)
  BY DEF Sound, Consistent, InFlight, AtRest
<1>2. Consistent(f, S, e, n + 1)
  BY <1>1 DEF Consistent
<1>3. HeldInv(f, n + 1)
  BY HeldPush DEF Sound
<1>4. ~IsReturn(f, R, e) /\ ~IsCondition(f, R, e) /\ LoopInv(f, R, e, n)
      /\ CondInv(f, R, e, n)
  BY DEF IsReturn, IsCondition, Sound
<1>5. LoopInv(f, S, e, n + 1)
  BY <1>4, LoopPush, LoopPushLoop, LoopPushBlock
<1>6. CondInv(f, S, e, n + 1)
  BY <1>4, CondPush, CondPushHandler
<1> QED
  BY <1>2, <1>3, <1>5, <1>6 DEF Sound

\* An exit starts.
LEMMA SoundStart ==
  ASSUME NEW f, NEW n \in Nat, NEW R, NEW e, NEW S, NEW d,
         Sound(f, R, e, n), R.abort = FALSE, InFlight(f, S, d, n),
         \/ Loopish(f[d.goal]) /\ S.loop /\ S.target = None
         \/ S.loop = R.loop /\ S.loopValue = R.loopValue,
         \/ Handling(f[d.goal]) /\ S.cond
         \/ S.cond = R.cond /\ S.slot = R.slot
  PROVE  Sound(f, S, d, n)
<1>1. Consistent(f, S, d, n) /\ HeldInv(f, n)
  BY DEF Consistent, Sound
<1>2. ~IsReturn(f, R, e) /\ ~IsCondition(f, R, e) /\ LoopInv(f, R, e, n)
      /\ CondInv(f, R, e, n)
  BY DEF IsReturn, IsCondition, Sound
<1>3. /\ S.abort /\ d.goal \in 1..n /\ d.goal # 0
      /\ \A i \in d.goal..n : f[i].kind # "cleanup"
  BY DEF InFlight
<1>4. LoopInv(f, S, d, n)
  <2>1. CASE Loopish(f[d.goal]) /\ S.loop /\ S.target = None
    <3>1. IsReturn(f, S, d)
      BY <1>3, <2>1 DEF IsReturn
    <3> QED
      BY <1>2, <1>3, <2>1, <3>1, LoopStart
  <2>2. CASE S.loop = R.loop /\ S.loopValue = R.loopValue
    BY <1>2, <2>2, LoopStay
  <2> QED
    BY <2>1, <2>2
<1>5. CondInv(f, S, d, n)
  <2>1. CASE Handling(f[d.goal]) /\ S.cond
    <3>1. IsCondition(f, S, d)
      BY <1>3, <2>1 DEF IsCondition
    <3> QED
      BY <1>2, <1>3, <2>1, <3>1, CondStart
  <2>2. CASE S.cond = R.cond /\ S.slot = R.slot
    BY <1>2, <2>2, CondStay
  <2> QED
    BY <2>1, <2>2
<1> QED
  BY <1>1, <1>4, <1>5 DEF Sound

\* A construct is left.
LEMMA SoundPop ==
  ASSUME NEW f, NEW n \in Nat \ {0}, NEW R, NEW e, NEW S, NEW d,
         Sound(f, R, e, n), Consistent(f, S, d, n - 1), f[n].kind # "cleanup",
         \/ /\ ~Loopish(f[n]) /\ S.loop = R.loop /\ S.loopValue = R.loopValue
            /\ IsReturn(f, R, e) => IsReturn(f, S, d)
         \/ /\ f[n].kind = "loop"
            /\ S.loop = f[n].saved.loop /\ S.loopValue = f[n].saved.loopValue
         \/ f[n].kind = "block" /\ f[n].name = Nil /\ ~S.loop,
         \/ /\ ~Handling(f[n]) /\ S.cond = R.cond /\ S.slot = R.slot
            /\ IsCondition(f, R, e) => IsCondition(f, S, d)
         \/ /\ Handling(f[n])
            /\ S.cond = f[n].saved.cond /\ S.slot = f[n].saved.slot
  PROVE  Sound(f, S, d, n - 1)
<1>1. HeldInv(f, n - 1)
  BY HeldPop DEF Sound
<1>2. /\ ~HoldsReturn(f, n) /\ ~HoldsCondition(f, n)
      /\ LoopInv(f, R, e, n) /\ CondInv(f, R, e, n)
  BY DEF HoldsReturn, HoldsCondition, Sound
<1>3. LoopInv(f, S, d, n - 1)
  BY <1>2, LoopPop, LoopPopLoop, LoopPopBlock
<1>4. CondInv(f, S, d, n - 1)
  BY <1>2, CondPop, CondPopHandler
<1> QED
  BY <1>1, <1>3, <1>4 DEF Sound

\* A cleanup begins in the place of the protected form.
LEMMA SoundBegin ==
  ASSUME NEW f, NEW h, NEW n \in Nat \ {0}, NEW R, NEW e, NEW S,
         Sound(f, R, e, n), Same(f, h, n - 1), f[n].kind = "protect",
         h[n].kind = "cleanup", h[n].saved = R, h[n].held = e,
         AtRest(S, NoExit),
         S.loop = R.loop, S.loopValue = R.loopValue,
         S.cond = R.cond, S.slot = R.slot
  PROVE  Sound(h, S, NoExit, n) /\ e.goal # n
<1>1. e.goal # n
  BY DEF Sound, Consistent, AtRest, NoExit, InFlight, ByBlock, ByThrow,
         ByReturn, ByCondition, Loopish, Handling
<1>2. Consistent(f, R, e, n - 1)
  BY <1>1, PassConsistent DEF Sound
<1>3. ~Loopish(f[n]) /\ ~Handling(f[n])
  BY DEF Loopish, Handling
<1>4. Sound(f, R, e, n - 1)
  BY <1>2, <1>3, SoundPop
<1> DEFINE m == n - 1
<1>5. m \in Nat /\ m + 1 = n
  OBVIOUS
<1>6. Sound(h, R, e, m)
  BY <1>4, <1>5, SameSound
<1>7. HeldInv(h, m + 1)
  BY <1>5, <1>6, HeldPush DEF Sound
<1>8. LoopInv(h, S, NoExit, m + 1)
  BY <1>5, <1>6, LoopPushCleanup DEF Sound
<1>9. CondInv(h, S, NoExit, m + 1)
  BY <1>5, <1>6, CondPushCleanup DEF Sound
<1> HIDE DEF m
<1>10. HeldInv(h, n) /\ LoopInv(h, S, NoExit, n) /\ CondInv(h, S, NoExit, n)
  BY <1>5, <1>7, <1>8, <1>9
<1> QED
  BY <1>1, <1>10 DEF Sound, Consistent

\* A cleanup ends, and what it held is under way again.
LEMMA SoundEnd ==
  ASSUME NEW f, NEW n \in Nat \ {0}, NEW R, NEW e, NEW S,
         Sound(f, R, e, n), f[n].kind = "cleanup",
         S.abort = f[n].saved.abort, S.target = f[n].saved.target,
         S.throw = f[n].saved.throw, S.tag = f[n].saved.tag,
         S.loop = R.loop, S.loopValue = R.loopValue,
         S.cond = R.cond, S.slot = R.slot
  PROVE  Sound(f, S, f[n].held, n - 1) /\ AtRest(R, e)
<1> DEFINE P == f[n].saved
           d == f[n].held
<1>1. AtRest(R, e)
  BY DEF Sound, Consistent, InFlight
<1>2. ~IsReturn(f, R, e) /\ ~IsCondition(f, R, e)
  BY <1>1 DEF AtRest, IsReturn, IsCondition
<1>3. ~Loopish(f[n]) /\ ~Handling(f[n])
  BY DEF Loopish, Handling
<1>4. /\ HoldsReturn(f, n) <=> IsReturn(f, P, d)
      /\ HoldsCondition(f, n) <=> IsCondition(f, P, d)
      /\ IsReturn(f, P, d) <=> IsReturn(f, S, d)
      /\ IsCondition(f, P, d) <=> IsCondition(f, S, d)
  BY DEF HoldsReturn, HoldsCondition, IsReturn, IsCondition
<1>5. LoopInv(f, S, d, n - 1)
  BY <1>2, <1>3, <1>4, LoopPop DEF Sound
<1>6. CondInv(f, S, d, n - 1)
  BY <1>2, <1>3, <1>4, CondPop DEF Sound
<1>7. Consistent(f, P, d, n - 1)
  BY DEF Sound, HeldInv
<1>8. /\ IsReturn(f, P, d) => R.loop /\ R.loopValue = d.value
      /\ IsCondition(f, P, d) => R.cond /\ R.slot = d.value
  BY <1>4 DEF Sound, LoopInv, LoopKept, CondInv, CondKept, NoLoop, NoHandler
<1>9. Consistent(f, S, d, n - 1)
  <2>1. CASE AtRest(P, d)
    BY <2>1 DEF AtRest, Consistent
  <2>2. CASE InFlight(f, P, d, n - 1)
    <3> HIDE DEF P, d
    <3>1. /\ ByReturn(f, P, d, n - 1) => IsReturn(f, P, d)
          /\ ByCondition(f, P, d, n - 1) => IsCondition(f, P, d)
      BY <2>2, FlightKinds
    <3>2. S.abort = P.abort /\ S.target = P.target /\ S.throw = P.throw
          /\ S.tag = P.tag
      BY DEF P
    <3>3. /\ ByBlock(f, P, d, n - 1) => ByBlock(f, S, d, n - 1)
          /\ ByThrow(f, P, d, n - 1) => ByThrow(f, S, d, n - 1)
      BY <3>2 DEF ByBlock, ByThrow
    <3>4. ByReturn(f, P, d, n - 1) => ByReturn(f, S, d, n - 1)
      BY <1>8, <3>1, <3>2 DEF ByReturn
    <3>5. ByCondition(f, P, d, n - 1) => ByCondition(f, S, d, n - 1)
      BY <1>8, <3>1, <3>2 DEF ByCondition
    <3> QED
      BY <2>2, <3>2, <3>3, <3>4, <3>5 DEF InFlight, Consistent
  <2> QED
    BY <1>7, <2>1, <2>2 DEF Consistent
<1>10. HeldInv(f, n - 1)
  BY HeldPop DEF Sound
<1> QED
  BY <1>1, <1>5, <1>6, <1>9, <1>10 DEF Sound

-----------------------------------------------------------------------------
(* Every action keeps the invariant.                                       *)

\* What the invariant says of the present registers and exit.
LEMMA IInvFacts ==
  ASSUME IInv
  PROVE  /\ TypeOK /\ Len(frames) \in Nat
         /\ regs.abort \in BOOLEAN
         /\ Shape(frames, exit, Len(frames))
         /\ Sound(frames, regs, exit, Len(frames))
         /\ exit.goal \in 0..Len(frames)
         /\ ~regs.abort => AtRest(regs, exit)
         /\ regs.abort => InFlight(frames, regs, exit, Len(frames))
<1>1. TypeOK /\ regs \in Registers
  BY DEF IInv, BasicInv, TypeOK
<1> QED
  BY <1>1, TypeFacts
     DEF IInv, Sound, Consistent, InFlight, AtRest, NoExit, Registers

\* Running code is open, unless an exit has gone astray.
LEMMA RunningOpen ==
  ASSUME IInv, Fresh, Running
  PROVE  Open /\ regs.abort = FALSE
BY IInvFacts DEF Fresh, Running, Open

\* So is code, and a session, that enters a construct.
LEMMA EnterOpen ==
  ASSUME IInv, Fresh, ~astray',
         \/ \E m \in BlockNames : NativeBlock(m)
         \/ \E m \in Tags : Catch(m)
         \/ UnwindProtect \/ NativeLoop \/ HandlerCase \/ GuardEnter
  PROVE  Open
<1>1. CASE ~GuardEnter
  BY <1>1, RunningOpen
     DEF NativeBlock, Catch, UnwindProtect, NativeLoop, HandlerCase
<1>2. CASE GuardEnter
  BY <1>2, RunningOpen DEF GuardEnter, SessionGoesOn, Fresh, Open
<1> QED
  BY <1>1, <1>2

\* The invariant after a construct has been entered.
LEMMA EnterKeeps ==
  ASSUME IInv, BasicInv', Open, NEW k \in Kinds \ {"failed", "cleanup"},
         NEW m \in BlockNames \cup Tags, Push(k, m),
         k = "block" => m \in BlockNames,
         regs'.abort = regs.abort, regs'.target = regs.target,
         regs'.throw = regs.throw,
         \/ /\ k # "loop" /\ ~(k = "block" /\ m = Nil)
            /\ regs'.loop = regs.loop /\ regs'.loopValue = regs.loopValue
         \/ k = "loop" /\ ~regs'.loop
         \/ k = "block" /\ m = Nil /\ ~regs.loop /\ regs' = regs,
         \/ /\ k \notin {"handler", "guard"}
            /\ regs'.cond = regs.cond /\ regs'.slot = regs.slot
         \/ k \in {"handler", "guard"} /\ ~regs'.cond
  PROVE  IInv'
<1> DEFINE n == Len(frames)
<1>1. /\ TypeOK /\ n \in Nat /\ Shape(frames, exit, n)
      /\ Sound(frames, regs, exit, n)
  BY IInvFacts
<1>2. /\ Len(frames') = n + 1 /\ Same(frames, frames', n)
      /\ frames'[n + 1] = Frame(k, m) /\ regs.abort = FALSE /\ exit' = exit
  BY <1>1, PushFacts, IInvFacts DEF Open
<1>3. /\ frames'[n + 1].kind = k /\ frames'[n + 1].name = m
      /\ frames'[n + 1].saved = regs
  BY <1>2 DEF Frame
<1>4. frames # <<>> => frames[n].kind # "failed"
  BY DEF Open, Top, Last
<1>5. \A i \in 1..n : frames[i].kind # "failed"
  <2>1. n \in 1..n => frames # <<>>
    BY <1>1, EmptySeq, TypeFacts
  <2> QED
    BY <1>1, <1>4, <2>1 DEF Shape
<1>6. Shape(frames', exit', n + 1)
  <2>1. \A i \in 1..(n + 1) : i \in 1..n \/ i = n + 1
    BY <1>1
  <2> QED
    BY <1>1, <1>2, <1>3, <1>5, <2>1 DEF Shape, Same
<1>7. Sound(frames', regs, exit, n)
  BY <1>1, <1>2, SameSound
<1>8. Sound(frames', regs', exit, n + 1)
  BY <1>1, <1>2, <1>3, <1>7, SoundPush DEF Loopish, Handling
<1> QED
  BY <1>2, <1>6, <1>8 DEF IInv

\* Each construct clears what it keeps a copy of, and no more.
LEMMA EnterStep ==
  ASSUME IInv, BasicInv', Fresh, ~astray',
         \/ \E m \in BlockNames : NativeBlock(m)
         \/ \E m \in Tags : Catch(m)
         \/ UnwindProtect \/ NativeLoop \/ HandlerCase \/ GuardEnter
  PROVE  IInv'
<1>1. Nil \in BlockNames \cup Tags /\ regs \in Registers
  BY ExitAssumption DEF IInv, BasicInv, TypeOK
<1>0. Open
  BY EnterOpen
<1>2. ASSUME NEW m \in BlockNames, NativeBlock(m)
      PROVE  IInv'
  <2>1. Push("block", m) /\ regs' = regs /\ "block" \in Kinds \ {"failed", "cleanup"}
    BY <1>2 DEF NativeBlock, Kinds
  <2>2. m = Nil => ~regs.loop
    BY <1>0, <1>2 DEF NativeBlock, BreakHeldUp, Open
  <2> QED
    BY <1>0, <1>1, <2>1, <2>2, EnterKeeps
<1>3. ASSUME NEW m \in Tags, Catch(m)
      PROVE  IInv'
  <2>1. Push("catch", m) /\ regs' = regs /\ "catch" \in Kinds \ {"failed", "cleanup"}
    BY <1>3 DEF Catch, Kinds
  <2> QED
    BY <1>0, <1>1, <2>1, EnterKeeps
<1>4. CASE UnwindProtect
  <2>1. Push("protect", Nil) /\ regs' = regs
        /\ "protect" \in Kinds \ {"failed", "cleanup"}
    BY <1>4 DEF UnwindProtect, Kinds
  <2> QED
    BY <1>0, <1>1, <2>1, EnterKeeps
<1>5. CASE NativeLoop
  <2>1. Push("loop", Nil) /\ "loop" \in Kinds \ {"failed", "cleanup"}
    BY <1>5 DEF NativeLoop, Kinds
  <2>2. /\ regs'.abort = regs.abort /\ regs'.target = regs.target
        /\ regs'.throw = regs.throw /\ regs'.loop = FALSE
        /\ regs'.cond = regs.cond /\ regs'.slot = regs.slot
    BY <1>1, <1>5 DEF NativeLoop, Registers
  <2> QED
    BY <1>0, <1>1, <2>1, <2>2, EnterKeeps
<1>6. CASE HandlerCase \/ GuardEnter
  <2>1. PICK k \in {"handler", "guard"} : Push(k, Nil)
    BY <1>6 DEF HandlerCase, GuardEnter
  <2>2. k \in Kinds \ {"failed", "cleanup"}
    BY DEF Kinds
  <2>3. /\ regs'.abort = regs.abort /\ regs'.target = regs.target
        /\ regs'.throw = regs.throw /\ regs'.cond = FALSE
        /\ regs'.loop = regs.loop /\ regs'.loopValue = regs.loopValue
    BY <1>1, <1>6 DEF HandlerCase, GuardEnter, Registers
  <2> QED
    BY <1>0, <1>1, <2>1, <2>2, <2>3, EnterKeeps
<1> QED
  BY <1>2, <1>3, <1>4, <1>5, <1>6

\* An exit that is contained passes no cleanup that has begun.
LEMMA ContainedPasses ==
  ASSUME IInv, NEW g \in 1..Len(frames), Contained(g),
         frames[g].kind # "cleanup"
  PROVE  \A i \in g..Len(frames) : frames[i].kind # "cleanup"
<1>1. Len(frames) \in Nat
  BY IInvFacts
<1>2. OfKind({"cleanup"}) \in SUBSET (1..Len(frames))
  BY DEF OfKind
<1>3. \A i \in OfKind({"cleanup"}) : i <= Innermost(OfKind({"cleanup"}))
  BY <1>1, <1>2, InnermostIs
<1>4. Innermost(OfKind({"cleanup"})) \in 0..Len(frames)
  <2>1. Innermost(OfKind({"cleanup"})) \in {0} \cup OfKind({"cleanup"})
    BY <1>1, <1>2, InnermostIs
  <2> QED
    BY <1>1, <1>2, <2>1
<1>5. g >= Innermost(OfKind({"cleanup"}))
  BY DEF Contained
<1>6. ASSUME NEW i \in g..Len(frames), frames[i].kind = "cleanup"
      PROVE  FALSE
  <2>1. i \in 1..Len(frames) /\ i >= g /\ i # g
    BY <1>1, <1>6
  <2>2. i \in OfKind({"cleanup"})
    BY <1>6, <2>1 DEF OfKind
  <2>3. i <= Innermost(OfKind({"cleanup"}))
    BY <1>3, <2>2
  <2> HIDE <1>6
  <2> QED
    BY <1>1, <1>4, <1>5, <2>1, <2>3
<1> QED
  BY <1>6

\* No evaluation has failed where Lisp code runs.
LEMMA NoneFailed ==
  ASSUME IInv, Open
  PROVE  \A i \in 1..Len(frames) : frames[i].kind # "failed"
<1>1. TypeOK /\ Len(frames) \in Nat /\ Shape(frames, exit, Len(frames))
  BY IInvFacts
<1>2. frames # <<>> => frames[Len(frames)].kind # "failed"
  BY DEF Open, Top, Last
<1>3. Len(frames) \in 1..Len(frames) => frames # <<>>
  BY <1>1, EmptySeq, TypeFacts
<1> QED
  BY <1>1, <1>2, <1>3 DEF Shape

\* The invariant after an exit has been started.
LEMMA StartKeeps ==
  ASSUME IInv, BasicInv', Open, Len(frames') = Len(frames),
         Alike(frames, frames', Len(frames)),
         InFlight(frames', regs', exit', Len(frames)),
         \/ Loopish(frames'[exit'.goal]) /\ regs'.loop /\ regs'.target = None
         \/ regs'.loop = regs.loop /\ regs'.loopValue = regs.loopValue,
         \/ Handling(frames'[exit'.goal]) /\ regs'.cond
         \/ regs'.cond = regs.cond /\ regs'.slot = regs.slot
  PROVE  IInv'
<1> DEFINE n == Len(frames)
<1>1. /\ TypeOK /\ n \in Nat /\ Shape(frames, exit, n)
      /\ Sound(frames, regs, exit, n) /\ exit.goal \in 0..n
      /\ AtRest(regs, exit) /\ regs.abort = FALSE
  BY IInvFacts DEF Open
<1>2. Sound(frames', regs, exit, n)
  BY <1>1, AlikeHeld, AlikeKept DEF Sound, Consistent, LoopInv, CondInv
<1>3. Sound(frames', regs', exit', n)
  BY <1>1, <1>2, SoundStart
<1>4. Shape(frames', exit', n)
  BY <1>1, NoneFailed DEF Shape, Alike
<1> QED
  BY <1>3, <1>4 DEF IInv

\* The registers that an exit sets, as it starts below the frames that no
\* cleanup has begun in.
LEMMA GoalPasses ==
  ASSUME IInv, ~astray', Open,
         NEW goals \in SUBSET (1..Len(frames)), goals # {}, NEW v \in Values,
         StartExit(goals, v),
         \A i \in goals : frames[i].kind # "cleanup"
  PROVE  /\ exit'.goal \in goals /\ exit'.goal \in 1..Len(frames)
         /\ exit'.value = v
         /\ exit'.goal = Innermost(goals)
         /\ \A i \in exit'.goal..Len(frames) :
              i \in 1..Len(frames) /\ frames[i].kind \notin {"cleanup", "failed"}
         /\ \A i \in (exit'.goal + 1)..Len(frames) :
              i \in 1..Len(frames) /\ i \notin goals
<1>1. TypeOK /\ Len(frames) \in Nat
  BY IInvFacts
<1>2. /\ exit'.goal = Innermost(goals) /\ exit'.value = v
      /\ Innermost(goals) \in goals
      /\ \A i \in goals : i <= Innermost(goals)
  BY <1>1, GoalIs DEF StartExit
<1>3. \A i \in Innermost(goals)..Len(frames) : frames[i].kind # "cleanup"
  BY <1>2, ContainedPasses DEF StartExit
<1>4. \A i \in Innermost(goals)..Len(frames) :
         i \in 1..Len(frames) /\ frames[i].kind # "failed"
  <2> DEFINE g == Innermost(goals)
  <2>1. g \in 1..Len(frames)
    BY <1>2
  <2> HIDE DEF g
  <2>2. \A i \in g..Len(frames) : i \in 1..Len(frames)
    BY <1>1, <2>1
  <2>3. \A i \in 1..Len(frames) : frames[i].kind # "failed"
    BY NoneFailed
  <2> QED
    BY <2>2, <2>3 DEF g
<1>5. \A i \in (Innermost(goals) + 1)..Len(frames) :
         i \in 1..Len(frames) /\ i \notin goals
  <2> DEFINE g == Innermost(goals)
  <2>1. g \in 1..Len(frames) /\ \A i \in goals : i <= g
    BY <1>2
  <2> HIDE DEF g
  <2>2. \A i \in (g + 1)..Len(frames) : i \in 1..Len(frames) /\ i \notin goals
    BY <1>1, <2>1
  <2> QED
    BY <2>2 DEF g
<1> QED
  BY <1>2, <1>3, <1>4, <1>5

\* The registers of a condition lead it to the innermost handler.
LEMMA SignalFlies ==
  ASSUME IInv, NEW n \in 0..Len(frames), NEW v \in Values, regs.abort = FALSE,
         regs' = [regs EXCEPT !.slot = v, !.cond = TRUE, !.abort = TRUE],
         exit'.goal \in 1..n, exit'.value = v, Handling(frames[exit'.goal]),
         \A i \in exit'.goal..n : frames[i].kind \notin {"cleanup", "failed"},
         NoHandler(frames, exit'.goal + 1, n)
  PROVE  /\ InFlight(frames, regs', exit', n)
         /\ regs'.loop = regs.loop /\ regs'.loopValue = regs.loopValue
         /\ regs'.cond
<1>1. AtRest(regs, exit) /\ regs \in Registers
  BY IInvFacts DEF IInv, BasicInv, TypeOK
<1>2. /\ regs'.abort = TRUE /\ regs'.target = regs.target /\ regs'.throw = regs.throw
      /\ regs'.cond = TRUE /\ regs'.slot = v
      /\ regs'.loop = regs.loop /\ regs'.loopValue = regs.loopValue
  BY <1>1 DEF Registers
<1>3. ByCondition(frames, regs', exit', n)
  BY <1>1, <1>2 DEF ByCondition, AtRest
<1> QED
  BY <1>2, <1>3 DEF InFlight

\* (error): to the innermost handler, or the end of the process.
LEMMA ErrorStep ==
  ASSUME IInv, BasicInv', Fresh, ~astray', NEW v \in Values, Error(v)
  PROVE  IInv'
<1>1. /\ TypeOK /\ Len(frames) \in Nat /\ regs.abort = FALSE
      /\ Open /\ Signal(v) /\ frames' = frames
  BY IInvFacts, RunningOpen DEF Error
<1>2. CASE handlerDepth = 0
  BY <1>1, <1>2 DEF Signal, IInv
<1>3. CASE handlerDepth # 0
  <2>1. /\ regs' = [regs EXCEPT !.slot = v, !.cond = TRUE, !.abort = TRUE]
        /\ StartExit(Handlers, v)
    BY <1>1, <1>3 DEF Signal
  <2>2. Handlers # {}
    BY <1>3, CountedIs DEF IInv, BasicInv
  <2>3. /\ Handlers \in SUBSET (1..Len(frames))
        /\ \A i \in 1..Len(frames) : i \in Handlers <=> Handling(frames[i])
        /\ \A i \in Handlers : frames[i].kind # "cleanup"
    BY <1>1, GoalSets DEF Handling
  <2>4. /\ exit'.goal \in 1..Len(frames) /\ exit'.value = v
        /\ Handling(frames[exit'.goal])
        /\ \A i \in exit'.goal..Len(frames) : frames[i].kind \notin {"cleanup", "failed"}
        /\ NoHandler(frames, exit'.goal + 1, Len(frames))
    BY <1>1, <2>1, <2>2, <2>3, GoalPasses DEF NoHandler
  <2>5. /\ InFlight(frames, regs', exit', Len(frames))
        /\ regs'.loop = regs.loop /\ regs'.loopValue = regs.loopValue
        /\ regs'.cond
    <3>1. Len(frames) \in 0..Len(frames)
      BY <1>1
    <3> QED
      BY <1>1, <2>1, <2>4, <3>1, SignalFlies
  <2>6. Alike(frames, frames', Len(frames))
    BY <1>1 DEF Alike
  <2> QED
    BY <1>1, <2>4, <2>5, <2>6, StartKeeps
<1> QED
  BY <1>2, <1>3

\* (return): to the innermost loop or block NIL.
LEMMA LoopReturnStep ==
  ASSUME IInv, BasicInv', Fresh, ~astray', NEW v \in Values, LoopReturn(v)
  PROVE  IInv'
<1>1. /\ TypeOK /\ Len(frames) \in Nat /\ Open /\ frames' = frames
      /\ AtRest(regs, exit) /\ regs \in Registers
      /\ Loops # {} /\ StartExit(Loops, v)
  BY IInvFacts, RunningOpen DEF LoopReturn, StartExit, IInv, BasicInv, TypeOK
<1>2. /\ regs'.abort = TRUE /\ regs'.target = None /\ ~regs'.throw
      /\ regs'.loop = TRUE /\ regs'.loopValue = v
      /\ regs'.cond = regs.cond /\ regs'.slot = regs.slot
  BY <1>1 DEF LoopReturn, Registers, AtRest
<1>3. /\ Loops \in SUBSET (1..Len(frames))
      /\ \A i \in 1..Len(frames) : i \in Loops <=> Loopish(frames[i])
      /\ \A i \in Loops : frames[i].kind # "cleanup"
  BY <1>1, GoalSets DEF Loopish
<1>4. /\ exit'.goal \in 1..Len(frames) /\ exit'.value = v
      /\ Loopish(frames[exit'.goal])
      /\ \A i \in exit'.goal..Len(frames) : frames[i].kind \notin {"cleanup", "failed"}
      /\ NoLoop(frames, exit'.goal + 1, Len(frames))
  BY <1>1, <1>3, GoalPasses DEF NoLoop
<1>5. InFlight(frames', regs', exit', Len(frames))
  BY <1>1, <1>2, <1>4 DEF InFlight, ByReturn
<1>6. Alike(frames, frames', Len(frames))
  BY <1>1 DEF Alike
<1> QED
  BY <1>1, <1>2, <1>4, <1>5, <1>6, StartKeeps

\* (return-from): to the innermost block of that name.
LEMMA ReturnFromStep ==
  ASSUME IInv, BasicInv', Fresh, ~astray', NEW m \in BlockNames, NEW v \in Values,
         ReturnFrom(m, v)
  PROVE  IInv'
<1>1. /\ TypeOK /\ Len(frames) \in Nat /\ Open
      /\ AtRest(regs, exit) /\ regs \in Registers
      /\ Blocks(m) # {} /\ StartExit(Blocks(m), v)
      /\ frames' = [frames EXCEPT ![Innermost(Blocks(m))].value = v]
  BY IInvFacts, RunningOpen DEF ReturnFrom, IInv, BasicInv, TypeOK
<1>2. /\ regs'.abort = TRUE /\ regs'.target = m /\ ~regs'.throw
      /\ regs'.loop = regs.loop /\ regs'.loopValue = regs.loopValue
      /\ regs'.cond = regs.cond /\ regs'.slot = regs.slot
  BY <1>1 DEF ReturnFrom, Registers, AtRest
<1>3. /\ Blocks(m) \in SUBSET (1..Len(frames))
      /\ \A i \in 1..Len(frames) :
           i \in Blocks(m) <=> frames[i].kind = "block" /\ frames[i].name = m
      /\ \A i \in Blocks(m) : frames[i].kind # "cleanup"
  BY <1>1, GoalSets
<1> DEFINE g == exit'.goal
<1>4. /\ g \in 1..Len(frames) /\ exit'.value = v
      /\ g = Innermost(Blocks(m))
      /\ frames[g].kind = "block" /\ frames[g].name = m
      /\ \A i \in g..Len(frames) :
           i \in 1..Len(frames) /\ frames[i].kind \notin {"cleanup", "failed"}
      /\ \A i \in (g + 1)..Len(frames) :
           i \in 1..Len(frames) /\ ~(frames[i].kind = "block" /\ frames[i].name = m)
  BY <1>1, <1>3, GoalPasses
<1> HIDE DEF g
<1>5. /\ Len(frames') = Len(frames) /\ frames'[g].value = v
      /\ \A i \in 1..Len(frames) :
           frames'[i].kind = frames[i].kind /\ frames'[i].name = frames[i].name
  BY <1>1, <1>4, StashTypes
<1>6. Alike(frames, frames', Len(frames))
  <2>1. \A c \in (g + 1)..Len(frames) : frames[c].kind # "cleanup"
    BY <1>1, <1>4
  <2> QED
    BY <1>1, <1>4, <2>1, StashFacts
<1>7. m # None
  BY ExitAssumption
<1>8. ByBlock(frames', regs', exit', Len(frames))
  BY <1>2, <1>4, <1>5, <1>7 DEF ByBlock, g
<1>9. InFlight(frames', regs', exit', Len(frames))
  BY <1>2, <1>4, <1>5, <1>8 DEF InFlight, g
<1> QED
  BY <1>1, <1>2, <1>5, <1>6, <1>9, StartKeeps

\* (throw): to the innermost catch of that tag.
LEMMA ThrowStep ==
  ASSUME IInv, BasicInv', Fresh, ~astray', NEW m \in Tags, NEW v \in Values,
         Throw(m, v)
  PROVE  IInv'
<1>1. /\ TypeOK /\ Len(frames) \in Nat /\ Open
      /\ AtRest(regs, exit) /\ regs \in Registers
      /\ Catches(m) # {} /\ StartExit(Catches(m), v)
      /\ frames' = [frames EXCEPT ![Innermost(Catches(m))].value = v]
  BY IInvFacts, RunningOpen DEF Throw, IInv, BasicInv, TypeOK
<1>2. /\ regs'.abort = TRUE /\ regs'.target = None /\ regs'.throw = TRUE
      /\ regs'.tag = m
      /\ regs'.loop = regs.loop /\ regs'.loopValue = regs.loopValue
      /\ regs'.cond = regs.cond /\ regs'.slot = regs.slot
  BY <1>1 DEF Throw, Registers, AtRest
<1>3. /\ Catches(m) \in SUBSET (1..Len(frames))
      /\ \A i \in 1..Len(frames) :
           i \in Catches(m) <=> frames[i].kind = "catch" /\ frames[i].name = m
      /\ \A i \in Catches(m) : frames[i].kind # "cleanup"
  BY <1>1, GoalSets
<1> DEFINE g == exit'.goal
<1>4. /\ g \in 1..Len(frames) /\ exit'.value = v
      /\ g = Innermost(Catches(m))
      /\ frames[g].kind = "catch" /\ frames[g].name = m
      /\ \A i \in g..Len(frames) :
           i \in 1..Len(frames) /\ frames[i].kind \notin {"cleanup", "failed"}
      /\ \A i \in (g + 1)..Len(frames) :
           i \in 1..Len(frames) /\ ~(frames[i].kind = "catch" /\ frames[i].name = m)
  BY <1>1, <1>3, GoalPasses
<1> HIDE DEF g
<1>5. /\ Len(frames') = Len(frames) /\ frames'[g].value = v
      /\ \A i \in 1..Len(frames) :
           frames'[i].kind = frames[i].kind /\ frames'[i].name = frames[i].name
  BY <1>1, <1>4, StashTypes
<1>6. Alike(frames, frames', Len(frames))
  <2>1. \A c \in (g + 1)..Len(frames) : frames[c].kind # "cleanup"
    BY <1>1, <1>4
  <2> QED
    BY <1>1, <1>4, <2>1, StashFacts
<1>7. ByThrow(frames', regs', exit', Len(frames))
  BY <1>2, <1>4, <1>5 DEF ByThrow, g
<1>8. InFlight(frames', regs', exit', Len(frames))
  BY <1>2, <1>4, <1>5, <1>7 DEF InFlight, g
<1> QED
  BY <1>1, <1>2, <1>5, <1>6, <1>8, StartKeeps

\* How a construct is left: the exit ends here, or goes on; there may be
\* none.
Lands ==
    /\ exit.goal = Len(frames)
    /\ exit' = NoExit /\ result' = exit.value

Passes ==
    /\ exit.goal < Len(frames)
    /\ exit' = exit /\ result' = Nil

\* The invariant after a construct has been left.
LEMMA LeaveKeeps ==
  ASSUME IInv, BasicInv', frames # <<>>, frames' = Front(frames),
         Sound(frames, regs', exit', Len(frames) - 1)
  PROVE  IInv'
<1> DEFINE n == Len(frames)
<1>1. /\ TypeOK /\ n \in Nat \ {0} /\ Shape(frames, exit, n)
      /\ n - 1 \in Nat
  BY IInvFacts, TypeFacts
<1>2. Len(frames') = n - 1 /\ Same(frames, frames', n - 1)
  BY <1>1, PopFacts
<1>3. Sound(frames', regs', exit', n - 1)
  BY <1>1, <1>2, SameSound
<1>4. Shape(frames', exit', n - 1)
  BY <1>1, <1>2 DEF Shape, Same
<1> QED
  BY <1>2, <1>3, <1>4 DEF IInv

\* Facts about the innermost frame.
LEMMA TopFacts ==
  ASSUME IInv, frames # <<>>
  PROVE  /\ Len(frames) \in Nat \ {0} /\ Top = frames[Len(frames)]
         /\ Top \in FrameSet
         /\ regs \in Registers /\ exit.goal \in 0..Len(frames)
         /\ Top.kind = "block" => Top.name \in BlockNames /\ Top.name # None
         /\ regs.loop /\ Loopish(Top) => IsReturn(frames, regs, exit)
         /\ regs.cond /\ Handling(Top) => IsCondition(frames, regs, exit)
<1>1. /\ TypeOK /\ exit.goal \in 0..Len(frames)
      /\ Shape(frames, exit, Len(frames)) /\ Sound(frames, regs, exit, Len(frames))
  BY IInvFacts
<1>2. /\ Len(frames) \in Nat \ {0} /\ Top = frames[Len(frames)]
      /\ Top \in FrameSet /\ regs \in Registers
  BY <1>1, TypeFacts
<1>3. Top.kind = "block" => Top.name \in BlockNames /\ Top.name # None
  BY <1>1, <1>2, ExitAssumption DEF Shape
<1>4. /\ \A c \in 1..Len(frames) : HoldsReturn(frames, c) => c # Len(frames) \/ ~Loopish(Top)
      /\ \A c \in 1..Len(frames) : HoldsCondition(frames, c) => c # Len(frames) \/ ~Handling(Top)
  BY <1>2 DEF HoldsReturn, HoldsCondition, Loopish, Handling
<1>5. /\ Loopish(Top) => \A c \in 1..Len(frames) :
            HoldsReturn(frames, c) => ~NoLoop(frames, c + 1, Len(frames))
      /\ Handling(Top) => \A c \in 1..Len(frames) :
            HoldsCondition(frames, c) => ~NoHandler(frames, c + 1, Len(frames))
  BY <1>2, <1>4 DEF NoLoop, NoHandler
<1>6. regs.loop /\ Loopish(Top) => IsReturn(frames, regs, exit)
  BY <1>1, <1>5 DEF Sound, LoopInv, LoopCause
<1>7. regs.cond /\ Handling(Top) => IsCondition(frames, regs, exit)
  BY <1>1, <1>5 DEF Sound, CondInv, CondCause
<1> QED
  BY <1>1, <1>2, <1>3, <1>6, <1>7

\* Whose exit it is, seen from the innermost frame.
LEMMA TopGoal ==
  ASSUME IInv, frames # <<>>
  PROVE  /\ exit.goal = Len(frames) => regs.abort
         /\ Top.kind = "block" /\ regs.abort =>
              (exit.goal = Len(frames) <=>
                 \/ regs.target = Top.name
                 \/ Top.name = Nil /\ regs.loop)
         /\ Top.kind = "block" /\ regs.abort /\ regs.target = Top.name =>
              exit.value = Top.value /\ ~regs.throw /\ ~IsReturn(frames, regs, exit)
         /\ Top.kind = "catch" =>
              (exit.goal = Len(frames) <=> CatchMatches)
         /\ CatchMatches /\ Top.kind = "catch" =>
              exit.value = Top.value /\ regs.target = None
         /\ Loopish(Top) /\ regs.loop =>
              /\ exit.goal = Len(frames) /\ exit.value = regs.loopValue
              /\ regs.abort /\ regs.target = None /\ ~regs.throw
         /\ Handling(Top) /\ regs.cond =>
              /\ exit.goal = Len(frames) /\ exit.value = regs.slot
              /\ regs.abort /\ regs.target = None /\ ~regs.throw
         /\ Top.kind = "loop" /\ ~regs.loop => exit.goal # Len(frames)
         /\ Handling(Top) /\ ~regs.cond => exit.goal # Len(frames)
         /\ Top.kind \in {"protect", "cleanup", "failed"} => exit.goal # Len(frames)
<1> DEFINE n == Len(frames)
<1>1. /\ n \in Nat \ {0} /\ Top = frames[n] /\ regs \in Registers
      /\ exit.goal \in 0..n
      /\ Top.kind = "block" => Top.name \in BlockNames /\ Top.name # None
      /\ regs.loop /\ Loopish(Top) => IsReturn(frames, regs, exit)
      /\ regs.cond /\ Handling(Top) => IsCondition(frames, regs, exit)
  BY TopFacts
<1>2. /\ ~regs.abort => AtRest(regs, exit)
      /\ regs.abort => InFlight(frames, regs, exit, n)
  BY IInvFacts
<1> HIDE DEF n
<1>3. CASE ~regs.abort
  <2>1. exit.goal = 0 /\ ~IsReturn(frames, regs, exit)
        /\ ~IsCondition(frames, regs, exit)
    BY <1>2, <1>3 DEF AtRest, NoExit, IsReturn, IsCondition
  <2> QED
    BY <1>1, <1>3, <2>1 DEF n, CatchMatches
<1>4. CASE regs.abort
  <2>1. /\ exit.goal \in 1..n
        /\ frames[exit.goal].kind \notin {"cleanup", "failed"}
        /\ \/ ByBlock(frames, regs, exit, n) \/ ByThrow(frames, regs, exit, n)
           \/ ByReturn(frames, regs, exit, n) \/ ByCondition(frames, regs, exit, n)
    BY <1>2, <1>4 DEF InFlight
  <2>2. exit.goal = n \/ n \in (exit.goal + 1)..n
    BY <1>1, <2>1
  <2>3. CASE ByBlock(frames, regs, exit, n)
    <3>1. /\ regs.target # None /\ ~regs.throw
          /\ ~IsReturn(frames, regs, exit) /\ ~IsCondition(frames, regs, exit)
          /\ frames[exit.goal].kind = "block"
          /\ frames[exit.goal].name = regs.target
          /\ frames[exit.goal].value = exit.value
      BY <2>3 DEF ByBlock, IsReturn, IsCondition, Handling
    <3>2. /\ ~(Loopish(Top) /\ regs.loop) /\ ~(Handling(Top) /\ regs.cond)
          /\ Top.kind = "block" /\ Top.name = Nil => ~regs.loop
      BY <1>1, <3>1 DEF Loopish
    <3>3. Top.kind = "block" /\ Top.name = regs.target => exit.goal = n
      BY <1>1, <2>2, <2>3 DEF ByBlock
    <3> QED
      BY <1>1, <1>4, <2>1, <3>1, <3>2, <3>3 DEF n, CatchMatches, Handling
  <2>4. CASE ByThrow(frames, regs, exit, n)
    <3>1. /\ regs.target = None /\ regs.throw
          /\ ~IsReturn(frames, regs, exit) /\ ~IsCondition(frames, regs, exit)
          /\ frames[exit.goal].kind = "catch"
          /\ frames[exit.goal].name = regs.tag
          /\ frames[exit.goal].value = exit.value
      BY <2>4 DEF ByThrow, IsReturn, IsCondition, Loopish, Handling
    <3>2. /\ ~(Loopish(Top) /\ regs.loop) /\ ~(Handling(Top) /\ regs.cond)
          /\ Top.kind = "block" /\ Top.name = Nil => ~regs.loop
      BY <1>1, <3>1 DEF Loopish
    <3>3. Top.kind = "catch" /\ Top.name = regs.tag => exit.goal = n
      BY <1>1, <2>2, <2>4 DEF ByThrow
    <3> QED
      BY <1>1, <1>4, <2>1, <3>1, <3>2, <3>3 DEF n, CatchMatches, Handling
  <2>5. CASE ByReturn(frames, regs, exit, n)
    <3>1. /\ regs.target = None /\ ~regs.throw /\ regs.loop
          /\ regs.loopValue = exit.value
          /\ Loopish(frames[exit.goal]) /\ ~IsCondition(frames, regs, exit)
      BY <2>5 DEF ByReturn, IsCondition, Loopish, Handling
    <3>2. ~(Handling(Top) /\ regs.cond)
      BY <1>1, <3>1
    <3>3. Loopish(Top) => exit.goal = n
      BY <1>1, <2>2, <2>5 DEF ByReturn, NoLoop
    <3> QED
      BY <1>1, <1>4, <2>1, <3>1, <3>2, <3>3 DEF n, CatchMatches, Loopish, Handling
  <2>6. CASE ByCondition(frames, regs, exit, n)
    <3>1. /\ regs.target = None /\ ~regs.throw /\ regs.cond
          /\ regs.slot = exit.value
          /\ Handling(frames[exit.goal]) /\ ~IsReturn(frames, regs, exit)
      BY <2>6 DEF ByCondition, IsReturn, Loopish, Handling
    <3>2. /\ ~(Loopish(Top) /\ regs.loop)
          /\ Top.kind = "block" /\ Top.name = Nil => ~regs.loop
      BY <1>1, <3>1 DEF Loopish
    <3>3. Handling(Top) => exit.goal = n
      BY <1>1, <2>2, <2>6 DEF ByCondition, NoHandler
    <3> QED
      BY <1>1, <1>4, <2>1, <3>1, <3>2, <3>3 DEF n, CatchMatches, Handling
  <2> QED
    BY <2>1, <2>3, <2>4, <2>5, <2>6
<1> QED
  BY <1>1, <1>3, <1>4 DEF Registers

\* The exit ends at the innermost frame, which clears its registers.
LEMMA LandSound ==
  ASSUME IInv, frames # <<>>, Lands, Top.kind # "cleanup",
         ~regs'.abort, regs'.target = None, ~regs'.throw,
         \/ /\ ~Loopish(Top) /\ ~IsReturn(frames, regs, exit)
            /\ regs'.loop = regs.loop /\ regs'.loopValue = regs.loopValue
         \/ /\ Top.kind = "loop"
            /\ regs'.loop = Top.saved.loop /\ regs'.loopValue = Top.saved.loopValue
         \/ Top.kind = "block" /\ Top.name = Nil /\ ~regs'.loop,
         \/ /\ ~Handling(Top) /\ ~IsCondition(frames, regs, exit)
            /\ regs'.cond = regs.cond /\ regs'.slot = regs.slot
         \/ /\ Handling(Top)
            /\ regs'.cond = Top.saved.cond /\ regs'.slot = Top.saved.slot
  PROVE  Sound(frames, regs', exit', Len(frames) - 1)
<1>1. /\ Len(frames) \in Nat \ {0} /\ Top = frames[Len(frames)]
      /\ Sound(frames, regs, exit, Len(frames))
  BY TopFacts, IInvFacts
<1>2. Consistent(frames, regs', exit', Len(frames) - 1)
  BY DEF Lands, Consistent, AtRest
<1> QED
  BY <1>1, <1>2, SoundPop

\* The exit goes on below the innermost frame.
LEMMA PassSound ==
  ASSUME IInv, frames # <<>>, Passes, Top.kind # "cleanup",
         regs'.abort = regs.abort, regs'.target = regs.target,
         regs'.throw = regs.throw, regs'.tag = regs.tag,
         \/ /\ ~Loopish(Top)
            /\ regs'.loop = regs.loop /\ regs'.loopValue = regs.loopValue
         \/ /\ Top.kind = "loop" /\ ~IsReturn(frames, regs, exit)
            /\ regs'.loop = Top.saved.loop /\ regs'.loopValue = Top.saved.loopValue
         \/ /\ Top.kind = "block" /\ Top.name = Nil /\ ~regs.loop
            /\ regs'.loop = regs.loop /\ regs'.loopValue = regs.loopValue,
         \/ /\ ~Handling(Top)
            /\ regs'.cond = regs.cond /\ regs'.slot = regs.slot
         \/ /\ Handling(Top) /\ ~IsCondition(frames, regs, exit)
            /\ regs'.cond = Top.saved.cond /\ regs'.slot = Top.saved.slot
  PROVE  Sound(frames, regs', exit', Len(frames) - 1)
<1>1. /\ Len(frames) \in Nat \ {0} /\ Top = frames[Len(frames)]
      /\ Sound(frames, regs, exit, Len(frames))
  BY TopFacts, IInvFacts
<1>2. exit' = exit /\ exit.goal # Len(frames)
  BY <1>1, TopFacts DEF Passes
<1>3. Consistent(frames, regs, exit, Len(frames))
  BY <1>1 DEF Sound
<1>4. Consistent(frames, regs', exit, Len(frames) - 1)
  BY <1>1, <1>2, <1>3, PassConsistent
<1>5. /\ IsReturn(frames, regs, exit) => IsReturn(frames, regs', exit')
      /\ IsCondition(frames, regs, exit) => IsCondition(frames, regs', exit')
  BY <1>2 DEF IsReturn, IsCondition
<1> QED
  BY <1>1, <1>2, <1>4, <1>5, SoundPop

\* A (return) or a condition does not pass a form that answers to it.
LEMMA ReturnMeetsLoop ==
  ASSUME IInv, frames # <<>>
  PROVE  /\ IsReturn(frames, regs, exit) => regs.loop
         /\ IsCondition(frames, regs, exit) => regs.cond
         /\ ~regs.abort => exit = NoExit /\ regs.target = None /\ ~regs.throw
         /\ exit.goal = 0 => ~regs.abort
<1>1. /\ Len(frames) \in Nat
      /\ ~regs.abort => AtRest(regs, exit)
      /\ regs.abort => InFlight(frames, regs, exit, Len(frames))
  BY IInvFacts
<1>2. IsReturn(frames, regs, exit) => ByReturn(frames, regs, exit, Len(frames))
  BY <1>1, FlightKinds DEF IsReturn
<1>3. IsCondition(frames, regs, exit) => ByCondition(frames, regs, exit, Len(frames))
  BY <1>1, FlightKinds DEF IsCondition
<1> QED
  BY <1>1, <1>2, <1>3 DEF ByReturn, ByCondition, AtRest, InFlight

\* A block takes the exits meant for it, by name or by (return).
LEMMA BlockEndsSound ==
  ASSUME IInv, BlockEnds
  PROVE  /\ Sound(frames, regs', exit', Len(frames) - 1)
         /\ Lands \/ Passes
<1>1. /\ frames # <<>> /\ Top.kind = "block" /\ ~Handling(Top)
      /\ Loopish(Top) <=> Top.name = Nil
  BY DEF BlockEnds, Returned, Handling, Loopish
<1>2. /\ Len(frames) \in Nat \ {0} /\ exit.goal \in 0..Len(frames)
      /\ regs \in Registers /\ Top.name # None
      /\ regs.loop /\ Loopish(Top) => IsReturn(frames, regs, exit)
  BY <1>1, TopFacts
<1>3. CASE regs.abort /\ regs.target = Top.name
  <2>1. /\ exit.goal = Len(frames) /\ exit.value = Top.value
        /\ ~regs.throw /\ ~IsReturn(frames, regs, exit)
    BY <1>1, <1>3, TopGoal
  <2>2. /\ regs' = [regs EXCEPT !.abort = FALSE, !.target = None]
        /\ result' = Top.value
    BY <1>3 DEF BlockEnds
  <2>3. /\ regs'.abort = FALSE /\ regs'.target = None /\ ~regs'.throw
        /\ regs'.loop = regs.loop /\ regs'.loopValue = regs.loopValue
        /\ regs'.cond = regs.cond /\ regs'.slot = regs.slot
    BY <1>2, <2>1, <2>2 DEF Registers
  <2>4. Lands
    BY <2>1, <2>2, <2>3 DEF BlockEnds, Took, Lands
  <2>5. Loopish(Top) => ~regs'.loop
    BY <1>2, <2>1, <2>3
  <2>6. ~IsCondition(frames, regs, exit)
    BY <1>1, <1>2, <2>1, TopFacts DEF IsCondition
  <2> QED
    BY <1>1, <2>1, <2>3, <2>4, <2>5, <2>6, LandSound
<1>4. CASE regs.abort /\ regs.target # Top.name /\ Top.name = Nil /\ regs.loop
  <2>1. /\ exit.goal = Len(frames) /\ exit.value = regs.loopValue
        /\ ~regs.throw /\ regs.target = None
    BY <1>1, <1>4, TopGoal
  <2>2. /\ regs' = [regs EXCEPT !.loop = FALSE, !.abort = FALSE]
        /\ result' = regs.loopValue
    BY <1>4 DEF BlockEnds
  <2>3. /\ regs'.abort = FALSE /\ regs'.target = None /\ ~regs'.throw
        /\ regs'.loop = FALSE
        /\ regs'.cond = regs.cond /\ regs'.slot = regs.slot
    BY <1>2, <2>1, <2>2 DEF Registers
  <2>4. Lands
    BY <2>1, <2>2, <2>3 DEF BlockEnds, Took, Lands
  <2>5. ~IsCondition(frames, regs, exit)
    BY <1>1, <1>2, <2>1, TopFacts DEF IsCondition
  <2> QED
    BY <1>1, <1>4, <2>3, <2>4, <2>5, LandSound
<1>5. CASE ~regs.abort \/ (regs.target # Top.name /\ ~(Top.name = Nil /\ regs.loop))
  <2>1. regs' = regs /\ result' = Nil
    BY <1>5 DEF BlockEnds
  <2>2. exit.goal # Len(frames)
    BY <1>1, <1>5, TopGoal
  <2>3. exit' = exit
    BY <1>1, <2>1, ReturnMeetsLoop DEF BlockEnds, Took
  <2>4. Passes
    BY <1>2, <2>1, <2>2, <2>3 DEF Passes
  <2>5. Loopish(Top) => ~regs.loop
    BY <1>1, <1>2, <1>5 DEF IsReturn
  <2> QED
    BY <1>1, <2>1, <2>4, <2>5, PassSound
<1> QED
  BY <1>3, <1>4, <1>5

\* A catch takes the throws meant for it.
LEMMA CatchEndsSound ==
  ASSUME IInv, CatchEnds
  PROVE  /\ Sound(frames, regs', exit', Len(frames) - 1)
         /\ Lands \/ Passes
<1>1. /\ frames # <<>> /\ Top.kind = "catch" /\ ~Handling(Top) /\ ~Loopish(Top)
  BY DEF CatchEnds, Returned, Handling, Loopish
<1>2. /\ Len(frames) \in Nat \ {0} /\ exit.goal \in 0..Len(frames)
      /\ regs \in Registers /\ Top = frames[Len(frames)]
  BY <1>1, TopFacts
<1>3. exit.goal = Len(frames) <=> CatchMatches
  BY <1>1, TopGoal
<1>4. CASE CatchMatches
  <2>1. exit.goal = Len(frames) /\ exit.value = Top.value /\ regs.target = None
    BY <1>1, <1>3, <1>4, TopGoal
  <2>2. /\ regs' = [regs EXCEPT !.abort = FALSE, !.throw = FALSE, !.tag = Nil]
        /\ result' = Top.value
    BY <1>4 DEF CatchEnds
  <2>3. /\ regs'.abort = FALSE /\ regs'.target = None /\ ~regs'.throw
        /\ regs'.loop = regs.loop /\ regs'.loopValue = regs.loopValue
        /\ regs'.cond = regs.cond /\ regs'.slot = regs.slot
    BY <1>2, <2>1, <2>2 DEF Registers
  <2>4. Lands
    BY <2>1, <2>2, <2>3 DEF CatchEnds, Took, Lands
  <2>5. ~IsCondition(frames, regs, exit) /\ ~IsReturn(frames, regs, exit)
    BY <1>1, <1>2, <2>1 DEF IsCondition, IsReturn
  <2> QED
    BY <1>1, <2>3, <2>4, <2>5, LandSound
<1>5. CASE ~CatchMatches
  <2>1. regs' = regs /\ result' = Nil
    BY <1>5 DEF CatchEnds
  <2>2. exit' = exit
    BY <1>1, <2>1, ReturnMeetsLoop DEF CatchEnds, Took
  <2>3. Passes
    BY <1>2, <1>3, <1>5, <2>1, <2>2 DEF Passes
  <2> QED
    BY <1>1, <2>1, <2>3, PassSound
<1> QED
  BY <1>4, <1>5

\* A loop takes the (return)s meant for it, and ends in no other way.
LEMMA LoopEndsSound ==
  ASSUME IInv, LoopEnds
  PROVE  /\ Sound(frames, regs', exit', Len(frames) - 1)
         /\ Lands \/ (Passes /\ exit.goal # 0)
<1>1. /\ frames # <<>> /\ Top.kind = "loop" /\ ~Handling(Top) /\ Loopish(Top)
  BY DEF LoopEnds, Returned, Handling, Loopish
<1>2. /\ Len(frames) \in Nat \ {0} /\ exit.goal \in 0..Len(frames)
      /\ regs \in Registers /\ Top = frames[Len(frames)]
      /\ regs.abort \in BOOLEAN /\ regs.loop \in BOOLEAN
  BY <1>1, TopFacts DEF Registers
<1>3. regs' = [regs EXCEPT !.abort = @ /\ ~regs.loop,
                           !.loop = Top.saved.loop, !.loopValue = Top.saved.loopValue]
  BY DEF LoopEnds
<1>4. /\ regs'.abort = (regs.abort /\ ~regs.loop)
      /\ regs'.target = regs.target /\ regs'.throw = regs.throw /\ regs'.tag = regs.tag
      /\ regs'.loop = Top.saved.loop /\ regs'.loopValue = Top.saved.loopValue
      /\ regs'.cond = regs.cond /\ regs'.slot = regs.slot
  BY <1>2, <1>3 DEF Registers
<1>5. CASE regs.loop
  <2>1. /\ exit.goal = Len(frames) /\ exit.value = regs.loopValue
        /\ regs.target = None /\ ~regs.throw
    BY <1>1, <1>5, TopGoal
  <2>2. regs'.abort = FALSE /\ result' = regs.loopValue
    BY <1>2, <1>4, <1>5 DEF LoopEnds
  <2>3. Lands
    BY <2>1, <2>2 DEF LoopEnds, Took, Lands
  <2>4. ~IsCondition(frames, regs, exit)
    BY <1>1, <1>2, <2>1 DEF IsCondition
  <2> QED
    BY <1>1, <1>4, <2>1, <2>2, <2>3, <2>4, LandSound
<1>6. CASE ~regs.loop
  <2>1. exit.goal # Len(frames) /\ ~IsReturn(frames, regs, exit)
    BY <1>1, <1>6, TopGoal, ReturnMeetsLoop
  <2>2. regs.abort /\ regs'.abort = regs.abort /\ result' = Nil
    BY <1>2, <1>4, <1>6 DEF LoopEnds
  <2>3. exit' = exit /\ exit.goal # 0
    BY <1>1, <2>2, ReturnMeetsLoop DEF LoopEnds, Took
  <2>4. Passes
    BY <1>2, <2>1, <2>2, <2>3 DEF Passes
  <2> QED
    BY <1>1, <1>4, <2>1, <2>2, <2>3, <2>4, PassSound
<1> QED
  BY <1>5, <1>6

\* The end of a handler-case, and of a guard.
LEMMA HandlerEndsSound ==
  ASSUME IInv, frames # <<>>, Handling(Top),
         regs' = [regs EXCEPT !.abort = @ /\ ~regs.cond,
                              !.cond = Top.saved.cond, !.slot = Top.saved.slot],
         result' = IF regs.cond THEN regs.slot ELSE Nil,
         Took
  PROVE  /\ Sound(frames, regs', exit', Len(frames) - 1)
         /\ regs.cond => Lands /\ regs'.abort = FALSE
         /\ ~regs.cond => Passes
<1>1. /\ ~Loopish(Top) /\ Top.kind # "cleanup"
  BY DEF Handling, Loopish
<1>2. /\ Len(frames) \in Nat \ {0} /\ exit.goal \in 0..Len(frames)
      /\ regs \in Registers /\ Top = frames[Len(frames)]
      /\ regs.abort \in BOOLEAN /\ regs.cond \in BOOLEAN
  BY TopFacts DEF Registers
<1>3. /\ regs'.abort = (regs.abort /\ ~regs.cond)
      /\ regs'.target = regs.target /\ regs'.throw = regs.throw /\ regs'.tag = regs.tag
      /\ regs'.cond = Top.saved.cond /\ regs'.slot = Top.saved.slot
      /\ regs'.loop = regs.loop /\ regs'.loopValue = regs.loopValue
  BY <1>2 DEF Registers
<1>4. CASE regs.cond
  <2>1. /\ exit.goal = Len(frames) /\ exit.value = regs.slot
        /\ regs.target = None /\ ~regs.throw
    BY <1>4, TopGoal
  <2>2. regs'.abort = FALSE /\ result' = regs.slot
    BY <1>2, <1>3, <1>4
  <2>3. Lands
    BY <2>1, <2>2 DEF Took, Lands
  <2>4. ~IsReturn(frames, regs, exit)
    BY <1>1, <1>2, <2>1 DEF IsReturn
  <2> QED
    BY <1>1, <1>3, <1>4, <2>1, <2>2, <2>3, <2>4, LandSound
<1>5. CASE ~regs.cond
  <2>1. exit.goal # Len(frames) /\ ~IsCondition(frames, regs, exit)
    BY <1>5, TopGoal, ReturnMeetsLoop
  <2>2. regs'.abort = regs.abort /\ result' = Nil
    BY <1>2, <1>3, <1>5
  <2>3. exit' = exit
    BY <2>2, ReturnMeetsLoop DEF Took
  <2>4. Passes
    BY <1>2, <2>1, <2>2, <2>3 DEF Passes
  <2> QED
    BY <1>1, <1>3, <1>5, <2>1, <2>2, <2>3, <2>4, PassSound
<1> QED
  BY <1>4, <1>5

\* The invariant, and the fate of the exit, when a construct is left.
LEMMA LeaveStep ==
  ASSUME IInv, BasicInv',
         BlockEnds \/ CatchEnds \/ LoopEnds \/ HandlerCaseEnds
  PROVE  /\ IInv'
         /\ frames # <<>> /\ frames' = Front(frames)
         /\ Lands \/ Passes
         /\ LoopEnds /\ Passes => exit.goal # 0
<1>1. frames # <<>> /\ frames' = Front(frames)
  BY DEF BlockEnds, CatchEnds, LoopEnds, HandlerCaseEnds, Returned, Pop
<1>2. Lands /\ Passes => FALSE
  BY IInvFacts DEF Lands, Passes
<1>3. /\ Sound(frames, regs', exit', Len(frames) - 1)
      /\ Lands \/ Passes
      /\ LoopEnds /\ Passes => exit.goal # 0
  <2>1. CASE BlockEnds
    <3>1. ~LoopEnds
      BY <2>1 DEF BlockEnds, LoopEnds, Returned
    <3> QED
      BY <2>1, <3>1, BlockEndsSound
  <2>2. CASE CatchEnds
    <3>1. ~LoopEnds
      BY <2>2 DEF CatchEnds, LoopEnds, Returned
    <3> QED
      BY <2>2, <3>1, CatchEndsSound
  <2>3. CASE LoopEnds
    BY <1>2, <2>3, LoopEndsSound
  <2>4. CASE HandlerCaseEnds
    <3>1. ~LoopEnds /\ Handling(Top)
      BY <2>4 DEF HandlerCaseEnds, LoopEnds, Returned, Handling
    <3>2. /\ regs' = [regs EXCEPT !.abort = @ /\ ~regs.cond,
                              !.cond = Top.saved.cond, !.slot = Top.saved.slot]
          /\ result' = IF regs.cond THEN regs.slot ELSE Nil
          /\ Took
      BY <2>4 DEF HandlerCaseEnds
    <3> QED
      BY <1>1, <3>1, <3>2, HandlerEndsSound
  <2> QED
    BY <2>1, <2>2, <2>3, <2>4
<1> QED
  BY <1>1, <1>3, LeaveKeeps

\* A guard takes a condition and is left, or becomes a failed evaluation.
LEMMA GuardExitStep ==
  ASSUME IInv, BasicInv', GuardExit
  PROVE  /\ IInv'
         /\ frames # <<>>
         /\ \/ frames' = Front(frames) /\ (Lands \/ Passes)
            \/ /\ frames' = [frames EXCEPT ![Len(frames)].kind = "failed"]
               /\ Lands
<1> DEFINE n == Len(frames)
<1>1. /\ frames # <<>> /\ Handling(Top) /\ Took
      /\ regs' = [regs EXCEPT !.abort = @ /\ ~regs.cond,
                              !.cond = Top.saved.cond, !.slot = Top.saved.slot]
      /\ result' = IF regs.cond THEN regs.slot ELSE Nil
  BY DEF GuardExit, Returned, Handling
<1>2. /\ Sound(frames, regs', exit', n - 1)
      /\ regs.cond => Lands /\ regs'.abort = FALSE
      /\ ~regs.cond => Passes
  BY <1>1, HandlerEndsSound
<1>3. CASE frames' = Front(frames)
  BY <1>1, <1>2, <1>3, LeaveKeeps
<1>4. CASE regs.cond /\ frames' = [frames EXCEPT ![n].kind = "failed"]
  <2>1. /\ TypeOK /\ n \in Nat \ {0} /\ Shape(frames, exit, n)
        /\ Top = frames[n] /\ Top \in FrameSet
    BY <1>1, IInvFacts, TypeFacts
  <2> DEFINE x == [Top EXCEPT !.kind = "failed"]
             m == n - 1
  <2>2. x \in FrameSet /\ x.kind = "failed"
    BY <2>1 DEF FrameSet, Kinds
  <2>3. frames' = [frames EXCEPT ![n] = x]
    BY <1>4, <2>1
  <2>4. /\ Len(frames') = n /\ Same(frames, frames', m)
        /\ frames'[n] = x /\ m \in Nat /\ m + 1 = n
    <3> HIDE DEF x
    <3>1. /\ Len(frames') = n /\ Same(frames, frames', n - 1)
          /\ frames'[n] = x
      BY <1>1, <2>1, <2>2, <2>3, ReplaceFacts
    <3>2. n - 1 \in Nat /\ (n - 1) + 1 = n
      BY <2>1
    <3> QED
      BY <3>1, <3>2
  <2> HIDE DEF x, m
  <2>5. Sound(frames', regs', exit', m)
    BY <1>2, <2>4, SameSound DEF m
  <2>6. /\ ~Loopish(frames'[m + 1]) /\ ~Handling(frames'[m + 1])
        /\ frames'[m + 1].kind = "failed"
    BY <2>2, <2>4 DEF Loopish, Handling
  <2>7. Sound(frames', regs', exit', m + 1)
    BY <1>2, <1>4, <2>4, <2>5, <2>6, SoundPush
  <2>8. Shape(frames', exit', n)
    <3>1. exit' = NoExit
      BY <1>2, <1>4 DEF Lands
    <3>2. \A i \in 1..n : i \in 1..m \/ i = n
      BY <2>1, <2>4
    <3>3. \A i \in 1..m : frames'[i] = frames[i] /\ i \in 1..n /\ i # n
      BY <2>1, <2>4 DEF Same
    <3> QED
      BY <2>1, <2>2, <2>4, <3>1, <3>2, <3>3 DEF Shape
  <2> QED
    BY <1>1, <1>2, <1>4, <2>4, <2>7, <2>8 DEF IInv
<1> QED
  BY <1>3, <1>4 DEF GuardExit, EvalFailed

\* The evaluation that failed signals to the handlers below it.
LEMMA EvalFailsStep ==
  ASSUME IInv, BasicInv', Fresh, ~astray', NEW v \in Values, EvalFails(v)
  PROVE  /\ IInv'
         /\ exit = NoExit
         /\ \/ Handlers = {} /\ alive' = FALSE /\ exit' = exit
            \/ /\ alive' = alive
               /\ InFlight(frames, regs', exit', Len(frames) - 1)
               /\ Handling(frames[exit'.goal]) /\ exit'.value = v
               /\ NoHandler(frames, exit'.goal + 1, Len(frames) - 1)
<1> DEFINE n == Len(frames)
<1>1. /\ frames # <<>> /\ Top.kind = "failed" /\ frames' = Front(frames)
      /\ Signal(v)
  BY DEF EvalFails, Returned
<1>2. /\ n \in Nat \ {0} /\ Top = frames[n] /\ TypeOK
      /\ Shape(frames, exit, n) /\ Sound(frames, regs, exit, n)
  BY <1>1, IInvFacts, TypeFacts
<1>3. /\ exit = NoExit /\ regs.abort = FALSE /\ AtRest(regs, exit)
  <2>1. exit = NoExit
    BY <1>1, <1>2 DEF Shape
  <2>2. ~InFlight(frames, regs, exit, n)
    BY <1>2, <2>1 DEF InFlight, NoExit
  <2> QED
    BY <2>1, <2>2, IInvFacts
<1>4. ~Loopish(Top) /\ ~Handling(Top)
  BY <1>1 DEF Loopish, Handling
<1>5. Sound(frames, regs, exit, n - 1)
  <2>1. Consistent(frames, regs, exit, n - 1)
    BY <1>3 DEF Consistent
  <2> QED
    BY <1>1, <1>2, <1>4, <2>1, SoundPop
<1>6. CASE handlerDepth = 0
  <2>1. regs' = regs /\ exit' = exit /\ alive' = FALSE
    BY <1>1, <1>6 DEF Signal
  <2>2. Handlers = {}
    BY <1>2, <1>6, CountedIs DEF IInv, BasicInv
  <2>3. Sound(frames, regs', exit', n - 1)
    BY <1>5, <2>1
  <2> QED
    BY <1>1, <1>3, <2>1, <2>2, <2>3, LeaveKeeps
<1>7. CASE handlerDepth # 0
  <2>1. /\ regs' = [regs EXCEPT !.slot = v, !.cond = TRUE, !.abort = TRUE]
        /\ StartExit(Handlers, v) /\ alive' = alive
    BY <1>1, <1>7 DEF Signal
  <2>2. Handlers # {}
    BY <1>2, <1>7, CountedIs DEF IInv, BasicInv
  <2>3. /\ Handlers \in SUBSET (1..n)
        /\ \A i \in 1..n : i \in Handlers <=> Handling(frames[i])
        /\ \A i \in Handlers : frames[i].kind # "cleanup"
    BY <1>2, GoalSets DEF Handling
  <2> DEFINE g == Innermost(Handlers)
  <2>4. /\ exit'.goal = g /\ exit'.value = v /\ g \in Handlers
        /\ \A i \in Handlers : i <= g
    BY <1>2, <2>1, <2>2, <2>3, GoalIs DEF StartExit
  <2>5. g \in 1..(n - 1)
    <3> HIDE DEF g
    <3>1. g \in 1..n /\ Handling(frames[g])
      BY <2>3, <2>4
    <3>2. ~Handling(frames[n])
      BY <1>2, <1>4
    <3> HIDE DEF n
    <3> QED
      BY <1>2, <3>1, <3>2
  <2>6. \A i \in g..n : frames[i].kind # "cleanup"
    BY <2>1, <2>3, <2>4, ContainedPasses DEF StartExit
  <2>7. \A i \in g..(n - 1) : frames[i].kind \notin {"cleanup", "failed"}
    <3>1. \A i \in g..(n - 1) : i \in g..n /\ i \in 1..n /\ i # n
      BY <1>2, <2>5
    <3> QED
      BY <1>2, <2>6, <3>1 DEF Shape
  <2>8. NoHandler(frames, g + 1, n - 1)
    BY <1>2, <2>3, <2>4, <2>5 DEF NoHandler
  <2>9. n - 1 \in 0..n
    BY <1>2
  <2>10. Handling(frames[g])
    BY <2>3, <2>4
  <2> HIDE DEF g, n
  <2>11. /\ InFlight(frames, regs', exit', n - 1)
         /\ regs'.loop = regs.loop /\ regs'.loopValue = regs.loopValue
         /\ regs'.cond
    BY <1>3, <2>1, <2>4, <2>5, <2>7, <2>8, <2>9, <2>10, SignalFlies DEF n
  <2>12. Sound(frames, regs', exit', n - 1)
    <3>1. n - 1 \in Nat
      BY <1>2
    <3> QED
      BY <1>3, <1>5, <2>4, <2>10, <2>11, <3>1, SoundStart
  <2>13. IInv'
    BY <1>1, <2>12, LeaveKeeps DEF n
  <2> QED
    BY <1>3, <2>1, <2>4, <2>8, <2>10, <2>11, <2>13 DEF n
<1> QED
  BY <1>6, <1>7

\* The cleanup begins: what is under way is put aside, complete.
LEMMA BeginCleanupStep ==
  ASSUME IInv, BasicInv', BeginCleanup
  PROVE  IInv'
<1> DEFINE n == Len(frames)
           x == Frame("cleanup", Nil)
<1>1. /\ frames # <<>> /\ Top.kind = "protect" /\ exit' = NoExit
      /\ frames' = Append(Front(frames), x)
  BY DEF BeginCleanup, Returned
<1>2. /\ n \in Nat \ {0} /\ Top = frames[n] /\ TypeOK /\ regs \in Registers
      /\ Shape(frames, exit, n) /\ Sound(frames, regs, exit, n)
  BY <1>1, IInvFacts, TypeFacts
<1>3. /\ x \in FrameSet /\ x.kind = "cleanup" /\ x.saved = regs /\ x.held = exit
  BY <1>2, ExitAssumption DEF Frame, FrameSet, Kinds, TypeOK
<1> HIDE DEF x
<1>4. /\ Len(frames') = n /\ Same(frames, frames', n - 1) /\ frames'[n] = x
  BY <1>1, <1>2, <1>3, ReplaceFacts
<1>5. /\ AtRest(regs', NoExit)
      /\ regs'.loop = regs.loop /\ regs'.loopValue = regs.loopValue
      /\ regs'.cond = regs.cond /\ regs'.slot = regs.slot
  BY <1>2 DEF BeginCleanup, Registers, AtRest
<1>6. Sound(frames', regs', exit', n)
  BY <1>1, <1>2, <1>3, <1>4, <1>5, SoundBegin
<1>7. Shape(frames', exit', n)
  <2>1. \A i \in 1..n : i = n \/ i \in 1..(n - 1)
    BY <1>2
  <2> QED
    BY <1>1, <1>2, <1>3, <1>4, <2>1 DEF Shape, Same
<1> QED
  BY <1>4, <1>6, <1>7 DEF IInv

\* The cleanup ends with nothing under way, and what was put aside goes on.
LEMMA EndCleanupStep ==
  ASSUME IInv, BasicInv', EndCleanup
  PROVE  IInv' /\ exit = NoExit
<1> DEFINE n == Len(frames)
<1>1. /\ frames # <<>> /\ Top.kind = "cleanup" /\ exit' = Top.held
      /\ frames' = Front(frames)
  BY DEF EndCleanup, Returned
<1>2. /\ n \in Nat \ {0} /\ Top = frames[n] /\ regs \in Registers
      /\ Sound(frames, regs, exit, n)
  BY <1>1, IInvFacts, TypeFacts
<1>3. /\ regs'.abort = Top.saved.abort /\ regs'.target = Top.saved.target
      /\ regs'.throw = Top.saved.throw /\ regs'.tag = Top.saved.tag
      /\ regs'.loop = regs.loop /\ regs'.loopValue = regs.loopValue
      /\ regs'.cond = regs.cond /\ regs'.slot = regs.slot
  BY <1>2 DEF EndCleanup, Registers
<1>4. Sound(frames, regs', exit', n - 1) /\ AtRest(regs, exit)
  BY <1>1, <1>2, <1>3, SoundEnd
<1> QED
  BY <1>1, <1>4, LeaveKeeps DEF AtRest

\* The invariant at the start.
LEMMA IInvInit == Init => IInv
<1> SUFFICES ASSUME Init PROVE IInv
  OBVIOUS
<1>1. BasicInv
  BY BasicInit
<1>2. /\ Len(frames) = 0 /\ exit = NoExit /\ ~regs.loop /\ ~regs.cond
      /\ AtRest(regs, exit)
  BY EmptySeq DEF Init, Quiet, AtRest
<1> QED
  BY <1>1, <1>2 DEF IInv, Shape, Sound, Consistent, HeldInv, LoopInv, LoopKept,
     LoopCause, CondInv, CondKept, CondCause

\* While no exit goes astray, each step keeps the invariant.
LEMMA IInvStep ==
  ASSUME IInv, Fresh, ~astray', [Next]_vars
  PROVE  IInv'
<1>1. BasicInv'
  BY BasicStep DEF IInv
<1>2. CASE UNCHANGED vars
  BY <1>1, <1>2 DEF vars, IInv
<1>3. CASE \/ \E m \in BlockNames : NativeBlock(m)
           \/ \E m \in Tags : Catch(m)
           \/ UnwindProtect \/ NativeLoop \/ HandlerCase \/ GuardEnter
  BY <1>1, <1>3, EnterStep
<1>4. ASSUME NEW v \in Values,
             \/ Error(v) \/ LoopReturn(v) \/ EvalFails(v)
             \/ \E m \in BlockNames : ReturnFrom(m, v)
             \/ \E m \in Tags : Throw(m, v)
      PROVE  IInv'
  BY <1>1, <1>4, ErrorStep, LoopReturnStep, EvalFailsStep, ReturnFromStep, ThrowStep
<1>5. CASE \/ BlockEnds \/ CatchEnds \/ LoopEnds \/ HandlerCaseEnds
           \/ GuardExit \/ BeginCleanup \/ EndCleanup
  BY <1>1, <1>5, LeaveStep, GuardExitStep, BeginCleanupStep, EndCleanupStep
<1> QED
  BY <1>2, <1>3, <1>4, <1>5 DEF Next

\* Nor does code start while an exit is under way.
LEMMA FreshStep ==
  ASSUME IInv, Fresh, ~astray', [Next]_vars
  PROVE  Fresh'
<1>1. TypeOK /\ regs \in Registers /\ Len(frames) \in Nat
  BY IInvFacts, TypeFacts
<1>2. CASE UNCHANGED vars
  BY <1>2 DEF vars, Fresh, Top
<1>3. at' = "body" => Fresh'
  BY DEF Fresh
<1>4. CASE \/ \E m \in BlockNames : NativeBlock(m)
           \/ \E m \in Tags : Catch(m)
           \/ UnwindProtect \/ NativeLoop \/ HandlerCase \/ GuardEnter
  <2>1. Open
    BY <1>4, EnterOpen
  <2>2. at' = "entered"
    BY <1>4
       DEF NativeBlock, Catch, UnwindProtect, NativeLoop, HandlerCase, GuardEnter, Push
  <2>3. regs'.abort = regs.abort
    BY <1>1, <1>4
       DEF NativeBlock, Catch, UnwindProtect, NativeLoop, HandlerCase, GuardEnter,
           Registers
  <2> QED
    BY <2>1, <2>2, <2>3 DEF Fresh, Open
<1>5. ASSUME NEW v, Signal(v)
      PROVE  at' = "body" \/ (at' = at /\ regs' = regs)
  BY <1>5 DEF Signal, StartExit
<1>6. ASSUME NEW v \in Values,
             \/ Error(v) \/ LoopReturn(v)
             \/ \E m \in BlockNames : ReturnFrom(m, v)
             \/ \E m \in Tags : Throw(m, v)
      PROVE  Fresh'
  <2>1. CASE Error(v)
    <3>1. frames' = frames /\ (at' = "body" \/ (at' = at /\ regs' = regs))
      BY <1>5, <2>1 DEF Error
    <3> QED
      BY <1>3, <3>1 DEF Fresh, Top
  <2>2. ~Error(v) => at' = "body"
    BY <1>6 DEF LoopReturn, ReturnFrom, Throw, StartExit
  <2> QED
    BY <1>3, <2>1, <2>2
<1>7. ASSUME frames # <<>>, frames' = Front(frames)
      PROVE  frames' # <<>> => Top'.kind # "failed"
  <2>1. /\ Len(frames) \in Nat \ {0} /\ Len(frames') = Len(frames) - 1
        /\ Same(frames, frames', Len(frames) - 1) /\ frames' \in Seq(FrameSet)
    BY <1>1, <1>7, PopFacts
  <2>2. ASSUME frames' # <<>>
        PROVE  Top'.kind # "failed"
    <3>1. Len(frames') \in 1..(Len(frames) - 1)
      BY <2>1, <2>2, EmptySeq
    <3>2. /\ Len(frames') \in 1..Len(frames) /\ Len(frames') # Len(frames)
          /\ frames'[Len(frames')] = frames[Len(frames')]
      BY <2>1, <3>1 DEF Same
    <3>3. Shape(frames, exit, Len(frames))
      BY IInvFacts
    <3> QED
      BY <3>2, <3>3 DEF Shape, Top, Last
  <2> QED
    BY <2>2
<1>8. ASSUME NEW v \in Values, EvalFails(v)
      PROVE  Fresh'
  <2>1. /\ frames # <<>> /\ frames' = Front(frames)
        /\ at' = "body" \/ (at' = at /\ regs' = regs)
    BY <1>5, <1>8 DEF EvalFails, Returned
  <2> QED
    BY <1>3, <1>7, <2>1 DEF Fresh
<1>9. CASE BlockEnds \/ CatchEnds \/ LoopEnds \/ HandlerCaseEnds
  BY <1>3, <1>9 DEF BlockEnds, CatchEnds, LoopEnds, HandlerCaseEnds, Pop
<1>10. CASE GuardExit
  <2>1. frames # <<>> /\ (at' = "body" \/ (at' = "session" /\ frames' = Front(frames)))
    BY <1>10 DEF GuardExit, Returned
  <2> QED
    BY <1>3, <1>7, <2>1 DEF Fresh
<1>11. CASE BeginCleanup
  BY <1>1, <1>11 DEF BeginCleanup, Fresh, Registers
<1>12. CASE EndCleanup
  BY <1>3, <1>12 DEF EndCleanup
<1> QED
  BY <1>2, <1>4, <1>6, <1>8, <1>9, <1>10, <1>11, <1>12 DEF Next

-----------------------------------------------------------------------------
(* No condition is pending below the first handler, in any program.        *)

\* Of frames that differ in nothing a handler keeps.
LEMMA BelowSame ==
  ASSUME NEW f, NEW h, NEW n \in Nat, NEW R, NoneBelow(f, R, n),
         \A i \in 1..n : h[i].kind = f[i].kind /\ h[i].saved = f[i].saved
  PROVE  NoneBelow(h, R, n)
<1>1. NoHandler(h, 1, n) => NoHandler(f, 1, n)
  BY DEF NoHandler, Handling
<1>2. ASSUME NEW j \in 1..n, Handling(h[j]), NoHandler(h, 1, j - 1)
      PROVE  ~h[j].saved.cond
  <2>1. Handling(f[j]) /\ NoHandler(f, 1, j - 1)
    BY <1>2 DEF NoHandler, Handling
  <2> QED
    BY <1>2, <2>1 DEF NoneBelow
<1> QED
  BY <1>1, <1>2 DEF NoneBelow

\* A frame is entered.
LEMMA BelowPush ==
  ASSUME NEW f, NEW n \in Nat, NEW R, NEW S, NoneBelow(f, R, n),
         \/ ~Handling(f[n + 1]) /\ S.cond = R.cond
         \/ Handling(f[n + 1]) /\ f[n + 1].saved = R
  PROVE  NoneBelow(f, S, n + 1)
<1>1. NoHandler(f, 1, n + 1) => ~Handling(f[n + 1]) /\ NoHandler(f, 1, n)
  BY DEF NoHandler
<1>2. ASSUME NEW j \in 1..(n + 1), Handling(f[j]), NoHandler(f, 1, j - 1)
      PROVE  ~f[j].saved.cond
  <2>1. CASE j \in 1..n
    BY <1>2, <2>1 DEF NoneBelow
  <2>2. CASE j = n + 1
    BY <1>2, <2>2 DEF NoneBelow
  <2> QED
    BY <2>1, <2>2
<1> QED
  BY <1>1, <1>2 DEF NoneBelow

\* A frame is left.
LEMMA BelowPop ==
  ASSUME NEW f, NEW n \in Nat \ {0}, NEW R, NEW S, NoneBelow(f, R, n),
         \/ ~Handling(f[n]) /\ S.cond = R.cond
         \/ Handling(f[n]) /\ S.cond = f[n].saved.cond
  PROVE  NoneBelow(f, S, n - 1)
<1>1. ASSUME NoHandler(f, 1, n - 1)
      PROVE  ~S.cond
  <2>1. ~Handling(f[n]) => NoHandler(f, 1, n)
    BY <1>1 DEF NoHandler
  <2> QED
    BY <1>1, <2>1 DEF NoneBelow
<1>2. \A j \in 1..(n - 1) : j \in 1..n
  OBVIOUS
<1> QED
  BY <1>1, <1>2 DEF NoneBelow

\* Whatever the program does.
LEMMA BelowStep ==
  ASSUME BasicInv, BelowInv, [Next]_vars
  PROVE  BelowInv'
<1> DEFINE n == Len(frames)
<1>1. TypeOK /\ n \in Nat /\ regs \in Registers
  BY TypeFacts DEF BasicInv
<1>2. NoneBelow(frames, regs, n)
  BY DEF BelowInv
<1>3. ASSUME NEW k \in Kinds, NEW m \in BlockNames \cup Tags, Push(k, m),
             k \in {"handler", "guard"} \/ regs'.cond = regs.cond
      PROVE  BelowInv'
  <2>1. /\ Len(frames') = n + 1 /\ Same(frames, frames', n)
        /\ frames'[n + 1].kind = k /\ frames'[n + 1].saved = regs
    <3>1. Frame(k, m).kind = k /\ Frame(k, m).saved = regs
      BY DEF Frame
    <3> QED
      BY <1>1, <1>3, <3>1, PushFacts
  <2>2. NoneBelow(frames', regs, n)
    BY <1>1, <1>2, <2>1, BelowSame DEF Same
  <2>3. NoneBelow(frames', regs', n + 1)
    BY <1>1, <1>3, <2>1, <2>2, BelowPush DEF Handling
  <2> QED
    BY <2>1, <2>3 DEF BelowInv
<1>4. CASE \/ \E m \in BlockNames : NativeBlock(m)
           \/ \E m \in Tags : Catch(m)
           \/ UnwindProtect \/ NativeLoop \/ HandlerCase \/ GuardEnter
  <2>1. PICK k \in Kinds, m \in BlockNames \cup Tags :
          Push(k, m) /\ (k \in {"handler", "guard"} \/ regs'.cond = regs.cond)
    <3>1. {"block", "catch", "protect", "loop", "handler", "guard"} \subseteq Kinds
          /\ Nil \in BlockNames \cup Tags
      BY ExitAssumption DEF Kinds
    <3>2. UNCHANGED regs => regs'.cond = regs.cond
      OBVIOUS
    <3>3. NativeLoop => regs'.cond = regs.cond
      BY <1>1 DEF NativeLoop, Registers
    <3> QED
      BY <1>4, <3>1, <3>2, <3>3
         DEF NativeBlock, Catch, UnwindProtect, NativeLoop, HandlerCase, GuardEnter
  <2> QED
    BY <1>3, <2>1
<1>5. ASSUME frames # <<>>, frames' = Front(frames),
             \/ ~Handling(Top) /\ regs'.cond = regs.cond
             \/ Handling(Top) /\ regs'.cond = Top.saved.cond
      PROVE  BelowInv'
  <2>1. /\ n \in Nat \ {0} /\ Len(frames') = n - 1 /\ Same(frames, frames', n - 1)
        /\ Top = frames[n] /\ n - 1 \in Nat
    BY <1>1, <1>5, PopFacts, TypeFacts
  <2>2. NoneBelow(frames, regs', n - 1)
    BY <1>2, <1>5, <2>1, BelowPop
  <2>3. NoneBelow(frames', regs', n - 1)
    BY <2>1, <2>2, BelowSame DEF Same
  <2> QED
    BY <2>1, <2>3 DEF BelowInv
<1>6. ASSUME NEW v, Signal(v)
      PROVE  regs' = regs \/ Handlers # {}
  <2>1. handlerDepth # 0 => Handlers # {}
    BY <1>1, CountedIs DEF BasicInv
  <2> QED
    BY <1>6, <2>1 DEF Signal
<1>7. \A i \in 1..n : i \in Handlers <=> Handling(frames[i])
  BY <1>1, GoalSets
<1>8. ASSUME NEW v \in Values, Error(v)
      PROVE  BelowInv'
  <2>1. frames' = frames /\ (regs' = regs \/ Handlers # {})
    BY <1>6, <1>8 DEF Error
  <2>2. Handlers # {} => ~NoHandler(frames, 1, n)
    BY <1>1, <1>7, GoalSets DEF NoHandler
  <2> QED
    BY <1>2, <2>1, <2>2 DEF BelowInv, NoneBelow
<1>9. ASSUME NEW v \in Values, LoopReturn(v)
      PROVE  BelowInv'
  <2>1. frames' = frames /\ regs'.cond = regs.cond
    BY <1>1, <1>9 DEF LoopReturn, Registers
  <2> QED
    BY <1>2, <2>1 DEF BelowInv, NoneBelow
<1>10. ASSUME NEW v \in Values, NEW g \in 1..n,
              frames' = [frames EXCEPT ![g].value = v], regs'.cond = regs.cond
       PROVE  BelowInv'
  <2>1. /\ Len(frames') = n
        /\ \A i \in 1..n : /\ frames'[i].kind = frames[i].kind
                            /\ frames'[i].saved = frames[i].saved
    BY <1>1, <1>10, StashTypes
  <2>2. NoneBelow(frames', regs, n)
    BY <1>1, <1>2, <2>1, BelowSame
  <2> QED
    BY <1>10, <2>1, <2>2 DEF BelowInv, NoneBelow
<1>11. ASSUME NEW v \in Values, NEW m \in BlockNames, ReturnFrom(m, v)
       PROVE  BelowInv'
  <2>1. regs'.cond = regs.cond
    BY <1>1, <1>11 DEF ReturnFrom, Registers
  <2>2. Innermost(Blocks(m)) \in 1..n
    BY <1>1, <1>11, GoalIs, GoalSets DEF ReturnFrom, StartExit
  <2> QED
    BY <1>10, <1>11, <2>1, <2>2 DEF ReturnFrom
<1>12. ASSUME NEW v \in Values, NEW m \in Tags, Throw(m, v)
       PROVE  BelowInv'
  <2>1. regs'.cond = regs.cond
    BY <1>1, <1>12 DEF Throw, Registers
  <2>2. Innermost(Catches(m)) \in 1..n
    BY <1>1, <1>12, GoalIs, GoalSets DEF Throw, StartExit
  <2> QED
    BY <1>10, <1>12, <2>1, <2>2 DEF Throw
<1>13. CASE BlockEnds
  <2>1. regs'.cond = regs.cond
    BY <1>1, <1>13 DEF BlockEnds, Registers
  <2> QED
    BY <1>5, <1>13, <2>1 DEF BlockEnds, Returned, Pop, Handling
<1>14. CASE CatchEnds
  <2>1. regs'.cond = regs.cond
    BY <1>1, <1>14 DEF CatchEnds, Registers
  <2> QED
    BY <1>5, <1>14, <2>1 DEF CatchEnds, Returned, Pop, Handling
<1>15. CASE LoopEnds
  <2>1. regs'.cond = regs.cond
    BY <1>1, <1>15 DEF LoopEnds, Registers
  <2> QED
    BY <1>5, <1>15, <2>1 DEF LoopEnds, Returned, Pop, Handling
<1>16. CASE HandlerCaseEnds
  <2>1. regs'.cond = Top.saved.cond
    BY <1>1, <1>16 DEF HandlerCaseEnds, Registers
  <2> QED
    BY <1>5, <1>16, <2>1 DEF HandlerCaseEnds, Returned, Pop, Handling
<1>17. CASE GuardExit
  <2>1. /\ regs'.cond = Top.saved.cond /\ frames # <<>> /\ Handling(Top)
        /\ \/ frames' = Front(frames)
           \/ frames' = [frames EXCEPT ![n].kind = "failed"]
    BY <1>1, <1>17 DEF GuardExit, Returned, Registers, Handling
  <2>2. CASE frames' = [frames EXCEPT ![n].kind = "failed"]
    <3> DEFINE x == [Top EXCEPT !.kind = "failed"]
               S == regs'
    <3>1. n \in Nat \ {0} /\ Top = frames[n] /\ Top \in FrameSet /\ n - 1 \in Nat
      BY <1>1, <2>1, TypeFacts
    <3>2. x \in FrameSet /\ x.kind = "failed"
      BY <3>1 DEF FrameSet, Kinds
    <3>3. frames' = [frames EXCEPT ![n] = x]
      BY <1>1, <2>2, <3>1, TypeFacts
    <3> HIDE DEF x, S
    <3>4. Len(frames') = n /\ Same(frames, frames', n - 1) /\ frames'[n] = x
      BY <1>1, <2>1, <3>2, <3>3, ReplaceFacts
    <3>5. NoneBelow(frames, S, n - 1)
      BY <1>2, <2>1, <3>1, BelowPop DEF S
    <3>6. NoneBelow(frames', S, n - 1)
      BY <3>1, <3>4, <3>5, BelowSame DEF Same
    <3>7. ~Handling(frames'[n])
      BY <3>2, <3>4 DEF Handling
    <3> DEFINE l == n - 1
    <3>8. l \in Nat /\ n = l + 1 /\ NoneBelow(frames', S, l)
      BY <3>1, <3>6
    <3> HIDE DEF l, n
    <3>9. NoneBelow(frames', S, l + 1)
      BY <3>7, <3>8, BelowPush
    <3> QED
      BY <3>4, <3>8, <3>9 DEF BelowInv, S, n
  <2> QED
    BY <1>5, <2>1, <2>2
<1>18. CASE BeginCleanup
  <2>1. /\ regs'.cond = regs.cond /\ frames # <<>> /\ ~Handling(Top)
        /\ frames' = Append(Front(frames), Frame("cleanup", Nil))
    BY <1>1, <1>18 DEF BeginCleanup, Returned, Registers, Handling
  <2>2. Frame("cleanup", Nil) \in FrameSet /\ Frame("cleanup", Nil).kind = "cleanup"
    BY <1>1, TypeFacts, ExitAssumption DEF Frame, FrameSet, Kinds
  <2>3. /\ n \in Nat \ {0} /\ Top = frames[n] /\ n - 1 \in Nat
        /\ Len(frames') = n /\ Same(frames, frames', n - 1)
        /\ frames'[n].kind = "cleanup"
    BY <1>1, <2>1, <2>2, ReplaceFacts, TypeFacts
  <2> DEFINE S == regs'
             l == n - 1
  <2> HIDE DEF S
  <2>4. NoneBelow(frames, S, n - 1)
    BY <1>2, <2>1, <2>3, BelowPop DEF S
  <2>5. NoneBelow(frames', S, n - 1)
    BY <2>3, <2>4, BelowSame DEF Same
  <2>6. l \in Nat /\ n = l + 1 /\ NoneBelow(frames', S, l) /\ ~Handling(frames'[n])
    BY <2>3, <2>5 DEF Handling
  <2> HIDE DEF l, n
  <2>7. NoneBelow(frames', S, l + 1)
    BY <2>6, BelowPush
  <2> QED
    BY <2>3, <2>6, <2>7 DEF BelowInv, S, n
<1>19. CASE EndCleanup
  <2>1. regs'.cond = regs.cond
    BY <1>1, <1>19 DEF EndCleanup, Registers
  <2> QED
    BY <1>5, <1>19, <2>1 DEF EndCleanup, Returned, Handling
<1>20. ASSUME NEW v \in Values, EvalFails(v)
       PROVE  BelowInv'
  <2>1. /\ frames # <<>> /\ frames' = Front(frames) /\ ~Handling(Top)
        /\ regs' = regs \/ Handlers # {}
    BY <1>6, <1>20 DEF EvalFails, Returned, Handling
  <2>2. CASE regs' = regs
    BY <1>5, <2>1, <2>2
  <2>3. CASE Handlers # {}
    <3>1. /\ n \in Nat \ {0} /\ Len(frames') = n - 1 /\ Same(frames, frames', n - 1)
          /\ Top = frames[n] /\ n - 1 \in Nat
      BY <1>1, <2>1, PopFacts, TypeFacts
    <3>2. NoneBelow(frames, regs, n - 1)
      BY <1>2, <2>1, <3>1, BelowPop
    <3>3. NoneBelow(frames', regs, n - 1)
      BY <3>1, <3>2, BelowSame DEF Same
    <3>4. ~NoHandler(frames', 1, n - 1)
      <4>1. PICK i \in 1..n : Handling(frames[i])
        BY <1>1, <1>7, <2>3, GoalSets
      <4>2. i \in 1..(n - 1)
        BY <2>1, <3>1, <4>1
      <4> QED
        BY <3>1, <4>1, <4>2 DEF NoHandler, Same
    <3> QED
      BY <3>1, <3>3, <3>4 DEF BelowInv, NoneBelow
  <2> QED
    BY <2>1, <2>2, <2>3
<1>21. CASE UNCHANGED vars
  BY <1>21 DEF vars, BelowInv, NoneBelow
<1> QED
  BY <1>4, <1>8, <1>9, <1>11, <1>12, <1>13, <1>14, <1>15, <1>16, <1>17, <1>18,
     <1>19, <1>20, <1>21 DEF Next

\* The inductive invariant of every program: what holds until an exit goes
\* astray, and what holds after that.
LEMMA Invariance == Spec => []ExitInv
<1>1. Init => ExitInv
  <2> SUFFICES ASSUME Init PROVE ExitInv
    OBVIOUS
  <2>1. IInv /\ BasicInv
    BY IInvInit, BasicInit
  <2>2. Len(frames) = 0 /\ ~regs.cond /\ at = "body"
    BY EmptySeq DEF Init, Quiet
  <2> QED
    BY <2>1, <2>2 DEF ExitInv, BelowInv, NoneBelow, Fresh
<1>2. ASSUME ExitInv, [Next]_vars
      PROVE  ExitInv'
  <2>1. BasicInv' /\ BelowInv'
    BY <1>2, BasicStep, BelowStep DEF ExitInv
  <2>2. astray => astray'
    BY <1>2, AstrayStays DEF ExitInv
  <2>3. ~astray' => IInv' /\ Fresh'
    BY <1>2, <2>2, IInvStep, FreshStep DEF ExitInv
  <2> QED
    BY <2>1, <2>3 DEF ExitInv
<1> QED
  BY <1>1, <1>2, PTL DEF Spec

-----------------------------------------------------------------------------
(* Invariants.                                                             *)

\* Every program: the registers, the frames and what they keep have their
\* types, and HANDLER_DEPTH stays between 0 and the depth of the nest.
THEOREM ExitTypes == Spec => []TypeOK
<1>1. BasicInv => TypeOK
  BY DEF BasicInv
<1> QED
  BY <1>1, BasicInvariance, PTL

\* Every program, back at the top level too: HANDLER_DEPTH is the number of
\* handler-case forms and guards under way, whichever way others were left.
THEOREM DepthCounts == Spec => [](handlerDepth = Cardinality(Handlers))
<1>1. BasicInv => handlerDepth = Cardinality(Handlers)
  BY DEF BasicInv, Counted
<1> QED
  BY <1>1, BasicInvariance, PTL

\* Every program: at the top level no condition is pending and no handler
\* counted; and until an exit goes astray no other register is set.
THEOREM CleanTop == Spec => []TopLevelClean
<1>1. ASSUME BasicInv, BelowInv, frames = <<>>
      PROVE  ~regs.cond /\ handlerDepth = 0
  <2>1. Len(frames) = 0
    BY <1>1, EmptySeq
  <2>2. NoHandler(frames, 1, 0)
    BY DEF NoHandler
  <2> QED
    BY <1>1, <2>1, <2>2, CountedIs DEF BasicInv, BelowInv, NoneBelow
<1>2. ASSUME IInv, frames = <<>>
      PROVE  ~regs.abort /\ ~regs.throw /\ ~regs.loop /\ regs.target = None
  <2>1. Len(frames) = 0
    BY <1>2, EmptySeq
  <2>2. AtRest(regs, exit) /\ Sound(frames, regs, exit, 0)
    BY <1>2, <2>1 DEF IInv, Sound, Consistent, InFlight
  <2>3. ~regs.loop
    BY <2>2 DEF Sound, AtRest, LoopInv, LoopCause, IsReturn
  <2> QED
    BY <2>2, <2>3 DEF AtRest
<1>3. ExitInv => TopLevelClean
  BY <1>1, <1>2 DEF ExitInv, TopLevelClean
<1> QED
  BY <1>3, Invariance, PTL

\* Every program: until an exit goes astray, after (error ...) nothing runs
\* before the handler but the cleanups that the condition passes.
THEOREM ErrorsUnwind == Spec => [](astray \/ ErrorUnwinds)
<1>1. ASSUME IInv, regs.cond, ~regs.abort
      PROVE  \E i \in OfKind({"cleanup"}) :
                frames[i].saved.abort /\ frames[i].saved.cond
  <2>1. Sound(frames, regs, exit, Len(frames)) /\ Len(frames) \in Nat
    BY <1>1, IInvFacts
  <2>2. PICK c \in 1..Len(frames) : HoldsCondition(frames, c)
    BY <1>1, <2>1 DEF Sound, CondInv, CondCause, IsCondition
  <2>3. /\ frames[c].kind = "cleanup" /\ frames[c].saved.abort
        /\ IsCondition(frames, frames[c].saved, frames[c].held)
    BY <2>2 DEF HoldsCondition, IsCondition
  <2>4. Consistent(frames, frames[c].saved, frames[c].held, c - 1)
    BY <2>1, <2>3 DEF Sound, HeldInv
  <2>5. InFlight(frames, frames[c].saved, frames[c].held, c - 1)
    BY <2>3, <2>4 DEF Consistent, AtRest
  <2>6. frames[c].saved.cond
    BY <2>3, <2>5, FlightKinds DEF ByCondition
  <2> QED
    BY <2>3, <2>6 DEF OfKind
<1>2. ExitInv => astray \/ ErrorUnwinds
  BY <1>1 DEF ExitInv, ErrorUnwinds
<1> QED
  BY <1>2, Invariance, PTL

-----------------------------------------------------------------------------
(* The refinement of DynamicExtent.                                        *)

\* The form a frame stands for, and the forms of the first n frames.
FormOf(fr) ==
    [kind |-> fr.kind, name |-> fr.name,
     held |-> IF fr.kind = "cleanup" THEN fr.held ELSE NoExit]

FormsOf(f, n) == [i \in 1..n |-> FormOf(f[i])]

\* They are a sequence of that length.
LEMMA FormsSeq ==
  ASSUME NEW f, NEW n \in Nat
  PROVE  /\ FormsOf(f, n) \in Seq({FormOf(f[i]) : i \in 1..n})
         /\ Len(FormsOf(f, n)) = n
         /\ \A i \in 1..n : FormsOf(f, n)[i] = FormOf(f[i])
<1> DEFINE S == {FormOf(f[i]) : i \in 1..n}
           s == FormsOf(f, n)
<1>1. s \in [1..n -> S]
  BY DEF FormsOf
<1>2. s \in Seq(S)
  BY <1>1, SeqDef
<1>3. Len(s) \in Nat /\ DOMAIN s = 1..Len(s)
  BY <1>2, LenProperties
<1>4. DOMAIN s = 1..n
  BY DEF FormsOf
<1> HIDE DEF s
<1>5. Len(s) = n
  <2>1. \A a, b \in Nat : 1..a = 1..b => a = b
    <3>1. ASSUME NEW a \in Nat, NEW b \in Nat, 1..a = 1..b
          PROVE  ~(a < b) /\ ~(b < a)
      <4>1. a \in 1..a <=> a \in 1..b
        BY <3>1
      <4>2. b \in 1..a <=> b \in 1..b
        BY <3>1
      <4> QED
        BY <4>1, <4>2
    <3> QED
      BY <3>1
  <2>2. 1..Len(s) = 1..n
    BY <1>3, <1>4
  <2> QED
    BY <1>3, <2>1, <2>2
<1>6. \A i \in 1..n : s[i] = FormOf(f[i])
  BY DEF FormsOf, s
<1> QED
  BY <1>2, <1>5, <1>6 DEF s

\* Frames that differ in what a form does not show are the same forms.
LEMMA FormsAlike ==
  ASSUME NEW f, NEW h, NEW n \in Nat, Same(f, h, n) \/ Alike(f, h, n)
  PROVE  FormsOf(h, n) = FormsOf(f, n)
<1>1. \A i \in 1..n : FormOf(h[i]) = FormOf(f[i])
  BY DEF Same, Alike, FormOf
<1> QED
  BY <1>1 DEF FormsOf

\* One frame more is one form more.
LEMMA FormsAppend ==
  ASSUME NEW f, NEW n \in Nat
  PROVE  FormsOf(f, n + 1) = Append(FormsOf(f, n), FormOf(f[n + 1]))
<1> DEFINE S == {FormOf(f[i]) : i \in 1..(n + 1)}
           s == FormsOf(f, n)
           t == FormsOf(f, n + 1)
           x == FormOf(f[n + 1])
<1>0. n + 1 \in Nat
  OBVIOUS
<1>1. /\ t \in Seq(S) /\ Len(t) = n + 1
      /\ \A i \in 1..(n + 1) : t[i] = FormOf(f[i])
  BY ONLY <1>0, FormsSeq
<1>2. /\ s \in Seq({FormOf(f[i]) : i \in 1..n}) /\ Len(s) = n
      /\ \A i \in 1..n : s[i] = FormOf(f[i])
  BY FormsSeq
<1>3. s \in [1..n -> S] /\ x \in S
  BY DEF FormsOf
<1>4. s \in Seq(S)
  BY <1>3, SeqDef
<1> HIDE DEF s, t, x, S
<1>5. /\ Append(s, x) \in Seq(S) /\ Len(Append(s, x)) = n + 1
      /\ \A i \in 1..n : Append(s, x)[i] = s[i]
      /\ Append(s, x)[n + 1] = x
  BY <1>2, <1>3, <1>4, AppendProperties
<1>6. \A i \in 1..(n + 1) : i \in 1..n \/ i = n + 1
  OBVIOUS
<1>7. \A i \in 1..(n + 1) : t[i] = Append(s, x)[i]
  BY <1>1, <1>2, <1>5, <1>6 DEF x
<1>8. t = Append(s, x)
  BY <1>1, <1>5, <1>7, SeqEqual
<1> QED
  BY <1>8 DEF s, t, x

\* Without its last one, a sequence of forms is that of one frame fewer.
LEMMA FormsFront ==
  ASSUME NEW f, NEW n \in Nat \ {0}
  PROVE  /\ FormsOf(f, n) # <<>>
         /\ Front(FormsOf(f, n)) = FormsOf(f, n - 1)
         /\ Last(FormsOf(f, n)) = FormOf(f[n])
<1> DEFINE S == {FormOf(f[i]) : i \in 1..n}
           s == FormsOf(f, n - 1)
           t == FormsOf(f, n)
<1>1. /\ t \in Seq(S) /\ Len(t) = n
      /\ \A i \in 1..n : t[i] = FormOf(f[i])
  BY FormsSeq
<1>0. n - 1 \in Nat
  OBVIOUS
<1>2. /\ Len(s) = n - 1
      /\ \A i \in 1..(n - 1) : s[i] = FormOf(f[i])
  BY ONLY <1>0, FormsSeq
<1>3. s \in [1..(n - 1) -> S]
  BY DEF FormsOf
<1>4. s \in Seq(S)
  BY <1>3, SeqDef
<1> HIDE DEF s, t, S
<1>5. /\ Front(t) \in Seq(S) /\ Len(Front(t)) = n - 1
      /\ \A i \in 1..(n - 1) : Front(t)[i] = t[i]
  BY <1>1, FrontIs
<1>6. Front(t) = s
  BY <1>1, <1>2, <1>4, <1>5, SeqEqual
<1>7. t # <<>>
  BY <1>1, EmptySeq
<1>8. Last(t) = FormOf(f[n])
  BY <1>1 DEF Last
<1> QED
  BY <1>6, <1>7, <1>8 DEF s, t

\* The mapped forms are those of the frames, without one that has failed.
LEMMA FormsAre ==
  ASSUME TypeOK, Shape(frames, exit, Len(frames))
  PROVE  /\ frames = <<>> \/ Top.kind # "failed" =>
              Forms = FormsOf(frames, Len(frames))
         /\ frames # <<>> =>
              /\ \A i \in 1..(Len(frames) - 1) : frames[i].kind # "failed"
              /\ Top.kind = "failed" => Forms = FormsOf(frames, Len(frames) - 1)
<1>1. ASSUME frames = <<>> \/ Top.kind # "failed"
      PROVE  Forms = FormsOf(frames, Len(frames))
  BY <1>1 DEF Forms, Live, FormsOf, FormOf
<1>2. ASSUME frames # <<>>, Top.kind = "failed"
      PROVE  Forms = FormsOf(frames, Len(frames) - 1)
  <2>1. frames \in Seq(FrameSet) /\ Len(frames) \in Nat \ {0}
    BY <1>2, TypeFacts
  <2>2. /\ Len(Front(frames)) = Len(frames) - 1
        /\ \A i \in 1..(Len(frames) - 1) : Front(frames)[i] = frames[i]
    BY <2>1, FrontIs
  <2>3. Forms = FormsOf(Front(frames), Len(frames) - 1)
    BY <1>2, <2>2 DEF Forms, Live, FormsOf, FormOf
  <2> QED
    BY <2>2, <2>3 DEF FormsOf
<1>3. ASSUME frames # <<>>, NEW i \in 1..(Len(frames) - 1)
      PROVE  frames[i].kind # "failed"
  <2>1. Len(frames) \in Nat \ {0}
    BY <1>3, TypeFacts
  <2>2. i \in 1..Len(frames) /\ i # Len(frames)
    BY <2>1
  <2> QED
    BY <2>2 DEF Shape
<1> QED
  BY <1>1, <1>2, <1>3

\* After a step, when the innermost frame is one that has not failed.
LEMMA FormsThen ==
  ASSUME Len(frames') \in Nat,
         Len(frames') # 0 => frames'[Len(frames')].kind # "failed"
  PROVE  Forms' = FormsOf(frames', Len(frames'))
<1>1. frames' # <<>> => Len(frames') # 0
  BY DEF Forms
<1> QED
  BY DEF Forms, Live, Top, Last, FormsOf, FormOf

\* A construct that is entered is a form that is entered.
LEMMA MapsPush ==
  ASSUME IInv, IInv', Open, NEW k \in Kinds \ {"failed", "cleanup"},
         NEW m \in BlockNames \cup Tags, Push(k, m)
  PROVE  Promise!Next
<1> DEFINE n == Len(frames)
<1>1. /\ TypeOK /\ n \in Nat /\ Shape(frames, exit, n) /\ TypeOK'
      /\ AtRest(regs, exit)
  BY IInvFacts DEF Open, IInv, BasicInv
<1>2. /\ Len(frames') = n + 1 /\ Same(frames, frames', n)
      /\ frames'[n + 1] = Frame(k, m)
      /\ result' = Nil /\ alive' = alive /\ exit' = exit
  BY <1>1, PushFacts
<1>3. Forms = FormsOf(frames, n)
  BY <1>1, FormsAre DEF Open
<1>4. Forms' = FormsOf(frames', n + 1)
  <2>1. frames'[n + 1].kind # "failed" /\ n + 1 \in Nat
    BY <1>1, <1>2 DEF Frame
  <2> QED
    BY <1>2, <2>1, FormsThen
<1>5. FormOf(frames'[n + 1]) = Promise!Form(k, m)
  BY <1>2 DEF Frame, FormOf, Promise!Form, NoExit, Promise!NoExit
<1>6. Forms' = Append(Forms, Promise!Form(k, m))
  <2>1. FormsOf(frames', n) = FormsOf(frames, n)
    BY <1>1, <1>2, FormsAlike
  <2>2. FormsOf(frames', n + 1) = Append(FormsOf(frames', n), FormOf(frames'[n + 1]))
    BY <1>1, FormsAppend
  <2> QED
    BY <1>3, <1>4, <1>5, <2>1, <2>2
<1>7. Promise!Running
  BY <1>1 DEF Open, AtRest, Promise!Running, NoExit, Promise!NoExit
<1>8. Promise!Enter(k, m)
  BY <1>2, <1>6, <1>7 DEF Promise!Enter
<1>9. k \in Promise!Kinds \ {"cleanup"}
  BY DEF Kinds, Promise!Kinds
<1> QED
  BY <1>8, <1>9 DEF Promise!Next

\* Each of the six constructs is entered as a form of its kind.
LEMMA MapsEnter ==
  ASSUME IInv, IInv', Fresh, ~astray',
         \/ \E m \in BlockNames : NativeBlock(m)
         \/ \E m \in Tags : Catch(m)
         \/ UnwindProtect \/ NativeLoop \/ HandlerCase \/ GuardEnter
  PROVE  Promise!Next
<1>1. {"block", "catch", "protect", "loop", "handler", "guard"}
        \subseteq Kinds \ {"failed", "cleanup"}
  BY DEF Kinds
<1>2. Nil \in BlockNames \cup Tags /\ Open
  BY ExitAssumption, EnterOpen
<1> QED
  BY <1>1, <1>2, MapsPush
     DEF NativeBlock, Catch, UnwindProtect, NativeLoop, HandlerCase, GuardEnter

\* An exit is started for the innermost of n forms that answers to it.
LEMMA MapsStart ==
  ASSUME NEW n \in Nat, NEW m, NEW v, NEW sought,
         alive, exit = NoExit, Forms = FormsOf(frames, n), Forms' = Forms,
         alive' = alive, result' = Nil,
         exit' \in Exits, exit'.goal \in 1..n, exit'.value = v,
         Promise!Answers(FormOf(frames[exit'.goal]), sought, m),
         \A i \in (exit'.goal + 1)..n : ~Promise!Answers(FormOf(frames[i]), sought, m)
  PROVE  Promise!StartExit(sought, m, v)
<1> DEFINE g == exit'.goal
<1>1. Promise!Running
  BY DEF Promise!Running, NoExit, Promise!NoExit
<1>2. exit' = [goal |-> g, value |-> v]
  BY DEF Exits
<1>3. Len(Forms) = n /\ \A i \in 1..n : Forms[i] = FormOf(frames[i])
  BY FormsSeq
<1>4. \A i \in (g + 1)..n : i \in 1..n
  OBVIOUS
<1> HIDE DEF g
<1>5. /\ Promise!Answers(Forms[g], sought, m)
      /\ \A i \in (g + 1)..Len(Forms) : ~Promise!Answers(Forms[i], sought, m)
  BY <1>3, <1>4 DEF g
<1>6. \E i \in 1..Len(Forms) :
         /\ Promise!Answers(Forms[i], sought, m)
         /\ \A j \in (i + 1)..Len(Forms) : ~Promise!Answers(Forms[j], sought, m)
         /\ exit' = [goal |-> i, value |-> v]
  BY <1>2, <1>3, <1>5 DEF g
<1> QED
  BY <1>1, <1>6 DEF Promise!StartExit

\* A form answers to a condition if its frame handles conditions, and so on.
LEMMA AnswersAre ==
  ASSUME NEW fr, NEW m
  PROVE  /\ Promise!Answers(FormOf(fr), "condition", Nil)
              <=> Handling(fr) \/ (fr.kind = "condition" /\ fr.name = Nil)
         /\ Promise!Answers(FormOf(fr), "return", Nil)
              <=> Loopish(fr) \/ (fr.kind = "return" /\ fr.name = Nil)
         /\ Promise!Answers(FormOf(fr), "block", m)
              <=> fr.kind = "block" /\ fr.name = m
         /\ Promise!Answers(FormOf(fr), "catch", m)
              <=> fr.kind = "catch" /\ fr.name = m
BY DEF Promise!Answers, FormOf, Handling, Loopish

\* Nothing handles conditions: the process ends.
LEMMA MapsDie ==
  ASSUME NEW n \in Nat, alive, exit = NoExit, Forms = FormsOf(frames, n),
         Forms' = Forms, alive' = FALSE, result' = Nil, exit' = exit,
         \A i \in 1..n : frames[i] \in FrameSet /\ ~Handling(frames[i])
  PROVE  Promise!Next
<1>1. Promise!Running
  BY DEF Promise!Running, NoExit, Promise!NoExit
<1>2. \A i \in 1..n : frames[i].kind # "condition"
  BY DEF FrameSet, Kinds
<1>3. Len(Forms) = n /\ \A i \in 1..n : Forms[i] = FormOf(frames[i])
  BY FormsSeq
<1>4. \A i \in 1..n : ~Promise!Answers(FormOf(frames[i]), "condition", Nil)
  BY <1>2, AnswersAre
<1>5. \A i \in 1..Len(Forms) : ~Promise!Answers(Forms[i], "condition", Nil)
  BY <1>3, <1>4
<1>6. Promise!Die
  BY <1>1, <1>5 DEF Promise!Die
<1> QED
  BY <1>6 DEF Promise!Next

\* A condition, or a (return), is an exit to the innermost form that takes it.
LEMMA MapsSearch ==
  ASSUME NEW n \in Nat, NEW v \in Values,
         alive, exit = NoExit, Forms = FormsOf(frames, n), Forms' = Forms,
         alive' = alive, result' = Nil,
         exit' \in Exits, exit'.goal \in 1..n, exit'.value = v,
         \A i \in 1..n : frames[i] \in FrameSet,
         \/ Handling(frames[exit'.goal]) /\ NoHandler(frames, exit'.goal + 1, n)
         \/ Loopish(frames[exit'.goal]) /\ NoLoop(frames, exit'.goal + 1, n)
  PROVE  Promise!Next
<1>1. \A i \in 1..n : frames[i].kind \notin {"condition", "return"}
  BY DEF FrameSet, Kinds
<1>2. \A i \in (exit'.goal + 1)..n : i \in 1..n
  OBVIOUS
<1>3. CASE Handling(frames[exit'.goal]) /\ NoHandler(frames, exit'.goal + 1, n)
  <2>1. /\ Promise!Answers(FormOf(frames[exit'.goal]), "condition", Nil)
        /\ \A i \in (exit'.goal + 1)..n :
             ~Promise!Answers(FormOf(frames[i]), "condition", Nil)
    BY <1>1, <1>2, <1>3, AnswersAre DEF NoHandler
  <2>2. Promise!StartExit("condition", Nil, v)
    BY <2>1, MapsStart
  <2> QED
    BY <2>2 DEF Promise!Next
<1>4. CASE Loopish(frames[exit'.goal]) /\ NoLoop(frames, exit'.goal + 1, n)
  <2>1. /\ Promise!Answers(FormOf(frames[exit'.goal]), "return", Nil)
        /\ \A i \in (exit'.goal + 1)..n :
             ~Promise!Answers(FormOf(frames[i]), "return", Nil)
    BY <1>1, <1>2, <1>4, AnswersAre DEF NoLoop
  <2>2. Promise!StartExit("return", Nil, v)
    BY <2>1, MapsStart
  <2> QED
    BY <2>2 DEF Promise!Next
<1> QED
  BY <1>3, <1>4

\* The four ways to start an exit.
LEMMA MapsStartExit ==
  ASSUME IInv, IInv', Fresh, ~astray', NEW v \in Values,
         \/ Error(v) \/ LoopReturn(v)
         \/ \E m \in BlockNames : ReturnFrom(m, v)
         \/ \E m \in Tags : Throw(m, v)
  PROVE  Promise!Next
<1> DEFINE n == Len(frames)
<1>1. /\ TypeOK /\ n \in Nat /\ Shape(frames, exit, n) /\ Open
      /\ exit = NoExit /\ alive /\ result' = Nil
      /\ exit' \in Exits /\ frames' \in Seq(FrameSet)
      /\ \A i \in 1..n : frames[i] \in FrameSet
  <2>1. /\ Open /\ result' = Nil
    BY RunningOpen DEF Error, Signal, StartExit, LoopReturn, ReturnFrom, Throw
  <2>2. TypeOK /\ TypeOK'
    BY DEF IInv, BasicInv
  <2>3. exit' \in Exits /\ frames' \in Seq(FrameSet)
    BY <2>2 DEF TypeOK, FrameSet
  <2> QED
    BY <2>1, <2>2, <2>3, IInvFacts, TypeFacts DEF Open, AtRest
<1>2. Forms = FormsOf(frames, n)
  BY <1>1, FormsAre DEF Open
<1>3. \A i \in 1..n : frames[i].kind # "failed"
  BY <1>1, NoneFailed
<1>4. ASSUME frames' = frames
      PROVE  Forms' = Forms
  BY <1>4 DEF Forms, Live, Top
<1>5. ASSUME NEW g \in 1..n, frames' = [frames EXCEPT ![g].value = v]
      PROVE  Forms' = Forms
  <2>1. /\ Len(frames') = n
        /\ \A i \in 1..n : FormOf(frames'[i]) = FormOf(frames[i])
                           /\ frames'[i].kind # "failed"
    <3>1. /\ Len(frames') = n
          /\ \A i \in 1..n :
               /\ frames'[i].kind = frames[i].kind /\ frames'[i].name = frames[i].name
               /\ frames'[i].held = frames[i].held
      BY <1>1, <1>5, StashTypes
    <3> QED
      BY <1>3, <3>1 DEF FormOf
  <2>2. Len(frames') # 0 => frames'[Len(frames')].kind # "failed"
    BY <1>1, <2>1
  <2>3. Forms' = FormsOf(frames', Len(frames'))
    BY <1>1, <2>1, <2>2, FormsThen
  <2>4. FormsOf(frames', n) = FormsOf(frames, n)
    BY <2>1 DEF FormsOf
  <2> QED
    BY <1>2, <2>1, <2>3, <2>4
<1>6. CASE Error(v)
  <2>1. /\ frames' = frames /\ Signal(v)
    BY <1>6 DEF Error
  <2>2. CASE handlerDepth = 0
    <3>1. Handlers = {}
      BY <1>1, <2>2, CountedIs DEF IInv, BasicInv
    <3>2. \A i \in 1..n : ~Handling(frames[i])
      BY <1>1, <3>1, GoalSets
    <3>3. alive' = FALSE /\ exit' = exit
      BY <2>1, <2>2 DEF Signal
    <3> QED
      BY <1>1, <1>2, <1>4, <2>1, <3>2, <3>3, MapsDie
  <2>3. CASE handlerDepth # 0
    <3>1. StartExit(Handlers, v) /\ alive' = alive
      BY <2>1, <2>3 DEF Signal
    <3>2. /\ Handlers # {} /\ Handlers \in SUBSET (1..n)
          /\ \A i \in 1..n : i \in Handlers <=> Handling(frames[i])
          /\ \A i \in Handlers : frames[i].kind # "cleanup"
      BY <1>1, <2>3, CountedIs, GoalSets DEF IInv, BasicInv, Handling
    <3>3. /\ exit'.goal \in Handlers /\ exit'.goal \in 1..n /\ exit'.value = v
          /\ \A i \in (exit'.goal + 1)..n : i \in 1..n /\ i \notin Handlers
      BY <1>1, <3>1, <3>2, GoalPasses
    <3>4. Handling(frames[exit'.goal]) /\ NoHandler(frames, exit'.goal + 1, n)
      BY <3>2, <3>3 DEF NoHandler
    <3> QED
      BY <1>1, <1>2, <1>4, <2>1, <3>1, <3>3, <3>4, MapsSearch
  <2> QED
    BY <2>2, <2>3
<1>7. CASE LoopReturn(v)
  <2>1. Loops # {} /\ StartExit(Loops, v) /\ frames' = frames /\ alive' = alive
    BY <1>7 DEF LoopReturn, StartExit
  <2>2. /\ Loops \in SUBSET (1..n)
        /\ \A i \in 1..n : i \in Loops <=> Loopish(frames[i])
        /\ \A i \in Loops : frames[i].kind # "cleanup"
    BY <1>1, GoalSets DEF Loopish
  <2>3. /\ exit'.goal \in Loops /\ exit'.goal \in 1..n /\ exit'.value = v
        /\ \A i \in (exit'.goal + 1)..n : i \in 1..n /\ i \notin Loops
    BY <1>1, <2>1, <2>2, GoalPasses
  <2>4. Loopish(frames[exit'.goal]) /\ NoLoop(frames, exit'.goal + 1, n)
    BY <2>2, <2>3 DEF NoLoop
  <2> QED
    BY <1>1, <1>2, <1>4, <2>1, <2>3, <2>4, MapsSearch
<1>8. ASSUME NEW m \in BlockNames, ReturnFrom(m, v)
      PROVE  Promise!Next
  <2>1. /\ Blocks(m) # {} /\ StartExit(Blocks(m), v) /\ alive' = alive
        /\ frames' = [frames EXCEPT ![Innermost(Blocks(m))].value = v]
    BY <1>8 DEF ReturnFrom
  <2>2. /\ Blocks(m) \in SUBSET (1..n)
        /\ \A i \in 1..n : i \in Blocks(m)
                             <=> frames[i].kind = "block" /\ frames[i].name = m
        /\ \A i \in Blocks(m) : frames[i].kind # "cleanup"
    BY <1>1, GoalSets
  <2>3. /\ exit'.goal \in Blocks(m) /\ exit'.goal \in 1..n /\ exit'.value = v
        /\ exit'.goal = Innermost(Blocks(m))
        /\ \A i \in (exit'.goal + 1)..n : i \in 1..n /\ i \notin Blocks(m)
    BY <1>1, <2>1, <2>2, GoalPasses
  <2>4. Forms' = Forms
    BY <1>5, <2>1, <2>3
  <2>5. Promise!StartExit("block", m, v)
    <3>1. /\ Promise!Answers(FormOf(frames[exit'.goal]), "block", m)
          /\ \A i \in (exit'.goal + 1)..n :
               ~Promise!Answers(FormOf(frames[i]), "block", m)
      BY <2>2, <2>3, AnswersAre
    <3> QED
      BY <1>1, <1>2, <2>1, <2>3, <2>4, <3>1, MapsStart
  <2> QED
    BY <2>5 DEF Promise!Next
<1>9. ASSUME NEW m \in Tags, Throw(m, v)
      PROVE  Promise!Next
  <2>1. /\ Catches(m) # {} /\ StartExit(Catches(m), v) /\ alive' = alive
        /\ frames' = [frames EXCEPT ![Innermost(Catches(m))].value = v]
    BY <1>9 DEF Throw
  <2>2. /\ Catches(m) \in SUBSET (1..n)
        /\ \A i \in 1..n : i \in Catches(m)
                             <=> frames[i].kind = "catch" /\ frames[i].name = m
        /\ \A i \in Catches(m) : frames[i].kind # "cleanup"
    BY <1>1, GoalSets
  <2>3. /\ exit'.goal \in Catches(m) /\ exit'.goal \in 1..n /\ exit'.value = v
        /\ exit'.goal = Innermost(Catches(m))
        /\ \A i \in (exit'.goal + 1)..n : i \in 1..n /\ i \notin Catches(m)
    BY <1>1, <2>1, <2>2, GoalPasses
  <2>4. Forms' = Forms
    BY <1>5, <2>1, <2>3
  <2>5. Promise!StartExit("catch", m, v)
    <3>1. /\ Promise!Answers(FormOf(frames[exit'.goal]), "catch", m)
          /\ \A i \in (exit'.goal + 1)..n :
               ~Promise!Answers(FormOf(frames[i]), "catch", m)
      BY <2>2, <2>3, AnswersAre
    <3> QED
      BY <1>1, <1>2, <2>1, <2>3, <2>4, <3>1, MapsStart
  <2> QED
    BY <2>5 DEF Promise!Next
<1> QED
  BY <1>6, <1>7, <1>8, <1>9

\* What is left when the innermost frame goes.
LEMMA FormsPopped ==
  ASSUME IInv, frames # <<>>, frames' = Front(frames)
  PROVE  Forms' = FormsOf(frames, Len(frames) - 1)
<1> DEFINE n == Len(frames)
<1>1. /\ TypeOK /\ Shape(frames, exit, n) /\ n \in Nat \ {0}
      /\ Len(frames') = n - 1 /\ Same(frames, frames', n - 1)
  BY IInvFacts, PopFacts
<1>2. \A i \in 1..(n - 1) : frames'[i].kind # "failed"
  BY <1>1, FormsAre DEF Same
<1> HIDE DEF n
<1>3. n - 1 \in Nat /\ (n - 1 # 0 => n - 1 \in 1..(n - 1))
  BY <1>1
<1>4. Forms' = FormsOf(frames', n - 1)
  BY <1>1, <1>2, <1>3, FormsThen
<1> QED
  BY <1>1, <1>3, <1>4, FormsAlike DEF n

\* A construct that is left is a form that is left: the exit lands there,
\* goes past it, or there is none.
LEMMA MapsLeave ==
  ASSUME IInv, frames # <<>>, alive, alive' = alive,
         Top.kind \notin {"failed", "protect", "cleanup"},
         Forms' = FormsOf(frames, Len(frames) - 1),
         Lands \/ Passes,
         Top.kind = "loop" /\ Passes => exit.goal # 0
  PROVE  Promise!Next
<1> DEFINE n == Len(frames)
<1>1. /\ TypeOK /\ Shape(frames, exit, n) /\ n \in Nat \ {0}
      /\ exit.goal \in 0..n /\ Top = frames[n]
  BY IInvFacts, TypeFacts
<1>2. Forms = FormsOf(frames, n)
  BY <1>1, FormsAre
<1>3. /\ Forms # <<>> /\ Len(Forms) = n /\ Forms' = Promise!Front(Forms)
      /\ Promise!Last(Forms).kind = Top.kind
  <2>1. FormOf(Top).kind = Top.kind
    BY DEF FormOf
  <2> QED
    BY <1>1, <1>2, <2>1, FormsFront, FormsSeq
       DEF Front, Promise!Front, Last, Promise!Last
<1> HIDE DEF n
<1>4. CASE Lands
  <2>1. exit.goal = Len(Forms) /\ exit' = Promise!NoExit /\ result' = exit.value
    BY <1>3, <1>4 DEF Lands, NoExit, Promise!NoExit, n
  <2>2. Promise!Land
    BY <1>3, <2>1 DEF Promise!Land
  <2> QED
    BY <2>2 DEF Promise!Next
<1>5. CASE Passes /\ exit.goal # 0
  <2>1. /\ exit.goal \in 1..(Len(Forms) - 1) /\ exit' = exit /\ result' = Nil
    BY <1>1, <1>3, <1>5 DEF Passes, n
  <2>2. Promise!Abandon
    BY <1>3, <2>1 DEF Promise!Abandon
  <2> QED
    BY <2>2 DEF Promise!Next
<1>6. CASE Passes /\ exit.goal = 0
  <2>1. /\ exit = NoExit /\ exit' = exit /\ result' = Nil /\ Top.kind # "loop"
    BY <1>6, ReturnMeetsLoop, IInvFacts DEF Passes
  <2>2. Promise!Running
    BY <2>1 DEF Promise!Running, NoExit, Promise!NoExit
  <2>3. Promise!LeaveNormally
    BY <1>3, <2>1, <2>2 DEF Promise!LeaveNormally
  <2> QED
    BY <2>3 DEF Promise!Next
<1> QED
  BY <1>4, <1>5, <1>6

\* The four constructs that are left when their thunk returns.
LEMMA MapsEnds ==
  ASSUME IInv, IInv', BlockEnds \/ CatchEnds \/ LoopEnds \/ HandlerCaseEnds
  PROVE  Promise!Next
<1>1. /\ alive /\ alive' = alive
      /\ Top.kind \notin {"failed", "protect", "cleanup"}
      /\ Top.kind = "loop" => LoopEnds
  BY DEF BlockEnds, CatchEnds, LoopEnds, HandlerCaseEnds, Returned, Pop
<1>2. /\ frames # <<>> /\ frames' = Front(frames)
      /\ Lands \/ Passes
      /\ LoopEnds /\ Passes => exit.goal # 0
  BY LeaveStep DEF IInv
<1> QED
  BY <1>1, <1>2, FormsPopped, MapsLeave

\* A guard is left with its condition even when the evaluation has failed.
LEMMA MapsGuardExit ==
  ASSUME IInv, IInv', GuardExit
  PROVE  Promise!Next
<1>1. alive /\ alive' = alive /\ Top.kind = "guard" /\ frames # <<>>
  BY DEF GuardExit, Returned
<1>2. \/ frames' = Front(frames) /\ (Lands \/ Passes)
      \/ /\ frames' = [frames EXCEPT ![Len(frames)].kind = "failed"]
         /\ Lands
  BY GuardExitStep DEF IInv
<1>3. CASE frames' = Front(frames)
  BY <1>1, <1>2, <1>3, FormsPopped, MapsLeave
<1>4. CASE frames' = [frames EXCEPT ![Len(frames)].kind = "failed"] /\ Lands
  <2> DEFINE n == Len(frames)
             x == [Top EXCEPT !.kind = "failed"]
  <2>1. /\ TypeOK /\ n \in Nat \ {0} /\ Top = frames[n] /\ Top \in FrameSet
        /\ TypeOK' /\ Shape(frames', exit', Len(frames'))
    BY <1>1, IInvFacts, TypeFacts DEF IInv, BasicInv
  <2>2. x \in FrameSet /\ x.kind = "failed"
    BY <2>1 DEF FrameSet, Kinds
  <2>3. frames' = [frames EXCEPT ![n] = x]
    BY <1>4, <2>1
  <2> HIDE DEF x
  <2>4. /\ frames' \in Seq(FrameSet) /\ Len(frames') = n
        /\ Same(frames, frames', n - 1) /\ frames'[n] = x
    BY <1>1, <2>1, <2>2, <2>3, ReplaceFacts
  <2>5. Forms' = FormsOf(frames', n - 1)
    <3>1. frames' # <<>> /\ Last(frames').kind = "failed"
      BY <2>1, <2>2, <2>4, EmptySeq DEF Last
    <3>2. /\ Len(Front(frames')) = n - 1
          /\ \A i \in 1..(n - 1) : Front(frames')[i] = frames'[i]
      BY <2>1, <2>4, FrontIs
    <3> QED
      BY <3>1, <3>2 DEF Forms, Live, Top, FormsOf, FormOf
  <2>6. FormsOf(frames', n - 1) = FormsOf(frames, n - 1)
    BY <2>1, <2>4, FormsAlike
  <2> QED
    BY <1>1, <1>4, <2>5, <2>6, MapsLeave
<1> QED
  BY <1>2, <1>3, <1>4

\* A failed evaluation signals to the forms around it.
LEMMA MapsEvalFails ==
  ASSUME IInv, IInv', Fresh, ~astray', NEW v \in Values, EvalFails(v)
  PROVE  Promise!Next
<1> DEFINE n == Len(frames)
<1>1. /\ alive /\ frames # <<>> /\ Top.kind = "failed" /\ result' = Nil
      /\ frames' = Front(frames)
  BY DEF EvalFails, Returned, Signal, StartExit
<1>2. /\ TypeOK /\ n \in Nat \ {0} /\ Shape(frames, exit, n) /\ TypeOK'
      /\ \A i \in 1..(n - 1) : i \in 1..n /\ frames[i] \in FrameSet
  BY <1>1, IInvFacts, TypeFacts DEF IInv, BasicInv
<1>3. Forms = FormsOf(frames, n - 1) /\ Forms' = FormsOf(frames, n - 1)
  BY <1>1, <1>2, FormsAre, FormsPopped
<1>4. /\ exit = NoExit /\ exit' \in Exits
      /\ \/ Handlers = {} /\ alive' = FALSE /\ exit' = exit
         \/ /\ alive' = alive
            /\ InFlight(frames, regs', exit', n - 1)
            /\ Handling(frames[exit'.goal]) /\ exit'.value = v
            /\ NoHandler(frames, exit'.goal + 1, n - 1)
  BY <1>2, EvalFailsStep DEF IInv, TypeOK
<1>5. n - 1 \in Nat
  BY <1>2
<1>6. CASE Handlers = {} /\ alive' = FALSE /\ exit' = exit
  <2>1. \A i \in 1..(n - 1) : ~Handling(frames[i])
    BY <1>2, <1>6, GoalSets
  <2> QED
    BY <1>1, <1>2, <1>3, <1>4, <1>5, <1>6, <2>1, MapsDie
<1>7. CASE /\ alive' = alive
           /\ InFlight(frames, regs', exit', n - 1)
           /\ Handling(frames[exit'.goal]) /\ exit'.value = v
           /\ NoHandler(frames, exit'.goal + 1, n - 1)
  <2>1. exit'.goal \in 1..(n - 1)
    BY <1>7 DEF InFlight
  <2> QED
    BY <1>1, <1>2, <1>3, <1>4, <1>5, <1>7, <2>1, MapsSearch
<1> QED
  BY <1>4, <1>6, <1>7

\* The cleanup holds the exit that was under way.
LEMMA MapsBeginCleanup ==
  ASSUME IInv, IInv', BeginCleanup
  PROVE  Promise!Next
<1> DEFINE n == Len(frames)
           x == Frame("cleanup", Nil)
           y == [kind |-> "cleanup", name |-> Nil, held |-> exit]
<1>1. /\ alive /\ alive' = alive /\ frames # <<>> /\ Top.kind = "protect"
      /\ exit' = NoExit /\ result' = Nil
      /\ frames' = Append(Front(frames), x)
  BY DEF BeginCleanup, Returned
<1>2. /\ TypeOK /\ n \in Nat \ {0} /\ Top = frames[n] /\ regs \in Registers
      /\ Shape(frames, exit, n) /\ exit \in Exits
  BY <1>1, IInvFacts, TypeFacts
<1>3. /\ x \in FrameSet /\ x.kind = "cleanup" /\ FormOf(x) = y
  BY <1>2, ExitAssumption DEF Frame, FrameSet, Kinds, FormOf
<1> HIDE DEF x, y
<1>4. /\ Len(frames') = n /\ Same(frames, frames', n - 1) /\ frames'[n] = x
  BY <1>1, <1>2, <1>3, ReplaceFacts
<1> HIDE DEF n
<1>5. n - 1 \in Nat /\ (n - 1) + 1 = n
  BY <1>2
<1>6. Forms = FormsOf(frames, n)
  BY <1>1, <1>2, FormsAre DEF n
<1>7. Forms' = FormsOf(frames', n)
  BY <1>2, <1>3, <1>4, FormsThen
<1>8. Forms' = Append(FormsOf(frames, n - 1), y)
  <2>1. FormsOf(frames', n - 1) = FormsOf(frames, n - 1)
    BY <1>4, <1>5, FormsAlike
  <2>2. FormsOf(frames', n) = Append(FormsOf(frames', n - 1), FormOf(frames'[n]))
    <3>1. FormsOf(frames', (n - 1) + 1)
            = Append(FormsOf(frames', n - 1), FormOf(frames'[(n - 1) + 1]))
      BY <1>5, FormsAppend
    <3> QED
      BY <1>5, <3>1
  <2> QED
    BY <1>3, <1>4, <1>7, <2>1, <2>2
<1>9. /\ Forms # <<>> /\ Promise!Front(Forms) = FormsOf(frames, n - 1)
      /\ Promise!Last(Forms).kind = "protect"
  <2>1. FormOf(Top).kind = "protect"
    BY <1>1 DEF FormOf
  <2> QED
    BY <1>2, <1>6, <2>1, FormsFront
       DEF Front, Promise!Front, Last, Promise!Last
<1>10. Promise!BeginCleanup
  BY <1>1, <1>8, <1>9 DEF Promise!BeginCleanup, NoExit, Promise!NoExit, y
<1> QED
  BY <1>10 DEF Promise!Next

\* The exit held up goes on.
LEMMA MapsEndCleanup ==
  ASSUME IInv, IInv', EndCleanup
  PROVE  Promise!Next
<1> DEFINE n == Len(frames)
<1>1. /\ alive /\ alive' = alive /\ frames # <<>> /\ Top.kind = "cleanup"
      /\ exit' = Top.held /\ result' = Nil /\ frames' = Front(frames)
  BY DEF EndCleanup, Returned
<1>2. /\ TypeOK /\ n \in Nat \ {0} /\ Top = frames[n]
      /\ Shape(frames, exit, n) /\ exit = NoExit
  BY <1>1, IInvFacts, TypeFacts, EndCleanupStep DEF IInv
<1>3. Forms = FormsOf(frames, n) /\ Forms' = FormsOf(frames, n - 1)
  BY <1>1, <1>2, FormsAre, FormsPopped
<1> HIDE DEF n
<1>4. /\ Forms # <<>> /\ Forms' = Promise!Front(Forms)
      /\ Promise!Last(Forms).kind = "cleanup"
      /\ Promise!Last(Forms).held = Top.held
  <2>1. FormOf(Top).kind = "cleanup" /\ FormOf(Top).held = Top.held
    BY <1>1 DEF FormOf
  <2> QED
    BY <1>2, <1>3, <2>1, FormsFront
       DEF Front, Promise!Front, Last, Promise!Last
<1>5. Promise!Running
  BY <1>1, <1>2 DEF Promise!Running, NoExit, Promise!NoExit
<1>6. Promise!EndCleanup
  BY <1>1, <1>4, <1>5 DEF Promise!EndCleanup
<1> QED
  BY <1>6 DEF Promise!Next

\* Initial states are initial.
LEMMA MapsInit == Init => Promise!Init
<1> SUFFICES ASSUME Init PROVE Promise!Init
  OBVIOUS
<1>1. frames = <<>> /\ Len(frames) = 0
  BY EmptySeq DEF Init
<1>2. Forms = FormsOf(frames, 0)
  BY <1>1 DEF Forms, Live, FormsOf, FormOf
<1>3. Forms = <<>>
  BY <1>2, FormsSeq, EmptySeq
<1> QED
  BY <1>3 DEF Init, Promise!Init, NoExit, Promise!NoExit

\* Until an exit goes astray each step is a step of the promise, or none.
LEMMA MapsNext ==
  ASSUME IInv, Fresh, ~astray', [Next]_vars
  PROVE  [Promise!Next]_(Promise!avars)
<1>1. IInv'
  BY IInvStep
<1>2. CASE UNCHANGED vars
  BY <1>2 DEF vars, Promise!avars, Forms, Live, Top
<1>3. CASE \/ \E m \in BlockNames : NativeBlock(m)
           \/ \E m \in Tags : Catch(m)
           \/ UnwindProtect \/ NativeLoop \/ HandlerCase \/ GuardEnter
  BY <1>1, <1>3, MapsEnter
<1>4. ASSUME NEW v \in Values,
             \/ Error(v) \/ LoopReturn(v) \/ EvalFails(v)
             \/ \E m \in BlockNames : ReturnFrom(m, v)
             \/ \E m \in Tags : Throw(m, v)
      PROVE  Promise!Next
  BY <1>1, <1>4, MapsStartExit, MapsEvalFails
<1>5. CASE \/ BlockEnds \/ CatchEnds \/ LoopEnds \/ HandlerCaseEnds
           \/ GuardExit \/ BeginCleanup \/ EndCleanup
  BY <1>1, <1>5, MapsEnds, MapsGuardExit, MapsBeginCleanup, MapsEndCleanup
<1> QED
  BY <1>2, <1>3, <1>4, <1>5 DEF Next

\* Every program, until an exit of it goes astray: however exits nest in
\* cleanups, each reaches the innermost construct that answers to it, with its
\* value, past cleanups that run to their end; the process ends only where
\* nothing handles conditions.
THEOREM ExitsKeepTheirExtent == Spec => ImplementsDynamicExtent
<1>1. ASSUME ExitInv, [Next]_vars
      PROVE  [astray' \/ Promise!Next]_(Promise!avars)
  <2>1. astray => astray'
    BY <1>1, AstrayStays
  <2> QED
    BY <1>1, <2>1, MapsNext DEF ExitInv
<1> QED
  BY <1>1, MapsInit, Invariance, PTL DEF Spec, ImplementsDynamicExtent
=============================================================================
