--------------------------- MODULE SurfaceQueryProofs ---------------------------
(***************************************************************************)
(* For any threads, panes, batches and requests, and however many threads  *)
(* share a pane: a text query never loses the drawing a thread is at, and  *)
(* a pane that nobody is busy with shows the drawing last submitted for    *)
(* it, unless its last paint failed or two calls on it have overlapped.    *)
(***************************************************************************)
EXTENDS SurfaceQuery, TLAPS

Queries == [pane : Panes, id : 1..MaxRequests,
            inProgress : Batches \cup {NoBatch}, displayed : Batches \cup {NoBatch}]

Measuring(t) == pc[t] \notin {"run", "drawn"}

\* A query that is under way knows its pane and has put aside a drawing.
QueryInv ==
  /\ query \in [Threads -> Queries \cup {NoQuery}]
  /\ \A t \in Threads : query[t].inProgress.ask = 0
  /\ \A t \in Threads : Measuring(t) => query[t].pane \in Panes

\* The drawing a thread has begun is in CURRENT, or put aside by its query.
KeptInv ==
  \A t \in Threads :
    /\ pc[t] = "run" => current[t].draw = opened[t]
    /\ pc[t] = "drawn" => current[t] # NoBatch /\ opened[t] = 0
    /\ Measuring(t) => query[t].inProgress.draw = opened[t]

DInv == TypeOK /\ QueryInv /\ KeptInv

\* Types are kept.
LEMMA TypeKept ==
  ASSUME TypeOK, QueryInv, [Next]_vars
  PROVE  TypeOK'
<1> USE SurfaceAssumption DEF TypeOK, QueryInv, Queries, Batches, NoBatch, NoQuery,
             surface, panes, painting, replies, races, ghosts, threads, Idle,
             Finish, Asking,
             Insert, Invalidate, RestoreCurrent, Deliver, Measuring
<1>1. ASSUME NEW t \in Threads, NEW p \in Panes, BeginBatch(t, p) PROVE TypeOK'
  BY <1>1 DEF BeginBatch
<1>2. ASSUME NEW t \in Threads, SubmitBatch(t) PROVE TypeOK'
  BY <1>2 DEF SubmitBatch
<1>3. ASSUME NEW t \in Threads, SubmittedBatch(t) PROVE TypeOK'
  BY <1>3 DEF SubmittedBatch
<1>4. ASSUME NEW t \in Threads, NEW p \in Panes, Measure(t, p) PROVE TypeOK'
  <2>1. asked' \in 0..MaxRequests /\ asked' = asked + 1 /\ asked' \in 1..MaxRequests
    BY <1>4 DEF Measure
  <2>2. /\ slots' \subseteq 1..asked' /\ reply' = reply
        /\ \A r \in 1..MaxRequests : reply'[r] = 0 \/ r \in (1..asked') \ slots'
    BY <1>4, <2>1 DEF Measure
  <2>3. current' = [current EXCEPT ![t] = NoBatch]
    BY <1>4 DEF Measure
  <2>4. query' = [query EXCEPT ![t] =
          [pane |-> p, id |-> asked', inProgress |-> current[t], displayed |-> shown[p]]]
    BY <1>4 DEF Measure
  <2>5. \A u \in Threads : query'[u] = NoQuery <=> pc'[u] \in {"run", "drawn"}
    BY <1>4, <2>4 DEF Measure
  <2> QED
    BY <1>4, <2>1, <2>2, <2>3, <2>5 DEF Measure
<1>5. ASSUME NEW t \in Threads, SubmitQuery(t) PROVE TypeOK'
  <2>1. query[t] \in Queries
    BY <1>5 DEF SubmitQuery
  <2>. query[t].pane \in Panes /\ query[t].id \in 0..MaxRequests
    BY <2>1
  <2>2. shown' \in [Panes -> Batches \cup {NoBatch}]
    BY <1>5 DEF SubmitQuery
  <2> QED
    BY <1>5, <2>2 DEF SubmitQuery
<1>6. ASSUME NEW t \in Threads, NoPane(t) PROVE TypeOK'
  BY <1>6 DEF NoPane
<1>7. ASSUME NEW t \in Threads, SubmittedQuery(t) PROVE TypeOK'
  BY <1>7 DEF SubmittedQuery
<1>8. ASSUME NEW t \in Threads, GotReply(t) PROVE TypeOK'
  BY <1>8 DEF GotReply
<1>9. ASSUME NEW t \in Threads, TimeOut(t) PROVE TypeOK'
  BY <1>9 DEF TimeOut
<1>10. ASSUME NEW t \in Threads, Redisplay(t) PROVE TypeOK'
  <2>1. query[t].displayed \in Batches \cup {NoBatch}
    BY <1>10 DEF Redisplay
  <2>2. query[t].displayed # NoBatch => query[t].displayed.pane \in Panes
    BY <2>1
  <2>3. shown' \in [Panes -> Batches \cup {NoBatch}]
    BY <1>10, <2>1, <2>2 DEF Redisplay, Insert
  <2> QED
    BY <1>10, <2>3 DEF Redisplay
<1>11. ASSUME NEW t \in Threads, Measured(t) PROVE TypeOK'
  BY <1>11 DEF Measured
<1>12. ASSUME NEW p \in Panes, BeginPaint(p) PROVE TypeOK'
  <2>1. gui'.at = "begun" /\ gui'.pane = p /\ gui'.batch = NoBatch
    BY <1>12 DEF BeginPaint
  <2>2. p \in live
    BY <1>12 DEF BeginPaint
  <2> QED
    BY <1>12, <2>1, <2>2 DEF BeginPaint
<1>13. CASE PaintNothing
  BY <1>13 DEF PaintNothing
<1>14. CASE Snapshot
  <2>1. gui.pane \in Panes
    BY <1>14 DEF Snapshot
  <2>2. gui \in [at : {"begun", "render", "destroy"},
                 pane : live, batch : Batches \cup {NoBatch}]
    BY <1>14 DEF Snapshot
  <2>3. gui' = [at |-> "render", pane |-> gui.pane, batch |-> shown[gui.pane]]
    BY <1>14, <2>2 DEF Snapshot
  <2>4. gui.pane \in live /\ shown[gui.pane] \in Batches \cup {NoBatch}
    BY <2>2
  <2>5. gui' \in [at : {"begun", "render", "destroy"},
                  pane : live', batch : Batches \cup {NoBatch}]
    BY ONLY <1>14, <2>3, <2>4 DEF Snapshot, panes
  <2> QED
    BY <1>14, <2>5 DEF Snapshot
<1>15. CASE Render
  <2>1. gui.pane \in Panes
    BY <1>15 DEF Render
  <2>2. gui.batch \in Batches \cup {NoBatch} /\ gui.batch.draw \in 0..MaxDraws
    BY <1>15 DEF Render
  <2>3. screen' \in [Panes -> 0..MaxDraws]
    BY <1>15, <2>1, <2>2 DEF Render
  <2>4. /\ reply' \in [1..MaxRequests -> 0..1] /\ slots' \subseteq 1..asked'
        /\ \A r \in 1..MaxRequests : reply'[r] = 0 \/ r \in (1..asked') \ slots'
    <3>1. CASE gui.batch.ask \in slots
      <4>1. reply' = [reply EXCEPT ![gui.batch.ask] = @ + 1]
        BY <1>15, <3>1 DEF Render
      <4>2. gui.batch.ask \in 1..MaxRequests /\ reply[gui.batch.ask] = 0
        BY <3>1
      <4>3. slots' = slots \ {gui.batch.ask} /\ asked' = asked
        BY <1>15 DEF Render
      <4>4. reply \in [1..MaxRequests -> 0..1] /\ slots \subseteq 1..asked
        OBVIOUS
      <4>5. reply' \in [1..MaxRequests -> 0..1] /\ slots' \subseteq 1..asked'
        <5>1. reply' = [reply EXCEPT ![gui.batch.ask] = 1]
          BY ONLY <4>1, <4>2, <4>4
        <5>2. slots' \subseteq 1..asked'
          BY ONLY <4>3, <4>4
        <5> QED
          BY ONLY <4>2, <4>4, <5>1, <5>2
      <4>6. \A r \in 1..MaxRequests :
              reply'[r] = IF r = gui.batch.ask THEN 1 ELSE reply[r]
        BY ONLY <4>1, <4>2, <4>4
      <4>7. gui.batch.ask \in 1..asked /\ gui.batch.ask \notin slots'
        BY <3>1, <4>3
      <4>8. \A r \in 1..MaxRequests : reply[r] = 0 \/ r \in (1..asked) \ slots
        OBVIOUS
      <4> QED
        BY ONLY <4>3, <4>5, <4>6, <4>7, <4>8
    <3>2. CASE gui.batch.ask \notin slots
      BY <1>15, <3>2 DEF Render
    <3> QED
      BY <3>1, <3>2
  <2> QED
    BY <1>15, <2>3, <2>4 DEF Render
<1>16. CASE Unregister
  BY <1>16 DEF Unregister
<1>17. ASSUME NEW p \in Panes, Minimise(p) PROVE TypeOK'
  BY <1>17 DEF Minimise
<1>18. ASSUME NEW p \in Panes, Restore(p) PROVE TypeOK'
  BY <1>18 DEF Restore
<1>19. ASSUME NEW p \in Panes, Forget(p) PROVE TypeOK'
  BY <1>19 DEF Forget
<1>20. CASE PaintFails
  BY <1>20 DEF PaintFails
<1>21. CASE RenderFails
  <2>1. gui.pane \in Panes
    BY <1>21 DEF RenderFails
  <2>2. gui.batch \in Batches \cup {NoBatch} /\ gui.batch.draw \in 0..MaxDraws
    BY <1>21 DEF RenderFails
  <2>3. screen' \in [Panes -> 0..MaxDraws]
    BY <1>21, <2>1, <2>2 DEF RenderFails
  <2>4. /\ reply' \in [1..MaxRequests -> 0..1] /\ slots' \subseteq 1..asked'
        /\ \A r \in 1..MaxRequests : reply'[r] = 0 \/ r \in (1..asked') \ slots'
    <3>1. CASE gui.batch.ask \in slots
      <4>1. reply' = [reply EXCEPT ![gui.batch.ask] = @ + 1]
        BY <1>21, <3>1 DEF RenderFails
      <4>2. gui.batch.ask \in 1..MaxRequests /\ reply[gui.batch.ask] = 0
        BY <3>1
      <4>3. slots' = slots \ {gui.batch.ask} /\ asked' = asked
        BY <1>21 DEF RenderFails
      <4>4. reply \in [1..MaxRequests -> 0..1] /\ slots \subseteq 1..asked
        OBVIOUS
      <4>5. reply' \in [1..MaxRequests -> 0..1] /\ slots' \subseteq 1..asked'
        <5>1. reply' = [reply EXCEPT ![gui.batch.ask] = 1]
          BY ONLY <4>1, <4>2, <4>4
        <5>2. slots' \subseteq 1..asked'
          BY ONLY <4>3, <4>4
        <5> QED
          BY ONLY <4>2, <4>4, <5>1, <5>2
      <4>6. \A r \in 1..MaxRequests :
              reply'[r] = IF r = gui.batch.ask THEN 1 ELSE reply[r]
        BY ONLY <4>1, <4>2, <4>4
      <4>7. gui.batch.ask \in 1..asked /\ gui.batch.ask \notin slots'
        BY <3>1, <4>3
      <4>8. \A r \in 1..MaxRequests : reply[r] = 0 \/ r \in (1..asked) \ slots
        OBVIOUS
      <4> QED
        BY ONLY <4>3, <4>5, <4>6, <4>7, <4>8
    <3>2. CASE gui.batch.ask \notin slots
      BY <1>21, <3>2 DEF RenderFails
    <3> QED
      BY <3>1, <3>2
  <2> QED
    BY <1>21, <2>3, <2>4 DEF RenderFails
<1>22. CASE UNCHANGED vars
  BY <1>22 DEF vars
<1> QED
  BY ONLY <1>1, <1>2, <1>3, <1>4, <1>5, <1>6, <1>7, <1>8, <1>9, <1>10, <1>11, <1>12, <1>13, <1>14, <1>15, <1>16, <1>17, <1>18, <1>19, <1>20, <1>21, <1>22, [Next]_vars DEF Next, MeasureGoesOn, Gui


\* A query keeps what it has put aside.
LEMMA QueryKept ==
  ASSUME TypeOK, QueryInv, [Next]_vars
  PROVE  QueryInv'
<1> USE SurfaceAssumption DEF TypeOK, QueryInv, Queries, Batches, NoBatch, NoQuery,
             surface, panes, painting, replies, races, ghosts, threads, Idle,
             Finish, Asking,
             Insert, Invalidate, RestoreCurrent, Measuring
<1>1. ASSUME NEW t \in Threads, NEW p \in Panes, BeginBatch(t, p) PROVE QueryInv'
  BY <1>1 DEF BeginBatch
<1>2. ASSUME NEW t \in Threads, SubmitBatch(t) PROVE QueryInv'
  BY <1>2 DEF SubmitBatch
<1>3. ASSUME NEW t \in Threads, SubmittedBatch(t) PROVE QueryInv'
  BY <1>3 DEF SubmittedBatch
<1>4. ASSUME NEW t \in Threads, NEW p \in Panes, Measure(t, p) PROVE QueryInv'
  <2>1. asked' \in 1..MaxRequests /\ query[t] = NoQuery
    BY <1>4 DEF Measure
  <2>2. [pane |-> p, id |-> asked', inProgress |-> current[t], displayed |-> shown[p]]
          \in Queries
    BY <2>1
  <2>3. query' = [query EXCEPT ![t] =
          [pane |-> p, id |-> asked', inProgress |-> current[t], displayed |-> shown[p]]]
    BY <1>4 DEF Measure
  <2>4. query' \in [Threads -> Queries \cup {NoQuery}]
    BY <2>2, <2>3
  <2>5. /\ query'[t].inProgress.ask = 0 /\ query'[t].pane \in Panes
        /\ \A u \in Threads \ {t} : query'[u] = query[u]
    BY <2>3
  <2>6. \A u \in Threads \ {t} : pc'[u] = pc[u]
    BY <1>4 DEF Measure
  <2> QED
    BY <2>4, <2>5, <2>6, ZenonT(40)
<1>5. ASSUME NEW t \in Threads, SubmitQuery(t) PROVE QueryInv'
  BY <1>5 DEF SubmitQuery
<1>6. ASSUME NEW t \in Threads, NoPane(t) PROVE QueryInv'
  BY <1>6 DEF NoPane
<1>7. ASSUME NEW t \in Threads, SubmittedQuery(t) PROVE QueryInv'
  BY <1>7 DEF SubmittedQuery
<1>8. ASSUME NEW t \in Threads, GotReply(t) PROVE QueryInv'
  BY <1>8 DEF GotReply
<1>9. ASSUME NEW t \in Threads, TimeOut(t) PROVE QueryInv'
  BY <1>9 DEF TimeOut
<1>10. ASSUME NEW t \in Threads, Redisplay(t) PROVE QueryInv'
  BY <1>10 DEF Redisplay
<1>11. ASSUME NEW t \in Threads, Measured(t) PROVE QueryInv'
  BY <1>11 DEF Measured
<1>12. ASSUME NEW p \in Panes, BeginPaint(p) PROVE QueryInv'
  BY <1>12 DEF BeginPaint
<1>13. CASE PaintNothing
  BY <1>13 DEF PaintNothing
<1>14. CASE Snapshot
  BY <1>14 DEF Snapshot
<1>15. CASE Render
  BY <1>15 DEF Render
<1>16. CASE Unregister
  BY <1>16 DEF Unregister
<1>17. ASSUME NEW p \in Panes, Minimise(p) PROVE QueryInv'
  BY <1>17 DEF Minimise
<1>18. ASSUME NEW p \in Panes, Restore(p) PROVE QueryInv'
  BY <1>18 DEF Restore
<1>19. ASSUME NEW p \in Panes, Forget(p) PROVE QueryInv'
  BY <1>19 DEF Forget
<1>20. CASE PaintFails
  BY <1>20 DEF PaintFails
<1>21. CASE RenderFails
  BY <1>21 DEF RenderFails
<1>22. CASE UNCHANGED vars
  BY <1>22 DEF vars
<1> QED
  BY ONLY <1>1, <1>2, <1>3, <1>4, <1>5, <1>6, <1>7, <1>8, <1>9, <1>10, <1>11, <1>12, <1>13, <1>14, <1>15, <1>16, <1>17, <1>18, <1>19, <1>20, <1>21, <1>22, [Next]_vars DEF Next, MeasureGoesOn, Gui


\* No step loses the drawing of a thread.
LEMMA DrawingStays ==
  ASSUME TypeOK, QueryInv, KeptInv, [Next]_vars
  PROVE  KeptInv'
<1> USE SurfaceAssumption DEF TypeOK, QueryInv, KeptInv, Queries, Batches, NoBatch, NoQuery,
             surface, panes, painting, replies, races, ghosts, threads, Idle,
             Finish, Asking,
             Insert, Invalidate, RestoreCurrent, Measuring
<1>1. ASSUME NEW t \in Threads, NEW p \in Panes, BeginBatch(t, p) PROVE KeptInv'
  BY <1>1 DEF BeginBatch
<1>2. ASSUME NEW t \in Threads, SubmitBatch(t) PROVE KeptInv'
  BY <1>2 DEF SubmitBatch
<1>3. ASSUME NEW t \in Threads, SubmittedBatch(t) PROVE KeptInv'
  BY <1>3 DEF SubmittedBatch
<1>4. ASSUME NEW t \in Threads, NEW p \in Panes, Measure(t, p) PROVE KeptInv'
  BY <1>4 DEF Measure
<1>5. ASSUME NEW t \in Threads, SubmitQuery(t) PROVE KeptInv'
  BY <1>5 DEF SubmitQuery
<1>6. ASSUME NEW t \in Threads, NoPane(t) PROVE KeptInv'
  BY <1>6 DEF NoPane
<1>7. ASSUME NEW t \in Threads, SubmittedQuery(t) PROVE KeptInv'
  BY <1>7 DEF SubmittedQuery
<1>8. ASSUME NEW t \in Threads, GotReply(t) PROVE KeptInv'
  BY <1>8 DEF GotReply
<1>9. ASSUME NEW t \in Threads, TimeOut(t) PROVE KeptInv'
  BY <1>9 DEF TimeOut
<1>10. ASSUME NEW t \in Threads, Redisplay(t) PROVE KeptInv'
  BY <1>10 DEF Redisplay
<1>11. ASSUME NEW t \in Threads, Measured(t) PROVE KeptInv'
  BY <1>11 DEF Measured
<1>12. ASSUME NEW p \in Panes, BeginPaint(p) PROVE KeptInv'
  BY <1>12 DEF BeginPaint
<1>13. CASE PaintNothing
  BY <1>13 DEF PaintNothing
<1>14. CASE Snapshot
  BY <1>14 DEF Snapshot
<1>15. CASE Render
  BY <1>15 DEF Render
<1>16. CASE Unregister
  BY <1>16 DEF Unregister
<1>17. ASSUME NEW p \in Panes, Minimise(p) PROVE KeptInv'
  BY <1>17 DEF Minimise
<1>18. ASSUME NEW p \in Panes, Restore(p) PROVE KeptInv'
  BY <1>18 DEF Restore
<1>19. ASSUME NEW p \in Panes, Forget(p) PROVE KeptInv'
  BY <1>19 DEF Forget
<1>20. CASE PaintFails
  BY <1>20 DEF PaintFails
<1>21. CASE RenderFails
  BY <1>21 DEF RenderFails
<1>22. CASE UNCHANGED vars
  BY <1>22 DEF vars
<1> QED
  BY ONLY <1>1, <1>2, <1>3, <1>4, <1>5, <1>6, <1>7, <1>8, <1>9, <1>10, <1>11, <1>12, <1>13, <1>14, <1>15, <1>16, <1>17, <1>18, <1>19, <1>20, <1>21, <1>22, [Next]_vars DEF Next, MeasureGoesOn, Gui


\* Before the first step nothing is drawn, asked or put aside.
LEMMA DrawingAtFirst == Init => DInv
<1> SUFFICES ASSUME Init PROVE DInv
  OBVIOUS
<1> USE SurfaceAssumption DEF Init, NoBatch, NoQuery, Batches, Idle
<1>1. TypeOK
  BY DEF TypeOK
<1>2. QueryInv /\ KeptInv
  BY DEF QueryInv, KeptInv, Measuring, Queries
<1> QED
  BY <1>1, <1>2 DEF DInv

\* Types and the drawings that are kept, together.
LEMMA DrawingInvariant == Spec => []DInv
<1>1. DInv /\ [Next]_vars => DInv'
  BY TypeKept, QueryKept, DrawingStays DEF DInv
<1> QED
  BY <1>1, DrawingAtFirst, PTL DEF Spec

\* TypeOK holds for every value of the constants.
THEOREM SurfaceTypes == Spec => []TypeOK
<1>1. DInv => TypeOK
  BY DEF DInv
<1> QED
  BY <1>1, DrawingInvariant, PTL

\* DrawingKept: measure-text never loses work in progress.
THEOREM Kept == Spec => []DrawingKept
<1>1. DInv => DrawingKept
  BY DEF DInv, KeptInv, DrawingKept
<1> QED
  BY <1>1, DrawingInvariant, PTL

-----------------------------------------------------------------------------
(* What a pane shows.                                                      *)

Standing(p) == p \in live /\ ~(gui.at = "destroy" /\ gui.pane = p)

\* The slot of p is taken by the query of t.
Away(t, p) == pc[t] \in {"asked", "wait", "restore"} /\ query[t].pane = p

\* The slot of p has been filled by t, which is about to ask for a repaint.
Owes(t, p) ==
  \/ pc[t] = "drawn" /\ current[t].pane = p
  \/ pc[t] = "asked" /\ query[t].pane = p
  \/ pc[t] = "restored" /\ query[t].pane = p /\ query[t].displayed # NoBatch

\* A thread draws on and asks panes it paints, and a slot holds, and a query
\* puts aside, batches for its own pane.
PainterInv ==
  /\ \A p \in Panes : shown[p] # NoBatch => shown[p].pane = p
  /\ \A t \in Threads :
       Measuring(t) /\ query[t].displayed # NoBatch =>
         query[t].displayed.pane = query[t].pane
  /\ \A t \in Threads :
       /\ current[t] # NoBatch => t \in Painters[current[t].pane]
       /\ query[t].inProgress # NoBatch => t \in Painters[query[t].inProgress.pane]
       /\ Measuring(t) => t \in Painters[query[t].pane]

\* The slot holds the newest drawing, or a query has put it aside, which is
\* then the only one on the pane.
SlotOf(p) ==
  /\ p \notin overwritten /\ (\A t \in Threads : ~Away(t, p)) => shown[p].draw = newest[p]
  /\ \A t \in Asking(p) \ raced :
       /\ Asking(p) = {t}
       /\ p \notin overwritten => query[t].displayed.draw = newest[p]
       /\ Away(t, p) => shown[p].draw = 0

SlotInv == \A p \in Panes : Standing(p) => SlotOf(p)

\* A pane that is not about to be painted again, and whose last paint did not
\* fail, shows, or is being painted with, what its slot holds.
ScreenInv ==
  \A p \in Panes : Standing(p) /\ p \notin dirty \cup hidden =>
    \/ \E t \in Threads : Owes(t, p)
    \/ /\ gui.pane # p /\ p \notin botched => screen[p] = shown[p].draw
       /\ gui.pane = p /\ gui.at = "render" => gui.batch.draw = shown[p].draw

SInv == DInv /\ PainterInv /\ SlotInv /\ ScreenInv

\* Nobody takes up a drawing on a pane that is not his.
LEMMA PainterKept ==
  ASSUME TypeOK, QueryInv, PainterInv, [Next]_vars
  PROVE  PainterInv'
<1> USE SurfaceAssumption DEF TypeOK, QueryInv, Queries, Batches, NoBatch, NoQuery,
             surface, panes, painting, replies, races, ghosts, threads, Idle,
             Finish, Asking,
             Insert, Invalidate, RestoreCurrent, Measuring, PainterInv
<1>1. ASSUME NEW t \in Threads, NEW p \in Panes, BeginBatch(t, p) PROVE PainterInv'
  BY <1>1 DEF BeginBatch
<1>2. ASSUME NEW t \in Threads, SubmitBatch(t) PROVE PainterInv'
  BY <1>2 DEF SubmitBatch
<1>3. ASSUME NEW t \in Threads, SubmittedBatch(t) PROVE PainterInv'
  BY <1>3 DEF SubmittedBatch
<1>4. ASSUME NEW t \in Threads, NEW p \in Panes, Measure(t, p) PROVE PainterInv'
  BY <1>4 DEF Measure
<1>5. ASSUME NEW t \in Threads, SubmitQuery(t) PROVE PainterInv'
  BY <1>5 DEF SubmitQuery
<1>6. ASSUME NEW t \in Threads, NoPane(t) PROVE PainterInv'
  BY <1>6 DEF NoPane
<1>7. ASSUME NEW t \in Threads, SubmittedQuery(t) PROVE PainterInv'
  BY <1>7 DEF SubmittedQuery
<1>8. ASSUME NEW t \in Threads, GotReply(t) PROVE PainterInv'
  BY <1>8 DEF GotReply
<1>9. ASSUME NEW t \in Threads, TimeOut(t) PROVE PainterInv'
  BY <1>9 DEF TimeOut
<1>10. ASSUME NEW t \in Threads, Redisplay(t) PROVE PainterInv'
  <2>1. query[t].displayed = NoBatch \/ query[t].displayed.pane = query[t].pane
    BY <1>10 DEF Redisplay
  <2>2. \A p \in Panes : shown'[p] # NoBatch => shown'[p].pane = p
    BY <1>10, <2>1 DEF Redisplay
  <2> QED
    BY <1>10, <2>2 DEF Redisplay
<1>11. ASSUME NEW t \in Threads, Measured(t) PROVE PainterInv'
  BY <1>11 DEF Measured
<1>12. ASSUME NEW p \in Panes, BeginPaint(p) PROVE PainterInv'
  BY <1>12 DEF BeginPaint
<1>13. CASE PaintNothing
  BY <1>13 DEF PaintNothing
<1>14. CASE Snapshot
  BY <1>14 DEF Snapshot
<1>15. CASE Render
  BY <1>15 DEF Render
<1>16. CASE Unregister
  BY <1>16 DEF Unregister
<1>17. ASSUME NEW p \in Panes, Minimise(p) PROVE PainterInv'
  BY <1>17 DEF Minimise
<1>18. ASSUME NEW p \in Panes, Restore(p) PROVE PainterInv'
  BY <1>18 DEF Restore
<1>19. ASSUME NEW p \in Panes, Forget(p) PROVE PainterInv'
  BY <1>19 DEF Forget
<1>20. CASE PaintFails
  BY <1>20 DEF PaintFails
<1>21. CASE RenderFails
  BY <1>21 DEF RenderFails
<1>22. CASE UNCHANGED vars
  BY <1>22 DEF vars
<1> QED
  BY ONLY <1>1, <1>2, <1>3, <1>4, <1>5, <1>6, <1>7, <1>8, <1>9, <1>10, <1>11, <1>12, <1>13, <1>14, <1>15, <1>16, <1>17, <1>18, <1>19, <1>20, <1>21, <1>22, [Next]_vars DEF Next, MeasureGoesOn, Gui


\* The slot keeps the newest drawing.
LEMMA SlotKept ==
  ASSUME TypeOK, QueryInv, PainterInv, SlotInv, [Next]_vars
  PROVE  SlotInv'
<1> USE SurfaceAssumption DEF TypeOK, QueryInv, Queries, Batches, NoBatch, NoQuery,
             surface, panes, painting, replies, races, ghosts, threads, Idle,
             Finish, Asking,
             Insert, Invalidate, RestoreCurrent, Measuring,
             PainterInv, SlotInv, SlotOf, Standing, Away
<1>1. ASSUME NEW t \in Threads, NEW p \in Panes, BeginBatch(t, p) PROVE SlotInv'
  BY <1>1 DEF BeginBatch
<1>2. ASSUME NEW t \in Threads, SubmitBatch(t) PROVE SlotInv'
  <2>1. /\ current[t] \in Batches /\ t \in Painters[current[t].pane]
        /\ pc[t] = "run" /\ query[t] = NoQuery
    BY <1>2 DEF SubmitBatch
  <2>2. PICK q \in Panes : q = current[t].pane
    BY <2>1
  <2>3. /\ raced' = raced \cup Asking(q) /\ overwritten' = overwritten \ {q}
        /\ \A p \in Panes : Asking(p)' = Asking(p)
    BY <1>2, <2>2 DEF SubmitBatch
  <2>4. /\ shown'[q].draw = newest'[q]
        /\ \A p \in Panes \ {q} : shown'[p] = shown[p] /\ newest'[p] = newest[p]
    BY <1>2, <2>1, <2>2 DEF SubmitBatch
  <2>5. \A u \in Threads, p \in Panes : Away(u, p)' <=> Away(u, p)
    BY <1>2, <2>1 DEF SubmitBatch
  <2>6. live' = live /\ gui' = gui /\ query' = query
    BY <1>2 DEF SubmitBatch
  <2>7. SUFFICES ASSUME NEW p \in Panes, Standing(p) PROVE SlotOf(p)'
    BY <2>6 DEF SlotInv, SlotOf, Standing
  <2>8. CASE p = q
    BY ONLY <2>3, <2>4, <2>8, <2>7 DEF SlotOf
  <2>9. CASE p # q
    <3>1. SlotOf(p)
      BY <2>7 DEF SlotInv, SlotOf
    <3> QED
      BY ONLY <3>1, <2>7, <2>3, <2>4, <2>5, <2>6, <2>9 DEF SlotOf, Asking
  <2> QED
    BY <2>8, <2>9
<1>3. ASSUME NEW t \in Threads, SubmittedBatch(t) PROVE SlotInv'
  BY <1>3 DEF SubmittedBatch
<1>4. ASSUME NEW t \in Threads, NEW p \in Panes, Measure(t, p) PROVE SlotInv'
  <2>1. pc[t] = "run" /\ query[t] = NoQuery /\ t \notin raced
    BY <1>4 DEF Measure
  <2>2. query'[t].displayed = shown[p] /\ query'[t].pane = p
    BY <1>4 DEF Measure
  <2>3. \A u \in Threads \ {t} : query'[u] = query[u]
    BY <1>4 DEF Measure
  <2>4. \A u \in Threads, q \in Panes : Away(u, q)' <=> Away(u, q)
    BY <1>4, <2>1 DEF Measure
  <2>5. live' = live /\ gui' = gui /\ shown' = shown /\ newest' = newest
        /\ overwritten' = overwritten
    BY <1>4 DEF Measure
  <2>6. raced' = raced \cup IF Asking(p) = {} THEN {} ELSE Asking(p) \cup {t}
    BY <1>4 DEF Measure
  <2>7. Asking(p)' = Asking(p) \cup {t}
        /\ \A q \in Panes \ {p} : Asking(q)' = Asking(q) /\ t \notin Asking(q)
    <3>1. None \notin Panes /\ query[t].pane = None
      BY SurfaceAssumption, <2>1
    <3> QED
      BY ONLY <3>1, <2>2, <2>3 DEF Asking
  <2>8. pc'[t] = "ask"
    BY <1>4 DEF Measure
  <2>9. SUFFICES ASSUME NEW q \in Panes, Standing(q) PROVE SlotOf(q)'
    BY <2>5 DEF SlotInv, SlotOf, Standing
  <2>10. SlotOf(q)
    BY <2>9 DEF SlotInv, SlotOf
  <2>11. ~Away(t, p)'
    BY <2>8 DEF Away
  <2>12. CASE q # p
    BY ONLY <2>10, <2>3, <2>4, <2>5, <2>6, <2>7, <2>9, <2>12 DEF SlotOf, Asking
  <2>13. CASE q = p /\ Asking(p) = {}
    <3>1. \A u \in Threads : ~Away(u, p)
      BY ONLY <2>13 DEF Asking, Away
    <3>2. p \notin overwritten => shown[p].draw = newest[p]
      BY ONLY <2>10, <2>13, <3>1 DEF SlotOf
    <3> QED
      BY ONLY <3>2, <2>2, <2>5, <2>7, <2>11, <2>13 DEF SlotOf
  <2>14. CASE q = p /\ Asking(p) # {}
    BY ONLY <2>10, <2>4, <2>5, <2>6, <2>7, <2>14 DEF SlotOf
  <2> QED
    BY <2>12, <2>13, <2>14
<1>5. ASSUME NEW t \in Threads, SubmitQuery(t) PROVE SlotInv'
  BY <1>5 DEF SubmitQuery
<1>6. ASSUME NEW t \in Threads, NoPane(t) PROVE SlotInv'
  BY <1>6 DEF NoPane
<1>7. ASSUME NEW t \in Threads, SubmittedQuery(t) PROVE SlotInv'
  BY <1>7 DEF SubmittedQuery
<1>8. ASSUME NEW t \in Threads, GotReply(t) PROVE SlotInv'
  BY <1>8 DEF GotReply
<1>9. ASSUME NEW t \in Threads, TimeOut(t) PROVE SlotInv'
  BY <1>9 DEF TimeOut
<1>10. ASSUME NEW t \in Threads, Redisplay(t) PROVE SlotInv'
  <2>1. /\ query[t] \in Queries
        /\ pc[t] = "restore" /\ pc' = [pc EXCEPT ![t] = "restored"]
    <3>1. pc[t] = "restore" /\ pc' = [pc EXCEPT ![t] = "restored"]
      BY ONLY <1>10 DEF Redisplay
    <3>2. query[t] # NoQuery
      BY ONLY <3>1, TypeOK DEF TypeOK
    <3> QED
      BY ONLY <3>1, <3>2, QueryInv DEF QueryInv
  <2>2. PICK p \in Panes : p = query[t].pane
    BY <2>1
  <2>3. /\ live' = live /\ gui' = gui /\ newest' = newest /\ query' = query
        /\ raced' = raced
        /\ overwritten' = overwritten \cup IF t \in raced THEN {p} ELSE {}
    BY <1>10, <2>2 DEF Redisplay
  <2>4. Away(t, p) /\ ~Away(t, p)' /\ t \in Asking(p)
    BY <1>10, <2>1, <2>2 DEF Redisplay
  <2>5. \A u \in Threads, q \in Panes : u # t \/ q # p => (Away(u, q)' <=> Away(u, q))
    <3>1. pc \in [Threads -> {"run", "drawn", "ask", "asked", "wait", "restore", "restored"}]
      OBVIOUS
    <3>2. \A u \in Threads \ {t} : pc'[u] = pc[u]
      BY ONLY <2>1, <3>1
    <3>3. \A q \in Panes \ {p} : query[t].pane # q
      BY ONLY <2>2
    <3> QED
      BY ONLY <2>3, <3>2, <3>3 DEF Away
  <2>6. \/ query[t].displayed = NoBatch /\ shown' = shown
        \/ shown' = [shown EXCEPT ![p] = query[t].displayed]
    BY <1>10, <2>1, <2>2 DEF Redisplay
  <2>7. \A q \in Panes \ {p} : shown'[q] = shown[q]
    BY <2>6
  <2>8. SUFFICES ASSUME NEW q \in Panes, Standing(q) PROVE SlotOf(q)'
    BY <2>3 DEF SlotInv, SlotOf, Standing
  <2>9. SlotOf(q)
    BY <2>8 DEF SlotInv, SlotOf
  <2>10. \A r \in Panes : Asking(r)' = Asking(r)
    BY ONLY <2>3 DEF Asking
  <2>11. CASE q # p
    BY ONLY <2>9, <2>3, <2>5, <2>7, <2>10, <2>11 DEF SlotOf, Asking
  <2>12. CASE q = p /\ t \in raced
    <3>1. Asking(p) \ raced = {}
      BY ONLY <2>4, <2>9, <2>12 DEF SlotOf
    <3> QED
      BY ONLY <3>1, <2>3, <2>10, <2>12 DEF SlotOf
  <2>13. CASE q = p /\ t \notin raced
    <3>1. /\ Asking(p) = {t} /\ shown[p].draw = 0
          /\ p \notin overwritten => query[t].displayed.draw = newest[p]
      BY ONLY <2>4, <2>9, <2>13 DEF SlotOf
    <3>2. shown'[p].draw = query[t].displayed.draw
      <4>1. CASE query[t].displayed = NoBatch /\ shown' = shown
        BY <3>1, <4>1
      <4>2. CASE shown' = [shown EXCEPT ![p] = query[t].displayed]
        <5>1. shown \in [Panes -> Batches \cup {NoBatch}]
          OBVIOUS
        <5> QED
          BY ONLY <4>2, <5>1
      <4> QED
        BY <2>6, <4>1, <4>2
    <3> QED
      BY ONLY <3>1, <3>2, <2>3, <2>4, <2>10, <2>13 DEF SlotOf
  <2> QED
    BY <2>11, <2>12, <2>13
<1>11. ASSUME NEW t \in Threads, Measured(t) PROVE SlotInv'
  <2>1. /\ pc[t] = "restored" /\ pc' = [pc EXCEPT ![t] = "run"]
        /\ query' = [query EXCEPT ![t] = NoQuery] /\ raced' = raced \ {t}
    BY <1>11 DEF Measured
  <2>2. query'[t].pane = None /\ \A u \in Threads \ {t} : query'[u] = query[u]
    BY <2>1
  <2>3. \A u \in Threads, q \in Panes : Away(u, q)' <=> Away(u, q)
    BY <2>1, <2>2
  <2>4. /\ live' = live /\ gui' = gui /\ shown' = shown /\ newest' = newest
        /\ overwritten' = overwritten
    BY <1>11 DEF Measured
  <2>5. \A p \in Panes : Asking(p)' = Asking(p) \ {t}
    BY ONLY SurfaceAssumption, <2>2 DEF Asking
  <2>6. SUFFICES ASSUME NEW p \in Panes, Standing(p) PROVE SlotOf(p)'
    BY <2>4 DEF SlotInv, SlotOf, Standing
  <2>7. SlotOf(p)
    BY <2>6 DEF SlotInv, SlotOf
  <2> QED
    BY ONLY <2>7, <2>1, <2>2, <2>3, <2>4, <2>5 DEF SlotOf, Asking
<1>12. ASSUME NEW p \in Panes, BeginPaint(p) PROVE SlotInv'
  BY <1>12 DEF BeginPaint
<1>13. CASE PaintNothing
  BY <1>13 DEF PaintNothing
<1>14. CASE Snapshot
  BY <1>14 DEF Snapshot
<1>15. CASE Render
  BY <1>15 DEF Render
<1>16. CASE Unregister
  BY <1>16 DEF Unregister
<1>17. ASSUME NEW p \in Panes, Minimise(p) PROVE SlotInv'
  BY <1>17 DEF Minimise
<1>18. ASSUME NEW p \in Panes, Restore(p) PROVE SlotInv'
  BY <1>18 DEF Restore
<1>19. ASSUME NEW p \in Panes, Forget(p) PROVE SlotInv'
  BY <1>19 DEF Forget
<1>20. CASE PaintFails
  BY <1>20 DEF PaintFails
<1>21. CASE RenderFails
  BY <1>21 DEF RenderFails
<1>22. CASE UNCHANGED vars
  BY <1>22 DEF vars
<1> QED
  BY ONLY <1>1, <1>2, <1>3, <1>4, <1>5, <1>6, <1>7, <1>8, <1>9, <1>10, <1>11, <1>12, <1>13, <1>14, <1>15, <1>16, <1>17, <1>18, <1>19, <1>20, <1>21, <1>22, [Next]_vars DEF Next, MeasureGoesOn, Gui


\* The screen keeps up with the slot.
LEMMA ScreenKept ==
  ASSUME TypeOK, QueryInv, PainterInv, ScreenInv, [Next]_vars
  PROVE  ScreenInv'
<1> USE SurfaceAssumption DEF TypeOK, QueryInv, Queries, Batches, NoBatch, NoQuery,
             surface, panes, painting, replies, races, ghosts, threads, Idle,
             Finish, Asking,
             Insert, Invalidate, RestoreCurrent, Measuring,
             ScreenInv, Standing, Owes
<1>1. ASSUME NEW t \in Threads, NEW p \in Panes, BeginBatch(t, p) PROVE ScreenInv'
  BY <1>1 DEF BeginBatch
<1>2. ASSUME NEW t \in Threads, SubmitBatch(t) PROVE ScreenInv'
  BY <1>2, ZenonT(40) DEF SubmitBatch
<1>3. ASSUME NEW t \in Threads, SubmittedBatch(t) PROVE ScreenInv'
  <2>1. pc[t] = "drawn" /\ \A p \in Panes : ~Owes(t, p)'
    BY <1>3 DEF SubmittedBatch
  <2>2. \A u \in Threads \ {t}, p \in Panes : Owes(u, p)' <=> Owes(u, p)
    BY <1>3 DEF SubmittedBatch
  <2>3. \A p \in live : Owes(t, p) => p \in dirty'
    BY <1>3, <2>1 DEF SubmittedBatch
  <2>4. dirty \subseteq dirty'
    BY <1>3 DEF SubmittedBatch
  <2>5. /\ live' = live /\ hidden' = hidden /\ gui' = gui
        /\ shown' = shown /\ screen' = screen /\ botched' = botched
    BY <1>3 DEF SubmittedBatch
  <2> QED
    BY ONLY ScreenInv, <2>1, <2>2, <2>3, <2>4, <2>5 DEF ScreenInv, Standing
<1>4. ASSUME NEW t \in Threads, NEW p \in Panes, Measure(t, p) PROVE ScreenInv'
  BY <1>4 DEF Measure
<1>5. ASSUME NEW t \in Threads, SubmitQuery(t) PROVE ScreenInv'
  BY <1>5, ZenonT(40) DEF SubmitQuery
<1>6. ASSUME NEW t \in Threads, NoPane(t) PROVE ScreenInv'
  <2>1. pc[t] = "asked" /\ \A p \in live : ~Owes(t, p)
    BY <1>6 DEF NoPane
  <2>2. \A u \in Threads \ {t}, p \in Panes : Owes(u, p)' <=> Owes(u, p)
    BY <1>6 DEF NoPane
  <2>3. /\ live' = live /\ hidden' = hidden /\ dirty' = dirty /\ gui' = gui
        /\ shown' = shown /\ screen' = screen /\ botched' = botched
    BY <1>6 DEF NoPane
  <2> QED
    BY ONLY ScreenInv, <2>1, <2>2, <2>3 DEF ScreenInv, Standing
<1>7. ASSUME NEW t \in Threads, SubmittedQuery(t) PROVE ScreenInv'
  BY <1>7 DEF SubmittedQuery
<1>8. ASSUME NEW t \in Threads, GotReply(t) PROVE ScreenInv'
  BY <1>8 DEF GotReply
<1>9. ASSUME NEW t \in Threads, TimeOut(t) PROVE ScreenInv'
  BY <1>9 DEF TimeOut
<1>10. ASSUME NEW t \in Threads, Redisplay(t) PROVE ScreenInv'
  <2>1. query[t] \in Queries /\ pc[t] = "restore" /\ pc' = [pc EXCEPT ![t] = "restored"]
    BY <1>10 DEF Redisplay
  <2>2. PICK p \in Panes : p = query[t].pane
    BY <2>1
  <2>3. \A q \in Panes : ~Owes(t, q)
    BY <2>1
  <2>4. \A u \in Threads \ {t}, q \in Panes : Owes(u, q)' <=> Owes(u, q)
    BY <1>10, <2>1 DEF Redisplay
  <2>5. Owes(t, p)' \/ shown' = shown
    BY <1>10, <2>1, <2>2 DEF Redisplay
  <2>6. query[t].displayed # NoBatch => query[t].displayed.pane = p
    BY <2>1, <2>2 DEF PainterInv
  <2>8. \A q \in Panes \ {p} : shown'[q] = shown[q]
    BY <1>10, <2>6 DEF Redisplay
  <2>7. /\ live' = live /\ hidden' = hidden /\ dirty' = dirty /\ gui' = gui
        /\ screen' = screen /\ botched' = botched
    BY <1>10 DEF Redisplay
  <2> QED
    BY ONLY ScreenInv, <2>3, <2>4, <2>5, <2>7, <2>8 DEF ScreenInv, Standing
<1>11. ASSUME NEW t \in Threads, Measured(t) PROVE ScreenInv'
  <2>1. pc[t] = "restored" /\ query[t] \in Queries /\ pc' = [pc EXCEPT ![t] = "run"]
    BY <1>11 DEF Measured
  <2>2. \A u \in Threads \ {t}, p \in Panes : Owes(u, p)' <=> Owes(u, p)
    BY <1>11 DEF Measured
  <2>3. \A p \in live : Owes(t, p) => p \in dirty'
    BY <1>11, <2>1 DEF Measured
  <2>4. dirty \subseteq dirty'
    BY <1>11 DEF Measured
  <2>5. /\ live' = live /\ hidden' = hidden /\ gui' = gui
        /\ shown' = shown /\ screen' = screen /\ botched' = botched
    BY <1>11 DEF Measured
  <2> QED
    BY ONLY ScreenInv, <2>2, <2>3, <2>4, <2>5 DEF ScreenInv, Standing
<1>12. ASSUME NEW p \in Panes, BeginPaint(p) PROVE ScreenInv'
  BY <1>12 DEF BeginPaint
<1>13. CASE PaintNothing
  BY <1>13 DEF PaintNothing
<1>14. CASE Snapshot
  BY <1>14 DEF Snapshot
<1>15. CASE Render
  BY <1>15 DEF Render
<1>16. CASE Unregister
  BY <1>16 DEF Unregister
<1>17. ASSUME NEW p \in Panes, Minimise(p) PROVE ScreenInv'
  BY <1>17 DEF Minimise
<1>18. ASSUME NEW p \in Panes, Restore(p) PROVE ScreenInv'
  BY <1>18 DEF Restore
<1>19. ASSUME NEW p \in Panes, Forget(p) PROVE ScreenInv'
  BY <1>19 DEF Forget
<1>20. CASE PaintFails
  BY <1>20 DEF PaintFails
<1>21. CASE RenderFails
  BY <1>21 DEF RenderFails
<1>22. CASE UNCHANGED vars
  BY <1>22 DEF vars
<1> QED
  BY ONLY <1>1, <1>2, <1>3, <1>4, <1>5, <1>6, <1>7, <1>8, <1>9, <1>10, <1>11, <1>12, <1>13, <1>14, <1>15, <1>16, <1>17, <1>18, <1>19, <1>20, <1>21, <1>22, [Next]_vars DEF Next, MeasureGoesOn, Gui


\* Before the first step every pane is about to be painted.
LEMMA ScreenAtFirst == Init => SInv
<1> SUFFICES ASSUME Init PROVE SInv
  OBVIOUS
<1> USE SurfaceAssumption DEF Init, NoBatch, NoQuery, Idle
<1>1. PainterInv
  BY DEF PainterInv, Measuring
<1>2. SlotInv
  BY DEF SlotInv, SlotOf, Standing, Away, Asking
<1>3. ScreenInv
  BY DEF ScreenInv
<1> QED
  BY <1>1, <1>2, <1>3, DrawingAtFirst DEF SInv

\* With nobody busy about it, a pane shows the newest drawing.
LEMMA QuietShowsNewest == SInv => NewestShown
<1> SUFFICES ASSUME SInv, NEW p \in Panes, Quiet(p), p \notin botched \cup overwritten
             PROVE  screen[p] = newest[p]
  BY DEF NewestShown
<1>1. Standing(p) /\ p \notin dirty \cup hidden /\ gui.pane # p
  BY DEF Quiet, Standing
<1>2. \A t \in Threads : ~Away(t, p) /\ ~Owes(t, p)
  <2> SUFFICES ASSUME NEW t \in Threads, Away(t, p) \/ Owes(t, p) PROVE FALSE
    OBVIOUS
  <2>1. t \in Painters[p]
    <3>1. CASE Measuring(t)
      BY <3>1 DEF Away, Owes, SInv, PainterInv, Measuring
    <3>2. CASE ~Measuring(t)
      <4>1. pc[t] = "drawn" /\ current[t].pane = p
        BY <3>2 DEF Away, Owes, Measuring
      <4>2. current[t] # NoBatch
        BY <4>1 DEF SInv, DInv, KeptInv
      <4> QED
        BY <4>1, <4>2 DEF SInv, PainterInv
    <3> QED
      BY <3>1, <3>2
  <2>2. pc[t] = "run"
    BY <2>1 DEF Quiet
  <2> QED
    BY <2>2 DEF Away, Owes
<1>3. screen[p] = shown[p].draw
  BY <1>1, <1>2 DEF SInv, ScreenInv
<1>4. shown[p].draw = newest[p]
  BY <1>1, <1>2 DEF SInv, SlotInv, SlotOf
<1> QED
  BY <1>3, <1>4

\* NewestShown: measuring and painting lose no drawing, however many threads
\* share a pane, unless a paint fails or two calls on the pane overlap.
THEOREM Newest == Spec => []NewestShown
<1>1. SInv /\ [Next]_vars => SInv'
  <2> SUFFICES ASSUME SInv, [Next]_vars PROVE SInv'
    OBVIOUS
  <2>1. TypeOK /\ QueryInv /\ KeptInv /\ PainterInv /\ SlotInv /\ ScreenInv
    BY DEF SInv, DInv
  <2>2. TypeOK' /\ QueryInv' /\ KeptInv'
    BY <2>1, TypeKept, QueryKept, DrawingStays
  <2>3. PainterInv' /\ SlotInv' /\ ScreenInv'
    BY <2>1, PainterKept, SlotKept, ScreenKept
  <2> QED
    BY <2>2, <2>3 DEF SInv, DInv
<1> QED
  BY <1>1, ScreenAtFirst, QuietShowsNewest, PTL DEF Spec

=============================================================================
