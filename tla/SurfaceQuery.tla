---------------------------- MODULE SurfaceQuery ----------------------------
(***************************************************************************)
(* Drawing on a pane and asking it for text measures, ncl-runtime/src/igui *)
(* (batch.rs, replies.rs, measure-text of lisp_shims.rs, WM_PAINT and      *)
(* WM_NCDESTROY of child.rs). A Lisp thread builds a batch of its own and  *)
(* puts it in the pane's slot; the GUI thread paints from the slot. A text *)
(* query is a batch too: it takes the slot for as long as the answer       *)
(* takes, and puts back what was there.                                    *)
(*                                                                         *)
(* A region of a mutex is one step, and so is one call into Windows. What  *)
(* a batch draws is its number; the contents are data.                     *)
(***************************************************************************)
EXTENDS Integers, FiniteSets

CONSTANTS
    Threads,        \* Lisp threads
    Panes,          \* render hosts, by child id
    Painters,       \* the threads that draw on a pane and query it
    MaxDraws,       \* bound: batches begun
    MaxRequests     \* bound: request ids

None == "none"

ASSUME SurfaceAssumption ==
    /\ IsFiniteSet(Threads) /\ IsFiniteSet(Panes) /\ None \notin Panes
    /\ Painters \in [Panes -> SUBSET Threads]
    /\ MaxDraws \in Nat /\ MaxRequests \in Nat

VARIABLES
    drawn,      \* batches begun so far
    current,    \* CURRENT: the batch a thread builds, or NoBatch
    shown,      \* PANE_STATES
    live,       \* the panes in the registry
    dirty,      \* panes with an update region: WM_PAINT will come
    hidden,     \* minimised: no client area
    gui,        \* what the GUI thread is at
    screen,     \* ghost: the drawing a pane was last painted with
    asked,      \* request ids handed out
    slots,      \* SLOTS: requests that wait for their reply
    reply,      \* replies in the channel of a request
    pc,
    query,      \* the measure-text under way, with what it has put aside
    opened,     \* ghost: the drawing a thread has begun and not submitted
    newest,     \* ghost: the drawing last submitted for a pane
    botched,    \* ghost: panes whose last paint failed
    raced,      \* ghost: queries that have shared their pane with another thread
    overwritten \* ghost: panes where such a query has put back what it found

surface == <<shown, dirty>>
panes == <<live, hidden>>
painting == <<gui, screen, botched>>
replies == <<asked, slots, reply>>
races == <<raced, overwritten>>
ghosts == <<opened, newest, races>>
vars == <<drawn, current, shown, live, dirty, hidden, gui, screen,
          asked, slots, reply, pc, query, opened, newest, botched, raced, overwritten>>

NoBatch == [pane |-> None, draw |-> 0, ask |-> 0]
Batches == [pane : Panes, draw : 0..MaxDraws, ask : 0..MaxRequests]
NoQuery == [pane |-> None, id |-> 0, inProgress |-> NoBatch, displayed |-> NoBatch]
Idle == [at |-> "messages", pane |-> None, batch |-> NoBatch]

TypeOK ==
    /\ drawn \in 0..MaxDraws
    /\ current \in [Threads -> Batches \cup {NoBatch}]
    /\ \A t \in Threads : current[t].ask = 0
    /\ shown \in [Panes -> Batches \cup {NoBatch}]
    /\ live \subseteq Panes /\ dirty \subseteq live /\ hidden \subseteq live
    /\ gui = Idle \/ gui \in [at : {"begun", "render", "destroy"},
                              pane : live, batch : Batches \cup {NoBatch}]
    /\ screen \in [Panes -> 0..MaxDraws]
    /\ asked \in 0..MaxRequests /\ slots \subseteq 1..asked
    /\ reply \in [1..MaxRequests -> 0..1]
    /\ \A r \in 1..MaxRequests : reply[r] = 0 \/ r \in (1..asked) \ slots
    /\ pc \in [Threads -> {"run", "drawn", "ask", "asked", "wait", "restore", "restored"}]
    /\ \A t \in Threads : query[t] = NoQuery <=> pc[t] \in {"run", "drawn"}
    /\ opened \in [Threads -> 0..MaxDraws]
    /\ newest \in [Panes -> 0..MaxDraws]
    /\ botched \subseteq Panes /\ overwritten \subseteq Panes
    /\ raced \subseteq {t \in Threads : query[t] # NoQuery}

Init ==
    /\ drawn = 0
    /\ current = [t \in Threads |-> NoBatch]
    /\ shown = [p \in Panes |-> NoBatch]
    /\ live = Panes /\ dirty = Panes /\ hidden = {}
    /\ gui = Idle
    /\ screen = [p \in Panes |-> 0]
    /\ asked = 0 /\ slots = {}
    /\ reply = [r \in 1..MaxRequests |-> 0]
    /\ pc = [t \in Threads |-> "run"]
    /\ query = [t \in Threads |-> NoQuery]
    /\ opened = [t \in Threads |-> 0]
    /\ newest = [p \in Panes |-> 0]
    /\ botched = {} /\ raced = {} /\ overwritten = {}

-----------------------------------------------------------------------------
(* batch::submit, in two steps: the slot, then the repaint.                *)

Insert(b) == shown' = [shown EXCEPT ![b.pane] = b]

(* Mutant: a pane that is just being painted is not invalidated again.     *)
InvalidateUnlessPainting(p) ==
    dirty' = IF p \in live /\ gui.pane # p THEN dirty \cup {p} ELSE dirty

Invalidate(p) == dirty' = IF p \in live THEN dirty \cup {p} ELSE dirty

-----------------------------------------------------------------------------
(* Drawing: with-batch is %begin-batch, commands, %submit-batch.           *)

(* The queries under way on a pane.                                        *)
Asking(p) == {t \in Threads : query[t].pane = p}

BeginBatch(t, p) ==
    /\ pc[t] = "run" /\ t \in Painters[p]
    /\ drawn < MaxDraws
    /\ drawn' = drawn + 1
    /\ current' = [current EXCEPT ![t] = [pane |-> p, draw |-> drawn', ask |-> 0]]
    /\ opened' = [opened EXCEPT ![t] = drawn']
    /\ UNCHANGED <<surface, panes, painting, replies, pc, query, newest, races>>

SubmitBatch(t) ==
    /\ pc[t] = "run" /\ current[t] # NoBatch
    /\ Insert(current[t])
    /\ newest' = [newest EXCEPT ![current[t].pane] = current[t].draw]
    /\ opened' = [opened EXCEPT ![t] = 0]
    /\ raced' = raced \cup Asking(current[t].pane)
    /\ overwritten' = overwritten \ {current[t].pane}
    /\ query' = query
    /\ pc' = [pc EXCEPT ![t] = "drawn"]
    /\ UNCHANGED <<drawn, current, dirty, panes, painting, replies>>

(* finish() took the batch out of CURRENT before it was submitted; nobody  *)
(* else reads it, and it says here which pane to invalidate.               *)
SubmittedBatch(t) ==
    /\ pc[t] = "drawn"
    /\ Invalidate(current[t].pane)
    /\ current' = [current EXCEPT ![t] = NoBatch]
    /\ pc' = [pc EXCEPT ![t] = "run"]
    /\ UNCHANGED <<drawn, shown, panes, painting, replies, query, ghosts>>

-----------------------------------------------------------------------------
(* measure-text.                                                           *)

(* Put aside the batch in progress and the one displayed, and install a    *)
(* slot for the reply.                                                     *)
Measure(t, p) ==
    /\ pc[t] = "run" /\ t \in Painters[p]
    /\ asked < MaxRequests
    /\ asked' = asked + 1
    /\ slots' = slots \cup {asked'}
    /\ query' = [query EXCEPT ![t] =
          [pane |-> p, id |-> asked', inProgress |-> current[t], displayed |-> shown[p]]]
    /\ current' = [current EXCEPT ![t] = NoBatch]
    /\ raced' = raced \cup IF Asking(p) = {} THEN {} ELSE Asking(p) \cup {t}
    /\ pc' = [pc EXCEPT ![t] = "ask"]
    /\ UNCHANGED <<drawn, surface, panes, painting, reply, opened, newest, overwritten>>

SubmitQuery(t) ==
    /\ pc[t] = "ask"
    /\ Insert([pane |-> query[t].pane, draw |-> 0, ask |-> query[t].id])
    /\ pc' = [pc EXCEPT ![t] = "asked"]
    /\ UNCHANGED <<drawn, current, dirty, panes, painting, replies, query, ghosts>>

(* restore_current.                                                        *)
RestoreCurrent(t) == current' = [current EXCEPT ![t] = query[t].inProgress]

(* The call returns.                                                       *)
Finish(t) ==
    /\ pc' = [pc EXCEPT ![t] = "run"]
    /\ query' = [query EXCEPT ![t] = NoQuery]
    /\ raced' = raced \ {t}
    /\ UNCHANGED <<opened, newest, overwritten>>

(* Mutant: the early return restores nothing.                              *)
NoPaneForgetting(t) ==
    /\ pc[t] = "asked" /\ query[t].pane \notin live
    /\ Finish(t)
    /\ UNCHANGED <<drawn, current, surface, panes, painting, replies>>

(* submit answers false: NIL at once. The slot of the request stays.       *)
NoPane(t) ==
    /\ pc[t] = "asked" /\ query[t].pane \notin live
    /\ RestoreCurrent(t)
    /\ Finish(t)
    /\ UNCHANGED <<drawn, surface, panes, painting, replies>>

SubmittedQuery(t) ==
    /\ pc[t] = "asked" /\ query[t].pane \in live
    /\ Invalidate(query[t].pane)
    /\ pc' = [pc EXCEPT ![t] = "wait"]
    /\ UNCHANGED <<drawn, current, shown, panes, painting, replies, query, ghosts>>

Answered(t) == reply[query[t].id] > 0

(* replies::wait, with a reply or after five seconds without one.          *)
GotReply(t) ==
    /\ pc[t] = "wait" /\ Answered(t)
    /\ pc' = [pc EXCEPT ![t] = "restore"]
    /\ UNCHANGED <<drawn, current, surface, panes, painting, replies, query, ghosts>>

TimeOut(t) ==
    /\ pc[t] = "wait" /\ ~Answered(t)
    /\ pc' = [pc EXCEPT ![t] = "restore"]
    /\ UNCHANGED <<drawn, current, surface, panes, painting, replies, query, ghosts>>

(* The displayed batch is submitted again, if there was one ...            *)
Redisplay(t) ==
    /\ pc[t] = "restore"
    /\ IF query[t].displayed = NoBatch THEN UNCHANGED shown ELSE Insert(query[t].displayed)
    /\ overwritten' = overwritten \cup IF t \in raced THEN {query[t].pane} ELSE {}
    /\ pc' = [pc EXCEPT ![t] = "restored"]
    /\ UNCHANGED <<drawn, current, dirty, panes, painting, replies, query, opened, newest, raced>>

(* ... and the batch in progress is taken up again.                        *)
Measured(t) ==
    /\ pc[t] = "restored"
    /\ IF query[t].displayed = NoBatch THEN UNCHANGED dirty ELSE Invalidate(query[t].pane)
    /\ RestoreCurrent(t)
    /\ Finish(t)
    /\ UNCHANGED <<drawn, shown, panes, painting, replies>>

-----------------------------------------------------------------------------
(* The GUI thread.                                                         *)

threads == <<drawn, current, pc, query, ghosts>>

(* WM_PAINT: BeginPaint validates the update region ...                    *)
BeginPaint(p) ==
    /\ gui = Idle /\ p \in dirty
    /\ dirty' = dirty \ {p}
    /\ gui' = [at |-> "begun", pane |-> p, batch |-> NoBatch]
    /\ UNCHANGED <<shown, panes, screen, botched, replies, threads>>

(* ... without a client area render() has nothing to do ...                *)
PaintNothing ==
    /\ gui.at = "begun" /\ gui.pane \in hidden
    /\ gui' = Idle
    /\ UNCHANGED <<surface, panes, screen, botched, replies, threads>>

(* ... GetClientRect or ensure_render_target may fail, which is logged ... *)
PaintFails ==
    /\ gui.at = "begun"
    /\ botched' = botched \cup {gui.pane}
    /\ gui' = Idle
    /\ UNCHANGED <<surface, panes, screen, replies, threads>>

(* ... or render() takes a snapshot of the pane's slot ...                 *)
Snapshot ==
    /\ gui.at = "begun" /\ gui.pane \notin hidden
    /\ gui' = [gui EXCEPT !.at = "render", !.batch = shown[gui.pane]]
    /\ UNCHANGED <<surface, panes, screen, botched, replies, threads>>

(* Mutant: the slot stays, for a query that is painted again.              *)
DeliverKeepingSlot(r) ==
    /\ reply' = IF r \in slots THEN [reply EXCEPT ![r] = @ + 1] ELSE reply
    /\ UNCHANGED slots

(* deliver, from the query or from the GDI fall-back after it.             *)
Deliver(r) ==
    /\ reply' = IF r \in slots THEN [reply EXCEPT ![r] = @ + 1] ELSE reply
    /\ slots' = slots \ {r}

(* Mutant: the update region is validated after the painting.              *)
RenderThenValidate ==
    /\ gui.at = "render"
    /\ screen' = [screen EXCEPT ![gui.pane] = gui.batch.draw]
    /\ botched' = botched \ {gui.pane}
    /\ Deliver(gui.batch.ask)
    /\ dirty' = dirty \ {gui.pane}
    /\ gui' = Idle
    /\ UNCHANGED <<shown, panes, asked, threads>>

(* ... and carries it out.                                                 *)
Render ==
    /\ gui.at = "render"
    /\ screen' = [screen EXCEPT ![gui.pane] = gui.batch.draw]
    /\ botched' = botched \ {gui.pane}
    /\ Deliver(gui.batch.ask)
    /\ gui' = Idle
    /\ UNCHANGED <<surface, panes, asked, threads>>

(* Or Direct2D fails and GDI, which skips most primitives and may fail     *)
(* too, leaves part of the drawing. It answers a query: with a failure.    *)
RenderFails ==
    /\ gui.at = "render"
    /\ screen' = [screen EXCEPT ![gui.pane] = 0]
    /\ botched' = botched \cup {gui.pane}
    /\ Deliver(gui.batch.ask)
    /\ gui' = Idle
    /\ UNCHANGED <<surface, panes, asked, threads>>

(* The user minimises the window and brings it back, which repaints it.    *)
Minimise(p) ==
    /\ gui = Idle /\ p \in live \ hidden
    /\ hidden' = hidden \cup {p}
    /\ UNCHANGED <<surface, live, painting, replies, threads>>

Restore(p) ==
    /\ gui = Idle /\ p \in hidden
    /\ hidden' = hidden \ {p}
    /\ dirty' = dirty \cup {p}
    /\ UNCHANGED <<shown, live, painting, replies, threads>>

(* WM_NCDESTROY: forget, then unregister.                                  *)
Forget(p) ==
    /\ gui = Idle /\ p \in live
    /\ shown' = [shown EXCEPT ![p] = NoBatch]
    /\ gui' = [at |-> "destroy", pane |-> p, batch |-> NoBatch]
    /\ UNCHANGED <<dirty, panes, screen, botched, replies, threads>>

Unregister ==
    /\ gui.at = "destroy"
    /\ live' = live \ {gui.pane} /\ hidden' = hidden \ {gui.pane}
    /\ dirty' = dirty \ {gui.pane}
    /\ gui' = Idle
    /\ UNCHANGED <<shown, screen, botched, replies, threads>>

-----------------------------------------------------------------------------
MeasureGoesOn(t) ==
    \/ SubmitQuery(t) \/ NoPane(t) \/ SubmittedQuery(t)
    \/ GotReply(t) \/ Redisplay(t) \/ Measured(t)

Gui ==
    \/ \E p \in Panes : BeginPaint(p)
    \/ PaintNothing \/ PaintFails \/ Snapshot \/ Render \/ RenderFails \/ Unregister

Next ==
    \/ \E t \in Threads :
         \/ \E p \in Panes : BeginBatch(t, p) \/ Measure(t, p)
         \/ SubmitBatch(t) \/ SubmittedBatch(t)
         \/ MeasureGoesOn(t) \/ TimeOut(t)
    \/ Gui
    \/ \E p \in Panes : Minimise(p) \/ Restore(p) \/ Forget(p)

Spec == Init /\ [][Next]_vars

(* The message loop runs, and Windows sends WM_PAINT to every pane with an *)
(* update region in turn; a call goes on, but nothing is assumed of its    *)
(* time-out.                                                               *)
FairSpec ==
    /\ Spec
    /\ WF_vars(PaintNothing \/ PaintFails \/ Snapshot \/ Render \/ RenderFails \/ Unregister)
    /\ \A p \in Panes : SF_vars(BeginPaint(p))
    /\ \A t \in Threads : WF_vars(MeasureGoesOn(t)) /\ WF_vars(SubmittedBatch(t))

-----------------------------------------------------------------------------
(* Properties.                                                             *)

(* Nothing is going on about a pane.                                       *)
Quiet(p) ==
    /\ p \in live \ (dirty \cup hidden)
    /\ gui.pane # p
    /\ \A t \in Painters[p] : pc[t] = "run"

(* A pane that nobody is busy with shows the drawing last submitted,       *)
(* whatever was measured, timed out, minimised or painted in between.      *)
(* Two things are excused: the last paint of the pane failed, which        *)
(* WM_PAINT only logs, or a query whose call overlapped with another       *)
(* thread's query or drawing on the same pane has put back what it had     *)
(* found, and nothing has been drawn since.                                *)
NewestShown ==
    \A p \in Panes : Quiet(p) /\ p \notin botched \cup overwritten => screen[p] = newest[p]

(* "Newer sequence wins", without the second excuse: true of panes with    *)
(* one painter only.                                                       *)
NewerWins == \A p \in Panes : Quiet(p) /\ p \notin botched => screen[p] = newest[p]

(* measure-text inside with-batch does not clobber the work in progress,   *)
(* however the call ends and whichever pane it asks.                       *)
DrawingKept == \A t \in Threads : pc[t] = "run" => current[t].draw = opened[t]

(* The five-second guard is for panes that are closed or minimised, for a  *)
(* paint that failed without reaching the query, and for a query that      *)
(* another thread's batch has pushed out of the slot: any other query gets *)
(* its answer from the painting.                                           *)
Waits(t) == pc[t] = "wait" /\ query[t].pane \in live \ hidden

PaintFailed(t) == query[t].pane \in botched \ dirty

PushedOut(t) ==
    /\ shown[query[t].pane].ask # query[t].id
    /\ ~(gui.at = "render" /\ gui.batch.ask = query[t].id)

VisiblePaneAnswers ==
    \A t \in Threads : Waits(t) ~> ~Waits(t) \/ PaintFailed(t) \/ PushedOut(t)
=============================================================================
