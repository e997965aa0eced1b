---------------------------- MODULE NonLocalExit ----------------------------
(***************************************************************************)
(* Non-local exits of one Lisp thread, ncl-runtime/src/abi.rs. Compiled    *)
(* code cannot be unwound, so an exit is a set of thread-local registers:  *)
(* abort (ABORT_PENDING) makes every caller return at its next check       *)
(* (emit_post_call_abort_check), and each construct, a native function     *)
(* that calls the thunk of its body, looks at the registers when the thunk *)
(* returns and decides whether the exit was meant for it.                  *)
(*                                                                         *)
(* A frame is one call of such a native function with its local variables; *)
(* the entries of BLOCK_STACK and CATCH_STACK are in the frames of the     *)
(* calls that push and pop them. The program is arbitrary: where no check  *)
(* fires it may enter a construct, return from the innermost thunk or      *)
(* start an exit. A thunk checks abort after its calls only, so up to its  *)
(* first call it runs whatever abort says; and a session that evaluates    *)
(* one form after the other (load, eval, the top level) never looks at it. *)
(***************************************************************************)
EXTENDS Integers, Sequences, SequencesExt, FiniteSetsExt

CONSTANTS
    BlockNames,     \* names of blocks, Nil among them
    Nil,            \* NIL
    Tags,           \* values used as catch tags
    Values,         \* values carried by exits
    MaxDepth,       \* bound: constructs nested at a time
    MaxAstray       \* bound: constructs nested when an exit has gone astray

None == "none"          \* BLOCK_TARGET = 0, the raw word of no name

ASSUME ExitAssumption ==
    /\ Nil \in BlockNames /\ None \notin BlockNames
    /\ Nil \notin Tags /\ Nil \notin Values
    /\ MaxDepth \in Nat \ {0} /\ MaxAstray \in 0..MaxDepth

VARIABLES
    frames,         \* the native calls under way, the innermost last
    regs,           \* the thread-local registers
    handlerDepth,   \* HANDLER_DEPTH
    result,         \* what the construct that ended in the last step returned
    alive,          \* the process runs
    at,             \* where the code that called last is, see Places
    exit,           \* ghost: the frame an exit was started for, and its value
    astray          \* ghost: the registers have lost the exit they stood for

vars == <<frames, regs, handlerDepth, result, alive, at, exit, astray>>

(* Before the first call of the innermost thunk; after one; in the session *)
(* that has run a form under a guard.                                      *)
Places == {"entered", "body", "session"}

Exits == [goal : 0..MaxDepth, value : Values \cup {Nil}]
NoExit == [goal |-> 0, value |-> Nil]

Kinds == {"block", "catch", "loop", "handler", "guard", "failed", "protect", "cleanup"}

Registers ==
    [abort : BOOLEAN, target : BlockNames \cup {None},
     throw : BOOLEAN, tag : Tags \cup {Nil},
     cond : BOOLEAN, slot : Values \cup {Nil},
     loop : BOOLEAN, loopValue : Values \cup {Nil}]

Quiet == [abort |-> FALSE, target |-> None, throw |-> FALSE, tag |-> Nil,
          cond |-> FALSE, slot |-> Nil, loop |-> FALSE, loopValue |-> Nil]

(* saved is the register file when the construct was entered (when its     *)
(* cleanup began, for a cleanup); each construct restores the fields its   *)
(* code keeps a copy of and no others. held is the ghost's part of it.     *)
Frame(k, n) == [kind |-> k, name |-> n, value |-> Nil, saved |-> regs, held |-> exit]

Top == Last(frames)

TypeOK ==
    /\ frames \in Seq([kind : Kinds, name : BlockNames \cup Tags,
                       value : Values \cup {Nil}, saved : Registers, held : Exits])
    /\ Len(frames) <= MaxDepth
    /\ regs \in Registers
    /\ handlerDepth \in 0..MaxDepth
    /\ result \in Values \cup {Nil}
    /\ alive \in BOOLEAN
    /\ at \in Places
    /\ exit \in Exits
    /\ astray \in BOOLEAN

Init ==
    /\ frames = <<>>
    /\ regs = Quiet
    /\ handlerDepth = 0
    /\ result = Nil
    /\ alive = TRUE
    /\ at = "body"
    /\ exit = NoExit
    /\ astray = FALSE

(* The innermost thunk goes on: no abort check of it has fired. A failed   *)
(* evaluation is about to signal and runs no Lisp code.                    *)
Running ==
    /\ alive
    /\ ~regs.abort \/ at = "entered"
    /\ frames # <<>> => Top.kind # "failed"

(* The session runs its next form, or the next macro function.             *)
SessionGoesOn == alive /\ (at = "session" \/ frames = <<>>)

(* The innermost frame of a set of positions, 0 if there is none.          *)
Innermost(positions) == Max({0} \cup positions)

OfKind(kinds) == {i \in 1..Len(frames) : frames[i].kind \in kinds}

Handlers == OfKind({"handler", "guard"})

Contained(goal) == goal >= Innermost(OfKind({"cleanup"}))

(* A (return) is held up by a cleanup: its registers are not saved.        *)
BreakHeldUp == regs.loop /\ ~regs.abort

-----------------------------------------------------------------------------
(* Entering a construct.                                                   *)

Push(k, n) ==
    /\ Len(frames) < IF astray THEN MaxAstray ELSE MaxDepth
    /\ frames' = Append(frames, Frame(k, n))
    /\ result' = Nil
    /\ at' = "entered"
    /\ UNCHANGED <<alive, exit>>

(* Astray: a block NIL takes the (return) that is held up for its own.     *)
NativeBlock(n) ==
    /\ Running /\ Push("block", n)
    /\ astray' = (astray \/ (n = Nil /\ BreakHeldUp))
    /\ UNCHANGED <<regs, handlerDepth>>

Catch(n) ==
    /\ Running /\ Push("catch", n)
    /\ UNCHANGED <<regs, handlerDepth, astray>>

UnwindProtect ==
    /\ Running /\ Push("protect", Nil)
    /\ UNCHANGED <<regs, handlerDepth, astray>>

NativeLoop ==
    /\ Running /\ Push("loop", Nil)
    /\ regs' = [regs EXCEPT !.loop = FALSE, !.loopValue = Nil]
    /\ UNCHANGED <<handlerDepth, astray>>

HandlerCase ==
    /\ Running /\ Push("handler", Nil)
    /\ regs' = [regs EXCEPT !.cond = FALSE]
    /\ handlerDepth' = handlerDepth + 1
    /\ UNCHANGED astray

(* eval, load and the top level run a form under a guard, and an expansion *)
(* its macro function. Astray: an exit is under way past the session.      *)
GuardEnter ==
    /\ Running \/ SessionGoesOn
    /\ Push("guard", Nil)
    /\ regs' = [regs EXCEPT !.cond = FALSE]
    /\ handlerDepth' = handlerDepth + 1
    /\ astray' = (astray \/ regs.abort)

-----------------------------------------------------------------------------
(* Starting an exit: (return-from), (throw), (return), (error).            *)

(* Astray: a cleanup is left with the exit it holds up, whose registers    *)
(* mix with those of the new one; or no form answers to a (return).        *)
StartExit(goals, v) ==
    /\ exit' = [goal |-> Innermost(goals), value |-> v]
    /\ astray' = (astray \/ goals = {} \/ ~Contained(Innermost(goals)))
    /\ at' = "body"
    /\ result' = Nil

(* die_unhandled_condition, or record_pending_condition.                   *)
Signal(v) ==
    IF handlerDepth = 0
    THEN /\ alive' = FALSE /\ result' = Nil
         /\ UNCHANGED <<regs, at, exit, astray>>
    ELSE /\ regs' = [regs EXCEPT !.slot = v, !.cond = TRUE, !.abort = TRUE]
         /\ StartExit(Handlers, v)
         /\ UNCHANGED alive

Error(v) ==
    /\ Running
    /\ Signal(v)
    /\ UNCHANGED <<frames, handlerDepth>>

Blocks(n) == {i \in OfKind({"block"}) : frames[i].name = n}
Catches(n) == {i \in OfKind({"catch"}) : frames[i].name = n}

(* No such block, or catch, is a condition, which Error covers.            *)
ReturnFrom(n, v) ==
    /\ Running
    /\ Blocks(n) # {} /\ StartExit(Blocks(n), v)
    /\ frames' = [frames EXCEPT ![Innermost(Blocks(n))].value = v]
    /\ regs' = [regs EXCEPT !.abort = TRUE, !.target = n]
    /\ UNCHANGED <<handlerDepth, alive>>

Throw(n, v) ==
    /\ Running
    /\ Catches(n) # {} /\ StartExit(Catches(n), v)
    /\ frames' = [frames EXCEPT ![Innermost(Catches(n))].value = v]
    /\ regs' = [regs EXCEPT !.abort = TRUE, !.throw = TRUE, !.tag = n]
    /\ UNCHANGED <<handlerDepth, alive>>

Loops == OfKind({"loop"}) \cup Blocks(Nil)

(* The registers are set, whether or not a loop or a block NIL is there.   *)
LoopReturn(v) ==
    /\ Running
    /\ StartExit(Loops, v)
    /\ regs' = [regs EXCEPT !.loopValue = v, !.loop = TRUE, !.abort = TRUE]
    /\ UNCHANGED <<frames, handlerDepth, alive>>

-----------------------------------------------------------------------------
(* The thunk of the innermost construct has returned, at its end or at an  *)
(* abort check; what a body returns of itself is Nil.                      *)

Returned(kind) == alive /\ frames # <<>> /\ Top.kind = kind

(* The ghost follows abort: whoever clears it takes the exit for its own.  *)
Took ==
    /\ exit' = IF regs'.abort THEN exit ELSE NoExit
    /\ UNCHANGED astray

Pop == frames' = Front(frames) /\ at' = "body" /\ UNCHANGED alive

BlockEnds ==
    /\ Returned("block")
    /\ Pop
    /\ \/ /\ regs.abort /\ regs.target = Top.name
          /\ regs' = [regs EXCEPT !.abort = FALSE, !.target = None]
          /\ result' = Top.value
       \/ /\ regs.abort /\ regs.target # Top.name
          /\ Top.name = Nil /\ regs.loop
          /\ regs' = [regs EXCEPT !.loop = FALSE, !.abort = FALSE]
          /\ result' = regs.loopValue
       \/ /\ ~regs.abort \/ (regs.target # Top.name /\ ~(Top.name = Nil /\ regs.loop))
          /\ result' = Nil
          /\ UNCHANGED regs
    /\ Took
    /\ UNCHANGED handlerDepth

CatchMatches == regs.abort /\ regs.throw /\ regs.tag = Top.name

(* Mutant: the catch forgets that the throw has been taken.                *)
CatchEndsThrowing ==
    /\ Returned("catch")
    /\ Pop
    /\ regs' = [regs EXCEPT !.abort = @ /\ ~CatchMatches]
    /\ result' = IF CatchMatches THEN Top.value ELSE Nil
    /\ Took
    /\ UNCHANGED handlerDepth

CatchEnds ==
    /\ Returned("catch")
    /\ Pop
    /\ IF CatchMatches
       THEN /\ regs' = [regs EXCEPT !.abort = FALSE, !.throw = FALSE, !.tag = Nil]
            /\ result' = Top.value
       ELSE UNCHANGED regs /\ result' = Nil
    /\ Took
    /\ UNCHANGED handlerDepth

(* Mutant: a loop that stops takes any abort for its own break.            *)
LoopEndsAll ==
    /\ Returned("loop")
    /\ regs.loop \/ regs.abort
    /\ Pop
    /\ regs' = [regs EXCEPT !.abort = FALSE,
                            !.loop = Top.saved.loop, !.loopValue = Top.saved.loopValue]
    /\ result' = IF regs.loop THEN regs.loopValue ELSE Nil
    /\ Took
    /\ UNCHANGED handlerDepth

(* Otherwise the thunk is called again.                                    *)
LoopEnds ==
    /\ Returned("loop")
    /\ regs.loop \/ regs.abort
    /\ Pop
    /\ regs' = [regs EXCEPT !.abort = @ /\ ~regs.loop,
                            !.loop = Top.saved.loop, !.loopValue = Top.saved.loopValue]
    /\ result' = IF regs.loop THEN regs.loopValue ELSE Nil
    /\ Took
    /\ UNCHANGED handlerDepth

(* Mutant: the depth is lowered only when a condition was handled.         *)
HandlerCaseEndsCounted ==
    /\ Returned("handler")
    /\ Pop
    /\ regs' = [regs EXCEPT !.abort = @ /\ ~regs.cond,
                            !.cond = Top.saved.cond, !.slot = Top.saved.slot]
    /\ handlerDepth' = IF regs.cond THEN handlerDepth - 1 ELSE handlerDepth
    /\ result' = IF regs.cond THEN regs.slot ELSE Nil
    /\ Took

(* With a condition the handler function runs next, in the surrounding     *)
(* frame.                                                                  *)
HandlerCaseEnds ==
    /\ Returned("handler")
    /\ Pop
    /\ regs' = [regs EXCEPT !.abort = @ /\ ~regs.cond,
                            !.cond = Top.saved.cond, !.slot = Top.saved.slot]
    /\ handlerDepth' = handlerDepth - 1
    /\ result' = IF regs.cond THEN regs.slot ELSE Nil
    /\ Took

(* At the top level the condition is reported. Below it the native         *)
(* function that evaluates has an error and signals it anew (failed).      *)
(* Without a condition the session has its value, whatever abort says.     *)
EvalFailed == regs.cond /\ Len(frames) > 1

GuardExit ==
    /\ Returned("guard")
    /\ frames' = IF EvalFailed
                 THEN [frames EXCEPT ![Len(frames)].kind = "failed"]
                 ELSE Front(frames)
    /\ at' = IF EvalFailed THEN "body" ELSE "session"
    /\ regs' = [regs EXCEPT !.abort = @ /\ ~regs.cond,
                            !.cond = Top.saved.cond, !.slot = Top.saved.slot]
    /\ handlerDepth' = handlerDepth - 1
    /\ result' = IF regs.cond THEN regs.slot ELSE Nil
    /\ Took
    /\ UNCHANGED alive

EvalFails(v) ==
    /\ Returned("failed")
    /\ frames' = Front(frames)
    /\ Signal(v)
    /\ UNCHANGED handlerDepth

(* The protected thunk has returned: the abort is put aside.               *)
BeginCleanup ==
    /\ Returned("protect")
    /\ frames' = Append(Front(frames), Frame("cleanup", Nil))
    /\ exit' = NoExit
    /\ regs' = [regs EXCEPT !.abort = FALSE, !.target = None, !.throw = FALSE, !.tag = Nil]
    /\ result' = Nil
    /\ at' = "entered"
    /\ UNCHANGED <<handlerDepth, alive, astray>>

EndCleanup ==
    /\ Returned("cleanup")
    /\ frames' = Front(frames)
    /\ exit' = Top.held
    /\ regs' = [regs EXCEPT !.abort = Top.saved.abort, !.target = Top.saved.target,
                            !.throw = Top.saved.throw, !.tag = Top.saved.tag]
    /\ result' = Nil
    /\ at' = "body"
    /\ UNCHANGED <<handlerDepth, alive, astray>>

Next ==
    \/ \E n \in BlockNames : NativeBlock(n)
    \/ \E n \in Tags : Catch(n)
    \/ UnwindProtect \/ NativeLoop \/ HandlerCase \/ GuardEnter
    \/ \E v \in Values :
         \/ Error(v) \/ LoopReturn(v) \/ EvalFails(v)
         \/ \E n \in BlockNames : ReturnFrom(n, v)
         \/ \E n \in Tags : Throw(n, v)
    \/ BlockEnds \/ CatchEnds \/ LoopEnds \/ HandlerCaseEnds
    \/ GuardExit \/ BeginCleanup \/ EndCleanup

Spec == Init /\ [][Next]_vars

-----------------------------------------------------------------------------
(* Properties.                                                             *)

(* Back at the top level, after any nest of constructs and exits, no       *)
(* condition is pending and no handler counted (condition_guard_exit: "so  *)
(* subsequent work isn't poisoned"); and unless an exit has gone astray no  *)
(* other flag is up, so the next form starts clean.                        *)
TopLevelClean ==
    frames = <<>> /\ alive =>
        /\ ~regs.cond /\ handlerDepth = 0
        /\ astray \/ (~regs.abort /\ ~regs.throw /\ ~regs.loop /\ regs.target = None)

(* The same without the excuse, which a stray (return) refutes.            *)
TopLevelQuiet == frames = <<>> /\ alive => ~regs.abort

(* After (error ...) no code runs before the handler does, except the      *)
(* cleanups that the condition passes ("code after `(error 'foo)` no       *)
(* longer runs", the comment on ABORT_PENDING).                            *)
ErrorUnwinds ==
    alive /\ regs.cond /\ ~regs.abort =>
        \E i \in OfKind({"cleanup"}) :
            frames[i].saved.abort /\ frames[i].saved.cond

(* Until an exit goes astray, each exit reaches the innermost construct    *)
(* that answers to it, with its value, past cleanups that run to their     *)
(* end, however exits nest in cleanups, and no code runs meanwhile; and    *)
(* the process ends only where nothing handles conditions.                 *)
Live == IF frames # <<>> /\ Top.kind = "failed" THEN Front(frames) ELSE frames

Forms ==
    [i \in 1..Len(Live) |->
        [kind |-> Live[i].kind, name |-> Live[i].name,
         held |-> IF Live[i].kind = "cleanup" THEN Live[i].held ELSE NoExit]]

Promise == INSTANCE DynamicExtent WITH forms <- Forms

ImplementsDynamicExtent ==
    Promise!Init /\ [][astray' \/ Promise!Next]_(Promise!avars)
=============================================================================
