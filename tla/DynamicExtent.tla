--------------------------- MODULE DynamicExtent ---------------------------
(***************************************************************************)
(* What the exit operators of the Lisp promise a program, as the comments  *)
(* beside catch_shim, native_block_shim, unwind_protect_shim and           *)
(* handler_case_shim (ncl-runtime/src/abi.rs) and Lisp/core.lisp put it:   *)
(* an exit names the innermost form that answers to it, the forms above    *)
(* that one are abandoned in order, each cleanup runs on the way, nothing  *)
(* else does, and the value arrives.                                       *)
(***************************************************************************)
EXTENDS Integers, Sequences, SequencesExt

CONSTANTS
    BlockNames,     \* names of blocks
    Nil,            \* the name NIL, also the value NIL
    Tags,           \* tags of catch forms
    Values          \* values an exit may carry

Exits == [goal : Nat \ {0}, value : Values \cup {Nil}]
NoExit == [goal |-> 0, value |-> Nil]

Kinds == {"block", "catch", "loop", "handler", "guard", "protect", "cleanup"}

VARIABLES
    forms,      \* the forms under way, the innermost last
    exit,       \* the exit under way, or NoExit
    result,     \* the value of the form left in the last step
    alive       \* the process has not been ended by an unhandled condition

avars == <<forms, exit, result, alive>>

Form(k, n) == [kind |-> k, name |-> n, held |-> NoExit]

Answers(f, sought, n) ==
    \/ f.kind = sought /\ f.name = n
    \/ sought = "return" /\ (f.kind = "loop" \/ (f.kind = "block" /\ f.name = Nil))
    \/ sought = "condition" /\ f.kind \in {"handler", "guard"}

Init ==
    /\ forms = <<>>
    /\ exit = NoExit
    /\ result = Nil
    /\ alive = TRUE

Running == alive /\ exit = NoExit

Enter(k, n) ==
    /\ Running
    /\ forms' = Append(forms, Form(k, n))
    /\ result' = Nil
    /\ UNCHANGED <<exit, alive>>

StartExit(sought, n, v) ==
    /\ Running
    /\ \E g \in 1..Len(forms) :
         /\ Answers(forms[g], sought, n)
         /\ \A i \in (g + 1)..Len(forms) : ~Answers(forms[i], sought, n)
         /\ exit' = [goal |-> g, value |-> v]
    /\ result' = Nil
    /\ UNCHANGED <<forms, alive>>

Die ==
    /\ Running
    /\ \A i \in 1..Len(forms) : ~Answers(forms[i], "condition", Nil)
    /\ alive' = FALSE
    /\ result' = Nil
    /\ UNCHANGED <<forms, exit>>

(* A form is left because its body returned. A loop has no such end.       *)
LeaveNormally ==
    /\ Running /\ forms # <<>>
    /\ Last(forms).kind \notin {"loop", "protect", "cleanup"}
    /\ forms' = Front(forms)
    /\ result' = Nil
    /\ UNCHANGED <<exit, alive>>

(* The form sought is left with the value of the exit.                     *)
Land ==
    /\ alive /\ forms # <<>>
    /\ exit.goal = Len(forms)
    /\ forms' = Front(forms)
    /\ exit' = NoExit
    /\ result' = exit.value
    /\ UNCHANGED alive

(* A form above the one sought. A cleanup that is itself left by an exit   *)
(* is abandoned, and with it the exit it was holding up.                   *)
Abandon ==
    /\ alive /\ exit.goal \in 1..(Len(forms) - 1)
    /\ Last(forms).kind # "protect"
    /\ forms' = Front(forms)
    /\ result' = Nil
    /\ UNCHANGED <<exit, alive>>

BeginCleanup ==
    /\ alive /\ forms # <<>> /\ Last(forms).kind = "protect"
    /\ forms' = Append(Front(forms), [kind |-> "cleanup", name |-> Nil, held |-> exit])
    /\ exit' = NoExit
    /\ result' = Nil
    /\ UNCHANGED alive

EndCleanup ==
    /\ Running /\ forms # <<>> /\ Last(forms).kind = "cleanup"
    /\ forms' = Front(forms)
    /\ exit' = Last(forms).held
    /\ result' = Nil
    /\ UNCHANGED alive

Next ==
    \/ \E k \in Kinds \ {"cleanup"}, n \in BlockNames \cup Tags \cup {Nil} : Enter(k, n)
    \/ \E n \in BlockNames, v \in Values : StartExit("block", n, v)
    \/ \E n \in Tags, v \in Values : StartExit("catch", n, v)
    \/ \E v \in Values : StartExit("return", Nil, v) \/ StartExit("condition", Nil, v)
    \/ Die \/ LeaveNormally \/ Land \/ Abandon \/ BeginCleanup \/ EndCleanup

Spec == Init /\ [][Next]_avars
=============================================================================
