------------------------------ MODULE Mailbox ------------------------------
(***************************************************************************)
(* The mailboxes of Lisp threads, ncl-runtime/src/threads.rs: queues with  *)
(* one mutex and two condition variables each, not_empty for receivers and *)
(* not_full for senders, and a registry from which a mailbox may be        *)
(* released while threads still hold on to it.                             *)
(*                                                                         *)
(* A region of a queue's mutex is one step. Words are counted, not told    *)
(* apart. Collections are reduced to what Safepoint shows of them: the     *)
(* driver waits, without giving up, until every other thread has parked at *)
(* a poll or has announced a blocking call (enter_blocked), and            *)
(* leave_blocked waits for the end.                                        *)
(***************************************************************************)
EXTENDS Integers, FiniteSets

CONSTANTS
    Threads,
    Boxes,          \* mailbox handles, in the order of next_id
    Cap,            \* capacity of each mailbox, or Unbounded
    Unbounded,      \* capacity NIL
    MaxWords        \* bound: words in a mailbox and on the way to it

None == "none"

ASSUME MailboxAssumption ==
    /\ IsFiniteSet(Threads) /\ None \notin Threads
    /\ Cap \in [Boxes -> Nat \cup {Unbounded}]
    /\ Unbounded \notin Nat
    /\ MaxWords \in Nat
    /\ \A b \in Boxes : Cap[b] # Unbounded => Cap[b] <= MaxWords

VARIABLES
    registry,   \* the mailboxes that have a registry entry
    made,       \* those that have been made
    words,      \* the length of each queue
    op,         \* what a thread does to which mailbox
    pc,         \* where it is
    gc          \* the thread that drives a collection, or None

vars == <<registry, made, words, op, pc, gc>>

(* mailbox-send, and mailbox-receive with time-out 0, positive, negative.  *)
Calls == {"send", "try", "timed", "receive"}
Idle == [call |-> "none", box |-> None]

Places == {"run", "parked", "drive", "called", "queue", "asleep", "awake", "return"}

TypeOK ==
    /\ made \subseteq Boxes /\ registry \subseteq made
    /\ words \in [Boxes -> 0..MaxWords]
    /\ \A b \in Boxes : Cap[b] # Unbounded => words[b] <= Cap[b]
    /\ op \in [Threads -> [call : Calls, box : Boxes] \cup {Idle}]
    /\ pc \in [Threads -> Places]
    /\ \A t \in Threads : op[t] = Idle <=> pc[t] \in {"run", "parked", "drive"}
    /\ \A t \in Threads : pc[t] = "asleep" => op[t].call # "try"
    /\ gc \in Threads \cup {None}
    /\ \A t \in Threads : pc[t] = "drive" <=> gc = t

Init ==
    /\ registry = {} /\ made = {}
    /\ words = [b \in Boxes |-> 0]
    /\ op = [t \in Threads |-> Idle]
    /\ pc = [t \in Threads |-> "run"]
    /\ gc = None

Full(b) == Cap[b] # Unbounded /\ words[b] >= Cap[b]

(* The wait sets of not_full and not_empty, and who has left them and has  *)
(* not yet looked at the queue again.                                      *)
At(place, calls, b) ==
    {t \in Threads : pc[t] = place /\ op[t].call \in calls /\ op[t].box = b}

Senders == {"send"}
Receivers == {"timed", "receive"}

(* Condvar::notify_one; t is at its own place already.                     *)
NotifyOne(t, place, calls, b) ==
    IF At("asleep", calls, b) = {}
    THEN pc' = [pc EXCEPT ![t] = place]
    ELSE \E s \in At("asleep", calls, b) :
            pc' = [pc EXCEPT ![t] = place, ![s] = "awake"]

(* Mutant: only a wait with a time-out is announced.                       *)
AnnouncedTimed(t) == op[t].call = "timed"

(* enter_blocked precedes the look-up, leave_blocked follows the result:   *)
(* only mailbox_receive_shim has them, and not for a time-out of 0.        *)
Announced(t) == op[t].call \in Receivers

-----------------------------------------------------------------------------
(* make_mailbox, release_mailbox: short regions of the registry's mutex.   *)

MakeMailbox(t, b) ==
    /\ pc[t] = "run"
    /\ b \notin made
    /\ made' = made \cup {b} /\ registry' = registry \cup {b}
    /\ UNCHANGED <<words, op, pc, gc>>

ReleaseMailbox(t, b) ==
    /\ pc[t] = "run"
    /\ b \in registry
    /\ registry' = registry \ {b}
    /\ UNCHANGED <<made, words, op, pc, gc>>

-----------------------------------------------------------------------------
(* mailbox_send and mailbox_receive.                                       *)

Sending(b) == {t \in Threads : op[t] = [call |-> "send", box |-> b] /\ pc[t] # "return"}

Room(b) == Cap[b] = Unbounded => words[b] + Cardinality(Sending(b)) < MaxWords

(* The shim.                                                               *)
Call(t, c, b) ==
    /\ pc[t] = "run"
    /\ b \in made
    /\ c = "send" => Room(b)
    /\ op' = [op EXCEPT ![t] = [call |-> c, box |-> b]]
    /\ pc' = [pc EXCEPT ![t] = "called"]
    /\ UNCHANGED <<registry, made, words, gc>>

(* mailbox_get: without an entry the call answers NIL.                     *)
Get(t) ==
    /\ pc[t] = "called"
    /\ pc' = [pc EXCEPT ![t] = IF op[t].box \in registry THEN "queue" ELSE "return"]
    /\ UNCHANGED <<registry, made, words, op, gc>>

AtQueue(t) == pc[t] \in {"queue", "awake"}

(* Mutant: the capacity is tested once, before the wait.                   *)
PushUntested(t) ==
    LET b == op[t].box IN
    /\ AtQueue(t) /\ op[t].call = "send"
    /\ ~Full(b) \/ pc[t] = "awake"
    /\ words' = [words EXCEPT ![b] = @ + 1]
    /\ NotifyOne(t, "return", Receivers, b)
    /\ UNCHANGED <<registry, made, op, gc>>

(* Mutant: receivers are notified only when the queue was empty.           *)
PushNotifyingAtEmpty(t) ==
    LET b == op[t].box IN
    /\ AtQueue(t) /\ op[t].call = "send"
    /\ ~Full(b)
    /\ words' = [words EXCEPT ![b] = @ + 1]
    /\ IF words[b] = 0 THEN NotifyOne(t, "return", Receivers, b)
                       ELSE pc' = [pc EXCEPT ![t] = "return"]
    /\ UNCHANGED <<registry, made, op, gc>>

Push(t) ==
    LET b == op[t].box IN
    /\ AtQueue(t) /\ op[t].call = "send"
    /\ ~Full(b)
    /\ words' = [words EXCEPT ![b] = @ + 1]
    /\ NotifyOne(t, "return", Receivers, b)
    /\ UNCHANGED <<registry, made, op, gc>>

SleepWhileFull(t) ==
    /\ AtQueue(t) /\ op[t].call = "send"
    /\ Full(op[t].box)
    /\ pc' = [pc EXCEPT ![t] = "asleep"]
    /\ UNCHANGED <<registry, made, words, op, gc>>

Pop(t) ==
    LET b == op[t].box IN
    /\ AtQueue(t) /\ op[t].call # "send"
    /\ words[b] > 0
    /\ words' = [words EXCEPT ![b] = @ - 1]
    /\ NotifyOne(t, "return", Senders, b)
    /\ UNCHANGED <<registry, made, op, gc>>

SleepWhileEmpty(t) ==
    /\ AtQueue(t) /\ op[t].call \in Receivers
    /\ words[op[t].box] = 0
    /\ pc' = [pc EXCEPT ![t] = "asleep"]
    /\ UNCHANGED <<registry, made, words, op, gc>>

(* Nothing there with time-out 0, or the deadline has passed.              *)
GiveUp(t) ==
    /\ AtQueue(t) /\ op[t].call \in {"try", "timed"}
    /\ words[op[t].box] = 0
    /\ pc' = [pc EXCEPT ![t] = "return"]
    /\ UNCHANGED <<registry, made, words, op, gc>>

(* wait_timeout expires, or a spurious wake-up.                            *)
Wake(t) ==
    /\ pc[t] = "asleep"
    /\ pc' = [pc EXCEPT ![t] = "awake"]
    /\ UNCHANGED <<registry, made, words, op, gc>>

Return(t) ==
    /\ pc[t] = "return"
    /\ Announced(t) => gc = None
    /\ pc' = [pc EXCEPT ![t] = "run"]
    /\ op' = [op EXCEPT ![t] = Idle]
    /\ UNCHANGED <<registry, made, words, gc>>

-----------------------------------------------------------------------------
(* Collections.                                                            *)

Drive(t) ==
    /\ pc[t] = "run" /\ gc = None
    /\ gc' = t
    /\ pc' = [pc EXCEPT ![t] = "drive"]
    /\ UNCHANGED <<registry, made, words, op>>

Poll(t) ==
    /\ pc[t] = "run" /\ gc # None
    /\ pc' = [pc EXCEPT ![t] = "parked"]
    /\ UNCHANGED <<registry, made, words, op, gc>>

Collected(t) ==
    /\ gc = t
    /\ \A u \in Threads \ {t} : pc[u] = "parked" \/ Announced(u)
    /\ gc' = None
    /\ pc' = [u \in Threads |-> IF op[u] = Idle THEN "run" ELSE pc[u]]
    /\ UNCHANGED <<registry, made, words, op>>

Next ==
    \E t \in Threads :
        \/ \E b \in Boxes :
             \/ MakeMailbox(t, b) \/ ReleaseMailbox(t, b)
             \/ \E c \in Calls : Call(t, c, b)
        \/ Get(t) \/ Push(t) \/ SleepWhileFull(t)
        \/ Pop(t) \/ SleepWhileEmpty(t) \/ GiveUp(t) \/ Wake(t) \/ Return(t)
        \/ Drive(t) \/ Poll(t) \/ Collected(t)

Spec == Init /\ [][Next]_vars

(* The scheduler runs every thread that can go on; managed code polls      *)
(* again and again, though it may miss a collection that ends first.       *)
GoesOn(t) ==
    \/ Get(t) \/ Push(t) \/ SleepWhileFull(t)
    \/ Pop(t) \/ SleepWhileEmpty(t) \/ GiveUp(t) \/ Return(t) \/ Collected(t)

FairSpec ==
    /\ Spec
    /\ \A t \in Threads : WF_vars(GoesOn(t)) /\ SF_vars(Poll(t))

-----------------------------------------------------------------------------
(* Properties.                                                             *)

(* Though each push and each pop notifies one thread only, and the one     *)
(* notified may find that somebody else was faster: while a receiver       *)
(* sleeps, every queued word has an awake receiver of its own on the way   *)
(* to it, and while a sender sleeps, every free place has an awake sender. *)
NobodyStranded ==
    \A b \in Boxes :
        /\ At("asleep", Receivers, b) # {} =>
              words[b] <= Cardinality(At("awake", Receivers, b))
        /\ At("asleep", Senders, b) # {} =>
              Cap[b] - words[b] <= Cardinality(At("awake", Senders, b))

(* Receives are announced, so a collection that never ends has one cause:  *)
(* a sender at a full mailbox, for mailbox_send_shim announces nothing.    *)
HeldUp(b) == \E t \in Threads : op[t] = [call |-> "send", box |-> b] /\ Full(b)

HeldUpOnlyBySenders ==
    <>[](gc # None) => <>[](\E b \in Boxes : HeldUp(b))
=============================================================================
