---------------------------- MODULE LispThreads ----------------------------
(***************************************************************************)
(* The Lisp threads of ncl-runtime threads.rs: create-thread, join-thread, *)
(* the cooperative suspend / resume / terminate requests and the           *)
(* (thread-safepoint) poll that obeys them.                                *)
(*                                                                         *)
(* A step is what one thread does between two points where another thread  *)
(* can observe it: one atomic flag, one registry lookup under its lock, or *)
(* one region of a mutex that guards a condition variable.                 *)
(***************************************************************************)
EXTENDS Naturals, FiniteSets

CONSTANTS Main,   \* the primary Lisp thread, id 1
          Tids    \* the ids create_thread hands out; never reused

Threads == {Main} \cup Tids

VARIABLES pc,          \* where each thread is
          tgt,         \* the thread it is operating on
          registered,  \* ThreadEntry in the registry
          published,   \* ids some Lisp code has got hold of
          handles,     \* ids with a JoinHandle in join_handles
          mutators,    \* threads with a registered MutatorState
          suspend,     \* suspend_requested
          terminate,   \* terminate_requested
          notified,    \* parked threads whose suspend_cv was notified
          finished     \* entry.finished

reg  == <<registered, published, handles, mutators>>
vars == <<pc, tgt, registered, published, handles, mutators,
          suspend, terminate, notified, finished>>

Alive(t) == pc[t] \notin {"new", "dead"}

Init == /\ pc = [t \in Threads |-> IF t = Main THEN "body" ELSE "new"]
        /\ tgt = [t \in Threads |-> t]
        /\ registered = {Main} /\ published = {}
        /\ handles = {} /\ mutators = {Main}
        /\ suspend = {} /\ terminate = {}
        /\ notified = {} /\ finished = {}

Goto(t, label) == pc' = [pc EXCEPT ![t] = label]

\* Begin an operation of thread a on thread t.
Begin(a, t, label) == /\ pc[a] = "body"
                      /\ Goto(a, label)
                      /\ tgt' = [tgt EXCEPT ![a] = t]

------------------------------------------------------------------------------
(* create_thread.                                                           *)

\* A fresh id and its entry, inserted before the OS thread exists.
Register(a, t) ==
  /\ pc[t] = "new" /\ t \in Tids
  /\ \A b \in Threads : pc[b] = "spawn" => tgt[b] # t
  /\ Begin(a, t, "spawn")
  /\ registered' = registered \cup {t}
  /\ UNCHANGED <<published, handles, mutators, suspend, terminate,
                 notified, finished>>

Spawn(a) ==
  /\ pc[a] = "spawn"
  /\ pc' = [pc EXCEPT ![a] = "keep", ![tgt[a]] = "thunk"]
  /\ UNCHANGED <<tgt, reg, suspend, terminate, notified, finished>>

\* The JoinHandle is stored after the spawn; the id is returned to Lisp.
KeepHandle(a) ==
  /\ pc[a] = "keep"
  /\ handles' = handles \cup {tgt[a]}
  /\ published' = published \cup {tgt[a]}
  /\ Goto(a, "body")
  /\ UNCHANGED <<tgt, registered, mutators, suspend, terminate,
                 notified, finished>>

\* The spawn thunk registers the new thread's mutator and calls the function.
EnterBody(t) ==
  /\ pc[t] = "thunk"
  /\ mutators' = mutators \cup {t}
  /\ Goto(t, "body")
  /\ UNCHANGED <<tgt, registered, published, handles, suspend,
                 terminate, notified, finished>>

\* (current-thread-id), stored where other threads see it.
Publish(t) ==
  /\ pc[t] = "body" /\ t \in Tids
  /\ published' = published \cup {t}
  /\ UNCHANGED <<pc, tgt, registered, handles, mutators, suspend,
                 terminate, notified, finished>>

\* The function returns, exits by (exit-thread) or dies of a panic.
Return(t) ==
  /\ pc[t] = "body" /\ t \in Tids
  /\ Goto(t, "drop")
  /\ UNCHANGED <<tgt, reg, suspend, terminate, notified, finished>>

DropUnregisters(t) ==        \* mutant: the entry goes before finished is set
  /\ pc[t] = "drop"
  /\ registered' = registered \ {t}
  /\ mutators' = mutators \ {t}
  /\ Goto(t, "finish")
  /\ UNCHANGED <<tgt, published, handles, suspend, terminate,
                 notified, finished>>

DropMutator(t) ==
  /\ pc[t] = "drop"
  /\ mutators' = mutators \ {t}
  /\ Goto(t, "finish")
  /\ UNCHANGED <<tgt, registered, published, handles, suspend,
                 terminate, notified, finished>>

FinishSilently(t) ==         \* mutant: the waiting joins are not woken
  /\ pc[t] = "finish"
  /\ finished' = finished \cup {t}
  /\ Goto(t, "unregister")
  /\ UNCHANGED <<tgt, reg, suspend, terminate, notified>>

\* Under finish_mu: set finished and wake every join waiting on it.
Finish(t) ==
  /\ pc[t] = "finish"
  /\ finished' = finished \cup {t}
  /\ pc' = [a \in Threads |->
              IF a = t THEN "unregister"
              ELSE IF pc[a] = "joinwait" /\ tgt[a] = t THEN "joincheck"
              ELSE pc[a]]
  /\ UNCHANGED <<tgt, reg, suspend, terminate, notified>>

Unregister(t) ==
  /\ pc[t] = "unregister"
  /\ registered' = registered \ {t}
  /\ Goto(t, "dead")
  /\ UNCHANGED <<tgt, published, handles, mutators, suspend,
                 terminate, notified, finished>>

------------------------------------------------------------------------------
(* join_thread.                                                             *)

\* get_entry: a thread with no entry has finished already.
Join(a, t) ==
  /\ t \in published
  /\ Begin(a, t, IF t \in registered THEN "joincheck" ELSE "take")
  /\ UNCHANGED <<reg, suspend, terminate, notified, finished>>

\* Under finish_mu: test finished, or wait on finish_cv.
CheckFinished(a) ==
  /\ pc[a] = "joincheck"
  /\ Goto(a, IF tgt[a] \in finished THEN "take" ELSE "joinwait")
  /\ UNCHANGED <<tgt, reg, suspend, terminate, notified, finished>>

\* Remove the JoinHandle; without one join-thread returns false.
TakeHandle(a) ==
  /\ pc[a] = "take"
  /\ handles' = handles \ {tgt[a]}
  /\ IF tgt[a] \in handles
       THEN Goto(a, "osjoin")
       ELSE Goto(a, "body")
  /\ UNCHANGED <<tgt, registered, published, mutators, suspend, terminate,
                 notified, finished>>

\* JoinHandle::join, then true.
OsJoin(a) ==
  /\ pc[a] = "osjoin"
  /\ pc[tgt[a]] = "dead"
  /\ Goto(a, "body")
  /\ UNCHANGED <<tgt, reg, suspend, terminate, notified, finished>>

------------------------------------------------------------------------------
(* suspend_thread, resume_thread, terminate_thread.  On a thread with no    *)
(* entry they return false and change nothing.                              *)

Suspend(a, t) ==
  /\ pc[a] = "body"
  /\ t \in published \cap registered
  /\ suspend' = suspend \cup {t}
  /\ UNCHANGED <<pc, tgt, reg, terminate, notified, finished>>

Resume(a, t) ==
  /\ t \in published \cap registered
  /\ Begin(a, t, "notify")
  /\ suspend' = suspend \ {t}
  /\ UNCHANGED <<reg, terminate, notified, finished>>

Terminate(a, t) ==
  /\ t \in published \cap registered
  /\ Begin(a, t, "unsuspend")
  /\ terminate' = terminate \cup {t}
  /\ UNCHANGED <<reg, suspend, notified, finished>>

\* The second store of terminate_thread.
Unsuspend(a) ==
  /\ pc[a] = "unsuspend"
  /\ suspend' = suspend \ {tgt[a]}
  /\ Goto(a, "notify")
  /\ UNCHANGED <<tgt, reg, terminate, notified, finished>>

\* suspend_cv.notify_all under suspend_mu reaches a thread that is waiting.
Notify(a) ==
  /\ pc[a] = "notify"
  /\ notified' = notified \cup {t \in {tgt[a]} : pc[t] = "parked"}
  /\ Goto(a, "body")
  /\ UNCHANGED <<tgt, reg, suspend, terminate, finished>>

------------------------------------------------------------------------------
(* thread_safepoint.                                                        *)

\* The first, unlocked, test of suspend_requested.
Poll(t) ==
  /\ pc[t] = "body" /\ t \in Tids
  /\ Goto(t, IF t \in suspend THEN "suspending" ELSE "checkterm")
  /\ UNCHANGED <<tgt, reg, suspend, terminate, notified, finished>>

ParkUntested(t) ==           \* mutant: waits without testing the flag again
  /\ pc[t] = "suspending"
  /\ Goto(t, "parked")
  /\ UNCHANGED <<tgt, reg, suspend, terminate, notified, finished>>

\* Under suspend_mu: test it again and wait on suspend_cv.
Park(t) ==
  /\ pc[t] = "suspending"
  /\ Goto(t, IF t \in suspend THEN "parked" ELSE "checkterm")
  /\ UNCHANGED <<tgt, reg, suspend, terminate, notified, finished>>

UnparkKeepsNotice(t) ==      \* mutant: the notification is not consumed
  /\ pc[t] = "parked"
  /\ Goto(t, IF t \in terminate THEN "drop" ELSE "suspending")
  /\ UNCHANGED <<tgt, reg, suspend, terminate, notified, finished>>

\* The wait returns, notified or spuriously; terminate is tested first.
Unpark(t) ==
  /\ pc[t] = "parked"
  /\ notified' = notified \ {t}
  /\ Goto(t, IF t \in terminate THEN "drop" ELSE "suspending")
  /\ UNCHANGED <<tgt, reg, suspend, terminate, finished>>

Wake(t) == t \in notified /\ Unpark(t)
SpuriousWake(t) == t \notin notified /\ Unpark(t)

CheckOnlyWhenWoken(t) ==     \* mutant: only the suspended path tests it
  /\ pc[t] = "checkterm"
  /\ Goto(t, "body")
  /\ UNCHANGED <<tgt, reg, suspend, terminate, notified, finished>>

\* The last test: a requested termination unwinds to the spawn thunk.
CheckTerminate(t) ==
  /\ pc[t] = "checkterm"
  /\ Goto(t, IF t \in terminate THEN "drop" ELSE "body")
  /\ UNCHANGED <<tgt, reg, suspend, terminate, notified, finished>>

------------------------------------------------------------------------------
\* What a thread does by itself once an operation has begun.
Continue(t) ==
  \/ Spawn(t) \/ KeepHandle(t) \/ EnterBody(t)
  \/ DropMutator(t) \/ Finish(t) \/ Unregister(t)
  \/ CheckFinished(t) \/ TakeHandle(t) \/ OsJoin(t)
  \/ Unsuspend(t) \/ Notify(t)
  \/ Park(t) \/ Wake(t) \/ CheckTerminate(t)

\* What the Lisp program chooses to do.
Choose(a) ==
  \/ Publish(a) \/ Return(a) \/ Poll(a)
  \/ \E t \in Tids : \/ Register(a, t) \/ Join(a, t) \/ Suspend(a, t)
                     \/ Resume(a, t) \/ Terminate(a, t)

Next == \E t \in Threads : Continue(t) \/ Choose(t) \/ SpuriousWake(t)

\* Fairness: the OS scheduler runs a thread that can go on; a running worker
\* keeps polling (thread-loop).  Nobody is obliged to finish, resume or join.
Fairness == \A t \in Threads : WF_vars(Continue(t)) /\ SF_vars(Poll(t))

Spec == Init /\ [][Next]_vars
FairSpec == Spec /\ Fairness

------------------------------------------------------------------------------
(* Properties.                                                              *)

Labels == {"new", "thunk", "body", "spawn", "keep", "drop", "finish",
           "unregister", "dead", "joincheck", "joinwait", "take", "osjoin",
           "unsuspend", "notify", "suspending", "parked", "checkterm"}

\* Every variable has its type; a mutator never outlives the registry entry of
\* its thread, and only parked threads hold a notification (create_thread,
\* thread_safepoint).
TypeOK == /\ pc \in [Threads -> Labels]
          /\ tgt \in [Threads -> Threads]
          /\ registered \subseteq Threads
          /\ mutators \subseteq {t \in registered : Alive(t)}
          /\ published \subseteq Tids
          /\ handles \subseteq Tids
          /\ suspend \subseteq Tids /\ terminate \subseteq Tids
          /\ notified \subseteq {t \in Tids : pc[t] = "parked"}
          /\ finished \subseteq Tids

\* No resume and no termination is lost between the two tests of the flag and
\* the wait: a worker that waits although it may go on has been notified, or
\* whoever cleared the flag has still to do it (thread_safepoint against
\* resume_thread and terminate_thread).
NoLostResume ==
  \A t \in Tids : pc[t] = "parked" /\ t \notin suspend =>
    t \in notified \/ \E a \in Threads : pc[a] = "notify" /\ tgt[a] = t

\* Whatever join-thread answers, when it answers the thread has run its
\* function to the end and its mutator no longer counts in a collection: this
\* holds for the join that gets the handle and for the ones that come too late.
JoinedIsOver ==
  [][\A a \in Threads :
       pc[a] \in {"take", "osjoin"} /\ pc'[a] = "body" =>
         tgt[a] \in finished /\ tgt[a] \notin mutators]_vars

\* A terminated worker that is not suspended again comes to its end, unless
\* it is itself waiting for another thread to finish.
TerminateEnds ==
  \A t \in Tids :
    []<>(\/ t \notin terminate \/ t \in suspend \/ pc[t] = "dead"
         \/ pc[t] \in {"joinwait", "osjoin"})

\* A terminated worker does not stay parked, whatever is requested after.
TerminateUnparks ==
  \A t \in Tids : (t \in terminate /\ pc[t] = "parked") ~> (pc[t] # "parked")

\* Every join of a thread that finishes returns.
JoinReturns ==
  \A a \in Threads, t \in Tids :
    [](t \in finished => <>(tgt[a] # t \/ pc[a] \notin {"joinwait", "osjoin"}))
=============================================================================
