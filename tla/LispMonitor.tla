---------------------------- MODULE LispMonitor ----------------------------
(***************************************************************************)
(* The reentrant critical sections and condition variables of ncl-runtime  *)
(* threads.rs, with the Lisp wrapper condvar-wait and the one fact about   *)
(* collections that matters here: a collection begins by waiting until     *)
(* every other thread has parked at a poll or announced a blocking call.   *)
(*                                                                         *)
(* A section is a (owner, count) pair guarded by a mutex with a condvar;   *)
(* a region of that mutex is one step.  The registries number sections and *)
(* condition variables independently from 1, so handles are numbers here.  *)
(***************************************************************************)
EXTENDS Naturals, FiniteSets

CONSTANTS Threads,
          Sections,     \* handles in the critical-section registry
          Condvars,     \* handles in the condvar registry
          Pairs,        \* the (condvar, section) pairs the program waits on
          MaxDepth,     \* bound on reentrance
          Collecting,   \* do threads trigger collections?
          None

ASSUME MonitorAssumption ==
  /\ Sections \subseteq Nat /\ Condvars \subseteq Nat
  /\ Pairs \subseteq Condvars \X Sections
  /\ MaxDepth \in Nat \ {0} /\ Collecting \in BOOLEAN /\ None \notin Threads

VARIABLES pc,       \* where each thread is
          sec, cv,  \* the handles its operation resolved to
          mode,     \* timeout_ms of its wait: "forever", "timed" or "zero"
          owner,    \* CsState.owner
          count,    \* CsState.count
          saved,    \* saved_count of a wait
          aux,      \* the holder of CondvarEntry.aux
          native,   \* threads between enter_blocked and leave_blocked
          driver,   \* the thread driving a collection
          depth     \* history: the enters a thread has not left

cs   == <<owner, count, saved>>
vars == <<pc, sec, cv, mode, owner, count, saved, aux, native, driver, depth>>

Init == /\ pc = [t \in Threads |-> "run"]
        /\ sec = [t \in Threads |-> 0] /\ cv = [t \in Threads |-> 0]
        /\ mode = [t \in Threads |-> "forever"]
        /\ owner = [s \in Sections |-> None]
        /\ count = [s \in Sections |-> 0]
        /\ saved = [t \in Threads |-> 0]
        /\ aux = [v \in Condvars |-> None]
        /\ native = {} /\ driver = None
        /\ depth = [t \in Threads |-> [s \in Sections |-> 0]]

Goto(t, from, to) == pc[t] = from /\ pc' = [pc EXCEPT ![t] = to]

\* Threads asleep on a section's condvar: in enter, or taking it back in wait.
Asleep(s) == {t \in Threads : pc[t] \in {"enterSleep", "backSleep"} /\ sec[t] = s}
Awake(p, t) == [p EXCEPT ![t] = IF @ = "enterSleep" THEN "enter" ELSE "back"]

\* cs.cv.notify_one() by thread t, which goes on to label.
NotifyOne(s, t, label) ==
  LET p == [pc EXCEPT ![t] = label] IN
  IF Asleep(s) = {} THEN pc' = p ELSE \E u \in Asleep(s) : pc' = Awake(p, u)

------------------------------------------------------------------------------
(* enter_critical_section and leave_critical_section.                       *)

BeginEnter(t, s) ==
  /\ depth[t][s] < MaxDepth
  /\ Goto(t, "run", "enter")
  /\ sec' = [sec EXCEPT ![t] = s]
  /\ UNCHANGED <<cv, mode, cs, aux, native, driver, depth>>

\* Take a free section, go deeper into one's own, or wait on its condvar.
Enter(t) ==
  LET s == sec[t] IN
  /\ pc[t] = "enter"
  /\ IF owner[s] \in {None, t}
       THEN /\ Goto(t, "enter", "run")
            /\ owner' = [owner EXCEPT ![s] = t]
            /\ count' = [count EXCEPT ![s] = @ + 1]
            /\ depth' = [depth EXCEPT ![t][s] = @ + 1]
       ELSE Goto(t, "enter", "enterSleep") /\ UNCHANGED <<owner, count, depth>>
  /\ UNCHANGED <<sec, cv, mode, saved, aux, native, driver>>

LeaveSilently(t, s) ==       \* mutant: the sleepers are not notified
  /\ Goto(t, "run", "run")
  /\ owner[s] = t
  /\ count' = [count EXCEPT ![s] = @ - 1]
  /\ depth' = [depth EXCEPT ![t][s] = @ - 1]
  /\ owner' = IF count[s] = 1 THEN [owner EXCEPT ![s] = None] ELSE owner
  /\ UNCHANGED <<sec, cv, mode, saved, aux, native, driver>>

\* A leave by another thread than the owner returns false.
Leave(t, s) ==
  /\ pc[t] = "run"
  /\ owner[s] = t
  /\ count' = [count EXCEPT ![s] = @ - 1]
  /\ depth' = [depth EXCEPT ![t][s] = @ - 1]
  /\ IF count[s] = 1
       THEN owner' = [owner EXCEPT ![s] = None] /\ NotifyOne(s, t, "run")
       ELSE UNCHANGED <<owner, pc>>
  /\ UNCHANGED <<sec, cv, mode, saved, aux, native, driver>>

------------------------------------------------------------------------------
(* condvar_wait.                                                            *)

\* condvar_wait_shim: a wait that may block is announced to the collector.
WaitCall(t, v, s, how) ==
  /\ Goto(t, "run", "lookup")
  /\ cv' = [cv EXCEPT ![t] = v]
  /\ sec' = [sec EXCEPT ![t] = s]
  /\ mode' = [mode EXCEPT ![t] = how]
  /\ native' = IF how = "zero" THEN native ELSE native \cup {t}
  /\ UNCHANGED <<cs, aux, driver, depth>>

\* Lisp/Library/threads.lisp (condvar-wait cv cs): it calls
\* (%condvar-wait (cs cs) cv timeout), and the shim takes its first argument
\* for the condition variable and its second for the section.
CondvarWait(t, v, s, how) == WaitCall(t, s, v, how)

\* Unknown handles: return false.
Lookup(t) ==
  /\ Goto(t, "lookup", IF cv[t] \in Condvars /\ sec[t] \in Sections
                         THEN "claim" ELSE "fail")
  /\ UNCHANGED <<sec, cv, mode, cs, aux, native, driver, depth>>

ClaimNothing(t) ==           \* mutant: the section is released without aux
  /\ Goto(t, "claim", "release")
  /\ UNCHANGED <<sec, cv, mode, cs, aux, native, driver, depth>>

\* Step 1: claim entry.aux, before the section is released.
Claim(t) ==
  /\ Goto(t, "claim", "release")
  /\ aux[cv[t]] = None
  /\ aux' = [aux EXCEPT ![cv[t]] = t]
  /\ UNCHANGED <<sec, cv, mode, cs, native, driver, depth>>

ReleaseKeepsCount(t) ==      \* mutant: the count is not reset
  LET s == sec[t] IN
  /\ pc[t] = "release" /\ owner[s] = t
  /\ saved' = [saved EXCEPT ![t] = count[s]]
  /\ owner' = [owner EXCEPT ![s] = None]
  /\ NotifyOne(s, t, "park")
  /\ UNCHANGED <<count, sec, cv, mode, aux, native, driver, depth>>

\* Step 2: release the section whatever its count; only its owner may wait.
Release(t) ==
  LET s == sec[t] IN
  /\ pc[t] = "release"
  /\ IF owner[s] = t
       THEN /\ saved' = [saved EXCEPT ![t] = count[s]]
            /\ owner' = [owner EXCEPT ![s] = None]
            /\ count' = [count EXCEPT ![s] = 0]
            /\ NotifyOne(s, t, "park")
            /\ aux' = aux
       ELSE /\ Goto(t, "release", "fail")
            /\ aux' = [aux EXCEPT ![cv[t]] = None]
            /\ UNCHANGED cs
  /\ UNCHANGED <<sec, cv, mode, native, driver, depth>>

\* Step 3: the wait gives aux back as it goes to sleep; timeout 0 does not wait.
ParkOnCv(t) ==
  /\ Goto(t, "park", IF mode[t] = "zero" THEN "back" ELSE "cvSleep")
  /\ aux' = [aux EXCEPT ![cv[t]] = None]
  /\ UNCHANGED <<sec, cv, mode, cs, native, driver, depth>>

\* The time-out of a timed wait, or a spurious wake-up.
WaitEnds(t) ==
  /\ Goto(t, "cvSleep", "woken")
  /\ UNCHANGED <<sec, cv, mode, cs, aux, native, driver, depth>>

\* The wait returns holding aux, which is dropped at once.
PassAux(t) ==
  /\ Goto(t, "woken", "back")
  /\ aux[cv[t]] = None
  /\ UNCHANGED <<sec, cv, mode, cs, aux, native, driver, depth>>

TakeBackOnce(t) ==           \* mutant: the reentrance count is forgotten
  LET s == sec[t] IN
  /\ Goto(t, "back", "leaveBlocked")
  /\ owner[s] = None
  /\ owner' = [owner EXCEPT ![s] = t]
  /\ count' = [count EXCEPT ![s] = 1]
  /\ UNCHANGED <<sec, cv, mode, saved, aux, native, driver, depth>>

\* Step 4: take the section back at the same reentrance count.
TakeBack(t) ==
  LET s == sec[t] IN
  /\ pc[t] = "back"
  /\ IF owner[s] = None
       THEN /\ Goto(t, "back", "leaveBlocked")
            /\ owner' = [owner EXCEPT ![s] = t]
            /\ count' = [count EXCEPT ![s] = saved[t]]
       ELSE Goto(t, "back", "backSleep") /\ UNCHANGED <<owner, count>>
  /\ UNCHANGED <<sec, cv, mode, saved, aux, native, driver, depth>>

\* leave_blocked waits for the end of a collection.
LeaveBlocked(t) ==
  /\ pc[t] \in {"leaveBlocked", "fail"}
  /\ t \in native => driver = None
  /\ pc' = [pc EXCEPT ![t] = "run"]
  /\ native' = native \ {t}
  /\ UNCHANGED <<sec, cv, mode, cs, aux, driver, depth>>

------------------------------------------------------------------------------
(* condvar_notify and condvar_broadcast: both pass through entry.aux.       *)

BeginNotify(t, v, label) ==
  /\ Goto(t, "run", label)
  /\ cv' = [cv EXCEPT ![t] = v]
  /\ UNCHANGED <<sec, mode, cs, aux, native, driver, depth>>

Waiting(v) == {t \in Threads : pc[t] = "cvSleep" /\ cv[t] = v}

Notify(t) ==
  /\ pc[t] = "notify" /\ aux[cv[t]] = None
  /\ LET p == [pc EXCEPT ![t] = "run"] IN
     IF Waiting(cv[t]) = {} THEN pc' = p
     ELSE \E u \in Waiting(cv[t]) : pc' = [p EXCEPT ![u] = "woken"]
  /\ UNCHANGED <<sec, cv, mode, cs, aux, native, driver, depth>>

Broadcast(t) ==
  /\ pc[t] = "broadcast" /\ aux[cv[t]] = None
  /\ pc' = [u \in Threads |-> IF u = t THEN "run"
                              ELSE IF u \in Waiting(cv[t]) THEN "woken" ELSE pc[u]]
  /\ UNCHANGED <<sec, cv, mode, cs, aux, native, driver, depth>>

------------------------------------------------------------------------------
(* Collections, as Safepoint models them in full.                           *)

Drive(t) ==
  /\ Collecting /\ driver = None
  /\ Goto(t, "run", "drive")
  /\ driver' = t
  /\ UNCHANGED <<sec, cv, mode, cs, aux, native, depth>>

\* A poll at which a driver is waiting.
ParkForGc(t) ==
  /\ driver # None
  /\ Goto(t, "run", "gcPark")
  /\ UNCHANGED <<sec, cv, mode, cs, aux, native, driver, depth>>

Arrived(t) == pc[t] = "gcPark" \/ t \in native

\* The driver waits for every other thread, for as long as it takes.
Collected(t) ==
  /\ pc[t] = "drive"
  /\ \A u \in Threads \ {t} : Arrived(u)
  /\ pc' = [u \in Threads |-> IF u = t \/ pc[u] = "gcPark" THEN "run" ELSE pc[u]]
  /\ driver' = None
  /\ UNCHANGED <<sec, cv, mode, cs, aux, native, depth>>

------------------------------------------------------------------------------
Continue(t) == \/ Enter(t) \/ Lookup(t) \/ Claim(t) \/ Release(t)
               \/ ParkOnCv(t) \/ PassAux(t) \/ TakeBack(t) \/ LeaveBlocked(t)
               \/ Notify(t) \/ Broadcast(t) \/ Collected(t)

Choose(t) ==
  \/ \E s \in Sections : BeginEnter(t, s) \/ Leave(t, s)
  \/ \E p \in Pairs, how \in {"forever", "timed", "zero"} :
       CondvarWait(t, p[1], p[2], how)
  \/ \E v \in Condvars : BeginNotify(t, v, "notify") \/ BeginNotify(t, v, "broadcast")
  \/ Drive(t)

Next == \E t \in Threads : Continue(t) \/ Choose(t) \/ WaitEnds(t) \/ ParkForGc(t)

\* A thread that can go on is scheduled, and managed code keeps polling.
Fairness == \A t \in Threads : WF_vars(Continue(t)) /\ SF_vars(ParkForGc(t))

Spec == Init /\ [][Next]_vars
FairSpec == Spec /\ Fairness

------------------------------------------------------------------------------
(* Properties.                                                              *)

Labels == {"run", "enter", "enterSleep", "lookup", "claim", "release", "park",
           "cvSleep", "woken", "back", "backSleep", "leaveBlocked", "fail",
           "notify", "broadcast", "drive", "gcPark"}

\* Every variable has its type, and a section has an owner exactly when its
\* count is positive (CsState).
TypeOK ==
  /\ pc \in [Threads -> Labels]
  /\ owner \in [Sections -> Threads \cup {None}]
  /\ count \in [Sections -> 0..MaxDepth]
  /\ \A s \in Sections : owner[s] = None <=> count[s] = 0
  /\ aux \in [Condvars -> Threads \cup {None}]
  /\ native \subseteq Threads /\ driver \in Threads \cup {None}
  /\ depth \in [Threads -> [Sections -> 0..MaxDepth]]

\* In the body of a wait, between giving the section up and having it back.
GaveUp(t, s) == sec[t] = s /\ pc[t] \in {"park", "cvSleep", "woken", "back", "backSleep"}

\* A thread that has entered a section more often than it has left it owns it
\* at exactly that count, except inside a wait, through any nesting of waits,
\* time-outs and barging (enter, leave, condvar_wait steps 2 and 4).
SectionHeld ==
  \A t \in Threads, s \in Sections :
    depth[t][s] > 0 /\ ~GaveUp(t, s) => owner[s] = t /\ count[s] = depth[t][s]

\* A free section never leaves its sleepers behind: one of them has been woken
\* or somebody else is about to take it, and will notify when leaving.
NoStrandedSleeper ==
  \A s \in Sections :
    owner[s] = None /\ Asleep(s) # {} =>
      \E t \in Threads : sec[t] = s /\ pc[t] \in {"enter", "back"}

\* Threads that have given up the section to wait on a condition variable.
Committed(v) == {u \in Threads : cv[u] = v /\ pc[u] \in {"park", "cvSleep"}}

\* The lost-wakeup argument of condvar_wait: a notify that comes after a waiter
\* has given up the section wakes a waiter, even one that is not asleep yet.
NotifyWakes ==
  [][\A t \in Threads :
       pc[t] = "notify" /\ pc'[t] = "run" /\ Committed(cv[t]) # {} =>
         \E u \in Committed(cv[t]) : pc'[u] = "woken"]_vars

\* Every collection ends: no thread keeps its driver waiting for ever.
CollectionEnds == \A t \in Threads : driver = t ~> driver # t
=============================================================================
