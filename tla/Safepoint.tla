----------------------------- MODULE Safepoint -----------------------------
(***************************************************************************)
(* The cooperative stop-the-world rendezvous of newgc-core                 *)
(* (crates/newgc-core/src/page_heap/mutator.rs and shared.rs).             *)
(*                                                                         *)
(* Any registered mutator may drive a collection.  It announces itself,    *)
(* takes coord_mutex, bumps the epoch, stops the world, waits for every    *)
(* other mutator to park, to be in native code, to be queued as a driver   *)
(* or to be gone, collects under the heap mutex and resumes the world on   *)
(* every exit path, an out-of-memory unwind included.                      *)
(*                                                                         *)
(* A step is one critical section of park_mutex, or the code between two   *)
(* of them.  cvWait is the wait set of park_cv: a thread in it sleeps      *)
(* until a notify_all (which empties it) or a spurious wake-up; the        *)
(* driver's wait_timeout is such a wake-up.                                *)
(*                                                                         *)
(* The heap is a number, gen, advanced by every collection, and a root is  *)
(* the gen for which it is valid: a mutator that runs with an older root   *)
(* would dereference an address the collector has vacated.                 *)
(***************************************************************************)
EXTENDS Naturals, FiniteSets

CONSTANTS Mutators,     \* the threads that may register
          NoOne,        \* owner of a free mutex
          MaxEpoch,     \* bound on the number of collections
          CanOom        \* may a collection run out of memory half-way?

ASSUME SafepointAssumption ==
  /\ NoOne \notin Mutators
  /\ MaxEpoch \in Nat
  /\ CanOom \in BOOLEAN

VARIABLES epoch,          \* Safepoint.epoch
          worldRunning,   \* Safepoint.world_running = 1
          cvWait,         \* the threads asleep on park_cv
          coord,          \* the holder of coord_mutex
          heap,           \* the holder of the heap mutex
          lastEpoch,      \* MutatorInner.last_epoch
          active,         \* MutatorInner.is_active
          acting,         \* MutatorInner.is_acting_coordinator
          native,         \* MutatorInner.state = IN_NATIVE
          registry,       \* Registry.slots
          snapshot,       \* MutatorInner.roots_snapshot
          others,         \* the driver's registry.snapshot()
          waitFor,        \* those of others the wait loop has not passed
          poisoned,       \* the mutexes poisoned by an unwind
          oom,            \* the driver is unwinding
          roots,          \* the caller's root slice
          tlab,           \* does a mutator hold a TLAB slab?
          gen,            \* the number of completed collections
          pc              \* where each thread is

sync     == <<epoch, worldRunning, cvWait>>
locks    == <<coord, heap, poisoned>>
inner    == <<lastEpoch, active, acting, native>>
driver   == <<others, waitFor, oom>>
data     == <<snapshot, roots, tlab, gen>>
vars     == <<sync, locks, inner, registry, driver, data, pc>>

PCs == {"out", "register", "dead", "run", "refill", "alloc",
        "parking", "parked", "unparked",
        "entering", "native", "leaving", "left",
        "driving", "contend", "stop", "await", "stopped", "collect",
        "resume", "release", "drove", "stall", "unwind", "dropping"}

\* Every variable has its type; the epoch, which only a stop of the world
\* advances, bounds what each mutator has seen and the collections made.
TypeOK ==
  /\ epoch \in Nat /\ gen \in 0..epoch
  /\ worldRunning \in BOOLEAN /\ oom \in BOOLEAN
  /\ cvWait \subseteq Mutators
  /\ coord \in Mutators \cup {NoOne} /\ heap \in Mutators \cup {NoOne}
  /\ lastEpoch \in [Mutators -> 0..epoch]
  /\ active \in [Mutators -> BOOLEAN]
  /\ acting \in [Mutators -> BOOLEAN]
  /\ native \in [Mutators -> BOOLEAN]
  /\ registry \subseteq Mutators
  /\ others \subseteq Mutators /\ waitFor \subseteq Mutators
  /\ poisoned \in [coord : BOOLEAN, heap : BOOLEAN, snapshot : SUBSET Mutators]
  /\ snapshot \in [Mutators -> 0..gen] /\ roots \in [Mutators -> 0..gen]
  /\ tlab \in [Mutators -> BOOLEAN]
  /\ pc \in [Mutators -> PCs]

Init ==
  /\ epoch = 0 /\ worldRunning = TRUE /\ cvWait = {}
  /\ coord = NoOne /\ heap = NoOne
  /\ poisoned = [coord |-> FALSE, heap |-> FALSE, snapshot |-> {}]
  /\ lastEpoch = [m \in Mutators |-> 0]
  /\ active = [m \in Mutators |-> FALSE]
  /\ acting = [m \in Mutators |-> FALSE]
  /\ native = [m \in Mutators |-> FALSE]
  /\ registry = {}
  /\ others = {} /\ waitFor = {} /\ oom = FALSE
  /\ snapshot = [m \in Mutators |-> 0]
  /\ roots = [m \in Mutators |-> 0]
  /\ tlab = [m \in Mutators |-> FALSE]
  /\ gen = 0
  /\ pc = [m \in Mutators |-> "out"]

Goto(m, from, to) == pc[m] = from /\ pc' = [pc EXCEPT ![m] = to]

(***************************************************************************)
(* Registration: GcCoordinator::register_mutator.                          *)
(***************************************************************************)

\* One brief heap lock to clone the shared handle.
RegisterHandle(m) ==
  /\ heap = NoOne
  /\ Goto(m, "out", IF poisoned.heap THEN "dead" ELSE "register")
  /\ UNCHANGED <<sync, locks, inner, registry, driver, data>>

\* Defect: the registry is written without coord_mutex.
RegisterUnlocked(m) ==
  /\ ~poisoned.coord
  /\ Goto(m, "register", "run")
  /\ lastEpoch' = [lastEpoch EXCEPT ![m] = epoch]
  /\ active' = [active EXCEPT ![m] = TRUE]
  /\ registry' = registry \cup {m}
  /\ UNCHANGED <<sync, locks, acting, native, driver, data>>

\* Under coord_mutex, so that a newcomer cannot join a cycle in flight.
Register(m) ==
  /\ coord = NoOne
  /\ ~poisoned.coord
  /\ Goto(m, "register", "run")
  /\ lastEpoch' = [lastEpoch EXCEPT ![m] = epoch]
  /\ active' = [active EXCEPT ![m] = TRUE]
  /\ acting' = [acting EXCEPT ![m] = FALSE]
  /\ native' = [native EXCEPT ![m] = FALSE]
  /\ registry' = registry \cup {m}
  /\ roots' = [roots EXCEPT ![m] = gen]
  /\ snapshot' = [snapshot EXCEPT ![m] = gen]
  /\ tlab' = [tlab EXCEPT ![m] = FALSE]
  /\ UNCHANGED <<sync, locks, driver, gen>>

RegisterPanics(m) ==
  /\ coord = NoOne
  /\ poisoned.coord
  /\ Goto(m, "register", "dead")
  /\ UNCHANGED <<sync, locks, inner, registry, driver, data>>

(***************************************************************************)
(* Mutator::drop: leave the wait set, then the registry.                   *)
(***************************************************************************)

DropInactive(m) ==
  /\ pc[m] \in {"run", "stall", "unwind"}
  /\ pc' = [pc EXCEPT ![m] = "dropping"]
  /\ active' = [active EXCEPT ![m] = FALSE]
  /\ cvWait' = {}
  /\ UNCHANGED <<epoch, worldRunning, locks, lastEpoch, acting, native,
                 registry, driver, data>>

Deregister(m) ==
  /\ Goto(m, "dropping", "out")
  /\ registry' = registry \ {m}
  /\ UNCHANGED <<sync, locks, inner, driver, data>>

(***************************************************************************)
(* Allocation: only a TLAB refill meets the collector, on the heap mutex.  *)
(***************************************************************************)

BumpMiss(m) ==
  /\ Goto(m, "run", "refill")
  /\ UNCHANGED <<sync, locks, inner, registry, driver, data>>

RefillLock(m) ==
  /\ heap = NoOne
  /\ ~poisoned.heap
  /\ Goto(m, "refill", "alloc")
  /\ heap' = m
  /\ UNCHANGED <<sync, coord, poisoned, inner, registry, driver, data>>

\* `heap.lock().unwrap()` on a poisoned mutex.
RefillPanics(m) ==
  /\ heap = NoOne
  /\ poisoned.heap
  /\ Goto(m, "refill", "unwind")
  /\ UNCHANGED <<sync, locks, inner, registry, driver, data>>

Refilled(m) ==
  /\ Goto(m, "alloc", "run")
  /\ heap' = NoOne
  /\ tlab' = [tlab EXCEPT ![m] = TRUE]
  /\ UNCHANGED <<sync, coord, poisoned, inner, registry, driver, snapshot,
                 roots, gen>>

(***************************************************************************)
(* Publishing and copying back the roots: the first and the last thing     *)
(* park, enter/leave_native and drive_collect do, with the snapshot mutex. *)
(***************************************************************************)

\* Defect: the TLABs are not flushed.
PublishUnflushed(m, to) ==
  /\ pc[m] = "run" /\ m \notin poisoned.snapshot
  /\ pc' = [pc EXCEPT ![m] = to]
  /\ snapshot' = [snapshot EXCEPT ![m] = roots[m]]
  /\ UNCHANGED <<sync, locks, inner, registry, driver, roots, tlab, gen>>

Publish(m, to) ==
  /\ pc[m] = "run"
  /\ IF m \in poisoned.snapshot
     THEN /\ pc' = [pc EXCEPT ![m] = "unwind"]
          /\ UNCHANGED <<snapshot, tlab>>
     ELSE /\ pc' = [pc EXCEPT ![m] = to]
          /\ snapshot' = [snapshot EXCEPT ![m] = roots[m]]
          /\ tlab' = [tlab EXCEPT ![m] = FALSE]
  /\ UNCHANGED <<sync, locks, inner, registry, driver, roots, gen>>

CopyBack(m) ==
  /\ pc[m] \in {"unparked", "left", "drove"}
  /\ IF m \in poisoned.snapshot
     THEN /\ pc' = [pc EXCEPT ![m] = "unwind"]
          /\ UNCHANGED roots
     ELSE /\ pc' = [pc EXCEPT ![m] = "run"]
          /\ roots' = [roots EXCEPT ![m] = snapshot[m]]
  /\ UNCHANGED <<sync, locks, inner, registry, driver, snapshot, tlab, gen>>

(***************************************************************************)
(* poll_safepoint and park.                                                *)
(***************************************************************************)

\* The fast path (no safepoint pending) changes nothing.
PollPending(m) ==
  /\ lastEpoch[m] # epoch
  /\ Publish(m, "parking")

\* Defect: no re-arm, a woken thread keeps the epoch it first parked for.
ParkRoundNoRearm(m, woken) ==
  /\ lastEpoch' = [lastEpoch EXCEPT ![m] =
                     IF pc[m] = "parking" THEN epoch ELSE @]
  /\ pc' = [pc EXCEPT ![m] = IF worldRunning THEN "unparked" ELSE "parked"]
  /\ cvWait' = IF worldRunning THEN woken ELSE woken \cup {m}
  /\ UNCHANGED <<epoch, worldRunning, locks, active, acting, native,
                 registry, driver, data>>

\* The body of park's loop under park_mutex: re-arm at the current epoch,
\* then go on if the world runs and sleep if it does not.
ParkRound(m, woken) ==
  /\ lastEpoch' = [lastEpoch EXCEPT ![m] = epoch]
  /\ IF worldRunning
     THEN /\ pc' = [pc EXCEPT ![m] = "unparked"]
          /\ cvWait' = woken
     ELSE /\ pc' = [pc EXCEPT ![m] = "parked"]
          /\ cvWait' = woken \cup {m}
  /\ UNCHANGED <<epoch, worldRunning, locks, active, acting, native,
                 registry, driver, data>>

\* Arrival: always announced by a notify_all.
ParkArrive(m) ==
  /\ pc[m] = "parking"
  /\ ParkRound(m, {})

\* A woken thread re-announces only if the epoch has moved.
ParkWoken(m) ==
  /\ pc[m] = "parked" /\ m \notin cvWait
  /\ ParkRound(m, IF lastEpoch[m] # epoch THEN {} ELSE cvWait)

(***************************************************************************)
(* enter_native and leave_native.                                          *)
(***************************************************************************)

EnterNative(m) == Publish(m, "entering")

\* Defect: IN_NATIVE is stored without a notify_all.
EnteredNativeSilently(m) ==
  /\ Goto(m, "entering", "native")
  /\ native' = [native EXCEPT ![m] = TRUE]
  /\ UNCHANGED <<sync, locks, lastEpoch, active, acting, registry, driver,
                 data>>

EnteredNative(m) ==
  /\ Goto(m, "entering", "native")
  /\ native' = [native EXCEPT ![m] = TRUE]
  /\ cvWait' = {}
  /\ UNCHANGED <<epoch, worldRunning, locks, lastEpoch, active, acting,
                 registry, driver, data>>

\* The foreign call returns, at a time of its own choosing.
NativeReturns(m) ==
  /\ Goto(m, "native", "leaving")
  /\ UNCHANGED <<sync, locks, inner, registry, driver, data>>

LeaveBlocked(m) ==
  /\ pc[m] = "leaving" /\ m \notin cvWait
  /\ ~worldRunning
  /\ cvWait' = cvWait \cup {m}
  /\ UNCHANGED <<epoch, worldRunning, locks, inner, registry, driver,
                 data, pc>>

\* Defect: leave_native does not look at the world at all.
LeaveNativeAtOnce(m) ==
  /\ Goto(m, "leaving", "left")
  /\ native' = [native EXCEPT ![m] = FALSE]
  /\ UNCHANGED <<sync, locks, lastEpoch, active, acting, registry, driver,
                 data>>

LeaveNative(m) ==
  /\ m \notin cvWait
  /\ worldRunning
  /\ Goto(m, "leaving", "left")
  /\ lastEpoch' = [lastEpoch EXCEPT ![m] = epoch]
  /\ native' = [native EXCEPT ![m] = FALSE]
  /\ UNCHANGED <<sync, locks, active, acting, registry, driver, data>>

(***************************************************************************)
(* drive_collect.                                                          *)
(***************************************************************************)

\* Threads that will still bump the epoch.
Bumpers == {m \in Mutators : pc[m] \in {"driving", "contend", "stop"}}

DrivePublish(m) ==
  /\ epoch + Cardinality(Bumpers) < MaxEpoch
  /\ Publish(m, "driving")

DriveAnnounce(m) ==
  /\ Goto(m, "driving", "contend")
  /\ acting' = [acting EXCEPT ![m] = TRUE]
  /\ cvWait' = {}
  /\ UNCHANGED <<epoch, worldRunning, locks, lastEpoch, active, native,
                 registry, driver, data>>

LockCoord(m) ==
  /\ coord = NoOne
  /\ ~poisoned.coord
  /\ Goto(m, "contend", "stop")
  /\ coord' = m
  /\ UNCHANGED <<sync, heap, poisoned, inner, registry, driver, data>>

\* The panic comes before the ResumeGuard exists: acting stays set.
LockCoordPanics(m) ==
  /\ coord = NoOne
  /\ poisoned.coord
  /\ Goto(m, "contend", "unwind")
  /\ UNCHANGED <<sync, locks, inner, registry, driver, data>>

\* Defect: the new epoch is counted twice.
StopWorldTwice(m) ==
  /\ Goto(m, "stop", "await")
  /\ epoch' = epoch + 1
  /\ lastEpoch' = [lastEpoch EXCEPT ![m] = epoch + 2]
  /\ worldRunning' = FALSE
  /\ others' = registry /\ waitFor' = registry
  /\ UNCHANGED <<cvWait, locks, active, acting, native, registry, oom, data>>

StopWorld(m) ==
  /\ Goto(m, "stop", "await")
  /\ epoch' = epoch + 1
  /\ lastEpoch' = [lastEpoch EXCEPT ![m] = epoch + 1]
  /\ worldRunning' = FALSE
  /\ others' = registry /\ waitFor' = registry
  /\ UNCHANGED <<cvWait, locks, active, acting, native, registry, oom, data>>

\* Defect: off by one, a mutator parked for the previous cycle counts.
ArrivedLastTime(m) ==
  ~active[m] \/ acting[m] \/ native[m] \/ lastEpoch[m] + 1 >= epoch

\* What the wait loop accepts as "this mutator will not touch the heap".
Arrived(m) ==
  \/ ~active[m]
  \/ acting[m]
  \/ native[m]
  \/ lastEpoch[m] >= epoch

AwaitPass(d) ==
  /\ pc[d] = "await" /\ d \notin cvWait
  /\ \E m \in waitFor : Arrived(m) /\ waitFor' = waitFor \ {m}
  /\ UNCHANGED <<sync, locks, inner, registry, others, oom, data, pc>>

AwaitSleep(d) ==
  /\ pc[d] = "await" /\ d \notin cvWait
  /\ \E m \in waitFor : ~Arrived(m)
  /\ cvWait' = cvWait \cup {d}
  /\ UNCHANGED <<epoch, worldRunning, locks, inner, registry, driver,
                 data, pc>>

AwaitDone(d) ==
  /\ d \notin cvWait
  /\ waitFor = {}
  /\ Goto(d, "await", "stopped")
  /\ UNCHANGED <<sync, locks, inner, registry, driver, data>>

\* coord_mutex is poisoned by every unwind that poisons the heap mutex,
\* so a driver that holds coord_mutex finds the heap mutex sound.
CollectBegin(d) ==
  /\ heap = NoOne
  /\ Goto(d, "stopped", "collect")
  /\ heap' = d
  /\ UNCHANGED <<sync, coord, poisoned, inner, registry, driver, data>>

\* Defect: threads in native code are not visited.
VisitedParked == {m \in others : active[m] /\ ~native[m]}

Visited == {m \in others : active[m]}

\* Every live object may move; the snapshots visited follow it.
Collect(d) ==
  /\ Goto(d, "collect", "resume")
  /\ gen' = gen + 1
  /\ snapshot' = [m \in Mutators |->
                    IF m \in Visited THEN gen + 1 ELSE snapshot[m]]
  /\ heap' = NoOne
  /\ UNCHANGED <<sync, coord, poisoned, inner, registry, driver, roots,
                 tlab>>

\* Mid-evacuation OOM: the panic may strike while one snapshot is locked.
CollectPanics(d) ==
  /\ CanOom
  /\ Goto(d, "collect", "resume")
  /\ \E held \in SUBSET Visited :
        /\ Cardinality(held) <= 1
        /\ poisoned' = [poisoned EXCEPT !.heap = TRUE, !.snapshot = held]
  /\ heap' = NoOne
  /\ oom' = TRUE
  /\ UNCHANGED <<sync, coord, inner, registry, others, waitFor, data>>

\* Defect: the resume is published without a notify_all.
ResumeSilently(d) ==
  /\ Goto(d, "resume", "release")
  /\ worldRunning' = TRUE
  /\ acting' = [acting EXCEPT ![d] = FALSE]
  /\ UNCHANGED <<epoch, cvWait, locks, lastEpoch, active, native, registry,
                 driver, data>>

\* ResumeGuard::drop.
ResumeWorld(d) ==
  /\ Goto(d, "resume", "release")
  /\ worldRunning' = TRUE
  /\ acting' = [acting EXCEPT ![d] = FALSE]
  /\ cvWait' = {}
  /\ UNCHANGED <<epoch, locks, lastEpoch, active, native, registry,
                 driver, data>>

\* The coord_mutex guard is dropped last, poisoned by an unwind.
ReleaseCoord(d) ==
  /\ Goto(d, "release", IF oom THEN "stall" ELSE "drove")
  /\ coord' = NoOne
  /\ poisoned' = [poisoned EXCEPT !.coord = oom]
  /\ oom' = FALSE
  /\ UNCHANGED <<sync, heap, inner, registry, others, waitFor, data>>

\* catch_gc_stall_as_condition turns the driver's own unwind into a Lisp
\* condition: the mutator lives on, its roots never copied back.
CatchStall(m) ==
  /\ Goto(m, "stall", "run")
  /\ UNCHANGED <<sync, locks, inner, registry, driver, data>>

\* A spurious wake-up of park_cv, or the expiry of the driver's wait.
Wake(m) ==
  /\ m \in cvWait
  /\ cvWait' = cvWait \ {m}
  /\ UNCHANGED <<epoch, worldRunning, locks, inner, registry, driver,
                 data, pc>>

(***************************************************************************)

\* The steps a thread takes without being asked to, once it is in them.
Progress(m) ==
  \/ Register(m) \/ RegisterPanics(m) \/ Deregister(m)
  \/ RefillLock(m) \/ RefillPanics(m) \/ Refilled(m)
  \/ CopyBack(m)
  \/ PollPending(m) \/ ParkArrive(m) \/ ParkWoken(m)
  \/ EnteredNative(m) \/ LeaveBlocked(m) \/ LeaveNative(m)
  \/ DriveAnnounce(m) \/ LockCoord(m) \/ LockCoordPanics(m)
  \/ StopWorld(m) \/ AwaitPass(m) \/ AwaitSleep(m) \/ AwaitDone(m)
  \/ CollectBegin(m) \/ Collect(m) \/ CollectPanics(m)
  \/ ResumeWorld(m) \/ ReleaseCoord(m)

\* The choices of the program and of its environment.
Choice(m) ==
  \/ RegisterHandle(m) \/ DropInactive(m) \/ BumpMiss(m)
  \/ EnterNative(m) \/ NativeReturns(m) \/ DrivePublish(m)
  \/ CatchStall(m) \/ Wake(m)

Next == \E m \in Mutators : Progress(m) \/ Choice(m)

Spec == Init /\ [][Next]_vars

\* Every thread is scheduled, and a thread in managed code keeps coming back
\* to a safepoint poll (the allocation loops of ncl-runtime poll before each
\* attempt), also when it allocates in between: hence the strong fairness.
\* Nothing is assumed of the program's choices, nor of spurious wake-ups or
\* the driver's time-out.
FairSpec ==
  /\ Spec
  /\ \A m \in Mutators : WF_vars(Progress(m)) /\ SF_vars(PollPending(m))

(***************************************************************************)
(* Properties.                                                             *)
(***************************************************************************)

\* Places of a thread that is not, or no longer, registered; of one that
\* touches the managed heap; and of one that a driver must wait for.
Absent   == {"out", "register", "dead", "dropping"}
Touching == {"run", "refill", "alloc"}
Managed  == Touching \cup {"parking", "entering", "driving",
                           "unparked", "left", "drove"}

\* Places where a thread neither touches the managed heap nor will do so
\* before it has passed through a critical section of the rendezvous.
Halted == Absent \cup {"parked", "native", "leaving", "contend"}

\* While a mutator collects, every other thread is halted: parked, in a
\* foreign call, queued behind coord_mutex, or not registered.
WorldStopped ==
  \A d \in Mutators : pc[d] = "collect" =>
     \A m \in Mutators \ {d} : pc[m] \in Halted

\* No TLAB survives into a collection: its cursor would point into a page
\* the collector has evacuated.
SlabsFlushed ==
  \A d \in Mutators : pc[d] = "collect" =>
     \A m \in Mutators : active[m] => ~tlab[m]

\* A mutator in managed code holds roots that are valid now: whichever way
\* it sat out the collections (parked through several of them, in native
\* code, as a queued driver), each one visited its snapshot and it copied
\* the result back before it went on.
RootsFresh ==
  ~poisoned.heap =>
     \A m \in Mutators : pc[m] \in Touching =>
                        roots[m] = gen

\* Once the driver's wait loop accepts a mutator, nothing makes it
\* unacceptable until the world is resumed, so that the loop may look at
\* each mutator once, in turn, and drop park_mutex in between.
StoppedPCs == {"await", "stopped", "collect", "resume"}

ArrivalIsStable ==
  [][\A d, m \in Mutators :
       (pc[d] \in StoppedPCs /\ pc'[d] \in StoppedPCs /\ m # d /\ Arrived(m))
         => Arrived(m)']_vars

\* No wake-up is lost: nobody sleeps on park_cv while the world runs, and a
\* parked thread that sleeps has announced the epoch the driver waits for
\* (a straggler parked for an earlier cycle has re-armed).
NoLostWakeup ==
  /\ worldRunning => cvWait = {}
  /\ \A m \in cvWait : pc[m] = "parked" => lastEpoch[m] = epoch

\* The driver never needs its time-out: without any spurious wake-up the
\* wait loop ends, with all mutators arrived.
SafepointReached ==
  \A d \in Mutators : pc[d] = "await" ~> pc[d] = "stopped"

\* The world is resumed on every path, an OOM unwind included, and no
\* parked or returning thread is left behind.
WorldResumes ==
  \A m \in Mutators : pc[m] \in {"parked", "leaving"}
                        ~> pc[m] \in {"run", "unwind"}

\* The rendezvous implements the abstract stop-the-world collector: a
\* thread is managed from the moment it may go on to the moment it has
\* announced that it halts, and its authoritative roots are its own while
\* it touches the heap and its snapshot otherwise.
AbsPlace ==
  [m \in Mutators |->
     IF pc[m] \in Absent THEN "absent"
     ELSE IF pc[m] \in Managed THEN "managed" ELSE "halted"]

AbsCollector ==
  IF heap \in Mutators /\ pc[heap] = "collect" THEN heap ELSE NoOne

AbsAddr ==
  [m \in Mutators |-> IF pc[m] \in Touching THEN roots[m] ELSE snapshot[m]]

Abstract ==
  INSTANCE StopTheWorld WITH
    place <- AbsPlace, collector <- AbsCollector, addr <- AbsAddr,
    broken <- poisoned.heap

ImplementsStopTheWorld == Abstract!Spec
=============================================================================
