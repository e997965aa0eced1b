-------------------------- MODULE SafepointProofs --------------------------
(***************************************************************************)
(* For any number of mutators and of collections: the type invariant of    *)
(* Safepoint, the exclusion between collector and managed code, freshness  *)
(* of the roots, flushed TLABs and the absence of lost wake-ups; and the   *)
(* rendezvous implements StopTheWorld.                                     *)
(***************************************************************************)
EXTENDS Safepoint, TLAPS

Driving   == {"stop", "await", "stopped", "collect", "resume", "release"}
Gathering == {"await", "stopped", "collect"}

\* coord_mutex is held exactly by the thread between LockCoord and
\* ReleaseCoord, and is sound while it is held.
CoordInv ==
  /\ \A m \in Mutators : pc[m] \in Driving <=> coord = m
  /\ coord # NoOne => ~poisoned.coord

\* So is the heap mutex by an allocator or the collector.
HeapInv ==
  \A m \in Mutators : pc[m] \in {"alloc", "collect"} <=> heap = m

\* The world is stopped exactly between StopWorld and ResumeWorld.
WorldInv ==
  ~worldRunning <=> \E d \in Mutators : pc[d] \in StoppedPCs

\* What each flag says of the place its owner is at.
FlagsInv ==
  \A m \in Mutators :
    /\ acting[m] => \/ pc[m] \in ({"contend"} \cup Driving) \ {"release"}
                    \/ poisoned.coord
    /\ native[m] => pc[m] \in {"native", "leaving"}
    /\ active[m] <=> pc[m] \notin Absent
    /\ active[m] => m \in registry
    /\ tlab[m] => pc[m] \in Touching \cup Absent \cup {"unwind"}

\* A mutator that has reached the epoch of the stopped world is parked.
EpochInv ==
  \A m \in Mutators :
    ~worldRunning /\ m # coord /\ lastEpoch[m] = epoch => pc[m] = "parked"

\* Whoever the wait loop has passed is halted, and will be visited.
GatherInv ==
  \A d \in Mutators :
    /\ pc[d] \in Gathering =>
         /\ gen < epoch
         /\ \A m \in Mutators : active[m] => m \in others
         /\ \A m \in Mutators \ {d} : pc[m] \in Halted \/ m \in waitFor
    /\ pc[d] \in {"stopped", "collect"} => waitFor = {}

\* The heap mutex and coord_mutex are poisoned by the same unwind, one at
\* its start and the other at its end.
PoisonInv ==
  /\ oom => poisoned.heap /\ coord # NoOne
  /\ poisoned.heap /\ ~oom => poisoned.coord
  /\ \A d \in Mutators : pc[d] \in {"stop"} \cup Gathering => ~poisoned.heap

\* A registered mutator's snapshot is valid, and so are its own roots while
\* it runs.
RootInv ==
  ~poisoned.heap =>
    /\ ~poisoned.coord /\ ~oom /\ poisoned.snapshot = {}
    /\ \A m \in Mutators :
         /\ pc[m] \notin {"stall", "unwind"}
         /\ pc[m] \in Touching => roots[m] = gen
         /\ pc[m] \notin Absent => snapshot[m] = gen

IInv ==
  /\ TypeOK /\ CoordInv /\ HeapInv /\ WorldInv /\ FlagsInv /\ EpochInv
  /\ GatherInv /\ PoisonInv /\ RootInv /\ NoLostWakeup

(***************************************************************************)
(* Every conjunct is inductive relative to the others.                     *)
(***************************************************************************)

\* Publishing the roots (or unwinding from it) keeps the types.
LEMMA PublishType ==
  ASSUME TypeOK, NEW m \in Mutators, NEW to \in PCs, Publish(m, to)
  PROVE  TypeOK'
<1> USE DEF TypeOK, PCs, sync, locks, inner, driver, data
<1>1. /\ snapshot' \in [Mutators -> 0..gen]
     /\ pc' \in [Mutators -> PCs]
     /\ tlab' \in [Mutators -> BOOLEAN]
  <2>1. CASE m \in poisoned.snapshot
    BY <2>1 DEF Publish
  <2>2. CASE m \notin poisoned.snapshot
    <3>1. /\ pc' = [pc EXCEPT ![m] = to]
          /\ snapshot' = [snapshot EXCEPT ![m] = roots[m]]
          /\ tlab' = [tlab EXCEPT ![m] = FALSE]
      BY <2>2 DEF Publish
    <3>2. pc' \in [Mutators -> PCs]
      BY <3>1
    <3>3. snapshot' \in [Mutators -> 0..gen]
      BY <3>1
    <3>4. tlab' \in [Mutators -> BOOLEAN]
      BY <3>1
    <3> QED BY <3>2, <3>3, <3>4
  <2> QED BY <2>1, <2>2
<1>2. QED
  BY <1>1 DEF Publish


\* The new epoch still bounds every last_epoch.
LEMMA StopType ==
  ASSUME TypeOK, NEW m \in Mutators, StopWorld(m)
  PROVE  TypeOK'
<1> USE DEF TypeOK, PCs, sync, locks, inner, driver, data, StopWorld, Goto
<1>1. epoch' \in Nat /\ gen' \in 0..epoch'
  OBVIOUS
<1>2. lastEpoch' \in [Mutators -> 0..epoch']
  <2>1. 0..epoch \subseteq 0..(epoch + 1) /\ epoch + 1 \in 0..(epoch + 1)
    OBVIOUS
  <2>2. lastEpoch \in [Mutators -> 0..(epoch + 1)]
    BY <2>1
  <2> QED
    BY <2>1, <2>2
<1>3. QED
  BY <1>1, <1>2


\* A collection is counted by the epoch of its stop, so gen stays below it.
LEMMA CollectType ==
  ASSUME TypeOK, GatherInv, NEW m \in Mutators, Collect(m)
  PROVE  TypeOK'
<1> USE DEF TypeOK, PCs, sync, locks, inner, driver, data, Collect, Goto
<1>1. gen' \in 0..epoch' /\ 0..gen \subseteq 0..gen' /\ gen + 1 \in 0..gen'
  BY DEF GatherInv, Gathering
<1>2. snapshot' \in [Mutators -> 0..gen'] /\ roots' \in [Mutators -> 0..gen']
  BY <1>1
<1>3. QED
  BY <1>1, <1>2

\* Every step keeps the types.
LEMMA TypePreserved ==
  ASSUME IInv, [Next]_vars
  PROVE  TypeOK'
<1> USE SafepointAssumption DEF TypeOK, PCs, sync, locks, inner, driver, data
<1>1. SUFFICES ASSUME NEW m \in Mutators, Progress(m) \/ Choice(m)
               PROVE  TypeOK'
  BY DEF Next, vars, IInv, sync, locks, inner, driver, data
<1>2. CASE RegisterHandle(m)
  BY <1>2 DEF RegisterHandle, Goto, IInv
<1>3. CASE Register(m)
  BY <1>3 DEF Register, Goto, IInv
<1>4. CASE RegisterPanics(m)
  BY <1>4 DEF RegisterPanics, Goto, IInv
<1>5. CASE DropInactive(m)
  BY <1>5 DEF DropInactive, IInv
<1>6. CASE Deregister(m)
  BY <1>6 DEF Deregister, Goto, IInv
<1>7. CASE BumpMiss(m)
  BY <1>7 DEF BumpMiss, Goto, IInv
<1>8. CASE RefillLock(m)
  BY <1>8 DEF RefillLock, Goto, IInv
<1>9. CASE RefillPanics(m)
  BY <1>9 DEF RefillPanics, Goto, IInv
<1>10. CASE Refilled(m)
  BY <1>10 DEF Refilled, Goto, IInv
<1>11. CASE CopyBack(m)
  BY <1>11 DEF CopyBack, IInv
<1>12. CASE PollPending(m)
  BY <1>12, PublishType DEF PollPending, IInv
<1>13. CASE ParkArrive(m)
  BY <1>13 DEF ParkArrive, ParkRound, IInv
<1>14. CASE ParkWoken(m)
  BY <1>14 DEF ParkWoken, ParkRound, IInv
<1>15. CASE EnterNative(m)
  BY <1>15, PublishType DEF EnterNative, IInv
<1>16. CASE EnteredNative(m)
  BY <1>16 DEF EnteredNative, Goto, IInv
<1>17. CASE NativeReturns(m)
  BY <1>17 DEF NativeReturns, Goto, IInv
<1>18. CASE LeaveBlocked(m)
  BY <1>18 DEF LeaveBlocked, IInv
<1>19. CASE LeaveNative(m)
  BY <1>19 DEF LeaveNative, Goto, IInv
<1>20. CASE DrivePublish(m)
  BY <1>20, PublishType DEF DrivePublish, IInv
<1>21. CASE DriveAnnounce(m)
  BY <1>21 DEF DriveAnnounce, Goto, IInv
<1>22. CASE LockCoord(m)
  BY <1>22 DEF LockCoord, Goto, IInv
<1>23. CASE LockCoordPanics(m)
  BY <1>23 DEF LockCoordPanics, Goto, IInv
<1>24. CASE StopWorld(m)
  BY <1>24, StopType DEF IInv
<1>25. CASE AwaitPass(m)
  BY <1>25 DEF AwaitPass, IInv
<1>26. CASE AwaitSleep(m)
  BY <1>26 DEF AwaitSleep, IInv
<1>27. CASE AwaitDone(m)
  BY <1>27 DEF AwaitDone, Goto, IInv
<1>28. CASE CollectBegin(m)
  BY <1>28 DEF CollectBegin, Goto, IInv
<1>29. CASE Collect(m)
  BY <1>29, CollectType DEF IInv
<1>30. CASE CollectPanics(m)
  BY <1>30 DEF CollectPanics, Goto, Visited, IInv
<1>31. CASE ResumeWorld(m)
  BY <1>31 DEF ResumeWorld, Goto, IInv
<1>32. CASE ReleaseCoord(m)
  BY <1>32 DEF ReleaseCoord, Goto, IInv
<1>33. CASE CatchStall(m)
  BY <1>33 DEF CatchStall, Goto, IInv
<1>34. CASE Wake(m)
  BY <1>34 DEF Wake, IInv
<1>35. QED
  BY <1>1, <1>2, <1>3, <1>4, <1>5, <1>6, <1>7, <1>8, <1>9, <1>10, <1>11,
     <1>12, <1>13, <1>14, <1>15, <1>16, <1>17, <1>18, <1>19, <1>20, <1>21,
     <1>22, <1>23, <1>24, <1>25, <1>26, <1>27, <1>28, <1>29, <1>30, <1>31,
     <1>32, <1>33, <1>34 DEF Progress, Choice

\* A step takes or gives coord_mutex exactly when it enters or leaves the
\* stretch of drive_collect that holds it.
LEMMA CoordPreserved ==
  ASSUME IInv, [Next]_vars
  PROVE  CoordInv'
<1> USE SafepointAssumption DEF TypeOK, CoordInv, PCs, Driving, sync, locks,
        inner, driver, data
<1>1. SUFFICES ASSUME NEW m \in Mutators, Progress(m) \/ Choice(m)
               PROVE  CoordInv'
  BY DEF Next, vars, IInv, sync, locks, inner, driver, data
<1>2. CASE RegisterHandle(m)
  BY <1>2 DEF RegisterHandle, Goto, IInv
<1>3. CASE Register(m)
  BY <1>3 DEF Register, Goto, IInv
<1>4. CASE RegisterPanics(m)
  BY <1>4 DEF RegisterPanics, Goto, IInv
<1>5. CASE DropInactive(m)
  BY <1>5 DEF DropInactive, IInv
<1>6. CASE Deregister(m)
  BY <1>6 DEF Deregister, Goto, IInv
<1>7. CASE BumpMiss(m)
  BY <1>7 DEF BumpMiss, Goto, IInv
<1>8. CASE RefillLock(m)
  BY <1>8 DEF RefillLock, Goto, IInv
<1>9. CASE RefillPanics(m)
  BY <1>9 DEF RefillPanics, Goto, IInv
<1>10. CASE Refilled(m)
  BY <1>10 DEF Refilled, Goto, IInv
<1>11. CASE CopyBack(m)
  BY <1>11 DEF CopyBack, IInv
<1>12. CASE PollPending(m)
  BY <1>12 DEF PollPending, Publish, IInv
<1>13. CASE ParkArrive(m)
  BY <1>13 DEF ParkArrive, ParkRound, IInv
<1>14. CASE ParkWoken(m)
  BY <1>14 DEF ParkWoken, ParkRound, IInv
<1>15. CASE EnterNative(m)
  BY <1>15 DEF EnterNative, Publish, IInv
<1>16. CASE EnteredNative(m)
  BY <1>16 DEF EnteredNative, Goto, IInv
<1>17. CASE NativeReturns(m)
  BY <1>17 DEF NativeReturns, Goto, IInv
<1>18. CASE LeaveBlocked(m)
  BY <1>18 DEF LeaveBlocked, IInv
<1>19. CASE LeaveNative(m)
  BY <1>19 DEF LeaveNative, Goto, IInv
<1>20. CASE DrivePublish(m)
  BY <1>20 DEF DrivePublish, Publish, IInv
<1>21. CASE DriveAnnounce(m)
  BY <1>21 DEF DriveAnnounce, Goto, IInv
<1>22. CASE LockCoord(m)
  BY <1>22 DEF LockCoord, Goto, IInv
<1>23. CASE LockCoordPanics(m)
  BY <1>23 DEF LockCoordPanics, Goto, IInv
<1>24. CASE StopWorld(m)
  BY <1>24 DEF StopWorld, Goto, IInv
<1>25. CASE AwaitPass(m)
  BY <1>25 DEF AwaitPass, IInv
<1>26. CASE AwaitSleep(m)
  BY <1>26 DEF AwaitSleep, IInv
<1>27. CASE AwaitDone(m)
  BY <1>27 DEF AwaitDone, Goto, IInv
<1>28. CASE CollectBegin(m)
  BY <1>28 DEF CollectBegin, Goto, IInv
<1>29. CASE Collect(m)
  BY <1>29 DEF Collect, Goto, Visited, IInv
<1>30. CASE CollectPanics(m)
  BY <1>30 DEF CollectPanics, Goto, Visited, IInv
<1>31. CASE ResumeWorld(m)
  BY <1>31 DEF ResumeWorld, Goto, IInv
<1>32. CASE ReleaseCoord(m)
  BY <1>32 DEF ReleaseCoord, Goto, IInv
<1>33. CASE CatchStall(m)
  BY <1>33 DEF CatchStall, Goto, IInv
<1>34. CASE Wake(m)
  BY <1>34 DEF Wake, IInv
<1>35. QED
  BY <1>1, <1>2, <1>3, <1>4, <1>5, <1>6, <1>7, <1>8, <1>9, <1>10, <1>11,
     <1>12, <1>13, <1>14, <1>15, <1>16, <1>17, <1>18, <1>19, <1>20, <1>21,
     <1>22, <1>23, <1>24, <1>25, <1>26, <1>27, <1>28, <1>29, <1>30, <1>31,
     <1>32, <1>33, <1>34 DEF Progress, Choice

\* The heap mutex is taken for an allocation or a collection and given back
\* at its end.
LEMMA HeapPreserved ==
  ASSUME IInv, [Next]_vars
  PROVE  HeapInv'
<1> USE SafepointAssumption DEF TypeOK, HeapInv, PCs, sync, locks, inner,
        driver, data
<1>1. SUFFICES ASSUME NEW m \in Mutators, Progress(m) \/ Choice(m)
               PROVE  HeapInv'
  BY DEF Next, vars, IInv, sync, locks, inner, driver, data
<1>2. CASE RegisterHandle(m)
  BY <1>2 DEF RegisterHandle, Goto, IInv
<1>3. CASE Register(m)
  BY <1>3 DEF Register, Goto, IInv
<1>4. CASE RegisterPanics(m)
  BY <1>4 DEF RegisterPanics, Goto, IInv
<1>5. CASE DropInactive(m)
  BY <1>5 DEF DropInactive, IInv
<1>6. CASE Deregister(m)
  BY <1>6 DEF Deregister, Goto, IInv
<1>7. CASE BumpMiss(m)
  BY <1>7 DEF BumpMiss, Goto, IInv
<1>8. CASE RefillLock(m)
  BY <1>8 DEF RefillLock, Goto, IInv
<1>9. CASE RefillPanics(m)
  BY <1>9 DEF RefillPanics, Goto, IInv
<1>10. CASE Refilled(m)
  BY <1>10 DEF Refilled, Goto, IInv
<1>11. CASE CopyBack(m)
  BY <1>11 DEF CopyBack, IInv
<1>12. CASE PollPending(m)
  BY <1>12 DEF PollPending, Publish, IInv
<1>13. CASE ParkArrive(m)
  BY <1>13 DEF ParkArrive, ParkRound, IInv
<1>14. CASE ParkWoken(m)
  BY <1>14 DEF ParkWoken, ParkRound, IInv
<1>15. CASE EnterNative(m)
  BY <1>15 DEF EnterNative, Publish, IInv
<1>16. CASE EnteredNative(m)
  BY <1>16 DEF EnteredNative, Goto, IInv
<1>17. CASE NativeReturns(m)
  BY <1>17 DEF NativeReturns, Goto, IInv
<1>18. CASE LeaveBlocked(m)
  BY <1>18 DEF LeaveBlocked, IInv
<1>19. CASE LeaveNative(m)
  BY <1>19 DEF LeaveNative, Goto, IInv
<1>20. CASE DrivePublish(m)
  BY <1>20 DEF DrivePublish, Publish, IInv
<1>21. CASE DriveAnnounce(m)
  BY <1>21 DEF DriveAnnounce, Goto, IInv
<1>22. CASE LockCoord(m)
  BY <1>22 DEF LockCoord, Goto, IInv
<1>23. CASE LockCoordPanics(m)
  BY <1>23 DEF LockCoordPanics, Goto, IInv
<1>24. CASE StopWorld(m)
  BY <1>24 DEF StopWorld, Goto, IInv
<1>25. CASE AwaitPass(m)
  BY <1>25 DEF AwaitPass, IInv
<1>26. CASE AwaitSleep(m)
  BY <1>26 DEF AwaitSleep, IInv
<1>27. CASE AwaitDone(m)
  BY <1>27 DEF AwaitDone, Goto, IInv
<1>28. CASE CollectBegin(m)
  BY <1>28 DEF CollectBegin, Goto, IInv
<1>29. CASE Collect(m)
  BY <1>29 DEF Collect, Goto, Visited, IInv
<1>30. CASE CollectPanics(m)
  BY <1>30 DEF CollectPanics, Goto, Visited, IInv
<1>31. CASE ResumeWorld(m)
  BY <1>31 DEF ResumeWorld, Goto, IInv
<1>32. CASE ReleaseCoord(m)
  BY <1>32 DEF ReleaseCoord, Goto, IInv
<1>33. CASE CatchStall(m)
  BY <1>33 DEF CatchStall, Goto, IInv
<1>34. CASE Wake(m)
  BY <1>34 DEF Wake, IInv
<1>35. QED
  BY <1>1, <1>2, <1>3, <1>4, <1>5, <1>6, <1>7, <1>8, <1>9, <1>10, <1>11,
     <1>12, <1>13, <1>14, <1>15, <1>16, <1>17, <1>18, <1>19, <1>20, <1>21,
     <1>22, <1>23, <1>24, <1>25, <1>26, <1>27, <1>28, <1>29, <1>30, <1>31,
     <1>32, <1>33, <1>34 DEF Progress, Choice

\* Only StopWorld and ResumeWorld, whose caller holds coord_mutex, stop and
\* resume the world.
LEMMA WorldPreserved ==
  ASSUME IInv, [Next]_vars
  PROVE  WorldInv'
<1> USE SafepointAssumption DEF TypeOK, CoordInv, WorldInv, PCs, Driving,
        StoppedPCs, sync, locks, inner, driver, data
<1>1. SUFFICES ASSUME NEW m \in Mutators, Progress(m) \/ Choice(m)
               PROVE  WorldInv'
  BY DEF Next, vars, IInv, sync, locks, inner, driver, data
<1>2. CASE RegisterHandle(m)
  BY <1>2 DEF RegisterHandle, Goto, IInv
<1>3. CASE Register(m)
  BY <1>3 DEF Register, Goto, IInv
<1>4. CASE RegisterPanics(m)
  BY <1>4 DEF RegisterPanics, Goto, IInv
<1>5. CASE DropInactive(m)
  BY <1>5 DEF DropInactive, IInv
<1>6. CASE Deregister(m)
  BY <1>6 DEF Deregister, Goto, IInv
<1>7. CASE BumpMiss(m)
  BY <1>7 DEF BumpMiss, Goto, IInv
<1>8. CASE RefillLock(m)
  BY <1>8 DEF RefillLock, Goto, IInv
<1>9. CASE RefillPanics(m)
  BY <1>9 DEF RefillPanics, Goto, IInv
<1>10. CASE Refilled(m)
  BY <1>10 DEF Refilled, Goto, IInv
<1>11. CASE CopyBack(m)
  BY <1>11 DEF CopyBack, IInv
<1>12. CASE PollPending(m)
  BY <1>12 DEF PollPending, Publish, IInv
<1>13. CASE ParkArrive(m)
  BY <1>13 DEF ParkArrive, ParkRound, IInv
<1>14. CASE ParkWoken(m)
  BY <1>14 DEF ParkWoken, ParkRound, IInv
<1>15. CASE EnterNative(m)
  BY <1>15 DEF EnterNative, Publish, IInv
<1>16. CASE EnteredNative(m)
  BY <1>16 DEF EnteredNative, Goto, IInv
<1>17. CASE NativeReturns(m)
  BY <1>17 DEF NativeReturns, Goto, IInv
<1>18. CASE LeaveBlocked(m)
  BY <1>18 DEF LeaveBlocked, IInv
<1>19. CASE LeaveNative(m)
  BY <1>19 DEF LeaveNative, Goto, IInv
<1>20. CASE DrivePublish(m)
  BY <1>20 DEF DrivePublish, Publish, IInv
<1>21. CASE DriveAnnounce(m)
  BY <1>21 DEF DriveAnnounce, Goto, IInv
<1>22. CASE LockCoord(m)
  BY <1>22 DEF LockCoord, Goto, IInv
<1>23. CASE LockCoordPanics(m)
  BY <1>23 DEF LockCoordPanics, Goto, IInv
<1>24. CASE StopWorld(m)
  BY <1>24 DEF StopWorld, Goto, IInv
<1>25. CASE AwaitPass(m)
  BY <1>25 DEF AwaitPass, IInv
<1>26. CASE AwaitSleep(m)
  BY <1>26 DEF AwaitSleep, IInv
<1>27. CASE AwaitDone(m)
  BY <1>27 DEF AwaitDone, Goto, IInv
<1>28. CASE CollectBegin(m)
  BY <1>28 DEF CollectBegin, Goto, IInv
<1>29. CASE Collect(m)
  BY <1>29 DEF Collect, Goto, Visited, IInv
<1>30. CASE CollectPanics(m)
  BY <1>30 DEF CollectPanics, Goto, Visited, IInv
<1>31. CASE ResumeWorld(m)
  BY <1>31 DEF ResumeWorld, Goto, IInv
<1>32. CASE ReleaseCoord(m)
  BY <1>32 DEF ReleaseCoord, Goto, IInv
<1>33. CASE CatchStall(m)
  BY <1>33 DEF CatchStall, Goto, IInv
<1>34. CASE Wake(m)
  BY <1>34 DEF Wake, IInv
<1>35. QED
  BY <1>1, <1>2, <1>3, <1>4, <1>5, <1>6, <1>7, <1>8, <1>9, <1>10, <1>11,
     <1>12, <1>13, <1>14, <1>15, <1>16, <1>17, <1>18, <1>19, <1>20, <1>21,
     <1>22, <1>23, <1>24, <1>25, <1>26, <1>27, <1>28, <1>29, <1>30, <1>31,
     <1>32, <1>33, <1>34 DEF Progress, Choice

\* Each flag is set and cleared where its owner says it is.
LEMMA FlagsPreserved ==
  ASSUME IInv, [Next]_vars
  PROVE  FlagsInv'
<1> USE SafepointAssumption DEF TypeOK, CoordInv, FlagsInv, PCs, Driving,
        Touching, Absent, sync, locks, inner, driver, data
<1>1. SUFFICES ASSUME NEW m \in Mutators, Progress(m) \/ Choice(m)
               PROVE  FlagsInv'
  BY DEF Next, vars, IInv, sync, locks, inner, driver, data
<1>2. CASE RegisterHandle(m)
  BY <1>2 DEF RegisterHandle, Goto, IInv
<1>3. CASE Register(m)
  BY <1>3 DEF Register, Goto, IInv
<1>4. CASE RegisterPanics(m)
  BY <1>4 DEF RegisterPanics, Goto, IInv
<1>5. CASE DropInactive(m)
  BY <1>5 DEF DropInactive, IInv
<1>6. CASE Deregister(m)
  BY <1>6 DEF Deregister, Goto, IInv
<1>7. CASE BumpMiss(m)
  BY <1>7 DEF BumpMiss, Goto, IInv
<1>8. CASE RefillLock(m)
  BY <1>8 DEF RefillLock, Goto, IInv
<1>9. CASE RefillPanics(m)
  BY <1>9 DEF RefillPanics, Goto, IInv
<1>10. CASE Refilled(m)
  BY <1>10 DEF Refilled, Goto, IInv
<1>11. CASE CopyBack(m)
  BY <1>11 DEF CopyBack, IInv
<1>12. CASE PollPending(m)
  BY <1>12 DEF PollPending, Publish, IInv
<1>13. CASE ParkArrive(m)
  BY <1>13 DEF ParkArrive, ParkRound, IInv
<1>14. CASE ParkWoken(m)
  BY <1>14 DEF ParkWoken, ParkRound, IInv
<1>15. CASE EnterNative(m)
  BY <1>15 DEF EnterNative, Publish, IInv
<1>16. CASE EnteredNative(m)
  BY <1>16 DEF EnteredNative, Goto, IInv
<1>17. CASE NativeReturns(m)
  BY <1>17 DEF NativeReturns, Goto, IInv
<1>18. CASE LeaveBlocked(m)
  BY <1>18 DEF LeaveBlocked, IInv
<1>19. CASE LeaveNative(m)
  BY <1>19 DEF LeaveNative, Goto, IInv
<1>20. CASE DrivePublish(m)
  BY <1>20 DEF DrivePublish, Publish, IInv
<1>21. CASE DriveAnnounce(m)
  BY <1>21 DEF DriveAnnounce, Goto, IInv
<1>22. CASE LockCoord(m)
  BY <1>22 DEF LockCoord, Goto, IInv
<1>23. CASE LockCoordPanics(m)
  BY <1>23 DEF LockCoordPanics, Goto, IInv
<1>24. CASE StopWorld(m)
  BY <1>24 DEF StopWorld, Goto, IInv
<1>25. CASE AwaitPass(m)
  BY <1>25 DEF AwaitPass, IInv
<1>26. CASE AwaitSleep(m)
  BY <1>26 DEF AwaitSleep, IInv
<1>27. CASE AwaitDone(m)
  BY <1>27 DEF AwaitDone, Goto, IInv
<1>28. CASE CollectBegin(m)
  BY <1>28 DEF CollectBegin, Goto, IInv
<1>29. CASE Collect(m)
  BY <1>29 DEF Collect, Goto, Visited, IInv
<1>30. CASE CollectPanics(m)
  BY <1>30 DEF CollectPanics, Goto, Visited, IInv
<1>31. CASE ResumeWorld(m)
  BY <1>31 DEF ResumeWorld, Goto, IInv
<1>32. CASE ReleaseCoord(m)
  BY <1>32 DEF ReleaseCoord, Goto, IInv
<1>33. CASE CatchStall(m)
  BY <1>33 DEF CatchStall, Goto, IInv
<1>34. CASE Wake(m)
  BY <1>34 DEF Wake, IInv
<1>35. QED
  BY <1>1, <1>2, <1>3, <1>4, <1>5, <1>6, <1>7, <1>8, <1>9, <1>10, <1>11,
     <1>12, <1>13, <1>14, <1>15, <1>16, <1>17, <1>18, <1>19, <1>20, <1>21,
     <1>22, <1>23, <1>24, <1>25, <1>26, <1>27, <1>28, <1>29, <1>30, <1>31,
     <1>32, <1>33, <1>34 DEF Progress, Choice

\* While the world is stopped only a parked mutator takes the new epoch.
LEMMA EpochPreserved ==
  ASSUME IInv, [Next]_vars
  PROVE  EpochInv'
<1> USE SafepointAssumption DEF TypeOK, CoordInv, WorldInv, EpochInv, PCs,
        Driving, StoppedPCs, sync, locks, inner, driver, data
<1>1. SUFFICES ASSUME NEW m \in Mutators, Progress(m) \/ Choice(m)
               PROVE  EpochInv'
  BY DEF Next, vars, IInv, sync, locks, inner, driver, data
<1>2. CASE RegisterHandle(m)
  BY <1>2 DEF RegisterHandle, Goto, IInv
<1>3. CASE Register(m)
  BY <1>3 DEF Register, Goto, IInv
<1>4. CASE RegisterPanics(m)
  BY <1>4 DEF RegisterPanics, Goto, IInv
<1>5. CASE DropInactive(m)
  BY <1>5 DEF DropInactive, IInv
<1>6. CASE Deregister(m)
  BY <1>6 DEF Deregister, Goto, IInv
<1>7. CASE BumpMiss(m)
  BY <1>7 DEF BumpMiss, Goto, IInv
<1>8. CASE RefillLock(m)
  BY <1>8 DEF RefillLock, Goto, IInv
<1>9. CASE RefillPanics(m)
  BY <1>9 DEF RefillPanics, Goto, IInv
<1>10. CASE Refilled(m)
  BY <1>10 DEF Refilled, Goto, IInv
<1>11. CASE CopyBack(m)
  BY <1>11 DEF CopyBack, IInv
<1>12. CASE PollPending(m)
  BY <1>12 DEF PollPending, Publish, IInv
<1>13. CASE ParkArrive(m)
  BY <1>13 DEF ParkArrive, ParkRound, IInv
<1>14. CASE ParkWoken(m)
  BY <1>14 DEF ParkWoken, ParkRound, IInv
<1>15. CASE EnterNative(m)
  BY <1>15 DEF EnterNative, Publish, IInv
<1>16. CASE EnteredNative(m)
  BY <1>16 DEF EnteredNative, Goto, IInv
<1>17. CASE NativeReturns(m)
  BY <1>17 DEF NativeReturns, Goto, IInv
<1>18. CASE LeaveBlocked(m)
  BY <1>18 DEF LeaveBlocked, IInv
<1>19. CASE LeaveNative(m)
  BY <1>19 DEF LeaveNative, Goto, IInv
<1>20. CASE DrivePublish(m)
  BY <1>20 DEF DrivePublish, Publish, IInv
<1>21. CASE DriveAnnounce(m)
  BY <1>21 DEF DriveAnnounce, Goto, IInv
<1>22. CASE LockCoord(m)
  BY <1>22 DEF LockCoord, Goto, IInv
<1>23. CASE LockCoordPanics(m)
  BY <1>23 DEF LockCoordPanics, Goto, IInv
<1>24. CASE StopWorld(m)
  BY <1>24 DEF StopWorld, Goto, IInv
<1>25. CASE AwaitPass(m)
  BY <1>25 DEF AwaitPass, IInv
<1>26. CASE AwaitSleep(m)
  BY <1>26 DEF AwaitSleep, IInv
<1>27. CASE AwaitDone(m)
  BY <1>27 DEF AwaitDone, Goto, IInv
<1>28. CASE CollectBegin(m)
  BY <1>28 DEF CollectBegin, Goto, IInv
<1>29. CASE Collect(m)
  BY <1>29 DEF Collect, Goto, Visited, IInv
<1>30. CASE CollectPanics(m)
  BY <1>30 DEF CollectPanics, Goto, Visited, IInv
<1>31. CASE ResumeWorld(m)
  BY <1>31 DEF ResumeWorld, Goto, IInv
<1>32. CASE ReleaseCoord(m)
  BY <1>32 DEF ReleaseCoord, Goto, IInv
<1>33. CASE CatchStall(m)
  BY <1>33 DEF CatchStall, Goto, IInv
<1>34. CASE Wake(m)
  BY <1>34 DEF Wake, IInv
<1>35. QED
  BY <1>1, <1>2, <1>3, <1>4, <1>5, <1>6, <1>7, <1>8, <1>9, <1>10, <1>11,
     <1>12, <1>13, <1>14, <1>15, <1>16, <1>17, <1>18, <1>19, <1>20, <1>21,
     <1>22, <1>23, <1>24, <1>25, <1>26, <1>27, <1>28, <1>29, <1>30, <1>31,
     <1>32, <1>33, <1>34 DEF Progress, Choice

\* What the wait loop has passed stays halted.
LEMMA GatherPreserved ==
  ASSUME IInv, [Next]_vars
  PROVE  GatherInv'
<1> USE SafepointAssumption DEF TypeOK, CoordInv, WorldInv, FlagsInv,
        EpochInv, GatherInv, PCs, Driving, StoppedPCs, Absent, Gathering,
        Halted, Arrived, sync, locks, inner, driver, data
<1>1. SUFFICES ASSUME NEW m \in Mutators, Progress(m) \/ Choice(m)
               PROVE  GatherInv'
  BY DEF Next, vars, IInv, sync, locks, inner, driver, data
<1>2. CASE RegisterHandle(m)
  BY <1>2 DEF RegisterHandle, Goto, IInv
<1>3. CASE Register(m)
  BY <1>3 DEF Register, Goto, IInv
<1>4. CASE RegisterPanics(m)
  BY <1>4 DEF RegisterPanics, Goto, IInv
<1>5. CASE DropInactive(m)
  BY <1>5 DEF DropInactive, IInv
<1>6. CASE Deregister(m)
  BY <1>6 DEF Deregister, Goto, IInv
<1>7. CASE BumpMiss(m)
  BY <1>7 DEF BumpMiss, Goto, IInv
<1>8. CASE RefillLock(m)
  BY <1>8 DEF RefillLock, Goto, IInv
<1>9. CASE RefillPanics(m)
  BY <1>9 DEF RefillPanics, Goto, IInv
<1>10. CASE Refilled(m)
  BY <1>10 DEF Refilled, Goto, IInv
<1>11. CASE CopyBack(m)
  BY <1>11 DEF CopyBack, IInv
<1>12. CASE PollPending(m)
  BY <1>12 DEF PollPending, Publish, IInv
<1>13. CASE ParkArrive(m)
  BY <1>13 DEF ParkArrive, ParkRound, IInv
<1>14. CASE ParkWoken(m)
  BY <1>14 DEF ParkWoken, ParkRound, IInv
<1>15. CASE EnterNative(m)
  BY <1>15 DEF EnterNative, Publish, IInv
<1>16. CASE EnteredNative(m)
  BY <1>16 DEF EnteredNative, Goto, IInv
<1>17. CASE NativeReturns(m)
  BY <1>17 DEF NativeReturns, Goto, IInv
<1>18. CASE LeaveBlocked(m)
  BY <1>18 DEF LeaveBlocked, IInv
<1>19. CASE LeaveNative(m)
  BY <1>19 DEF LeaveNative, Goto, IInv
<1>20. CASE DrivePublish(m)
  BY <1>20 DEF DrivePublish, Publish, IInv
<1>21. CASE DriveAnnounce(m)
  BY <1>21 DEF DriveAnnounce, Goto, IInv
<1>22. CASE LockCoord(m)
  BY <1>22 DEF LockCoord, Goto, IInv
<1>23. CASE LockCoordPanics(m)
  BY <1>23 DEF LockCoordPanics, Goto, IInv
<1>24. CASE StopWorld(m)
  BY <1>24 DEF StopWorld, Goto, IInv
<1>25. CASE AwaitPass(m)
  BY <1>25 DEF AwaitPass, IInv
<1>26. CASE AwaitSleep(m)
  BY <1>26 DEF AwaitSleep, IInv
<1>27. CASE AwaitDone(m)
  BY <1>27 DEF AwaitDone, Goto, IInv
<1>28. CASE CollectBegin(m)
  BY <1>28 DEF CollectBegin, Goto, IInv
<1>29. CASE Collect(m)
  BY <1>29 DEF Collect, Goto, Visited, IInv
<1>30. CASE CollectPanics(m)
  BY <1>30 DEF CollectPanics, Goto, Visited, IInv
<1>31. CASE ResumeWorld(m)
  BY <1>31 DEF ResumeWorld, Goto, IInv
<1>32. CASE ReleaseCoord(m)
  BY <1>32 DEF ReleaseCoord, Goto, IInv
<1>33. CASE CatchStall(m)
  BY <1>33 DEF CatchStall, Goto, IInv
<1>34. CASE Wake(m)
  BY <1>34 DEF Wake, IInv
<1>35. QED
  BY <1>1, <1>2, <1>3, <1>4, <1>5, <1>6, <1>7, <1>8, <1>9, <1>10, <1>11,
     <1>12, <1>13, <1>14, <1>15, <1>16, <1>17, <1>18, <1>19, <1>20, <1>21,
     <1>22, <1>23, <1>24, <1>25, <1>26, <1>27, <1>28, <1>29, <1>30, <1>31,
     <1>32, <1>33, <1>34 DEF Progress, Choice

\* An unwind of the collector poisons the heap mutex first, coord_mutex last.
LEMMA PoisonPreserved ==
  ASSUME IInv, [Next]_vars
  PROVE  PoisonInv'
<1> USE SafepointAssumption DEF TypeOK, CoordInv, PoisonInv, PCs, Driving,
        Gathering, sync, locks, inner, driver, data
<1>1. SUFFICES ASSUME NEW m \in Mutators, Progress(m) \/ Choice(m)
               PROVE  PoisonInv'
  BY DEF Next, vars, IInv, sync, locks, inner, driver, data
<1>2. CASE RegisterHandle(m)
  BY <1>2 DEF RegisterHandle, Goto, IInv
<1>3. CASE Register(m)
  BY <1>3 DEF Register, Goto, IInv
<1>4. CASE RegisterPanics(m)
  BY <1>4 DEF RegisterPanics, Goto, IInv
<1>5. CASE DropInactive(m)
  BY <1>5 DEF DropInactive, IInv
<1>6. CASE Deregister(m)
  BY <1>6 DEF Deregister, Goto, IInv
<1>7. CASE BumpMiss(m)
  BY <1>7 DEF BumpMiss, Goto, IInv
<1>8. CASE RefillLock(m)
  BY <1>8 DEF RefillLock, Goto, IInv
<1>9. CASE RefillPanics(m)
  BY <1>9 DEF RefillPanics, Goto, IInv
<1>10. CASE Refilled(m)
  BY <1>10 DEF Refilled, Goto, IInv
<1>11. CASE CopyBack(m)
  BY <1>11 DEF CopyBack, IInv
<1>12. CASE PollPending(m)
  BY <1>12 DEF PollPending, Publish, IInv
<1>13. CASE ParkArrive(m)
  BY <1>13 DEF ParkArrive, ParkRound, IInv
<1>14. CASE ParkWoken(m)
  BY <1>14 DEF ParkWoken, ParkRound, IInv
<1>15. CASE EnterNative(m)
  BY <1>15 DEF EnterNative, Publish, IInv
<1>16. CASE EnteredNative(m)
  BY <1>16 DEF EnteredNative, Goto, IInv
<1>17. CASE NativeReturns(m)
  BY <1>17 DEF NativeReturns, Goto, IInv
<1>18. CASE LeaveBlocked(m)
  BY <1>18 DEF LeaveBlocked, IInv
<1>19. CASE LeaveNative(m)
  BY <1>19 DEF LeaveNative, Goto, IInv
<1>20. CASE DrivePublish(m)
  BY <1>20 DEF DrivePublish, Publish, IInv
<1>21. CASE DriveAnnounce(m)
  BY <1>21 DEF DriveAnnounce, Goto, IInv
<1>22. CASE LockCoord(m)
  BY <1>22 DEF LockCoord, Goto, IInv
<1>23. CASE LockCoordPanics(m)
  BY <1>23 DEF LockCoordPanics, Goto, IInv
<1>24. CASE StopWorld(m)
  BY <1>24 DEF StopWorld, Goto, IInv
<1>25. CASE AwaitPass(m)
  BY <1>25 DEF AwaitPass, IInv
<1>26. CASE AwaitSleep(m)
  BY <1>26 DEF AwaitSleep, IInv
<1>27. CASE AwaitDone(m)
  BY <1>27 DEF AwaitDone, Goto, IInv
<1>28. CASE CollectBegin(m)
  BY <1>28 DEF CollectBegin, Goto, IInv
<1>29. CASE Collect(m)
  BY <1>29 DEF Collect, Goto, Visited, IInv
<1>30. CASE CollectPanics(m)
  BY <1>30 DEF CollectPanics, Goto, Visited, IInv
<1>31. CASE ResumeWorld(m)
  BY <1>31 DEF ResumeWorld, Goto, IInv
<1>32. CASE ReleaseCoord(m)
  BY <1>32 DEF ReleaseCoord, Goto, IInv
<1>33. CASE CatchStall(m)
  BY <1>33 DEF CatchStall, Goto, IInv
<1>34. CASE Wake(m)
  BY <1>34 DEF Wake, IInv
<1>35. QED
  BY <1>1, <1>2, <1>3, <1>4, <1>5, <1>6, <1>7, <1>8, <1>9, <1>10, <1>11,
     <1>12, <1>13, <1>14, <1>15, <1>16, <1>17, <1>18, <1>19, <1>20, <1>21,
     <1>22, <1>23, <1>24, <1>25, <1>26, <1>27, <1>28, <1>29, <1>30, <1>31,
     <1>32, <1>33, <1>34 DEF Progress, Choice

\* A collection moves the snapshots of all registered mutators, and a
\* mutator takes its snapshot over before it runs.
LEMMA RootPreserved ==
  ASSUME IInv, [Next]_vars
  PROVE  RootInv'
<1> USE SafepointAssumption DEF TypeOK, CoordInv, WorldInv, FlagsInv,
        GatherInv, RootInv, PCs, Driving, StoppedPCs, Absent, Gathering,
        Halted, Touching, sync, locks, inner, driver, data
<1>1. SUFFICES ASSUME NEW m \in Mutators, Progress(m) \/ Choice(m)
               PROVE  RootInv'
  BY DEF Next, vars, IInv, sync, locks, inner, driver, data
<1>2. CASE RegisterHandle(m)
  BY <1>2 DEF RegisterHandle, Goto, IInv
<1>3. CASE Register(m)
  BY <1>3 DEF Register, Goto, IInv
<1>4. CASE RegisterPanics(m)
  BY <1>4 DEF RegisterPanics, Goto, IInv
<1>5. CASE DropInactive(m)
  BY <1>5 DEF DropInactive, IInv
<1>6. CASE Deregister(m)
  BY <1>6 DEF Deregister, Goto, IInv
<1>7. CASE BumpMiss(m)
  BY <1>7 DEF BumpMiss, Goto, IInv
<1>8. CASE RefillLock(m)
  BY <1>8 DEF RefillLock, Goto, IInv
<1>9. CASE RefillPanics(m)
  BY <1>9 DEF RefillPanics, Goto, IInv
<1>10. CASE Refilled(m)
  BY <1>10 DEF Refilled, Goto, IInv
<1>11. CASE CopyBack(m)
  BY <1>11 DEF CopyBack, IInv
<1>12. CASE PollPending(m)
  BY <1>12 DEF PollPending, Publish, IInv
<1>13. CASE ParkArrive(m)
  BY <1>13 DEF ParkArrive, ParkRound, IInv
<1>14. CASE ParkWoken(m)
  BY <1>14 DEF ParkWoken, ParkRound, IInv
<1>15. CASE EnterNative(m)
  BY <1>15 DEF EnterNative, Publish, IInv
<1>16. CASE EnteredNative(m)
  BY <1>16 DEF EnteredNative, Goto, IInv
<1>17. CASE NativeReturns(m)
  BY <1>17 DEF NativeReturns, Goto, IInv
<1>18. CASE LeaveBlocked(m)
  BY <1>18 DEF LeaveBlocked, IInv
<1>19. CASE LeaveNative(m)
  BY <1>19 DEF LeaveNative, Goto, IInv
<1>20. CASE DrivePublish(m)
  BY <1>20 DEF DrivePublish, Publish, IInv
<1>21. CASE DriveAnnounce(m)
  BY <1>21 DEF DriveAnnounce, Goto, IInv
<1>22. CASE LockCoord(m)
  BY <1>22 DEF LockCoord, Goto, IInv
<1>23. CASE LockCoordPanics(m)
  BY <1>23 DEF LockCoordPanics, Goto, IInv
<1>24. CASE StopWorld(m)
  BY <1>24 DEF StopWorld, Goto, IInv
<1>25. CASE AwaitPass(m)
  BY <1>25 DEF AwaitPass, IInv
<1>26. CASE AwaitSleep(m)
  BY <1>26 DEF AwaitSleep, IInv
<1>27. CASE AwaitDone(m)
  BY <1>27 DEF AwaitDone, Goto, IInv
<1>28. CASE CollectBegin(m)
  BY <1>28 DEF CollectBegin, Goto, IInv
<1>29. CASE Collect(m)
  BY <1>29 DEF Collect, Goto, Visited, IInv
<1>30. CASE CollectPanics(m)
  BY <1>30 DEF CollectPanics, Goto, Visited, IInv
<1>31. CASE ResumeWorld(m)
  BY <1>31 DEF ResumeWorld, Goto, IInv
<1>32. CASE ReleaseCoord(m)
  BY <1>32 DEF ReleaseCoord, Goto, IInv
<1>33. CASE CatchStall(m)
  BY <1>33 DEF CatchStall, Goto, IInv
<1>34. CASE Wake(m)
  BY <1>34 DEF Wake, IInv
<1>35. QED
  BY <1>1, <1>2, <1>3, <1>4, <1>5, <1>6, <1>7, <1>8, <1>9, <1>10, <1>11,
     <1>12, <1>13, <1>14, <1>15, <1>16, <1>17, <1>18, <1>19, <1>20, <1>21,
     <1>22, <1>23, <1>24, <1>25, <1>26, <1>27, <1>28, <1>29, <1>30, <1>31,
     <1>32, <1>33, <1>34 DEF Progress, Choice

\* Whoever changes what a sleeper waits for wakes it.
LEMMA WakePreserved ==
  ASSUME IInv, [Next]_vars
  PROVE  NoLostWakeup'
<1> USE SafepointAssumption DEF TypeOK, CoordInv, WorldInv, NoLostWakeup,
        PCs, Driving, StoppedPCs, sync, locks, inner, driver, data
<1>1. SUFFICES ASSUME NEW m \in Mutators, Progress(m) \/ Choice(m)
               PROVE  NoLostWakeup'
  BY DEF Next, vars, IInv, sync, locks, inner, driver, data
<1>2. CASE RegisterHandle(m)
  BY <1>2 DEF RegisterHandle, Goto, IInv
<1>3. CASE Register(m)
  BY <1>3 DEF Register, Goto, IInv
<1>4. CASE RegisterPanics(m)
  BY <1>4 DEF RegisterPanics, Goto, IInv
<1>5. CASE DropInactive(m)
  BY <1>5 DEF DropInactive, IInv
<1>6. CASE Deregister(m)
  BY <1>6 DEF Deregister, Goto, IInv
<1>7. CASE BumpMiss(m)
  BY <1>7 DEF BumpMiss, Goto, IInv
<1>8. CASE RefillLock(m)
  BY <1>8 DEF RefillLock, Goto, IInv
<1>9. CASE RefillPanics(m)
  BY <1>9 DEF RefillPanics, Goto, IInv
<1>10. CASE Refilled(m)
  BY <1>10 DEF Refilled, Goto, IInv
<1>11. CASE CopyBack(m)
  BY <1>11 DEF CopyBack, IInv
<1>12. CASE PollPending(m)
  BY <1>12 DEF PollPending, Publish, IInv
<1>13. CASE ParkArrive(m)
  BY <1>13 DEF ParkArrive, ParkRound, IInv
<1>14. CASE ParkWoken(m)
  BY <1>14 DEF ParkWoken, ParkRound, IInv
<1>15. CASE EnterNative(m)
  BY <1>15 DEF EnterNative, Publish, IInv
<1>16. CASE EnteredNative(m)
  BY <1>16 DEF EnteredNative, Goto, IInv
<1>17. CASE NativeReturns(m)
  BY <1>17 DEF NativeReturns, Goto, IInv
<1>18. CASE LeaveBlocked(m)
  BY <1>18 DEF LeaveBlocked, IInv
<1>19. CASE LeaveNative(m)
  BY <1>19 DEF LeaveNative, Goto, IInv
<1>20. CASE DrivePublish(m)
  BY <1>20 DEF DrivePublish, Publish, IInv
<1>21. CASE DriveAnnounce(m)
  BY <1>21 DEF DriveAnnounce, Goto, IInv
<1>22. CASE LockCoord(m)
  BY <1>22 DEF LockCoord, Goto, IInv
<1>23. CASE LockCoordPanics(m)
  BY <1>23 DEF LockCoordPanics, Goto, IInv
<1>24. CASE StopWorld(m)
  BY <1>24 DEF StopWorld, Goto, IInv
<1>25. CASE AwaitPass(m)
  BY <1>25 DEF AwaitPass, IInv
<1>26. CASE AwaitSleep(m)
  BY <1>26 DEF AwaitSleep, IInv
<1>27. CASE AwaitDone(m)
  BY <1>27 DEF AwaitDone, Goto, IInv
<1>28. CASE CollectBegin(m)
  BY <1>28 DEF CollectBegin, Goto, IInv
<1>29. CASE Collect(m)
  BY <1>29 DEF Collect, Goto, Visited, IInv
<1>30. CASE CollectPanics(m)
  BY <1>30 DEF CollectPanics, Goto, Visited, IInv
<1>31. CASE ResumeWorld(m)
  BY <1>31 DEF ResumeWorld, Goto, IInv
<1>32. CASE ReleaseCoord(m)
  BY <1>32 DEF ReleaseCoord, Goto, IInv
<1>33. CASE CatchStall(m)
  BY <1>33 DEF CatchStall, Goto, IInv
<1>34. CASE Wake(m)
  BY <1>34 DEF Wake, IInv
<1>35. QED
  BY <1>1, <1>2, <1>3, <1>4, <1>5, <1>6, <1>7, <1>8, <1>9, <1>10, <1>11,
     <1>12, <1>13, <1>14, <1>15, <1>16, <1>17, <1>18, <1>19, <1>20, <1>21,
     <1>22, <1>23, <1>24, <1>25, <1>26, <1>27, <1>28, <1>29, <1>30, <1>31,
     <1>32, <1>33, <1>34 DEF Progress, Choice

(***************************************************************************)
(* The theorems.                                                           *)
(***************************************************************************)

LEMMA InitEstablishes == Init => IInv
<1> SUFFICES ASSUME Init PROVE IInv
  OBVIOUS
<1> USE SafepointAssumption DEF Init
<1>1. TypeOK
  <2>1. 0 \in 0..epoch /\ 0 \in 0..gen /\ epoch \in Nat
    OBVIOUS
  <2>2. lastEpoch \in [Mutators -> 0..epoch]
    BY <2>1
  <2>3. snapshot \in [Mutators -> 0..gen] /\ roots \in [Mutators -> 0..gen]
    BY <2>1
  <2>4. poisoned \in [coord : BOOLEAN, heap : BOOLEAN,
                      snapshot : SUBSET Mutators]
    OBVIOUS
  <2>5. pc \in [Mutators -> PCs]
    BY DEF PCs
  <2>6. /\ active \in [Mutators -> BOOLEAN]
        /\ acting \in [Mutators -> BOOLEAN]
        /\ native \in [Mutators -> BOOLEAN]
        /\ tlab \in [Mutators -> BOOLEAN]
    OBVIOUS
  <2> QED
    BY <2>1, <2>2, <2>3, <2>4, <2>5, <2>6 DEF TypeOK
<1>2. CoordInv /\ HeapInv /\ WorldInv /\ FlagsInv /\ EpochInv
  BY DEF CoordInv, HeapInv, WorldInv, FlagsInv, EpochInv, Driving, StoppedPCs,
         Absent, Touching
<1>3. GatherInv /\ PoisonInv /\ RootInv /\ NoLostWakeup
  BY DEF GatherInv, PoisonInv, RootInv, NoLostWakeup, Gathering, Absent,
     Touching
<1> QED
  BY <1>1, <1>2, <1>3 DEF IInv

LEMMA NextPreserves == IInv /\ [Next]_vars => IInv'
BY TypePreserved, CoordPreserved, HeapPreserved, WorldPreserved,
   FlagsPreserved, EpochPreserved, GatherPreserved, PoisonPreserved,
   RootPreserved, WakePreserved
   DEF IInv

\* The inductive invariant holds in every reachable state.
THEOREM Invariance == Spec => []IInv
<1>1. Init => IInv
  BY InitEstablishes
<1>2. IInv /\ [Next]_vars => IInv'
  BY NextPreserves
<1> QED
  BY <1>1, <1>2, PTL DEF Spec

\* Type correctness, for any set of mutators and any number of epochs.
THEOREM TypeCorrect == Spec => []TypeOK
<1>1. IInv => TypeOK
  BY DEF IInv
<1> QED
  BY <1>1, Invariance, PTL

\* Stop-the-world exclusion: while one mutator collects, every other thread
\* is halted at a place where it does not touch the heap.
THEOREM Exclusion == Spec => []WorldStopped
<1>1. IInv => WorldStopped
  BY DEF IInv, GatherInv, Gathering, WorldStopped
<1> QED
  BY <1>1, Invariance, PTL

\* Whoever runs managed code holds valid roots.
THEOREM FreshRoots == Spec => []RootsFresh
<1>1. IInv => RootsFresh
  BY DEF IInv, RootInv, Touching, RootsFresh
<1> QED
  BY <1>1, Invariance, PTL

\* No registered mutator holds a TLAB during a collection.
THEOREM Flushed == Spec => []SlabsFlushed
<1>1. ASSUME IInv
      PROVE  SlabsFlushed
  <2>1. WorldStopped
    BY <1>1 DEF IInv, GatherInv, Gathering, WorldStopped
  <2>2. SUFFICES ASSUME NEW d \in Mutators, pc[d] = "collect",
                        NEW m \in Mutators, active[m]
                 PROVE  ~tlab[m]
    BY DEF SlabsFlushed
  <2>3. pc[m] \notin Touching \cup Absent \cup {"unwind"}
    BY <2>1, <2>2, <1>1
       DEF WorldStopped, Halted, Touching, Absent, IInv, FlagsInv
  <2> QED
    BY <2>3, <1>1 DEF IInv, FlagsInv
<1> QED
  BY <1>1, Invariance, PTL

\* Nobody sleeps through the resume of the world, and no sleeper is behind
\* the epoch a driver waits for.
THEOREM Wakeups == Spec => []NoLostWakeup
<1>1. IInv => NoLostWakeup
  BY DEF IInv
<1> QED
  BY <1>1, Invariance, PTL

\* The wait loop may trust what it has seen: until the world is resumed an
\* arrived mutator stays arrived.
THEOREM Stability == Spec => ArrivalIsStable
<1>1. ASSUME IInv, NEW n \in Mutators, Progress(n) \/ Choice(n),
             NEW d \in Mutators, NEW m \in Mutators,
             pc[d] \in StoppedPCs, pc'[d] \in StoppedPCs, m # d, Arrived(m)
      PROVE  Arrived(m)'
  <2> USE DEF Arrived, StoppedPCs, TypeOK, PCs, sync, locks, inner, driver,
              data
  <2>1. /\ coord = d /\ ~worldRunning
        /\ pc[m] \notin StoppedPCs \cup {"stop", "release"}
    BY <1>1 DEF IInv, CoordInv, WorldInv, Driving
  <2>2. CASE RegisterHandle(n)
    BY <1>1, <2>1, <2>2 DEF RegisterHandle, Goto, IInv
  <2>3. CASE Register(n)
    BY <1>1, <2>1, <2>3 DEF Register, Goto, IInv
  <2>4. CASE RegisterPanics(n)
    BY <1>1, <2>1, <2>4 DEF RegisterPanics, Goto, IInv
  <2>5. CASE DropInactive(n)
    BY <1>1, <2>1, <2>5 DEF DropInactive, IInv
  <2>6. CASE Deregister(n)
    BY <1>1, <2>1, <2>6 DEF Deregister, Goto, IInv
  <2>7. CASE BumpMiss(n)
    BY <1>1, <2>1, <2>7 DEF BumpMiss, Goto, IInv
  <2>8. CASE RefillLock(n)
    BY <1>1, <2>1, <2>8 DEF RefillLock, Goto, IInv
  <2>9. CASE RefillPanics(n)
    BY <1>1, <2>1, <2>9 DEF RefillPanics, Goto, IInv
  <2>10. CASE Refilled(n)
    BY <1>1, <2>1, <2>10 DEF Refilled, Goto, IInv
  <2>11. CASE CopyBack(n)
    BY <1>1, <2>1, <2>11 DEF CopyBack, IInv
  <2>12. CASE PollPending(n)
    BY <1>1, <2>1, <2>12 DEF PollPending, Publish, IInv
  <2>13. CASE ParkArrive(n)
    BY <1>1, <2>1, <2>13 DEF ParkArrive, ParkRound, IInv
  <2>14. CASE ParkWoken(n)
    BY <1>1, <2>1, <2>14 DEF ParkWoken, ParkRound, IInv
  <2>15. CASE EnterNative(n)
    BY <1>1, <2>1, <2>15 DEF EnterNative, Publish, IInv
  <2>16. CASE EnteredNative(n)
    BY <1>1, <2>1, <2>16 DEF EnteredNative, Goto, IInv
  <2>17. CASE NativeReturns(n)
    BY <1>1, <2>1, <2>17 DEF NativeReturns, Goto, IInv
  <2>18. CASE LeaveBlocked(n)
    BY <1>1, <2>1, <2>18 DEF LeaveBlocked, IInv
  <2>19. CASE LeaveNative(n)
    BY <1>1, <2>1, <2>19 DEF LeaveNative, Goto, IInv
  <2>20. CASE DrivePublish(n)
    BY <1>1, <2>1, <2>20 DEF DrivePublish, Publish, IInv
  <2>21. CASE DriveAnnounce(n)
    BY <1>1, <2>1, <2>21 DEF DriveAnnounce, Goto, IInv
  <2>22. CASE LockCoord(n)
    BY <1>1, <2>1, <2>22 DEF LockCoord, Goto, IInv
  <2>23. CASE LockCoordPanics(n)
    BY <1>1, <2>1, <2>23 DEF LockCoordPanics, Goto, IInv
  <2>24. CASE StopWorld(n)
    BY <1>1, <2>1, <2>24 DEF StopWorld, Goto, IInv, CoordInv, Driving
  <2>25. CASE AwaitPass(n)
    BY <1>1, <2>1, <2>25 DEF AwaitPass, IInv
  <2>26. CASE AwaitSleep(n)
    BY <1>1, <2>1, <2>26 DEF AwaitSleep, IInv
  <2>27. CASE AwaitDone(n)
    BY <1>1, <2>1, <2>27 DEF AwaitDone, Goto, IInv
  <2>28. CASE CollectBegin(n)
    BY <1>1, <2>1, <2>28 DEF CollectBegin, Goto, IInv
  <2>29. CASE Collect(n)
    BY <1>1, <2>1, <2>29 DEF Collect, Goto, Visited, IInv
  <2>30. CASE CollectPanics(n)
    BY <1>1, <2>1, <2>30 DEF CollectPanics, Goto, Visited, IInv
  <2>31. CASE ResumeWorld(n)
    BY <1>1, <2>1, <2>31 DEF ResumeWorld, Goto, IInv
  <2>32. CASE ReleaseCoord(n)
    BY <1>1, <2>1, <2>32 DEF ReleaseCoord, Goto, IInv
  <2>33. CASE CatchStall(n)
    BY <1>1, <2>1, <2>33 DEF CatchStall, Goto, IInv
  <2>34. CASE Wake(n)
    BY <1>1, <2>1, <2>34 DEF Wake, IInv
  <2>35. QED
    BY <1>1, <2>2, <2>3, <2>4, <2>5, <2>6, <2>7, <2>8, <2>9, <2>10, <2>11,
       <2>12, <2>13, <2>14, <2>15, <2>16, <2>17, <2>18, <2>19, <2>20, <2>21,
       <2>22, <2>23, <2>24, <2>25, <2>26, <2>27, <2>28, <2>29, <2>30, <2>31,
       <2>32, <2>33, <2>34 DEF Progress, Choice
<1>2. ASSUME IInv, [Next]_vars,
             NEW d \in Mutators, NEW m \in Mutators,
             pc[d] \in StoppedPCs, pc'[d] \in StoppedPCs, m # d, Arrived(m)
      PROVE  Arrived(m)'
  <2>1. CASE UNCHANGED vars
    BY <1>2, <2>1 DEF vars, sync, inner, Arrived
  <2>2. CASE Next
    BY <1>1, <1>2, <2>2 DEF Next
  <2> QED
    BY <1>2, <2>1, <2>2
<1>3. IInv /\ [Next]_vars =>
        [\A d, m \in Mutators :
           (pc[d] \in StoppedPCs /\ pc'[d] \in StoppedPCs /\ m # d
              /\ Arrived(m)) => Arrived(m)']_vars
  BY <1>2
<1> QED
  BY <1>3, Invariance, PTL DEF Spec, ArrivalIsStable

-----------------------------------------------------------------------------
(* The rendezvous implements StopTheWorld, with or without out-of-memory   *)
(* unwinds.                                                                *)

\* Nobody collects while the world runs, while coord_mutex is free or after
\* a collection died.
LEMMA CollectorIdle ==
  ASSUME IInv, worldRunning \/ coord = NoOne \/ poisoned.heap
  PROVE  AbsCollector = NoOne
BY SafepointAssumption
   DEF IInv, AbsCollector, WorldInv, CoordInv, PoisonInv, StoppedPCs,
       Driving, Gathering

\* Leaving managed code for a waiting place is an abstract halt.
LEMMA HaltRefines ==
  ASSUME IInv, NEW m \in Mutators,
         NEW q \in PCs \ (Managed \cup Absent \cup {"collect"}),
         pc[m] \in Managed \ Touching, pc' = [pc EXCEPT ![m] = q],
         UNCHANGED <<heap, poisoned, data>>
  PROVE  Abstract!Halt(m)
<1> USE DEF AbsPlace, AbsCollector, AbsAddr, Absent, Managed, Touching, data,
   IInv, TypeOK, PCs
<1>1. AbsPlace[m] = "managed" /\ AbsPlace' = [AbsPlace EXCEPT ![m] = "halted"]
  OBVIOUS
<1>2. AbsAddr' = AbsAddr /\ AbsCollector' = AbsCollector
  BY SafepointAssumption
<1> QED
  BY <1>1, <1>2 DEF Abstract!Halt

\* Leaving a waiting place to copy the roots back is an abstract proceed.
LEMMA ProceedRefines ==
  ASSUME IInv, NEW m \in Mutators, NEW q \in Managed \ Touching,
         pc[m] \in PCs \ (Managed \cup Absent \cup {"collect"}),
         pc' = [pc EXCEPT ![m] = q],
         AbsCollector = NoOne,
         UNCHANGED <<heap, poisoned.heap, data>>
  PROVE  Abstract!Proceed(m)
<1> USE DEF AbsPlace, AbsCollector, AbsAddr, Absent, Managed, Touching, data,
   IInv, TypeOK, PCs
<1>1. AbsPlace[m] = "halted" /\ AbsPlace' = [AbsPlace EXCEPT ![m] = "managed"]
  BY ZenonT(40)
<1>2. AbsAddr' = AbsAddr /\ AbsCollector' = AbsCollector
  BY SafepointAssumption
<1> QED
  BY <1>1, <1>2 DEF Abstract!Proceed

\* park: arrival halts, the resumed round proceeds, a re-armed one stutters.
LEMMA ParkRefines ==
  ASSUME IInv, NEW m \in Mutators, ParkArrive(m) \/ ParkWoken(m)
  PROVE  [Abstract!Next]_(Abstract!vars)
<1> USE DEF Managed, Touching, Absent, PCs
<1>1. /\ pc[m] \in {"parking", "parked"}
      /\ pc' = [pc EXCEPT ![m] = IF worldRunning THEN "unparked" ELSE "parked"]
      /\ UNCHANGED <<heap, poisoned, data>>
  BY DEF ParkArrive, ParkWoken, ParkRound, locks, data
<1>2. CASE pc[m] = "parking" /\ ~worldRunning
  <2>1. Abstract!Halt(m)
    BY <1>1, <1>2, HaltRefines
  <2> QED
    BY <2>1 DEF Abstract!Next
<1>3. CASE pc[m] = "parked" /\ worldRunning
  <2>1. Abstract!Proceed(m)
    BY <1>1, <1>3, ProceedRefines, CollectorIdle
  <2> QED
    BY <2>1 DEF Abstract!Next
<1>4. CASE pc[m] = "parking" <=> worldRunning
  BY <1>1, <1>4, SafepointAssumption DEF Abstract!vars, AbsPlace,
     AbsCollector, AbsAddr, data, IInv, TypeOK
<1> QED
  BY <1>1, <1>2, <1>3, <1>4

\* Announcing IN_NATIVE or the wish to drive halts.
LEMMA FlagRefines ==
  ASSUME IInv, NEW m \in Mutators, EnteredNative(m) \/ DriveAnnounce(m)
  PROVE  Abstract!Halt(m)
BY HaltRefines
   DEF EnteredNative, DriveAnnounce, Goto, Managed, Touching, Absent, PCs,
       locks

\* leave_native proceeds, since it waits for the world.
LEMMA ReturnRefines ==
  ASSUME IInv, NEW m \in Mutators, LeaveNative(m)
  PROVE  Abstract!Proceed(m)
BY ProceedRefines, CollectorIdle
   DEF LeaveNative, Goto, Managed, Touching, Absent, PCs,
       locks

\* The driver proceeds once it is done; an unwinding one stays halted.
LEMMA ReleaseRefines ==
  ASSUME IInv, NEW m \in Mutators, ReleaseCoord(m)
  PROVE  [Abstract!Next]_(Abstract!vars)
<1> USE DEF Managed, Touching, Absent, PCs, ReleaseCoord, Goto
<1>1. /\ heap' = heap
      /\ UNCHANGED data
      /\ poisoned'.heap = poisoned.heap
      /\ pc[m] = "release"
  BY DEF IInv, TypeOK
<1>2. AbsCollector = NoOne
  BY SafepointAssumption, <1>1 DEF AbsCollector, IInv, CoordInv, Driving,
     TypeOK
<1>3. CASE oom
  <2>1. /\ AbsPlace' = AbsPlace
        /\ AbsAddr' = AbsAddr
        /\ AbsCollector' = AbsCollector
    BY <1>1, <1>3, SafepointAssumption DEF AbsPlace, AbsAddr, AbsCollector,
       data, IInv, TypeOK
  <2> QED
    BY <1>1, <2>1 DEF Abstract!vars, data
<1>4. CASE ~oom
  <2>1. pc' = [pc EXCEPT ![m] = "drove"]
    BY <1>4
  <2>2. Abstract!Proceed(m)
    BY <1>1, <1>2, <2>1, ProceedRefines
  <2> QED
    BY <2>2 DEF Abstract!Next
<1> QED
  BY <1>3, <1>4

\* Registration, under coord_mutex, joins between collections.
LEMMA RegisterRefines ==
  ASSUME IInv, NEW m \in Mutators, Register(m)
  PROVE  Abstract!Join(m)
<1> USE DEF Managed, Touching, Absent, PCs, Register, Goto, IInv, TypeOK
<1>1. AbsCollector = NoOne /\ AbsCollector' = NoOne
  <2>1. AbsCollector = NoOne
    BY CollectorIdle
  <2>2. heap' = heap /\ heap # m
    BY SafepointAssumption DEF locks, HeapInv
  <2> QED
    BY <2>1, <2>2, SafepointAssumption DEF AbsCollector
<1>2. AbsPlace[m] = "absent" /\ AbsPlace' = [AbsPlace EXCEPT ![m] = "managed"]
  BY DEF AbsPlace
<1>3. AbsAddr' = [AbsAddr EXCEPT ![m] = gen]
  BY DEF AbsAddr
<1> QED
  BY <1>1, <1>2, <1>3 DEF Abstract!Join, locks

\* Dropping a mutator leaves; on a broken heap its roots may be anything.
LEMMA DropRefines ==
  ASSUME IInv, IInv', NEW m \in Mutators, DropInactive(m)
  PROVE  Abstract!Next
<1> USE DEF Managed, Touching, Absent, PCs, DropInactive, IInv, TypeOK, data,
   locks
<1>1. AbsPlace[m] # "absent" /\ AbsPlace' = [AbsPlace EXCEPT ![m] = "absent"]
  <2>1. AbsPlace[m] # "absent"
    BY DEF AbsPlace
  <2>2. AbsPlace' = [AbsPlace EXCEPT ![m] = "absent"]
    <3>1. \A n \in Mutators :
            AbsPlace'[n] = IF n = m THEN "absent" ELSE AbsPlace[n]
      BY DEF AbsPlace
    <3> QED
      BY <3>1, ZenonT(40) DEF AbsPlace
  <2> QED
    BY <2>1, <2>2
<1>2. AbsCollector' = AbsCollector /\ m # AbsCollector
  BY SafepointAssumption DEF AbsCollector
<1>3. CASE poisoned.heap
  <2>1. AbsCollector = NoOne
    BY <1>3, CollectorIdle
  <2>2. AbsPlace' \in [Mutators -> {"absent", "managed", "halted"}]
    BY DEF AbsPlace
  <2>3. AbsAddr' \in [Mutators -> 0..gen]
    BY DEF AbsAddr
  <2> QED
    BY <1>2, <1>3, <2>1, <2>2, <2>3 DEF Abstract!Next, Abstract!Wander
<1>4. CASE ~poisoned.heap
  <2>1. AbsAddr' = AbsAddr
    BY <1>4 DEF AbsAddr, RootInv
  <2>2. Abstract!Leave(m)
    BY <1>1, <1>2, <2>1 DEF Abstract!Leave
  <2> QED
    BY <2>2 DEF Abstract!Next
<1> QED
  BY <1>3, <1>4

\* An unwind of the collector aborts the collection.
LEMMA AbortRefines ==
  ASSUME IInv, NEW m \in Mutators, CollectPanics(m)
  PROVE  Abstract!Abort(m)
<1> USE DEF Managed, Touching, Absent, PCs, CollectPanics, Goto, IInv, TypeOK,
   data
<1>1. AbsCollector = m /\ AbsCollector' = NoOne
  BY SafepointAssumption DEF AbsCollector, HeapInv
<1>2. AbsPlace' = AbsPlace
  BY DEF AbsPlace
<1>3. AbsAddr' = AbsAddr
  BY DEF AbsAddr
<1>4. poisoned'.heap = TRUE
  OBVIOUS
<1> QED
  BY <1>1, <1>2, <1>3, <1>4 DEF Abstract!Abort

\* Every step of the rendezvous is a step of the abstract collector, or
\* leaves the abstract state alone.
LEMMA StepRefines ==
  ASSUME IInv, IInv', [Next]_vars
  PROVE  [Abstract!Next]_(Abstract!vars)
<1> USE SafepointAssumption
    DEF sync, locks, inner, driver, data, AbsPlace, AbsCollector, AbsAddr,
        Absent, Managed, Touching, Abstract!vars, TypeOK, PCs, IInv
<1>1. SUFFICES ASSUME NEW m \in Mutators, Progress(m) \/ Choice(m)
               PROVE  [Abstract!Next]_(Abstract!vars)
  BY DEF Next, vars
<1>2. CASE RegisterHandle(m)
  BY <1>2 DEF RegisterHandle, Goto
<1>3. CASE Register(m)
  BY <1>3, RegisterRefines DEF Abstract!Next
<1>4. CASE RegisterPanics(m)
  BY <1>4 DEF RegisterPanics, Goto
<1>5. CASE DropInactive(m)
  BY <1>5, DropRefines DEF Abstract!Next
<1>6. CASE Deregister(m)
  BY <1>6 DEF Deregister, Goto
<1>7. CASE BumpMiss(m)
  BY <1>7 DEF BumpMiss, Goto
<1>8. CASE RefillLock(m)
  BY <1>8 DEF RefillLock, Goto
<1>9. CASE RefillPanics(m)
  BY <1>9 DEF RefillPanics, Goto, Abstract!Next, Abstract!Wander, HeapInv,
     CoordInv, PoisonInv, Gathering, Driving
<1>10. CASE Refilled(m)
  BY <1>10 DEF Refilled, Goto, HeapInv
<1>11. CASE CopyBack(m)
  BY <1>11 DEF CopyBack, Abstract!Next, Abstract!Wander, RootInv,
     PoisonInv, CoordInv, HeapInv, Gathering, Driving
<1>12. CASE PollPending(m)
  BY <1>12 DEF PollPending, Publish, Abstract!Next, Abstract!Wander,
     RootInv, PoisonInv, CoordInv, HeapInv, Gathering, Driving
<1>13. CASE ParkArrive(m)
  BY <1>13, ParkRefines DEF Abstract!Next
<1>14. CASE ParkWoken(m)
  BY <1>14, ParkRefines DEF Abstract!Next
<1>15. CASE EnterNative(m)
  BY <1>15 DEF EnterNative, Publish, Abstract!Next, Abstract!Wander,
     RootInv, PoisonInv, CoordInv, HeapInv, Gathering, Driving
<1>16. CASE EnteredNative(m)
  BY <1>16, FlagRefines DEF Abstract!Next
<1>17. CASE NativeReturns(m)
  BY <1>17 DEF NativeReturns, Goto
<1>18. CASE LeaveBlocked(m)
  BY <1>18 DEF LeaveBlocked
<1>19. CASE LeaveNative(m)
  BY <1>19, ReturnRefines DEF Abstract!Next
<1>20. CASE DrivePublish(m)
  BY <1>20 DEF DrivePublish, Publish, Abstract!Next, Abstract!Wander,
     RootInv, PoisonInv, CoordInv, HeapInv, Gathering, Driving
<1>21. CASE DriveAnnounce(m)
  BY <1>21, FlagRefines DEF Abstract!Next
<1>22. CASE LockCoord(m)
  BY <1>22 DEF LockCoord, Goto
<1>23. CASE LockCoordPanics(m)
  BY <1>23 DEF LockCoordPanics, Goto
<1>24. CASE StopWorld(m)
  BY <1>24 DEF StopWorld, Goto
<1>25. CASE AwaitPass(m)
  BY <1>25 DEF AwaitPass
<1>26. CASE AwaitSleep(m)
  BY <1>26 DEF AwaitSleep
<1>27. CASE AwaitDone(m)
  BY <1>27 DEF AwaitDone, Goto
<1>28. CASE CollectBegin(m)
  BY <1>28 DEF CollectBegin, Goto, Abstract!Next, Abstract!Begin, HeapInv,
     CoordInv, GatherInv, PoisonInv, Driving, Gathering, Halted
<1>29. CASE Collect(m)
  BY <1>29 DEF Collect, Goto, Visited, Abstract!Next, Abstract!End,
     HeapInv, GatherInv, FlagsInv, Gathering, Halted
<1>30. CASE CollectPanics(m)
  BY <1>30, AbortRefines DEF Abstract!Next
<1>31. CASE ResumeWorld(m)
  BY <1>31 DEF ResumeWorld, Goto
<1>32. CASE ReleaseCoord(m)
  BY <1>32, ReleaseRefines DEF Abstract!Next
<1>33. CASE CatchStall(m)
  BY <1>33 DEF CatchStall, Goto, Abstract!Next, Abstract!Wander, RootInv,
     PoisonInv, CoordInv, HeapInv, Gathering, Driving
<1>34. CASE Wake(m)
  BY <1>34 DEF Wake
<1>35. QED
  BY <1>1, <1>2, <1>3, <1>4, <1>5, <1>6, <1>7, <1>8, <1>9, <1>10, <1>11,
     <1>12, <1>13, <1>14, <1>15, <1>16, <1>17, <1>18, <1>19, <1>20, <1>21,
     <1>22, <1>23, <1>24, <1>25, <1>26, <1>27, <1>28, <1>29, <1>30, <1>31,
     <1>32, <1>33, <1>34 DEF Progress, Choice

\* The safepoint rendezvous implements the abstract stop-the-world
\* collector.
THEOREM Refinement == Spec => ImplementsStopTheWorld
<1>1. Init => Abstract!Init
  BY SafepointAssumption
     DEF Init, Abstract!Init, AbsPlace, AbsCollector, AbsAddr, Absent,
         Touching
<1>2. IInv /\ IInv' /\ [Next]_vars => [Abstract!Next]_(Abstract!vars)
  BY StepRefines
<1> QED
  BY <1>1, <1>2, Invariance, PTL
     DEF Spec, Abstract!Spec, ImplementsStopTheWorld
=============================================================================
