--------------------------- MODULE ThreadControl ---------------------------
(***************************************************************************)
(* LispThreads and its properties under names of their own, so that the    *)
(* two halves of threads.rs, this one and LispMonitor, can stand in one    *)
(* module.                                                                 *)
(***************************************************************************)
CONSTANTS Main, Tids

\* The registry hands out ids from 2 on; 1 is the primary thread.
ASSUME ThreadsAssumption == Main \notin Tids

VARIABLES tpc, tgt, registered, published, handles, mutators,
          suspend, terminate, notified, finished

Control == INSTANCE LispThreads WITH pc <- tpc

ControlSpec == Control!FairSpec

\* Every variable has its type, and a mutator never outlives the registry entry
\* of its thread (create_thread).
ControlTypeOK == Control!TypeOK

\* A worker that waits although it may go on has been notified or will be
\* (thread_safepoint against resume_thread and terminate_thread).
NoLostResume == Control!NoLostResume

\* Whatever join-thread answers, its thread is over (join_thread).
JoinedIsOver == Control!JoinedIsOver

\* A terminated worker comes to its end (terminate_thread, thread_safepoint).
TerminateEnds == Control!TerminateEnds

\* A terminated worker does not stay parked (terminate_thread).
TerminateUnparks == Control!TerminateUnparks

\* Every join of a thread that finishes returns (join_thread, create_thread).
JoinReturns == Control!JoinReturns
=============================================================================
