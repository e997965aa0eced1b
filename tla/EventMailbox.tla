---------------------------- MODULE EventMailbox ----------------------------
(***************************************************************************)
(* The way of a window event to the Lisp threads, ncl-runtime/src/igui/    *)
(* channels.rs: a bounded channel from the GUI thread, which must not      *)
(* block; a dispatcher thread that copies each event into the queues of    *)
(* its window and of everybody (CATCH_ALL); and the threads, each with a   *)
(* filter of its own, which wait at a queue or go round several.           *)
(*                                                                         *)
(* A region of a mutex is one step. Events are numbered in the order in    *)
(* which the GUI thread fires them.                                        *)
(***************************************************************************)
EXTENDS Integers, Sequences, SequencesExt, FiniteSets

CONSTANTS
    Threads,        \* Lisp threads
    Windows,        \* child ids
    Interest,       \* bound: the windows a thread may ask for
    Capacity,       \* CAPACITY of the channel, 1024 in the code
    MaxEvents       \* bound: events fired

ASSUME EventMailboxAssumption ==
    /\ IsFiniteSet(Threads) /\ IsFiniteSet(Windows)
    /\ Interest \in [Threads -> SUBSET Windows]
    /\ Capacity \in Nat \ {0} /\ MaxEvents \in Nat

Global == "global"
CatchAll == "all"
NoQueue == "none"

ASSUME SentinelAssumption == {Global, CatchAll, NoQueue} \cap Windows = {}

VARIABLES
    fired,      \* events fired so far
    channel,    \* the channel to the dispatcher: numbers and where to
    disp,       \* the dispatcher: its event, queues to do, queue to notify
    registered, \* the ids with an entry in QUEUES
    queue,      \* the events of each queue
    filter,     \* THREAD_FILTER
    call,       \* where a thread waits and how long, or whether it runs
    pc,
    left,       \* windows still to try in this round of polls
    owed        \* ghost: accepted while the queue was there, not yet popped

vars == <<fired, channel, disp, registered, queue, filter, call, pc, left, owed>>

Queues == Windows \cup {CatchAll}
Destinations == Windows \cup {Global}
NoEvent == [id |-> 0, to |-> Global]

(* timeout_ms negative, or not; 0 is a deadline that has passed already.   *)
Patience == {"forever", "timed"}
NoCall == [at |-> {}, wait |-> "timed"]

TypeOK ==
    /\ fired \in 0..MaxEvents
    /\ channel \in Seq([id : 1..fired, to : Destinations]) /\ Len(channel) <= Capacity
    /\ disp.event \in [id : 1..fired, to : Destinations] \cup {NoEvent}
    /\ disp.todo \in Seq(registered)
    /\ disp.notify \in registered \cup {NoQueue}
    /\ CatchAll \in registered /\ registered \subseteq Queues
    /\ DOMAIN queue = Queues
    /\ \A q \in Queues : queue[q] \in Seq(1..fired)
    /\ \A q \in Queues \ registered : queue[q] = << >>
    /\ filter \in [Threads -> SUBSET (Windows \cap registered)]
    /\ call \in [Threads -> [at : SUBSET registered, wait : Patience]]
    /\ pc \in [Threads -> {"run", "look", "asleep", "round"}]
    /\ left \in [Threads -> SUBSET Windows]
    /\ \A t \in Threads : call[t] = NoCall <=> pc[t] = "run"
    /\ owed \in [Queues -> SUBSET (1..fired)]

(* The dispatcher in recv, and after one push of the loop.                 *)
Receiving == [event |-> NoEvent, todo |-> << >>, notify |-> NoQueue]

Pushed == IF disp.todo = << >> THEN Receiving ELSE [disp EXCEPT !.notify = NoQueue]

(* install() has run: the GUI calls it before it makes a window.           *)
Init ==
    /\ fired = 0
    /\ channel = << >>
    /\ disp = Receiving
    /\ registered = {CatchAll}
    /\ queue = [q \in Queues |-> << >>]
    /\ filter = [t \in Threads |-> {}]
    /\ call = [t \in Threads |-> NoCall]
    /\ pc = [t \in Threads |-> "run"]
    /\ left = [t \in Threads |-> {}]
    /\ owed = [q \in Queues |-> {}]

Threading == <<filter, call, pc, left>>
Routing == <<fired, channel, disp>>

-----------------------------------------------------------------------------
(* From the GUI thread to the queues.                                      *)

(* event_target and the snapshot of the queues.                            *)
Targets(e) ==
    IF e.to = Global THEN registered ELSE {e.to, CatchAll} \cap registered

(* The documented routes, for the ghost.                                   *)
Owing(to) == {q \in registered : q = CatchAll \/ to \in {Global, q}}

(* push: try_send, which drops the event when the channel is full.         *)
Fire(to) ==
    /\ fired < MaxEvents
    /\ fired' = fired + 1
    /\ IF Len(channel) < Capacity
       THEN /\ channel' = Append(channel, [id |-> fired', to |-> to])
            /\ owed' = [q \in Queues |->
                          IF q \in Owing(to) THEN owed[q] \cup {fired'} ELSE owed[q]]
       ELSE UNCHANGED <<channel, owed>>
    /\ UNCHANGED <<disp, registered, queue>>
    /\ UNCHANGED Threading

(* recv, and the snapshot under the lock of the map: the window's queue    *)
(* before CATCH_ALL, a broadcast in the order of the hash map.             *)
Dispatch ==
    /\ disp.event = NoEvent
    /\ channel # << >>
    /\ LET e == Head(channel) IN
       \E order \in SetToSeqs(Targets(e)) :
          /\ e.to # Global /\ Len(order) = 2 => order[2] = CatchAll
          /\ disp' = [event |-> e, todo |-> order, notify |-> NoQueue]
    /\ channel' = Tail(channel)
    /\ UNCHANGED <<fired, registered, queue, owed>>
    /\ UNCHANGED Threading

(* ChildQueue::push: first the event, under the mutex of the queue ...     *)
PushQueue ==
    /\ disp.event # NoEvent /\ disp.notify = NoQueue
    /\ LET q == Head(disp.todo) IN
       /\ queue' = [queue EXCEPT ![q] = Append(@, disp.event.id)]
       /\ disp' = [disp EXCEPT !.todo = Tail(@), !.notify = q]
    /\ UNCHANGED <<fired, channel, registered, owed>>
    /\ UNCHANGED Threading

Asleep(q) == {t \in Threads : pc[t] = "asleep" /\ call[t].at = {q}}

(* Mutant: the queue's sleepers are notified only if it was empty.         *)
NotifyAtFirst ==
    /\ disp.notify # NoQueue
    /\ disp' = Pushed
    /\ IF Asleep(disp.notify) = {} \/ Len(queue[disp.notify]) > 1
       THEN UNCHANGED pc
       ELSE \E t \in Asleep(disp.notify) : pc' = [pc EXCEPT ![t] = "look"]
    /\ UNCHANGED <<fired, channel, registered, queue, filter, call, left, owed>>

(* ... then notify_one, after the mutex has been released.                 *)
Notify ==
    /\ disp.notify # NoQueue
    /\ disp' = Pushed
    /\ IF Asleep(disp.notify) = {}
       THEN UNCHANGED pc
       ELSE \E t \in Asleep(disp.notify) : pc' = [pc EXCEPT ![t] = "look"]
    /\ UNCHANGED <<fired, channel, registered, queue, filter, call, left, owed>>

-----------------------------------------------------------------------------
(* The filter.                                                             *)

(* Mutant: `insert` instead of `entry(id).or_insert_with(..)`.             *)
ReplaceQueue(q) ==
    /\ registered' = registered \cup {q}
    /\ queue' = [queue EXCEPT ![q] = << >>]

(* Mutant: the caller makes a queue and the map does not learn of it.      *)
CreateForCatchAll(q) ==
    /\ registered' = registered
    /\ UNCHANGED queue

(* get_or_create_queue.                                                    *)
GetOrCreateQueue(q) ==
    /\ registered' = registered \cup {q}
    /\ UNCHANGED queue

FilterOnWindow(t, w) ==
    /\ pc[t] = "run"
    /\ filter' = [filter EXCEPT ![t] = @ \cup {w}]
    /\ GetOrCreateQueue(w)
    /\ UNCHANGED <<call, pc, left, owed>>
    /\ UNCHANGED Routing

UnfilterWindow(t, w) ==
    /\ pc[t] = "run"
    /\ w \in filter[t]
    /\ filter' = [filter EXCEPT ![t] = @ \ {w}]
    /\ UNCHANGED <<registered, queue, call, pc, left, owed>>
    /\ UNCHANGED Routing

ClearFilter(t) ==
    /\ pc[t] = "run"
    /\ filter' = [filter EXCEPT ![t] = {}]
    /\ UNCHANGED <<registered, queue, call, pc, left, owed>>
    /\ UNCHANGED Routing

-----------------------------------------------------------------------------
(* next_event and next_event_for.                                          *)

(* The call goes on to wait_pop of one queue.                              *)
WaitAt(t, q, wait) ==
    /\ pc[t] = "run"
    /\ GetOrCreateQueue(q)
    /\ call' = [call EXCEPT ![t] = [at |-> {q}, wait |-> wait]]
    /\ pc' = [pc EXCEPT ![t] = "look"]
    /\ UNCHANGED <<filter, left, owed>>
    /\ UNCHANGED Routing

NextEventFor(t, w, wait) == WaitAt(t, w, wait)

NextEvent(t, wait) ==
    \/ filter[t] = {} /\ WaitAt(t, CatchAll, wait)
    \/ \E w \in Windows : filter[t] = {w} /\ NextEventFor(t, w, wait)
    \/ /\ pc[t] = "run"
       /\ Cardinality(filter[t]) > 1
       /\ call' = [call EXCEPT ![t] = [at |-> filter[t], wait |-> wait]]
       /\ pc' = [pc EXCEPT ![t] = "round"]
       /\ left' = [left EXCEPT ![t] = filter[t]]
       /\ UNCHANGED <<registered, queue, filter, owed>>
       /\ UNCHANGED Routing

Answer(t) ==
    /\ pc' = [pc EXCEPT ![t] = "run"]
    /\ call' = [call EXCEPT ![t] = NoCall]

TakeFrom(q) ==
    /\ queue' = [queue EXCEPT ![q] = Tail(@)]
    /\ owed' = [owed EXCEPT ![q] = @ \ {Head(queue[q])}]

(* wait_pop.                                                               *)
Looks(t, q) == pc[t] = "look" /\ call[t].at = {q}

Pop(t, q) ==
    /\ Looks(t, q)
    /\ queue[q] # << >>
    /\ TakeFrom(q)
    /\ Answer(t)
    /\ UNCHANGED <<registered, filter, left>>
    /\ UNCHANGED Routing

Sleep(t, q) ==
    /\ Looks(t, q)
    /\ queue[q] = << >>
    /\ pc' = [pc EXCEPT ![t] = "asleep"]
    /\ UNCHANGED <<registered, queue, filter, call, left, owed>>
    /\ UNCHANGED Routing

GiveUp(t, q) ==
    /\ Looks(t, q)
    /\ queue[q] = << >> /\ call[t].wait # "forever"
    /\ Answer(t)
    /\ UNCHANGED <<registered, queue, filter, left, owed>>
    /\ UNCHANGED Routing

(* wait_timeout expires, or a spurious wake-up.                            *)
Wake(t) ==
    /\ pc[t] = "asleep"
    /\ pc' = [pc EXCEPT ![t] = "look"]
    /\ UNCHANGED <<registered, queue, filter, call, left, owed>>
    /\ UNCHANGED Routing

(* A round of try_pop, in the order of the hash set; then the deadline,    *)
(* a sleep of a millisecond, and the next round.                           *)
TryPop(t, w) ==
    /\ pc[t] = "round" /\ w \in left[t]
    /\ IF queue[w] # << >>
       THEN /\ TakeFrom(w) /\ Answer(t)
            /\ left' = [left EXCEPT ![t] = {}]
       ELSE /\ left' = [left EXCEPT ![t] = @ \ {w}]
            /\ UNCHANGED <<queue, owed, pc, call>>
    /\ UNCHANGED <<registered, filter>>
    /\ UNCHANGED Routing

NextRound(t) ==
    /\ pc[t] = "round" /\ left[t] = {}
    /\ left' = [left EXCEPT ![t] = call[t].at]
    /\ UNCHANGED <<registered, queue, filter, call, pc, owed>>
    /\ UNCHANGED Routing

StopPolling(t) ==
    /\ pc[t] = "round" /\ left[t] = {}
    /\ call[t].wait # "forever"
    /\ Answer(t)
    /\ UNCHANGED <<registered, queue, filter, left, owed>>
    /\ UNCHANGED Routing

Dispatcher == Dispatch \/ PushQueue \/ Notify

(* What a thread does once it has called, without waking up by itself.     *)
GoesOn(t) ==
    \/ \E q \in Queues : Pop(t, q) \/ Sleep(t, q) \/ GiveUp(t, q)
    \/ \E w \in Windows : TryPop(t, w)
    \/ NextRound(t) \/ StopPolling(t)

Next ==
    \/ \E to \in Destinations : Fire(to)
    \/ Dispatcher
    \/ \E t \in Threads :
         \/ \E w \in Interest[t] : FilterOnWindow(t, w) \/ UnfilterWindow(t, w)
         \/ ClearFilter(t)
         \/ \E wait \in Patience :
              NextEvent(t, wait) \/ \E w \in Interest[t] : NextEventFor(t, w, wait)
         \/ GoesOn(t) \/ Wake(t)

Spec == Init /\ [][Next]_vars

(* The scheduler runs the dispatcher and every thread that can go on; that *)
(* anything is fired, or that anybody calls, is up to the program.         *)
FairSpec ==
    /\ Spec
    /\ WF_vars(Dispatcher)
    /\ \A t \in Threads : WF_vars(GoesOn(t))

-----------------------------------------------------------------------------
(* Properties.                                                             *)

(* What the channel accepts reaches every queue that is there by then and  *)
(* should have it, once and in the order of firing, whatever threads do to *)
(* their filters and to the registry meanwhile; and a thread that goes     *)
(* round its windows takes what it takes from the front.                   *)
InFlight(q) ==
    {channel[i].id : i \in DOMAIN channel}
        \cup (IF q \in ToSet(disp.todo) THEN {disp.event.id} ELSE {})

Increasing(s) == \A i, j \in DOMAIN s : i < j => s[i] < s[j]

NothingLost ==
    \A q \in Queues :
        /\ owed[q] \subseteq ToSet(queue[q]) \cup InFlight(q)
        /\ Increasing(queue[q])
        /\ \A e \in InFlight(q) : \A f \in ToSet(queue[q]) : f < e

(* A push wakes one sleeper, after it has released the queue's mutex, and  *)
(* an event may be taken by a thread that never slept: still, once the GUI *)
(* thread is quiet, nobody is left waiting beside an event of his queue.   *)
WaitsFor(t, q) == pc[t] # "run" /\ q \in call[t].at

WaitersServed ==
    <>[](\A t \in Threads, q \in Queues : WaitsFor(t, q) => owed[q] = {})
=============================================================================
