# A verification project for NewCL

NewCL is a Common Lisp in Rust: a reader, a compiler, an LLVM back end, a
runtime with a moving, generational, stop-the-world collector that several
threads share, and a Windows GUI shell. This directory holds TLA+ models of the
parts whose correctness depends on the order in which threads, or the phases of
one algorithm, do their work; TLC configurations that check them on small
instances; and proofs, checked by TLAPS, for any size.

`PROJECT.json` lists the components, the runs, the source lines behind every
definition, the hazards, the findings and the theorems.

## 1. Inventory

Paths: `GC` is `src/crates/newgc-core/src/page_heap`, `RT` is
`src/src/ncl-runtime/src`.

| Component | State | Operations | Talks to | Hard because | Correct if |
|---|---|---|---|---|---|
| Safepoint rendezvous (`GC/mutator.rs`, `GC/shared.rs`) | epoch, world_running, park_cv, coord_mutex, heap mutex, registry; per mutator last_epoch, is_active, is_acting_coordinator, native state, root snapshot, TLABs | register, drop, poll and park, enter and leave native code, refill, drive a collection, resume, unwind | every Lisp thread; the page heap | any thread may drive; threads arrive in four ways; the driver looks at each once and sleeps in between; a collection may unwind half-way and poison three mutexes | no managed code beside a collection; nobody returns with old roots; every stop completes; the world always resumes |
| Page heap (`GC/{alloc,evac,cycle,mark,pin,space,coordinator_api}.rs`) | page descriptors, free list, open pages, start, mark and pin bits, forwarding markers, cards, promotion counters | allocate, barrier, minor / cascading / major / full collection, each in passes, each pass in chunks | the rendezvous calls it with the world stopped | conservative pins beside precise roots; a pass that does not fit in the free pages is cut into chunks; cards are rebuilt, filtered by a snapshot of page generations | the program cannot see a collection; the free list is exact; a collection ends |
| Static area and cards (`RT/static_area.rs`, `RT/mutator.rs`, `RT/gc_symbol.rs`, `RT/gc_function.rs`, dynamic binding in `RT/abi.rs`) | bump pointer, static cells of symbols and functions, a card table, bindings in force | load, store then mark, bump then fill, bind and unbind, scan at a collection, clean afterwards | page heap; all threads | the cleaning sweep runs after the world has been resumed; bindings store beside the barrier | each static cell with a heap pointer is on a dirty card and holds the object's present address |
| Lisp threads (`RT/threads.rs`) | registry, entries (suspend and terminate flags, finished), join handles | create, join, suspend, resume, terminate, exit, poll | rendezvous (each thread registers a mutator) | four steps end a thread; requests race the poll; a worker runs before its handle is stored | joins answer once the thread is over; no resume lost; a terminated thread ends |
| Sections and condition variables (`RT/threads.rs`, `Lisp/Library/threads.lisp`) | owner and count per section, the aux mutex of a condition variable | enter, leave, wait, notify, broadcast | rendezvous (a wait is announced as a foreign call, an enter is not) | waits inside nested enters; barging; notify racing the wait | exclusion at the right depth; nobody stranded; no notify lost; collections end |
| Mailboxes (`RT/threads.rs`) | per box a queue, one mutex, not_empty, not_full; a registry | make, send, receive (poll, timed, for ever), release | threads; rendezvous (a receive is announced, a send is not); page heap (words in a queue are no roots) | one notification per word or place, and the notified one may be overtaken; release while others hold the box | nobody sleeps beside a word or a place; capacity is kept; a receive holds up no collection |
| Non-local exits and conditions (`RT/abi.rs`, `Lisp/core.lisp`) | thread-local registers for abort, target, throw, tag, condition, slot, loop break; handler depth; block and catch stacks | block, return-from, catch, throw, loop, return, handler-case, error, unwind-protect, eval | compiled code tests abort after each call | four kinds of exits share the registers; constructs clear different parts; cleanups run with an exit put aside | an exit lands at the innermost form that answers to it, with its value, after every cleanup; the top level is clean |
| Event mailbox (`RT/igui/channels.rs`) | bounded channel, a queue per window and CATCH_ALL, filter per thread | fire, dispatch, push, notify, filter, wait, go round several windows | GUI thread, dispatcher, Lisp threads | snapshots of the registry; replaced queues; notify after the unlock; drops | what the channel accepts reaches each queue once and in order; nobody sleeps beside an event |
| Surface batches and text queries (`RT/igui/{batch,replies,lisp_shims,child}.rs`) | batch in progress per thread, batch shown per pane, reply slots, update regions | begin, submit, measure-text, paint, minimise, restore, close | Lisp threads, GUI thread, Windows | a query borrows the slot of the drawing; a paint may be between snapshot and validation; time-outs and closing panes | the newest drawing stays on the screen; work in progress survives; a visible pane answers |
| Hot reload (`RT/hot_reload.rs`) | pending paths, debounce times | file event, drain | driver loop | leading-edge debounce | the last write of a file is loaded |
| Runtime entry points (`RT/abi.rs`) | the root stack of each mutator | the functions compiled code calls; a stall turned into a condition | page heap, rendezvous | little: an unwound helper's roots are cut off in one place | the root stack is as deep as at the entry |
| Symbols and image (`RT/universe.rs`, `symbol.rs`) | tables under one mutex each | intern, find | compiler, reader | little | interning is injective |
| Stack maps, semispace heap | tables; an older collector | | not connected | | |
| Reader, compiler, IR, LLVM back end, driver | syntax trees, modules | sequential translation | runtime entry points | size, not order | the translation keeps the meaning |
| Numbers, strings, printer, format | none | conversions, arithmetic | | unit tests reach them | each conversion is right |
| GUI windows, foreign calls, files, crash reports | Win32 handles | I/O | event mailbox; enter_blocked | I/O | |
| Audio, documentation pane, diagrams, tools (`crates/*`) | queues, documents | play, lay out | | apart from the Lisp system | |

How they interact: a Lisp thread owns one mutator. Compiled code calls the
entry points, which allocate; an allocation that does not fit drives a minor
collection through the rendezvous. The collector is given precise roots (the
snapshots each mutator publishes when it halts), conservative stack words, the
dirty cards of the page heap and those of the static area. Blocking operations
are supposed to be announced to the rendezvous with `enter_blocked`; each model
of a blocking operation therefore carries the collector's side of that bargain.
The GUI thread runs no Lisp: it talks to Lisp threads through the event mailbox
one way and through the batch slots and reply slots the other way.

## 2. The modules and the code

| Module | Models | Role |
|---|---|---|
| `StopTheWorld` | what the rendezvous promises | abstract specification |
| `Safepoint` | `GC/mutator.rs`, `GC/shared.rs` | implements `StopTheWorld` |
| `SafepointProofs` | | theorems about `Safepoint` |
| `LispGraph` | what the heap promises a program | abstract specification |
| `PageHeap` | the page heap and its collector | implements `LispGraph` |
| `PageHeapProofs` | | theorems about `PageHeap` |
| `StaticCards` | the static area's remembered set, dynamic bindings | |
| `StaticCardsProofs` | | theorems about `StaticCards` |
| `LispThreads` | thread control | |
| `ThreadControl` | | `LispThreads` and its properties, under names of their own |
| `LispMonitor` | sections, condition variables, and their meeting with a collection | |
| `LispMonitorProofs` | | theorems about `LispMonitor` and, through `ThreadControl`, about `LispThreads` |
| `Mailbox` | mailboxes of threads, and their meeting with a collection | |
| `MailboxProofs` | | theorems about `Mailbox` |
| `DynamicExtent` | what the exit operators promise a program | abstract specification |
| `NonLocalExit` | the registers of `RT/abi.rs` | implements `DynamicExtent` |
| `NonLocalExitProofs` | | theorems about `NonLocalExit` |
| `EventMailbox` | `RT/igui/channels.rs` | |
| `EventMailboxProofs` | | theorems about `EventMailbox` |
| `SurfaceQuery` | batches, paints and text queries | |
| `SurfaceQueryProofs` | | theorems about `SurfaceQuery` |
| `MC*` | | instances for TLC |

**Safepoint.** One step is one critical section of `park_mutex` or the code
between two of them; `pc` names the place. `cvWait` is the wait set of
`park_cv`: `notify_all` empties it, a spurious wake-up (or the driver's
time-out) removes one member. `Register`, `DropInactive`/`Deregister`,
`PollPending`/`ParkArrive`/`ParkWoken`, `EnterNative`/`EnteredNative`,
`NativeReturns`/`LeaveBlocked`/`LeaveNative`, `BumpMiss`/`RefillLock`/
`Refilled` and the chain `DrivePublish` ... `ReleaseCoord` follow the functions
of the same purpose. The heap is a counter, `gen`: a root is the collection
after which it is valid, so running with `roots[m] # gen` is dereferencing an
address that has been vacated. `CanOom` lets a collection panic half-way; the
poisoning of `coord_mutex`, the heap mutex and one snapshot mutex, the unwind,
the resume on the way out and the threads that later panic on a poisoned lock
are steps. Left out: conservative stack windows, collections started by
`GcCoordinator` without a mutator, changing the wait budget.

**PageHeap.** Runs with the world stopped, which is what `Safepoint` proves.
Passes (`BeginPass` ... `EndPass`) evacuate one generation into another; within
a pass `TakeChunk`, `CopyObject`, `Rewrite`, `Reclaim` are the three phases of
`evac.rs` for one chunk. An object is one reference, fills one slot and slots
are cards; `id` is a ghost, the identity the refinement compares. Root slots
are precise; stack slots are conservative and never rewritten, so the object a
stack word denotes must not move. `DeadWords` adds stack words that are left
over from something else. The promotion thresholds are 3 and 5 in the code and
parameters here. The heap's minimum of four pages comes from `PageHeap::new`. `Stall` is the `GcStallError` panic. Major collections
are started with precise roots only: their entry point does not pin. The page
cap, the share of the heap given as `young_bytes`, is at least two pages and at
most the heap. One slab is one object. Left out: large objects, several sizes and kinds of objects,
explicit pins, `collect_minor_with_static` (no caller in ncl-runtime), the
allocation trigger, the `try_` variants.

**StaticCards.** One model cell is a value, function or env cell. An address is
one of two places or `Free`. Stores and marks are two steps, as are bump and
fill, and the sweep of `clear_static_cards_unless_intergen` is one step per
cell, since it runs beside the other mutators, any number of them. `DynamicBind` and
`DynamicUnbind` are the entry points of a `let` of a special variable: they
store and mark nothing. `BindPointers` says whether what they store, or save,
may be a heap pointer. A collection is one step with every other mutator
between operations, for it has parked at a poll; a scanned word that is no
object's present address is not rewritten. Three ghosts record what goes wrong
(see 6): `lost`, the cells that were stored with no mark to follow, or whose
card was cleaned although they had been stored after the sweep read them
(`behind`), until their card is marked; and `missed`, a collection has passed
over a pointer in a lost cell. Growing the committed range is
left out: the whole reservation is committed.

**LispThreads.** The flags are sets of thread ids. The end of a worker is four
steps, in the order of `create_thread`'s closure: drop the mutator, set
`finished` and notify, unregister, and the OS thread's end. A thread can be
named by others once its creator or the worker itself has `Publish`ed its id. A
panic of the body ends like a return. Sleep is left out. `LispThreads` and
`LispMonitor` are both `RT/threads.rs` and both have a `pc`; `ThreadControl`
renames the former's to `tpc`, so that one module can hold the theorems about
both. Run `threads` checks it under these names.

**LispMonitor.** A region of a section's mutex is one step; the wait is
`Lookup`, `Claim` (aux), `Release`, `ParkOnCv`, `PassAux`, `TakeBack`,
`LeaveBlocked`. Collections are reduced to the facts of `Safepoint` that matter:
the driver waits, without giving up, until every other thread has parked at a
poll or is in an announced blocking call, and `leave_blocked` waits for the
end. `CondvarWait` is the Lisp wrapper, with the arguments in the order in which
it passes them (see 6). Deallocation is left out.

**Mailbox.** A region of a queue's mutex is one step: `Push` and `Pop` notify
one sleeper of the other side inside it, `SleepWhileFull` and
`SleepWhileEmpty` test and go to sleep, `GiveUp` is the time-out, `Wake` a
spurious wake-up. A thread that has been woken competes for the mutex with
those that never slept. `Get` looks the box up in the registry; a thread that
has it keeps it although `ReleaseMailbox` takes it out of the registry. Words
are counted and not told apart: the queue is first in, first out under its
mutex. Receives announce themselves (`Announced`), sends do not; collections
are as in `LispMonitor`.

**NonLocalExit.** A frame is one native call (`native_block_shim`,
`catch_shim`, `native_loop_shim`, `handler_case_shim`, `unwind_protect_shim`,
the guard of `eval`) with its local variables; the entries of BLOCK_STACK and
CATCH_STACK are in the frames that push and pop them. `regs` are the
thread-local registers: abort, target, throw and tag, condition and slot, loop
break and its value. The program is arbitrary: wherever no check fires it may
enter a construct, return or start an exit, a `(return)` outside any loop
included. Where abort is set, every construct returns, since compiled code
tests the flag after each call; but only after calls, so a thunk runs up to its
first call (`at` is "entered"), and an evaluation session never tests it:
`GuardExit` leaves `at` at "session", where `SessionGoesOn` lets `GuardEnter`
run the next form, or the next macro function, whatever the registers say.
`exit` is a ghost for the refinement: the frame an exit is meant for, and its
value. The ghost `astray` says that the registers have lost the exit they stood
for. Four things set it, each a fault of section 6: an exit leaves the cleanup it
started in, a block NIL is entered while a `(return)` is held up, a session
runs a form with abort pending, and a `(return)` outside any loop. `MaxAstray`
bounds the nesting from then on.

**EventMailbox.** `Fire` is the GUI thread's `try_send`, which drops the event
when the channel is full; `Dispatch`, `PushQueue`, `Notify` are the
dispatcher's steps: the snapshot of the queues, the push under one queue's
mutex, and the notification after it. `FilterOnWindow`, `UnfilterWindow` and
`ClearFilter` change a thread's filter, with what `GetOrCreateQueue` and
`ReplaceQueue` do to the registry. A wait at one queue is `Pop`, `Sleep`,
`GiveUp`, `Wake`; a thread with several windows goes round them with `TryPop`
and `NextRound`. The ghost `owed` is what a queue should still hold.

**SurfaceQuery.** `BeginBatch` and `SubmitBatch`/`SubmittedBatch` are with-batch
and the insertion into PANE_STATES followed by the invalidation of the window.
`Measure`, `SubmitQuery`, `NoPane`, `SubmittedQuery`, `GotReply`/`TimeOut`,
`Redisplay`, `Measured` are measure-text: put the batch in progress aside, take
the pane's slot, wait for the reply, put both back. `BeginPaint`, `Snapshot`,
`Render` are WM_PAINT, in which the update region is validated before the slot
is read. A paint may fail: before the slot is read (`PaintFails`: the client
rectangle, the render target) or while it is drawn (`RenderFails`: Direct2D and
then GDI, which still answers a query). Either way the region has been
validated, WM_PAINT only logs the error, and nothing asks for another paint.
`Forget` and `Unregister` are WM_NCDESTROY. Ghosts: `opened`, `newest`,
`screen`; `botched`, the panes whose last paint failed; `raced`, the queries
whose call overlapped with another thread's on the same pane, and `overwritten`,
the panes such a query has put its batch back over. What a batch draws is its
number.

## 3. The runs

| Run | Instance | Distinct states | Checks |
|---|---|---|---|
| `safepoint` | 2 mutators, 3 collections, any of which may run out of memory | 26 thousand | exclusion, fresh roots, flushed TLABs, no lost wake-up, arrival is stable, every stop completes, the world resumes, `StopTheWorld` is implemented |
| `heap` | 8 pages of 2 slots, 3 conses, 2 collections, minor or full, promotion at the first and a cascade at the second | 0.7 million | remembered set, complete marks, `LispGraph` is implemented |
| `heap_small` | 4 pages of 1 slot, all of which may be young, 4 conses, 2 collections, minor or major, dead stack words | 0.2 million | exact free list, every collection ends, if only by running out of memory |
| `static_cards` | 2 mutators, 2 objects, 2 cells on a card, 1 binding each, of heap pointers too | 2.1 million | only lost cells are off the dirty cards; no cell is stale before a collection passes over a lost one |
| `threads` | the primary thread and 2 workers | 0.1 million | no lost resume, joins answer after the end, termination and joins make progress |
| `monitor` | 3 threads, a section, a condition variable, depth 2, collections | 1.4 million | exclusion at the right depth, no stranded sleeper, notify wakes a waiter |
| `mailbox` | 3 threads, a mailbox of 2 places, collections | 34 thousand | capacity, nobody stranded, only senders hold up a collection |
| `exits` | 4 constructs deep, 2 once an exit is astray, two blocks, tags and values | 0.3 million | `DynamicExtent` is implemented and the top level is clean until an exit goes astray; no condition and no handler is ever left at the top level |
| `events` | 2 threads, one that may ask for both windows, one that asks for none; a channel of 1 place, 2 events | 0.7 million | nothing lost, repeated or reordered; waiters are served |
| `surface` | 2 Lisp threads on 1 pane, 1 drawing, 2 queries, paints that fail | 0.2 million | newest drawing shown unless its paint failed or a racing query put an older one back, work in progress kept, a visible pane answers |
| `heap_split`, `static_bind` | smallest instances | | two disagreements, see 6 |

Each module also has a type invariant in one of its runs.

Why the bounds suffice. Two mutators are a driver and one it waits for, or two
that race to drive; with three collections a thread can sleep through one, be
re-armed in a second and be visited in a third. A third mutator, one that the
wait loop has passed while it waits for another, is in `MCSafepointThree.cfg`,
and the proofs are for any number. Three conses make a chain that straddles two
chunks with an object of another age; two collections promote and cascade, since
the thresholds are 1 and 2. Four pages are the heap's minimum and force every
pass into several chunks; with `young_bytes` as large as the heap, four conses
fill them and a collection finds no page to copy into (`Stall`). Two cells are
a card that straddles the bump pointer and then a full one, with a mutator that
sweeps it and one that stores; nothing is explored after a collection has
passed over a lost cell (`BeforeMiss`), where the properties hold by their
excuse and the proofs cover the rest. Three cards, one full, one that straddles
the bump pointer and one beyond it, are in `MCStaticCardsAlone.cfg`. Two workers and the primary
thread can join, suspend and terminate one another crosswise. Three threads are
an owner, a waiter and a third that barges, for a section and for a mailbox;
two places let two notifications be under way. Four constructs are a target, a
cleanup on the way to it, a construct inside the cleanup and an exit that
starts in it; what matters after an exit has gone astray is one form of the
session and a handler in it. A channel of one place is full while the dispatcher holds an
event, and two events can be out of order. A drawing and two queries of two
threads on one pane overlap in every way; an older and a newer drawing, and a
drawing for a second pane in progress, are in further instances.

Further instances are kept beside the runs: `MCSafepointThree.cfg` (three
mutators, safety), `MCPageHeapTight.cfg` (four pages of two slots, no
promotion, refinement), `MCMailboxPair.cfg` (a narrow and an unbounded mailbox,
safety), `MCStaticCardsAlone.cfg` (one mutator whose bindings hold no heap
pointer, five cells: `StaticRemembered` and `NoStaleCell`, with no excuse),
`MCSurfaceQueryTwo.cfg` (two threads, two drawings, two queries, safety) and
`MCSurfaceQueryOwn.cfg` (one thread, two panes of its own, two drawings and a
query: `NewerWins`, which excuses no race), which pass; and
`MCStaticCardsRace.cfg`, `MCLispThreadsLate.cfg`, `MCLispMonitorGc.cfg`,
`MCNonLocalExitCleanup.cfg`, `MCNonLocalExitStray.cfg`,
`MCSurfaceQueryRace.cfg`, which end in the counterexamples described in 6.

Deadlock is checked in `static_cards`, `static_bind`, `mailbox` and `events`,
where something can always happen next. It is off where the system may really
stop: after an unwind that poisoned `coord_mutex` every thread may have died on
it (`safepoint`); when the bounds of `PageHeap` are used up; when Lisp threads
join each other (`threads`); when a section's owner collects (`monitor`, see
6); when the process has ended on an unhandled condition (`exits`); when all
panes are closed and the drawings used up (`surface`).

## 4. Fairness

- `Safepoint`: weak fairness of every thread's own steps (the scheduler), and
  strong fairness of the poll, since managed code keeps allocating and
  `ncl-runtime` polls before every attempt, but a thread may miss a stop that
  ends before it polls. Nothing about spurious wake-ups, the driver's time-out,
  or the program's choices, so `SafepointReached` shows that the wait loop does
  not need its time-out.
- `PageHeap`: weak fairness of the collector: a collection is one call.
- `LispThreads`: weak fairness of a thread that can go on, strong fairness of
  the poll of a worker (its loop calls `thread-safepoint`). Nobody has to
  finish, resume or join; the liveness properties are about what follows if
  they do.
- `LispMonitor`: weak fairness of a thread that can go on, strong fairness of
  the collector's poll. Nobody has to leave a section or notify.
- `Mailbox`: weak fairness of a thread that can go on, strong fairness of the
  poll. Nobody has to send or receive, and nobody wakes up by itself.
  `HeldUpOnlyBySenders` says that if a collection never ends then some sender is
  at a full mailbox from then on.
- `EventMailbox`: weak fairness of the dispatcher and of a thread that can go
  on. Wake-ups without a notification are not assumed, and firing is up to the
  user, so `WaitersServed` needs the notifications.
- `SurfaceQuery`: weak fairness of the steps of a paint, of a close and of a
  call under way; strong fairness of `BeginPaint`, since Windows sends WM_PAINT
  to a window with an update region again and again but the user may minimise
  it in between. Nothing about the five-second time-out, so
  `VisiblePaneAnswers` shows that a pane on the screen does not need it, but for
  a paint that failed without reaching the query and a query that another
  thread's batch has pushed out of the slot. Nor do the properties assume that
  paints succeed.
- `StaticCards`, `NonLocalExit`: safety only.

## 5. What is proved

**Safepoint.** For any set of mutators and any number of collections, from
`SafepointAssumption` alone (`NoOne` is not a mutator, `MaxEpoch` a natural
number, `CanOom` a Boolean):

- `Invariance`: `Spec => []IInv`. `WorldStopped` is not inductive: that the
  threads halted when a collection begins stay halted rests on who holds which
  mutex (`CoordInv`, `HeapInv`), on `world_running` being 0 exactly between
  stopping and resuming (`WorldInv`), on what the flags of a mutator say about
  its place (`FlagsInv`), on a thread at the current epoch of a stopped world
  being parked (`EpochInv`), and on what the wait loop knows of the mutators it
  has passed (`GatherInv`). `RootInv` says that a registered mutator's snapshot
  is always valid and its own roots are valid whenever it runs; `PoisonInv`
  says which mutexes an unwind has poisoned by when, because after it nothing is
  claimed of the roots. There is one lemma per conjunct, with one step per
  action that can disturb it.
- `TypeCorrect`, `Exclusion`, `FreshRoots`, `Flushed`, `Wakeups`, `Stability`:
  each safety property of run `safepoint`, `Stability` being the action property
  `ArrivalIsStable`.
- `Refinement`: `Spec => ImplementsStopTheWorld`. A step of `Safepoint` is a
  step of `StopTheWorld` or a stutter under the mapping of `AbsPlace`,
  `AbsCollector` and `AbsAddr`; a driver becomes `halted` when it publishes and
  queues, the collection is `CollectBegin` ... `Collect`, and an unwind is
  `Abort`, after which the abstract system promises nothing about addresses.

**StaticCards.** For any mutators, objects, cells, size of card and bound on
bindings, with or without bindings of heap pointers, from `StaticAssumption`
alone: `StaticTypes` (`TypeOK`), `Remembered` (`OnlyLostForgotten`) and
`NeverStale` (`StaleOnlyIfMissed`). Without their excuses both are false (see
6), so they say which stores the discipline loses, and that it loses no other.
Three invariants rest on one another. `Basic` has the places: what a mutator
works on is allocated (`PlaceInv`), one mutator at most has a collection to
clean up after (`OneSweep`), cells above the bump pointer hold nothing
(`TopInv`), so that the part of a card beyond it may be skipped. `CardInv`: the
sweep cleans a card on the strength of cells it has read earlier, and
`SweepInv` says that those it has `Passed` hold a pointer only if they are in
`behind`. `FreshInv`, of addresses: a collection that passes over no lost cell
scans every cell with a pointer, because no mutator is between a store and its
mark, and so follows roots, saved words, which pin, and cells alike.
`CardOrder` and `NextCardFirst` are the arithmetic of cards: the cells of a
card are an interval, and after its last one comes the first of the next.

**LispThreads.** For any set of workers, from `ThreadsAssumption` of
`ThreadControl` (the primary thread is no worker): `ThreadTypes`,
`NoResumeLost`, `Joined`, in `LispMonitorProofs`. The proof groups the actions; `LifeInv`
orders the four steps of an end, `BirthInv` says what has been set up by the
time an id can be named, `JoinInv` what a joiner has seen, and `MainInv` that
the primary thread is never created, joined or ended.

**LispMonitor.** For any threads, sections, condition variables, pairs of them
waited on and depth of nesting, from `MonitorAssumption` alone (handles are
natural numbers, `None` is not a thread, the bound on nesting is positive):
`Types`, `Held`, `NoneStranded`, `NoLostWakeup`, the four properties of run
`monitor`. `SectionHeld` is not inductive: that a wait restores the right
count rests on what it has saved (`OwnerInv`, which also says that the owner
is never inside its wait), and on the section still being registered
(`HandleInv`). `NoStrandedSleeper` is kept because whoever frees a section
wakes a sleeper of it (`LeaveMoves`, `ReleaseMoves`) and nobody else takes
away the one on its way (`StrandedKept`). `NotifyWakes` rests on `AuxInv`,
the aux mutex being held from the claim to the wait: the notifier, which has
to pass through it, finds every committed waiter asleep. The proofs are for
`Spec`, so they hold with and without collections.

**Mailbox.** For any finite set of threads, any mailboxes and capacities, from
`MailboxAssumption`: `MailTypes` and `Stranded`. `NobodyStranded` counts: while
a receiver sleeps, each word has an awake receiver of its own. `Count` and the
`Covered...` lemmas say how the two sides of that inequality change when a
thread leaves, wakes or is overtaken, `NotifyOneWakes` that a notification adds
one awake thread if anybody sleeps. `RoomInv` says that words in the queue and
on the way to it stay within the model's bound.

**EventMailbox.** For any finite sets of threads and windows, any interests,
capacity and number of events: `EventTypes` and `Routed` (`NothingLost`).
`ChannelInv` says that the channel is in the order of firing and newer than
what the dispatcher holds, `DispInv` that the queues still to be pushed to are
in the snapshot once each. There is one lemma for each way of disturbing the
flow: firing, dispatching, pushing, notifying, registering, taking.

**SurfaceQuery.** For any threads, panes and bounds and any number of painters
on a pane: `SurfaceTypes`, `Kept` (`DrawingKept`) and `Newest`
(`NewestShown`), whichever paints fail. `QueryInv` and `KeptInv` say what a
call under way has put aside and where; `PainterInv` who may be inside a call
about a pane, `SlotInv` what is in a pane's slot while a query that has not
been raced borrows it, `ScreenInv` that a screen that is behind has a repaint
coming, unless its last paint failed.

**NonLocalExit.** For any names, tags, values and depth, from `ExitAssumption`
(NIL is a name of blocks and neither a tag nor a value that exits carry; 0, the
empty BLOCK_TARGET, is the word of no symbol):

- `ExitTypes` (`TypeOK`) and `DepthCounts`, HANDLER_DEPTH is the number of
  handler-case forms and guards under way. Types and count are inductive
  together, since the depth is within its bounds because it counts.
- `CleanTop` (`TopLevelClean`), `ErrorsUnwind` (`ErrorUnwinds`, until an exit
  goes astray) and `ExitsKeepTheirExtent` (`ImplementsDynamicExtent`).

All are about every program of the model: that an exit goes astray is a state
that the four faults of section 6 lead to, and no premise. The invariant is
`ExitInv`: types and counts; `BelowInv`, that where no handler is under way the condition
flag is down, and that the outermost handler has found it down, so that even an
astray exit leaves no condition at the top level; and, unless astray, `IInv`
with `Fresh` (a thunk that has made no call yet runs with no exit under way).

That each exit lands where it should is not inductive, for the registers of an
exit that a cleanup holds up are in three places: abort, target, throw and tag
in the cleanup's frame; the loop flag, and the condition flag, which
unwind-protect does not save, in place, or in the first loop (handler) entered
since, which will put them back. `Consistent` says of the exit under way, and
`HeldInv` of each one held up, that its flags lead to the frame it was started
for and to no frame on the way; `LoopInv` and `CondInv` say where the unsaved
flags of an exit held up are kept (`LoopKept`, `CondKept`), and that a flag, or
a copy of one, is up for no other reason (`LoopCause`, `CondCause`). Without
the second half a stale flag might catch a later exit; without the first an
exit could lose its own. `Shape` says that a failed evaluation is the innermost
frame. All are stated for the first n frames of a stack, so that a pop is the
same formula for n - 1, and `SoundPush`, `SoundStart`, `SoundPop`, `SoundBegin`
and `SoundEnd` are the five changes an action can make. Not being astray enters
twice: exits stay inside their cleanup (`ContainedPasses`), and no block NIL
comes between a (return) that is held up and the loop that keeps its flag
(`LoopKept`). The refinement maps the frames, without one that has failed, to
the forms; `FormsAppend` and `FormsFront` are the push and the pop.

**PageHeap.** For any number and size of pages, root and stack slots, young
page cap, thresholds, conses and collections, with or without dead stack words,
from `PageHeapAssumption` alone:

- `HeapTypes` (`TypeOK`), `CardsRemember` (`RememberedSet`) and `FreeListExact`
  (the free list holds the free pages, each once, and an open page belongs to
  its generation). They rest on `BaseInv`: what each phase has set
  (`PhaseInv`), that the pages ahead of the pass are of its generation, twice in
  no list, and that nobody bumps into them (`PageInv`), that start bits cover
  objects of pages in use and forwarding markers stand in the current chunk
  only (`StartInv`), that there are no more identities than allocations
  (`IdInv`), and that an object outside G0 with a reference is on a dirty card
  (`CardInv`). `RememberedSet` speaks of the mutator's time only and is not
  inductive: `CardInv` holds it through the passes, where copies and flips of
  pinned pages must mark what they promote.

Two premises are needed for the rest, and each names a fault of section 6:

- `"major" \notin Kinds`: a major collection starts from roots and cards alone
  and misses what a young object on a clean card refers to. `ncl-runtime` drives
  none.
- `PromotesWhole`, a promotion takes its whole generation in one chunk: one that
  is split leaves references to pages it has freed (run `heap_split`). It is a
  property of the load and not of the code. `RoomSuffices` proves it from
  `NPages >= 4 * MaxAllocs`: pages in use have a start bit each (`UsedInv`) and
  objects differ by identity (`IdentInv`), so there are no more used pages than
  objects; then seven eighths of the free pages, less those that pins hold back,
  hold the generation (`ChunkTakesAll`). TLC finds that it also holds in every
  state of run `heap`, where pages are scarcer than that. Collections of G0
  into itself may be split as they like.

Under these premises: `FreePagesBlank` (`FreePagesExact`), `HeapIsClosed`
(`HeapClosed`), `MarksComplete` (`MarkComplete`), `ChunksUnreferenced`
(`ChunkUnreferenced`), and `CollectionsUnseen`, the refinement
`ImplementsLispGraph`.

No property of one phase is inductive, for a collection is correct only as a
whole. `RefInv` is what carries it: of the objects (`start`), those that are
`Doomed` (ahead of the pass, neither marked nor pinned) and, once the references
are rewritten, those that `Moved` are taken away, and what is left is `Kept`.
Slots and kept objects refer to kept objects only, whatever the phase; a
forwarding marker leads to an object outside the pages ahead. Marks establish it
(`BeginPass`: `Closure` is a fixed point, and an older object that refers into
the generation is on a card, by `CardInv`), a copy keeps it by forwarding, the
rewrite empties `Moved` of references (`SweptAll`: with the generation whole,
every kept object is swept that may refer to the chunk), the reclaim then frees
only what is not kept. `GenInv` says of each pass of each kind of collection
which generations still have pages, `SnapInv` which snapshot its card scans
decode by, `AnchorInv` that what a stack word denotes is pinned or is tenured in
a collection that leaves it alone.

The refinement compares what the slots reach before and after. `Reached` is
defined as a least set, not by recursion, so it is handled by its two halves:
nothing leads out of it (`ReachedHas`) and it is inside every set that nothing
leads out of (`ReachedIs`). `Carried` uses both: a step that moves what stands
by a function and leads each reference accordingly is invisible; a copy, a
rewrite and a reclaim are its instances (`CopyUnseen`, `RewriteUnseen`,
`ReclaimUnseen`). For the mutator, `LiveIs` computes `Live` of `LispGraph`,
`LiveObjects` translates it through identities, which `IdentInv` says are
distinct, and there is one lemma per operation (`AllocSeen`, `RplacdSeen`,
`SlotSeen`).

Only model-checked: all liveness (`CollectionEnds` and its like), which is out
of the prover's reach (it handles neither ENABLED nor fairness), and the further
instances of section 3.

## 6. Where the code and what it says of itself disagree

Two are runs that TLC ends with a counterexample:

- `heap_split` (`ChunkUnreferenced`): phase 2 of a chunk walks the pages of the
  destination generation only. When an evacuation that promotes needs two
  chunks, an object of the second keeps a reference to a page of the first
  after that page has been freed. `docs/GC_CHUNKED_INVARIANTS.md` asks for both
  generations to be walked.
- `static_bind` (`StaticRemembered`): a `let` of a special variable to a fresh
  heap object stores into the symbol's static value cell and marks no card, so
  the next minor collection does not see the reference.

Six show on the further instances of section 3:

- `MCStaticCardsRace.cfg` (`StaticRemembered`): a second mutator stores into a
  static cell and marks its card after the sweep has read the cell and before
  it cleans the card; the sweep runs after the world has been resumed.
- `MCLispThreadsLate.cfg` (`TerminateUnparks`): a suspend after a terminate and
  before the poll parks a thread that has been told to end.
- `MCLispMonitorGc.cfg` (`CollectionEnds`): a thread waits for a section
  without `enter_blocked` while the section's owner collects; neither goes on.
- `MCNonLocalExitCleanup.cfg` (`ErrorUnwinds`): the end of a cleanup restores
  abort to what it was when the cleanup began, so an exit that the cleanup
  itself has started for a form outside is dropped; after an `error` in a
  cleanup the code after the form runs with the condition still pending. The
  comment on ABORT_PENDING says that "code after `(error 'foo)` no longer runs".
- `MCNonLocalExitStray.cfg` (`TopLevelQuiet`): `loop_return_shim` sets
  ABORT_PENDING and LOOP_BREAK_PENDING whether or not a loop is under way, and
  nothing at the top level clears them: the next form's calls are cut short by
  it. The comment in `block_shim` knows of "a stray break" that would abort the
  load; only a block named NIL around it takes it up.
- `MCSurfaceQueryRace.cfg` (`NewestShown`): with two painters on one pane
  measure-text puts back the batch it found over a newer one. `batch.rs` says
  "newer sequence wins", and no sequence numbers are compared.

The others are read off the code.

Threads, sections, mailboxes:

- `Lisp/Library/threads.lisp` calls `(%condvar-wait (cs cs) cv ...)` with the
  section first, and `condvar_wait_shim` takes the condition variable first.
  Both are numbered from 1, so a wait works when the two handles are equal, as
  in run `monitor`; otherwise it returns NIL at once.
- `create_thread` stores the join handle after the spawn: a third thread that
  joins early is told false although nobody joined that worker.
  `JoinedIsOver` is what does hold.
- A suspended thread waits on `suspend_cv` without `enter_blocked`, so every
  collection waits until somebody resumes it; so does a sender at a full
  mailbox (`HeldUpOnlyBySenders` says that it is the only one there), and a
  query in `replies::wait`, for up to five seconds.
- A section can be deallocated while it is owned: its owner can no longer leave
  it.
- A mailbox of capacity 0 blocks its senders for ever.
- Words in a mailbox are no roots, as a comment in `threads.rs` says, nor is a
  received word while its receiver waits in `leave_blocked`. The parallel map of
  `threads.lisp` sends conses all the same. It
  also answers in the order of completion, reversed, where the comment promises
  the original order; a condition in a worker ends the process, and a
  terminated worker leaves the gathering thread waiting.

Non-local exits:

- `unwind_protect_shim` does not put LOOP_BREAK_PENDING aside, though its
  comment covers "all three exit kinds"; a block NIL inside the cleanup takes
  the break that is held up.
- The values that exits carry (BLOCK_STACK, CATCH_STACK, CONDITION_SLOT,
  LOOP_BREAK_VALUE) are no roots of the collector, and cleanups may collect.
- A throw or return past `load` or `eval` makes `condition_guard_exit` answer
  that there was no condition, and the session (`ncl-compiler/src/lib.rs`) goes
  on to expand and run the next forms with abort pending, one of which may take
  the exit; its doc clears the condition's flags "so subsequent work isn't
  poisoned".
- `Lisp/core.lisp` (above `return`) and the comment on the loop registers in
  `abi.rs` say that code after `(return)` in the same iteration still runs;
  `loop_return_shim` raises ABORT_PENDING, so it does not.
- Dynamic bindings are not undone by an exit (documented), and two threads that
  bind the same variable interleave on one global cell; `restart-case` restores
  `*restart-stack*` only on a normal return.

Heap and collector:

- A major collection starts G1 -> Tenured from the roots and the dirty cards of
  G0, but `alloc_cons` marks no card: an old object that only a fresh cons
  refers to is not marked. `heap_small` therefore checks that major collections
  end and keep the free list, and not `MarkComplete` or the refinement;
  `ncl-runtime` drives minor collections only.
- In a cascade, the scan of dirty cards decodes words of pages of the first
  pass by the page generations of before it.
- The commit frontier of the static area is read before the compare-and-swap on
  its top; another thread may have grown it in between.
- `try_alloc_cons_in` says that it returns None on a poisoned heap; after an
  out-of-memory unwind the heap's mutex is poisoned and a refill panics instead
  (`RefillPanics` of `Safepoint`).

GUI:

- A full channel drops any event, FrameClose and Close among them.
- CATCH_ALL grows without bound when every thread has a filter, and a thread
  that drops its filter meets the old events again. Threads without a filter
  share it, so only one of them hears a global event. An EvalBuffer event goes
  to every queue and is evaluated once per loop.
- `with-events-from` says that the filter is cleared when it is unwound, but is
  a `progn`; the docs of next-event-for and discard-stashed-events speak of a
  stash that no longer exists.
- A paint that fails has used up the update region: the pane stays as it was and
  a query for it waits for its five seconds (`botched`), since `WM_PAINT` only
  logs the error and asks for no other paint.
- A query that times out leaves its slot in SLOTS for ever, and a submit after
  a pane's forget makes a new PANE_STATES entry for it.
- Hot reload queues the first event of a burst and drops the rest for 500 ms:
  if the prompt drains in between, the last write is never loaded.

## 7. The plan, and what is not modelled

Done, in this order: the rendezvous with its abstract specification and proofs;
the page heap with its abstract specification; static cards; thread control;
sections and condition variables; mailboxes; non-local exits with their
abstract specification; the event mailbox; surfaces and text queries; proofs
for all of them: every safety and action property of a passing run is a theorem.

Left, in order of importance:

1. `PageHeap`: large objects, explicit pins, objects of several sizes; which
   load short of that of `RoomSuffices` still promotes whole generations.
2. A composition of `Safepoint` with suspended threads, sections and mailboxes
   in one state space. Now each blocking operation is checked against the
   collector's side of the bargain by itself.
3. Deallocation of sections and condition variables; growing the static area.
4. An abstract specification of thread control and of the mailbox, to refine.

Not modelled:

- Hot reload and the root stack of the entry points: sequential between two
  locks, and what goes wrong is said in section 6.
- Atomic counters, symbols and packages: one atomic operation, or one lookup
  and insertion under one mutex, each.
- Reader, compiler, IR, LLVM back end, printer, format, numbers and strings:
  large but sequential functions from text to text or tree to code, most of the
  repository's lines. Tests on examples reach what a bounded enumeration of
  their inputs would.
- GUI windows, editors and renderers, foreign calls, files, crash reports,
  audio, diagrams and tools: I/O, layout and signal processing, where the order
  of steps is the operating system's.
- Stack maps and the semispace heap: not connected to the running system.
