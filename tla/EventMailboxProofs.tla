------------------------- MODULE EventMailboxProofs ------------------------
(***************************************************************************)
(* For any threads, windows, filters and capacity of the channel: what the *)
(* channel accepts reaches every queue that is there, once and in order.   *)
(***************************************************************************)
EXTENDS EventMailbox, FiniteSetTheorems, SequenceTheorems, TLAPS

-----------------------------------------------------------------------------
(* Queues as sequences.                                                    *)

LEMMA AppendElements ==
  ASSUME NEW S, NEW s \in Seq(S), NEW e \in S
  PROVE  /\ Append(s, e) \in Seq(S)
         /\ ToSet(Append(s, e)) = ToSet(s) \cup {e}
<1>1. /\ Append(s, e) \in Seq(S) /\ Len(Append(s, e)) = Len(s) + 1 /\ Len(s) \in Nat
      /\ \A i \in 1..Len(s) : Append(s, e)[i] = s[i]
      /\ Append(s, e)[Len(s) + 1] = e
  OBVIOUS
<1>2. DOMAIN Append(s, e) = 1..(Len(s) + 1) /\ DOMAIN s = 1..Len(s)
  BY <1>1
<1>3. ASSUME NEW x \in ToSet(Append(s, e)) PROVE x \in ToSet(s) \cup {e}
  <2>1. PICK i \in 1..(Len(s) + 1) : x = Append(s, e)[i]
    BY <1>2 DEF ToSet
  <2>2. CASE i \in 1..Len(s)
    BY <1>1, <1>2, <2>1, <2>2 DEF ToSet
  <2>3. CASE i = Len(s) + 1
    BY <1>1, <2>1, <2>3
  <2> QED
    BY <1>1, <2>2, <2>3
<1>4. ASSUME NEW x \in ToSet(s) \cup {e} PROVE x \in ToSet(Append(s, e))
  <2>1. CASE x = e
    BY <1>1, <1>2, <2>1 DEF ToSet
  <2>2. CASE x \in ToSet(s)
    <3>1. PICK i \in 1..Len(s) : x = s[i]
      BY <1>2, <2>2 DEF ToSet
    <3> QED
      BY <1>1, <1>2, <3>1 DEF ToSet
  <2> QED
    BY <2>1, <2>2
<1> QED
  BY <1>1, <1>3, <1>4

LEMMA TailElements ==
  ASSUME NEW S, NEW s \in Seq(S), s # << >>
  PROVE  /\ Head(s) \in S /\ Tail(s) \in Seq(S)
         /\ Len(Tail(s)) = Len(s) - 1 /\ Len(s) \in Nat \ {0}
         /\ \A i \in DOMAIN Tail(s) : i + 1 \in DOMAIN s /\ Tail(s)[i] = s[i + 1]
         /\ \A i \in DOMAIN s : i # 1 => i - 1 \in DOMAIN Tail(s) /\ s[i] = Tail(s)[i - 1]
         /\ ToSet(s) = {Head(s)} \cup ToSet(Tail(s))
<1>1. /\ Head(s) \in S /\ Tail(s) \in Seq(S) /\ Head(s) = s[1]
      /\ Len(Tail(s)) = Len(s) - 1 /\ Len(s) \in Nat \ {0}
      /\ DOMAIN s = 1..Len(s) /\ DOMAIN Tail(s) = 1..(Len(s) - 1)
      /\ \A i \in 1..(Len(s) - 1) : Tail(s)[i] = s[i + 1]
  OBVIOUS
<1>2. /\ \A i \in DOMAIN Tail(s) : i + 1 \in DOMAIN s /\ Tail(s)[i] = s[i + 1]
      /\ \A i \in DOMAIN s : i # 1 => i - 1 \in DOMAIN Tail(s) /\ s[i] = Tail(s)[i - 1]
  <2>1. ASSUME NEW i \in DOMAIN s, i # 1
        PROVE  i - 1 \in DOMAIN Tail(s) /\ s[i] = Tail(s)[i - 1]
    <3>1. i - 1 \in 1..(Len(s) - 1) /\ (i - 1) + 1 = i
      BY <1>1, <2>1
    <3> QED
      BY <1>1, <3>1
  <2>2. \A i \in DOMAIN Tail(s) : i + 1 \in DOMAIN s /\ Tail(s)[i] = s[i + 1]
    BY <1>1
  <2> QED
    BY <2>1, <2>2
<1>3. ToSet(s) = {Head(s)} \cup ToSet(Tail(s))
  BY <1>1, <1>2 DEF ToSet
<1> QED
  BY <1>1, <1>2, <1>3

LEMMA IncreasingAppend ==
  ASSUME NEW s \in Seq(Nat), NEW e \in Nat, Increasing(s), \A f \in ToSet(s) : f < e
  PROVE  Increasing(Append(s, e))
<1>1. /\ DOMAIN Append(s, e) = 1..(Len(s) + 1) /\ DOMAIN s = 1..Len(s) /\ Len(s) \in Nat
      /\ \A i \in 1..Len(s) : Append(s, e)[i] = s[i] /\ s[i] \in ToSet(s)
      /\ Append(s, e)[Len(s) + 1] = e
  BY DEF ToSet
<1> QED
  BY <1>1 DEF Increasing

LEMMA IncreasingTail ==
  ASSUME NEW s \in Seq(Nat), Increasing(s), s # << >>
  PROVE  /\ Increasing(Tail(s))
         /\ \A f \in ToSet(Tail(s)) : Head(s) < f
<1>1. /\ Head(s) = s[1] /\ DOMAIN s = 1..Len(s) /\ Len(s) \in Nat \ {0}
      /\ DOMAIN Tail(s) = 1..(Len(s) - 1)
      /\ \A i \in 1..(Len(s) - 1) : Tail(s)[i] = s[i + 1]
  OBVIOUS
<1>2. \A i, j \in 1..Len(s) : i < j => s[i] < s[j]
  BY <1>1 DEF Increasing
<1>3. ASSUME NEW i \in DOMAIN Tail(s), NEW j \in DOMAIN Tail(s), i < j
      PROVE  Tail(s)[i] < Tail(s)[j]
  <2>1. i + 1 \in 1..Len(s) /\ j + 1 \in 1..Len(s) /\ i + 1 < j + 1
    BY <1>1, <1>3
  <2> QED
    BY <1>1, <1>2, <2>1
<1>4. ASSUME NEW i \in DOMAIN Tail(s) PROVE Head(s) < Tail(s)[i]
  <2>1. i + 1 \in 1..Len(s) /\ 1 \in 1..Len(s) /\ 1 < i + 1
    BY <1>1
  <2> QED
    BY <1>1, <1>2, <2>1
<1> QED
  BY <1>3, <1>4 DEF Increasing, ToSet

\* A sequence of all the elements of a finite set, each once.
LEMMA Ordering ==
  ASSUME NEW S, IsFiniteSet(S), NEW s \in SetToSeqs(S)
  PROVE  /\ s \in Seq(S) /\ ToSet(s) = S
         /\ \A i, j \in DOMAIN s : s[i] = s[j] => i = j
<1> DEFINE D == 1..Cardinality(S)
<1>1. Cardinality(S) \in Nat /\ IsFiniteSet(D) /\ Cardinality(D) = Cardinality(S)
  BY FS_CardinalityType, FS_Interval
<1>2. s \in [D -> S] /\ \A i, j \in D : s[i] = s[j] => i = j
  BY DEF SetToSeqs
<1>3. s \in Seq(S)
  BY <1>1, <1>2
<1>4. s \in Injection(D, S)
  BY <1>2 DEF Injection, IsInjective
<1>5. s \in Surjection(D, S)
  BY <1>1, <1>4, FS_Injection
<1>6. ToSet(s) = S
  BY <1>2, <1>5 DEF Surjection, ToSet
<1> QED
  BY <1>2, <1>3, <1>6

LEMMA SeqElement ==
  ASSUME NEW S, NEW s \in Seq(S)
  PROVE  \A i \in DOMAIN s : s[i] \in S
OBVIOUS

LEMMA SeqWiden ==
  ASSUME NEW S, NEW T, S \subseteq T, NEW s \in Seq(S)
  PROVE  s \in Seq(T)
<1>1. s \in [1..Len(s) -> S] /\ Len(s) \in Nat
  OBVIOUS
<1>2. s \in [1..Len(s) -> T]
  BY <1>1
<1> QED
  BY <1>1, <1>2

-----------------------------------------------------------------------------
(* The invariant.                                                          *)

\* The types of the way of an event, and of the threads.
FlowTypes ==
  /\ fired \in 0..MaxEvents
  /\ channel \in Seq([id : 1..fired, to : Destinations]) /\ Len(channel) <= Capacity
  /\ disp \in [event : [id : 1..fired, to : Destinations] \cup {NoEvent},
               todo : Seq(registered), notify : registered \cup {NoQueue}]
  /\ CatchAll \in registered /\ registered \subseteq Queues
  /\ queue \in [Queues -> Seq(1..fired)]
  /\ \A q \in Queues \ registered : queue[q] = << >>
  /\ owed \in [Queues -> SUBSET (1..fired)]

ThreadTypes ==
  /\ filter \in [Threads -> SUBSET (Windows \cap registered)]
  /\ call \in [Threads -> [at : SUBSET registered, wait : Patience]]
  /\ pc \in [Threads -> {"run", "look", "asleep", "round"}]
  /\ left \in [Threads -> SUBSET Windows]
  /\ \A t \in Threads : call[t] = NoCall <=> pc[t] = "run"
  /\ \A t \in Threads : pc[t] = "round" => call[t].at \subseteq Windows

\* The channel is in the order of firing, behind the dispatcher's event and
\* what the queues hold, and owes events only to where it will take them.
ChannelInv ==
  /\ \A i, j \in DOMAIN channel : i < j => channel[i].id < channel[j].id
  /\ \A i \in DOMAIN channel : disp.event.id < channel[i].id
  /\ \A i \in DOMAIN channel, q \in Queues :
       /\ \A f \in ToSet(queue[q]) : f < channel[i].id
       /\ channel[i].id \in owed[q] => q \in Targets(channel[i])

\* The dispatcher has each of its queues to do once.
DispInv ==
  /\ disp.event = NoEvent => disp = Receiving
  /\ disp.event # NoEvent /\ disp.notify = NoQueue => disp.todo # << >>
  /\ \A i, j \in DOMAIN disp.todo : disp.todo[i] = disp.todo[j] => i = j

FlowInv == FlowTypes /\ ChannelInv /\ DispInv /\ NothingLost

Flow == <<fired, channel, disp, registered, queue, owed>>

-----------------------------------------------------------------------------
(* What the steps do to the way of the events.                             *)

LEMMA FlowSame ==
  ASSUME FlowInv, UNCHANGED Flow
  PROVE  FlowInv'
BY DEF FlowInv, FlowTypes, ChannelInv, DispInv, NothingLost, Flow, Targets, InFlight

\* A new queue gets what is fired from now on.
LEMMA FlowRegister ==
  ASSUME FlowInv, NEW q \in Queues, GetOrCreateQueue(q),
         UNCHANGED <<fired, channel, disp, owed>>
  PROVE  FlowInv'
<1>1. registered \subseteq registered' /\ registered' \subseteq Queues /\ queue' = queue
  BY DEF GetOrCreateQueue, FlowInv, FlowTypes
<1>2. disp.todo \in Seq(registered')
  BY <1>1, SeqWiden DEF FlowInv, FlowTypes
<1>3. FlowTypes'
  BY <1>1, <1>2 DEF FlowInv, FlowTypes
<1>4. ChannelInv'
  BY <1>1 DEF FlowInv, ChannelInv, Targets
<1>5. DispInv' /\ NothingLost'
  BY <1>1 DEF FlowInv, DispInv, NothingLost, InFlight
<1> QED
  BY <1>3, <1>4, <1>5 DEF FlowInv

\* The front of a queue is taken.
LEMMA FlowTake ==
  ASSUME FlowInv, NEW q \in Queues, queue[q] # << >>, TakeFrom(q),
         UNCHANGED <<fired, channel, disp, registered>>
  PROVE  FlowInv'
<1>1. /\ queue[q] \in Seq(1..fired) /\ queue[q] \in Seq(Nat) /\ fired \in Nat
      /\ Increasing(queue[q])
  <2>1. queue[q] \in Seq(1..fired) /\ fired \in Nat /\ Increasing(queue[q])
    BY EventMailboxAssumption DEF FlowInv, FlowTypes, NothingLost
  <2> QED
    BY <2>1, SeqWiden
<1>2. /\ Tail(queue[q]) \in Seq(1..fired) /\ Increasing(Tail(queue[q]))
      /\ ToSet(queue[q]) = {Head(queue[q])} \cup ToSet(Tail(queue[q]))
  BY <1>1, TailElements, IncreasingTail
<1>3. /\ \A p \in Queues : p # q => queue'[p] = queue[p] /\ owed'[p] = owed[p]
      /\ queue'[q] = Tail(queue[q]) /\ owed'[q] = owed[q] \ {Head(queue[q])}
      /\ queue' \in [Queues -> Seq(1..fired)] /\ owed' \in [Queues -> SUBSET (1..fired)]
  BY <1>2 DEF TakeFrom, FlowInv, FlowTypes
<1>4. FlowTypes'
  BY <1>3 DEF FlowInv, FlowTypes
<1>5. /\ \A p \in Queues : ToSet(queue'[p]) \subseteq ToSet(queue[p])
      /\ \A p \in Queues : owed'[p] \subseteq owed[p]
  BY <1>2, <1>3
<1>6. ChannelInv'
  BY <1>5 DEF FlowInv, ChannelInv, Targets
<1>7. DispInv'
  BY DEF FlowInv, DispInv
<1>8. \A p \in Queues : InFlight(p)' = InFlight(p)
  BY DEF InFlight
<1>9. NothingLost'
  <2> SUFFICES ASSUME NEW p \in Queues
               PROVE  /\ owed'[p] \subseteq ToSet(queue'[p]) \cup InFlight(p)
                      /\ Increasing(queue'[p])
                      /\ \A e \in InFlight(p) : \A f \in ToSet(queue'[p]) : f < e
    BY <1>8 DEF NothingLost
  <2>1. /\ owed[p] \subseteq ToSet(queue[p]) \cup InFlight(p)
        /\ Increasing(queue[p])
        /\ \A e \in InFlight(p) : \A f \in ToSet(queue[p]) : f < e
    BY DEF FlowInv, NothingLost
  <2>2. CASE p = q
    BY <1>2, <1>3, <1>5, <2>1, <2>2
  <2>3. CASE p # q
    BY <1>3, <2>1, <2>3
  <2> QED
    BY <2>2, <2>3
<1> QED
  BY <1>4, <1>6, <1>7, <1>9 DEF FlowInv

\* Firing more widens the types.
LEMMA FlowWiden ==
  ASSUME FlowTypes, NEW n \in Nat, n = fired + 1, n <= MaxEvents
  PROVE  /\ channel \in Seq([id : 1..n, to : Destinations])
         /\ disp \in [event : [id : 1..n, to : Destinations] \cup {NoEvent},
                      todo : Seq(registered), notify : registered \cup {NoQueue}]
         /\ queue \in [Queues -> Seq(1..n)]
         /\ owed \in [Queues -> SUBSET (1..n)]
<1>1. fired \in Nat /\ 1..fired \subseteq 1..n
  BY EventMailboxAssumption DEF FlowTypes
<1>2. [id : 1..fired, to : Destinations] \subseteq [id : 1..n, to : Destinations]
  BY <1>1
<1>3. channel \in Seq([id : 1..n, to : Destinations])
  <2> DEFINE R == [id : 1..fired, to : Destinations]
  <2> DEFINE Q == [id : 1..n, to : Destinations]
  <2>1. R \subseteq Q /\ channel \in Seq(R)
    BY <1>2 DEF FlowTypes
  <2> HIDE DEF R, Q
  <2>2. channel \in Seq(Q)
    BY <2>1, SeqWiden
  <2> QED
    BY <2>2 DEF Q
<1>4. \A q \in Queues : queue[q] \in Seq(1..n)
  BY <1>1, SeqWiden DEF FlowTypes
<1>5. queue \in [Queues -> Seq(1..n)]
  BY <1>4 DEF FlowTypes
<1>6. owed \in [Queues -> SUBSET (1..n)]
  BY <1>1 DEF FlowTypes
<1>7. disp \in [event : [id : 1..n, to : Destinations] \cup {NoEvent},
               todo : Seq(registered), notify : registered \cup {NoQueue}]
  BY <1>2 DEF FlowTypes
<1> QED
  BY <1>3, <1>5, <1>6, <1>7

\* push: the newest event goes to the end of the channel, or nowhere.
LEMMA FlowFire ==
  ASSUME FlowInv, NEW to \in Destinations, Fire(to)
  PROVE  FlowInv'
<1> DEFINE n == fired + 1
<1> DEFINE e == [id |-> n, to |-> to]
<1>1. fired \in Nat /\ n \in Nat /\ n \in 0..MaxEvents /\ fired' = n
      /\ UNCHANGED <<disp, registered, queue>>
  BY EventMailboxAssumption DEF Fire, FlowInv, FlowTypes
<1>2. /\ channel \in Seq([id : 1..n, to : Destinations])
      /\ disp \in [event : [id : 1..n, to : Destinations] \cup {NoEvent},
                   todo : Seq(registered), notify : registered \cup {NoQueue}]
      /\ queue \in [Queues -> Seq(1..n)]
      /\ owed \in [Queues -> SUBSET (1..n)]
  BY <1>1, FlowWiden DEF FlowInv
<1>3. CASE channel' = channel /\ owed' = owed
  <2>1. FlowTypes'
    BY <1>1, <1>2, <1>3 DEF FlowInv, FlowTypes
  <2>2. ChannelInv'
    BY <1>1, <1>3 DEF FlowInv, ChannelInv, Targets
  <2>3. DispInv' /\ NothingLost'
    BY <1>1, <1>3 DEF FlowInv, DispInv, NothingLost, InFlight
  <2> QED
    BY <2>1, <2>2, <2>3 DEF FlowInv
<1>4. CASE /\ Len(channel) < Capacity
           /\ channel' = Append(channel, e)
           /\ owed' = [q \in Queues |-> IF q \in Owing(to) THEN owed[q] \cup {n} ELSE owed[q]]
  <2>1. e \in [id : 1..n, to : Destinations] /\ Len(channel) \in Nat
    BY <1>1, <1>2
  <2>2. /\ channel' \in Seq([id : 1..n, to : Destinations])
        /\ Len(channel') = Len(channel) + 1
        /\ DOMAIN channel' = DOMAIN channel \cup {Len(channel) + 1}
        /\ DOMAIN channel = 1..Len(channel)
        /\ \A i \in DOMAIN channel : channel'[i] = channel[i]
        /\ channel'[Len(channel) + 1] = e
    BY <1>2, <1>4, <2>1
  <2>3. /\ \A i \in DOMAIN channel : channel[i].id \in 1..fired
        /\ \A q \in Queues : \A f \in ToSet(queue[q]) : f \in 1..fired
        /\ disp.event.id \in 0..fired
        /\ \A q \in Queues : owed[q] \subseteq 1..fired
    <3>1. \A i \in DOMAIN channel : channel[i] \in [id : 1..fired, to : Destinations]
      <4> DEFINE R == [id : 1..fired, to : Destinations]
      <4>1. channel \in Seq(R)
        BY DEF FlowInv, FlowTypes
      <4> HIDE DEF R
      <4>2. \A i \in DOMAIN channel : channel[i] \in R
        BY <4>1, SeqElement
      <4> QED
        BY <4>2 DEF R
    <3>2. \A q \in Queues : queue[q] \in Seq(1..fired)
      BY DEF FlowInv, FlowTypes
    <3>3. \A q \in Queues : \A i \in DOMAIN queue[q] : queue[q][i] \in 1..fired
      BY <3>2, SeqElement
    <3>4. disp.event.id \in 0..fired
      BY <1>1 DEF FlowInv, FlowTypes, NoEvent
    <3> QED
      BY <3>1, <3>3, <3>4 DEF ToSet, FlowInv, FlowTypes
  <2>4. FlowTypes'
    <3>1. owed' \in [Queues -> SUBSET (1..n)]
      BY <1>1, <1>2, <1>4
    <3>2. Len(channel') <= Capacity
      BY <1>4, <2>1, <2>2, EventMailboxAssumption
    <3> QED
      BY <1>1, <1>2, <2>2, <3>1, <3>2 DEF FlowInv, FlowTypes
  <2>5. ChannelInv'
    <3>1. \A i, j \in DOMAIN channel' : i < j => channel'[i].id < channel'[j].id
      BY <1>1, <2>1, <2>2, <2>3, SMTT(30) DEF FlowInv, ChannelInv
    <3>2. \A i \in DOMAIN channel' : disp'.event.id < channel'[i].id
      BY <1>1, <2>2, <2>3 DEF FlowInv, ChannelInv
    <3>3. \A i \in DOMAIN channel', q \in Queues : \A f \in ToSet(queue'[q]) : f < channel'[i].id
      <4> SUFFICES ASSUME NEW i \in DOMAIN channel', NEW q \in Queues, NEW f \in ToSet(queue[q])
                   PROVE  f < channel'[i].id
        BY <1>1
      <4>1. CASE i \in DOMAIN channel
        BY <2>2, <4>1 DEF FlowInv, ChannelInv
      <4>2. CASE i = Len(channel) + 1
        <5>1. channel'[i].id = n
          BY <2>2, <4>2
        <5>2. f \in 1..fired
          BY <2>3
        <5> QED
          BY <1>1, <5>1, <5>2
      <4> QED
        BY <2>2, <4>1, <4>2
    <3>4. ASSUME NEW i \in DOMAIN channel', NEW q \in Queues, channel'[i].id \in owed'[q]
          PROVE  q \in Targets(channel'[i])
      <4>1. CASE i \in DOMAIN channel
        <5>1. channel'[i] = channel[i] /\ channel[i].id # n
          BY <1>1, <2>2, <2>3, <4>1
        <5>2. channel[i].id \in owed[q]
          BY <1>4, <3>4, <5>1
        <5> QED
          BY <4>1, <5>1, <5>2 DEF FlowInv, ChannelInv
      <4>2. CASE channel'[i] = e
        <5>1. q \in Owing(to)
          <6>1. n \notin owed[q]
            BY <1>1, <2>3
          <6> QED
            BY <1>4, <3>4, <4>2, <6>1
        <5> QED
          BY <4>2, <5>1 DEF Owing, Targets
      <4> QED
        BY <2>2, <4>1, <4>2
    <3> QED
      BY <1>1, <3>1, <3>2, <3>3, <3>4 DEF ChannelInv, Targets
  <2>6. DispInv'
    BY <1>1 DEF FlowInv, DispInv
  <2>7. NothingLost'
    <3>1. \A q \in Queues : InFlight(q)' = InFlight(q) \cup {n}
      BY <1>1, <2>2 DEF InFlight
    <3>2. \A q \in Queues : owed'[q] \subseteq owed[q] \cup {n}
      BY <1>4
    <3> QED
      BY <1>1, <2>3, <3>1, <3>2 DEF FlowInv, NothingLost
  <2> QED
    BY <2>4, <2>5, <2>6, <2>7 DEF FlowInv
<1> QED
  BY <1>1, <1>3, <1>4 DEF Fire

\* The dispatcher takes the oldest event, and owes it to its targets only.
LEMMA FlowDispatch ==
  ASSUME FlowInv, Dispatch
  PROVE  FlowInv'
<1> DEFINE R == [id : 1..fired, to : Destinations]
<1> DEFINE e == Head(channel)
<1>1. /\ disp = Receiving /\ channel # << >> /\ channel \in Seq(R)
      /\ channel' = Tail(channel)
      /\ UNCHANGED <<fired, registered, queue, owed>>
  BY DEF Dispatch, FlowInv, FlowTypes, DispInv
<1>2. /\ e \in R /\ channel' \in Seq(R)
      /\ Len(channel') = Len(channel) - 1 /\ Len(channel) \in Nat \ {0}
      /\ \A i \in DOMAIN channel' : i + 1 \in DOMAIN channel /\ channel'[i] = channel[i + 1]
      /\ \A i \in DOMAIN channel :
           i # 1 => i - 1 \in DOMAIN channel' /\ channel[i] = channel'[i - 1]
      /\ 1 \in DOMAIN channel /\ e = channel[1]
  <2> HIDE DEF R
  <2>1. 1 \in DOMAIN channel /\ e = channel[1]
    BY <1>1
  <2> QED
    BY <1>1, <2>1, TailElements
<1>3. e.id \in 1..fired /\ fired \in Nat /\ e.id # 0
  BY <1>2, EventMailboxAssumption DEF FlowInv, FlowTypes
<1>4. PICK order \in SetToSeqs(Targets(e)) :
        disp' = [event |-> e, todo |-> order, notify |-> NoQueue]
  BY DEF Dispatch
<1>5. /\ Targets(e) \subseteq registered /\ IsFiniteSet(Targets(e))
      /\ CatchAll \in Targets(e)
  <2>1. Targets(e) \subseteq registered /\ registered \subseteq Queues /\ CatchAll \in Targets(e)
    BY DEF Targets, FlowInv, FlowTypes
  <2>2. IsFiniteSet(Queues)
    BY EventMailboxAssumption, FS_AddElement DEF Queues
  <2> QED
    BY <2>1, <2>2, FS_Subset
<1>6. /\ order \in Seq(Targets(e)) /\ ToSet(order) = Targets(e)
      /\ \A i, j \in DOMAIN order : order[i] = order[j] => i = j
  BY <1>5, Ordering
<1>7. order \in Seq(registered) /\ order # << >>
  <2>1. order \in Seq(registered)
    BY <1>5, <1>6, SeqWiden
  <2>2. order # << >>
    BY <1>5, <1>6 DEF ToSet
  <2> QED
    BY <2>1, <2>2
<1>8. disp'.event = e /\ disp'.todo = order /\ disp'.notify = NoQueue
  BY <1>4
<1>9. FlowTypes'
  <2>1. Len(channel') <= Capacity
    BY <1>2, EventMailboxAssumption DEF FlowInv, FlowTypes
  <2> QED
    BY <1>1, <1>2, <1>4, <1>7, <2>1 DEF FlowInv, FlowTypes
<1>10. ASSUME NEW i \in DOMAIN channel'
       PROVE  /\ i + 1 \in DOMAIN channel /\ channel'[i] = channel[i + 1]
              /\ e.id < channel'[i].id
  <2>1. i + 1 \in DOMAIN channel /\ channel'[i] = channel[i + 1] /\ 1 < i + 1
    BY <1>2
  <2> QED
    BY <1>2, <2>1 DEF FlowInv, ChannelInv
<1>11. ChannelInv'
  <2>1. \A i, j \in DOMAIN channel' : i < j => channel'[i].id < channel'[j].id
    <3> SUFFICES ASSUME NEW i \in DOMAIN channel', NEW j \in DOMAIN channel', i < j
                 PROVE  channel'[i].id < channel'[j].id
      OBVIOUS
    <3>1. i + 1 < j + 1
      BY <1>2
    <3> QED
      BY <1>10, <3>1 DEF FlowInv, ChannelInv
  <2>2. \A i \in DOMAIN channel' : disp'.event.id < channel'[i].id
    BY <1>8, <1>10
  <2>3. \A i \in DOMAIN channel', q \in Queues :
          /\ \A f \in ToSet(queue'[q]) : f < channel'[i].id
          /\ channel'[i].id \in owed'[q] => q \in Targets(channel'[i])
    BY <1>1, <1>10 DEF FlowInv, ChannelInv
  <2> QED
    BY <1>1, <2>1, <2>2, <2>3 DEF ChannelInv, Targets
<1>12. DispInv'
  BY <1>3, <1>6, <1>7, <1>8 DEF DispInv, NoEvent
<1>13. NothingLost'
  <2> DEFINE Ids == {channel[i].id : i \in DOMAIN channel}
  <2>1. Ids = {e.id} \cup {channel'[i].id : i \in DOMAIN channel'}
    BY <1>2
  <2>2. \A q \in Queues : InFlight(q) = Ids
    BY <1>1 DEF InFlight, Receiving, ToSet
  <2>3. \A q \in Queues : e.id \in owed[q] => q \in Targets(e)
    BY <1>2 DEF FlowInv, ChannelInv
  <2>4. \A q \in Queues :
          InFlight(q)' = {channel'[i].id : i \in DOMAIN channel'}
                           \cup (IF q \in Targets(e) THEN {e.id} ELSE {})
    BY <1>6, <1>8 DEF InFlight
  <2>5. \A q \in Queues :
          /\ InFlight(q)' \subseteq InFlight(q)
          /\ owed[q] \cap InFlight(q) \subseteq InFlight(q)'
    BY <2>1, <2>2, <2>3, <2>4
  <2> QED
    BY <1>1, <2>5 DEF FlowInv, NothingLost
<1> QED
  BY <1>9, <1>11, <1>12, <1>13 DEF FlowInv

\* ChildQueue::push puts the event behind everything that its queue has had.
LEMMA FlowPush ==
  ASSUME FlowInv, PushQueue
  PROVE  FlowInv'
<1> DEFINE id == disp.event.id
<1>a. /\ disp.event # NoEvent /\ disp.notify = NoQueue /\ disp.todo # << >>
      /\ disp.todo \in Seq(registered)
  BY DEF PushQueue, FlowInv, FlowTypes, DispInv
<1>b. PICK q \in registered : q = Head(disp.todo)
  BY <1>a
<1>1. /\ disp.event # NoEvent /\ disp.notify = NoQueue
      /\ queue' = [queue EXCEPT ![q] = Append(@, id)]
      /\ disp' = [disp EXCEPT !.todo = Tail(@), !.notify = q]
      /\ UNCHANGED <<fired, channel, registered, owed>>
  BY <1>a, <1>b DEF PushQueue
<1>2. /\ q \in registered /\ Tail(disp.todo) \in Seq(registered)
      /\ ToSet(disp.todo) = {q} \cup ToSet(Tail(disp.todo))
      /\ \A i \in DOMAIN Tail(disp.todo) :
           i + 1 \in DOMAIN disp.todo /\ Tail(disp.todo)[i] = disp.todo[i + 1] /\ i \in Nat \ {0}
      /\ 1 \in DOMAIN disp.todo /\ q = disp.todo[1]
  <2>1. /\ 1 \in DOMAIN disp.todo /\ q = disp.todo[1]
        /\ \A i \in DOMAIN Tail(disp.todo) : i \in Nat \ {0}
    BY <1>a, <1>b
  <2> QED
    BY <1>a, <1>b, <2>1, TailElements
<1>3. /\ disp'.event = disp.event /\ disp'.todo = Tail(disp.todo) /\ disp'.notify = q
      /\ disp' = [event |-> disp.event, todo |-> Tail(disp.todo), notify |-> q]
  BY <1>1 DEF FlowInv, FlowTypes
<1>4. q \in Queues /\ q # NoQueue /\ queue[q] \in Seq(1..fired) /\ fired \in Nat
  BY <1>2, SentinelAssumption, EventMailboxAssumption
     DEF FlowInv, FlowTypes, Queues, CatchAll, NoQueue
<1>5. id \in 1..fired
  BY <1>1 DEF FlowInv, FlowTypes
<1>6. \A i, j \in DOMAIN disp.todo : disp.todo[i] = disp.todo[j] => i = j
  BY DEF FlowInv, DispInv
<1>7. q \notin ToSet(Tail(disp.todo))
  BY <1>2, <1>6 DEF ToSet
<1>8. \A i, j \in DOMAIN Tail(disp.todo) : Tail(disp.todo)[i] = Tail(disp.todo)[j] => i = j
  <2> SUFFICES ASSUME NEW i \in DOMAIN Tail(disp.todo), NEW j \in DOMAIN Tail(disp.todo),
                      Tail(disp.todo)[i] = Tail(disp.todo)[j]
               PROVE  i = j
    OBVIOUS
  <2>1. i + 1 = j + 1
    BY <1>2, <1>6
  <2> QED
    BY <1>2, <2>1
<1>9. /\ \A p \in Queues : p # q => queue'[p] = queue[p]
      /\ queue'[q] = Append(queue[q], id)
  BY <1>1, <1>4 DEF FlowInv, FlowTypes
<1>10. /\ queue'[q] \in Seq(1..fired)
       /\ ToSet(queue'[q]) = ToSet(queue[q]) \cup {id}
  BY <1>4, <1>5, <1>9, AppendElements
<1>11. \A f \in ToSet(queue[q]) : f < id
  <2>1. id \in InFlight(q)
    BY <1>2 DEF InFlight
  <2> QED
    BY <1>4, <2>1 DEF FlowInv, NothingLost
<1>12. Increasing(queue'[q])
  <2>1. queue[q] \in Seq(Nat) /\ id \in Nat
    BY <1>4, <1>5, SeqWiden
  <2>2. Increasing(queue[q])
    BY <1>4 DEF FlowInv, NothingLost
  <2> QED
    BY <1>9, <1>11, <2>1, <2>2, IncreasingAppend
<1>13. FlowTypes'
  <2>1. queue' \in [Queues -> Seq(1..fired)]
    BY <1>1, <1>4, <1>9, <1>10 DEF FlowInv, FlowTypes
  <2>2. disp' \in [event : [id : 1..fired, to : Destinations] \cup {NoEvent},
                  todo : Seq(registered), notify : registered \cup {NoQueue}]
    BY <1>2, <1>3 DEF FlowInv, FlowTypes
  <2>3. \A p \in Queues \ registered : queue'[p] = << >>
    BY <1>2, <1>9 DEF FlowInv, FlowTypes
  <2> QED
    BY <1>1, <2>1, <2>2, <2>3 DEF FlowInv, FlowTypes
<1>14. ChannelInv'
  <2>1. \A i \in DOMAIN channel : id < channel[i].id
    BY DEF FlowInv, ChannelInv
  <2>2. \A i \in DOMAIN channel, p \in Queues : \A f \in ToSet(queue'[p]) : f < channel[i].id
    BY <1>9, <1>10, <2>1 DEF FlowInv, ChannelInv
  <2> QED
    BY <1>1, <1>3, <2>2 DEF FlowInv, ChannelInv, Targets
<1>15. DispInv'
  BY <1>1, <1>3, <1>4, <1>8 DEF DispInv
<1>16. NothingLost'
  <2> DEFINE Ids == {channel[i].id : i \in DOMAIN channel}
  <2>1. InFlight(q)' = Ids /\ InFlight(q) = Ids \cup {id}
    BY <1>1, <1>2, <1>3, <1>7 DEF InFlight
  <2>2. \A p \in Queues : p # q => InFlight(p)' = InFlight(p)
    BY <1>1, <1>2, <1>3 DEF InFlight
  <2>3. \A i \in Ids : \A f \in ToSet(queue'[q]) : f < i
    BY <1>1, <1>4, <1>14 DEF ChannelInv
  <2> SUFFICES ASSUME NEW p \in Queues
               PROVE  /\ owed[p] \subseteq ToSet(queue'[p]) \cup InFlight(p)'
                      /\ Increasing(queue'[p])
                      /\ \A i \in InFlight(p)' : \A f \in ToSet(queue'[p]) : f < i
    BY <1>1 DEF NothingLost
  <2>4. /\ owed[p] \subseteq ToSet(queue[p]) \cup InFlight(p)
        /\ Increasing(queue[p])
        /\ \A i \in InFlight(p) : \A f \in ToSet(queue[p]) : f < i
    BY DEF FlowInv, NothingLost
  <2>5. CASE p = q
    BY <1>10, <1>12, <2>1, <2>3, <2>4, <2>5
  <2>6. CASE p # q
    BY <1>9, <2>2, <2>4, <2>6
  <2> QED
    BY <2>5, <2>6
<1> QED
  BY <1>13, <1>14, <1>15, <1>16 DEF FlowInv

\* The loop over the queues goes on, or the dispatcher goes back to recv.
LEMMA FlowNotify ==
  ASSUME FlowInv, disp.notify # NoQueue, disp' = Pushed,
         UNCHANGED <<fired, channel, registered, queue, owed>>
  PROVE  FlowInv'
<1>1. CASE disp.todo = << >>
  <2>1. disp' = Receiving /\ disp'.event.id = 0 /\ disp'.todo = << >>
    BY <1>1 DEF Pushed, Receiving, NoEvent
  <2>2. FlowTypes'
    BY <2>1 DEF FlowInv, FlowTypes, Receiving
  <2>3. ChannelInv'
    <3>1. \A i \in DOMAIN channel : channel[i].id \in 1..fired
      <4> DEFINE R == [id : 1..fired, to : Destinations]
      <4>1. channel \in Seq(R)
        BY DEF FlowInv, FlowTypes
      <4> HIDE DEF R
      <4>2. \A i \in DOMAIN channel : channel[i] \in R
        BY <4>1, SeqElement
      <4> QED
        BY <4>2 DEF R
    <3>2. \A i \in DOMAIN channel : 0 < channel[i].id
      BY <3>1 DEF FlowInv, FlowTypes
    <3> QED
      BY <2>1, <3>2 DEF FlowInv, ChannelInv, Targets
  <2>4. DispInv'
    BY <2>1 DEF DispInv, Receiving
  <2>5. NothingLost'
    <3>1. \A q \in Queues : InFlight(q)' = InFlight(q)
      BY <1>1, <2>1 DEF InFlight, ToSet
    <3> QED
      BY <3>1 DEF FlowInv, NothingLost
  <2> QED
    BY <2>2, <2>3, <2>4, <2>5 DEF FlowInv
<1>2. CASE disp.todo # << >>
  <2>1. /\ disp' = [event |-> disp.event, todo |-> disp.todo, notify |-> NoQueue]
        /\ disp'.event = disp.event /\ disp'.todo = disp.todo /\ disp'.notify = NoQueue
    BY <1>2 DEF Pushed, FlowInv, FlowTypes
  <2>2. FlowTypes'
    BY <2>1 DEF FlowInv, FlowTypes
  <2>3. ChannelInv'
    BY <2>1 DEF FlowInv, ChannelInv, Targets
  <2>4. DispInv'
    <3>1. disp.event # NoEvent
      BY DEF FlowInv, DispInv, Receiving
    <3> QED
      BY <1>2, <2>1, <3>1 DEF FlowInv, DispInv
  <2>5. NothingLost'
    BY <2>1 DEF FlowInv, NothingLost, InFlight
  <2> QED
    BY <2>2, <2>3, <2>4, <2>5 DEF FlowInv
<1> QED
  BY <1>1, <1>2

-----------------------------------------------------------------------------
(* The threads.                                                            *)

LEMMA FlowStep ==
  ASSUME FlowInv, ThreadTypes, [Next]_vars
  PROVE  FlowInv'
<1>1. CASE UNCHANGED vars
  BY <1>1, FlowSame DEF vars, Flow
<1>2. ASSUME NEW to \in Destinations, Fire(to) PROVE FlowInv'
  BY <1>2, FlowFire
<1>3. CASE Dispatcher
  BY <1>3, FlowDispatch, FlowPush, FlowNotify DEF Dispatcher, Notify
<1>4. ASSUME NEW t \in Threads, NEW q \in Queues, NEW wait \in Patience, WaitAt(t, q, wait)
      PROVE  FlowInv'
  BY <1>4, FlowRegister DEF WaitAt, Routing
<1>5. ASSUME NEW t \in Threads, NEW w \in Windows,
             FilterOnWindow(t, w) \/ UnfilterWindow(t, w) \/ ClearFilter(t)
      PROVE  FlowInv'
  <2>1. CASE FilterOnWindow(t, w)
    BY <2>1, FlowRegister DEF FilterOnWindow, Routing, Queues
  <2>2. CASE UnfilterWindow(t, w) \/ ClearFilter(t)
    BY <2>2, FlowSame DEF UnfilterWindow, ClearFilter, Routing, Flow
  <2> QED
    BY <1>5, <2>1, <2>2
<1>6. ASSUME NEW t \in Threads, ClearFilter(t) PROVE FlowInv'
  BY <1>6, FlowSame DEF ClearFilter, Routing, Flow
<1>7. ASSUME NEW t \in Threads, NEW wait \in Patience, NextEvent(t, wait) PROVE FlowInv'
  <2>1. CASE \E q \in Queues : WaitAt(t, q, wait)
    BY <1>4, <2>1
  <2>2. CASE UNCHANGED Flow
    BY <2>2, FlowSame
  <2> QED
    BY <1>7, <2>1, <2>2 DEF NextEvent, NextEventFor, Queues, Routing, Flow
<1>8. ASSUME NEW t \in Threads, NEW wait \in Patience, NEW w \in Windows,
             NextEventFor(t, w, wait)
      PROVE  FlowInv'
  BY <1>4, <1>8 DEF NextEventFor, Queues
<1>9. ASSUME NEW t \in Threads, GoesOn(t) PROVE FlowInv'
  <2>1. ASSUME NEW q \in Queues, Pop(t, q) PROVE FlowInv'
    BY <2>1, FlowTake DEF Pop, Routing
  <2>2. ASSUME NEW q \in Queues, Sleep(t, q) \/ GiveUp(t, q) PROVE FlowInv'
    BY <2>2, FlowSame DEF Sleep, GiveUp, Routing, Flow
  <2>3. ASSUME NEW w \in Windows, TryPop(t, w) PROVE FlowInv'
    <3>1. CASE queue[w] # << >>
      BY <2>3, <3>1, FlowTake DEF TryPop, Routing, Queues
    <3>2. CASE queue[w] = << >>
      BY <2>3, <3>2, FlowSame DEF TryPop, Routing, Flow
    <3> QED
      BY <3>1, <3>2
  <2>4. CASE NextRound(t) \/ StopPolling(t)
    BY <2>4, FlowSame DEF NextRound, StopPolling, Routing, Flow
  <2> QED
    BY ONLY <1>9, <2>1, <2>2, <2>3, <2>4 DEF GoesOn
<1>10. ASSUME NEW t \in Threads, Wake(t) PROVE FlowInv'
  BY <1>10, FlowSame DEF Wake, Routing, Flow
<1>11. \A t \in Threads : Interest[t] \subseteq Windows
  BY EventMailboxAssumption
<1> QED
  BY ONLY <1>1, <1>2, <1>3, <1>5, <1>6, <1>7, <1>8, <1>9, <1>10, <1>11, [Next]_vars DEF Next

LEMMA ThreadsKept ==
  ASSUME FlowInv, ThreadTypes, [Next]_vars
  PROVE  ThreadTypes'
<1>0. ThreadTypes /\ registered \subseteq Queues /\ CatchAll \in registered
  BY DEF FlowInv, FlowTypes
<1>1. CASE UNCHANGED vars
  BY <1>0, <1>1 DEF vars, ThreadTypes
<1>2. ASSUME NEW to \in Destinations, Fire(to) PROVE ThreadTypes'
  BY <1>0, <1>2 DEF Fire, Threading, ThreadTypes
<1>3. CASE Dispatcher
  <2>1. CASE Dispatch \/ PushQueue
    BY <1>0, <2>1 DEF Dispatch, PushQueue, Threading, ThreadTypes
  <2>2. CASE Notify
    <3>1. /\ UNCHANGED <<registered, filter, call, left>>
          /\ pc' = pc \/ \E t \in Threads : pc[t] = "asleep" /\ pc' = [pc EXCEPT ![t] = "look"]
      BY <2>2 DEF Notify, Asleep
    <3> QED
      BY <1>0, <3>1 DEF ThreadTypes
  <2> QED
    BY <1>3, <2>1, <2>2 DEF Dispatcher
<1>4. ASSUME NEW t \in Threads, NEW q \in Queues, NEW wait \in Patience, WaitAt(t, q, wait)
      PROVE  ThreadTypes'
  <2>1. registered \subseteq registered' /\ q \in registered'
    BY <1>4 DEF WaitAt, GetOrCreateQueue
  <2>2. [at |-> {q}, wait |-> wait] \in [at : SUBSET registered', wait : Patience]
    BY <2>1
  <2>3. [at |-> {q}, wait |-> wait] # NoCall
    BY DEF NoCall
  <2>4. /\ call' = [call EXCEPT ![t] = [at |-> {q}, wait |-> wait]]
        /\ pc' = [pc EXCEPT ![t] = "look"] /\ filter' = filter /\ left' = left
    BY <1>4 DEF WaitAt
  <2>5. call \in [Threads -> [at : SUBSET registered', wait : Patience]]
    BY <1>0, <2>1 DEF ThreadTypes
  <2>6. call' \in [Threads -> [at : SUBSET registered', wait : Patience]]
    BY <2>2, <2>4, <2>5
  <2> QED
    BY <1>0, <2>1, <2>3, <2>4, <2>6 DEF ThreadTypes
<1>5. ASSUME NEW t \in Threads, NEW w \in Windows, FilterOnWindow(t, w)
      PROVE  ThreadTypes'
  <2>1. registered \subseteq registered' /\ w \in registered'
    BY <1>5 DEF FilterOnWindow, GetOrCreateQueue
  <2>2. /\ filter' = [filter EXCEPT ![t] = @ \cup {w}]
        /\ UNCHANGED <<call, pc, left>>
    BY <1>5 DEF FilterOnWindow, Routing
  <2>3. filter' \in [Threads -> SUBSET (Windows \cap registered')]
    BY <1>0, <2>1, <2>2 DEF ThreadTypes
  <2>4. call' \in [Threads -> [at : SUBSET registered', wait : Patience]]
    BY <1>0, <2>1, <2>2 DEF ThreadTypes
  <2> QED
    BY <1>0, <2>2, <2>3, <2>4 DEF ThreadTypes
<1>6. ASSUME NEW t \in Threads,
             ClearFilter(t) \/ \E w \in Windows : UnfilterWindow(t, w)
      PROVE  ThreadTypes'
  BY <1>0, <1>6 DEF ClearFilter, UnfilterWindow, ThreadTypes, Routing
<1>7. ASSUME NEW t \in Threads, NEW wait \in Patience, NextEvent(t, wait)
      PROVE  ThreadTypes'
  <2>1. CASE \E q \in Queues : WaitAt(t, q, wait)
    BY <1>4, <2>1
  <2>2. CASE /\ Cardinality(filter[t]) > 1
             /\ call' = [call EXCEPT ![t] = [at |-> filter[t], wait |-> wait]]
             /\ pc' = [pc EXCEPT ![t] = "round"]
             /\ left' = [left EXCEPT ![t] = filter[t]]
             /\ UNCHANGED <<registered, filter>>
    <3>1. filter[t] # {}
      BY <2>2, FS_EmptySet
    <3>2. filter[t] \subseteq registered /\ filter[t] \subseteq Windows
      BY <1>0 DEF ThreadTypes
    <3>3. /\ [at |-> filter[t], wait |-> wait] \in [at : SUBSET registered, wait : Patience]
          /\ [at |-> filter[t], wait |-> wait] # NoCall
      BY <3>1, <3>2 DEF NoCall
    <3> QED
      BY <1>0, <2>2, <3>2, <3>3 DEF ThreadTypes
  <2> QED
    BY <1>7, <2>1, <2>2 DEF NextEvent, NextEventFor, Queues
<1>8. ASSUME NEW t \in Threads, NEW wait \in Patience, NEW w \in Windows,
             NextEventFor(t, w, wait)
      PROVE  ThreadTypes'
  BY <1>4, <1>8 DEF NextEventFor, Queues
<1>9. ASSUME NEW t \in Threads, GoesOn(t) PROVE ThreadTypes'
  <2>1. CASE /\ pc' = [pc EXCEPT ![t] = "run"] /\ call' = [call EXCEPT ![t] = NoCall]
             /\ UNCHANGED <<registered, filter>>
             /\ left' = left \/ left' = [left EXCEPT ![t] = {}]
    <3>1. NoCall \in [at : SUBSET registered, wait : Patience]
      BY DEF NoCall, Patience
    <3> QED
      BY <1>0, <2>1, <3>1 DEF ThreadTypes
  <2>2. ASSUME NEW q \in Queues, Sleep(t, q) PROVE ThreadTypes'
    BY <1>0, <2>2 DEF Sleep, Looks, Routing, ThreadTypes
  <2>3. ASSUME NEW w \in Windows, TryPop(t, w), queue[w] = << >> PROVE ThreadTypes'
    BY <1>0, <2>3 DEF TryPop, Routing, ThreadTypes
  <2>4. CASE NextRound(t)
    <3>1. call[t].at \in SUBSET Windows
      BY <1>0, <2>4 DEF ThreadTypes, NextRound
    <3> QED
      BY <1>0, <2>4, <3>1 DEF NextRound, Routing, ThreadTypes
  <2> QED
    BY <1>9, <2>1, <2>2, <2>3, <2>4 DEF GoesOn, Pop, GiveUp, TryPop, StopPolling, Answer
<1>10. ASSUME NEW t \in Threads, Wake(t) PROVE ThreadTypes'
  BY <1>0, <1>10 DEF Wake, Routing, ThreadTypes
<1>11. \A t \in Threads : Interest[t] \subseteq Windows
  BY EventMailboxAssumption
<1> QED
  BY ONLY <1>1, <1>2, <1>3, <1>5, <1>6, <1>7, <1>8, <1>9, <1>10, <1>11, [Next]_vars DEF Next

-----------------------------------------------------------------------------
(* The theorems.                                                           *)

LEMMA EventsAtFirst == Init => FlowInv /\ ThreadTypes
<1> SUFFICES ASSUME Init PROVE FlowInv /\ ThreadTypes
  OBVIOUS
<1>1. FlowTypes
  BY EventMailboxAssumption DEF Init, FlowTypes, Receiving, Queues
<1>2. ChannelInv /\ DispInv
  BY DEF Init, ChannelInv, DispInv, Receiving
<1>3. NothingLost
  <2>1. \A q \in Queues : owed[q] = {} /\ queue[q] = << >>
    BY DEF Init
  <2>2. \A q \in Queues : Increasing(queue[q]) /\ ToSet(queue[q]) = {}
    BY <2>1 DEF Increasing, ToSet
  <2> QED
    BY <2>1, <2>2 DEF NothingLost
<1>4. ThreadTypes
  BY DEF Init, ThreadTypes, NoCall, Patience
<1> QED
  BY <1>1, <1>2, <1>3, <1>4 DEF FlowInv

LEMMA EventInvariance == Spec => [](FlowInv /\ ThreadTypes)
<1>1. FlowInv /\ ThreadTypes /\ [Next]_vars => (FlowInv /\ ThreadTypes)'
  BY FlowStep, ThreadsKept
<1> QED
  BY <1>1, EventsAtFirst, PTL DEF Spec

\* Filters and waits name queues that are there, whoever registers them.
THEOREM EventTypes == Spec => []TypeOK
<1>1. FlowInv /\ ThreadTypes => TypeOK
  BY DEF FlowInv, FlowTypes, ThreadTypes, TypeOK
<1> QED
  BY <1>1, EventInvariance, PTL

\* NothingLost: what the channel accepts reaches every queue that was
\* registered by then and should have it, once and in the order of firing.
THEOREM Routed == Spec => []NothingLost
<1>1. FlowInv /\ ThreadTypes => NothingLost
  BY DEF FlowInv
<1> QED
  BY <1>1, EventInvariance, PTL
=============================================================================
