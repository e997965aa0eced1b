--------------------------- MODULE MailboxProofs ---------------------------
(***************************************************************************)
(* For any threads, mailboxes and capacities: the queues keep within their *)
(* bounds, and nobody sleeps beside a word, or a free place, that no awake *)
(* thread is on its way to.                                                *)
(***************************************************************************)
EXTENDS Mailbox, FiniteSetTheorems, TLAPS

\* The words in an unbounded mailbox and on the way to it are bounded by the
\* bound of the model, and only a bounded mailbox makes senders sleep.
RoomInv ==
  /\ \A b \in Boxes :
       Cap[b] = Unbounded => words[b] + Cardinality(Sending(b)) <= MaxWords
  /\ \A t \in Threads :
       pc[t] = "asleep" /\ op[t].call = "send" => Cap[op[t].box] # Unbounded

IInv == TypeOK /\ RoomInv /\ NobodyStranded

\* Counting threads.
LEMMA Count ==
  ASSUME NEW A \in SUBSET Threads
  PROVE  /\ Cardinality(A) \in Nat
         /\ \A t \in Threads \ A : Cardinality(A \cup {t}) = Cardinality(A) + 1
         /\ \A t \in A : Cardinality(A \ {t}) = Cardinality(A) - 1
         /\ \A B \in SUBSET A : Cardinality(B) <= Cardinality(A)
<1>1. IsFiniteSet(A)
  BY FS_Subset, MailboxAssumption
<1> QED
  BY <1>1, FS_CardinalityType, FS_AddElement, FS_RemoveElement, FS_Subset

\* What a step does to the sleepers and the awakened of one kind: nothing,
\* or at most one of the awakened is lost.
Same(C, b) ==
  /\ At("asleep", C, b)' = At("asleep", C, b)
  /\ At("awake", C, b)' = At("awake", C, b)

OneLeaves(C, b, t) ==
  /\ At("asleep", C, b)' = At("asleep", C, b)
  /\ At("awake", C, b)' = At("awake", C, b) \ {t}

\* One sleeper is woken, if there is one.
OneWoken(C, b) ==
  IF At("asleep", C, b) = {}
  THEN At("asleep", C, b)' = {}
  ELSE \E s \in At("asleep", C, b) :
         At("awake", C, b)' = At("awake", C, b) \cup {s}

\* n words, or places, are no more than the awakened if anybody sleeps.
Covered(C, b, n) ==
  At("asleep", C, b) # {} => n <= Cardinality(At("awake", C, b))

LEMMA CoveredAfterLeaving ==
  ASSUME NEW C, NEW b, NEW n \in Int, NEW t, Covered(C, b, n), OneLeaves(C, b, t)
  PROVE  Covered(C, b, n - 1)'
<1> DEFINE A == At("awake", C, b)
<1>1. A \in SUBSET Threads /\ A' = A \ {t}
  BY DEF OneLeaves, At
<1>2. Cardinality(A) \in Nat /\ Cardinality(A') \in Nat /\ Cardinality(A) - 1 <= Cardinality(A')
  <2>1. CASE t \in A
    BY <1>1, <2>1, Count
  <2>2. CASE t \notin A
    <3>1. A' = A
      BY <1>1, <2>2
    <3> QED
      BY <1>1, <3>1, Count
  <2> QED
    BY <2>1, <2>2
<1> QED
  BY <1>2 DEF Covered, OneLeaves

LEMMA CoveredAfterWaking ==
  ASSUME NEW C, NEW b, NEW n \in Int, Covered(C, b, n), OneWoken(C, b)
  PROVE  Covered(C, b, n + 1)'
<1>1. CASE At("asleep", C, b) = {}
  BY <1>1 DEF OneWoken, Covered
<1>2. CASE At("asleep", C, b) # {}
  <2> DEFINE A == At("awake", C, b)
  <2>1. PICK s \in At("asleep", C, b) : A' = A \cup {s}
    BY <1>2 DEF OneWoken
  <2>2. A \in SUBSET Threads /\ s \in Threads \ A
    BY DEF At
  <2>3. Cardinality(A) \in Nat /\ Cardinality(A') = Cardinality(A) + 1
    BY <2>1, <2>2, Count
  <2>4. n <= Cardinality(A)
    BY <1>2 DEF Covered
  <2> QED
    BY <2>3, <2>4 DEF Covered
<1> QED
  BY <1>1, <1>2

LEMMA CoveredWhenNothing ==
  ASSUME NEW C, NEW b
  PROVE  Covered(C, b, 0)'
<1>1. At("awake", C, b)' \in SUBSET Threads
  BY DEF At
<1> QED
  BY <1>1, Count DEF Covered

\* A push or a pop moves its thread on, wakes one thread of the other kind at
\* its mailbox, and moves nobody else.
LEMMA NotifyOneWakes ==
  ASSUME TypeOK, NEW t \in Threads, NEW b \in Boxes, NEW C, NEW D,
         op' = op, AtQueue(t), op[t].call \notin C, C \cap D = {},
         NotifyOne(t, "return", C, b)
  PROVE  /\ OneWoken(C, b)
         /\ \A q \in Boxes \ {b} : Same(C, q)
         /\ \A q \in Boxes : OneLeaves(D, q, t)
         /\ \A q \in Boxes : op[t].box # q => Same(D, q)
<1>1. pc \in [Threads -> Places] /\ pc[t] \in {"queue", "awake"}
  BY DEF TypeOK, AtQueue
<1>2. CASE At("asleep", C, b) = {}
  <2>1. pc' = [pc EXCEPT ![t] = "return"]
    BY <1>2 DEF NotifyOne
  <2>2. pc'[t] = "return" /\ \A u \in Threads \ {t} : pc'[u] = pc[u]
    BY <1>1, <2>1
  <2>3. OneWoken(C, b)
    BY <1>1, <1>2, <2>2 DEF OneWoken, At
  <2>4. \A q \in Boxes : Same(C, q)
    BY <1>1, <2>2 DEF Same, At
  <2>5. \A q \in Boxes : OneLeaves(D, q, t)
    BY <1>1, <2>2 DEF OneLeaves, At
  <2>6. \A q \in Boxes : op[t].box # q => Same(D, q)
    BY <1>1, <2>2 DEF Same, At
  <2> QED
    BY <2>3, <2>4, <2>5, <2>6
<1>3. CASE At("asleep", C, b) # {}
  <2>1. PICK s \in At("asleep", C, b) :
          pc' = [pc EXCEPT ![t] = "return", ![s] = "awake"]
    BY <1>3 DEF NotifyOne
  <2>2. /\ s \in Threads /\ s # t /\ pc[s] = "asleep"
        /\ op[s].call \in C /\ op[s].call \notin D /\ op[s].box = b
    BY <1>1 DEF At
  <2>3. /\ pc'[t] = "return" /\ pc'[s] = "awake"
        /\ \A u \in Threads \ {t, s} : pc'[u] = pc[u]
    BY <1>1, <2>1, <2>2
  <2>4. OneWoken(C, b)
    <3>1. At("awake", C, b)' = At("awake", C, b) \cup {s}
      BY <1>1, <2>2, <2>3 DEF At
    <3> QED
      BY <1>3, <3>1 DEF OneWoken
  <2>5. \A q \in Boxes \ {b} : Same(C, q)
    BY <1>1, <2>2, <2>3 DEF Same, At
  <2>6. \A q \in Boxes : OneLeaves(D, q, t)
    BY <1>1, <2>2, <2>3 DEF OneLeaves, At
  <2>7. \A q \in Boxes : op[t].box # q => Same(D, q)
    BY <1>1, <2>2, <2>3 DEF Same, At
  <2> QED
    BY <2>4, <2>5, <2>6, <2>7
<1> QED
  BY <1>2, <1>3

\* Types and room.
LEMMA TypeKept ==
  ASSUME TypeOK, RoomInv, [Next]_vars
  PROVE  TypeOK'
<1> USE MailboxAssumption DEF TypeOK, Places, Calls, Idle, Full, AtQueue, Receivers
<1>1. ASSUME NEW t \in Threads, NEW b \in Boxes, MakeMailbox(t, b) PROVE TypeOK'
  BY <1>1 DEF MakeMailbox
<1>2. ASSUME NEW t \in Threads, NEW b \in Boxes, ReleaseMailbox(t, b) PROVE TypeOK'
  BY <1>2 DEF ReleaseMailbox
<1>3. ASSUME NEW t \in Threads, NEW b \in Boxes, NEW c \in Calls, Call(t, c, b) PROVE TypeOK'
  BY <1>3 DEF Call
<1>4. ASSUME NEW t \in Threads, Get(t) PROVE TypeOK'
  BY <1>4 DEF Get
<1>5. ASSUME NEW t \in Threads, Push(t) PROVE TypeOK'
  <2>1. PICK b \in Boxes : op[t] = [call |-> "send", box |-> b]
    BY <1>5 DEF Push
  <2>2. words[b] + 1 <= MaxWords /\ (Cap[b] # Unbounded => words[b] + 1 <= Cap[b])
    <3>1. CASE Cap[b] = Unbounded
      <4>1. Sending(b) \in SUBSET Threads /\ t \in Sending(b)
        BY <1>5, <2>1 DEF Sending, Push
      <4>2. Cardinality(Sending(b)) \in Nat /\ Cardinality(Sending(b) \ {t}) \in Nat
        BY <4>1, Count
      <4>3. Cardinality(Sending(b) \ {t}) = Cardinality(Sending(b)) - 1
        BY <4>1, Count
      <4> QED
        BY <3>1, <4>2, <4>3 DEF RoomInv
    <3>2. CASE Cap[b] # Unbounded
      BY <1>5, <2>1, <3>2 DEF Push
    <3> QED
      BY <3>1, <3>2
  <2>3. /\ words' \in [Boxes -> 0..MaxWords]
        /\ \A q \in Boxes : Cap[q] # Unbounded => words'[q] <= Cap[q]
    BY <1>5, <2>1, <2>2 DEF Push
  <2>4. pc' \in [Threads -> Places]
    BY <1>5 DEF Push, NotifyOne, At
  <2>5. \A u \in Threads : pc'[u] # pc[u] =>
          \/ u = t /\ pc'[u] = "return"
          \/ pc[u] = "asleep" /\ pc'[u] = "awake"
    BY <1>5 DEF Push, NotifyOne, At
  <2> QED
    BY <1>5, <2>1, <2>3, <2>4, <2>5 DEF Push
<1>6. ASSUME NEW t \in Threads, SleepWhileFull(t) PROVE TypeOK'
  BY <1>6 DEF SleepWhileFull
<1>7. ASSUME NEW t \in Threads, Pop(t) PROVE TypeOK'
  BY <1>7 DEF Pop, NotifyOne, At
<1>8. ASSUME NEW t \in Threads, SleepWhileEmpty(t) PROVE TypeOK'
  BY <1>8 DEF SleepWhileEmpty
<1>9. ASSUME NEW t \in Threads, GiveUp(t) PROVE TypeOK'
  BY <1>9 DEF GiveUp
<1>10. ASSUME NEW t \in Threads, Wake(t) PROVE TypeOK'
  BY <1>10 DEF Wake
<1>11. ASSUME NEW t \in Threads, Return(t) PROVE TypeOK'
  BY <1>11 DEF Return
<1>12. ASSUME NEW t \in Threads, Drive(t) PROVE TypeOK'
  BY <1>12 DEF Drive
<1>13. ASSUME NEW t \in Threads, Poll(t) PROVE TypeOK'
  BY <1>13 DEF Poll
<1>14. ASSUME NEW t \in Threads, Collected(t) PROVE TypeOK'
  <2>1. /\ pc' \in [Threads -> Places]
        /\ \A u \in Threads : pc'[u] = IF op[u] = Idle THEN "run" ELSE pc[u]
    BY <1>14 DEF Collected
  <2> QED
    BY <1>14, <2>1 DEF Collected
<1>15. CASE UNCHANGED vars
  BY <1>15 DEF vars
<1> QED
  BY ONLY <1>1, <1>2, <1>3, <1>4, <1>5, <1>6, <1>7, <1>8, <1>9, <1>10, <1>11,
          <1>12, <1>13, <1>14, <1>15, [Next]_vars DEF Next

\* Everything but a queue's mutex leaves sleepers and awakened as they are.
LEMMA ElsewhereSame ==
  ASSUME TypeOK, NEW t \in Threads, NEW C \in {Senders, Receivers}, NEW q \in Boxes,
         \/ \E b \in Boxes : MakeMailbox(t, b) \/ ReleaseMailbox(t, b)
         \/ \E b \in Boxes, c \in Calls : Call(t, c, b)
         \/ Get(t) \/ Return(t) \/ Drive(t) \/ Poll(t) \/ Collected(t)
  PROVE  Same(C, q) /\ words' = words
<1> USE DEF TypeOK, Idle, Same, At, Places, Calls, Senders, Receivers
<1>1. CASE \E b \in Boxes : MakeMailbox(t, b) \/ ReleaseMailbox(t, b)
  BY <1>1 DEF MakeMailbox, ReleaseMailbox
<1>2. CASE \E b \in Boxes, c \in Calls : Call(t, c, b)
  BY <1>2 DEF Call
<1>3. CASE Get(t)
  BY <1>3 DEF Get
<1>4. CASE Return(t)
  BY <1>4 DEF Return
<1>5. CASE Drive(t)
  BY <1>5 DEF Drive
<1>6. CASE Poll(t)
  BY <1>6 DEF Poll
<1>7. CASE Collected(t)
  BY <1>7 DEF Collected
<1> QED
  BY ONLY <1>1, <1>2, <1>3, <1>4, <1>5, <1>6, <1>7,
     \/ \E b \in Boxes : MakeMailbox(t, b) \/ ReleaseMailbox(t, b)
     \/ \E b \in Boxes, c \in Calls : Call(t, c, b)
     \/ Get(t) \/ Return(t) \/ Drive(t) \/ Poll(t) \/ Collected(t)

\* A step that neither calls for a send nor pushes.
Aside(t) ==
  \/ \E b \in Boxes : MakeMailbox(t, b) \/ ReleaseMailbox(t, b)
  \/ \E b \in Boxes, c \in Calls \ {"send"} : Call(t, c, b)
  \/ Get(t) \/ SleepWhileFull(t) \/ Pop(t) \/ SleepWhileEmpty(t) \/ GiveUp(t) \/ Wake(t)
  \/ Return(t) \/ Drive(t) \/ Poll(t) \/ Collected(t)

\* It adds neither a word nor a sender.
LEMMA NoNewSender ==
  ASSUME TypeOK, NEW t \in Threads, Aside(t), NEW q \in Boxes
  PROVE  Sending(q)' \subseteq Sending(q) /\ words'[q] <= words[q]
<1> USE DEF TypeOK, Idle, Sending, AtQueue, Calls, Receivers
<1>1. CASE \E b \in Boxes : MakeMailbox(t, b) \/ ReleaseMailbox(t, b)
  BY <1>1 DEF MakeMailbox, ReleaseMailbox
<1>2. CASE \E b \in Boxes, c \in Calls \ {"send"} : Call(t, c, b)
  BY <1>2 DEF Call
<1>3. CASE Get(t)
  BY <1>3 DEF Get
<1>4. CASE SleepWhileFull(t) \/ SleepWhileEmpty(t) \/ GiveUp(t) \/ Wake(t)
  BY <1>4 DEF SleepWhileFull, SleepWhileEmpty, GiveUp, Wake
<1>5. CASE Pop(t)
  BY <1>5 DEF Pop, NotifyOne, At
<1>6. CASE Return(t)
  BY <1>6 DEF Return
<1>7. CASE Drive(t) \/ Poll(t)
  BY <1>7 DEF Drive, Poll
<1>8. CASE Collected(t)
  BY <1>8 DEF Collected
<1> QED
  BY <1>1, <1>2, <1>3, <1>4, <1>5, <1>6, <1>7, <1>8 DEF Aside

\* The bound holds: a send makes room for its word before it starts.
LEMMA RoomKept ==
  ASSUME TypeOK, RoomInv, TypeOK', [Next]_vars, NEW b \in Boxes, Cap[b] = Unbounded
  PROVE  words'[b] + Cardinality(Sending(b)') <= MaxWords
<1>0. /\ Sending(b) \in SUBSET Threads /\ Sending(b)' \in SUBSET Threads
      /\ words[b] \in Nat /\ words'[b] \in Nat /\ MaxWords \in Nat
      /\ words[b] + Cardinality(Sending(b)) <= MaxWords
  BY MailboxAssumption DEF Sending, TypeOK, RoomInv
<1>1. CASE Sending(b)' \subseteq Sending(b) /\ words'[b] <= words[b]
  <2>1. /\ Cardinality(Sending(b)) \in Nat /\ Cardinality(Sending(b)') \in Nat
        /\ Cardinality(Sending(b)') <= Cardinality(Sending(b))
    BY <1>0, <1>1, Count
  <2> QED
    BY <1>0, <1>1, <2>1
<1>2. ASSUME NEW t \in Threads, Aside(t)
      PROVE  words'[b] + Cardinality(Sending(b)') <= MaxWords
  BY <1>1, <1>2, NoNewSender
<1>3. ASSUME NEW t \in Threads, NEW q \in Boxes, Call(t, "send", q)
      PROVE  words'[b] + Cardinality(Sending(b)') <= MaxWords
  <2>1. CASE q = b
    <3>1. t \in Threads \ Sending(b) /\ Sending(b)' = Sending(b) \cup {t} /\ words' = words
      BY <1>3, <2>1 DEF Call, Sending, TypeOK, Idle
    <3>2. words[b] + Cardinality(Sending(b)) < MaxWords
      BY <1>3, <2>1 DEF Call, Room
    <3>3. Cardinality(Sending(b)) \in Nat
      BY <1>0, Count
    <3>4. Cardinality(Sending(b)') = Cardinality(Sending(b)) + 1
      BY <1>0, <3>1, Count
    <3> QED
      BY <1>0, <3>1, <3>2, <3>3, <3>4
  <2>2. CASE q # b
    <3>1. Sending(b)' \subseteq Sending(b) /\ words' = words
      BY <1>3, <2>2 DEF Call, Sending, TypeOK, Idle
    <3> QED
      BY <1>0, <1>1, <3>1
  <2> QED
    BY <2>1, <2>2
<1>4. ASSUME NEW t \in Threads, Push(t)
      PROVE  words'[b] + Cardinality(Sending(b)') <= MaxWords
  <2>1. PICK q \in Boxes : op[t] = [call |-> "send", box |-> q]
    BY <1>4 DEF Push, TypeOK, AtQueue, Idle
  <2>2. /\ pc'[t] = "return"
        /\ \A u \in Threads \ {t} : pc'[u] = pc[u] \/ (pc[u] = "asleep" /\ pc'[u] = "awake")
    BY <1>4 DEF Push, NotifyOne, At, TypeOK, AtQueue
  <2>3. op' = op /\ words' = [words EXCEPT ![q] = @ + 1]
    BY <1>4, <2>1 DEF Push
  <2>4. CASE q = b
    <3>1. t \in Sending(b) /\ Sending(b)' = Sending(b) \ {t}
      BY <1>4, <2>1, <2>2, <2>3, <2>4 DEF Sending, Push, AtQueue
    <3>2. Cardinality(Sending(b)) \in Nat
      BY <1>0, Count
    <3>3. Cardinality(Sending(b)') = Cardinality(Sending(b)) - 1
      BY <1>0, <3>1, Count
    <3>4. words'[b] = words[b] + 1
      BY <2>3, <2>4 DEF TypeOK
    <3> QED
      BY <1>0, <3>2, <3>3, <3>4
  <2>5. CASE q # b
    <3>1. Sending(b)' \subseteq Sending(b)
      BY <2>1, <2>2, <2>3, <2>5 DEF Sending
    <3>2. words'[b] = words[b]
      BY <2>3, <2>5 DEF TypeOK
    <3> QED
      BY <1>0, <1>1, <3>1, <3>2
  <2> QED
    BY <2>4, <2>5
<1>5. CASE UNCHANGED vars
  <2>1. Sending(b)' = Sending(b) /\ words' = words
    BY <1>5 DEF vars, Sending
  <2> QED
    BY <1>0, <1>1, <2>1
<1>6. CASE Next
  <2>1. PICK t \in Threads :
          Aside(t) \/ Push(t) \/ \E q \in Boxes : Call(t, "send", q)
    BY <1>6 DEF Next, Aside, Calls
  <2> QED
    BY <1>2, <1>3, <1>4, <2>1
<1> QED
  BY <1>5, <1>6

\* Only who has found a mailbox full sleeps as a sender.
LEMMA SendersSleepWhenFull ==
  ASSUME TypeOK, RoomInv, [Next]_vars, NEW u \in Threads,
         pc'[u] = "asleep", op'[u].call = "send"
  PROVE  Cap[op'[u].box] # Unbounded
<1> DEFINE Goal == Cap[op'[u].box] # Unbounded
<1>0. pc[u] = "asleep" /\ op'[u] = op[u] => Goal
  BY DEF RoomInv
<1>1. CASE UNCHANGED vars
  BY <1>0, <1>1 DEF vars
<1>2. ASSUME NEW t \in Threads, NEW b \in Boxes,
             MakeMailbox(t, b) \/ ReleaseMailbox(t, b) \/ \E c \in Calls : Call(t, c, b)
      PROVE  Goal
  BY <1>0, <1>2 DEF MakeMailbox, ReleaseMailbox, Call, TypeOK
<1>3. ASSUME NEW t \in Threads, SleepWhileFull(t) PROVE Goal
  <2>1. CASE u = t
    BY <1>3, <2>1 DEF SleepWhileFull, Full
  <2>2. CASE u # t
    BY <1>0, <1>3, <2>2 DEF SleepWhileFull, TypeOK
  <2> QED
    BY <2>1, <2>2
<1>4. ASSUME NEW t \in Threads, SleepWhileEmpty(t) PROVE Goal
  <2>1. u # t
    BY <1>4 DEF SleepWhileEmpty, Receivers
  <2> QED
    BY <1>0, <1>4, <2>1 DEF SleepWhileEmpty, TypeOK
<1>5. ASSUME NEW t \in Threads, Push(t) \/ Pop(t) PROVE Goal
  BY <1>0, <1>5 DEF Push, Pop, NotifyOne, At, TypeOK
<1>6. ASSUME NEW t \in Threads, Get(t) \/ GiveUp(t) \/ Wake(t) \/ Return(t)
      PROVE  Goal
  BY <1>0, <1>6 DEF Get, GiveUp, Wake, Return, TypeOK
<1>7. ASSUME NEW t \in Threads, Drive(t) \/ Poll(t) \/ Collected(t) PROVE Goal
  BY <1>0, <1>7 DEF Drive, Poll, Collected, TypeOK
<1> QED
  BY ONLY <1>1, <1>2, <1>3, <1>4, <1>5, <1>6, <1>7, [Next]_vars DEF Next

LEMMA RoomInvKept ==
  ASSUME TypeOK, RoomInv, TypeOK', [Next]_vars
  PROVE  RoomInv'
<1>1. ASSUME NEW b \in Boxes, Cap[b] = Unbounded
      PROVE  words'[b] + Cardinality(Sending(b)') <= MaxWords
  BY <1>1, RoomKept
<1>2. ASSUME NEW u \in Threads, pc'[u] = "asleep" /\ op'[u].call = "send"
      PROVE  Cap[op'[u].box] # Unbounded
  BY <1>2, SendersSleepWhenFull
<1> QED
  BY <1>1, <1>2 DEF RoomInv

\* The property for one mailbox.
Attended(b) ==
  /\ Covered(Receivers, b, words[b])
  /\ At("asleep", Senders, b) # {} =>
        Cap[b] - words[b] <= Cardinality(At("awake", Senders, b))

\* A step at the queue of b leaves the sleepers and awakened of the other
\* mailboxes as they are.
Elsewhere(b) ==
  \A q \in Boxes \ {b} : Same(Senders, q) /\ Same(Receivers, q) /\ words'[q] = words[q]

LEMMA AttendedElsewhere ==
  ASSUME NEW q \in Boxes, Attended(q),
         Same(Senders, q), Same(Receivers, q), words'[q] = words[q]
  PROVE  Attended(q)'
BY DEF Attended, Covered, Same

LEMMA AttendedSame ==
  ASSUME NEW b \in Boxes, \A q \in Boxes : Attended(q), Elsewhere(b), Attended(b)'
  PROVE  \A q \in Boxes : Attended(q)'
BY AttendedElsewhere DEF Elsewhere

\* A push wakes a receiver for its word and takes a free place, and with it
\* at most one awake sender.
LEMMA PushAttends ==
  ASSUME TypeOK, RoomInv, NEW t \in Threads, Push(t), \A q \in Boxes : Attended(q)
  PROVE  \A q \in Boxes : Attended(q)'
<1>1. PICK b \in Boxes : op[t] = [call |-> "send", box |-> b]
  BY DEF Push, TypeOK, AtQueue, Idle
<1>2. /\ op' = op /\ AtQueue(t) /\ NotifyOne(t, "return", Receivers, b)
      /\ words' = [words EXCEPT ![b] = @ + 1]
  BY <1>1 DEF Push
<1>3. /\ OneWoken(Receivers, b)
      /\ \A q \in Boxes \ {b} : Same(Receivers, q)
      /\ OneLeaves(Senders, b, t)
      /\ \A q \in Boxes : op[t].box # q => Same(Senders, q)
  <2>1. op[t].call \notin Receivers /\ Receivers \cap Senders = {}
    BY <1>1 DEF Receivers, Senders
  <2> QED
    BY <1>2, <2>1, NotifyOneWakes
<1>4. \A q \in Boxes : words'[q] = IF q = b THEN words[b] + 1 ELSE words[q]
  BY <1>2 DEF TypeOK
<1>5. Elsewhere(b)
  BY <1>1, <1>3, <1>4 DEF Elsewhere
<1>6. Covered(Receivers, b, words[b])'
  <2>1. PICK n \in Int : n = words[b]
    BY DEF TypeOK
  <2>2. Covered(Receivers, b, n + 1)'
    BY <1>3, <2>1, CoveredAfterWaking DEF Attended
  <2> QED
    BY <1>4, <2>1, <2>2 DEF Covered
<1>7. ASSUME At("asleep", Senders, b)' # {}
      PROVE  Cap[b] - words'[b] <= Cardinality(At("awake", Senders, b)')
  <2>1. At("asleep", Senders, b) # {}
    BY <1>3, <1>7 DEF OneLeaves
  <2>2. Cap[b] # Unbounded
    BY <2>1 DEF RoomInv, At, Senders
  <2>3. PICK n \in Int : n = Cap[b] - words[b]
    BY <2>2, MailboxAssumption DEF TypeOK
  <2>4. Covered(Senders, b, n - 1)'
    BY <1>3, <2>3, CoveredAfterLeaving DEF Attended, Covered
  <2>5. Cap[b] - words'[b] = n - 1
    BY <1>4, <2>2, <2>3, MailboxAssumption DEF TypeOK
  <2> QED
    BY <1>7, <2>4, <2>5 DEF Covered
<1>8. Attended(b)'
  BY <1>6, <1>7 DEF Attended
<1> QED
  BY <1>5, <1>8, AttendedSame

\* A pop wakes a sender for the place and takes a word.
LEMMA PopAttends ==
  ASSUME TypeOK, RoomInv, NEW t \in Threads, Pop(t), \A q \in Boxes : Attended(q)
  PROVE  \A q \in Boxes : Attended(q)'
<1>1. PICK b \in Boxes : op[t].box = b /\ op[t].call \in Calls \ {"send"}
  BY DEF Pop, TypeOK, AtQueue, Idle
<1>2. /\ op' = op /\ AtQueue(t) /\ NotifyOne(t, "return", Senders, b)
      /\ words' = [words EXCEPT ![b] = @ - 1]
  BY <1>1 DEF Pop
<1>3. /\ OneWoken(Senders, b)
      /\ \A q \in Boxes \ {b} : Same(Senders, q)
      /\ OneLeaves(Receivers, b, t)
      /\ \A q \in Boxes : op[t].box # q => Same(Receivers, q)
  <2>1. op[t].call \notin Senders /\ Senders \cap Receivers = {}
    BY <1>1 DEF Receivers, Senders
  <2> QED
    BY <1>2, <2>1, NotifyOneWakes
<1>4. \A q \in Boxes : words'[q] = IF q = b THEN words[b] - 1 ELSE words[q]
  BY <1>2 DEF TypeOK
<1>5. Elsewhere(b)
  BY <1>1, <1>3, <1>4 DEF Elsewhere
<1>6. Covered(Receivers, b, words[b])'
  <2>1. PICK n \in Int : n = words[b]
    BY DEF TypeOK
  <2>2. Covered(Receivers, b, n - 1)'
    BY <1>3, <2>1, CoveredAfterLeaving DEF Attended
  <2> QED
    BY <1>4, <2>1, <2>2 DEF Covered
<1>7. ASSUME At("asleep", Senders, b)' # {}
      PROVE  Cap[b] - words'[b] <= Cardinality(At("awake", Senders, b)')
  <2>1. At("asleep", Senders, b) # {}
    BY <1>3, <1>7 DEF OneWoken
  <2>2. Cap[b] # Unbounded
    BY <2>1 DEF RoomInv, At, Senders
  <2>3. PICK n \in Int : n = Cap[b] - words[b]
    BY <2>2, MailboxAssumption DEF TypeOK
  <2>4. Covered(Senders, b, n + 1)'
    BY <1>3, <2>3, CoveredAfterWaking DEF Attended, Covered
  <2>5. Cap[b] - words'[b] = n + 1
    BY <1>4, <2>2, <2>3, MailboxAssumption DEF TypeOK
  <2> QED
    BY <1>7, <2>4, <2>5 DEF Covered
<1>8. Attended(b)'
  BY <1>6, <1>7 DEF Attended
<1> QED
  BY <1>5, <1>8, AttendedSame

\* Who goes to sleep, or gives up, has just seen that there is nothing.
LEMMA NothingAttends ==
  ASSUME TypeOK, NEW t \in Threads, \A q \in Boxes : Attended(q),
         SleepWhileFull(t) \/ SleepWhileEmpty(t) \/ GiveUp(t)
  PROVE  \A q \in Boxes : Attended(q)'
<1>1. PICK b \in Boxes : op[t].box = b /\ op[t].call \in Calls
  BY DEF SleepWhileFull, SleepWhileEmpty, GiveUp, TypeOK, AtQueue, Idle
<1>2. /\ op' = op /\ words' = words /\ AtQueue(t)
      /\ pc'[t] \in {"asleep", "return"}
      /\ \A u \in Threads \ {t} : pc'[u] = pc[u]
  BY DEF SleepWhileFull, SleepWhileEmpty, GiveUp, TypeOK
<1>3. Elsewhere(b)
  BY <1>1, <1>2 DEF Elsewhere, Same, At, AtQueue
<1>4. CASE SleepWhileFull(t)
  <2>1. op[t].call = "send" /\ Full(b)
    BY <1>1, <1>4 DEF SleepWhileFull
  <2>2. Same(Receivers, b)
    BY <1>2, <2>1 DEF Same, At, Receivers
  <2>3. Cap[b] = words[b] /\ Cap[b] - words[b] = 0
    BY <2>1, MailboxAssumption DEF Full, TypeOK
  <2>4. Covered(Senders, b, 0)'
    BY CoveredWhenNothing
  <2>5. Attended(b)'
    BY <1>2, <2>2, <2>3, <2>4 DEF Attended, Covered, Same
  <2> QED
    BY <1>3, <2>5, AttendedSame
<1>5. CASE SleepWhileEmpty(t) \/ GiveUp(t)
  <2>1. op[t].call # "send" /\ words[b] = 0
    BY <1>1, <1>5 DEF SleepWhileEmpty, GiveUp, Receivers
  <2>2. Same(Senders, b)
    BY <1>2, <2>1 DEF Same, At, Senders
  <2>3. Covered(Receivers, b, 0)'
    BY CoveredWhenNothing
  <2>4. Attended(b)'
    BY <1>2, <2>1, <2>2, <2>3 DEF Attended, Covered, Same
  <2> QED
    BY <1>3, <2>4, AttendedSame
<1> QED
  BY <1>4, <1>5

\* A wake-up that nobody sent adds to the awakened.
LEMMA WakeAttends ==
  ASSUME TypeOK, RoomInv, NEW t \in Threads, Wake(t), NEW q \in Boxes, Attended(q)
  PROVE  Attended(q)'
<1>1. /\ op' = op /\ words' = words
      /\ pc[t] = "asleep" /\ pc'[t] = "awake"
      /\ \A u \in Threads \ {t} : pc'[u] = pc[u]
  BY DEF Wake, TypeOK
<1>2. ASSUME NEW C
      PROVE  /\ At("asleep", C, q)' \subseteq At("asleep", C, q)
             /\ At("awake", C, q) \subseteq At("awake", C, q)'
             /\ Cardinality(At("awake", C, q)) \in Nat
             /\ Cardinality(At("awake", C, q)') \in Nat
             /\ Cardinality(At("awake", C, q)) <= Cardinality(At("awake", C, q)')
  <2>1. /\ At("asleep", C, q)' \subseteq At("asleep", C, q)
        /\ At("awake", C, q) \subseteq At("awake", C, q)'
        /\ At("awake", C, q) \in SUBSET Threads
        /\ At("awake", C, q)' \in SUBSET Threads
    BY <1>1 DEF At
  <2> QED
    BY <2>1, Count
<1>3. Covered(Receivers, q, words[q])'
  <2>1. words[q] \in Int /\ words'[q] = words[q]
    BY <1>1 DEF TypeOK
  <2> QED
    BY <1>2, <2>1 DEF Attended, Covered
<1>4. ASSUME At("asleep", Senders, q)' # {}
      PROVE  Cap[q] - words'[q] <= Cardinality(At("awake", Senders, q)')
  <2>1. At("asleep", Senders, q) # {}
    BY <1>2, <1>4
  <2>2. Cap[q] # Unbounded
    BY <2>1 DEF RoomInv, At, Senders
  <2>3. Cap[q] - words[q] \in Int /\ words'[q] = words[q]
    BY <1>1, <2>2, MailboxAssumption DEF TypeOK
  <2> QED
    BY <1>2, <2>1, <2>3 DEF Attended
<1> QED
  BY <1>3, <1>4 DEF Attended

LEMMA AttendedIsProperty ==
  NobodyStranded <=> \A q \in Boxes : Attended(q)
BY DEF NobodyStranded, Attended, Covered

LEMMA StrandedKept ==
  ASSUME IInv, [Next]_vars
  PROVE  NobodyStranded'
<1>0. TypeOK /\ RoomInv /\ \A q \in Boxes : Attended(q)
  BY AttendedIsProperty DEF IInv
<1> SUFFICES \A q \in Boxes : Attended(q)'
  BY DEF NobodyStranded, Attended, Covered
<1>1. CASE UNCHANGED vars
  BY <1>0, <1>1 DEF vars, Attended, Covered, At
<1>2. ASSUME NEW t \in Threads, Push(t) PROVE \A q \in Boxes : Attended(q)'
  BY <1>0, <1>2, PushAttends
<1>3. ASSUME NEW t \in Threads, Pop(t) PROVE \A q \in Boxes : Attended(q)'
  BY <1>0, <1>3, PopAttends
<1>4. ASSUME NEW t \in Threads, SleepWhileFull(t) \/ SleepWhileEmpty(t) \/ GiveUp(t)
      PROVE  \A q \in Boxes : Attended(q)'
  BY <1>0, <1>4, NothingAttends
<1>5. ASSUME NEW t \in Threads, Wake(t) PROVE \A q \in Boxes : Attended(q)'
  BY <1>0, <1>5, WakeAttends
<1>6. ASSUME NEW t \in Threads,
             \/ \E b \in Boxes : MakeMailbox(t, b) \/ ReleaseMailbox(t, b)
             \/ \E b \in Boxes, c \in Calls : Call(t, c, b)
             \/ Get(t) \/ Return(t) \/ Drive(t) \/ Poll(t) \/ Collected(t)
      PROVE  \A q \in Boxes : Attended(q)'
  <2>1. \A q \in Boxes : Same(Senders, q) /\ Same(Receivers, q) /\ words' = words
    BY <1>0, <1>6, ElsewhereSame
  <2> QED
    BY <1>0, <2>1, AttendedElsewhere
<1> QED
  BY ONLY <1>1, <1>2, <1>3, <1>4, <1>5, <1>6, [Next]_vars, IInv DEF IInv, Next

LEMMA MailboxAtFirst == Init => IInv
<1> SUFFICES ASSUME Init PROVE IInv
  OBVIOUS
<1>1. TypeOK
  BY MailboxAssumption DEF Init, TypeOK, Places, Idle
<1>2. \A b \in Boxes : Sending(b) = {}
  BY DEF Init, Sending, Idle
<1>3. RoomInv
  BY <1>2, MailboxAssumption, FS_EmptySet DEF Init, RoomInv
<1>4. NobodyStranded
  BY DEF Init, NobodyStranded, At
<1> QED
  BY <1>1, <1>3, <1>4 DEF IInv

LEMMA MailboxInvariance == Spec => []IInv
<1>1. IInv /\ [Next]_vars => IInv'
  <2> SUFFICES ASSUME IInv, [Next]_vars PROVE IInv'
    OBVIOUS
  <2>1. TypeOK'
    BY TypeKept DEF IInv
  <2>2. RoomInv'
    BY <2>1, RoomInvKept DEF IInv
  <2>3. NobodyStranded'
    BY StrandedKept
  <2> QED
    BY <2>1, <2>2, <2>3 DEF IInv
<1> QED
  BY <1>1, MailboxAtFirst, PTL DEF Spec

\* No queue outgrows the capacity its mailbox was made with, however the
\* senders that saw a free place overtake one another (the loop of
\* Mailbox::send tests it again after every wake-up).
THEOREM MailTypes == Spec => []TypeOK
<1>1. IInv => TypeOK
  BY DEF IInv
<1> QED
  BY <1>1, MailboxInvariance, PTL

\* One notify_one for each push and each pop is enough: no receiver sleeps
\* beside a word, and no sender beside a free place, that no awake thread is
\* on its way to.
THEOREM Stranded == Spec => []NobodyStranded
<1>1. IInv => NobodyStranded
  BY DEF IInv
<1> QED
  BY <1>1, MailboxInvariance, PTL
=============================================================================
