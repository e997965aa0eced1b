------------------------- MODULE LispMonitorProofs -------------------------
(***************************************************************************)
(* For any number of threads, sections, condition variables and nested     *)
(* enters: a thread owns the section it has entered, at the right count;   *)
(* a free section leaves no sleeper behind; a notify wakes a waiter.       *)
(* After that, the other half of threads.rs, the module LispThreads.       *)
(***************************************************************************)
EXTENDS LispMonitor, ThreadControl, TLAPS

Entering == {"enter", "enterSleep"}
OnCv     == {"claim", "release", "park", "cvSleep", "woken"}
Outside  == {"park", "cvSleep", "woken", "back", "backSleep"}

\* The handles of an operation under way are registered.
HandleInv ==
  /\ sec \in [Threads -> Nat] /\ cv \in [Threads -> Nat]
  /\ saved \in [Threads -> Nat]
  /\ \A t \in Threads :
       /\ pc[t] \in Entering \cup {"claim", "release"} \cup Outside => sec[t] \in Sections
       /\ pc[t] \in OnCv \cup {"notify", "broadcast"} => cv[t] \in Condvars

\* Who owns a section, at which count, and what a wait has saved.
OwnerInv ==
  /\ \A t \in Threads, s \in Sections :
       /\ owner[s] = t => depth[t][s] = count[s] /\ ~GaveUp(t, s)
       /\ depth[t][s] > 0 /\ ~GaveUp(t, s) => owner[s] = t
       /\ GaveUp(t, s) => depth[t][s] > 0 /\ saved[t] = depth[t][s]
  /\ \A t \in Threads : pc[t] \in Entering => depth[t][sec[t]] < MaxDepth

\* The aux mutex is held from the claim to the wait.
AuxInv ==
  \A t \in Threads : pc[t] \in {"release", "park"} => aux[cv[t]] = t

IInv == TypeOK /\ HandleInv /\ OwnerInv /\ AuxInv /\ NoStrandedSleeper

\* Exactly what one thread does in one step.
Step(t) == Continue(t) \/ Choose(t) \/ WaitEnds(t) \/ ParkForGc(t)

\* Depths and counts are numbers, and a section without an owner has count 0.
LEMMA Counts ==
  ASSUME TypeOK, NEW t \in Threads, NEW s \in Sections
  PROVE  /\ depth[t][s] \in 0..MaxDepth /\ count[s] \in 0..MaxDepth
         /\ owner[s] = None <=> count[s] = 0
<1>1. depth \in [Threads -> [Sections -> 0..MaxDepth]] /\ count \in [Sections -> 0..MaxDepth]
  BY DEF TypeOK
<1>2. owner[s] = None <=> count[s] = 0
  BY DEF TypeOK
<1> QED
  BY <1>1, <1>2

\* Thread t goes to a label; at most some sleepers are sent to look again.
Moves(t, label) ==
  /\ pc' \in [Threads -> Labels] /\ pc'[t] = label
  /\ \A u \in Threads \ {t} :
       \/ pc'[u] = pc[u]
       \/ pc[u] = "enterSleep" /\ pc'[u] = "enter"
       \/ pc[u] = "backSleep" /\ pc'[u] = "back"

\* One of the sleepers of a section, if it has any, is woken.
Wakes(t, s) ==
  Asleep(s) # {} =>
    \E u \in Threads \ {t} : sec[u] = s /\ pc'[u] \in {"enter", "back"}

\* notify_one moves the notifier to its label and one sleeper, if there is
\* one, to where it looks at the section again; nobody else moves.
LEMMA NotifyOneMoves ==
  ASSUME pc \in [Threads -> Labels], NEW t \in Threads, NEW s \in Sections,
         NEW label \in Labels, pc[t] \notin {"enterSleep", "backSleep"},
         NotifyOne(s, t, label)
  PROVE  Moves(t, label) /\ Wakes(t, s)
<1>1. CASE Asleep(s) = {}
  <2>1. pc' = [pc EXCEPT ![t] = label]
    BY <1>1 DEF NotifyOne
  <2> QED
    BY <1>1, <2>1 DEF Moves, Wakes
<1>2. CASE Asleep(s) # {}
  <2>1. PICK u \in Asleep(s) : pc' = Awake([pc EXCEPT ![t] = label], u)
    BY <1>2 DEF NotifyOne
  <2>2. u \in Threads \ {t} /\ sec[u] = s /\ pc[u] \in {"enterSleep", "backSleep"}
    BY DEF Asleep
  <2>3. pc' = [[pc EXCEPT ![t] = label] EXCEPT
                 ![u] = IF pc[u] = "enterSleep" THEN "enter" ELSE "back"]
    BY <2>1, <2>2 DEF Awake
  <2>4. pc' \in [Threads -> Labels] /\ pc'[t] = label
    BY <2>2, <2>3 DEF Labels
  <2>5. pc'[u] = IF pc[u] = "enterSleep" THEN "enter" ELSE "back"
    BY <2>2, <2>3
  <2>6. \A w \in Threads \ {t, u} : pc'[w] = pc[w]
    BY <2>2, <2>3
  <2> QED
    BY <2>2, <2>4, <2>5, <2>6 DEF Moves, Wakes
<1> QED
  BY <1>1, <1>2

\* A leave moves nobody but a sleeper, and wakes one when it frees the section.
LEMMA LeaveMoves ==
  ASSUME TypeOK, NEW t \in Threads, NEW s \in Sections, Leave(t, s)
  PROVE  /\ pc[t] = "run" /\ Moves(t, "run")
         /\ count[s] = 1 => owner' = [owner EXCEPT ![s] = None] /\ Wakes(t, s)
         /\ count[s] # 1 => owner' = owner /\ pc' = pc
<1>1. CASE count[s] = 1
  <2>1. NotifyOne(s, t, "run") /\ pc[t] = "run" /\ owner' = [owner EXCEPT ![s] = None]
    BY <1>1 DEF Leave
  <2>2. pc \in [Threads -> Labels] /\ "run" \in Labels
    BY DEF TypeOK, Labels
  <2> QED
    BY <1>1, <2>1, <2>2, NotifyOneMoves
<1>2. CASE count[s] # 1
  BY <1>2 DEF Leave, Moves, TypeOK
<1> QED
  BY <1>1, <1>2

\* So does the release of step 2 of a wait, which then parks.
LEMMA ReleaseMoves ==
  ASSUME TypeOK, HandleInv, NEW t \in Threads, Release(t), owner[sec[t]] = t
  PROVE  pc[t] = "release" /\ sec[t] \in Sections /\ Moves(t, "park") /\ Wakes(t, sec[t])
<1>1. pc[t] = "release" /\ NotifyOne(sec[t], t, "park")
  BY DEF Release
<1>2. sec[t] \in Sections /\ pc \in [Threads -> Labels] /\ "park" \in Labels
  BY <1>1 DEF HandleInv, TypeOK, Labels
<1>3. PICK s \in Sections : s = sec[t]
  BY <1>2
<1>4. NotifyOne(s, t, "park")
  BY <1>1, <1>3
<1>5. Moves(t, "park") /\ Wakes(t, s)
  BY <1>1, <1>2, <1>4, NotifyOneMoves
<1> QED
  BY <1>1, <1>2, <1>3, <1>5

\* A notify of a condition variable moves at most one of its waiters.
LEMMA NotifyMoves ==
  ASSUME TypeOK, NEW t \in Threads, Notify(t)
  PROVE  /\ pc' \in [Threads -> Labels] /\ pc'[t] = "run"
         /\ \A u \in Threads \ {t} :
              pc'[u] = pc[u] \/ (pc[u] = "cvSleep" /\ pc'[u] = "woken")
<1> USE DEF TypeOK
<1>1. pc \in [Threads -> Labels] /\ pc[t] = "notify"
  BY DEF Notify
<1>2. "run" \in Labels /\ "woken" \in Labels
  BY DEF Labels
<1> HIDE DEF TypeOK
<1>3. CASE Waiting(cv[t]) = {}
  <2>1. pc' = [pc EXCEPT ![t] = "run"]
    BY <1>3 DEF Notify
  <2> QED
    BY <1>1, <1>2, <2>1
<1>4. CASE Waiting(cv[t]) # {}
  <2>1. PICK u \in Waiting(cv[t]) :
               pc' = [[pc EXCEPT ![t] = "run"] EXCEPT ![u] = "woken"]
    BY <1>4 DEF Notify
  <2>2. u \in Threads /\ u # t /\ pc[u] = "cvSleep"
    BY <1>1 DEF Waiting
  <2>3. pc' \in [Threads -> Labels] /\ pc'[t] = "run" /\ pc'[u] = "woken"
    BY <1>1, <1>2, <2>1, <2>2
  <2>4. \A w \in Threads \ {t, u} : pc'[w] = pc[w]
    BY <1>1, <2>1, <2>2
  <2> QED
    BY <2>2, <2>3, <2>4
<1> QED
  BY <1>3, <1>4

\* Handles stay registered and typed.
LEMMA HandleStep ==
  ASSUME TypeOK, HandleInv, OwnerInv, NEW t \in Threads, Step(t)
  PROVE  HandleInv'
<1> USE MonitorAssumption
<1>1. ASSUME NEW s \in Sections, BeginEnter(t, s)
      PROVE  HandleInv'
  BY <1>1 DEF BeginEnter, Goto,
     TypeOK, HandleInv, OwnerInv, Entering, OnCv, Outside, Labels, cs
<1>2. ASSUME Enter(t)
      PROVE  HandleInv'
  BY <1>2 DEF Enter, Goto,
     TypeOK, HandleInv, OwnerInv, Entering, OnCv, Outside, Labels, cs
<1>3. ASSUME NEW s \in Sections, Leave(t, s)
      PROVE  HandleInv'
  BY <1>3, LeaveMoves DEF Leave, Moves,
     TypeOK, HandleInv, OwnerInv, Entering, OnCv, Outside, Labels, cs
<1>4. ASSUME NEW p \in Pairs, NEW how \in {"forever", "timed", "zero"},
              CondvarWait(t, p[1], p[2], how)
      PROVE  HandleInv'
  BY <1>4 DEF CondvarWait, WaitCall, Goto,
     TypeOK, HandleInv, OwnerInv, Entering, OnCv, Outside, Labels, cs
<1>5. ASSUME Lookup(t)
      PROVE  HandleInv'
  BY <1>5 DEF Lookup, Goto,
     TypeOK, HandleInv, OwnerInv, Entering, OnCv, Outside, Labels, cs
<1>6. ASSUME Claim(t)
      PROVE  HandleInv'
  BY <1>6 DEF Claim, Goto,
     TypeOK, HandleInv, OwnerInv, Entering, OnCv, Outside, Labels, cs
<1>7. ASSUME Release(t)
      PROVE  HandleInv'
  <2>1. CASE owner[sec[t]] = t
    BY <1>7, <2>1, ReleaseMoves, SMTT(30) DEF Release, Moves,
       TypeOK, HandleInv, OwnerInv, Entering, OnCv, Outside, Labels, cs
  <2>2. CASE owner[sec[t]] # t
    BY <1>7, <2>2 DEF Release, Goto,
       TypeOK, HandleInv, OwnerInv, Entering, OnCv, Outside, Labels, cs
  <2> QED
    BY <2>1, <2>2
<1>8. ASSUME ParkOnCv(t)
      PROVE  HandleInv'
  BY <1>8 DEF ParkOnCv, Goto,
     TypeOK, HandleInv, OwnerInv, Entering, OnCv, Outside, Labels, cs
<1>9. ASSUME WaitEnds(t)
      PROVE  HandleInv'
  BY <1>9 DEF WaitEnds, Goto,
     TypeOK, HandleInv, OwnerInv, Entering, OnCv, Outside, Labels, cs
<1>10. ASSUME PassAux(t)
       PROVE  HandleInv'
  BY <1>10 DEF PassAux, Goto,
     TypeOK, HandleInv, OwnerInv, Entering, OnCv, Outside, Labels, cs
<1>11. ASSUME TakeBack(t)
       PROVE  HandleInv'
  BY <1>11 DEF TakeBack, Goto,
     TypeOK, HandleInv, OwnerInv, Entering, OnCv, Outside, Labels, cs
<1>12. ASSUME LeaveBlocked(t)
       PROVE  HandleInv'
  BY <1>12 DEF LeaveBlocked,
     TypeOK, HandleInv, OwnerInv, Entering, OnCv, Outside, Labels, cs
<1>13. ASSUME NEW v \in Condvars, NEW label \in {"notify", "broadcast"},
               BeginNotify(t, v, label)
       PROVE  HandleInv'
  BY <1>13 DEF BeginNotify, Goto,
     TypeOK, HandleInv, OwnerInv, Entering, OnCv, Outside, Labels, cs
<1>14. ASSUME Notify(t)
       PROVE  HandleInv'
  BY <1>14, NotifyMoves DEF Notify,
     TypeOK, HandleInv, OwnerInv, Entering, OnCv, Outside, Labels, cs
<1>15. ASSUME Broadcast(t)
       PROVE  HandleInv'
  BY <1>15 DEF Broadcast, Waiting,
     TypeOK, HandleInv, OwnerInv, Entering, OnCv, Outside, Labels, cs
<1>16. ASSUME Drive(t)
       PROVE  HandleInv'
  BY <1>16 DEF Drive, Goto,
     TypeOK, HandleInv, OwnerInv, Entering, OnCv, Outside, Labels, cs
<1>17. ASSUME ParkForGc(t)
       PROVE  HandleInv'
  BY <1>17 DEF ParkForGc, Goto,
     TypeOK, HandleInv, OwnerInv, Entering, OnCv, Outside, Labels, cs
<1>18. ASSUME Collected(t)
       PROVE  HandleInv'
  BY <1>18 DEF Collected,
     TypeOK, HandleInv, OwnerInv, Entering, OnCv, Outside, Labels, cs
<1> HIDE MonitorAssumption
<1> QED
  BY ONLY Step(t), <1>1, <1>2, <1>3, <1>4, <1>5, <1>6, <1>7, <1>8, <1>9,
     <1>10, <1>11, <1>12, <1>13, <1>14, <1>15, <1>16, <1>17, <1>18
     DEF Step, Continue, Choose

\* The aux mutex stays with its claimant.
LEMMA AuxStep ==
  ASSUME TypeOK, HandleInv, AuxInv, NEW t \in Threads, Step(t)
  PROVE  AuxInv'
<1> USE MonitorAssumption
<1>1. ASSUME NEW s \in Sections, BeginEnter(t, s)
      PROVE  AuxInv'
  BY <1>1 DEF BeginEnter, Goto,
     TypeOK, HandleInv, AuxInv, OnCv, Outside, Entering, Labels, cs
<1>2. ASSUME Enter(t)
      PROVE  AuxInv'
  BY <1>2 DEF Enter, Goto,
     TypeOK, HandleInv, AuxInv, OnCv, Outside, Entering, Labels, cs
<1>3. ASSUME NEW s \in Sections, Leave(t, s)
      PROVE  AuxInv'
  BY <1>3, LeaveMoves DEF Leave, Moves,
     TypeOK, HandleInv, AuxInv, OnCv, Outside, Entering, Labels, cs
<1>4. ASSUME NEW p \in Pairs, NEW how \in {"forever", "timed", "zero"},
              CondvarWait(t, p[1], p[2], how)
      PROVE  AuxInv'
  BY <1>4 DEF CondvarWait, WaitCall, Goto,
     TypeOK, HandleInv, AuxInv, OnCv, Outside, Entering, Labels, cs
<1>5. ASSUME Lookup(t)
      PROVE  AuxInv'
  BY <1>5 DEF Lookup, Goto,
     TypeOK, HandleInv, AuxInv, OnCv, Outside, Entering, Labels, cs
<1>6. ASSUME Claim(t)
      PROVE  AuxInv'
  BY <1>6 DEF Claim, Goto,
     TypeOK, HandleInv, AuxInv, OnCv, Outside, Entering, Labels, cs
<1>7. ASSUME Release(t)
      PROVE  AuxInv'
  <2>1. CASE owner[sec[t]] = t
    BY <1>7, <2>1, ReleaseMoves DEF Release, Moves,
       TypeOK, HandleInv, AuxInv, OnCv, Outside, Entering, Labels, cs
  <2>2. CASE owner[sec[t]] # t
    BY <1>7, <2>2 DEF Release, Goto,
       TypeOK, HandleInv, AuxInv, OnCv, Outside, Entering, Labels, cs
  <2> QED
    BY <2>1, <2>2
<1>8. ASSUME ParkOnCv(t)
      PROVE  AuxInv'
  BY <1>8 DEF ParkOnCv, Goto,
     TypeOK, HandleInv, AuxInv, OnCv, Outside, Entering, Labels, cs
<1>9. ASSUME WaitEnds(t)
      PROVE  AuxInv'
  BY <1>9 DEF WaitEnds, Goto,
     TypeOK, HandleInv, AuxInv, OnCv, Outside, Entering, Labels, cs
<1>10. ASSUME PassAux(t)
       PROVE  AuxInv'
  BY <1>10 DEF PassAux, Goto,
     TypeOK, HandleInv, AuxInv, OnCv, Outside, Entering, Labels, cs
<1>11. ASSUME TakeBack(t)
       PROVE  AuxInv'
  BY <1>11 DEF TakeBack, Goto,
     TypeOK, HandleInv, AuxInv, OnCv, Outside, Entering, Labels, cs
<1>12. ASSUME LeaveBlocked(t)
       PROVE  AuxInv'
  BY <1>12 DEF LeaveBlocked,
     TypeOK, HandleInv, AuxInv, OnCv, Outside, Entering, Labels, cs
<1>13. ASSUME NEW v \in Condvars, NEW label \in {"notify", "broadcast"},
               BeginNotify(t, v, label)
       PROVE  AuxInv'
  BY <1>13 DEF BeginNotify, Goto,
     TypeOK, HandleInv, AuxInv, OnCv, Outside, Entering, Labels, cs
<1>14. ASSUME Notify(t)
       PROVE  AuxInv'
  BY <1>14, NotifyMoves DEF Notify,
     TypeOK, HandleInv, AuxInv, OnCv, Outside, Entering, Labels, cs
<1>15. ASSUME Broadcast(t)
       PROVE  AuxInv'
  BY <1>15 DEF Broadcast, Waiting,
     TypeOK, HandleInv, AuxInv, OnCv, Outside, Entering, Labels, cs
<1>16. ASSUME Drive(t)
       PROVE  AuxInv'
  BY <1>16 DEF Drive, Goto,
     TypeOK, HandleInv, AuxInv, OnCv, Outside, Entering, Labels, cs
<1>17. ASSUME ParkForGc(t)
       PROVE  AuxInv'
  BY <1>17 DEF ParkForGc, Goto,
     TypeOK, HandleInv, AuxInv, OnCv, Outside, Entering, Labels, cs
<1>18. ASSUME Collected(t)
       PROVE  AuxInv'
  BY <1>18 DEF Collected,
     TypeOK, HandleInv, AuxInv, OnCv, Outside, Entering, Labels, cs
<1> HIDE MonitorAssumption
<1> QED
  BY ONLY Step(t), <1>1, <1>2, <1>3, <1>4, <1>5, <1>6, <1>7, <1>8, <1>9,
     <1>10, <1>11, <1>12, <1>13, <1>14, <1>15, <1>16, <1>17, <1>18
     DEF Step, Continue, Choose

\* Only its owner changes a section, and a wait restores what it has saved.
LEMMA OwnerStep ==
  ASSUME TypeOK, HandleInv, OwnerInv, NEW t \in Threads, Step(t)
  PROVE  OwnerInv'
<1> USE MonitorAssumption
<1>1. ASSUME NEW s \in Sections, BeginEnter(t, s)
      PROVE  OwnerInv'
  BY <1>1 DEF BeginEnter, Goto,
     TypeOK, HandleInv, OwnerInv, Entering, Outside, GaveUp, Labels, cs
<1>2. ASSUME Enter(t)
      PROVE  OwnerInv'
  <2>1. CASE owner[sec[t]] \in {None, t}
    <3>1. /\ pc[t] = "enter" /\ sec[t] \in Sections
          /\ pc' = [pc EXCEPT ![t] = "run"]
          /\ owner' = [owner EXCEPT ![sec[t]] = t]
          /\ count' = [count EXCEPT ![sec[t]] = @ + 1]
          /\ depth' = [depth EXCEPT ![t][sec[t]] = @ + 1]
          /\ UNCHANGED <<sec, saved>>
      BY <1>2, <2>1 DEF Enter, Goto, HandleInv, Entering
    <3>2. depth[t][sec[t]] = count[sec[t]]
      <4>1. depth[t][sec[t]] \in Nat /\ ~GaveUp(t, sec[t])
        BY <3>1, Counts DEF GaveUp
      <4>2. owner[sec[t]] = None => count[sec[t]] = 0 /\ ~(depth[t][sec[t]] > 0)
        BY <3>1, <4>1, Counts, MonitorAssumption DEF OwnerInv
      <4> QED
        BY <2>1, <3>1, <4>1, <4>2 DEF OwnerInv
    <3> QED
      BY <2>1, <3>1, <3>2 DEF TypeOK, HandleInv, OwnerInv, Entering, Outside, GaveUp, Labels, cs
  <2>2. CASE owner[sec[t]] \notin {None, t}
    BY <1>2, <2>2 DEF Enter, Goto,
       TypeOK, HandleInv, OwnerInv, Entering, Outside, GaveUp, Labels, cs
  <2> QED
    BY <2>1, <2>2
<1>3. ASSUME NEW s \in Sections, Leave(t, s)
      PROVE  OwnerInv'
  <2>1. /\ pc[t] = "run" /\ owner[s] = t /\ UNCHANGED <<sec, saved>>
        /\ \A s0 \in Sections :
             count'[s0] = IF s0 = s THEN count[s] - 1 ELSE count[s0]
    BY <1>3 DEF Leave, TypeOK
  <2>2. \A u \in Threads, s0 \in Sections :
          depth'[u][s0] = IF u = t /\ s0 = s THEN depth[t][s] - 1 ELSE depth[u][s0]
    BY <1>3 DEF Leave, TypeOK
  <2>3. \A s0 \in Sections :
          owner'[s0] = IF s0 = s /\ count[s] = 1 THEN None ELSE owner[s0]
    BY <1>3, LeaveMoves DEF TypeOK
  <2>4. \A u \in Threads, s0 \in Sections : GaveUp(u, s0)' <=> GaveUp(u, s0)
    BY <1>3, <2>1, LeaveMoves DEF Moves, GaveUp
  <2>5. \A u \in Threads : pc'[u] \in Entering => pc[u] \in Entering /\ u # t
    BY <1>3, LeaveMoves DEF Moves, Entering
  <2>6. depth[t][s] = count[s] /\ depth[t][s] \in Nat /\ count[s] # 0
    BY <2>1, MonitorAssumption DEF OwnerInv, TypeOK
  <2>7. \A u \in Threads, s0 \in Sections :
          /\ owner'[s0] = u => depth'[u][s0] = count'[s0] /\ ~GaveUp(u, s0)'
          /\ depth'[u][s0] > 0 /\ ~GaveUp(u, s0)' => owner'[s0] = u
          /\ GaveUp(u, s0)' => depth'[u][s0] > 0 /\ saved'[u] = depth'[u][s0]
    BY <2>1, <2>2, <2>3, <2>4, <2>6, MonitorAssumption DEF OwnerInv
  <2>8. \A u \in Threads : pc'[u] \in Entering => depth'[u][sec'[u]] < MaxDepth
    BY <2>1, <2>2, <2>5 DEF OwnerInv, HandleInv
  <2> QED
    BY <2>7, <2>8 DEF OwnerInv
<1>4. ASSUME NEW p \in Pairs, NEW how \in {"forever", "timed", "zero"},
              CondvarWait(t, p[1], p[2], how)
      PROVE  OwnerInv'
  BY <1>4 DEF CondvarWait, WaitCall, Goto,
     TypeOK, HandleInv, OwnerInv, Entering, Outside, GaveUp, Labels, cs
<1>5. ASSUME Lookup(t)
      PROVE  OwnerInv'
  BY <1>5 DEF Lookup, Goto,
     TypeOK, HandleInv, OwnerInv, Entering, Outside, GaveUp, Labels, cs
<1>6. ASSUME Claim(t)
      PROVE  OwnerInv'
  BY <1>6 DEF Claim, Goto,
     TypeOK, HandleInv, OwnerInv, Entering, Outside, GaveUp, Labels, cs
<1>7. ASSUME Release(t)
      PROVE  OwnerInv'
  <2>1. CASE owner[sec[t]] = t
    <3> DEFINE s == sec[t]
    <3>1. /\ pc[t] = "release" /\ s \in Sections /\ UNCHANGED <<sec, depth>>
          /\ saved' = [saved EXCEPT ![t] = count[s]]
          /\ owner' = [owner EXCEPT ![s] = None]
          /\ count' = [count EXCEPT ![s] = 0]
      BY <1>7, <2>1, ReleaseMoves DEF Release
    <3>2. ~GaveUp(t, s)
      BY <2>1, <3>1 DEF OwnerInv
    <3>3. depth[t][s] = count[s] /\ depth[t][s] \in Nat /\ count[s] # 0
      <4>1. depth[t][s] \in 0..MaxDepth /\ (owner[s] = None <=> count[s] = 0)
        BY <3>1, Counts
      <4>2. depth[t][s] = count[s]
        BY <2>1, <3>1 DEF OwnerInv
      <4>3. owner[s] # None
        BY <2>1
      <4> QED
        BY <4>1, <4>2, <4>3
    <3>4. \A u \in Threads, s0 \in Sections :
            GaveUp(u, s0)' <=> GaveUp(u, s0) \/ (u = t /\ s0 = s)
      BY <1>7, <2>1, <3>1, ReleaseMoves DEF Moves, GaveUp
    <3>5. \A u \in Threads : pc'[u] \in Entering => pc[u] \in Entering
      BY <1>7, <2>1, ReleaseMoves DEF Moves, Entering
    <3>6. ASSUME NEW u \in Threads, NEW s0 \in Sections
          PROVE  /\ owner'[s0] = u => depth'[u][s0] = count'[s0] /\ ~GaveUp(u, s0)'
                 /\ depth'[u][s0] > 0 /\ ~GaveUp(u, s0)' => owner'[s0] = u
                 /\ GaveUp(u, s0)' => depth'[u][s0] > 0 /\ saved'[u] = depth'[u][s0]
      <4>1. ~GaveUp(t, s0)
        BY <3>1 DEF GaveUp
      <4>2. owner \in [Sections -> Threads \cup {None}] /\ count \in [Sections -> 0..MaxDepth]
            /\ saved \in [Threads -> Nat]
        BY DEF TypeOK, HandleInv
      <4> QED
        BY <2>1, <3>1, <3>3, <3>4, <4>1, <4>2 DEF OwnerInv
    <3>7. \A u \in Threads : pc'[u] \in Entering => depth'[u][sec'[u]] < MaxDepth
      BY <3>1, <3>5 DEF OwnerInv
    <3> QED
      BY <3>6, <3>7 DEF OwnerInv
  <2>2. CASE owner[sec[t]] # t
    BY <1>7, <2>2 DEF Release, Goto,
       TypeOK, HandleInv, OwnerInv, Entering, Outside, GaveUp, Labels, cs
  <2> QED
    BY <2>1, <2>2
<1>8. ASSUME ParkOnCv(t)
      PROVE  OwnerInv'
  BY <1>8 DEF ParkOnCv, Goto,
     TypeOK, HandleInv, OwnerInv, Entering, Outside, GaveUp, Labels, cs
<1>9. ASSUME WaitEnds(t)
      PROVE  OwnerInv'
  BY <1>9 DEF WaitEnds, Goto,
     TypeOK, HandleInv, OwnerInv, Entering, Outside, GaveUp, Labels, cs
<1>10. ASSUME PassAux(t)
       PROVE  OwnerInv'
  BY <1>10 DEF PassAux, Goto,
     TypeOK, HandleInv, OwnerInv, Entering, Outside, GaveUp, Labels, cs
<1>11. ASSUME TakeBack(t)
       PROVE  OwnerInv'
  BY <1>11 DEF TakeBack, Goto,
     TypeOK, HandleInv, OwnerInv, Entering, Outside, GaveUp, Labels, cs
<1>12. ASSUME LeaveBlocked(t)
       PROVE  OwnerInv'
  BY <1>12 DEF LeaveBlocked,
     TypeOK, HandleInv, OwnerInv, Entering, Outside, GaveUp, Labels, cs
<1>13. ASSUME NEW v \in Condvars, NEW label \in {"notify", "broadcast"},
               BeginNotify(t, v, label)
       PROVE  OwnerInv'
  BY <1>13 DEF BeginNotify, Goto,
     TypeOK, HandleInv, OwnerInv, Entering, Outside, GaveUp, Labels, cs
<1>14. ASSUME Notify(t)
       PROVE  OwnerInv'
  BY <1>14, NotifyMoves, SMTT(30) DEF Notify,
     TypeOK, HandleInv, OwnerInv, Entering, Outside, GaveUp, Labels, cs
<1>15. ASSUME Broadcast(t)
       PROVE  OwnerInv'
  BY <1>15 DEF Broadcast, Waiting,
     TypeOK, HandleInv, OwnerInv, Entering, Outside, GaveUp, Labels, cs
<1>16. ASSUME Drive(t)
       PROVE  OwnerInv'
  BY <1>16 DEF Drive, Goto,
     TypeOK, HandleInv, OwnerInv, Entering, Outside, GaveUp, Labels, cs
<1>17. ASSUME ParkForGc(t)
       PROVE  OwnerInv'
  BY <1>17 DEF ParkForGc, Goto,
     TypeOK, HandleInv, OwnerInv, Entering, Outside, GaveUp, Labels, cs
<1>18. ASSUME Collected(t)
       PROVE  OwnerInv'
  BY <1>18 DEF Collected,
     TypeOK, HandleInv, OwnerInv, Entering, Outside, GaveUp, Labels, cs
<1> HIDE MonitorAssumption
<1> QED
  BY ONLY Step(t), <1>1, <1>2, <1>3, <1>4, <1>5, <1>6, <1>7, <1>8, <1>9,
     <1>10, <1>11, <1>12, <1>13, <1>14, <1>15, <1>16, <1>17, <1>18
     DEF Step, Continue, Choose

\* A sleeper's section that was free already keeps whoever is about to take it.
LEMMA StrandedKept ==
  ASSUME NoStrandedSleeper, NEW t \in Threads, NEW s0 \in Sections,
         owner[s0] = None, Asleep(s0)' # {}, t \notin Asleep(s0)',
         pc[t] \notin {"enter", "back"} \/ sec[t] # s0,
         \A u \in Threads \ {t} :
           /\ sec'[u] = sec[u]
           /\ pc[u] \in {"enter", "back"} => pc'[u] = pc[u]
           /\ pc'[u] \in {"enterSleep", "backSleep"} => pc'[u] = pc[u]
  PROVE  \E w \in Threads : sec'[w] = s0 /\ pc'[w] \in {"enter", "back"}
<1>1. PICK u \in Asleep(s0)' : TRUE
  OBVIOUS
<1>2. u \in Asleep(s0)
  BY <1>1 DEF Asleep
<1>3. PICK w \in Threads : sec[w] = s0 /\ pc[w] \in {"enter", "back"}
  BY <1>2 DEF NoStrandedSleeper
<1> QED
  BY <1>3

\* Whoever frees a section wakes a sleeper.
LEMMA StrandedStep ==
  ASSUME TypeOK, HandleInv, OwnerInv, NoStrandedSleeper, NEW t \in Threads, Step(t)
  PROVE  NoStrandedSleeper'
<1> USE MonitorAssumption
<1>1. ASSUME NEW s \in Sections, BeginEnter(t, s)
      PROVE  NoStrandedSleeper'
  <2> SUFFICES ASSUME NEW s0 \in Sections, owner'[s0] = None, Asleep(s0)' # {}
               PROVE  \E w \in Threads : sec'[w] = s0 /\ pc'[w] \in {"enter", "back"}
    BY DEF NoStrandedSleeper
  <2>1. /\ pc[t] = "run" /\ pc' = [pc EXCEPT ![t] = "enter"]
        /\ sec' = [sec EXCEPT ![t] = s] /\ owner' = owner
        /\ pc \in [Threads -> Labels] /\ sec \in [Threads -> Nat]
    BY <1>1 DEF BeginEnter, Goto, TypeOK, HandleInv, cs
  <2>2. CASE s0 = s
    BY <2>1, <2>2
  <2>3. CASE s0 # s
    <3>1. t \notin Asleep(s0)'
      BY <2>1, <2>3 DEF Asleep
    <3> QED
      BY <2>1, <3>1, StrandedKept
  <2> QED
    BY <2>2, <2>3
<1>2. ASSUME Enter(t)
      PROVE  NoStrandedSleeper'
  <2> SUFFICES ASSUME NEW s0 \in Sections, owner'[s0] = None, Asleep(s0)' # {}
               PROVE  \E w \in Threads : sec'[w] = s0 /\ pc'[w] \in {"enter", "back"}
    BY DEF NoStrandedSleeper
  <2>1. /\ pc[t] = "enter" /\ sec[t] \in Sections /\ sec' = sec
        /\ \A u \in Threads \ {t} : pc'[u] = pc[u]
    BY <1>2 DEF Enter, Goto, TypeOK, HandleInv, Entering
  <2>2. owner'[sec[t]] # None /\ \A s \in Sections \ {sec[t]} : owner'[s] = owner[s]
    BY <1>2, <2>1 DEF Enter, TypeOK
  <2>3. s0 # sec[t] /\ owner[s0] = None /\ t \notin Asleep(s0)'
    BY <2>1, <2>2 DEF Asleep
  <2> QED
    BY <2>1, <2>3, StrandedKept
<1>3. ASSUME NEW s \in Sections, Leave(t, s)
      PROVE  NoStrandedSleeper'
  <2> SUFFICES ASSUME NEW s0 \in Sections, owner'[s0] = None, Asleep(s0)' # {}
               PROVE  \E w \in Threads : sec'[w] = s0 /\ pc'[w] \in {"enter", "back"}
    BY DEF NoStrandedSleeper
  <2>1. pc[t] = "run" /\ sec' = sec /\ Moves(t, "run")
    BY <1>3, LeaveMoves DEF Leave
  <2>2. CASE s0 = s /\ count[s] = 1
    <3>1. Asleep(s) # {}
      BY <2>1, <2>2 DEF Asleep, Moves
    <3>2. Wakes(t, s)
      BY <1>3, <2>2, LeaveMoves
    <3> QED
      BY <2>1, <2>2, <3>1, <3>2 DEF Wakes
  <2>3. CASE ~(s0 = s /\ count[s] = 1)
    <3>1. owner[s0] = None
      BY <1>3, <2>3, LeaveMoves DEF TypeOK
    <3>2. t \notin Asleep(s0)'
      BY <2>1 DEF Asleep, Moves
    <3>3. \A u \in Threads \ {t} :
            /\ sec'[u] = sec[u]
            /\ pc[u] \in {"enter", "back"} => pc'[u] = pc[u]
            /\ pc'[u] \in {"enterSleep", "backSleep"} => pc'[u] = pc[u]
      BY <2>1 DEF Moves
    <3> QED
      BY <2>1, <3>1, <3>2, <3>3, StrandedKept
  <2> QED
    BY <2>2, <2>3
<1>4. ASSUME NEW p \in Pairs, NEW how \in {"forever", "timed", "zero"},
              CondvarWait(t, p[1], p[2], how)
      PROVE  NoStrandedSleeper'
  BY <1>4 DEF CondvarWait, WaitCall, Goto,
     TypeOK, HandleInv, OwnerInv, NoStrandedSleeper, Asleep, Entering, Outside, GaveUp, Labels, cs
<1>5. ASSUME Lookup(t)
      PROVE  NoStrandedSleeper'
  BY <1>5 DEF Lookup, Goto,
     TypeOK, HandleInv, OwnerInv, NoStrandedSleeper, Asleep, Entering, Outside, GaveUp, Labels, cs
<1>6. ASSUME Claim(t)
      PROVE  NoStrandedSleeper'
  BY <1>6 DEF Claim, Goto,
     TypeOK, HandleInv, OwnerInv, NoStrandedSleeper, Asleep, Entering, Outside, GaveUp, Labels, cs
<1>7. ASSUME Release(t)
      PROVE  NoStrandedSleeper'
  <2> SUFFICES ASSUME NEW s0 \in Sections, owner'[s0] = None, Asleep(s0)' # {}
               PROVE  \E w \in Threads : sec'[w] = s0 /\ pc'[w] \in {"enter", "back"}
    BY DEF NoStrandedSleeper
  <2>1. CASE owner[sec[t]] = t
    <3>1. /\ pc[t] = "release" /\ sec' = sec /\ sec[t] \in Sections
          /\ owner' = [owner EXCEPT ![sec[t]] = None]
          /\ Moves(t, "park") /\ Wakes(t, sec[t])
      BY <1>7, <2>1, ReleaseMoves DEF Release
    <3>2. CASE s0 = sec[t]
      <4>1. Asleep(s0) # {}
        BY <3>1 DEF Asleep, Moves
      <4> QED
        BY <3>1, <3>2, <4>1 DEF Wakes
    <3>3. CASE s0 # sec[t]
      <4>1. owner[s0] = None
        BY <3>1, <3>3 DEF TypeOK
      <4>2. t \notin Asleep(s0)'
        BY <3>1 DEF Asleep, Moves
      <4>3. \A u \in Threads \ {t} :
              /\ sec'[u] = sec[u]
              /\ pc[u] \in {"enter", "back"} => pc'[u] = pc[u]
              /\ pc'[u] \in {"enterSleep", "backSleep"} => pc'[u] = pc[u]
        BY <3>1 DEF Moves
      <4> QED
        BY <3>1, <4>1, <4>2, <4>3, StrandedKept
    <3> QED
      BY <3>2, <3>3
  <2>2. CASE owner[sec[t]] # t
    <3>1. /\ pc[t] = "release" /\ sec' = sec /\ owner' = owner
          /\ pc' = [pc EXCEPT ![t] = "fail"] /\ pc \in [Threads -> Labels]
      BY <1>7, <2>2 DEF Release, Goto, TypeOK, cs
    <3>2. t \notin Asleep(s0)'
      BY <3>1 DEF Asleep
    <3> QED
      BY <3>1, <3>2, StrandedKept
  <2> QED
    BY <2>1, <2>2
<1>8. ASSUME ParkOnCv(t)
      PROVE  NoStrandedSleeper'
  BY <1>8 DEF ParkOnCv, Goto,
     TypeOK, HandleInv, OwnerInv, NoStrandedSleeper, Asleep, Entering, Outside, GaveUp, Labels, cs
<1>9. ASSUME WaitEnds(t)
      PROVE  NoStrandedSleeper'
  BY <1>9 DEF WaitEnds, Goto,
     TypeOK, HandleInv, OwnerInv, NoStrandedSleeper, Asleep, Entering, Outside, GaveUp, Labels, cs
<1>10. ASSUME PassAux(t)
       PROVE  NoStrandedSleeper'
  BY <1>10 DEF PassAux, Goto,
     TypeOK, HandleInv, OwnerInv, NoStrandedSleeper, Asleep, Entering, Outside, GaveUp, Labels, cs
<1>11. ASSUME TakeBack(t)
       PROVE  NoStrandedSleeper'
  BY <1>11, SMTT(30) DEF TakeBack, Goto,
     TypeOK, HandleInv, OwnerInv, NoStrandedSleeper, Asleep, Entering, Outside, GaveUp, Labels, cs
<1>12. ASSUME LeaveBlocked(t)
       PROVE  NoStrandedSleeper'
  BY <1>12 DEF LeaveBlocked,
     TypeOK, HandleInv, OwnerInv, NoStrandedSleeper, Asleep, Entering, Outside, GaveUp, Labels, cs
<1>13. ASSUME NEW v \in Condvars, NEW label \in {"notify", "broadcast"},
               BeginNotify(t, v, label)
       PROVE  NoStrandedSleeper'
  BY <1>13, SMTT(30) DEF BeginNotify, Goto,
     TypeOK, HandleInv, OwnerInv, NoStrandedSleeper, Asleep, Entering, Outside, GaveUp, Labels, cs
<1>14. ASSUME Notify(t)
       PROVE  NoStrandedSleeper'
  <2> SUFFICES ASSUME NEW s0 \in Sections, owner'[s0] = None, Asleep(s0)' # {}
               PROVE  \E w \in Threads : sec'[w] = s0 /\ pc'[w] \in {"enter", "back"}
    BY DEF NoStrandedSleeper
  <2>1. pc[t] = "notify" /\ sec' = sec /\ owner' = owner
    BY <1>14 DEF Notify, cs
  <2>2. t \notin Asleep(s0)'
    BY <1>14, NotifyMoves DEF Asleep
  <2> QED
    BY <1>14, <2>1, <2>2, NotifyMoves, StrandedKept
<1>15. ASSUME Broadcast(t)
       PROVE  NoStrandedSleeper'
  BY <1>15, SMTT(30) DEF Broadcast, Waiting,
     TypeOK, HandleInv, OwnerInv, NoStrandedSleeper, Asleep, Entering, Outside, GaveUp, Labels, cs
<1>16. ASSUME Drive(t)
       PROVE  NoStrandedSleeper'
  BY <1>16 DEF Drive, Goto,
     TypeOK, HandleInv, OwnerInv, NoStrandedSleeper, Asleep, Entering, Outside, GaveUp, Labels, cs
<1>17. ASSUME ParkForGc(t)
       PROVE  NoStrandedSleeper'
  BY <1>17 DEF ParkForGc, Goto,
     TypeOK, HandleInv, OwnerInv, NoStrandedSleeper, Asleep, Entering, Outside, GaveUp, Labels, cs
<1>18. ASSUME Collected(t)
       PROVE  NoStrandedSleeper'
  BY <1>18 DEF Collected,
     TypeOK, HandleInv, OwnerInv, NoStrandedSleeper, Asleep, Entering, Outside, GaveUp, Labels, cs
<1> HIDE MonitorAssumption
<1> QED
  BY ONLY Step(t), <1>1, <1>2, <1>3, <1>4, <1>5, <1>6, <1>7, <1>8, <1>9,
     <1>10, <1>11, <1>12, <1>13, <1>14, <1>15, <1>16, <1>17, <1>18
     DEF Step, Continue, Choose

\* Types are kept.
LEMMA TypeStep ==
  ASSUME TypeOK, HandleInv, OwnerInv, AuxInv, NEW t \in Threads, Step(t)
  PROVE  TypeOK'
<1> USE MonitorAssumption
<1>1. ASSUME NEW s \in Sections, BeginEnter(t, s)
      PROVE  TypeOK'
  BY <1>1 DEF BeginEnter, Goto,
     TypeOK, HandleInv, OwnerInv, AuxInv, Entering, OnCv, Outside, GaveUp, Labels, cs
<1>2. ASSUME Enter(t)
      PROVE  TypeOK'
  <2>1. pc[t] = "enter" /\ sec[t] \in Sections /\ depth[t][sec[t]] < MaxDepth
    BY <1>2 DEF Enter, HandleInv, OwnerInv, Entering
  <2>2. CASE owner[sec[t]] \in {None, t}
    <3>1. /\ pc' = [pc EXCEPT ![t] = "run"]
          /\ owner' = [owner EXCEPT ![sec[t]] = t]
          /\ count' = [count EXCEPT ![sec[t]] = @ + 1]
          /\ depth' = [depth EXCEPT ![t][sec[t]] = @ + 1]
          /\ UNCHANGED <<aux, native, driver>>
      BY <1>2, <2>2 DEF Enter, Goto
    <3>2. count[sec[t]] \in 0..MaxDepth /\ count[sec[t]] < MaxDepth
      <4>1. count[sec[t]] \in 0..MaxDepth /\ depth[t][sec[t]] \in 0..MaxDepth
        BY <2>1, Counts
      <4>2. owner[sec[t]] = None => count[sec[t]] = 0
        BY <2>1, Counts
      <4>3. owner[sec[t]] = t => depth[t][sec[t]] = count[sec[t]]
        BY <2>1 DEF OwnerInv
      <4> QED
        BY <2>1, <2>2, <4>1, <4>2, <4>3
    <3>3. pc' \in [Threads -> Labels] /\ depth' \in [Threads -> [Sections -> 0..MaxDepth]]
      <4>1. pc' \in [Threads -> Labels]
        BY <3>1 DEF TypeOK, Labels
      <4>2. depth \in [Threads -> [Sections -> 0..MaxDepth]]
        BY DEF TypeOK
      <4>3. depth[t][sec[t]] + 1 \in 0..MaxDepth
        <5>1. depth[t][sec[t]] \in 0..MaxDepth
          BY <2>1, Counts
        <5> QED
          BY <2>1, <5>1
      <4>4. [depth[t] EXCEPT ![sec[t]] = @ + 1] \in [Sections -> 0..MaxDepth]
        BY <2>1, <4>2, <4>3
      <4>5. depth' \in [Threads -> [Sections -> 0..MaxDepth]]
        BY <3>1, <4>2, <4>4
      <4> QED
        BY <4>1, <4>5
    <3>4. count' \in [Sections -> 0..MaxDepth]
      BY <2>1, <3>1, <3>2 DEF TypeOK
    <3>5. /\ owner' \in [Sections -> Threads \cup {None}]
          /\ \A s \in Sections : owner'[s] = None <=> count'[s] = 0
      BY <2>1, <3>1, <3>2 DEF TypeOK
    <3> QED
      BY <3>1, <3>3, <3>4, <3>5 DEF TypeOK
  <2>3. CASE owner[sec[t]] \notin {None, t}
    BY <1>2, <2>3 DEF Enter, Goto, TypeOK, Labels
  <2> QED
    BY <2>2, <2>3
<1>3. ASSUME NEW s \in Sections, Leave(t, s)
      PROVE  TypeOK'
  <2>1. /\ owner[s] = t /\ UNCHANGED <<aux, native, driver>>
        /\ count' = [count EXCEPT ![s] = @ - 1]
        /\ depth' = [depth EXCEPT ![t][s] = @ - 1]
    BY <1>3 DEF Leave
  <2>2. count[s] \in 1..MaxDepth /\ depth[t][s] = count[s]
    BY <2>1 DEF TypeOK, OwnerInv
  <2>3. pc' \in [Threads -> Labels]
    BY <1>3, LeaveMoves DEF Moves
  <2>4. depth' \in [Threads -> [Sections -> 0..MaxDepth]]
    BY <2>1, <2>2 DEF TypeOK
  <2>5. /\ count' \in [Sections -> 0..MaxDepth]
        /\ owner' \in [Sections -> Threads \cup {None}]
        /\ \A s0 \in Sections : owner'[s0] = None <=> count'[s0] = 0
    BY <1>3, <2>1, <2>2, LeaveMoves DEF TypeOK
  <2> QED
    BY <2>1, <2>3, <2>4, <2>5 DEF TypeOK
<1>4. ASSUME NEW p \in Pairs, NEW how \in {"forever", "timed", "zero"},
              CondvarWait(t, p[1], p[2], how)
      PROVE  TypeOK'
  BY <1>4 DEF CondvarWait, WaitCall, Goto,
     TypeOK, HandleInv, OwnerInv, AuxInv, Entering, OnCv, Outside, GaveUp, Labels, cs
<1>5. ASSUME Lookup(t)
      PROVE  TypeOK'
  BY <1>5 DEF Lookup, Goto,
     TypeOK, HandleInv, OwnerInv, AuxInv, Entering, OnCv, Outside, GaveUp, Labels, cs
<1>6. ASSUME Claim(t)
      PROVE  TypeOK'
  BY <1>6 DEF Claim, Goto,
     TypeOK, HandleInv, OwnerInv, AuxInv, Entering, OnCv, Outside, GaveUp, Labels, cs
<1>7. ASSUME Release(t)
      PROVE  TypeOK'
  <2>1. CASE owner[sec[t]] = t
    <3>1. /\ sec[t] \in Sections /\ Moves(t, "park")
          /\ owner' = [owner EXCEPT ![sec[t]] = None]
          /\ count' = [count EXCEPT ![sec[t]] = 0]
          /\ UNCHANGED <<aux, native, driver, depth>>
      BY <1>7, <2>1, ReleaseMoves DEF Release
    <3> QED
      BY <3>1 DEF TypeOK, Moves
  <2>2. CASE owner[sec[t]] # t
    BY <1>7, <2>2, ZenonT(40) DEF Release, Goto,
       TypeOK, HandleInv, OwnerInv, AuxInv, Entering, OnCv, Outside, GaveUp, Labels, cs
  <2> QED
    BY <2>1, <2>2
<1>8. ASSUME ParkOnCv(t)
      PROVE  TypeOK'
  BY <1>8 DEF ParkOnCv, Goto,
     TypeOK, HandleInv, OwnerInv, AuxInv, Entering, OnCv, Outside, GaveUp, Labels, cs
<1>9. ASSUME WaitEnds(t)
      PROVE  TypeOK'
  BY <1>9 DEF WaitEnds, Goto,
     TypeOK, HandleInv, OwnerInv, AuxInv, Entering, OnCv, Outside, GaveUp, Labels, cs
<1>10. ASSUME PassAux(t)
       PROVE  TypeOK'
  BY <1>10 DEF PassAux, Goto,
     TypeOK, HandleInv, OwnerInv, AuxInv, Entering, OnCv, Outside, GaveUp, Labels, cs
<1>11. ASSUME TakeBack(t)
       PROVE  TypeOK'
  <2>1. CASE owner[sec[t]] = None
    <3>1. /\ sec[t] \in Sections /\ pc' = [pc EXCEPT ![t] = "leaveBlocked"]
          /\ owner' = [owner EXCEPT ![sec[t]] = t]
          /\ count' = [count EXCEPT ![sec[t]] = saved[t]]
          /\ UNCHANGED <<aux, native, driver, depth>>
      BY <1>11, <2>1 DEF TakeBack, Goto, HandleInv, Outside
    <3>2. saved[t] \in 1..MaxDepth
      <4>1. GaveUp(t, sec[t])
        BY <1>11 DEF TakeBack, GaveUp
      <4> QED
        <5>1. depth[t][sec[t]] \in 0..MaxDepth
          BY <3>1, Counts
        <5>2. depth[t][sec[t]] > 0 /\ saved[t] = depth[t][sec[t]]
          BY <3>1, <4>1 DEF OwnerInv
        <5> QED
          BY <5>1, <5>2
    <3> QED
      BY <3>1, <3>2 DEF TypeOK, Labels
  <2>2. CASE owner[sec[t]] # None
    BY <1>11, <2>2 DEF TakeBack, Goto, TypeOK, Labels
  <2> QED
    BY <2>1, <2>2
<1>12. ASSUME LeaveBlocked(t)
       PROVE  TypeOK'
  BY <1>12 DEF LeaveBlocked,
     TypeOK, HandleInv, OwnerInv, AuxInv, Entering, OnCv, Outside, GaveUp, Labels, cs
<1>13. ASSUME NEW v \in Condvars, NEW label \in {"notify", "broadcast"},
               BeginNotify(t, v, label)
       PROVE  TypeOK'
  BY <1>13 DEF BeginNotify, Goto,
     TypeOK, HandleInv, OwnerInv, AuxInv, Entering, OnCv, Outside, GaveUp, Labels, cs
<1>14. ASSUME Notify(t)
       PROVE  TypeOK'
  BY <1>14, NotifyMoves DEF Notify,
     TypeOK, HandleInv, OwnerInv, AuxInv, Entering, OnCv, Outside, GaveUp, Labels, cs
<1>15. ASSUME Broadcast(t)
       PROVE  TypeOK'
  BY <1>15 DEF Broadcast, Waiting,
     TypeOK, HandleInv, OwnerInv, AuxInv, Entering, OnCv, Outside, GaveUp, Labels, cs
<1>16. ASSUME Drive(t)
       PROVE  TypeOK'
  BY <1>16 DEF Drive, Goto,
     TypeOK, HandleInv, OwnerInv, AuxInv, Entering, OnCv, Outside, GaveUp, Labels, cs
<1>17. ASSUME ParkForGc(t)
       PROVE  TypeOK'
  BY <1>17 DEF ParkForGc, Goto,
     TypeOK, HandleInv, OwnerInv, AuxInv, Entering, OnCv, Outside, GaveUp, Labels, cs
<1>18. ASSUME Collected(t)
       PROVE  TypeOK'
  BY <1>18 DEF Collected,
     TypeOK, HandleInv, OwnerInv, AuxInv, Entering, OnCv, Outside, GaveUp, Labels, cs
<1> HIDE MonitorAssumption
<1> QED
  BY ONLY Step(t), <1>1, <1>2, <1>3, <1>4, <1>5, <1>6, <1>7, <1>8, <1>9,
     <1>10, <1>11, <1>12, <1>13, <1>14, <1>15, <1>16, <1>17, <1>18
     DEF Step, Continue, Choose

\* A thread about to notify is moved by nobody but itself, by its Notify.
LEMMA NotifierMoves ==
  ASSUME TypeOK, HandleInv, NEW t \in Threads, Step(t),
         NEW u \in Threads, pc[u] = "notify", pc'[u] # "notify"
  PROVE  u = t /\ Notify(t)
<1> USE DEF TypeOK
<1>1. ASSUME NEW s \in Sections, BeginEnter(t, s)
      PROVE  FALSE
  BY <1>1 DEF BeginEnter, Goto
<1>2. ASSUME Enter(t)
      PROVE  FALSE
  BY <1>2 DEF Enter, Goto
<1>3. ASSUME NEW s \in Sections, Leave(t, s)
      PROVE  FALSE
  BY <1>3, LeaveMoves DEF Moves
<1>4. ASSUME NEW p \in Pairs, NEW how \in {"forever", "timed", "zero"},
              CondvarWait(t, p[1], p[2], how)
      PROVE  FALSE
  BY <1>4 DEF CondvarWait, WaitCall, Goto
<1>5. ASSUME Lookup(t)
      PROVE  FALSE
  BY <1>5 DEF Lookup, Goto
<1>6. ASSUME Claim(t)
      PROVE  FALSE
  BY <1>6 DEF Claim, Goto
<1>7. ASSUME Release(t)
      PROVE  FALSE
  <2>1. CASE owner[sec[t]] = t
    BY <1>7, <2>1, ReleaseMoves DEF Moves
  <2>2. CASE owner[sec[t]] # t
    BY <1>7, <2>2 DEF Release, Goto
  <2> QED
    BY <2>1, <2>2
<1>8. ASSUME ParkOnCv(t)
      PROVE  FALSE
  BY <1>8 DEF ParkOnCv, Goto
<1>9. ASSUME WaitEnds(t)
      PROVE  FALSE
  BY <1>9 DEF WaitEnds, Goto
<1>10. ASSUME PassAux(t)
       PROVE  FALSE
  BY <1>10 DEF PassAux, Goto
<1>11. ASSUME TakeBack(t)
       PROVE  FALSE
  BY <1>11 DEF TakeBack, Goto
<1>12. ASSUME LeaveBlocked(t)
       PROVE  FALSE
  BY <1>12 DEF LeaveBlocked
<1>13. ASSUME NEW v \in Condvars, NEW label \in {"notify", "broadcast"},
               BeginNotify(t, v, label)
       PROVE  FALSE
  BY <1>13 DEF BeginNotify, Goto
<1>14. ASSUME Notify(t)
       PROVE  u = t
  BY <1>14, NotifyMoves
<1>15. ASSUME Broadcast(t)
       PROVE  FALSE
  BY <1>15 DEF Broadcast, Waiting
<1>16. ASSUME Drive(t)
       PROVE  FALSE
  BY <1>16 DEF Drive, Goto
<1>17. ASSUME ParkForGc(t)
       PROVE  FALSE
  BY <1>17 DEF ParkForGc, Goto
<1>18. ASSUME Collected(t)
       PROVE  FALSE
  BY <1>18 DEF Collected
<1> HIDE DEF TypeOK
<1> QED
  BY ONLY Step(t), <1>1, <1>2, <1>3, <1>4, <1>5, <1>6, <1>7, <1>8, <1>9,
     <1>10, <1>11, <1>12, <1>13, <1>14, <1>15, <1>16, <1>17, <1>18
     DEF Step, Continue, Choose

\* The invariant holds initially, and every step keeps it.
LEMMA InitInv == Init => IInv
<1> SUFFICES ASSUME Init PROVE IInv
  OBVIOUS
<1> USE MonitorAssumption DEF Init
<1>1. TypeOK
  BY DEF TypeOK, Labels
<1>2. HandleInv
  BY DEF HandleInv, Entering, OnCv, Outside
<1>3. OwnerInv
  BY DEF OwnerInv, GaveUp, Entering
<1>4. AuxInv
  BY DEF AuxInv
<1>5. NoStrandedSleeper
  BY DEF NoStrandedSleeper, Asleep
<1> QED
  BY <1>1, <1>2, <1>3, <1>4, <1>5 DEF IInv

LEMMA NextInv == IInv /\ [Next]_vars => IInv'
<1> SUFFICES ASSUME IInv, [Next]_vars PROVE IInv'
  OBVIOUS
<1>1. CASE Next
  <2>1. PICK t \in Threads : Step(t)
    BY <1>1 DEF Next, Step
  <2>2. TypeOK /\ HandleInv /\ OwnerInv /\ AuxInv /\ NoStrandedSleeper
    BY DEF IInv
  <2>3. TypeOK' /\ HandleInv' /\ OwnerInv' /\ AuxInv' /\ NoStrandedSleeper'
    BY <2>1, <2>2, TypeStep, HandleStep, OwnerStep, AuxStep, StrandedStep
  <2> QED
    BY <2>3 DEF IInv
<1>2. CASE UNCHANGED vars
  BY <1>2 DEF vars, cs, IInv, TypeOK, HandleInv, OwnerInv, AuxInv, NoStrandedSleeper,
     GaveUp, Asleep, Entering, OnCv, Outside
<1> QED
  BY <1>1, <1>2

LEMMA Invariant == Spec => []IInv
<1> QED
  BY InitInv, NextInv, PTL DEF Spec

\* Every variable keeps its type, and a section has an owner exactly when its
\* count is positive, whatever threads do with it (CsState).
THEOREM Types == Spec => []TypeOK
<1>1. IInv => TypeOK
  BY DEF IInv
<1> QED
  BY <1>1, Invariant, PTL

\* A thread that has entered a section more often than it has left it owns it
\* at exactly that count, outside a wait: enter, leave and the four steps of
\* condvar_wait, for any nesting, any number of threads and of sections.
THEOREM Held == Spec => []SectionHeld
<1>1. IInv => SectionHeld
  BY DEF IInv, OwnerInv, SectionHeld
<1> QED
  BY <1>1, Invariant, PTL

\* A free section has no sleeper without somebody on the way to it: notify_one
\* in leave_critical_section and in step 2 of condvar_wait is enough, though it
\* wakes one sleeper only and others may barge in.
THEOREM NoneStranded == Spec => []NoStrandedSleeper
<1>1. IInv => NoStrandedSleeper
  BY DEF IInv
<1> QED
  BY <1>1, Invariant, PTL

\* condvar_notify loses no wake-up: when a waiter has given the section up, even
\* if it does not sleep yet, the notify that comes next wakes a waiter.
THEOREM NoLostWakeup == Spec => NotifyWakes
<1> DEFINE Woke == \A t \in Threads :
             pc[t] = "notify" /\ pc'[t] = "run" /\ Committed(cv[t]) # {} =>
               \E u \in Committed(cv[t]) : pc'[u] = "woken"
<1>1. ASSUME IInv, Next PROVE Woke
  <2> SUFFICES ASSUME NEW t \in Threads, pc[t] = "notify", pc'[t] = "run", Committed(cv[t]) # {}
               PROVE  \E u \in Committed(cv[t]) : pc'[u] = "woken"
    OBVIOUS
  <2>1. TypeOK /\ HandleInv /\ AuxInv
    BY <1>1 DEF IInv
  <2>2. PICK w \in Threads : Step(w)
    BY <1>1 DEF Next, Step
  <2>3. Notify(t)
    BY <2>1, <2>2, NotifierMoves
  <2>4. aux[cv[t]] = None
    BY <2>3 DEF Notify
  <2>5. Waiting(cv[t]) # {}
    <3>1. PICK u \in Committed(cv[t]) : TRUE
      OBVIOUS
    <3>2. pc[u] # "park"
      BY <2>1, <2>4, <3>1, MonitorAssumption DEF AuxInv, Committed
    <3> QED
      BY <3>1, <3>2 DEF Waiting, Committed
  <2>6. PICK u \in Waiting(cv[t]) : pc' = [[pc EXCEPT ![t] = "run"] EXCEPT ![u] = "woken"]
    BY <2>3, <2>5 DEF Notify
  <2>7. u \in Committed(cv[t]) /\ u \in Threads
    BY <2>6 DEF Waiting, Committed
  <2>8. pc'[u] = "woken"
    BY <2>1, <2>6, <2>7 DEF TypeOK
  <2> QED
    BY <2>7, <2>8
<1>2. IInv /\ [Next]_vars => [Woke]_vars
  BY <1>1
<1>3. Spec => [][Woke]_vars
  BY <1>2, Invariant, PTL DEF Spec
<1> QED
  BY <1>3 DEF NotifyWakes

-----------------------------------------------------------------------------
(* Thread control, the module LispThreads, for any number of Lisp threads: *)
(* no resume is lost, and a join answers only once its thread is over.     *)

\* The primary thread neither polls, so as to be suspended, nor ends.
MainInv ==
  /\ Main \in registered
  /\ tpc[Main] \notin {"new", "thunk", "drop", "finish", "unregister", "dead",
                       "suspending", "parked", "checkterm"}

\* A worker and what the registry says of it.
LifeInv ==
  \A t \in Tids :
    /\ tpc[t] \notin {"new", "dead"} => t \in registered
    /\ tpc[t] \in {"new", "thunk", "finish", "unregister", "dead"} => t \notin mutators
    /\ t \in finished <=> tpc[t] \in {"unregister", "dead"}

\* A thread in the middle of create_thread has its worker to itself.
BirthInv ==
  \A a \in Control!Threads :
    /\ tpc[a] \in {"spawn", "keep"} => tgt[a] \in Tids
    /\ tpc[a] = "keep" => tpc[tgt[a]] # "new"
    /\ tpc[a] = "spawn" =>
         /\ tpc[tgt[a]] = "new" /\ tgt[a] \in registered
         /\ \A b \in Control!Threads \ {a} : tpc[b] = "spawn" => tgt[b] # tgt[a]

\* Nobody names a thread that has not begun, and a join goes on from its wait
\* when the thread is over.
JoinInv ==
  /\ \A t \in published : tpc[t] # "new"
  /\ \A a \in Control!Threads :
       /\ tpc[a] \in {"joincheck", "joinwait", "take", "osjoin", "unsuspend", "notify"}
            => tgt[a] \in Tids
       /\ tpc[a] \in {"take", "osjoin"} => tgt[a] \in finished

ControlInv == Control!TypeOK /\ MainInv /\ LifeInv /\ BirthInv /\ JoinInv

-----------------------------------------------------------------------------
(* The actions in groups.                                                  *)

Births(a) ==
  \/ \E t \in Tids : Control!Register(a, t)
  \/ Control!Spawn(a) \/ Control!KeepHandle(a) \/ Control!EnterBody(a)

Ends(t) ==
  Control!Return(t) \/ Control!DropMutator(t) \/ Control!Finish(t) \/ Control!Unregister(t)

Joins(a) ==
  \/ \E t \in Tids : Control!Join(a, t)
  \/ Control!CheckFinished(a) \/ Control!TakeHandle(a) \/ Control!OsJoin(a)

Requests(a) ==
  \/ \E t \in Tids : Control!Suspend(a, t) \/ Control!Resume(a, t) \/ Control!Terminate(a, t)
  \/ Control!Unsuspend(a) \/ Control!Notify(a) \/ Control!Publish(a)

Polls(t) ==
  Control!Poll(t) \/ Control!Park(t) \/ Control!Unpark(t) \/ Control!CheckTerminate(t)

LEMMA Grouped ==
  ASSUME [Control!Next]_Control!vars
  PROVE  \/ UNCHANGED Control!vars
         \/ \E t \in Control!Threads : Births(t) \/ Ends(t) \/ Joins(t) \/ Requests(t) \/ Polls(t)
BY DEF Control!Next, Control!Continue, Control!Choose, Control!Wake,
       Control!SpuriousWake, Births, Ends, Joins, Requests, Polls

-----------------------------------------------------------------------------
LEMMA ThreadsAtFirst == Control!Init => ControlInv
BY ThreadsAssumption
   DEF Control!Init, ControlInv, Control!TypeOK, MainInv, LifeInv, BirthInv, JoinInv,
       Control!Threads, Control!Labels, Control!Alive

\* What each group leaves true.
LEMMA TypeKept ==
  ASSUME ControlInv, [Control!Next]_Control!vars
  PROVE  Control!TypeOK'
<1>0. Control!TypeOK /\ MainInv /\ LifeInv /\ BirthInv /\ JoinInv
  BY DEF ControlInv
<1> USE ThreadsAssumption DEF Control!TypeOK, MainInv, LifeInv, BirthInv, JoinInv, Control!Threads,
            Control!Goto, Control!reg, Control!Labels, Control!Alive
<1>1. ASSUME NEW u \in Control!Threads, Births(u) PROVE Control!TypeOK'
  BY <1>0, <1>1 DEF Births, Control!Register, Control!Spawn, Control!KeepHandle,
                    Control!EnterBody, Control!Begin
<1>2. ASSUME NEW u \in Control!Threads, Ends(u) PROVE Control!TypeOK'
  BY <1>0, <1>2 DEF Ends, Control!Return, Control!DropMutator, Control!Finish,
                    Control!Unregister
<1>3. ASSUME NEW u \in Control!Threads, Joins(u) PROVE Control!TypeOK'
  BY <1>0, <1>3 DEF Joins, Control!Join, Control!CheckFinished, Control!TakeHandle,
                    Control!OsJoin, Control!Begin
<1>4. ASSUME NEW u \in Control!Threads, Requests(u) PROVE Control!TypeOK'
  BY <1>0, <1>4 DEF Requests, Control!Suspend, Control!Resume, Control!Terminate,
                    Control!Unsuspend, Control!Notify, Control!Publish, Control!Begin
<1>5. ASSUME NEW u \in Control!Threads, Polls(u) PROVE Control!TypeOK'
  BY <1>0, <1>5 DEF Polls, Control!Poll, Control!Park, Control!Unpark,
                    Control!CheckTerminate
<1>6. CASE UNCHANGED Control!vars
  BY <1>0, <1>6 DEF Control!vars
<1> QED
  BY ONLY <1>1, <1>2, <1>3, <1>4, <1>5, <1>6, Grouped, [Control!Next]_Control!vars

LEMMA MainInvKept ==
  ASSUME ControlInv, [Control!Next]_Control!vars
  PROVE  MainInv'
<1>0. Control!TypeOK /\ MainInv /\ BirthInv
  BY DEF ControlInv
<1> USE ThreadsAssumption DEF Control!TypeOK, MainInv, BirthInv, Control!Threads, Control!Goto,
            Control!reg, Control!Labels, Control!Alive
<1>1. ASSUME NEW u \in Control!Threads, Births(u) PROVE MainInv'
  BY <1>0, <1>1 DEF Births, Control!Register, Control!Spawn, Control!KeepHandle,
                    Control!EnterBody, Control!Begin
<1>2. ASSUME NEW u \in Control!Threads, Ends(u) PROVE MainInv'
  BY <1>0, <1>2 DEF Ends, Control!Return, Control!DropMutator, Control!Finish,
                    Control!Unregister
<1>3. ASSUME NEW u \in Control!Threads, Joins(u) PROVE MainInv'
  BY <1>0, <1>3 DEF Joins, Control!Join, Control!CheckFinished, Control!TakeHandle,
                    Control!OsJoin, Control!Begin
<1>4. ASSUME NEW u \in Control!Threads, Requests(u) PROVE MainInv'
  BY <1>0, <1>4 DEF Requests, Control!Suspend, Control!Resume, Control!Terminate,
                    Control!Unsuspend, Control!Notify, Control!Publish, Control!Begin
<1>5. ASSUME NEW u \in Control!Threads, Polls(u) PROVE MainInv'
  BY <1>0, <1>5 DEF Polls, Control!Poll, Control!Park, Control!Unpark,
                    Control!CheckTerminate
<1>6. CASE UNCHANGED Control!vars
  BY <1>0, <1>6 DEF Control!vars
<1> QED
  BY ONLY <1>1, <1>2, <1>3, <1>4, <1>5, <1>6, Grouped, [Control!Next]_Control!vars

LEMMA LifeInvKept ==
  ASSUME ControlInv, [Control!Next]_Control!vars
  PROVE  LifeInv'
<1>0. Control!TypeOK /\ MainInv /\ LifeInv /\ BirthInv
  BY DEF ControlInv
<1> USE ThreadsAssumption DEF Control!TypeOK, MainInv, LifeInv, BirthInv, Control!Threads, Control!Goto,
            Control!reg, Control!Labels, Control!Alive
<1>1. ASSUME NEW u \in Control!Threads, Births(u) PROVE LifeInv'
  BY <1>0, <1>1 DEF Births, Control!Register, Control!Spawn, Control!KeepHandle,
                    Control!EnterBody, Control!Begin
<1>2. ASSUME NEW u \in Control!Threads, Ends(u) PROVE LifeInv'
  BY <1>0, <1>2 DEF Ends, Control!Return, Control!DropMutator, Control!Finish,
                    Control!Unregister
<1>3. ASSUME NEW u \in Control!Threads, Joins(u) PROVE LifeInv'
  BY <1>0, <1>3 DEF Joins, Control!Join, Control!CheckFinished, Control!TakeHandle,
                    Control!OsJoin, Control!Begin
<1>4. ASSUME NEW u \in Control!Threads, Requests(u) PROVE LifeInv'
  BY <1>0, <1>4 DEF Requests, Control!Suspend, Control!Resume, Control!Terminate,
                    Control!Unsuspend, Control!Notify, Control!Publish, Control!Begin
<1>5. ASSUME NEW u \in Control!Threads, Polls(u) PROVE LifeInv'
  BY <1>0, <1>5 DEF Polls, Control!Poll, Control!Park, Control!Unpark,
                    Control!CheckTerminate
<1>6. CASE UNCHANGED Control!vars
  BY <1>0, <1>6 DEF Control!vars
<1> QED
  BY ONLY <1>1, <1>2, <1>3, <1>4, <1>5, <1>6, Grouped, [Control!Next]_Control!vars

LEMMA BirthInvKept ==
  ASSUME ControlInv, [Control!Next]_Control!vars
  PROVE  BirthInv'
<1>0. Control!TypeOK /\ MainInv /\ LifeInv /\ BirthInv
  BY DEF ControlInv
<1> USE ThreadsAssumption DEF Control!TypeOK, MainInv, LifeInv, BirthInv, Control!Threads, Control!Goto,
            Control!reg, Control!Labels, Control!Alive
<1>1. ASSUME NEW u \in Control!Threads, Births(u) PROVE BirthInv'
  BY <1>0, <1>1 DEF Births, Control!Register, Control!Spawn, Control!KeepHandle,
                    Control!EnterBody, Control!Begin
<1>2. ASSUME NEW u \in Control!Threads, Ends(u) PROVE BirthInv'
  BY <1>0, <1>2 DEF Ends, Control!Return, Control!DropMutator, Control!Finish,
                    Control!Unregister
<1>3. ASSUME NEW u \in Control!Threads, Joins(u) PROVE BirthInv'
  BY <1>0, <1>3 DEF Joins, Control!Join, Control!CheckFinished, Control!TakeHandle,
                    Control!OsJoin, Control!Begin
<1>4. ASSUME NEW u \in Control!Threads, Requests(u) PROVE BirthInv'
  BY <1>0, <1>4 DEF Requests, Control!Suspend, Control!Resume, Control!Terminate,
                    Control!Unsuspend, Control!Notify, Control!Publish, Control!Begin
<1>5. ASSUME NEW u \in Control!Threads, Polls(u) PROVE BirthInv'
  BY <1>0, <1>5 DEF Polls, Control!Poll, Control!Park, Control!Unpark,
                    Control!CheckTerminate
<1>6. CASE UNCHANGED Control!vars
  BY <1>0, <1>6 DEF Control!vars
<1> QED
  BY ONLY <1>1, <1>2, <1>3, <1>4, <1>5, <1>6, Grouped, [Control!Next]_Control!vars

LEMMA JoinInvKept ==
  ASSUME ControlInv, [Control!Next]_Control!vars
  PROVE  JoinInv'
<1>0. Control!TypeOK /\ MainInv /\ LifeInv /\ BirthInv /\ JoinInv
  BY DEF ControlInv
<1> USE ThreadsAssumption DEF Control!TypeOK, MainInv, LifeInv, BirthInv, JoinInv, Control!Threads,
            Control!Goto, Control!reg, Control!Labels, Control!Alive
<1>1. ASSUME NEW u \in Control!Threads, Births(u) PROVE JoinInv'
  BY <1>0, <1>1 DEF Births, Control!Register, Control!Spawn, Control!KeepHandle,
                    Control!EnterBody, Control!Begin
<1>2. ASSUME NEW u \in Control!Threads, Ends(u) PROVE JoinInv'
  BY <1>0, <1>2 DEF Ends, Control!Return, Control!DropMutator, Control!Finish,
                    Control!Unregister
<1>3. ASSUME NEW u \in Control!Threads, Joins(u) PROVE JoinInv'
  BY <1>0, <1>3 DEF Joins, Control!Join, Control!CheckFinished, Control!TakeHandle,
                    Control!OsJoin, Control!Begin
<1>4. ASSUME NEW u \in Control!Threads, Requests(u) PROVE JoinInv'
  BY <1>0, <1>4 DEF Requests, Control!Suspend, Control!Resume, Control!Terminate,
                    Control!Unsuspend, Control!Notify, Control!Publish, Control!Begin
<1>5. ASSUME NEW u \in Control!Threads, Polls(u) PROVE JoinInv'
  BY <1>0, <1>5 DEF Polls, Control!Poll, Control!Park, Control!Unpark,
                    Control!CheckTerminate
<1>6. CASE UNCHANGED Control!vars
  BY <1>0, <1>6 DEF Control!vars
<1> QED
  BY ONLY <1>1, <1>2, <1>3, <1>4, <1>5, <1>6, Grouped, [Control!Next]_Control!vars

LEMMA LostResumeKept ==
  ASSUME ControlInv, Control!NoLostResume, [Control!Next]_Control!vars
  PROVE  Control!NoLostResume'
<1>0. Control!TypeOK /\ MainInv /\ BirthInv
  BY DEF ControlInv
<1> USE ThreadsAssumption DEF Control!NoLostResume, Control!TypeOK, MainInv, BirthInv, Control!Threads,
            Control!Goto, Control!reg, Control!Labels
<1>1. ASSUME NEW u \in Control!Threads, Births(u) PROVE Control!NoLostResume'
  BY <1>0, <1>1 DEF Births, Control!Register, Control!Spawn, Control!KeepHandle,
                    Control!EnterBody, Control!Begin
<1>2. ASSUME NEW u \in Control!Threads, Ends(u) PROVE Control!NoLostResume'
  BY <1>0, <1>2 DEF Ends, Control!Return, Control!DropMutator, Control!Finish,
                    Control!Unregister
<1>3. ASSUME NEW u \in Control!Threads, Joins(u) PROVE Control!NoLostResume'
  BY <1>0, <1>3 DEF Joins, Control!Join, Control!CheckFinished, Control!TakeHandle,
                    Control!OsJoin, Control!Begin
<1>4. ASSUME NEW u \in Control!Threads, Requests(u) PROVE Control!NoLostResume'
  BY <1>0, <1>4 DEF Requests, Control!Suspend, Control!Resume, Control!Terminate,
                    Control!Unsuspend, Control!Notify, Control!Publish, Control!Begin
<1>5. ASSUME NEW u \in Control!Threads, Polls(u) PROVE Control!NoLostResume'
  BY <1>0, <1>5 DEF Polls, Control!Poll, Control!Park, Control!Unpark,
                    Control!CheckTerminate
<1>6. CASE UNCHANGED Control!vars
  BY <1>0, <1>6 DEF Control!vars
<1> QED
  BY ONLY <1>1, <1>2, <1>3, <1>4, <1>5, <1>6, Grouped, [Control!Next]_Control!vars

LEMMA ThreadsInvariance == Control!Spec => [](ControlInv /\ Control!NoLostResume)
<1>1. Control!Init => ControlInv /\ Control!NoLostResume
  BY ThreadsAtFirst, ThreadsAssumption DEF Control!Init, Control!NoLostResume, Control!Threads
<1>2. ControlInv /\ Control!NoLostResume /\ [Control!Next]_Control!vars =>
        (ControlInv /\ Control!NoLostResume)'
  BY TypeKept, MainInvKept, LifeInvKept, BirthInvKept, JoinInvKept,
  LostResumeKept DEF ControlInv
<1> QED
  BY <1>1, <1>2, PTL DEF Control!Spec

\* A mutator never outlives the registry entry of its thread, so a collection
\* waits for no thread that is gone (create_thread).
THEOREM ThreadTypes == Control!Spec => []ControlTypeOK
<1>1. ControlInv => ControlTypeOK
  BY DEF ControlInv, ControlTypeOK
<1> QED
  BY <1>1, ThreadsInvariance, PTL

\* Between the two tests of suspend_requested and the wait no resume and no
\* termination is lost (thread_safepoint against resume_thread and
\* terminate_thread).
THEOREM NoResumeLost == Control!Spec => []NoLostResume
BY ThreadsInvariance, PTL DEF NoLostResume

\* join-thread answers after its thread has finished and has given up its
\* mutator, whoever joins and however late (join_thread).
THEOREM Joined == Control!Spec => JoinedIsOver
<1> DEFINE Answers == \A a \in Control!Threads :
                        tpc[a] \in {"take", "osjoin"} /\ tpc'[a] = "body" =>
                          tgt[a] \in finished /\ tgt[a] \notin mutators
<1>1. ControlInv /\ [Control!Next]_Control!vars => [Answers]_Control!vars
  BY DEF ControlInv, JoinInv, LifeInv, Control!TypeOK
<1>2. Control!Spec => []ControlInv
  BY ThreadsInvariance, PTL
<1> QED
  BY <1>1, <1>2, PTL DEF Control!Spec, JoinedIsOver, Control!JoinedIsOver
=============================================================================
