------------------------ MODULE AdapterMonitorProofs ------------------------
(***************************************************************************)
(* Proofs about AdapterMonitor for any adapters: one poll loop, which only *)
(* the death of the process stops, and mPresent, which only failing polls  *)
(* part from what is displayed.                                            *)
(***************************************************************************)
EXTENDS AdapterMonitor, FiniteSetTheorems, TLAPS

-----------------------------------------------------------------------------
(* The handler's queue.                                                    *)

NoPoll(q)      == \A i \in DOMAIN q : q[i] # Poll
AtMostOne(q)   == \A i, j \in DOMAIN q : q[i] = Poll /\ q[j] = Poll => i = j

Tasks == Dongles \cup {Poll}

\* Posting a task puts it at the end and leaves the others where they are.
LEMMA Posting ==
  ASSUME NEW q \in Seq(Tasks), NEW t \in Tasks
  PROVE  /\ Append(q, t) \in Seq(Tasks)
         /\ NoPoll(q) => AtMostOne(Append(q, t))
         /\ NoPoll(q) /\ t # Poll => NoPoll(Append(q, t))
         /\ AtMostOne(q) /\ t # Poll => AtMostOne(Append(q, t))
         /\ ~ NoPoll(q) \/ t = Poll => ~ NoPoll(Append(q, t))
<1> DEFINE r == Append(q, t)
<1>1. /\ r \in Seq(Tasks)
      /\ DOMAIN r = 1..(Len(q) + 1)
      /\ DOMAIN q = 1..Len(q)
      /\ Len(q) \in Nat
      /\ \A i \in 1..Len(q) : r[i] = q[i]
      /\ r[Len(q) + 1] = t
  OBVIOUS
<1> HIDE DEF r
<1>2. \A i \in DOMAIN r : i \in DOMAIN q \/ i = Len(q) + 1
  BY <1>1
<1>3. NoPoll(q) => AtMostOne(r)
  BY <1>1, <1>2 DEF NoPoll, AtMostOne
<1>4. NoPoll(q) /\ t # Poll => NoPoll(r)
  BY <1>1, <1>2 DEF NoPoll
<1>5. AtMostOne(q) /\ t # Poll => AtMostOne(r)
  BY <1>1, <1>2 DEF AtMostOne
<1>6. ~ NoPoll(q) \/ t = Poll => ~ NoPoll(r)
  BY <1>1 DEF NoPoll
<1> QED
  BY <1>1, <1>3, <1>4, <1>5, <1>6 DEF r

\* Taking a task leaves the others.
LEMMA Taking ==
  ASSUME NEW q \in Seq(Tasks), q # << >>
  PROVE  /\ Head(q) \in Tasks
         /\ Tail(q) \in Seq(Tasks)
         /\ NoPoll(q) => NoPoll(Tail(q))
         /\ AtMostOne(q) => AtMostOne(Tail(q))
         /\ AtMostOne(q) /\ Head(q) = Poll => NoPoll(Tail(q))
         /\ ~ NoPoll(q) /\ Head(q) # Poll => ~ NoPoll(Tail(q))
<1> DEFINE r == Tail(q)
<1>1. /\ r \in Seq(Tasks)
      /\ Len(q) \in Nat \ {0}
      /\ DOMAIN q = 1..Len(q)
      /\ DOMAIN r = 1..(Len(q) - 1)
      /\ \A i \in 1..(Len(q) - 1) : r[i] = q[i + 1]
      /\ Head(q) = q[1] /\ Head(q) \in Tasks
  OBVIOUS
<1> HIDE DEF r
<1>2. \A i \in DOMAIN r : i + 1 \in DOMAIN q /\ r[i] = q[i + 1] /\ i + 1 # 1
  BY <1>1
<1>3. \A i \in DOMAIN q : i = 1 \/ (i - 1 \in DOMAIN r /\ r[i - 1] = q[i])
  BY <1>1
<1>4. NoPoll(q) => NoPoll(r)
  BY <1>2 DEF NoPoll
<1>5. AtMostOne(q) => AtMostOne(r)
  <2> SUFFICES ASSUME AtMostOne(q), NEW i \in DOMAIN r, NEW j \in DOMAIN r,
                      r[i] = Poll, r[j] = Poll
               PROVE  i = j
    BY DEF AtMostOne
  <2>1. i + 1 = j + 1
    BY <1>2 DEF AtMostOne
  <2>2. i \in Nat /\ j \in Nat
    BY <1>1
  <2> QED
    BY <2>1, <2>2
<1>6. AtMostOne(q) /\ Head(q) = Poll => NoPoll(r)
  <2> SUFFICES ASSUME AtMostOne(q), Head(q) = Poll, NEW i \in DOMAIN r, r[i] = Poll
               PROVE  FALSE
    BY DEF NoPoll
  <2>1. 1 \in DOMAIN q /\ q[1] = Poll
    BY <1>1
  <2>2. i + 1 = 1
    BY <1>2, <2>1 DEF AtMostOne
  <2> QED
    BY <1>2, <2>2
<1>7. ~ NoPoll(q) /\ Head(q) # Poll => ~ NoPoll(r)
  BY <1>1, <1>3 DEF NoPoll
<1> QED
  BY <1>1, <1>4, <1>5, <1>6, <1>7 DEF r

-----------------------------------------------------------------------------
(* The inductive invariant.                                                *)

\* One poll is queued, delayed or running.
OneLoop ==
  /\ AtMostOne(queue)
  /\ delayed > 0 \/ PollRuns => NoPoll(queue)
  /\ PollRuns => delayed = 0

\* A service that does not exist has no thread.
AtRest == ~ alive => queue = << >> /\ delayed = 0 /\ pc = "idle"

\* Failures only where they are admitted.
Untroubled == troubled => MayFail

IInv == TypeOK /\ OneLoop /\ AtRest /\ Untroubled

LEMMA InitIInv == Init => IInv
<1> SUFFICES ASSUME Init PROVE IInv
  OBVIOUS
<1>1. queue = << >> /\ delayed = 0 /\ pc = "idle"
  BY DEF Init
<1>2. OneLoop /\ AtRest
  BY <1>1 DEF OneLoop, AtRest, AtMostOne, NoPoll, PollRuns
<1>3. queue \in Seq(Dongles \cup {Poll})
  BY <1>1
<1>4. plugged \subseteq Dongles /\ taps = {} /\ found = {} /\ present = {} /\ notifs = {}
  BY DEF Init
<1>5. alive \in BOOLEAN /\ pending \in BOOLEAN
  BY Zenon DEF Init
<1>6. troubled \in BOOLEAN /\ Untroubled
  BY Zenon, MonitorConstants DEF Init, MonitorConstants, Untroubled
<1>7. delayed \in 0..1 /\ iface = Onboard /\ wifi = Onboard
  BY DEF Init
<1>8. TypeOK
  BY <1>1, <1>3, <1>4, <1>5, <1>6, <1>7 DEF TypeOK
<1> QED
  BY <1>2, <1>6, <1>8 DEF IInv

LEMMA NextIInv == IInv /\ [Next]_vars => IInv'
<1> SUFFICES ASSUME IInv, [Next]_vars PROVE IInv'
  OBVIOUS
<1> USE MonitorConstants DEF MonitorConstants
<1>0. /\ TypeOK /\ OneLoop /\ AtRest /\ Untroubled
      /\ queue \in Seq(Tasks)
      /\ Poll \in Tasks /\ Dongles \subseteq Tasks
  BY DEF IInv, TypeOK, Tasks
<1> DEFINE Queues == queue' \in Seq(Tasks) /\ OneLoop' /\ AtRest'
<1>1. CASE StartMonitor
  <2>1. Queues
    <3>1. queue' \in Seq(Tasks) /\ DOMAIN queue' = {1}
      BY <1>0, <1>1 DEF StartMonitor
    <3>2. ~ PollRuns'
      BY <1>0, <1>1 DEF StartMonitor, AtRest, PollRuns
    <3> QED
      BY <1>1, <3>1, <3>2 DEF StartMonitor, OneLoop, AtRest, AtMostOne
  <2> QED
    BY <1>0, <1>1, <2>1
       DEF StartMonitor, platform, world, IInv, TypeOK, Tasks, Untroubled
<1>2. CASE PollDue
  <2>1. queue' = Append(queue, Poll) /\ NoPoll(queue) /\ delayed' = 0 /\ ~ PollRuns /\ alive
    BY <1>0, <1>2 DEF PollDue, OneLoop, AtRest, TypeOK
  <2>2. Queues
    BY <1>0, <1>2, <2>1, Posting DEF PollDue, OneLoop, AtRest, PollRuns
  <2>3. delayed' \in 0..1
    BY <2>1
  <2> QED
    BY <1>0, <1>2, <2>2, <2>3 DEF PollDue, platform, world, IInv, TypeOK, Tasks, Untroubled
<1>3. CASE Crash
  <2>1. Queues
    BY <1>3 DEF Crash, OneLoop, AtRest, AtMostOne, NoPoll, PollRuns
  <2>2. alive' \in BOOLEAN /\ pending' \in BOOLEAN
    BY <1>3, Zenon DEF Crash
  <2>3. /\ UNCHANGED platform
        /\ found' = {} /\ present' = {} /\ delayed' \in 0..1 /\ pc' = "idle"
    BY <1>3 DEF Crash
  <2> QED
    BY <1>0, <2>1, <2>2, <2>3 DEF platform, world, IInv, TypeOK, Tasks, Untroubled
<1>4. CASE PollScan
  <2>1. /\ queue' = Tail(queue) /\ Tail(queue) \in Seq(Tasks)
        /\ AtMostOne(Tail(queue)) /\ NoPoll(Tail(queue))
    BY <1>0, <1>4, Taking DEF PollScan, OneLoop
  <2>2. delayed = 0
    <3>1. queue # << >> /\ Head(queue) = Poll
      BY <1>4 DEF PollScan
    <3>2. ~ NoPoll(queue)
      BY <1>0, <3>1 DEF NoPoll
    <3> QED
      BY <1>0, <3>2 DEF OneLoop, TypeOK
  <2>3. Queues
    BY <1>0, <1>4, <2>1, <2>2 DEF PollScan, OneLoop, AtRest, PollRuns
  <2>4. found' \subseteq Dongles
    BY <1>0, <1>4 DEF PollScan, TypeOK
  <2> QED
    BY <1>0, <1>4, <2>3, <2>4 DEF PollScan, platform, world, IInv, TypeOK, Tasks, Untroubled
<1>5. CASE PollNotify
  <2>1. Queues
    BY <1>0, <1>5 DEF PollNotify, OneLoop, AtRest, PollRuns
  <2>2. notifs' \subseteq Dongles
    BY <1>0, <1>5 DEF PollNotify, Notified, New, Gone, TypeOK
  <2> QED
    BY <1>0, <1>5, <2>1, <2>2 DEF PollNotify, world, IInv, TypeOK, Tasks, Untroubled
<1>6. CASE PollRevert
  <2>1. Queues
    BY <1>0, <1>6 DEF PollRevert, OneLoop, AtRest, PollRuns
  <2> QED
    BY <1>0, <1>6, <2>1 DEF PollRevert, world, IInv, TypeOK, Tasks, Untroubled
<1>7. CASE PollDone \/ RevertFails
  <2>1. Queues /\ delayed' = 1 /\ pc' = "idle"
    BY <1>0, <1>7 DEF PollDone, RevertFails, EndPoll, Repost, OneLoop, AtRest, PollRuns
  <2>2. pending' \in BOOLEAN
    <3>1. CASE PollDone
      BY <1>0, <3>1 DEF PollDone, Stale, TypeOK
    <3>2. CASE RevertFails
      <4>1. PICK p \in {pending, pending \/ (Stale /\ MayRevert)} : pending' = p
        BY <3>2 DEF RevertFails
      <4>2. p = pending \/ p = (pending \/ (Stale /\ MayRevert))
        BY <4>1
      <4> QED
        BY <1>0, <4>1, <4>2, Zenon DEF TypeOK
    <3> QED
      BY <1>7, <3>1, <3>2
  <2>3. UNCHANGED <<alive, found, present, platform>>
    BY <1>7 DEF PollDone, RevertFails
  <2> QED
    BY <1>0, <2>1, <2>2, <2>3 DEF platform, world, IInv, TypeOK, Tasks, Untroubled
<1>8. CASE PollFails
  <2>1. Queues /\ delayed' = 1 /\ pc' = "idle"
    BY <1>0, <1>8 DEF PollFails, EndPoll, Repost, OneLoop, AtRest, PollRuns
  <2>2. notifs' \subseteq notifs \cup found
    BY <1>8 DEF PollFails, New
  <2> QED
    BY <1>0, <1>8, <2>1, <2>2 DEF PollFails, world, IInv, TypeOK, Tasks, Untroubled
<1>9. CASE SwitchSta
  <2>1. /\ queue' = Tail(queue) /\ Tail(queue) \in Seq(Tasks)
        /\ AtMostOne(Tail(queue)) /\ (NoPoll(queue) => NoPoll(Tail(queue)))
        /\ Head(queue) \in Dongles
    BY <1>0, <1>9, Taking DEF SwitchSta, OneLoop, Tasks
  <2>2. Queues
    BY <1>0, <1>9, <2>1 DEF SwitchSta, OneLoop, AtRest, PollRuns
  <2> QED
    BY <1>0, <1>9, <2>1, <2>2 DEF SwitchSta, world, IInv, TypeOK, Tasks, Untroubled
<1>10. CASE CycleBegin
  <2>1. Queues
    BY <1>0, <1>10 DEF CycleBegin, OneLoop, AtRest, PollRuns
  <2>2. pc' \in {"switchGap", "revertGap"}
    BY <1>10 DEF CycleBegin
  <2> QED
    BY <1>0, <1>10, <2>1, <2>2 DEF CycleBegin, world, IInv, TypeOK, Tasks, Untroubled
<1>11. CASE CycleEnd \/ CycleFails
  <2>1. Queues /\ delayed' \in 0..1 /\ pc' = "idle"
    BY <1>0, <1>11
       DEF CycleEnd, CycleFails, EndTask, EndPoll, Repost, OneLoop, AtRest, PollRuns, TypeOK
  <2>2. /\ wifi' \in {wifi, iface}
        /\ UNCHANGED <<alive, found, present, pending, world, notifs, iface>>
    BY <1>11 DEF CycleEnd, CycleFails, platform
  <2> QED
    BY <1>0, <2>1, <2>2 DEF world, IInv, TypeOK, Tasks, Untroubled
<1>12. ASSUME NEW d \in Dongles, DeliverTap(d) PROVE IInv'
  <2>1. /\ queue' = Append(queue, d) /\ Append(queue, d) \in Seq(Tasks)
        /\ AtMostOne(Append(queue, d)) /\ (NoPoll(queue) => NoPoll(Append(queue, d)))
    BY <1>0, <1>12, Posting DEF DeliverTap, OneLoop
  <2>2. Queues
    BY <1>0, <1>12, <2>1 DEF DeliverTap, OneLoop, AtRest, PollRuns
  <2> QED
    BY <1>0, <1>12, <2>2 DEF DeliverTap, IInv, TypeOK, Tasks, Untroubled
<1>13. ASSUME NEW d \in Dongles, Plug(d) \/ Unplug(d) \/ Tap(d) PROVE IInv'
  <2>1. Queues
    BY <1>0, <1>13 DEF Plug, Unplug, Tap, thread, OneLoop, AtRest, PollRuns
  <2> QED
    BY <1>0, <1>13, <2>1
       DEF Plug, Unplug, Tap, thread, IInv, TypeOK, Tasks, Untroubled
<1>14. CASE Settles
  <2>1. Queues
    BY <1>0, <1>14 DEF Settles, thread, OneLoop, AtRest, PollRuns
  <2>2. troubled' \in BOOLEAN
    BY <1>14, Zenon DEF Settles
  <2> QED
    BY <1>0, <1>14, <2>1, <2>2 DEF Settles, thread, IInv, TypeOK, Tasks, Untroubled
<1>15. CASE UNCHANGED vars
  BY <1>0, <1>15
     DEF vars, thread, platform, world, IInv, TypeOK, OneLoop, AtRest, Untroubled, PollRuns
<1> QED
  BY <1>1, <1>2, <1>3, <1>4, <1>5, <1>6, <1>7, <1>8, <1>9, <1>10, <1>11, <1>12, <1>13,
     <1>14, <1>15 DEF Next, Thread

LEMMA Invariance == Spec => []IInv
  BY InitIInv, NextIInv, PTL DEF Spec

-----------------------------------------------------------------------------
(* The theorems.                                                           *)

\* Type correctness of the service and the platform around it.
THEOREM TypeCorrect == Spec => []TypeOK
<1>1. IInv => TypeOK
  BY DEF IInv
<1> QED
  BY <1>1, Invariance, PTL

\* One poll at a time, counted: the polls waiting in the queue, delayed and
\* running are never two.
THEOREM OnePollAtATime == Spec => []OnePoll
<1>1. IInv => OnePoll
  <2> SUFFICES ASSUME IInv PROVE OnePoll
    OBVIOUS
  <2>1. TypeOK /\ OneLoop
    BY DEF IInv
  <2>2. CASE NoPoll(queue)
    <3>1. Waiting = {}
      BY <2>2 DEF Waiting, NoPoll
    <3>2. Cardinality(Waiting) = 0
      BY <3>1, FS_EmptySet
    <3> QED
      BY <2>1, <3>2 DEF OnePoll, OneLoop, TypeOK
  <2>3. CASE ~ NoPoll(queue)
    <3>1. PICK i \in DOMAIN queue : queue[i] = Poll
      BY <2>3 DEF NoPoll
    <3>2. Waiting = {i}
      BY <2>1, <3>1 DEF Waiting, OneLoop, AtMostOne
    <3>3. Cardinality(Waiting) = 1
      BY <3>2, FS_Singleton
    <3>4. delayed = 0 /\ ~ PollRuns
      BY <2>1, <2>3 DEF OneLoop, TypeOK
    <3> QED
      BY <3>3, <3>4 DEF OnePoll
  <2> QED
    BY <2>2, <2>3
<1> QED
  BY <1>1, Invariance, PTL

\* As long as no call fails, mPresent holds only adapters whose notification is on
\* display, through unplugging, re-plugging, switches, reverts and the death of the
\* process: the failing loop is what an adapter that is not offered again needs.
THEOREM PresentNotified == ASSUME ~ MayFail PROVE Spec => []PresentAreNotified
<1>1. Init => PresentAreNotified
  BY DEF Init, PresentAreNotified
<1>2. IInv /\ PresentAreNotified /\ [Next]_vars => PresentAreNotified'
  <2> SUFFICES ASSUME IInv, PresentAreNotified, [Next]_vars PROVE PresentAreNotified'
    OBVIOUS
  <2>0. ~ troubled
    BY DEF IInv, Untroubled
  <2>1. CASE PollNotify
    BY <2>1 DEF PollNotify, Notified, New, Gone, PresentAreNotified
  <2>2. CASE PollFails \/ RevertFails \/ CycleFails \/ Settles
    BY <2>0, <2>2 DEF PollFails, RevertFails, CycleFails, Settles
  <2>3. CASE Crash
    BY <2>3 DEF Crash, PresentAreNotified
  <2>4. CASE UNCHANGED <<present, notifs>>
    BY <2>4 DEF PresentAreNotified
  <2>5. CASE StartMonitor \/ PollDue \/ PollScan \/ PollDone
    BY <2>4, <2>5 DEF StartMonitor, PollDue, PollScan, PollDone, platform
  <2>6. CASE PollRevert \/ SwitchSta \/ CycleBegin \/ CycleEnd
    BY <2>4, <2>6 DEF PollRevert, SwitchSta, CycleBegin, CycleEnd
  <2>7. ASSUME NEW d \in Dongles, DeliverTap(d) \/ Plug(d) \/ Unplug(d) \/ Tap(d)
        PROVE  PresentAreNotified'
    BY <2>4, <2>7 DEF DeliverTap, Plug, Unplug, Tap, thread
  <2>8. CASE UNCHANGED vars
    BY <2>4, <2>8 DEF vars, thread, platform
  <2> QED
    BY <2>1, <2>2, <2>3, <2>5, <2>6, <2>7, <2>8 DEF Next, Thread
<1> QED
  BY <1>1, <1>2, Invariance, PTL DEF Spec

\* Before the service first exists there is nothing to tap on.
Untouched == ~ alive => taps = {} /\ notifs = {}

\* As long as the process does not die, a service that exists has its poll
\* loop: taps, failing polls and switches never stop the monitoring.
THEOREM LoopLives == ASSUME ~ MayCrash PROVE Spec => []MonitoringNeverStops
<1> DEFINE Inv == MonitoringNeverStops /\ Untouched
<1>1. Init => Inv
  BY DEF Init, MonitoringNeverStops, Untouched
<1>2. IInv /\ Inv /\ [Next]_vars => Inv'
  <2> SUFFICES ASSUME IInv, Inv, [Next]_vars PROVE Inv'
    OBVIOUS
  <2>0. /\ TypeOK /\ OneLoop /\ AtRest
        /\ queue \in Seq(Tasks) /\ Poll \in Tasks /\ Dongles \subseteq Tasks
        /\ Poll \notin Dongles
    BY MonitorConstants DEF IInv, TypeOK, Tasks, MonitorConstants
  <2> DEFINE Loop == PollRuns \/ delayed > 0 \/ ~ NoPoll(queue)
  <2>w. (Loop <=> Looping) /\ (Loop' <=> Looping')
    BY DEF Looping, Waiting, NoPoll
  <2>a. (alive => Loop) /\ Untouched
    BY <2>w DEF MonitoringNeverStops
  <2> SUFFICES (alive' => Loop') /\ Untouched'
    BY <2>w DEF MonitoringNeverStops
  <2> HIDE DEF Inv
  <2>1. CASE StartMonitor
    BY <2>1 DEF StartMonitor, NoPoll, Untouched
  <2>2. CASE PollDue
    <3>1. ~ NoPoll(queue')
      BY <2>0, <2>2, Posting DEF PollDue
    <3>2. alive
      BY <2>0, <2>2 DEF PollDue, AtRest, TypeOK
    <3> QED
      BY <2>2, <3>1, <3>2 DEF PollDue, Untouched
  <2>3. CASE Crash
    BY <2>3 DEF Crash
  <2>4. CASE PollScan \/ PollNotify \/ PollRevert
    <3>1. PollRuns'
      BY <2>4 DEF PollScan, PollNotify, PollRevert, PollRuns
    <3>2. alive /\ alive'
      BY <2>0, <2>4 DEF PollScan, PollNotify, PollRevert, AtRest
    <3> QED
      BY <3>1, <3>2 DEF Untouched
  <2>5. CASE PollDone \/ PollFails \/ RevertFails
    <3>1. delayed' > 0
      BY <2>0, <2>5 DEF PollDone, PollFails, RevertFails, EndPoll, Repost, TypeOK
    <3>2. alive /\ alive'
      BY <2>0, <2>5 DEF PollDone, PollFails, RevertFails, AtRest
    <3> QED
      BY <3>1, <3>2 DEF Untouched
  <2>6. CASE SwitchSta
    <3>1. ~ NoPoll(queue) => ~ NoPoll(queue')
      BY <2>0, <2>6, Taking DEF SwitchSta
    <3>2. alive /\ alive' /\ ~ PollRuns
      BY <2>0, <2>6 DEF SwitchSta, AtRest, PollRuns
    <3> QED
      BY <2>6, <2>a, <3>1, <3>2 DEF SwitchSta, Untouched
  <2>7. CASE CycleBegin
    <3>1. alive /\ alive'
      BY <2>0, <2>7 DEF CycleBegin, AtRest
    <3>2. PollRuns => PollRuns'
      BY <2>7 DEF CycleBegin, PollRuns
    <3> QED
      BY <2>7, <2>a, <3>1, <3>2 DEF CycleBegin, Untouched
  <2>8. CASE CycleEnd \/ CycleFails
    <3>1. alive /\ alive'
      BY <2>0, <2>8 DEF CycleEnd, CycleFails, AtRest
    <3>2. PollRuns => delayed' > 0
      BY <2>0, <2>8 DEF CycleEnd, CycleFails, EndTask, EndPoll, Repost, TypeOK
    <3>3. ~ PollRuns => delayed' = delayed
      BY <2>8 DEF CycleEnd, CycleFails, EndTask
    <3>4. queue' = queue
      BY <2>8 DEF CycleEnd, CycleFails
    <3> QED
      BY <2>a, <3>1, <3>2, <3>3, <3>4 DEF Untouched
  <2>9. ASSUME NEW d \in Dongles, DeliverTap(d) PROVE (alive' => Loop') /\ Untouched'
    <3>1. ~ NoPoll(queue) => ~ NoPoll(queue')
      BY <2>0, <2>9, Posting DEF DeliverTap
    <3>2. alive
      BY <2>9, <2>a DEF DeliverTap, Untouched
    <3> QED
      BY <2>9, <2>a, <3>1, <3>2 DEF DeliverTap, PollRuns, Untouched
  <2>10. ASSUME NEW d \in Dongles, Plug(d) \/ Unplug(d) \/ Tap(d)
         PROVE  (alive' => Loop') /\ Untouched'
    BY <2>10, <2>a DEF Plug, Unplug, Tap, thread, PollRuns, Untouched
  <2>11. CASE Settles
    BY <2>11, <2>a DEF Settles, thread, PollRuns, Untouched
  <2>12. CASE UNCHANGED vars
    BY <2>12, <2>a DEF vars, thread, platform, world, PollRuns, Untouched
  <2> QED
    BY <2>1, <2>2, <2>3, <2>4, <2>5, <2>6, <2>7, <2>8, <2>9, <2>10, <2>11, <2>12
       DEF Next, Thread
<1>3. Inv => MonitoringNeverStops
  OBVIOUS
<1> QED
  BY <1>1, <1>2, <1>3, Invariance, PTL DEF Spec
=============================================================================
