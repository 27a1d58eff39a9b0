--------------------------- MODULE AdapterMonitor ---------------------------
(***************************************************************************)
(* apps/WifiAdapterNotifier: the service that offers to switch Wi-Fi to a  *)
(* USB adapter and goes back to the onboard radio when it is unplugged.    *)
(*                                                                         *)
(* One handler thread runs the tasks of its message queue in order: the    *)
(* poll, which re-posts itself with a delay, and the switches that the     *)
(* "Activate" button of a notification asks for.  Around it adapters come  *)
(* and go at any moment, taps travel as broadcasts, and the process may    *)
(* die and have its service restarted by the system.                       *)
(***************************************************************************)
EXTENDS Naturals, Sequences, FiniteSets

CONSTANTS
  Dongles,     \* the wlan interfaces of USB adapters with a known driver
  Onboard,     \* ONBOARD_IFACE, wlan0
  Poll,        \* the mPoll task; a switch task is the interface it switches to
  MaxQueue,    \* bound: tasks waiting when a tap is delivered
  MayFail,     \* whether calls of the system may fail for a time
  MayCrash     \* whether the process may die

ASSUME MonitorConstants ==
  /\ Onboard \notin Dongles
  /\ Poll \notin Dongles
  /\ MaxQueue \in Nat
  /\ MayFail \in BOOLEAN /\ MayCrash \in BOOLEAN

VARIABLES
  plugged,     \* adapters whose interface exists in /sys/class/net
  taps,        \* "Activate" broadcasts on their way to the service
  alive,       \* the service exists
  queue,       \* tasks ready to run on the handler thread
  delayed,     \* polls posted with a delay that has not run out
  pc,          \* where the handler thread is
  found,       \* the adapters the running poll has listed, its local `dongles`
  present,     \* mPresent
  pending,     \* mRevertPending
  notifs,      \* adapters with a notification on display
  iface,       \* the property wifi.interface
  wifi,        \* the interface Wi-Fi is enabled on, or Off
  troubled     \* calls of the system may fail, for the time being

Off == "off"

thread   == <<queue, delayed, pc, found, present, pending>>
world    == <<plugged, taps, troubled>>
platform == <<world, notifs, iface, wifi>>
vars     == <<thread, platform, alive>>

-----------------------------------------------------------------------------
(* The service.                                                            *)

\* onCreate and onStartCommand without ACTION_SWITCH, after boot or when the
\* system restarts the sticky service with a null intent: start the poll loop on
\* a new thread, whose queue holds nothing that removeCallbacks could remove.  (Boot
\* is announced once and a restart follows a death: no start meets a running loop.)
StartMonitor ==
  /\ ~ alive
  /\ alive' = TRUE
  /\ queue' = <<Poll>>
  /\ delayed' = 0
  /\ UNCHANGED <<pc, found, present, pending>>
  /\ UNCHANGED platform

\* ActivateReceiver and onStartCommand with ACTION_SWITCH.  A service that has
\* died is created by this start and gets no other one.
DeliverTap(d) ==
  /\ d \in taps
  /\ Len(queue) < MaxQueue
  /\ taps' = taps \ {d}
  /\ alive' = TRUE
  /\ queue' = Append(queue, d)
  /\ UNCHANGED <<delayed, pc, found, present, pending>>
  /\ UNCHANGED <<plugged, troubled, notifs, iface, wifi>>

\* postDelayed(this, POLL_MS), the `finally` of the poll.
RepostTwice == delayed' = delayed + 2

Repost == delayed' = delayed + 1

\* A poll ends and posts the next one.
EndPoll == pc' = "idle" /\ Repost

\* The poll lists the interfaces with a dongle driver.  Where the directory or a
\* driver link cannot be read, adapters are missing from the list.
PollScan ==
  /\ pc = "idle" /\ queue # << >> /\ Head(queue) = Poll
  /\ queue' = Tail(queue)
  /\ found' \in IF troubled THEN SUBSET plugged ELSE {plugged}
  /\ pc' = "scanned"
  /\ UNCHANGED <<alive, delayed, present, pending>>
  /\ UNCHANGED platform

\* Adapters not present at the last poll get a notification, those gone lose it.
New  == found \ present
Gone == present \ found

NotifiedNeverCancels == notifs \cup New

Notified == (notifs \cup New) \ Gone

PollNotify ==
  /\ pc = "scanned"
  /\ notifs' = Notified
  /\ present' = found
  /\ found' = {}
  /\ pc' = "notified"
  /\ UNCHANGED <<alive, queue, delayed, pending>>
  /\ UNCHANGED <<world, iface, wifi>>

\* wifi.interface names an adapter whose interface does not exist.
Stale == iface # Onboard /\ iface \notin plugged

\* The guard of the revert: not while an earlier revert is thought to be under way.
MayRevertNever == FALSE

MayRevert == ~ pending

\* maybeRevertStaleInterface: back to wlan0, once.
PollRevert ==
  /\ pc = "notified"
  /\ Stale /\ MayRevert
  /\ pending' = TRUE
  /\ iface' = Onboard
  /\ pc' = "reverting"
  /\ UNCHANGED <<alive, queue, delayed, found, present>>
  /\ UNCHANGED <<world, notifs, wifi>>

PollDone ==
  /\ pc = "notified"
  /\ ~ (Stale /\ MayRevert)
  /\ pending' = (pending /\ Stale)
  /\ EndPoll
  /\ UNCHANGED <<alive, queue, found, present>>
  /\ UNCHANGED platform

\* A Throwable in the loops that show and then cancel notifications: some of the
\* new ones are shown, or all of them and some of the old ones cancelled, and
\* mPresent stays what it was.
PollFailsMarked ==
  /\ troubled
  /\ pc = "scanned"
  /\ present' = found
  /\ found' = {}
  /\ EndPoll
  /\ UNCHANGED <<alive, queue, pending, platform>>

PollFails ==
  /\ troubled
  /\ pc = "scanned"
  /\ \/ \E shown \in SUBSET New : notifs' = notifs \cup shown
     \/ \E cancelled \in SUBSET Gone : notifs' = (notifs \cup New) \ cancelled
  /\ found' = {}
  /\ EndPoll
  /\ UNCHANGED <<alive, queue, present, pending>>
  /\ UNCHANGED <<world, iface, wifi>>

\* A Throwable in maybeRevertStaleInterface before wifi.interface is written: when
\* reading it, or when writing it with mRevertPending already set.
RevertFails ==
  /\ troubled
  /\ pc = "notified"
  /\ pending' \in {pending, pending \/ (Stale /\ MayRevert)}
  /\ EndPoll
  /\ UNCHANGED <<alive, queue, found, present>>
  /\ UNCHANGED platform

\* switchStaTo, up to cycleWifi.
SwitchSta ==
  /\ pc = "idle" /\ queue # << >> /\ Head(queue) # Poll
  /\ queue' = Tail(queue)
  /\ iface' = Head(queue)
  /\ pc' = "switching"
  /\ UNCHANGED <<alive, delayed, found, present, pending>>
  /\ UNCHANGED <<world, notifs, wifi>>

\* cycleWifi: Wi-Fi goes off and, after a gap, comes up on whatever wifi.interface
\* names by then.
CycleBegin ==
  /\ pc \in {"switching", "reverting"}
  /\ wifi' = Off
  /\ pc' = IF pc = "switching" THEN "switchGap" ELSE "revertGap"
  /\ UNCHANGED <<alive, queue, delayed, found, present, pending>>
  /\ UNCHANGED <<world, notifs, iface>>

PollRuns == pc \in {"scanned", "notified", "reverting", "revertGap"}

\* The task ends; a revert is the end of a poll.
EndTask == IF PollRuns THEN EndPoll ELSE pc' = "idle" /\ UNCHANGED delayed

CycleEnd ==
  /\ pc \in {"switchGap", "revertGap"}
  /\ wifi' = iface
  /\ EndTask
  /\ UNCHANGED <<alive, queue, found, present, pending>>
  /\ UNCHANGED <<world, notifs, iface>>

\* No WifiManager, or a Throwable in a revert, which the poll catches: Wi-Fi stays
\* on, or off when it was the enabling that failed.  (A Throwable in a switch is
\* caught by nobody: that is Crash.)
CycleFails ==
  /\ troubled
  /\ pc \in {"switching", "reverting", "revertGap"}
  /\ EndTask
  /\ UNCHANGED <<alive, queue, found, present, pending>>
  /\ UNCHANGED platform

\* The delay of a posted poll runs out.
PollDue ==
  /\ delayed > 0
  /\ delayed' = delayed - 1
  /\ queue' = Append(queue, Poll)
  /\ UNCHANGED <<alive, pc, found, present, pending>>
  /\ UNCHANGED platform

Thread == PollScan \/ PollNotify \/ PollRevert \/ PollDone \/ PollFails \/ RevertFails
            \/ SwitchSta \/ CycleBegin \/ CycleEnd \/ CycleFails

-----------------------------------------------------------------------------
(* Adapters, the user and the system.                                      *)

Plug(d) ==
  /\ plugged' = plugged \cup {d}
  /\ UNCHANGED <<taps, troubled, alive, notifs, iface, wifi, thread>>

Unplug(d) ==
  /\ plugged' = plugged \ {d}
  /\ UNCHANGED <<taps, troubled, alive, notifs, iface, wifi, thread>>

Tap(d) ==
  /\ d \in notifs
  /\ taps' = taps \cup {d}
  /\ UNCHANGED <<plugged, troubled, alive, notifs, iface, wifi, thread>>

\* From here on calls of the system succeed.
Settles ==
  /\ troubled
  /\ troubled' = FALSE
  /\ UNCHANGED <<plugged, taps, alive, notifs, iface, wifi, thread>>

\* The process is killed, or a switch throws; what the handler thread was doing is
\* never finished.
Crash ==
  /\ MayCrash /\ alive
  /\ alive' = FALSE
  /\ queue' = << >> /\ delayed' = 0 /\ pc' = "idle"
  /\ found' = {} /\ present' = {} /\ pending' = FALSE
  /\ UNCHANGED platform

Init ==
  /\ plugged \in SUBSET Dongles
  /\ taps = {} /\ alive = FALSE
  /\ queue = << >> /\ delayed = 0 /\ pc = "idle"
  /\ found = {} /\ present = {} /\ pending = FALSE
  /\ notifs = {}
  /\ iface = Onboard /\ wifi = Onboard
  /\ troubled = MayFail

Next ==
  \/ StartMonitor \/ PollDue \/ Crash \/ Settles \/ Thread
  \/ \E d \in Dongles : DeliverTap(d) \/ Plug(d) \/ Unplug(d) \/ Tap(d)

Spec == Init /\ [][Next]_vars

\* The system starts the service, the handler thread runs its tasks, delays run
\* out, broadcasts arrive; and failures are "transient" (AdapterMonitorService.java:126).
FairSpec ==
  /\ Spec
  /\ WF_vars(StartMonitor) /\ WF_vars(Thread) /\ WF_vars(PollDue)
  /\ WF_vars(Settles)
  /\ \A d \in Dongles : WF_vars(DeliverTap(d))

-----------------------------------------------------------------------------
(* Properties.                                                             *)

\* Type invariant.
TypeOK ==
  /\ {plugged, taps, found, present, notifs} \subseteq SUBSET Dongles
  /\ alive \in BOOLEAN /\ pending \in BOOLEAN /\ troubled \in BOOLEAN
  /\ queue \in Seq(Dongles \cup {Poll})
  /\ delayed \in 0..1
  /\ pc \in {"idle", "scanned", "notified", "reverting", "revertGap",
             "switching", "switchGap"}
  /\ iface \in Dongles \cup {Onboard}
  /\ wifi \in Dongles \cup {Onboard, Off}

Waiting == { i \in DOMAIN queue : queue[i] = Poll }

Looping == PollRuns \/ delayed > 0 \/ Waiting # {}

\* "it's already running" (AdapterMonitorService.java:71): a service that exists
\* has its poll loop, waiting, delayed or being executed.
MonitoringNeverStops == alive => Looping

\* Whatever is posted, thrown, switched or restarted there is one poll at a time,
\* so Wi-Fi is never cycled by two loops and the thread never drowns in polls.
OnePoll == delayed + Cardinality(Waiting) + (IF PollRuns THEN 1 ELSE 0) <= 1

\* While there is a poll loop, a plugged adapter that mPresent does not hold is
\* offered, also after polls that missed it or failed half way through the new ones.
OffersAppear ==
  \A d \in Dongles :
    (d \in plugged \ present /\ Looping) ~> (d \in notifs \/ d \notin plugged \/ ~ Looping)

\* And the offer of an adapter that mPresent holds is withdrawn when it is unplugged,
\* also after polls that failed half way through the old ones.  (One that only a
\* failed poll has seen is not in mPresent and keeps its notification.)
OffersWithdrawn ==
  \A d \in Dongles :
    (d \in present \ plugged) ~> (d \notin notifs \/ d \in plugged \/ ~ Looping)

\* "dongle ifaces currently notified" (AdapterMonitorService.java:46): what mPresent
\* holds is on display.  A loop that throws after cancelling a notification breaks
\* it, and such an adapter, plugged in again, is not offered again.
PresentAreNotified == present \subseteq notifs

\* Once failures are over, an activated adapter found gone while no revert is
\* pending is given up for the onboard radio, unless it or another one is there again.
GuardedRevert ==
  (Stale /\ ~ pending /\ ~ troubled /\ Looping) ~> (~ Stale \/ ~ Looping)

\* "removing the adapter restores the onboard radio" (README.md:67).
RemovalRestoresOnboard == Stale ~> ~ Stale
=============================================================================
