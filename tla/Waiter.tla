------------------------------- MODULE Waiter -------------------------------
(***************************************************************************)
(* qrtr/src/waiter.c: the event loop under the name server.  A program     *)
(* holds tickets, each for a descriptor, for a timeout or for nothing,     *)
(* and calls waiter_wait, which blocks in poll(2) and then triggers the    *)
(* tickets that are due, running their callbacks.                          *)
(*                                                                         *)
(* Times are kept as ages: `age` is the time since a ticket's start, and   *)
(* Tick lets one unit pass.  Allocations succeed and callbacks do what     *)
(* ctrl_port_fn does: read one packet and clear their ticket.              *)
(***************************************************************************)
EXTENDS Naturals, Sequences, SequencesExt, FiniteSets

CONSTANTS
  Tickets,     \* the tickets a program may allocate
  Temp,        \* the ticket on the stack of waiter_wait_timeout
  Handled,     \* tickets with a callback
  Fds,         \* descriptors
  Intervals,   \* timeouts, in units of time
  Chunk,       \* tickets added between two growths of the poll set (32)
  MaxPending,  \* bound: packets waiting on one descriptor
  MaxAge       \* bound: ages beyond every interval count as this one

ASSUME WaiterConstants ==
  /\ Temp \notin Tickets
  /\ Handled \subseteq Tickets
  /\ Intervals \subseteq 1..MaxAge
  /\ Chunk \in Nat \ {0}
  /\ MaxPending \in Nat /\ MaxAge \in Nat

VARIABLES
  tickets,     \* w->tickets, in list order
  ticket,      \* ticket[t]: type, descriptor or interval, age, triggered
  count,       \* w->count
  size,        \* entries of w->pollset, 0 before the first one is created
  pending,     \* pending[f]: packets waiting on descriptor f
  waiting      \* inside waiter_wait_timeout

vars == <<tickets, ticket, count, size, pending, waiting>>

AnyTicket == Tickets \cup {Temp}

Blank == [type |-> "null", arg |-> 0, age |-> 0, updated |-> FALSE]

Listed == ToSet(tickets)

IsTimeout(t) == ticket[t].type = "timeout"
IsFd(t)      == ticket[t].type = "fd"

Due(t) == IsTimeout(t) /\ ticket[t].age >= ticket[t].arg

-----------------------------------------------------------------------------
(* Tickets.                                                                *)

\* list_remove: the list without a ticket that is in it.
Unlinked(t) == RemoveAt(tickets, CHOOSE i \in DOMAIN tickets : tickets[i] = t)

\* waiter_add_null creates a larger poll set at every Chunk-th ticket, before the
\* ticket is counted.
GrownShort == IF count % Chunk = 0 THEN count + Chunk - 1 ELSE size

Grown == IF count % Chunk = 0 THEN count + Chunk + 1 ELSE size

\* waiter_add_null, waiter_add_fd, waiter_add_timeout.
Add(t, type, arg) ==
  /\ ~ waiting
  /\ t \notin Listed
  /\ tickets' = Append(tickets, t)
  /\ size' = Grown
  /\ count' = count + 1
  /\ ticket' = [ticket EXCEPT ![t] = [Blank EXCEPT !.type = type, !.arg = arg]]
  /\ UNCHANGED <<pending, waiting>>

\* waiter_ticket_set_null, _set_fd, _set_timeout.
Set(t, type, arg) ==
  /\ ~ waiting
  /\ t \in Listed
  /\ ticket' = [ticket EXCEPT ![t] = [@ EXCEPT !.type = type, !.arg = arg, !.age = 0]]
  /\ UNCHANGED <<tickets, count, size, pending, waiting>>

\* waiter_ticket_delete.
Delete(t) ==
  /\ ~ waiting
  /\ t \in Listed
  /\ tickets' = Unlinked(t)
  /\ count' = count - 1
  /\ ticket' = [ticket EXCEPT ![t] = Blank]
  /\ UNCHANGED <<size, pending, waiting>>

\* waiter_ticket_clear.
Clear(t) ==
  /\ ~ waiting
  /\ t \in Listed
  /\ ticket' = [ticket EXCEPT ![t].updated = FALSE]
  /\ UNCHANGED <<tickets, count, size, pending, waiting>>

\* The next ticket after position i with the interval of the i-th one.
NextAlikeAdjacent(i) ==
  { j \in {i + 1} \cap DOMAIN tickets :
      IsTimeout(tickets[j]) /\ ticket[tickets[j]].arg = ticket[tickets[i]].arg }

NextAlike(i) ==
  LET alike == { j \in (i + 1)..Len(tickets) :
                   IsTimeout(tickets[j]) /\ ticket[tickets[j]].arg = ticket[tickets[i]].arg }
  IN  { j \in alike : \A k \in alike : j <= k }

\* The ages after waiter_synchronize: in list order, the start of a timeout is
\* handed to the next one with the same interval.
SyncedAges ==
  LET ages[i \in 0..Len(tickets)] ==
        IF i = 0 THEN [t \in AnyTicket |-> ticket[t].age]
        ELSE IF IsTimeout(tickets[i]) /\ NextAlike(i) # {}
        THEN [ages[i - 1] EXCEPT ![tickets[CHOOSE j \in NextAlike(i) : TRUE]] =
                                    ages[i - 1][tickets[i]]]
        ELSE ages[i - 1]
  IN  ages[Len(tickets)]

\* waiter_synchronize.
Synchronize ==
  /\ ~ waiting
  /\ ticket' = [t \in AnyTicket |-> [ticket[t] EXCEPT !.age = SyncedAges[t]]]
  /\ UNCHANGED <<tickets, count, size, pending, waiting>>

-----------------------------------------------------------------------------
(* Waiting.                                                                *)

\* The poll set, in list order, and the descriptor pollset_wait names as cause:
\* the first ready one.
PollSet == SelectSeq(tickets, LAMBDA t : IsFd(t))

Ready == { i \in DOMAIN PollSet : pending[ticket[PollSet[i]].arg] > 0 }

Causes == { ticket[PollSet[i]].arg : i \in { j \in Ready : \A k \in Ready : j <= k } }

\* The second loop of waiter_wait: trigger what is due, for the descriptors in
\* `cause`.  A callback clears its ticket again.
TriggeredOnlyByPoll(t, cause) ==
  IF (Due(t) /\ cause = {}) \/ (IsFd(t) /\ ticket[t].arg \in cause)
  THEN [ticket[t] EXCEPT !.updated = t \notin Handled, !.age = IF Due(t) THEN 0 ELSE @]
  ELSE ticket[t]

Triggered(t, cause) ==
  IF Due(t) \/ (IsFd(t) /\ ticket[t].arg \in cause)
  THEN [ticket[t] EXCEPT !.updated = t \notin Handled, !.age = IF Due(t) THEN 0 ELSE @]
  ELSE ticket[t]

Answered(cause) ==
  { f \in cause : \E t \in Handled \cap Listed : IsFd(t) /\ ticket[t].arg = f }

\* waiter_wait returns: a timeout was due when it was called or ran out during
\* poll (cause is empty), or a descriptor is ready, with timeouts that have run
\* out meanwhile triggered as well.  Inside waiter_wait_timeout the temporary
\* ticket is removed.
Return(cause) ==
  /\ ticket' = [t \in AnyTicket |->
                  IF t = Temp THEN Blank
                  ELSE IF t \in Listed THEN Triggered(t, cause) ELSE ticket[t]]
  /\ pending' = [f \in Fds |-> IF f \in Answered(cause) THEN pending[f] - 1 ELSE pending[f]]
  /\ tickets' = IF waiting THEN Unlinked(Temp) ELSE tickets
  /\ count' = IF waiting THEN count - 1 ELSE count
  /\ waiting' = FALSE
  /\ UNCHANGED size

Wait ==
  \/ (\E t \in Listed : Due(t)) /\ Return({})
  \/ Ready # {} /\ Return(Causes)

\* poll fails, on a signal: waiter_wait returns at once, and waiter_wait_timeout
\* takes its ticket back.
InterruptedUncounted ==
  /\ waiting
  /\ tickets' = Unlinked(Temp)
  /\ ticket' = [ticket EXCEPT ![Temp] = Blank]
  /\ waiting' = FALSE
  /\ UNCHANGED <<count, size, pending>>

Interrupted ==
  /\ waiting
  /\ tickets' = Unlinked(Temp)
  /\ ticket' = [ticket EXCEPT ![Temp] = Blank]
  /\ count' = count - 1
  /\ waiting' = FALSE
  /\ UNCHANGED <<size, pending>>

\* waiter_wait_timeout, up to its waiter_wait.  The poll set must exist: the
\* temporary ticket does not create it.
WaitTimeoutUnarmed(ms) ==
  /\ ~ waiting
  /\ size > 0
  /\ tickets' = Append(tickets, Temp)
  /\ count' = count + 1
  /\ waiting' = TRUE
  /\ UNCHANGED <<ticket, size, pending>>

WaitTimeout(ms) ==
  /\ ~ waiting
  /\ size > 0
  /\ tickets' = Append(tickets, Temp)
  /\ ticket' = [ticket EXCEPT ![Temp] = [Blank EXCEPT !.type = "timeout", !.arg = ms]]
  /\ count' = count + 1
  /\ waiting' = TRUE
  /\ UNCHANGED <<size, pending>>

-----------------------------------------------------------------------------
(* Time and packets.                                                       *)

Older(age) == IF age < MaxAge THEN age + 1 ELSE MaxAge

Tick ==
  /\ ticket' = [t \in AnyTicket |->
                  IF IsTimeout(t) THEN [ticket[t] EXCEPT !.age = Older(@)] ELSE ticket[t]]
  /\ UNCHANGED <<tickets, count, size, pending, waiting>>

Arrive(f) ==
  /\ pending[f] < MaxPending
  /\ pending' = [pending EXCEPT ![f] = @ + 1]
  /\ UNCHANGED <<tickets, ticket, count, size, waiting>>

Init ==
  /\ tickets = << >>
  /\ ticket = [t \in AnyTicket |-> Blank]
  /\ count = 0 /\ size = 0
  /\ pending = [f \in Fds |-> 0]
  /\ waiting = FALSE

Kinds == ({"null"} \X {0}) \cup ({"fd"} \X Fds) \cup ({"timeout"} \X Intervals)

Next ==
  \/ \E t \in Tickets, k \in Kinds : Add(t, k[1], k[2]) \/ Set(t, k[1], k[2])
  \/ \E t \in Tickets : Delete(t) \/ Clear(t)
  \/ \E ms \in Intervals : WaitTimeout(ms)
  \/ Synchronize \/ Wait \/ Interrupted \/ Tick
  \/ \E f \in Fds : Arrive(f)

Spec == Init /\ [][Next]_vars

\* The program keeps calling waiter_wait, which returns when it can, and time
\* passes.
FairSpec == Spec /\ WF_vars(Wait) /\ WF_vars(Tick)

-----------------------------------------------------------------------------
(* Properties.                                                             *)

\* Type invariant; w->count is the length of the list, and all of it but the
\* temporary ticket belongs to the program.
TypeOK ==
  /\ tickets \in Seq(AnyTicket)
  /\ ticket \in [AnyTicket -> [type : {"null", "fd", "timeout"}, arg : Fds \cup Intervals \cup {0},
                         age : 0..MaxAge, updated : BOOLEAN]]
  /\ count \in Nat /\ count = Len(tickets)
  /\ IsInjective(tickets) /\ (Temp \in Listed <=> waiting)
  /\ size \in Nat
  /\ pending \in [Fds -> 0..MaxPending]
  /\ waiting \in BOOLEAN

\* pollset_add_fd has no bound check (waiter.c:67): however tickets are added,
\* deleted and turned into descriptor tickets, and although the poll set only
\* grows at every Chunk-th addition, it has a place for every ticket the program
\* has added and not deleted.
Added == IF waiting THEN count - 1 ELSE count

PollsetFits == Added <= size

\* "Synchronize timer-based tickets" (waiter.h): called in any state,
\* waiter_synchronize leaves all timeouts with one interval due together, whatever
\* tickets stand between them in the list.
DueTogether ==
  \A s, t \in Listed :
     IsTimeout(s) /\ IsTimeout(t) /\ ticket[s].arg = ticket[t].arg
       => SyncedAges[s] = SyncedAges[t]

\* A timeout that is due is triggered, also under a stream of packets.
DueIsServed == \A t \in Tickets : (t \in Listed /\ Due(t)) ~> ~ (t \in Listed /\ Due(t))

\* waiter_wait_timeout returns, also when no descriptor ever becomes ready.
TimeoutReturns == waiting ~> ~ waiting
=============================================================================
