----------------------------- MODULE QueueShop -----------------------------
(***************************************************************************)
(* The QueueShop Durable Object: the single-writer actor that owns the     *)
(* tickets and the push subscriptions, serves the queue actions of staff   *)
(* and customers, and runs the four-tick alarm sweep                       *)
(* (apps/default/src/server/durableObjects/QueueShop.ts with the use cases *)
(* of packages/core/src/application/usecases/queue).                       *)
(*                                                                         *)
(* A dispatched action is one step: between its load and its save nothing  *)
(* else runs.  The sweep is several steps, because Tick 2 awaits the push  *)
(* service: while it does, any request may be served, time passes, and the *)
(* object may be evicted.                                                  *)
(***************************************************************************)
EXTENDS Projection

CONSTANTS
  TicketIds,           \* ids a ULID generator may mint
  Endpoints,           \* push endpoints a browser may register
  IssueForms,          \* <<lane, appointmentAt>> pairs the issue form submits
  RescheduleTargets,   \* instants a customer may move a booking to
  MaxTime,             \* bound on the clock
  OverdueAfterCalled,  \* OVERDUE_AFTER_CALLED_SECONDS
  NudgeInterval,       \* NUDGE_INTERVAL_SECONDS
  MaxNudges,           \* MAX_NUDGES
  AppointmentGrace,    \* APPOINTMENT_GRACE_SECONDS
  FallbackReArm,       \* ALARM_FALLBACK_RE_ARM_SECONDS
  CallGrace,           \* DEFAULT_GRACE_MINUTES of CallNext
  CheckInWindow,       \* CHECK_IN_WINDOW_MINUTES
  Granularity,         \* width of a booking slot
  SlotCapacity,        \* bookings a slot holds
  PushEnabled          \* the three VAPID variables are set

ASSUME QueueShopAssumption ==
  /\ IssueForms \subseteq Lane \X (Instant \cup {None})
  /\ RescheduleTargets \subseteq Instant
  /\ {MaxTime, OverdueAfterCalled, NudgeInterval, AppointmentGrace,
      CallGrace, CheckInWindow, SlotCapacity, MaxNudges} \subseteq Nat
  /\ {FallbackReArm, Granularity} \subseteq Nat \ {0}
  /\ PushEnabled \in BOOLEAN
  /\ None \notin TicketIds

VARIABLES
  now,      \* the clock
  tickets,  \* the tickets table: a row per issued id
  subs,     \* the push_subscriptions table: endpoints per ticket
  alarmAt,  \* the pending alarm, or None
  sweepAt,  \* the instant the running sweep took its cutoffs at, or None
  toNudge,  \* Tick 2 candidates not yet handled, as they were selected
  fan       \* the push fan-out in flight, or None

vars == << now, tickets, subs, alarmAt, sweepAt, toNudge, fan >>
sweepVars == << sweepAt, toNudge, fan >>

Candidate == [id : TicketIds, prior : Nat]

FanOut == [id        : TicketIds,
           next      : Nat,              \* the count its payload announces
           pending   : SUBSET Endpoints, \* subscriptions still to be sent to
           delivered : BOOLEAN]          \* some send was accepted

ASSUME NoFanOutAssumption == None \notin FanOut

\* Every variable has its type, and no row keeps a field its variant does
\* not declare: a recalled ticket carries no counters into the Waiting row.
TypeOK ==
  /\ now \in Instant
  /\ tickets \in [TicketIds -> Ticket \cup {None}]
  /\ subs \in [TicketIds -> SUBSET Endpoints]
  /\ alarmAt \in Instant \cup {None}
  /\ sweepAt \in Instant \cup {None}
  /\ toNudge \in SUBSET Candidate
  /\ fan \in FanOut \cup {None}
  /\ \A i \in TicketIds : tickets[i] # None => VariantShape(tickets[i])

Init ==
  /\ now = 0
  /\ tickets = [i \in TicketIds |-> None]
  /\ subs = [i \in TicketIds |-> {}]
  /\ alarmAt = None
  /\ sweepAt = None
  /\ toNudge = {}
  /\ fan = None

InSt(i, states) == tickets[i] # None /\ tickets[i].state \in states

Active(i) == InSt(i, {"Waiting", "Called", "Overdue"})

Terminal(i) == InSt(i, TERMINAL_TICKET_STATES)

-----------------------------------------------------------------------------
(* What every successful dispatch does after the use case: release the     *)
(* subscriptions of the tickets it closed, and arm the alarm if none is.   *)

reapTerminalSubscriptions(new) ==
  [i \in TicketIds |->
     IF new[i] # tickets[i] /\ new[i].state \in TERMINAL_TICKET_STATES
     THEN {} ELSE subs[i]]

\* Slip: the alarm is left to arm itself.
neverArmed == alarmAt

ensureAlarmArmed == IF alarmAt = None THEN now + FallbackReArm ELSE alarmAt

dispatch(new) ==
  /\ tickets' = new
  /\ subs' = reapTerminalSubscriptions(new)
  /\ alarmAt' = ensureAlarmArmed
  /\ UNCHANGED now

\* A request to the actor that the use case answers with one new row.
Request(i, row) ==
  /\ dispatch([tickets EXCEPT ![i] = row])
  /\ UNCHANGED sweepVars

-----------------------------------------------------------------------------
(* Queue actions.  A use case that fails changes nothing, so its guards    *)
(* are conjuncts.  A customer's action is that of the ticket's own holder: *)
(* authenticateCustomer refuses every other handle.                        *)

IssueTicket(i, h, form) ==
  /\ tickets[i] = None
  /\ findActiveByHandle(tickets, h) = {}
  /\ Request(i, applyIssue(form[1], h, nextDisplaySeq(tickets), form[2], now).ticket)

\* A second issue by a holder of an active ticket returns that ticket.
MergeIssue(h) ==
  /\ findActiveByHandle(tickets, h) # {}
  /\ dispatch(tickets)
  /\ UNCHANGED sweepVars

\* The head of the named lane, or else the next callable ticket; it is
\* loaded again, and anything but a waiting ticket counts as an empty queue.
CallNext(lane) ==
  \E next \in TicketIds :
    /\ next = IF lane # None THEN headOfLane(tickets, lane)
              ELSE nextCallable(tickets, now, CallGrace)
    /\ InSt(next, {"Waiting"})
    /\ Request(next, applyCall(tickets[next], now).ticket)

CallSpecific(i) ==
  /\ InSt(i, {"Waiting"})
  /\ Request(i, applyCall(tickets[i], now).ticket)

\* All members are called or, when one of them is not waiting, none is.
CallBatch(ids) ==
  /\ \A i \in ids : InSt(i, {"Waiting"})
  /\ dispatch([i \in TicketIds |-> IF i \in ids
                                   THEN applyCall(tickets[i], now).ticket
                                   ELSE tickets[i]])
  /\ UNCHANGED sweepVars

\* A list naming a waiting ticket twice: the members before the repetition
\* are saved, then its second event collides with the first on (ticket, seq).
\* The request fails, so nothing is reaped and no alarm armed.
CallBatchRepeating(ids) ==
  /\ \A i \in ids : InSt(i, {"Waiting"})
  /\ tickets' = [i \in TicketIds |-> IF i \in ids
                                     THEN applyCall(tickets[i], now).ticket
                                     ELSE tickets[i]]
  /\ UNCHANGED << now, subs, alarmAt, sweepVars >>

MarkServed(i) ==
  /\ InSt(i, {"Called", "Overdue"})
  /\ Request(i, applyMarkServed(tickets[i], now, "staff").ticket)

MarkNoShow(i) ==
  /\ InSt(i, {"Called", "Overdue"})
  /\ Request(i, applyMarkNoShow(tickets[i], now, "staff").ticket)

Recall(i) ==
  /\ InSt(i, {"Called", "Overdue"})
  /\ Request(i, applyRecall(tickets[i], now).ticket)

CancelTicket(i, by) ==
  /\ Active(i)
  /\ Request(i, applyCancel(tickets[i], now, by).ticket)

CheckIn(i) ==
  /\ InSt(i, {"Waiting"})
  /\ tickets[i].appointmentAt # None
  /\ now >= tickets[i].appointmentAt - CheckInWindow
  /\ Request(i, applyCheckIn(tickets[i], now).ticket)

\* The start of the slot an instant falls in: intervalOf(bucketOf(at)).
SlotStart(at) == (at \div Granularity) * Granularity

RescheduleTicket(i, at) ==
  /\ Active(i)
  /\ tickets[i].lane = "reservation"
  /\ tickets[i].appointmentAt # None
  /\ at >= now
  /\ IF at = tickets[i].appointmentAt
     THEN dispatch(tickets) /\ UNCHANGED sweepVars
     ELSE /\ occupancyExcludingSelf(tickets, i, SlotStart(at)) < SlotCapacity
          /\ Request(i, applyReschedule(tickets[i], at, now).ticket)

\* Slip: the terminal-state refusal is missing.
registerAnyTicket(i, e) ==
  /\ tickets[i] # None
  /\ subs' = [subs EXCEPT ![i] = @ \cup {e}]
  /\ UNCHANGED << now, tickets, alarmAt, sweepVars >>

registerPushSubscription(i, e) ==
  /\ Active(i)
  /\ subs' = [subs EXCEPT ![i] = @ \cup {e}]
  /\ UNCHANGED << now, tickets, alarmAt, sweepVars >>

unregisterPushSubscription(i, e) ==
  /\ tickets[i] # None
  /\ subs' = [subs EXCEPT ![i] = @ \ {e}]
  /\ UNCHANGED << now, tickets, alarmAt, sweepVars >>

-----------------------------------------------------------------------------
(* The alarm sweep.  Each tick selects its rows against cutoffs taken from *)
(* `at`, the instant the sweep began; the inequalities are strict.         *)

OverdueDue(at) ==  \* Tick 1
  {i \in InState(tickets, {"Called"}) :
     tickets[i].calledAt + OverdueAfterCalled < at}

\* Slip: the cap is compared with <= instead of <.
NudgeDueOncePastCap(snap, at) ==
  {i \in InState(snap, {"Overdue"}) :
     /\ snap[i].nudgeCount <= MaxNudges
     /\ \/ snap[i].lastNudgedAt = None
        \/ snap[i].lastNudgedAt + NudgeInterval < at}

NudgeDue(snap, at) ==  \* Tick 2
  {i \in InState(snap, {"Overdue"}) :
     /\ snap[i].nudgeCount < MaxNudges
     /\ \/ snap[i].lastNudgedAt = None
        \/ snap[i].lastNudgedAt + NudgeInterval < at}

\* Slip: the cap is compared with > instead of >=.
NoShowDuePastCap(at) ==
  {i \in InState(tickets, {"Overdue"}) :
     /\ tickets[i].nudgeCount > MaxNudges
     /\ tickets[i].lastNudgedAt # None
     /\ tickets[i].lastNudgedAt + NudgeInterval < at}

\* Slip: no last interval to react in after the last nudge.
NoShowDueAtCap(at) ==
  {i \in InState(tickets, {"Overdue"}) : tickets[i].nudgeCount >= MaxNudges}

NoShowDue(at) ==  \* Tick 3
  {i \in InState(tickets, {"Overdue"}) :
     /\ tickets[i].nudgeCount >= MaxNudges
     /\ tickets[i].lastNudgedAt # None
     /\ tickets[i].lastNudgedAt + NudgeInterval < at}

\* Slip: the boundary instant counts as past the grace.
LapseDueAtGrace(at) ==
  {i \in InState(tickets, {"Waiting"}) :
     /\ tickets[i].lane = "reservation"
     /\ tickets[i].appointmentAt # None
     /\ tickets[i].appointmentAt + AppointmentGrace <= at}

LapseDue(at) ==  \* Tick 4
  {i \in InState(tickets, {"Waiting"}) :
     /\ tickets[i].lane = "reservation"
     /\ tickets[i].appointmentAt # None
     /\ tickets[i].appointmentAt + AppointmentGrace < at}

\* The runtime delivers the alarm, perhaps late and never twice at once.
\* Tick 1 promotes, Tick 2 selects; a dispatch in between arms an alarm.
AlarmBegin ==
  /\ alarmAt # None
  /\ alarmAt <= now
  /\ sweepAt = None
  /\ LET due == OverdueDue(now)
         new == [i \in TicketIds |-> IF i \in due
                   THEN applyMoveToOverdue(tickets[i], now).ticket
                   ELSE tickets[i]]
     IN  /\ tickets' = new
         /\ alarmAt' = IF due = {} THEN None ELSE now + FallbackReArm
         /\ toNudge' = {[id |-> i, prior |-> new[i].nudgeCount] :
                           i \in NudgeDue(new, now)}
  /\ sweepAt' = now
  /\ UNCHANGED << now, subs, fan >>

\* Slips: the state is not checked again after the await; or only terminal
\* states are refused.
NudgeUnchecked(i) ==
  dispatch([tickets EXCEPT ![i] = applyNudge(tickets[i], now).ticket])

NudgeIfActive(i) ==
  IF Active(i)
  THEN dispatch([tickets EXCEPT ![i] = applyNudge(tickets[i], now).ticket])
  ELSE UNCHANGED << now, tickets, subs, alarmAt >>

\* The Nudge use case for one candidate: refused unless still Overdue.
Nudge(i) ==
  IF InSt(i, {"Overdue"})
  THEN dispatch([tickets EXCEPT ![i] = applyNudge(tickets[i], now).ticket])
  ELSE UNCHANGED << now, tickets, subs, alarmAt >>

\* No subscription to push to: the nudge goes out on the WebSocket alone.
NudgeByWebSocket(c) ==
  /\ c \in toNudge
  /\ fan = None
  /\ subs[c.id] = {} \/ ~PushEnabled
  /\ Nudge(c.id)
  /\ toNudge' = toNudge \ {c}
  /\ UNCHANGED << sweepAt, fan >>

\* Slip: the payload announces the count before the increment.
fanOutPriorCount(c) ==
  /\ c \in toNudge
  /\ fan = None
  /\ subs[c.id] # {} /\ PushEnabled
  /\ fan' = [id |-> c.id, next |-> c.prior,
             pending |-> subs[c.id], delivered |-> FALSE]
  /\ toNudge' = toNudge \ {c}
  /\ UNCHANGED << now, tickets, subs, alarmAt, sweepAt >>

\* Otherwise it is pushed to the subscriptions listed now.
fanOutPush(c) ==
  /\ c \in toNudge
  /\ fan = None
  /\ subs[c.id] # {} /\ PushEnabled
  /\ fan' = [id |-> c.id, next |-> c.prior + 1,
             pending |-> subs[c.id], delivered |-> FALSE]
  /\ toNudge' = toNudge \ {c}
  /\ UNCHANGED << now, tickets, subs, alarmAt, sweepAt >>

\* The push service answers one send; a subscription it no longer knows is
\* dropped.
PushAnswer(e, outcome) ==
  /\ fan # None
  /\ e \in fan.pending
  /\ fan' = [fan EXCEPT !.pending = @ \ {e},
                        !.delivered = @ \/ outcome = "delivered"]
  /\ subs' = IF outcome = "subscriptionGone"
             THEN [subs EXCEPT ![fan.id] = @ \ {e}] ELSE subs
  /\ UNCHANGED << now, tickets, alarmAt, sweepAt, toNudge >>

\* Every send was answered; the nudge is recorded, on the push channel if
\* one was delivered and on the WebSocket channel if none was.
NudgeAfterFanOut ==
  /\ fan # None
  /\ fan.pending = {}
  /\ Nudge(fan.id)
  /\ fan' = None
  /\ UNCHANGED << sweepAt, toNudge >>

\* Slip: the sweep waits as long as its longest interval.
ReArmLongest == CHOOSE s \in {OverdueAfterCalled, NudgeInterval, AppointmentGrace, FallbackReArm} :
                \A r \in {OverdueAfterCalled, NudgeInterval, AppointmentGrace, FallbackReArm} : s >= r

ReArm == CHOOSE s \in {OverdueAfterCalled, NudgeInterval, AppointmentGrace, FallbackReArm} :
           \A r \in {OverdueAfterCalled, NudgeInterval, AppointmentGrace, FallbackReArm} : s <= r

\* Ticks 3 and 4, then the alarm is armed again.
AlarmEnd ==
  /\ sweepAt # None
  /\ toNudge = {} /\ fan = None
  /\ LET noShow == NoShowDue(sweepAt)
         lapsed == LapseDue(sweepAt)
         new == [i \in TicketIds |->
                   IF i \in noShow
                   THEN applyMarkNoShow(tickets[i], now, "system").ticket
                   ELSE IF i \in lapsed
                   THEN applyLapseAppointment(tickets[i], now).ticket
                   ELSE tickets[i]]
     IN  /\ tickets' = new
         /\ subs' = reapTerminalSubscriptions(new)
  /\ alarmAt' = now + ReArm
  /\ sweepAt' = None
  /\ UNCHANGED << now, toNudge, fan >>

\* The object is evicted while a sweep is suspended: its locals are gone.
\* The runtime delivers an unfinished alarm again, unless one set meanwhile
\* replaced it.
Evict ==
  /\ sweepAt # None
  /\ alarmAt' \in {now} \cup ({alarmAt} \ {None})
  /\ sweepAt' = None
  /\ toNudge' = {}
  /\ fan' = None
  /\ UNCHANGED << now, tickets, subs >>

-----------------------------------------------------------------------------
Tick ==
  /\ now < MaxTime
  /\ now' = now + 1
  /\ UNCHANGED << tickets, subs, alarmAt, sweepVars >>

StaffAction ==
  \/ \E lane \in Lane \cup {None} : CallNext(lane)
  \/ \E ids \in (SUBSET TicketIds) \ {{}} : CallBatch(ids) \/ CallBatchRepeating(ids)
  \/ \E i \in TicketIds : \/ CallSpecific(i)
                          \/ MarkServed(i)
                          \/ MarkNoShow(i)
                          \/ Recall(i)
                          \/ CancelTicket(i, "staff")

CustomerAction ==
  \/ \E h \in Handles : \/ MergeIssue(h)
                        \/ \E i \in TicketIds, form \in IssueForms :
                             IssueTicket(i, h, form)
  \/ \E i \in TicketIds : \/ CancelTicket(i, "customer")
                          \/ CheckIn(i)
                          \/ \E at \in RescheduleTargets : RescheduleTicket(i, at)
                          \/ \E e \in Endpoints :
                               \/ registerPushSubscription(i, e)
                               \/ unregisterPushSubscription(i, e)

SweepAction ==
  \/ AlarmBegin
  \/ \E c \in toNudge : NudgeByWebSocket(c) \/ fanOutPush(c)
  \/ \E e \in Endpoints,
        outcome \in {"delivered", "subscriptionGone", "failed"} :
          PushAnswer(e, outcome)
  \/ NudgeAfterFanOut
  \/ AlarmEnd

Next == StaffAction \/ CustomerAction \/ SweepAction \/ Evict \/ Tick

Spec == Init /\ [][Next]_vars

-----------------------------------------------------------------------------
(* Safety.                                                                 *)

\* (nameKana, phoneLast4) is the primary key of the active set (ADR-0069,
\* uq_tickets_handle_active): however issue, recall, cancel and re-issue
\* interleave, one holder never has two active tickets.
ActiveHandleUnique ==
  \A i, j \in TicketIds :
    Active(i) /\ Active(j) /\ i # j => tickets[i].handle # tickets[j].handle

\* A display number names one ticket for good (ADR-0080): numbers of closed
\* tickets and of the other lane are never handed out again.
DisplaySeqUnique ==
  \A i, j \in TicketIds :
    tickets[i] # None /\ tickets[j] # None /\ i # j
      => tickets[i].displaySeq # tickets[j].displaySeq

\* A closed ticket holds no push subscription (ADR-0074), whichever of the
\* closing dispatch, a registration and a fan-out in flight comes last.
TerminalHoldsNoSubscription ==
  \A i \in TicketIds : Terminal(i) => subs[i] = {}

\* While a ticket is active the sweep is pending or running: no order of
\* requests, sweeps and evictions leaves a called customer without an alarm.
ActiveKeepsAlarm ==
  (\E i \in TicketIds : Active(i)) => alarmAt # None \/ sweepAt # None

\* The count a push payload announces is the count the Nudged event then
\* records (pushKindFor's contract): the row read before the await has not
\* gone stale unless the ticket left Overdue, in which case nothing is
\* recorded.
PushAnnouncesRecordedCount ==
  fan # None /\ InSt(fan.id, {"Overdue"})
    => fan.next = tickets[fan.id].nudgeCount + 1

\* No ticket is nudged more often than MAX_NUDGES, and n nudges take n - 1
\* full intervals: a candidate selected before an await is never nudged twice.
NudgeSchedule ==
  \A i \in TicketIds : InSt(i, {"Overdue"}) =>
    LET t == tickets[i]
    IN  /\ t.nudgeCount <= MaxNudges
        /\ t.overdueAt > t.calledAt + OverdueAfterCalled
        /\ t.nudgeCount > 0 =>
             t.lastNudgedAt >= t.overdueAt + (t.nudgeCount - 1) * (NudgeInterval + 1)

(* What makes the properties above inductive.                              *)

\* The call, promotion and nudge instants of a row are in order and past.
RowTimes ==
  \A i \in TicketIds :
    /\ InSt(i, {"Called", "Overdue"}) =>
         tickets[i].calledAt # None /\ tickets[i].calledAt <= now
    /\ InSt(i, {"Overdue"}) =>
         /\ tickets[i].overdueAt # None /\ tickets[i].overdueAt <= now
         /\ tickets[i].nudgeCount = 0 <=> tickets[i].lastNudgedAt = None
         /\ tickets[i].nudgeCount > 0 => tickets[i].lastNudgedAt <= now

\* The sweep's locals: one selection per ticket, none outside a sweep.
SweepLocals ==
  /\ sweepAt = None => toNudge = {} /\ fan = None
  /\ sweepAt # None => sweepAt <= now
  /\ \A c, d \in toNudge : c.id = d.id => c = d
  /\ fan # None => \A c \in toNudge : c.id # fan.id

\* What the SELECT of Tick 2 found still holds of a row, or it left Overdue.
StillDue(i, count) ==
  InSt(i, {"Overdue"}) =>
    /\ tickets[i].nudgeCount = count
    /\ count < MaxNudges
    /\ count > 0 => tickets[i].lastNudgedAt + NudgeInterval < sweepAt

SelectionFresh ==
  /\ \A c \in toNudge : StillDue(c.id, c.prior)
  /\ fan # None => StillDue(fan.id, fan.next - 1)

\* The sweep's selections never go stale in a way its steps would act on:
\* the inductive invariant behind the nudge schedule and the NoShow deadline.
IInv ==
  /\ TypeOK
  /\ RowTimes
  /\ NudgeSchedule
  /\ SweepLocals
  /\ SelectionFresh
  /\ TerminalHoldsNoSubscription

\* The sweep closes a ticket as NoShow only after all its nudges and one more
\* interval: since the call, the customer had more than the promotion delay
\* and MaxNudges full nudge intervals.
SystemNoShowNotEarly ==
  [][\A i \in TicketIds :
       /\ InSt(i, {"Called", "Overdue"})
       /\ tickets'[i].state = "NoShow"
       /\ tickets'[i].closedBy = "system"
       => /\ tickets[i].nudgeCount = MaxNudges
          /\ now > tickets[i].calledAt + OverdueAfterCalled
                     + MaxNudges * (NudgeInterval + 1)]_vars

\* The sweep cancels only a reservation still waiting more than the grace
\* after the instant it is booked for now, reschedules included (ADR-0075).
LapseOnlyAfterGrace ==
  [][\A i \in TicketIds :
       /\ Active(i)
       /\ tickets'[i].state = "Cancelled"
       /\ tickets'[i].closedBy = "system"
       => /\ tickets[i].state = "Waiting"
          /\ tickets[i].lane = "reservation"
          /\ now > tickets[i].appointmentAt + AppointmentGrace]_vars

\* Nothing reopens or rewrites a closed ticket, a nudge decided on before it
\* was closed included.
TerminalAbsorbing ==
  [][\A i \in TicketIds : Terminal(i) => tickets'[i] = tickets[i]]_vars

\* A request that lands while a fan-out is awaited is never undone by what
\* the sweep does after the await: a ticket that left Overdue is not put
\* back into it by that nudge.
NudgeKeepsState ==
  [][fan # None /\ fan' = None =>
       \A i \in TicketIds : tickets[i] # None =>
         tickets'[i].state = tickets[i].state]_vars

(* Claims of the code's own commentary that the code does not keep.        *)

\* "Returns null when the snapshot has no Waiting ticket" and only then
\* (nextCallable, whose fallback is said to be unreachable).
NextCallableFindsWaiting ==
  (\E i \in TicketIds : InSt(i, {"Waiting"}))
    => nextCallable(tickets, now, CallGrace) # None

\* "Push is sent before the Nudged event is appended so a 100% push-service
\* outage does not advance nudgeCount" (QueueShop.ts, Tick 2).
OutageNeverAdvancesCount ==
  [][fan # None /\ fan' = None /\ sweepAt' # None /\ ~fan.delivered
       => tickets' = tickets]_vars

=============================================================================
