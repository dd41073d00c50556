------------------------------ MODULE Tickets ------------------------------
(***************************************************************************)
(* The ticket aggregate: its rows, the total state transitions of          *)
(* packages/core/src/domain/queue/transitions.ts and the event fold of     *)
(* packages/core/src/domain/queue/projection.ts.                           *)
(*                                                                         *)
(* The tagged union Waiting | Called | Overdue | Served | NoShow |         *)
(* Cancelled is one record whose variant-only fields are None (nudgeCount: *)
(* 0) outside their variant, which is the shape the tickets table gives it.*)
(* Instants are natural numbers.  Free text, audit ids and the call actor  *)
(* are left out: no property tells two of their values apart.              *)
(***************************************************************************)
EXTENDS Integers, Sequences

CONSTANTS Handles,  \* the (nameKana, phoneLast4) pairs customers identify by
          None      \* null

Lane == {"walkIn", "reservation"}

\* Lanes in the order a call without a lane consumes them.
PREFERRED_LANE_CHAIN == << "walkIn", "reservation" >>

Actor == {"customer", "staff", "system"}

ASSUME NoneAssumption == None \notin Int \cup Actor \cup Lane

TERMINAL_TICKET_STATES == {"Served", "NoShow", "Cancelled"}

TicketState == {"Waiting", "Called", "Overdue"} \cup TERMINAL_TICKET_STATES

Instant == Nat

Ticket ==
  [lane          : Lane,
   handle        : Handles,
   displaySeq    : Nat,
   appointmentAt : Instant \cup {None},
   checkedInAt   : Instant \cup {None},
   state         : TicketState,
   calledAt      : Instant \cup {None},
   overdueAt     : Instant \cup {None},
   lastNudgedAt  : Instant \cup {None},
   nudgeCount    : Nat,
   closedBy      : Actor \cup {None}]  \* servedBy, markedBy or cancelledBy

ASSUME NoTicketAssumption == None \notin Ticket

\* The fields a variant does not declare are absent.
VariantShape(t) ==
  /\ t.state \in {"Waiting", "Cancelled"} => t.calledAt = None
  /\ t.state # "Overdue" => /\ t.overdueAt = None
                            /\ t.lastNudgedAt = None
                            /\ t.nudgeCount = 0
  /\ t.state \notin TERMINAL_TICKET_STATES => t.closedBy = None

isActiveForHandle(t) == t.state \in {"Waiting", "Called", "Overdue"}

-----------------------------------------------------------------------------
(* Events.  occurredAt is recordedAt: no use case backdates.               *)

IssuedEvent ==
  [type : {"Issued"}, at : Instant, lane : Lane, handle : Handles,
   displaySeq : Nat, appointmentAt : Instant \cup {None}]

CalledEvent == [type : {"Called"}, at : Instant]

\* Only in old logs: nothing emits it any more (ADR-0071).
ServingStartedEvent == [type : {"ServingStarted"}, at : Instant]

MovedToOverdueEvent == [type : {"MovedToOverdue"}, at : Instant]

\* nudgeCount is the count with this nudge.
NudgedEvent == [type : {"Nudged"}, at : Instant, nudgeCount : Nat \ {0}]

AppointmentLapsedEvent ==
  [type : {"AppointmentLapsed"}, at : Instant, by : {"system"}]

ServedEvent == [type : {"Served"}, at : Instant, by : Actor]

NoShowedEvent == [type : {"NoShowed"}, at : Instant, by : Actor]

CancelledEvent == [type : {"Cancelled"}, at : Instant, by : Actor]

RecalledEvent == [type : {"Recalled"}, at : Instant]

CheckedInEvent == [type : {"CheckedIn"}, at : Instant]

RescheduledEvent == [type : {"Rescheduled"}, at : Instant, to : Instant]

TicketEvent ==
  IssuedEvent \cup CalledEvent \cup ServingStartedEvent
    \cup MovedToOverdueEvent \cup NudgedEvent \cup AppointmentLapsedEvent
    \cup ServedEvent \cup NoShowedEvent \cup CancelledEvent
    \cup RecalledEvent \cup CheckedInEvent \cup RescheduledEvent

-----------------------------------------------------------------------------
(* State transitions.  Each returns the next ticket and the event that     *)
(* records it, minted together (ApplyResult).  A transition is total: the  *)
(* use cases check the source state before they call it.                   *)

\* The fields every variant shares; the variant-only ones are dropped.
common(t) == [t EXCEPT !.calledAt = None, !.overdueAt = None,
                       !.lastNudgedAt = None, !.nudgeCount = 0,
                       !.closedBy = None]

ApplyResult(t, e) == [ticket |-> t, event |-> e]

applyIssue(lane, handle, displaySeq, appointmentAt, at) ==
  ApplyResult(
    [lane |-> lane, handle |-> handle, displaySeq |-> displaySeq,
     appointmentAt |-> appointmentAt, checkedInAt |-> None,
     state |-> "Waiting", calledAt |-> None, overdueAt |-> None,
     lastNudgedAt |-> None, nudgeCount |-> 0, closedBy |-> None],
    [type |-> "Issued", at |-> at, lane |-> lane, handle |-> handle,
     displaySeq |-> displaySeq, appointmentAt |-> appointmentAt])

applyCall(t, at) ==
  ApplyResult([common(t) EXCEPT !.state = "Called", !.calledAt = at],
              [type |-> "Called", at |-> at])

applyMoveToOverdue(t, at) ==
  ApplyResult([common(t) EXCEPT !.state = "Overdue",
                                !.calledAt = t.calledAt, !.overdueAt = at],
              [type |-> "MovedToOverdue", at |-> at])

applyNudge(t, at) ==
  ApplyResult([common(t) EXCEPT !.state = "Overdue",
                                !.calledAt = t.calledAt,
                                !.overdueAt = t.overdueAt,
                                !.lastNudgedAt = at,
                                !.nudgeCount = t.nudgeCount + 1],
              [type |-> "Nudged", at |-> at, nudgeCount |-> t.nudgeCount + 1])

applyMarkServed(t, at, by) ==
  ApplyResult([common(t) EXCEPT !.state = "Served",
                                !.calledAt = t.calledAt, !.closedBy = by],
              [type |-> "Served", at |-> at, by |-> by])

applyMarkNoShow(t, at, by) ==
  ApplyResult([common(t) EXCEPT !.state = "NoShow",
                                !.calledAt = t.calledAt, !.closedBy = by],
              [type |-> "NoShowed", at |-> at, by |-> by])

\* Slip: the fields of the variant left behind are spread into the new row.
applyRecallInPlace(t, at) ==
  ApplyResult([t EXCEPT !.state = "Waiting"],
              [type |-> "Recalled", at |-> at])

applyRecall(t, at) ==
  ApplyResult([common(t) EXCEPT !.state = "Waiting"],
              [type |-> "Recalled", at |-> at])

applyCancel(t, at, by) ==
  ApplyResult([common(t) EXCEPT !.state = "Cancelled", !.closedBy = by],
              [type |-> "Cancelled", at |-> at, by |-> by])

applyLapseAppointment(t, at) ==
  ApplyResult([common(t) EXCEPT !.state = "Cancelled", !.closedBy = "system"],
              [type |-> "AppointmentLapsed", at |-> at, by |-> "system"])

\* Overwrites an earlier arrival instant.
applyCheckIn(t, at) ==
  ApplyResult([common(t) EXCEPT !.state = "Waiting", !.checkedInAt = at],
              [type |-> "CheckedIn", at |-> at])

\* Slip: the event records the instant that was left.
applyRescheduleFrom(t, newAppointmentAt, at) ==
  ApplyResult([t EXCEPT !.appointmentAt = newAppointmentAt],
              [type |-> "Rescheduled", at |-> at, to |-> t.appointmentAt])

\* The state and its fields stay; only the booked instant moves.
applyReschedule(t, newAppointmentAt, at) ==
  ApplyResult([t EXCEPT !.appointmentAt = newAppointmentAt],
              [type |-> "Rescheduled", at |-> at, to |-> newAppointmentAt])

-----------------------------------------------------------------------------
(* The event fold.  An event whose source state does not match the prior   *)
(* row is ignored; prior is None before the Issued event.                  *)

In(prior, states) == prior # None /\ prior.state \in states

\* Source states in which the fold honours an event of each type.
Honoured(prior, e) ==
  CASE e.type = "Issued"            -> TRUE
    [] e.type = "Called"            -> In(prior, {"Waiting"})
    [] e.type = "ServingStarted"    -> FALSE
    [] e.type = "MovedToOverdue"    -> In(prior, {"Called"})
    [] e.type = "Nudged"            -> In(prior, {"Overdue"})
    [] e.type = "AppointmentLapsed" -> In(prior, {"Waiting"})
    [] e.type \in {"Served", "NoShowed", "Recalled"}
                                    -> In(prior, {"Called", "Overdue"})
    [] e.type = "Cancelled"         -> In(prior, {"Waiting", "Called", "Overdue"})
    [] e.type = "CheckedIn"         -> /\ In(prior, {"Waiting"})
                                       /\ prior.checkedInAt = None
    [] e.type = "Rescheduled"       -> /\ In(prior, {"Waiting", "Called", "Overdue"})
                                       /\ prior.lane = "reservation"

applyEvent(prior, e) ==
  IF ~Honoured(prior, e) THEN prior
  ELSE CASE e.type = "Issued" ->
              [lane |-> e.lane, handle |-> e.handle,
               displaySeq |-> e.displaySeq,
               appointmentAt |-> e.appointmentAt, checkedInAt |-> None,
               state |-> "Waiting", calledAt |-> None, overdueAt |-> None,
               lastNudgedAt |-> None, nudgeCount |-> 0, closedBy |-> None]
         [] e.type = "Called" ->
              [prior EXCEPT !.state = "Called", !.calledAt = e.at]
         [] e.type = "MovedToOverdue" ->
              [prior EXCEPT !.state = "Overdue", !.overdueAt = e.at,
                            !.lastNudgedAt = None, !.nudgeCount = 0]
         [] e.type = "Nudged" ->
              [prior EXCEPT !.lastNudgedAt = e.at, !.nudgeCount = e.nudgeCount]
         [] e.type \in {"AppointmentLapsed", "Cancelled"} ->
              [common(prior) EXCEPT !.state = "Cancelled", !.closedBy = e.by]
         [] e.type = "Served" ->
              [common(prior) EXCEPT !.state = "Served",
                                    !.calledAt = prior.calledAt,
                                    !.closedBy = e.by]
         [] e.type = "NoShowed" ->
              [common(prior) EXCEPT !.state = "NoShow",
                                    !.calledAt = prior.calledAt,
                                    !.closedBy = e.by]
         [] e.type = "Recalled" ->
              [common(prior) EXCEPT !.state = "Waiting"]
         [] e.type = "CheckedIn" ->
              [prior EXCEPT !.checkedInAt = e.at]
         [] e.type = "Rescheduled" ->
              [prior EXCEPT !.appointmentAt = e.to]

\* applyMany as a fold over the log: the row after its first n events.
replay(prior, log) ==
  LET after[n \in 0..Len(log)] ==
        IF n = 0 THEN prior ELSE applyEvent(after[n - 1], log[n])
  IN  after[Len(log)]

=============================================================================
