--------------------------- MODULE TicketsProofs ---------------------------
(***************************************************************************)
(* Facts about the ticket transitions and the event fold, for every        *)
(* ticket, every instant and every log.                                    *)
(***************************************************************************)
EXTENDS Tickets, TLAPS, WellFoundedInduction

\* Issuing a ticket yields a well-formed waiting ticket.
LEMMA IssueType ==
  ASSUME NEW lane \in Lane, NEW h \in Handles, NEW n \in Nat,
         NEW appt \in Instant \cup {None}, NEW at \in Instant
  PROVE  /\ applyIssue(lane, h, n, appt, at).ticket \in Ticket
         /\ applyIssue(lane, h, n, appt, at).ticket.state = "Waiting"
BY DEF applyIssue, ApplyResult, Ticket, TicketState, TERMINAL_TICKET_STATES

\* The fields a transition keeps, whatever it does to the others.
SameHolder(t, u) ==
  /\ u.lane = t.lane
  /\ u.handle = t.handle
  /\ u.displaySeq = t.displaySeq

\* Every transition of a well-formed ticket yields a well-formed ticket of
\* the same holder.
LEMMA TransitionType ==
  ASSUME NEW t \in Ticket, NEW at \in Instant, NEW by \in Actor, NEW to \in Instant
  PROVE  \A r \in {applyCall(t, at), applyMoveToOverdue(t, at), applyNudge(t, at),
                   applyMarkServed(t, at, by), applyMarkNoShow(t, at, by),
                   applyRecall(t, at), applyCancel(t, at, by),
                   applyLapseAppointment(t, at), applyCheckIn(t, at),
                   applyReschedule(t, to, at)} :
           r.ticket \in Ticket /\ SameHolder(t, r.ticket)
<1> USE DEF ApplyResult, SameHolder, Instant
<1>0. common(t) \in Ticket /\ SameHolder(t, common(t)) /\ "system" \in Actor
  BY DEF Ticket, Actor, common
<1> USE <1>0 DEF Ticket, TicketState, TERMINAL_TICKET_STATES
<1>1. applyCall(t, at).ticket \in Ticket /\ SameHolder(t, applyCall(t, at).ticket)
  BY DEF applyCall
<1>2. applyMoveToOverdue(t, at).ticket \in Ticket /\ SameHolder(t, applyMoveToOverdue(t, at).ticket)
  BY DEF applyMoveToOverdue
<1>3. applyNudge(t, at).ticket \in Ticket /\ SameHolder(t, applyNudge(t, at).ticket)
  <2> DEFINE u == [common(t) EXCEPT !.state = "Overdue", !.calledAt = t.calledAt,
                                    !.overdueAt = t.overdueAt]
             n == t.nudgeCount + 1
  <2>1. u \in Ticket
    OBVIOUS
  <2>2. SameHolder(t, u)
    OBVIOUS
  <2>3. n \in Nat
    OBVIOUS
  <2>4. applyNudge(t, at).ticket = [u EXCEPT !.lastNudgedAt = at, !.nudgeCount = n]
    BY DEF applyNudge
  <2> HIDE DEF u, n
  <2>5. [u EXCEPT !.lastNudgedAt = at, !.nudgeCount = n] \in Ticket
    BY <2>1, <2>3
  <2>6. SameHolder(t, [u EXCEPT !.lastNudgedAt = at, !.nudgeCount = n])
    BY <2>1, <2>2
  <2> QED
    BY <2>4, <2>5, <2>6
<1>4. applyMarkServed(t, at, by).ticket \in Ticket /\ SameHolder(t, applyMarkServed(t, at, by).ticket)
  BY DEF applyMarkServed
<1>5. applyMarkNoShow(t, at, by).ticket \in Ticket /\ SameHolder(t, applyMarkNoShow(t, at, by).ticket)
  BY DEF applyMarkNoShow
<1>6. applyRecall(t, at).ticket \in Ticket /\ SameHolder(t, applyRecall(t, at).ticket)
  BY DEF applyRecall
<1>7. applyCancel(t, at, by).ticket \in Ticket /\ SameHolder(t, applyCancel(t, at, by).ticket)
  BY DEF applyCancel
<1>8. applyLapseAppointment(t, at).ticket \in Ticket /\ SameHolder(t, applyLapseAppointment(t, at).ticket)
  BY DEF applyLapseAppointment
<1>9. applyCheckIn(t, at).ticket \in Ticket /\ SameHolder(t, applyCheckIn(t, at).ticket)
  BY DEF applyCheckIn
<1>10. applyReschedule(t, to, at).ticket \in Ticket /\ SameHolder(t, applyReschedule(t, to, at).ticket)
  BY DEF applyReschedule
<1> QED
  BY <1>1, <1>2, <1>3, <1>4, <1>5, <1>6, <1>7, <1>8, <1>9, <1>10

-----------------------------------------------------------------------------
(* The fold and the transitions agree.                                     *)

\* A transition of a well-shaped ticket yields a well-shaped ticket.
LEMMA TransitionShape ==
  ASSUME NEW t \in Ticket, VariantShape(t),
         NEW at \in Instant, NEW by \in Actor, NEW to \in Instant
  PROVE  /\ VariantShape(applyCall(t, at).ticket)
         /\ VariantShape(applyMoveToOverdue(t, at).ticket)
         /\ VariantShape(applyNudge(t, at).ticket)
         /\ VariantShape(applyMarkServed(t, at, by).ticket)
         /\ VariantShape(applyMarkNoShow(t, at, by).ticket)
         /\ VariantShape(applyRecall(t, at).ticket)
         /\ VariantShape(applyCancel(t, at, by).ticket)
         /\ VariantShape(applyLapseAppointment(t, at).ticket)
         /\ t.state = "Waiting" => VariantShape(applyCheckIn(t, at).ticket)
         /\ VariantShape(applyReschedule(t, to, at).ticket)
<1> USE DEF VariantShape, ApplyResult, common, Ticket, TERMINAL_TICKET_STATES
<1>1. VariantShape(applyCall(t, at).ticket)
  BY DEF applyCall
<1>2. VariantShape(applyMoveToOverdue(t, at).ticket)
  BY DEF applyMoveToOverdue
<1>3. VariantShape(applyNudge(t, at).ticket)
  BY DEF applyNudge
<1>4. VariantShape(applyMarkServed(t, at, by).ticket)
  BY DEF applyMarkServed
<1>5. VariantShape(applyMarkNoShow(t, at, by).ticket)
  BY DEF applyMarkNoShow
<1>6. VariantShape(applyRecall(t, at).ticket)
  BY DEF applyRecall
<1>7. VariantShape(applyCancel(t, at, by).ticket)
  BY DEF applyCancel
<1>8. VariantShape(applyLapseAppointment(t, at).ticket)
  BY DEF applyLapseAppointment
<1>9. t.state = "Waiting" => VariantShape(applyCheckIn(t, at).ticket)
  BY DEF applyCheckIn
<1>10. VariantShape(applyReschedule(t, to, at).ticket)
  BY DEF applyReschedule
<1> QED
  BY <1>1, <1>2, <1>3, <1>4, <1>5, <1>6, <1>7, <1>8, <1>9, <1>10

\* The row a use case saves is the row a replay of its event rebuilds
\* (transitions.ts: "the aggregate and the event are minted in lockstep"),
\* from every source state the use case accepts.  The two hypotheses on
\* CheckIn and Reschedule are exactly what the fold checks and the
\* transition does not.
THEOREM ProjectionAgrees ==
  ASSUME NEW t \in Ticket, VariantShape(t),
         NEW at \in Instant, NEW by \in Actor, NEW to \in Instant
  PROVE  /\ t.state = "Waiting" =>
              /\ applyEvent(t, applyCall(t, at).event) = applyCall(t, at).ticket
              /\ applyEvent(t, applyLapseAppointment(t, at).event)
                   = applyLapseAppointment(t, at).ticket
              /\ t.checkedInAt = None =>
                   applyEvent(t, applyCheckIn(t, at).event) = applyCheckIn(t, at).ticket
         /\ t.state = "Called" =>
              applyEvent(t, applyMoveToOverdue(t, at).event)
                = applyMoveToOverdue(t, at).ticket
         /\ t.state = "Overdue" =>
              applyEvent(t, applyNudge(t, at).event) = applyNudge(t, at).ticket
         /\ t.state \in {"Called", "Overdue"} =>
              /\ applyEvent(t, applyMarkServed(t, at, by).event)
                   = applyMarkServed(t, at, by).ticket
              /\ applyEvent(t, applyMarkNoShow(t, at, by).event)
                   = applyMarkNoShow(t, at, by).ticket
              /\ applyEvent(t, applyRecall(t, at).event) = applyRecall(t, at).ticket
         /\ isActiveForHandle(t) =>
              /\ applyEvent(t, applyCancel(t, at, by).event) = applyCancel(t, at, by).ticket
              /\ t.lane = "reservation" =>
                   applyEvent(t, applyReschedule(t, to, at).event)
                     = applyReschedule(t, to, at).ticket
<1>0. t # None
  BY NoTicketAssumption
<1> USE <1>0 DEF VariantShape, ApplyResult, Ticket, TERMINAL_TICKET_STATES, common,
                 applyEvent, Honoured, In, isActiveForHandle
<1>1. t.state = "Waiting" =>
        applyEvent(t, applyCall(t, at).event) = applyCall(t, at).ticket
  BY DEF applyCall
<1>2. t.state = "Waiting" =>
        applyEvent(t, applyLapseAppointment(t, at).event) = applyLapseAppointment(t, at).ticket
  BY DEF applyLapseAppointment
<1>3. t.state = "Waiting" /\ t.checkedInAt = None =>
        applyEvent(t, applyCheckIn(t, at).event) = applyCheckIn(t, at).ticket
  BY DEF applyCheckIn
<1>4. t.state = "Called" =>
        applyEvent(t, applyMoveToOverdue(t, at).event) = applyMoveToOverdue(t, at).ticket
  BY DEF applyMoveToOverdue
<1>5. t.state = "Overdue" =>
        applyEvent(t, applyNudge(t, at).event) = applyNudge(t, at).ticket
  BY DEF applyNudge
<1>6. t.state \in {"Called", "Overdue"} =>
        applyEvent(t, applyMarkServed(t, at, by).event) = applyMarkServed(t, at, by).ticket
  BY DEF applyMarkServed
<1>7. t.state \in {"Called", "Overdue"} =>
        applyEvent(t, applyMarkNoShow(t, at, by).event) = applyMarkNoShow(t, at, by).ticket
  BY DEF applyMarkNoShow
<1>8. t.state \in {"Called", "Overdue"} =>
        applyEvent(t, applyRecall(t, at).event) = applyRecall(t, at).ticket
  BY DEF applyRecall
<1>9. isActiveForHandle(t) =>
        applyEvent(t, applyCancel(t, at, by).event) = applyCancel(t, at, by).ticket
  BY DEF applyCancel
<1>10. isActiveForHandle(t) /\ t.lane = "reservation" =>
        applyEvent(t, applyReschedule(t, to, at).event) = applyReschedule(t, to, at).ticket
  BY DEF applyReschedule
<1> QED
  BY <1>1, <1>2, <1>3, <1>4, <1>5, <1>6, <1>7, <1>8, <1>9, <1>10

-----------------------------------------------------------------------------
(* Rows that agree but for the arrival instant, and what carries one on.   *)

\* A row as the code can have one.
WellFormed(t) == t \in Ticket /\ VariantShape(t)

\* Two tickets that differ in their arrival instants at most.
Alike(t, u) ==
  /\ u.lane = t.lane /\ u.handle = t.handle /\ u.displaySeq = t.displaySeq
  /\ u.appointmentAt = t.appointmentAt /\ u.state = t.state
  /\ u.calledAt = t.calledAt /\ u.overdueAt = t.overdueAt
  /\ u.lastNudgedAt = t.lastNudgedAt /\ u.nudgeCount = t.nudgeCount
  /\ u.closedBy = t.closedBy
  /\ (u.checkedInAt = None) <=> (t.checkedInAt = None)

\* Being alike is an equivalence.
LEMMA AlikeEquivalence ==
  /\ \A t : Alike(t, t)
  /\ \A t, u : Alike(t, u) => Alike(u, t)
  /\ \A t, u, v : Alike(t, u) /\ Alike(u, v) => Alike(t, v)
BY DEF Alike

\* Two results that record the same event on tickets that are alike.
AlikeResults(r, q) == Alike(r.ticket, q.ticket) /\ q.event = r.event

\* Every transition takes tickets that are alike to tickets that are.
LEMMA TransitionsAlike ==
  ASSUME NEW t \in Ticket, NEW u \in Ticket, Alike(t, u),
         NEW at \in Instant, NEW by \in Actor, NEW to \in Instant
  PROVE  /\ AlikeResults(applyCall(t, at), applyCall(u, at))
         /\ AlikeResults(applyMoveToOverdue(t, at), applyMoveToOverdue(u, at))
         /\ AlikeResults(applyNudge(t, at), applyNudge(u, at))
         /\ AlikeResults(applyMarkServed(t, at, by), applyMarkServed(u, at, by))
         /\ AlikeResults(applyMarkNoShow(t, at, by), applyMarkNoShow(u, at, by))
         /\ AlikeResults(applyRecall(t, at), applyRecall(u, at))
         /\ AlikeResults(applyCancel(t, at, by), applyCancel(u, at, by))
         /\ AlikeResults(applyLapseAppointment(t, at), applyLapseAppointment(u, at))
         /\ AlikeResults(applyCheckIn(t, at), applyCheckIn(u, at))
         /\ AlikeResults(applyReschedule(t, to, at), applyReschedule(u, to, at))
<1> USE DEF AlikeResults, ApplyResult
<1>1. /\ common(t) \in Ticket /\ common(u) \in Ticket /\ Alike(common(t), common(u))
  BY DEF common, Ticket, Alike
<1> USE <1>1 DEF Ticket, Alike
<1>3. AlikeResults(applyCall(t, at), applyCall(u, at))
  BY DEF applyCall
<1>4. AlikeResults(applyMoveToOverdue(t, at), applyMoveToOverdue(u, at))
  BY DEF applyMoveToOverdue
<1>5. AlikeResults(applyNudge(t, at), applyNudge(u, at))
  BY DEF applyNudge
<1>6. AlikeResults(applyMarkServed(t, at, by), applyMarkServed(u, at, by))
  BY DEF applyMarkServed
<1>7. AlikeResults(applyMarkNoShow(t, at, by), applyMarkNoShow(u, at, by))
  BY DEF applyMarkNoShow
<1>8. AlikeResults(applyRecall(t, at), applyRecall(u, at))
  BY DEF applyRecall
<1>9. AlikeResults(applyCancel(t, at, by), applyCancel(u, at, by))
  BY DEF applyCancel
<1>10. AlikeResults(applyLapseAppointment(t, at), applyLapseAppointment(u, at))
  BY DEF applyLapseAppointment
<1>11. AlikeResults(applyCheckIn(t, at), applyCheckIn(u, at))
  BY DEF applyCheckIn, Instant
<1>12. AlikeResults(applyReschedule(t, to, at), applyReschedule(u, to, at))
  BY DEF applyReschedule
<1> QED
  BY <1>3, <1>4, <1>5, <1>6, <1>7, <1>8, <1>9, <1>10, <1>11, <1>12

\* The fold makes something of every event of a log, except that it keeps the
\* first arrival instant.
Legal(prior, e) ==
  \/ Honoured(prior, e)
  \/ e.type = "CheckedIn" /\ In(prior, {"Waiting"})

\* The event of r takes prior to the ticket of r, its arrival instant aside.
Continues(prior, r) ==
  /\ r.event \in TicketEvent /\ WellFormed(r.ticket)
  /\ WellFormed(applyEvent(prior, r.event))
  /\ Alike(applyEvent(prior, r.event), r.ticket)
  /\ Legal(prior, r.event)

\* One event carries two tickets that are alike to one that is like both.
LEMMA ContinuesAlike ==
  ASSUME NEW p, NEW r, NEW q, Continues(p, q), AlikeResults(r, q), WellFormed(r.ticket)
  PROVE  Continues(p, r)
<1>1. q.event = r.event /\ Alike(r.ticket, q.ticket)
  BY DEF AlikeResults
<1>2. Alike(applyEvent(p, r.event), q.ticket)
  BY <1>1 DEF Continues
<1>3. Alike(applyEvent(p, r.event), r.ticket)
  BY <1>1, <1>2, AlikeEquivalence
<1> QED
  BY <1>1, <1>3 DEF Continues

\* What is issued continues the empty log.
LEMMA IssueContinues ==
  ASSUME NEW lane \in Lane, NEW h \in Handles, NEW n \in Nat,
         NEW appt \in Instant \cup {None}, NEW at \in Instant
  PROVE  Continues(None, applyIssue(lane, h, n, appt, at))
<1> DEFINE r == applyIssue(lane, h, n, appt, at)
<1>1. r.ticket \in Ticket
  BY IssueType
<1>2. VariantShape(r.ticket)
  BY DEF VariantShape, applyIssue, ApplyResult, TERMINAL_TICKET_STATES
<1>3. r.event \in IssuedEvent /\ r.event.type = "Issued"
  BY DEF applyIssue, ApplyResult, IssuedEvent
<1>4. applyEvent(None, r.event) = r.ticket
  BY DEF applyEvent, Honoured, applyIssue, ApplyResult
<1>5. Honoured(None, r.event)
  BY <1>3 DEF Honoured
<1>6. r.event \in TicketEvent
  BY <1>3 DEF TicketEvent
<1>7. Alike(applyEvent(None, r.event), r.ticket)
  BY <1>4, AlikeEquivalence
<1> HIDE DEF r
<1>8. Continues(None, r)
  BY <1>1, <1>2, <1>4, <1>5, <1>6, <1>7 DEF Continues, WellFormed, Legal
<1> QED
  BY <1>8 DEF r

\* A second check-in: the fold ignores it, the transition overwrites.
LEMMA CheckInContinues ==
  ASSUME NEW t, WellFormed(t), t.state = "Waiting", NEW at \in Instant
  PROVE  /\ WellFormed(applyEvent(t, applyCheckIn(t, at).event))
         /\ Alike(applyEvent(t, applyCheckIn(t, at).event), applyCheckIn(t, at).ticket)
<1> DEFINE r == applyCheckIn(t, at)
<1>1. t # None /\ t \in Ticket /\ VariantShape(t) /\ at # None
  BY NoTicketAssumption, NoneAssumption DEF WellFormed, Instant
<1>2. r.ticket \in Ticket /\ VariantShape(r.ticket)
  <2> PICK by \in Actor : TRUE
    BY DEF Actor
  <2> QED
    BY <1>1, TransitionType, TransitionShape
<1>3. CASE t.checkedInAt = None
  <2> PICK by \in Actor : TRUE
    BY DEF Actor
  <2>1. applyEvent(t, r.event) = r.ticket
    BY <1>1, <1>3, ProjectionAgrees
  <2> QED
    BY <1>2, <2>1, AlikeEquivalence DEF WellFormed
<1>4. CASE t.checkedInAt # None
  <2>1. applyEvent(t, r.event) = t
    BY <1>1, <1>4 DEF applyEvent, Honoured, applyCheckIn, ApplyResult
  <2>2. Alike(t, r.ticket)
    BY <1>1, <1>4 DEF Alike, applyCheckIn, ApplyResult, common, Ticket, VariantShape,
                      TERMINAL_TICKET_STATES
  <2> QED
    BY <2>1, <2>2
<1> QED
  BY <1>3, <1>4

\* Every transition a use case takes continues the log of its ticket.
LEMMA TransitionContinues ==
  ASSUME NEW t, WellFormed(t), NEW at \in Instant, NEW by \in Actor, NEW to \in Instant
  PROVE  /\ t.state = "Waiting" =>
              /\ Continues(t, applyCall(t, at))
              /\ Continues(t, applyCheckIn(t, at))
              /\ Continues(t, applyLapseAppointment(t, at))
         /\ t.state = "Called" => Continues(t, applyMoveToOverdue(t, at))
         /\ t.state = "Overdue" => Continues(t, applyNudge(t, at))
         /\ t.state \in {"Called", "Overdue"} =>
              /\ Continues(t, applyMarkServed(t, at, by))
              /\ Continues(t, applyMarkNoShow(t, at, by))
              /\ Continues(t, applyRecall(t, at))
         /\ isActiveForHandle(t) =>
              /\ Continues(t, applyCancel(t, at, by))
              /\ t.lane = "reservation" => Continues(t, applyReschedule(t, to, at))
<1>0. t \in Ticket /\ VariantShape(t) /\ t # None /\ t.nudgeCount + 1 \in Nat \ {0}
  BY NoTicketAssumption DEF WellFormed, Ticket
<1>1. ASSUME NEW r, r.ticket \in Ticket, VariantShape(r.ticket), r.event \in TicketEvent,
             applyEvent(t, r.event) = r.ticket, Honoured(t, r.event)
      PROVE  Continues(t, r)
  BY <1>1, AlikeEquivalence DEF Continues, WellFormed, Legal
<1> USE <1>0
<1> USE DEF ApplyResult, In, Honoured, TicketEvent
<1>2. t.state = "Waiting" => Continues(t, applyCall(t, at))
  <2> DEFINE r == applyCall(t, at)
  <2>1. r.event \in CalledEvent /\ (t.state = "Waiting" => Honoured(t, r.event))
    BY DEF applyCall, CalledEvent
  <2> HIDE DEF r
  <2> QED
    BY <1>1, <2>1, TransitionType, TransitionShape, ProjectionAgrees DEF r
<1>3. t.state = "Waiting" => Continues(t, applyCheckIn(t, at))
  <2> DEFINE r == applyCheckIn(t, at)
  <2>1. r.event \in CheckedInEvent /\ (t.state = "Waiting" => Legal(t, r.event))
    BY DEF applyCheckIn, CheckedInEvent, Legal
  <2> HIDE DEF r
  <2>2. t.state = "Waiting" => WellFormed(r.ticket)
    BY TransitionType, TransitionShape DEF r, WellFormed
  <2> QED
    BY <2>1, <2>2, CheckInContinues DEF r, Continues
<1>4. t.state = "Waiting" => Continues(t, applyLapseAppointment(t, at))
  <2> DEFINE r == applyLapseAppointment(t, at)
  <2>1. r.event \in AppointmentLapsedEvent /\ (t.state = "Waiting" => Honoured(t, r.event))
    BY DEF applyLapseAppointment, AppointmentLapsedEvent
  <2> HIDE DEF r
  <2> QED
    BY <1>1, <2>1, TransitionType, TransitionShape, ProjectionAgrees DEF r
<1>5. t.state = "Called" => Continues(t, applyMoveToOverdue(t, at))
  <2> DEFINE r == applyMoveToOverdue(t, at)
  <2>1. r.event \in MovedToOverdueEvent /\ (t.state = "Called" => Honoured(t, r.event))
    BY DEF applyMoveToOverdue, MovedToOverdueEvent
  <2> HIDE DEF r
  <2> QED
    BY <1>1, <2>1, TransitionType, TransitionShape, ProjectionAgrees DEF r
<1>6. t.state = "Overdue" => Continues(t, applyNudge(t, at))
  <2> DEFINE r == applyNudge(t, at)
  <2>1. r.event \in NudgedEvent /\ (t.state = "Overdue" => Honoured(t, r.event))
    BY DEF applyNudge, NudgedEvent
  <2> HIDE DEF r
  <2> QED
    BY <1>1, <2>1, TransitionType, TransitionShape, ProjectionAgrees DEF r
<1>7. t.state \in {"Called", "Overdue"} => Continues(t, applyMarkServed(t, at, by))
  <2> DEFINE r == applyMarkServed(t, at, by)
  <2>1. r.event \in ServedEvent /\ (t.state \in {"Called", "Overdue"} => Honoured(t, r.event))
    BY DEF applyMarkServed, ServedEvent
  <2> HIDE DEF r
  <2> QED
    BY <1>1, <2>1, TransitionType, TransitionShape, ProjectionAgrees DEF r
<1>8. t.state \in {"Called", "Overdue"} => Continues(t, applyMarkNoShow(t, at, by))
  <2> DEFINE r == applyMarkNoShow(t, at, by)
  <2>1. r.event \in NoShowedEvent /\ (t.state \in {"Called", "Overdue"} => Honoured(t, r.event))
    BY DEF applyMarkNoShow, NoShowedEvent
  <2> HIDE DEF r
  <2> QED
    BY <1>1, <2>1, TransitionType, TransitionShape, ProjectionAgrees DEF r
<1>9. t.state \in {"Called", "Overdue"} => Continues(t, applyRecall(t, at))
  <2> DEFINE r == applyRecall(t, at)
  <2>1. r.event \in RecalledEvent /\ (t.state \in {"Called", "Overdue"} => Honoured(t, r.event))
    BY DEF applyRecall, RecalledEvent
  <2> HIDE DEF r
  <2> QED
    BY <1>1, <2>1, TransitionType, TransitionShape, ProjectionAgrees DEF r
<1>10. isActiveForHandle(t) => Continues(t, applyCancel(t, at, by))
  <2> DEFINE r == applyCancel(t, at, by)
  <2>1. r.event \in CancelledEvent /\ (isActiveForHandle(t) => Honoured(t, r.event))
    BY DEF applyCancel, CancelledEvent, isActiveForHandle
  <2> HIDE DEF r
  <2> QED
    BY <1>1, <2>1, TransitionType, TransitionShape, ProjectionAgrees DEF r
<1>11. isActiveForHandle(t) /\ t.lane = "reservation" => Continues(t, applyReschedule(t, to, at))
  <2> DEFINE r == applyReschedule(t, to, at)
  <2>1. r.event \in RescheduledEvent /\ (isActiveForHandle(t) /\ t.lane = "reservation" => Honoured(t, r.event))
    BY DEF applyReschedule, RescheduledEvent, isActiveForHandle
  <2> HIDE DEF r
  <2> QED
    BY <1>1, <2>1, TransitionType, TransitionShape, ProjectionAgrees DEF r
<1> QED
  BY <1>2, <1>3, <1>4, <1>5, <1>6, <1>7, <1>8, <1>9, <1>10, <1>11

-----------------------------------------------------------------------------
(* What the use cases may decide about a ticket: a result of the port's    *)
(* contract (AtomicQueue), as a list of cases.                             *)

\* A check-in asks for an instant, LapseAppointment and RescheduleTicket for
\* the lane as well.
Dated(t) == t.appointmentAt # None

Booked(t) == t.lane = "reservation" /\ Dated(t)

\* A booking may be moved to one of the targets.
Decides(targets, t, at, r) ==
  \/ t.state = "Waiting" /\ r = applyCall(t, at)
  \/ t.state = "Waiting" /\ Dated(t) /\ r = applyCheckIn(t, at)
  \/ t.state = "Waiting" /\ Booked(t) /\ r = applyLapseAppointment(t, at)
  \/ t.state = "Called" /\ r = applyMoveToOverdue(t, at)
  \/ t.state = "Overdue" /\ r = applyNudge(t, at)
  \/ t.state \in {"Called", "Overdue"} /\ r = applyMarkServed(t, at, "staff")
  \/ t.state \in {"Called", "Overdue"} /\ r = applyRecall(t, at)
  \/ /\ t.state \in {"Called", "Overdue"}
     /\ \E by \in {"staff", "system"} : r = applyMarkNoShow(t, at, by)
  \/ /\ t.state \in {"Waiting", "Called", "Overdue"}
     /\ \E by \in {"staff", "customer"} : r = applyCancel(t, at, by)
  \/ /\ t.state \in {"Waiting", "Called", "Overdue"}
     /\ Booked(t)
     /\ \E to \in targets \ {t.appointmentAt} : r = applyReschedule(t, to, at)

\* The same as a set, the way the contract writes it.
Decisions(targets, t, at) ==
  LET From(states, results) == IF t.state \in states THEN results ELSE {}
      IfDated(results) == IF t.appointmentAt # None THEN results ELSE {}
      IfBooked(results) == IF t.lane = "reservation" THEN IfDated(results) ELSE {}
  IN  UNION {
        From({"Waiting"}, {applyCall(t, at)}),
        From({"Waiting"}, IfDated({applyCheckIn(t, at)})),
        From({"Waiting"}, IfBooked({applyLapseAppointment(t, at)})),
        From({"Called"}, {applyMoveToOverdue(t, at)}),
        From({"Overdue"}, {applyNudge(t, at)}),
        From({"Called", "Overdue"},
             {applyMarkServed(t, at, "staff"), applyRecall(t, at)}
               \cup {applyMarkNoShow(t, at, by) : by \in {"staff", "system"}}),
        From({"Waiting", "Called", "Overdue"},
             {applyCancel(t, at, by) : by \in {"staff", "customer"}}
               \cup IfBooked({applyReschedule(t, to, at) :
                                to \in targets \ {t.appointmentAt}}))}

\* The two ways to state what a use case may decide are one.
LEMMA DecisionsListed ==
  ASSUME NEW targets, NEW t, NEW at, NEW r
  PROVE  r \in Decisions(targets, t, at) <=> Decides(targets, t, at, r)
<1> DEFINE From(states, results) == IF t.state \in states THEN results ELSE {}
           IfDated(results) == IF t.appointmentAt # None THEN results ELSE {}
           IfBooked(results) == IF t.lane = "reservation" THEN IfDated(results) ELSE {}
           A == From({"Waiting"}, {applyCall(t, at)})
           B == From({"Waiting"}, IfDated({applyCheckIn(t, at)}))
           C == From({"Waiting"}, IfBooked({applyLapseAppointment(t, at)}))
           D == From({"Called"}, {applyMoveToOverdue(t, at)})
           E == From({"Overdue"}, {applyNudge(t, at)})
           F == From({"Called", "Overdue"},
                     {applyMarkServed(t, at, "staff"), applyRecall(t, at)}
                       \cup {applyMarkNoShow(t, at, by) : by \in {"staff", "system"}})
           G == From({"Waiting", "Called", "Overdue"},
                     {applyCancel(t, at, by) : by \in {"staff", "customer"}}
                       \cup IfBooked({applyReschedule(t, to, at) :
                                        to \in targets \ {t.appointmentAt}}))
<1>1. Decisions(targets, t, at) = UNION {A, B, C, D, E, F, G}
  BY DEF Decisions
<1>2. r \in A <=> t.state = "Waiting" /\ r = applyCall(t, at)
  OBVIOUS
<1>3. /\ r \in B <=> t.state = "Waiting" /\ Dated(t) /\ r = applyCheckIn(t, at)
      /\ r \in C <=> t.state = "Waiting" /\ Booked(t) /\ r = applyLapseAppointment(t, at)
  BY DEF Booked, Dated
<1>4. r \in D <=> t.state = "Called" /\ r = applyMoveToOverdue(t, at)
  OBVIOUS
<1>5. r \in E <=> t.state = "Overdue" /\ r = applyNudge(t, at)
  OBVIOUS
<1>6. r \in F <=>
        \/ t.state \in {"Called", "Overdue"} /\ r = applyMarkServed(t, at, "staff")
        \/ t.state \in {"Called", "Overdue"} /\ r = applyRecall(t, at)
        \/ /\ t.state \in {"Called", "Overdue"}
           /\ \E by \in {"staff", "system"} : r = applyMarkNoShow(t, at, by)
  OBVIOUS
<1>7. r \in G <=>
        \/ /\ t.state \in {"Waiting", "Called", "Overdue"}
           /\ \E by \in {"staff", "customer"} : r = applyCancel(t, at, by)
        \/ /\ t.state \in {"Waiting", "Called", "Overdue"}
           /\ Booked(t)
           /\ \E to \in targets \ {t.appointmentAt} : r = applyReschedule(t, to, at)
  BY DEF Booked, Dated
<1> HIDE DEF A, B, C, D, E, F, G
<1>8. r \in UNION {A, B, C, D, E, F, G} <=>
        r \in A \/ r \in B \/ r \in C \/ r \in D \/ r \in E \/ r \in F \/ r \in G
  OBVIOUS
<1> QED
  BY <1>1, <1>2, <1>3, <1>4, <1>5, <1>6, <1>7, <1>8 DEF Decides

\* Whatever a use case decides about a ticket carries its log on.
LEMMA DecisionContinues ==
  ASSUME NEW targets \in SUBSET Instant, NEW t, WellFormed(t), NEW at \in Instant,
         NEW r, Decides(targets, t, at, r)
  PROVE  Continues(t, r)
<1>1. {"staff", "customer", "system"} \subseteq Actor
  BY DEF Actor
<1>2. PICK to \in Instant : TRUE
  BY DEF Instant
<1>3. Booked(t) => t.lane = "reservation"
  BY DEF Booked
<1>4. t.state \in {"Waiting", "Called", "Overdue"} <=> isActiveForHandle(t)
  BY DEF isActiveForHandle
<1> QED
  BY <1>1, <1>2, <1>3, <1>4, TransitionContinues DEF Decides

-----------------------------------------------------------------------------
(* The fold over a log.  replay is a recursive function, of which the      *)
(* provers see CHOOSE f : f = [...].  That there is one is shown from a    *)
(* smallest log length that has none, and so is each equation below: a     *)
(* smallest counterexample stands in for the induction.                    *)

\* f holds the rows after the first 0, 1, ..., k events of log.
Upto(f, prior, log, k) ==
  f = [n \in 0 .. k |-> IF n = 0 THEN prior ELSE applyEvent(f[n - 1], log[n])]

\* The rows of the whole log, as replay's definition picks them.
fold(prior, log) == CHOOSE f : Upto(f, prior, log, Len(log))

\* A set of numbers that is not empty has a smallest member.
LEMMA SmallestOf ==
  ASSUME NEW T \in SUBSET Nat, NEW k \in T
  PROVE  \E m \in T : \A n \in T : ~(n < m)
<1>1. T # {} /\ T \subseteq Nat
  OBVIOUS
<1>2. PICK m \in T : \A y \in T : ~ (<< y, m >> \in OpToRel(<, Nat))
  BY <1>1, NatLessThanWellFounded, WFMin, Zenon
<1>3. ASSUME NEW n \in T PROVE ~(n < m)
  <2>1. n \in Nat /\ m \in Nat /\ ~ (<< n, m >> \in OpToRel(<, Nat))
    BY <1>2
  <2>2. << n, m >> \in Nat \X Nat /\ << n, m >>[1] = n /\ << n, m >>[2] = m
    BY <2>1
  <2> QED
    BY <2>1, <2>2, Zenon DEF OpToRel
<1> QED
  BY <1>3

\* replay returns the last row of the fold.
LEMMA ReplayIsFold ==
  ASSUME NEW prior, NEW log
  PROVE  replay(prior, log) = fold(prior, log)[Len(log)]
BY DEF replay, fold, Upto

\* The recursion of replay has a solution for every length of log.
LEMMA UptoExists ==
  ASSUME NEW prior, NEW log, NEW k \in Nat
  PROVE  \E f : Upto(f, prior, log, k)
<1> DEFINE T == {m \in Nat : ~ \E f : Upto(f, prior, log, m)}
<1>1. SUFFICES ASSUME NEW l \in T PROVE FALSE
  OBVIOUS
<1>2. PICK m \in T : \A n \in T : ~(n < m)
  BY <1>1, SmallestOf
<1>3. m \in Nat /\ ~ \E f : Upto(f, prior, log, m)
  BY <1>2
<1>4. CASE m = 0
  <2>1. Upto([n \in 0 .. 0 |-> prior], prior, log, 0)
    BY DEF Upto
  <2> QED
    BY <1>3, <1>4, <2>1
<1>5. CASE m # 0
  <2>1. m - 1 \in Nat /\ m - 1 < m
    BY <1>3, <1>5
  <2>2. PICK g : Upto(g, prior, log, m - 1)
    BY <1>2, <2>1
  <2> DEFINE f == [n \in 0 .. m |-> IF n = m THEN applyEvent(g[m - 1], log[m]) ELSE g[n]]
  <2>3. ASSUME NEW n \in 0 .. m
        PROVE  f[n] = IF n = 0 THEN prior ELSE applyEvent(f[n - 1], log[n])
    <3>1. CASE n = m
      <4>1. n - 1 \in 0 .. m /\ n - 1 # m /\ n # 0
        BY <2>1, <1>5, <3>1
      <4>2. f[n] = applyEvent(g[m - 1], log[m]) /\ f[n - 1] = g[m - 1]
        BY <3>1, <4>1
      <4> QED
        BY <3>1, <4>1, <4>2
    <3>2. CASE n # m
      <4>1. n \in 0 .. m - 1 /\ f[n] = g[n]
        BY <1>3, <3>2
      <4>2. g[n] = IF n = 0 THEN prior ELSE applyEvent(g[n - 1], log[n])
        BY <2>2, <4>1 DEF Upto
      <4>3. n # 0 => n - 1 \in 0 .. m /\ n - 1 # m /\ f[n - 1] = g[n - 1]
        BY <1>3, <4>1
      <4> HIDE DEF f
      <4> QED
        BY <4>1, <4>2, <4>3
    <3> QED
      BY <3>1, <3>2
  <2>4. f = [n \in 0 .. m |-> f[n]]
    OBVIOUS
  <2> HIDE DEF f
  <2>5. Upto(f, prior, log, m)
    BY <2>3, <2>4 DEF Upto
  <2> QED
    BY <1>3, <2>5
<1> QED
  BY <1>4, <1>5

\* Nothing happens in an empty log.
LEMMA ReplayEmpty ==
  ASSUME NEW prior
  PROVE  replay(prior, << >>) = prior
<1>1. Len(<< >>) = 0
  OBVIOUS
<1>2. Upto(fold(prior, << >>), prior, << >>, 0)
  BY <1>1, UptoExists DEF fold
<1>3. fold(prior, << >>)[0] = prior
  BY <1>2 DEF Upto
<1> QED
  BY <1>1, <1>3, ReplayIsFold

\* The fold of one more event is that event applied to the fold so far
\* (replay, projection.ts), for logs of every length.
THEOREM ReplayAppend ==
  ASSUME NEW prior, NEW S, NEW s \in Seq(S), NEW e
  PROVE  replay(prior, Append(s, e)) = applyEvent(replay(prior, s), e)
<1> DEFINE t == Append(s, e)
           k == Len(s)
           f == fold(prior, s)
           g == fold(prior, t)
<1>1. /\ k \in Nat /\ Len(t) = k + 1 /\ k + 1 \in Nat
      /\ t[k + 1] = e /\ \A n \in 1 .. k : t[n] = s[n]
  <2>1. s \in Seq(S \cup {e})
    OBVIOUS
  <2> QED
    BY <2>1
<1> HIDE DEF t, k
<1>2. Upto(f, prior, s, k) /\ Upto(g, prior, t, k + 1)
  BY <1>1, UptoExists DEF fold, k
<1>3. /\ replay(prior, s) = f[k]
      /\ replay(prior, t) = g[k + 1]
  BY <1>1, ReplayIsFold DEF k
<1> HIDE DEF f, g
<1>4. g[k] = f[k]
  <2> DEFINE T == {n \in 0 .. k : g[n] # f[n]}
  <2>1. SUFFICES ASSUME T # {} PROVE FALSE
    BY <1>1
  <2>2. T \in SUBSET Nat
    BY <1>1
  <2>3. PICK m \in T : \A n \in T : ~(n < m)
    BY <2>1, <2>2, SmallestOf
  <2>4. m \in 0 .. k /\ m \in 0 .. k + 1 /\ g[m] # f[m]
    BY <1>1, <2>3
  <2>5. /\ f[m] = IF m = 0 THEN prior ELSE applyEvent(f[m - 1], s[m])
        /\ g[m] = IF m = 0 THEN prior ELSE applyEvent(g[m - 1], t[m])
    BY <1>2, <2>4 DEF Upto
  <2>6. m # 0
    BY <2>4, <2>5
  <2>7. m \in 1 .. k /\ m - 1 \in 0 .. k /\ m - 1 < m
    BY <1>1, <2>4, <2>6
  <2>8. g[m - 1] = f[m - 1]
    BY <2>3, <2>7
  <2> QED
    BY <1>1, <2>4, <2>5, <2>6, <2>7, <2>8
<1>5. g[k + 1] = applyEvent(g[k], e)
  <2>1. k \in 0 .. k /\ k + 1 \in 0 .. k + 1 /\ (k + 1) - 1 = k /\ k + 1 # 0
    BY <1>1
  <2> QED
    BY <1>1, <1>2, <1>4, <2>1 DEF Upto
<1> QED
  BY <1>1, <1>3, <1>4, <1>5 DEF t

=============================================================================
