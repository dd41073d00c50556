----------------------------- MODULE AtomicQueue -----------------------------
(***************************************************************************)
(* What the ticket repository promises (the port                           *)
(* packages/core/src/application/ports/EventSourcedRepository.ts): however *)
(* loads and saves interleave, the tickets change as if each use case read *)
(* and wrote them in one step, and a batch in one step for all members.    *)
(*                                                                         *)
(* Of an arrival only the fact is kept, not the instant: see RowIsFold in  *)
(* TicketStore.                                                            *)
(***************************************************************************)
EXTENDS Projection

CONSTANTS TicketIds,
          IssueForms,  \* <<lane, appointmentAt>> pairs
          Targets,     \* instants a booking may be moved to
          Times        \* instants the clock may show

VARIABLE agg  \* the committed ticket of every id

\* The results a use case may have on a ticket: its transition, if the state
\* it loaded is one the use case accepts.
Results(t, at) ==
  LET From(states, results) == IF t.state \in states THEN results ELSE {}
      \* A check-in asks for an instant, LapseAppointment and RescheduleTicket
      \* for the lane as well.
      Dated(results) == IF t.appointmentAt # None THEN results ELSE {}
      Booked(results) == IF t.lane = "reservation" THEN Dated(results) ELSE {}
  IN  UNION {
        From({"Waiting"}, {applyCall(t, at)}),
        From({"Waiting"}, Dated({applyCheckIn(t, at)})),
        From({"Waiting"}, Booked({applyLapseAppointment(t, at)})),
        From({"Called"}, {applyMoveToOverdue(t, at)}),
        From({"Overdue"}, {applyNudge(t, at)}),
        From({"Called", "Overdue"},
             {applyMarkServed(t, at, "staff"), applyRecall(t, at)}
               \cup {applyMarkNoShow(t, at, by) : by \in {"staff", "system"}}),
        From({"Waiting", "Called", "Overdue"},
             {applyCancel(t, at, by) : by \in {"staff", "customer"}}
               \cup Booked({applyReschedule(t, to, at) :
                              to \in Targets \ {t.appointmentAt}}))}

Blur(t) == [t EXCEPT !.checkedInAt = IF @ = None THEN None ELSE 0]

Init == agg = [i \in TicketIds |-> None]

Issue(i) ==
  /\ agg[i] = None
  /\ \E h \in Handles, form \in IssueForms, at \in Times :
       /\ findActiveByHandle(agg, h) = {}
       /\ agg' = [agg EXCEPT ![i] =
                    applyIssue(form[1], h, nextDisplaySeq(agg), form[2], at).ticket]

Change(i) ==
  /\ agg[i] # None
  /\ \E at \in Times : \E r \in Results(agg[i], at) :
       agg' = [agg EXCEPT ![i] = Blur(r.ticket)]

CallAll(ids) ==
  /\ ids \subseteq InState(agg, {"Waiting"})
  /\ \E at \in Times :
       agg' = [i \in TicketIds |-> IF i \in ids THEN applyCall(agg[i], at).ticket
                                   ELSE agg[i]]

Next == \/ \E i \in TicketIds : Issue(i) \/ Change(i)
        \/ \E ids \in (SUBSET TicketIds) \ {{}} : CallAll(ids)

Spec == Init /\ [][Next]_agg

=============================================================================
