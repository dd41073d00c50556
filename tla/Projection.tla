----------------------------- MODULE Projection -----------------------------
(***************************************************************************)
(* The pure queries of packages/core/src/domain/queue/projection.ts over a *)
(* snapshot: a function from ticket ids to rows, None where no ticket was  *)
(* issued.  A query that returns a ticket or null returns its id or None.  *)
(***************************************************************************)
EXTENDS Tickets, FiniteSets

Held(snap) == {i \in DOMAIN snap : snap[i] # None}

InState(snap, states) == {i \in Held(snap) : snap[i].state \in states}

Waiting(snap, lane) ==
  {i \in InState(snap, {"Waiting"}) : snap[i].lane = lane}

\* The waiting ticket of a lane with the lowest display number.
headOfLane(snap, lane) ==
  IF Waiting(snap, lane) = {} THEN None
  ELSE CHOOSE i \in Waiting(snap, lane) :
         \A j \in Waiting(snap, lane) : snap[i].displaySeq <= snap[j].displaySeq

firstLaneWithWaiting(snap) ==
  LET busy == {n \in DOMAIN PREFERRED_LANE_CHAIN :
                 Waiting(snap, PREFERRED_LANE_CHAIN[n]) # {}}
  IN  IF busy = {} THEN None
      ELSE PREFERRED_LANE_CHAIN[CHOOSE n \in busy : \A m \in busy : n <= m]

\* Waiting reservations the deadline order ranks: those that have a deadline.
Deadlined(snap) ==
  {i \in Waiting(snap, "reservation") : snap[i].appointmentAt # None}

\* reservationsByDeadline(snap)[0].  The sort is stable over listAll's order
\* by seq, so the lower display number wins a tie.
earliestReservation(snap) ==
  IF Deadlined(snap) = {} THEN None
  ELSE CHOOSE i \in Deadlined(snap) : \A j \in Deadlined(snap) :
         \/ snap[i].appointmentAt < snap[j].appointmentAt
         \/ /\ snap[i].appointmentAt = snap[j].appointmentAt
            /\ snap[i].displaySeq <= snap[j].displaySeq

firstLaneWithCallable(snap, now, grace) ==
  LET r == earliestReservation(snap)
  IN  IF r # None /\ snap[r].appointmentAt <= now + grace
      THEN "reservation" ELSE firstLaneWithWaiting(snap)

nextCallable(snap, now, grace) ==
  LET lane == firstLaneWithCallable(snap, now, grace)
  IN  IF lane = None THEN None
      ELSE IF lane = "reservation" THEN earliestReservation(snap)
      ELSE headOfLane(snap, lane)

\* Slip: a ticket that was called is taken to have released its slot.
occupancyOfWaiting(snap, self, startAt) ==
  Cardinality({i \in Waiting(snap, "reservation") \ {self} :
                 snap[i].appointmentAt = startAt})

\* Active reservations of other tickets booked on exactly this instant.
occupancyExcludingSelf(snap, self, startAt) ==
  Cardinality({i \in Held(snap) \ {self} :
                 /\ snap[i].lane = "reservation"
                 /\ isActiveForHandle(snap[i])
                 /\ snap[i].appointmentAt = startAt})

HighestNumber(snap, held) ==
  {i \in held : \A j \in held : snap[j].displaySeq <= snap[i].displaySeq}

\* Slip: numbers of closed tickets are handed out again.
nextDisplaySeqOfActive(snap) ==
  LET last == HighestNumber(snap, InState(snap, {"Waiting", "Called", "Overdue"}))
  IN  IF last = {} THEN 1 ELSE 1 + snap[CHOOSE i \in last : TRUE].displaySeq

\* One more than every number handed out so far, in any lane and any state.
nextDisplaySeq(snap) ==
  LET last == HighestNumber(snap, Held(snap))
  IN  IF last = {} THEN 1 ELSE 1 + snap[CHOOSE i \in last : TRUE].displaySeq

\* Slip: an overdue ticket is taken to have released its handle.
findUnlessOverdue(snap, handle) ==
  {i \in InState(snap, {"Waiting", "Called"}) : snap[i].handle = handle}

findActiveByHandle(snap, handle) ==
  {i \in Held(snap) : isActiveForHandle(snap[i]) /\ snap[i].handle = handle}

=============================================================================
