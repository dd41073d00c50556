----------------------------- MODULE QueueViews -----------------------------
(***************************************************************************)
(* What the queue shows of itself: positions, the anonymous projection the *)
(* WebSocket feed and GET /queue publish (QueueShop.ts, router.ts), the    *)
(* slot grid of GET /slots, and the instants the web client's slot picker  *)
(* writes (slotTime.ts).                                                   *)
(*                                                                         *)
(* A list the code sorts by display number is the set of its entries: each *)
(* entry carries its number, and numbers are unique.                       *)
(***************************************************************************)
EXTENDS Projection

CONSTANTS
  WaitingPreview,  \* waiting tickets the anonymous projection lists (10)
  UtcOffset        \* DEPLOYMENT_TIMEZONE: local time minus UTC

ASSUME QueueViewsAssumption == WaitingPreview \in Nat /\ UtcOffset \in Nat

-----------------------------------------------------------------------------
(* Queries.                                                                *)

waitingCount(snap, lane) == Cardinality(Waiting(snap, lane))

\* The waiting tickets of the same lane with a lower display number.
Ahead(snap, i) ==
  {j \in Waiting(snap, snap[i].lane) : snap[j].displaySeq < snap[i].displaySeq}

positionOf(snap, i) ==
  IF i \in InState(snap, {"Waiting"}) THEN Cardinality(Ahead(snap, i)) ELSE None

\* The ticket a lane's call takes; without a lane, that of the first lane of
\* the chain that has one.
head(snap, lane) ==
  LET target == IF lane # None THEN lane ELSE firstLaneWithWaiting(snap)
  IN  IF target = None THEN None ELSE headOfLane(snap, target)

\* Active reservations booked on exactly this instant.
slotOccupancy(snap, startAt) ==
  Cardinality({i \in Held(snap) :
                 /\ snap[i].lane = "reservation"
                 /\ isActiveForHandle(snap[i])
                 /\ snap[i].appointmentAt = startAt})

-----------------------------------------------------------------------------
(* The anonymous projection.                                               *)

projectAnonymous(snap, i) ==
  [id |-> i, lane |-> snap[i].lane, displaySeq |-> snap[i].displaySeq,
   appointmentAt |-> snap[i].appointmentAt]

Project(snap, ids) == {projectAnonymous(snap, i) : i \in ids}

\* The n tickets with the lowest display numbers.
Lowest(snap, ids, n) ==
  {i \in ids :
     Cardinality({j \in ids : snap[j].displaySeq < snap[i].displaySeq}) < n}

nextReservationDeadline(snap) ==
  LET r == earliestReservation(snap)
  IN  IF r = None THEN None ELSE snap[r].appointmentAt

computeQueueBuckets(snap) ==
  [waiting    |-> InState(snap, {"Waiting"}),
   calling    |-> InState(snap, {"Called"}),
   overdue    |-> InState(snap, {"Overdue"}),
   laneCounts |-> [lane \in Lane |-> waitingCount(snap, lane)],
   nextReservationDeadline |-> nextReservationDeadline(snap)]

\* What every socket is sent; an overdue entry carries its nudge count, so
\* that a page can tell one nudge from the next.
projectionPayload(snap) ==
  LET buckets == computeQueueBuckets(snap)
  IN  [laneCounts     |-> buckets.laneCounts,
       calling        |-> Project(snap, buckets.calling),
       overdue        |-> {<< projectAnonymous(snap, i), snap[i].nudgeCount >> :
                             i \in buckets.overdue},
       waitingPreview |-> Project(snap, Lowest(snap, buckets.waiting, WaitingPreview)),
       nextReservationDeadline |-> buckets.nextReservationDeadline]

\* Slip: the customer page counts by appointment, as the staff's order does.
positionByDeadline(payload, i) ==
  LET mine == {e \in payload.waitingPreview : e.id = i}
  IN  IF mine = {} THEN None
      ELSE LET t == CHOOSE e \in mine : TRUE
           IN  Cardinality({e \in payload.waitingPreview :
                  /\ e.lane = t.lane
                  /\ \/ t.appointmentAt = None /\ e.displaySeq < t.displaySeq
                     \/ t.appointmentAt # None /\ e.appointmentAt # None
                        /\ e.appointmentAt < t.appointmentAt})

\* The place in line the ticket page shows: its index among the previewed
\* entries of its lane, nothing when the preview does not reach it.
positionInfo(payload, i) ==
  LET mine == {e \in payload.waitingPreview : e.id = i}
  IN  IF mine = {} THEN None
      ELSE LET t == CHOOSE e \in mine : TRUE
           IN  Cardinality({e \in payload.waitingPreview :
                              e.lane = t.lane /\ e.displaySeq < t.displaySeq})

-----------------------------------------------------------------------------
(* Slots.  A slot is named by its local start, date and bucket in one.     *)

\* The instant the slot begins at in the deployment's time zone.
intervalOf(slot) == slot - UtcOffset

\* Slip: only waiting tickets are taken to hold their slot.
takenByWaiting(snap, slot) ==
  Cardinality({i \in Deadlined(snap) : snap[i].appointmentAt = intervalOf(slot)})

taken(snap, slot) ==
  Cardinality({i \in Held(snap) :
                 /\ snap[i].lane = "reservation"
                 /\ snap[i].state \in {"Waiting", "Called", "Overdue"}
                 /\ snap[i].appointmentAt = intervalOf(slot)})

\* The room GET /slots reports.
available(snap, slot, capacity) ==
  IF taken(snap, slot) >= capacity THEN 0 ELSE capacity - taken(snap, slot)

slotOf(snap, slot, capacity) ==
  [capacity |-> capacity, taken |-> taken(snap, slot),
   available |-> available(snap, slot, capacity)]

\* The instant the picker submits: the slot's local time, marked as UTC.
slotInstantOf(slot) == slot

=============================================================================
