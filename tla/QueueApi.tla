------------------------------ MODULE QueueApi ------------------------------
(***************************************************************************)
(* The Worker's HTTP surface over the QueueShop actor: every route of      *)
(* router.ts and of the registry routerRegistry.ts runs its checks in      *)
(* order, answers with the status of the first that fails, and otherwise   *)
(* calls the actor, which broadcasts the projection to the attached feeds  *)
(* after each dispatch that succeeded.                                     *)
(*                                                                         *)
(* A request is a member of small sets: whose credential it carries, the   *)
(* ticket it names or Malformed, the shape of its body, the holder it      *)
(* names.  The answer is its status; the tag and code it also carries      *)
(* decide the status and nothing else here.                                *)
(***************************************************************************)
EXTENDS QueueShop, QueueViews

CONSTANTS
  Malformed,  \* a path or body id that is not a ticket id
  Slots,      \* slots the picker offers, by their local start
  TtlSeconds  \* TTL_SECONDS of a staff login

ASSUME QueueApiAssumption ==
  /\ Malformed \notin TicketIds
  /\ \A s \in Slots : /\ s \in Nat /\ intervalOf(s) \in Nat
                       /\ << "reservation", slotInstantOf(s) >> \in IssueForms
                       /\ slotInstantOf(s) \in RescheduleTargets
  /\ TtlSeconds \in Nat \ {0}

VARIABLES
  feed,     \* the projection the attached feeds were last sent
  status    \* of the answer the last step gave, or None

apiVars == << vars, feed, status >>

-----------------------------------------------------------------------------
(* Statuses.                                                               *)

\* The tags of Errors.ts: an input that does not validate, an operation the
\* domain refuses; the store's are Storage, Concurrency and AggregateNotFound.
ValidationError ==
  {"InvalidPhoneLast4", "InvalidNameKana", "InvalidFreeText",
   "InvalidBusinessTimeZone", "InvalidEntityId", "MissingStaffCapability"}

DomainRuleError ==
  {"PhoneMismatch", "TicketNotFound", "QueueEmpty", "AlreadyCancelled",
   "AlreadyCompleted", "AlreadyNoShow", "InvalidStateTransition",
   "InsufficientCapability", "LaneMismatch", "SlotFull", "SlotInPast",
   "AppointmentRequiredForReservationLane", "CheckInTooEarly"}

NotFound == {"TicketNotFound", "AggregateNotFound", "InvalidEntityId"}

Forbidden == {"PhoneMismatch", "MissingStaffCapability", "InsufficientCapability"}

Unprocessable ==
  {"SlotInPast", "AppointmentRequiredForReservationLane"}
    \cup (ValidationError \ (NotFound \cup Forbidden))

Conflict ==
  {"Concurrency"} \cup (DomainRuleError \ (NotFound \cup Forbidden \cup Unprocessable))

\* Slip: a check-in before its window is answered 425 Too Early.
statusTooEarly(tag) ==
  CASE tag \in NotFound -> 404
    [] tag \in Forbidden -> 403
    [] tag \in Conflict \ {"CheckInTooEarly"} -> 409
    [] tag = "CheckInTooEarly" -> 425
    [] tag \in Unprocessable -> 422
    [] tag \in {"Storage", "Defect"} -> 500

\* STATUS_BY_TAG: what an error of the domain is answered with.
statusForTag(tag) ==
  CASE tag \in NotFound -> 404
    [] tag \in Forbidden -> 403
    [] tag \in Conflict -> 409
    [] tag \in Unprocessable -> 422
    [] tag \in {"Storage", "Defect"} -> 500

\* What the boundary answers before it reaches the actor.
failResponse(tag) ==
  CASE tag = "InvalidPayload" -> 400
    [] tag = "MissingStaffCapability" -> 401
    [] tag = "TicketNotFound" -> 404
    [] tag = "InvalidBody" -> 422

\* A check is << holds, status >>; the first that does not hold answers.
Passes(checks) == \A n \in DOMAIN checks : checks[n][1]

Verdict(checks) ==
  checks[CHOOSE n \in DOMAIN checks :
           ~checks[n][1] /\ \A m \in 1 .. n - 1 : checks[m][1]][2]

Refused(answer) ==
  /\ status' = answer
  /\ UNCHANGED << vars, feed >>

\* The shop's dispatch: the broadcast follows every success.
broadcastProjection == feed' = projectionPayload(tickets')

Answer(checks, act, answer) ==
  IF Passes(checks) THEN act /\ status' = answer ELSE Refused(Verdict(checks))

Dispatched(checks, act, answer) ==
  Answer(checks, act /\ broadcastProjection, answer)

-----------------------------------------------------------------------------
(* Checks of the boundary.                                                 *)

\* What a request may carry: nothing, the deployment secret in x-staff-token,
\* any other token, or the JWT or the cookie of a login.  The server keeps no
\* sessions: a login signs its expiry.
Anonymous == [kind |-> "none", exp |-> 0]

Header == [kind : {"token", "otherToken"}, exp : {0}]

Session == [kind : {"jwt", "cookie"}, exp : {t + TtlSeconds : t \in 0 .. now}]

Credential == {Anonymous} \cup Header \cup Session

\* jwtVerify refuses a token at its expiry, verifySession after it.
verifyStaffJwt(cred) == cred.kind = "jwt" /\ now < cred.exp

verifySession(cred) == cred.kind = "cookie" /\ now <= cred.exp

staffCapable(cred) ==
  \/ cred.kind = "token"
  \/ verifyStaffJwt(cred)
  \/ verifySession(cred)

requireStaff(cred) ==
  << << staffCapable(cred), failResponse("MissingStaffCapability") >> >>

\* A route of the staff alone asks for the credential before anything else.
StaffOnly(route) ==
  \/ /\ \E cred \in Credential : ~staffCapable(cred)
     /\ Refused(failResponse("MissingStaffCapability"))
  \/ (\E cred \in Credential : staffCapable(cred)) /\ route

decodeTicketIdParam(id) ==
  << << id # Malformed, failResponse("TicketNotFound") >> >>

\* The body is no JSON, JSON its schema refuses, or what the schema wants.
Body == {"unparsable", "misshapen", "good"}

parseJsonBody(body) ==
  << << body # "unparsable", failResponse("InvalidPayload") >> >>

decodeBody(body) ==
  << << body # "misshapen", failResponse("InvalidBody") >> >>

-----------------------------------------------------------------------------
(* Checks of the use cases.                                                *)

Failure(holds, tag) == << << holds, statusForTag(tag) >> >>

Is(id, states) == id \in InState(tickets, states)

loadOrTicketNotFound(id) == Failure(id \in Held(tickets), "TicketNotFound")

\* The holder named is the ticket's; it is only asked of a ticket that exists.
authenticateCustomer(id, h) ==
  loadOrTicketNotFound(id) \o
  Failure(id \in Held(tickets) => tickets[id].handle = h, "PhoneMismatch")

guardActive(id) ==
  Failure(~Is(id, {"Served"}), "AlreadyCompleted") \o
  Failure(~Is(id, {"Cancelled"}), "AlreadyCancelled") \o
  Failure(~Is(id, {"NoShow"}), "AlreadyNoShow")

from(id, states) == Failure(Is(id, states), "InvalidStateTransition")

\* What CallSpecific, CallBatch, MarkServed, MarkNoShow and Recall ask.
transition(id, states) ==
  loadOrTicketNotFound(id) \o guardActive(id) \o from(id, states)

checkInChecks(id) ==
  loadOrTicketNotFound(id) \o from(id, {"Waiting"}) \o
  Failure(Is(id, {"Waiting"}) => tickets[id].appointmentAt # None,
          "AppointmentRequiredForReservationLane") \o
  Failure(Is(id, {"Waiting"}) /\ tickets[id].appointmentAt # None =>
            now >= tickets[id].appointmentAt - CheckInWindow, "CheckInTooEarly")

slotHasRoom(id, at) ==
  Failure(id \in Held(tickets) =>
            \/ at = tickets[id].appointmentAt
            \/ occupancyExcludingSelf(tickets, id, SlotStart(at)) < SlotCapacity,
          "SlotFull")

rescheduleChecks(id, at) ==
  from(id, {"Waiting", "Called", "Overdue"}) \o
  Failure(id \in Held(tickets) => tickets[id].lane = "reservation", "LaneMismatch") \o
  Failure(id \in Held(tickets) => tickets[id].appointmentAt # None,
          "InvalidStateTransition") \o
  Failure(at >= now, "SlotInPast") \o
  slotHasRoom(id, at)

-----------------------------------------------------------------------------
(* Routes of the registry: limiter, staff guard, id, body, then the use    *)
(* case.                                                                   *)

\* A fresh ticket is answered 201, the holder's active one 200.
IssueRoute(i, h, form, body) ==
  LET checks == parseJsonBody(body) \o decodeBody(body)
  IN  \/ Dispatched(checks, IssueTicket(i, h, form), 201)
      \/ Dispatched(checks, MergeIssue(h), 200)

\* Asks for no holder: the ticket id is enough.
CheckInRoute(id) ==
  Dispatched(decodeTicketIdParam(id) \o checkInChecks(id), CheckIn(id), 200)

StaffTransition(id, act) ==
  Dispatched(decodeTicketIdParam(id)
               \o transition(id, {"Called", "Overdue"}), act, 200)

ServedRoute(id) == StaffTransition(id, MarkServed(id))

NoShowRoute(id) == StaffTransition(id, MarkNoShow(id))

RecallRoute(id) == StaffTransition(id, Recall(id))

\* An empty body is a call without a lane.
callNextChecks(lane, body) ==
  LET next == IF lane # None THEN head(tickets, lane)
              ELSE nextCallable(tickets, now, CallGrace)
  IN  parseJsonBody(body) \o decodeBody(body) \o Failure(next # None, "QueueEmpty")

CallNextRoute(lane, body) ==
  Dispatched(callNextChecks(lane, body), CallNext(lane), 200)

CallSpecificRoute(id, body) ==
  Dispatched(parseJsonBody(body) \o decodeBody(body)
               \o decodeTicketIdParam(id) \o transition(id, {"Waiting"}),
             CallSpecific(id), 200)

\* Slip: the members before the one that fails have been saved.
callBatchUpTo(ids, failing) ==
  /\ tickets' = [i \in TicketIds |-> IF i \in ids /\ InSt(i, {"Waiting"})
                                     THEN applyCall(tickets[i], now).ticket
                                     ELSE tickets[i]]
  /\ UNCHANGED << now, subs, alarmAt, sweepVars, feed >>
  /\ status' = Verdict(transition(failing, {"Waiting"}))

\* Every member is built before any is saved, so the first unfit member, in
\* the order of the list, refuses the batch.
callBatchRefused(ids, failing) ==
  Refused(Verdict(transition(failing, {"Waiting"})))

CallBatchRoute(ids, body) ==
  LET boundary == parseJsonBody(body) \o decodeBody(body)
      unfit == {id \in ids : ~Passes(transition(id, {"Waiting"}))}
  IN  IF ~Passes(boundary) \/ unfit = {}
      THEN Dispatched(boundary, CallBatch(ids), 200)
      ELSE \E failing \in unfit : callBatchRefused(ids, failing)

\* A list naming a ticket twice passes the schema; the actor fails half-way
\* and broadcasts nothing.
CallBatchRepeatingRoute(ids) ==
  /\ CallBatchRepeating(ids)
  /\ status' = statusForTag("Storage")
  /\ UNCHANGED feed

-----------------------------------------------------------------------------
(* Routes of router.ts.                                                    *)

staffCancelChecks(cred, id, body) ==
  parseJsonBody(body) \o decodeTicketIdParam(id) \o requireStaff(cred)
    \o decodeBody(body) \o loadOrTicketNotFound(id) \o guardActive(id)

cancelChecks(id, h, body) ==
  parseJsonBody(body) \o decodeTicketIdParam(id)
    \o decodeBody(body) \o authenticateCustomer(id, h) \o guardActive(id)

\* The presence of x-staff-token makes the request a staff member's.
CancelRoute(cred, id, h, body) ==
  IF cred \in Header
  THEN Dispatched(staffCancelChecks(cred, id, body), CancelTicket(id, "staff"), 200)
  ELSE Dispatched(cancelChecks(id, h, body), CancelTicket(id, "customer"), 200)

\* Only the right x-staff-token makes it staff's; h is None in a body that
\* names no holder, at is None when the instant does not parse: the actor
\* then throws.
RescheduleRoute(cred, id, h, at, body) ==
  LET staff == cred.kind = "token"
      boundary == decodeTicketIdParam(id) \o parseJsonBody(body) \o decodeBody(body)
                    \o << << staff \/ h # None, failResponse("InvalidBody") >> >>
                    \o Failure(at # None, "Defect")
      load == IF staff THEN loadOrTicketNotFound(id) ELSE authenticateCustomer(id, h)
  IN  IF ~Passes(boundary) THEN Refused(Verdict(boundary))
      ELSE Dispatched(load \o rescheduleChecks(id, at), RescheduleTicket(id, at), 200)

\* e is None for an endpoint of no known push service.
registerPushChecks(id, h, e, body) ==
  decodeTicketIdParam(id) \o parseJsonBody(body) \o decodeBody(body)
    \o << << e # None, failResponse("InvalidBody") >> >>
    \o loadOrTicketNotFound(id)
    \o << << ~Is(id, TERMINAL_TICKET_STATES), 409 >> >>
    \o authenticateCustomer(id, h)

RegisterPushRoute(id, h, e, body) ==
  Answer(registerPushChecks(id, h, e, body),
         registerPushSubscription(id, e) /\ UNCHANGED feed, 201)

\* A ticket that does not exist has nothing to release: that is a success.
unregisterPushChecks(id, h, body) ==
  decodeTicketIdParam(id) \o decodeBody(body)
    \o Failure(id \notin Held(tickets) \/ tickets[id].handle = h, "PhoneMismatch")

UnregisterPushRoute(id, h, e, body) ==
  Answer(unregisterPushChecks(id, h, body),
         /\ IF id \in Held(tickets) THEN unregisterPushSubscription(id, e)
            ELSE UNCHANGED vars
         /\ UNCHANGED feed, 200)

\* A read changes nothing.
Read(checks) == Answer(checks, UNCHANGED << vars, feed >>, 200)

MyTicketRoute(id, h, query) ==
  Read(decodeTicketIdParam(id) \o decodeBody(query) \o authenticateCustomer(id, h))

byHandleChecks(h, query) ==
  decodeBody(query) \o Failure(findActiveByHandle(tickets, h) # {}, "TicketNotFound")

ByHandleRoute(h, query) == Read(byHandleChecks(h, query))

StaffQueueRoute == Read(<< >>)

\* GET /queue refuses nothing, GET /slots a malformed range.
QueueRoute == Read(<< >>)

SlotsRoute(query) == Read(decodeBody(query))

loginChecks(right, body) ==
  parseJsonBody(body) \o decodeBody(body)
    \o << << right, failResponse("MissingStaffCapability") >> >>

\* The JWT and the cookie of one login expire together (Session).
handleStaffLogin(right, body) == Read(loginChecks(right, body))

\* A client attaches to the feed and is sent the projection at once.
feedRoute(upgrade) ==
  IF upgrade THEN /\ feed' = projectionPayload(tickets)
                  /\ status' = 101
                  /\ UNCHANGED vars
  ELSE Refused(426)

\* The limiter of the route refuses, whatever the request.
rateLimitMiddleware == Refused(429)

-----------------------------------------------------------------------------
Ids == TicketIds \cup {Malformed}

PickSlot(i, h, s, body) ==
  IssueRoute(i, h, << "reservation", slotInstantOf(s) >>, body)

\* None is an instant that does not parse.
Targets == RescheduleTargets \cup {None}

\* The holder a body names: one that does not decode names nobody.
Sent == [holder : Handles, body : {"good"}]
          \cup [holder : {None}, body : Body \ {"good"}]

\* What a holder's browser sends; it may carry any credential but the token.
HolderRoute(h, body) ==
  \/ \E i \in TicketIds, form \in IssueForms : IssueRoute(i, h, form, body)
  \/ \E id \in Ids :
       \/ CancelRoute(Anonymous, id, h, body)
       \/ \E at \in Targets : RescheduleRoute(Anonymous, id, h, at, body)
       \/ \E e \in Endpoints \cup {None} : RegisterPushRoute(id, h, e, body)
       \/ \E e \in Endpoints : UnregisterPushRoute(id, h, e, body)
       \/ MyTicketRoute(id, h, body)
  \/ ByHandleRoute(h, body)

PublicRoute ==
  \/ \E id \in Ids : CheckInRoute(id)
  \/ QueueRoute
  \/ \E query \in Body : SlotsRoute(query)
  \/ \E upgrade \in BOOLEAN : feedRoute(upgrade)
  \/ \E right \in BOOLEAN, body \in Body : handleStaffLogin(right, body)
  \/ rateLimitMiddleware

StaffRoute ==
  \/ StaffQueueRoute
  \/ \E id \in Ids : ServedRoute(id) \/ NoShowRoute(id) \/ RecallRoute(id)
  \/ \E ids \in (SUBSET TicketIds) \ {{}} : CallBatchRepeatingRoute(ids)
  \/ \E body \in Body :
       \/ \E lane \in Lane \cup {None} : CallNextRoute(lane, body)
       \/ \E ids \in (SUBSET TicketIds) \ {{}} : CallBatchRoute(ids, body)
       \/ \E id \in Ids : CallSpecificRoute(id, body)

\* A staff request names no holder; with another token a reschedule is taken
\* for a customer's and a cancellation refused.
StaffTicketRoute(body) ==
  \E id \in Ids, cred \in Header :
    \/ CancelRoute(cred, id, None, body)
    \/ \E at \in Targets : RescheduleRoute(cred, id, None, at, body)

\* Slip: the sweep saves without dispatching, so nothing is broadcast.
SweepInSilence == SweepAction /\ status' = None /\ UNCHANGED feed

\* A sweep's steps are dispatches: each that changes a row is broadcast.
Sweep ==
  /\ SweepAction
  /\ feed' = IF tickets' # tickets THEN projectionPayload(tickets') ELSE feed
  /\ status' = None

\* Time passes.  An eviction shows in nothing the surface answers or sends
\* (QueueShop has it): the sockets hibernate through it.
Quiet == Tick /\ status' = None /\ UNCHANGED feed

\* The answer leaves before the next request is looked at.
Received == status # None /\ status' = None /\ UNCHANGED << vars, feed >>

ApiInit ==
  /\ Init
  /\ feed = projectionPayload(tickets)
  /\ status = None

Serving ==
  /\ status = None
  /\ \/ \E sent \in Sent : HolderRoute(sent.holder, sent.body)
     \/ PublicRoute
     \/ StaffOnly(StaffRoute)
     \/ \E body \in Body : StaffTicketRoute(body)
     \/ Sweep
     \/ Quiet

ApiNext == Received \/ Serving

ApiSpec == ApiInit /\ [][ApiNext]_apiVars

-----------------------------------------------------------------------------
(* Properties.                                                             *)

\* A customer who waits never sees the number of people ahead grow, neither
\* in the queue nor on the page that counts from the last broadcast, however
\* issues, calls, reschedules and sweeps interleave: only a recall puts
\* somebody back in front.
PositionNeverGrows ==
  [][LET Grows(p, q) == p # None /\ q # None /\ q > p
         recalled == \E j \in TicketIds : /\ InSt(j, {"Called", "Overdue"})
                                         /\ tickets'[j].state = "Waiting"
     IN  << tickets, feed >>' # << tickets, feed >> /\ ~recalled
         => \A i \in TicketIds :
              /\ ~Grows(positionOf(tickets, i), positionOf(tickets', i))
              /\ ~Grows(positionInfo(feed, i), positionInfo(feed', i))]_apiVars

\* An answer that reports a failure has changed nothing: no row, subscription
\* or alarm, and no feed heard of it, a batch refused at its last member
\* included.  The one exception is the batch that names a ticket twice: rows
\* were saved when it fails with 500.
RefusalChangesNothing ==
  [][status' # None /\ status' >= 400
       => /\ tickets' = tickets \/ status' = 500
          /\ UNCHANGED << subs, alarmAt, feed >>]_apiVars

\* Whatever changes what the feed shows is broadcast in the same step, a
\* sweep's promotions, nudges and closings included, except by that batch:
\* the comment "failed actions do not change shop state" (QueueShop.ts,
\* dispatch) is why it does not broadcast.
FeedFollows ==
  [][tickets' # tickets /\ projectionPayload(tickets') # projectionPayload(tickets)
       => feed' = projectionPayload(tickets') \/ status' = 500]_apiVars

\* A booking moved onto the grid never puts more bookings on its slot than it
\* holds, whatever the issues before it did.
RescheduleNeverOverbooks ==
  [][tickets' # tickets => \A i \in TicketIds :
       /\ tickets[i] # None
       /\ tickets'[i].appointmentAt # tickets[i].appointmentAt
       /\ SlotStart(tickets'[i].appointmentAt) = tickets'[i].appointmentAt
       => slotOccupancy(tickets', tickets'[i].appointmentAt) <= SlotCapacity]_apiVars

\* The room GET /slots reports and the room RescheduleTicket finds are counted
\* by two pieces of code and agree: a booking can be moved to another slot iff
\* the picker shows room in it.
SlotsViewAgrees ==
  \A i \in TicketIds, s \in Slots :
    /\ Active(i)
    /\ tickets[i].lane = "reservation"
    /\ tickets[i].appointmentAt # intervalOf(s)
    /\ SlotStart(intervalOf(s)) = intervalOf(s)
    => (available(tickets, s, SlotCapacity) > 0
          <=> Passes(slotHasRoom(i, intervalOf(s))))

\* "The slot ISO encoding writes the local Y-M-D + H:M as if it were UTC.  The
\* backend's TZ-aware decoder (DEPLOYMENT_TIMEZONE) re-interprets that"
\* (slotTime.ts): a picked slot is booked at the slot's own beginning.
PickedSlotIsBooked ==
  [][\A i \in TicketIds, h \in Handles, s \in Slots :
       PickSlot(i, h, s, "good") /\ status' = 201
         => tickets'[i].appointmentAt = intervalOf(s)]_apiVars

=============================================================================
