--------------------------- MODULE QueueApiProofs ---------------------------
(***************************************************************************)
(* Proofs about the HTTP surface, for any number of tickets, customers and *)
(* slots.  Every route, whatever it checks and in whichever order, does    *)
(* one of five things (ApiStep); the rest follows from them.               *)
(***************************************************************************)
EXTENDS OpenApi, QueueShopProofs, SequenceTheorems, FiniteSetTheorems

\* Lists of checks.
CheckList == Seq(BOOLEAN \X Nat)

\* What a step of the surface does: nothing; a step of the actor that is
\* broadcast; one that moves no row and is not; a feed that attaches; or the
\* batch that fails half-way.
ApiStep ==
  \/ UNCHANGED << vars, feed >>
  \/ Next /\ status' \in {200, 201, None} /\ feed' = projectionPayload(tickets')
  \/ Next /\ status' \in {200, 201, None} /\ UNCHANGED << tickets, feed >>
  \/ UNCHANGED vars /\ status' = 101 /\ feed' = projectionPayload(tickets')
  \/ /\ \E ids : CallBatchRepeating(ids)
     /\ Next /\ status' = 500 /\ UNCHANGED << subs, alarmAt, feed >>

\* One list of checks after the other holds iff both do.
LEMMA Concatenated ==
  ASSUME NEW s \in CheckList, NEW t \in CheckList
  PROVE  /\ s \o t \in CheckList
         /\ Passes(s \o t) <=> Passes(s) /\ Passes(t)
<1>1. s \o t \in CheckList /\ Len(s \o t) = Len(s) + Len(t)
  BY DEF CheckList
<1>2. /\ DOMAIN s = 1 .. Len(s) /\ Len(s) \in Nat
      /\ DOMAIN t = 1 .. Len(t) /\ Len(t) \in Nat
      /\ DOMAIN (s \o t) = 1 .. Len(s) + Len(t)
  BY <1>1 DEF CheckList
<1>3. \A n \in 1 .. Len(s) : (s \o t)[n] = s[n]
  BY <1>2 DEF CheckList
<1>4. \A n \in 1 .. Len(t) : (s \o t)[Len(s) + n] = t[n]
  BY <1>2 DEF CheckList
<1>5. ASSUME Passes(s \o t) PROVE Passes(s) /\ Passes(t)
  <2>1. Passes(s)
    BY <1>2, <1>3, <1>5 DEF Passes
  <2>2. ASSUME NEW n \in DOMAIN t PROVE t[n][1]
    <3>1. Len(s) + n \in DOMAIN (s \o t)
      BY <1>2
    <3> QED
      BY <1>2, <1>4, <1>5, <3>1 DEF Passes
  <2> QED
    BY <2>1, <2>2 DEF Passes
<1>6. ASSUME Passes(s), Passes(t) PROVE Passes(s \o t)
  <2> SUFFICES ASSUME NEW n \in DOMAIN (s \o t) PROVE (s \o t)[n][1]
    BY DEF Passes
  <2>1. CASE n \in 1 .. Len(s)
    BY <1>2, <1>3, <1>6, <2>1 DEF Passes
  <2>2. CASE n \notin 1 .. Len(s)
    <3>1. n - Len(s) \in 1 .. Len(t) /\ n = Len(s) + (n - Len(s))
      BY <1>2, <2>2
    <3> QED
      BY <1>2, <1>4, <1>6, <3>1 DEF Passes
  <2> QED
    BY <2>1, <2>2
<1> QED
  BY <1>1, <1>5, <1>6

\* A single check holds iff its condition does.
LEMMA Single ==
  ASSUME NEW holds \in BOOLEAN, NEW answer \in Nat
  PROVE  /\ << << holds, answer >> >> \in CheckList
         /\ Passes(<< << holds, answer >> >>) <=> holds
BY DEF CheckList, Passes

\* Every status a check answers with is a number.
LEMMA StatusType ==
  /\ \A tag \in {"InvalidPayload", "MissingStaffCapability", "TicketNotFound", "InvalidBody"} :
       failResponse(tag) \in Nat
  /\ \A tag \in ValidationError \cup DomainRuleError \cup {"Storage", "Defect"} :
       statusForTag(tag) \in Nat
  /\ statusForTag("Storage") = 500
<1>1. \A tag \in {"InvalidPayload", "MissingStaffCapability", "TicketNotFound", "InvalidBody"} :
        failResponse(tag) \in Nat
  BY DEF failResponse
<1>2. \A tag \in ValidationError \cup DomainRuleError \cup {"Storage", "Defect"} :
        statusForTag(tag) \in Nat
  BY DEF statusForTag, ValidationError, DomainRuleError, NotFound, Forbidden,
         Unprocessable, Conflict
<1>3. statusForTag("Storage") = 500
  BY DEF statusForTag, ValidationError, DomainRuleError, NotFound, Forbidden,
         Unprocessable, Conflict
<1> QED
  BY <1>1, <1>2, <1>3

\* What the checks at the boundary ask.
LEMMA BoundaryChecks ==
  ASSUME NEW id, NEW body, NEW cred, NEW holds \in BOOLEAN
  PROVE  /\ decodeTicketIdParam(id) \in CheckList
         /\ Passes(decodeTicketIdParam(id)) <=> id # Malformed
         /\ parseJsonBody(body) \in CheckList
         /\ Passes(parseJsonBody(body)) <=> body # "unparsable"
         /\ decodeBody(body) \in CheckList
         /\ Passes(decodeBody(body)) <=> body # "misshapen"
         /\ requireStaff(cred) \in CheckList
         /\ << << holds, failResponse("InvalidBody") >> >> \in CheckList
         /\ Passes(<< << holds, failResponse("InvalidBody") >> >>) <=> holds
<1>1. /\ failResponse("InvalidPayload") \in Nat
      /\ failResponse("MissingStaffCapability") \in Nat
      /\ failResponse("TicketNotFound") \in Nat
      /\ failResponse("InvalidBody") \in Nat
  BY StatusType
<1>2. ASSUME NEW c PROVE staffCapable(c) \in BOOLEAN
  BY DEF staffCapable
<1> QED
  BY <1>1, <1>2, Single DEF decodeTicketIdParam, parseJsonBody, decodeBody, requireStaff

\* What a check of a use case asks.
LEMMA FailureCheck ==
  ASSUME NEW holds \in BOOLEAN,
         NEW tag \in ValidationError \cup DomainRuleError \cup {"Storage", "Defect"}
  PROVE  /\ Failure(holds, tag) \in CheckList
         /\ Passes(Failure(holds, tag)) <=> holds
BY StatusType, Single DEF Failure

\* The checks of the use cases are lists of checks.
LEMMA UseCaseChecks ==
  ASSUME NEW id, NEW h, NEW at, NEW states
  PROVE  /\ loadOrTicketNotFound(id) \in CheckList
         /\ authenticateCustomer(id, h) \in CheckList
         /\ guardActive(id) \in CheckList
         /\ transition(id, states) \in CheckList
         /\ checkInChecks(id) \in CheckList
         /\ rescheduleChecks(id, at) \in CheckList
<1>1. ASSUME NEW holds \in BOOLEAN,
             NEW tag \in {"TicketNotFound", "PhoneMismatch", "AlreadyCompleted",
                          "AlreadyCancelled", "AlreadyNoShow", "InvalidStateTransition",
                          "AppointmentRequiredForReservationLane", "CheckInTooEarly",
                          "SlotFull", "SlotInPast", "LaneMismatch"}
      PROVE  Failure(holds, tag) \in CheckList
  <2>1. tag \in DomainRuleError
    BY DEF DomainRuleError
  <2> QED
    BY <2>1, FailureCheck
<1>2. \A s, t \in CheckList : s \o t \in CheckList
  BY Concatenated
<1>3. loadOrTicketNotFound(id) \in CheckList
  <2> DEFINE known == id \in Held(tickets)
  <2>1. known \in BOOLEAN
    OBVIOUS
  <2> HIDE DEF known
  <2>2. Failure(known, "TicketNotFound") \in CheckList
    BY <1>1, <2>1
  <2> QED
    BY <2>2 DEF loadOrTicketNotFound, known
<1>4. authenticateCustomer(id, h) \in CheckList
  <2>1. Failure(id \in Held(tickets) => tickets[id].handle = h, "PhoneMismatch") \in CheckList
    BY <1>1
  <2> QED
    BY <1>2, <1>3, <2>1 DEF authenticateCustomer
<1>5. ASSUME NEW st PROVE Is(id, st) \in BOOLEAN
  BY DEF Is, InState, Held
<1>6. ASSUME NEW st PROVE from(id, st) \in CheckList
  BY <1>1, <1>5 DEF from
<1>7. guardActive(id) \in CheckList
  <2>1. /\ Failure(~Is(id, {"Served"}), "AlreadyCompleted") \in CheckList
        /\ Failure(~Is(id, {"Cancelled"}), "AlreadyCancelled") \in CheckList
        /\ Failure(~Is(id, {"NoShow"}), "AlreadyNoShow") \in CheckList
    BY <1>1
  <2> QED
    BY <1>2, <2>1 DEF guardActive
<1>8. transition(id, states) \in CheckList
  BY <1>2, <1>3, <1>6, <1>7 DEF transition
<1>9. checkInChecks(id) \in CheckList
  <2>1. /\ Failure(Is(id, {"Waiting"}) => tickets[id].appointmentAt # None,
                   "AppointmentRequiredForReservationLane") \in CheckList
        /\ Failure(Is(id, {"Waiting"}) /\ tickets[id].appointmentAt # None =>
                     now >= tickets[id].appointmentAt - CheckInWindow,
                   "CheckInTooEarly") \in CheckList
    BY <1>1
  <2> QED
    BY <1>2, <1>3, <1>6, <2>1 DEF checkInChecks
<1>10. slotHasRoom(id, at) \in CheckList
  BY <1>1 DEF slotHasRoom
<1>11. rescheduleChecks(id, at) \in CheckList
  <2>1. /\ Failure(id \in Held(tickets) => tickets[id].lane = "reservation",
                   "LaneMismatch") \in CheckList
        /\ Failure(id \in Held(tickets) => tickets[id].appointmentAt # None,
                   "InvalidStateTransition") \in CheckList
    BY <1>1
  <2>2. Failure(at >= now, "SlotInPast") \in CheckList
    <3> DEFINE ahead == at >= now
    <3>1. ahead \in BOOLEAN
      OBVIOUS
    <3> HIDE DEF ahead
    <3>2. Failure(ahead, "SlotInPast") \in CheckList
      BY <1>1, <3>1
    <3> QED
      BY <3>2 DEF ahead
  <2> QED
    BY <1>2, <1>6, <1>10, <2>1, <2>2 DEF rescheduleChecks
<1> QED
  BY <1>3, <1>4, <1>7, <1>8, <1>9, <1>11

-----------------------------------------------------------------------------
(* Every route takes one of the steps of ApiStep.                          *)

\* A refusal, and any read, changes nothing.
LEMMA ReadStep ==
  ASSUME NEW checks, Read(checks)
  PROVE  ApiStep
BY DEF Read, Answer, Refused, ApiStep

\* A body that names no holder is refused before the holder is asked for.
LEMMA IssueStep ==
  ASSUME NEW i \in TicketIds, NEW h, NEW form \in IssueForms, NEW body \in Body,
         h \in Handles \/ body # "good", IssueRoute(i, h, form, body)
  PROVE  ApiStep
<1> DEFINE checks == parseJsonBody(body) \o decodeBody(body)
<1>1. checks \in CheckList /\ (Passes(checks) => body = "good")
  BY BoundaryChecks, Concatenated DEF Body
<1>2. \/ Dispatched(checks, IssueTicket(i, h, form), 201)
      \/ Dispatched(checks, MergeIssue(h), 200)
  BY DEF IssueRoute
<1>3. CASE Passes(checks)
  <2>1. h \in Handles
    BY <1>1, <1>3
  <2>2. IssueTicket(i, h, form) \/ MergeIssue(h) => Next
    BY <2>1 DEF Next, CustomerAction
  <2> QED
    BY <1>2, <1>3, <2>2 DEF Dispatched, Answer, broadcastProjection, ApiStep
<1>4. CASE ~Passes(checks)
  BY <1>2, <1>4 DEF Dispatched, Answer, Refused, ApiStep
<1> QED
  BY <1>3, <1>4

\* A path id that passes its check is a ticket id.
LEMMA CheckInStep ==
  ASSUME NEW id \in Ids, CheckInRoute(id)
  PROVE  ApiStep
<1> DEFINE checks == decodeTicketIdParam(id) \o checkInChecks(id)
<1>1. Passes(checks) => id # Malformed
  BY BoundaryChecks, UseCaseChecks, Concatenated
<1>2. CASE Passes(checks)
  <2>1. CheckIn(id) => Next
    BY <1>1, <1>2 DEF Ids, Next, CustomerAction
  <2> QED
    BY <1>2, <2>1 DEF CheckInRoute, Dispatched, Answer, broadcastProjection, ApiStep
<1>3. CASE ~Passes(checks)
  BY <1>3 DEF CheckInRoute, Dispatched, Answer, Refused, ApiStep
<1> QED
  BY <1>2, <1>3

LEMMA StaffTransitionStep ==
  ASSUME NEW id \in Ids, ServedRoute(id) \/ NoShowRoute(id) \/ RecallRoute(id)
  PROVE  ApiStep
<1> DEFINE checks == decodeTicketIdParam(id) \o transition(id, {"Called", "Overdue"})
<1>1. Passes(checks) => id # Malformed
  BY BoundaryChecks, UseCaseChecks, Concatenated
<1>2. CASE Passes(checks)
  <2>1. MarkServed(id) \/ MarkNoShow(id) \/ Recall(id) => Next
    BY <1>1, <1>2 DEF Ids, Next, StaffAction
  <2> QED
    BY <1>2, <2>1 DEF ServedRoute, NoShowRoute, RecallRoute, StaffTransition,
       Dispatched, Answer, broadcastProjection, ApiStep
<1>3. CASE ~Passes(checks)
  BY <1>3 DEF ServedRoute, NoShowRoute, RecallRoute, StaffTransition,
     Dispatched, Answer, Refused, ApiStep
<1> QED
  BY <1>2, <1>3

LEMMA CallStep ==
  ASSUME NEW body,
         \/ \E lane \in Lane \cup {None} : CallNextRoute(lane, body)
         \/ \E id \in Ids : CallSpecificRoute(id, body)
  PROVE  ApiStep
<1>1. ASSUME NEW lane \in Lane \cup {None}, CallNextRoute(lane, body)
      PROVE  ApiStep
  <2>1. CallNext(lane) => Next
    BY DEF Next, StaffAction
  <2> QED
    BY <1>1, <2>1 DEF CallNextRoute, Dispatched, Answer, Refused,
       broadcastProjection, ApiStep
<1>2. ASSUME NEW id \in Ids, CallSpecificRoute(id, body)
      PROVE  ApiStep
  <2> DEFINE boundary == parseJsonBody(body) \o decodeBody(body)
             named == boundary \o decodeTicketIdParam(id)
             checks == named \o transition(id, {"Waiting"})
  <2>1. boundary \in CheckList
    BY BoundaryChecks, Concatenated
  <2>2. named \in CheckList /\ (Passes(named) => id # Malformed)
    <3> HIDE DEF boundary
    <3> QED
      BY <2>1, BoundaryChecks, Concatenated
  <2>3. Passes(checks) => id # Malformed
    <3> HIDE DEF named
    <3> QED
      BY <2>2, UseCaseChecks, Concatenated
  <2>4. Dispatched(checks, CallSpecific(id), 200)
    BY <1>2 DEF CallSpecificRoute
  <2> HIDE DEF checks
  <2>5. Passes(checks) /\ CallSpecific(id) => Next
    BY <2>3 DEF Ids, Next, StaffAction
  <2> QED
    BY <2>4, <2>5 DEF Dispatched, Answer, Refused, broadcastProjection, ApiStep
<1> QED
  BY <1>1, <1>2

LEMMA CallBatchStep ==
  ASSUME NEW ids \in (SUBSET TicketIds) \ {{}}, NEW body,
         CallBatchRoute(ids, body) \/ CallBatchRepeatingRoute(ids)
  PROVE  ApiStep
<1>1. CallBatch(ids) \/ CallBatchRepeating(ids) => Next
  BY DEF Next, StaffAction
<1>2. CASE CallBatchRoute(ids, body)
  <2> DEFINE boundary == parseJsonBody(body) \o decodeBody(body)
  <2>1. \/ Dispatched(boundary, CallBatch(ids), 200)
        \/ \E failing : callBatchRefused(ids, failing)
    BY <1>2 DEF CallBatchRoute
  <2> HIDE DEF boundary
  <2> QED
    BY <1>1, <2>1 DEF callBatchRefused, Dispatched, Answer, Refused,
       broadcastProjection, ApiStep
<1>3. CASE CallBatchRepeatingRoute(ids)
  BY <1>1, <1>3, StatusType DEF CallBatchRepeatingRoute, CallBatchRepeating, ApiStep
<1> QED
  BY <1>2, <1>3

\* Staff's cancellation and a customer's differ in what they ask and in who
\* the row names.
LEMMA CancelStep ==
  ASSUME NEW cred, NEW id \in Ids, NEW h, NEW body, CancelRoute(cred, id, h, body)
  PROVE  ApiStep
<1> DEFINE start == parseJsonBody(body) \o decodeTicketIdParam(id)
           byStaff == start \o requireStaff(cred) \o decodeBody(body)
                        \o loadOrTicketNotFound(id) \o guardActive(id)
           byHolder == start \o decodeBody(body)
                         \o authenticateCustomer(id, h) \o guardActive(id)
<1>1. start \in CheckList /\ (Passes(start) => id # Malformed)
  BY BoundaryChecks, Concatenated
<1>2. \/ Dispatched(byStaff, CancelTicket(id, "staff"), 200)
      \/ Dispatched(byHolder, CancelTicket(id, "customer"), 200)
  BY DEF CancelRoute, staffCancelChecks, cancelChecks
<1> HIDE DEF start
<1>3. Passes(byStaff) => Passes(start)
  <2> DEFINE a == start \o requireStaff(cred)
             b == a \o decodeBody(body)
             c == b \o loadOrTicketNotFound(id)
  <2>1. a \in CheckList /\ (Passes(a) => Passes(start))
    BY <1>1, BoundaryChecks, Concatenated
  <2> HIDE DEF a
  <2>2. b \in CheckList /\ (Passes(b) => Passes(a))
    BY <2>1, BoundaryChecks, Concatenated
  <2> HIDE DEF b
  <2>3. c \in CheckList /\ (Passes(c) => Passes(b))
    BY <2>2, UseCaseChecks, Concatenated
  <2> HIDE DEF c
  <2>4. Passes(c \o guardActive(id)) => Passes(c)
    BY <2>3, UseCaseChecks, Concatenated
  <2> QED
    BY <2>1, <2>2, <2>3, <2>4 DEF a, b, c
<1>4. Passes(byHolder) => Passes(start)
  <2> DEFINE a == start \o decodeBody(body)
             b == a \o authenticateCustomer(id, h)
  <2>1. a \in CheckList /\ (Passes(a) => Passes(start))
    BY <1>1, BoundaryChecks, Concatenated
  <2> HIDE DEF a
  <2>2. b \in CheckList /\ (Passes(b) => Passes(a))
    BY <2>1, UseCaseChecks, Concatenated
  <2> HIDE DEF b
  <2>3. Passes(b \o guardActive(id)) => Passes(b)
    BY <2>2, UseCaseChecks, Concatenated
  <2> QED
    BY <2>1, <2>2, <2>3 DEF a, b
<1> HIDE DEF byStaff, byHolder
<1>5. id # Malformed /\ (CancelTicket(id, "staff") \/ CancelTicket(id, "customer")) => Next
  BY DEF Ids, Next, StaffAction, CustomerAction
<1> QED
  BY <1>1, <1>2, <1>3, <1>4, <1>5 DEF Dispatched, Answer, Refused,
     broadcastProjection, ApiStep

\* An instant that does not parse is refused before the use case.
LEMMA RescheduleStep ==
  ASSUME NEW cred, NEW id \in Ids, NEW h, NEW at \in Targets, NEW body,
         RescheduleRoute(cred, id, h, at, body)
  PROVE  ApiStep
<1> DEFINE staff == cred.kind = "token"
           a == decodeTicketIdParam(id) \o parseJsonBody(body)
           b == a \o decodeBody(body)
           named == << << staff \/ h # None, failResponse("InvalidBody") >> >>
           c == b \o named
           boundary == c \o Failure(at # None, "Defect")
           load == IF staff THEN loadOrTicketNotFound(id) ELSE authenticateCustomer(id, h)
<1>1. \/ Refused(Verdict(boundary))
      \/ /\ Passes(boundary)
         /\ Dispatched(load \o rescheduleChecks(id, at), RescheduleTicket(id, at), 200)
  BY DEF RescheduleRoute
<1>2. a \in CheckList /\ (Passes(a) => id # Malformed)
  BY BoundaryChecks, Concatenated
<1>3. b \in CheckList /\ (Passes(b) => Passes(a))
  <2> HIDE DEF a
  <2> QED
    BY <1>2, BoundaryChecks, Concatenated
<1>4. named \in CheckList
  <2> DEFINE holds == staff \/ h # None
  <2>1. holds \in BOOLEAN
    OBVIOUS
  <2> HIDE DEF holds, staff
  <2>2. << << holds, failResponse("InvalidBody") >> >> \in CheckList
    BY <2>1, BoundaryChecks
  <2> QED
    BY <2>2 DEF holds
<1> HIDE DEF b, named
<1>5. c \in CheckList /\ (Passes(c) => Passes(b))
  BY <1>3, <1>4, Concatenated
<1> HIDE DEF c
<1>6. Passes(boundary) => Passes(c) /\ at # None
  <2>1. /\ Failure(at # None, "Defect") \in CheckList
        /\ Passes(Failure(at # None, "Defect")) <=> at # None
    BY FailureCheck
  <2> QED
    BY <1>5, <2>1, Concatenated
<1> HIDE DEF a, boundary, load
<1>7. Passes(boundary) /\ RescheduleTicket(id, at) => Next
  BY <1>2, <1>3, <1>5, <1>6 DEF Ids, Targets, Next, CustomerAction
<1> QED
  BY <1>1, <1>7 DEF Dispatched, Answer, Refused, broadcastProjection, ApiStep

\* The subscription routes move no row, so they broadcast nothing.
LEMMA RegisterStep ==
  ASSUME NEW id \in Ids, NEW h, NEW e \in Endpoints \cup {None}, NEW body,
         RegisterPushRoute(id, h, e, body)
  PROVE  ApiStep
<1> DEFINE a == decodeTicketIdParam(id) \o parseJsonBody(body)
           b == a \o decodeBody(body)
           known == << << e # None, failResponse("InvalidBody") >> >>
           c == b \o known
           d == c \o loadOrTicketNotFound(id)
           open == << << ~Is(id, TERMINAL_TICKET_STATES), 409 >> >>
           f == d \o open
           checks == f \o authenticateCustomer(id, h)
<1>1. Answer(checks, registerPushSubscription(id, e) /\ UNCHANGED feed, 201)
  BY DEF RegisterPushRoute, registerPushChecks
<1>2. a \in CheckList /\ (Passes(a) => id # Malformed)
  BY BoundaryChecks, Concatenated
<1>3. b \in CheckList /\ (Passes(b) => Passes(a))
  <2> HIDE DEF a
  <2> QED
    BY <1>2, BoundaryChecks, Concatenated
<1>4. known \in CheckList /\ (Passes(known) <=> e # None)
  BY BoundaryChecks
<1>5. open \in CheckList
  <2> DEFINE active == ~Is(id, TERMINAL_TICKET_STATES)
  <2>1. active \in BOOLEAN
    OBVIOUS
  <2> HIDE DEF active
  <2>2. << << active, 409 >> >> \in CheckList
    BY <2>1, Single
  <2> QED
    BY <2>2 DEF active
<1> HIDE DEF b, known, open
<1>6. c \in CheckList /\ (Passes(c) => Passes(b) /\ e # None)
  BY <1>3, <1>4, Concatenated
<1> HIDE DEF c
<1>7. d \in CheckList /\ (Passes(d) => Passes(c))
  BY <1>6, UseCaseChecks, Concatenated
<1> HIDE DEF d
<1>8. f \in CheckList /\ (Passes(f) => Passes(d))
  BY <1>5, <1>7, Concatenated
<1> HIDE DEF f
<1>9. Passes(checks) => Passes(f)
  BY <1>8, UseCaseChecks, Concatenated
<1> HIDE DEF a, checks
<1>10. Passes(checks) /\ registerPushSubscription(id, e) => Next
  BY <1>2, <1>3, <1>6, <1>7, <1>8, <1>9 DEF Ids, Next, CustomerAction
<1> QED
  BY <1>1, <1>10 DEF Answer, Refused, registerPushSubscription, ApiStep

LEMMA UnregisterStep ==
  ASSUME NEW id \in Ids, NEW h, NEW e \in Endpoints, NEW body,
         UnregisterPushRoute(id, h, e, body)
  PROVE  ApiStep
<1> DEFINE boundary == decodeTicketIdParam(id) \o decodeBody(body)
           unknown == id \notin Held(tickets)
           own == id \notin Held(tickets) \/ tickets[id].handle = h
           checks == boundary \o Failure(own, "PhoneMismatch")
           act == /\ IF unknown THEN UNCHANGED vars ELSE unregisterPushSubscription(id, e)
                  /\ UNCHANGED feed
<1>1. Answer(checks, act, 200)
  BY DEF UnregisterPushRoute, unregisterPushChecks
<1>2. boundary \in CheckList /\ (Passes(boundary) => id # Malformed)
  BY BoundaryChecks, Concatenated
<1>3. Failure(own, "PhoneMismatch") \in CheckList
  <2>1. own \in BOOLEAN
    OBVIOUS
  <2>2. "PhoneMismatch" \in DomainRuleError
    BY DEF DomainRuleError
  <2> HIDE DEF own
  <2> QED
    BY <2>1, <2>2, FailureCheck
<1> HIDE DEF boundary, own
<1>4. Passes(checks) => id # Malformed
  BY <1>2, <1>3, Concatenated
<1> HIDE DEF checks
<1>5. CASE Passes(checks)
  <2>1. unregisterPushSubscription(id, e) => Next
    BY <1>4, <1>5 DEF Ids, Next, CustomerAction
  <2> QED
    BY <1>1, <1>5, <2>1 DEF Answer, unregisterPushSubscription, ApiStep, vars
<1>6. CASE ~Passes(checks)
  BY <1>1, <1>6 DEF Answer, Refused, ApiStep
<1> QED
  BY <1>5, <1>6

LEMMA HolderRouteStep ==
  ASSUME NEW sent \in Sent, HolderRoute(sent.holder, sent.body)
  PROVE  ApiStep
<1> DEFINE h == sent.holder
           body == sent.body
<1>1. body \in Body /\ (h \in Handles \/ body # "good")
  BY DEF Sent, Body
<1> HIDE DEF h, body
<1>2. ASSUME NEW i \in TicketIds, NEW form \in IssueForms, IssueRoute(i, h, form, body)
      PROVE  ApiStep
  BY <1>1, <1>2, IssueStep
<1>3. ASSUME NEW id \in Ids, CancelRoute(Anonymous, id, h, body)
      PROVE  ApiStep
  BY <1>3, CancelStep
<1>4. ASSUME NEW id \in Ids, NEW at \in Targets, RescheduleRoute(Anonymous, id, h, at, body)
      PROVE  ApiStep
  BY <1>4, RescheduleStep
<1>5. ASSUME NEW id \in Ids, NEW e \in Endpoints \cup {None}, RegisterPushRoute(id, h, e, body)
      PROVE  ApiStep
  BY <1>5, RegisterStep
<1>6. ASSUME NEW id \in Ids, NEW e \in Endpoints, UnregisterPushRoute(id, h, e, body)
      PROVE  ApiStep
  BY <1>6, UnregisterStep
<1>7. ASSUME NEW id \in Ids, MyTicketRoute(id, h, body)
      PROVE  ApiStep
  BY <1>7, ReadStep DEF MyTicketRoute
<1>8. ASSUME ByHandleRoute(h, body)
      PROVE  ApiStep
  BY <1>8, ReadStep DEF ByHandleRoute
<1> QED
  BY <1>2, <1>3, <1>4, <1>5, <1>6, <1>7, <1>8 DEF HolderRoute, h, body

LEMMA PublicRouteStep ==
  ASSUME PublicRoute
  PROVE  ApiStep
<1>1. ASSUME NEW id \in Ids, CheckInRoute(id)
      PROVE  ApiStep
  BY <1>1, CheckInStep
<1>2. ASSUME NEW body, NEW right, SlotsRoute(body) \/ handleStaffLogin(right, body)
      PROVE  ApiStep
  BY <1>2, ReadStep DEF SlotsRoute, handleStaffLogin
<1>3. ASSUME NEW upgrade, feedRoute(upgrade)
      PROVE  ApiStep
  BY <1>3 DEF feedRoute, Refused, ApiStep, vars
<1>4. ASSUME rateLimitMiddleware
      PROVE  ApiStep
  BY <1>4 DEF rateLimitMiddleware, Refused, ApiStep
<1>5. ASSUME QueueRoute
      PROVE  ApiStep
  BY <1>5, ReadStep DEF QueueRoute
<1> QED
  BY <1>1, <1>2, <1>3, <1>4, <1>5 DEF PublicRoute

LEMMA StaffRouteStep ==
  ASSUME StaffRoute
  PROVE  ApiStep
<1>1. ASSUME StaffQueueRoute
      PROVE  ApiStep
  BY <1>1, ReadStep DEF StaffQueueRoute
<1> QED
  BY <1>1, StaffTransitionStep, CallStep, CallBatchStep DEF StaffRoute

\* The sweep's steps are the actor's, broadcast when they change a row.
LEMMA SweepStep ==
  ASSUME Sweep \/ Quiet
  PROVE  ApiStep
<1>1. SweepAction \/ Tick => Next
  BY DEF Next
<1> QED
  BY <1>1 DEF Sweep, Quiet, Tick, ApiStep

\* Every step of the surface.
LEMMA EveryStep ==
  ASSUME [ApiNext]_apiVars
  PROVE  ApiStep \/ UNCHANGED apiVars
<1>1. ASSUME Received
      PROVE  ApiStep
  BY <1>1 DEF Received, ApiStep
<1>2. ASSUME Serving
      PROVE  ApiStep
  <2>1. ASSUME StaffOnly(StaffRoute)
        PROVE  ApiStep
    BY <2>1, StaffRouteStep DEF StaffOnly, Refused, ApiStep
  <2>2. ASSUME NEW body, StaffTicketRoute(body)
        PROVE  ApiStep
    BY <2>2, CancelStep, RescheduleStep DEF StaffTicketRoute
  <2> QED
    BY <1>2, <2>1, <2>2, HolderRouteStep, PublicRouteStep, SweepStep DEF Serving
<1> QED
  BY <1>1, <1>2 DEF ApiNext

-----------------------------------------------------------------------------
(* What follows.                                                           *)

\* The surface implements the actor: whatever order the routes check in and
\* whichever of them fail, the tickets, the subscriptions and the alarm move
\* only as QueueShop's actions move them, so every property of the actor that
\* is proved holds behind the surface.
THEOREM SurfaceImplementsActor == ApiSpec => Spec
<1>1. ApiInit => Init
  BY DEF ApiInit
<1>2. [ApiNext]_apiVars => [Next]_vars
  BY EveryStep DEF ApiStep, apiVars
<1> QED
  BY <1>1, <1>2, PTL DEF ApiSpec, Spec

\* An answer of 400 or more left rows, subscriptions, alarm and feeds as they
\* were, except the 500 of a batch that names a ticket twice.
THEOREM RefusalsAreClean == ApiSpec => RefusalChangesNothing
<1>1. [ApiNext]_apiVars
      => [status' # None /\ status' >= 400
            => /\ tickets' = tickets \/ status' = 500
               /\ UNCHANGED << subs, alarmAt, feed >>]_apiVars
  BY EveryStep DEF ApiStep, vars
<1> QED
  BY <1>1, PTL DEF ApiSpec, RefusalChangesNothing

\* Whatever changes the projection is broadcast in the same step, that batch
\* again excepted.
THEOREM FeedNeverMisses == ApiSpec => FeedFollows
<1>1. [ApiNext]_apiVars
      => [tickets' # tickets /\ projectionPayload(tickets') # projectionPayload(tickets)
            => feed' = projectionPayload(tickets') \/ status' = 500]_apiVars
  BY EveryStep DEF ApiStep, vars
<1> QED
  BY <1>1, PTL DEF ApiSpec, FeedFollows

-----------------------------------------------------------------------------
(* Slots.  Counting bookings needs the issued tickets to be finitely many, *)
(* which they are however many ids there are to mint.                      *)

HeldFinite == IsFiniteSet(Held(tickets))

LEMMA HeldFiniteKeeps ==
  ASSUME IInv, HeldFinite, [Next]_vars
  PROVE  HeldFinite'
<1>0. tickets \in Rows /\ tickets' \in Rows
  BY NextKeeps DEF IInv, TypeOK, Rows
<1>1. CASE ~Issuing
  <2>1. \A i \in TicketIds : tickets[i] = None <=> tickets'[i] = None
    BY <1>1, HolderStep
  <2>2. Held(tickets') = Held(tickets)
    BY <1>0, <2>1 DEF Held, Rows
  <2> QED
    BY <2>2 DEF HeldFinite
<1>2. CASE Issuing
  <2>1. PICK i \in TicketIds : \E row : tickets' = [tickets EXCEPT ![i] = row]
    BY <1>2 DEF Issuing, IssueTicket, Request, dispatch
  <2>2. Held(tickets') \subseteq Held(tickets) \cup {i}
    BY <1>0, <2>1 DEF Held, Rows
  <2>3. IsFiniteSet(Held(tickets) \cup {i})
    BY FS_AddElement DEF HeldFinite
  <2> QED
    BY <2>2, <2>3, FS_Subset DEF HeldFinite
<1> QED
  BY <1>1, <1>2

\* Finitely many tickets have been issued, always.
LEMMA FinitelyMany == Spec => []HeldFinite
<1>1. Init => HeldFinite
  <2>1. Init => Held(tickets) = {}
    BY DEF Init, Held
  <2> QED
    BY <2>1, FS_EmptySet DEF HeldFinite
<1>2. IInv /\ HeldFinite /\ [Next]_vars => HeldFinite'
  BY HeldFiniteKeeps
<1> QED
  BY <1>1, <1>2, Invariant, PTL DEF Spec

\* The two counts of a slot's bookings differ in nothing but the ticket that
\* asks, which is booked elsewhere.
LEMMA CountsAgree ==
  ASSUME IInv, HeldFinite
  PROVE  SlotsViewAgrees
<1> SUFFICES ASSUME NEW i \in TicketIds, NEW s \in Slots, Active(i),
                    tickets[i].lane = "reservation",
                    tickets[i].appointmentAt # intervalOf(s),
                    SlotStart(intervalOf(s)) = intervalOf(s)
             PROVE  available(tickets, s, SlotCapacity) > 0
                      <=> Passes(slotHasRoom(i, intervalOf(s)))
  BY DEF SlotsViewAgrees
<1> DEFINE at == intervalOf(s)
           holders == {j \in Held(tickets) :
                       /\ tickets[j].lane = "reservation"
                       /\ tickets[j].state \in {"Waiting", "Called", "Overdue"}
                       /\ tickets[j].appointmentAt = at}
<1>1. IsFiniteSet(holders) /\ Cardinality(holders) \in Nat /\ SlotCapacity \in Nat
  <2>1. holders \in SUBSET Held(tickets)
    OBVIOUS
  <2> QED
    BY <2>1, FS_Subset, FS_CardinalityType, QueueShopAssumption DEF HeldFinite
<1>2. available(tickets, s, SlotCapacity) > 0 <=> Cardinality(holders) < SlotCapacity
  <2> HIDE DEF at
  <2>1. available(tickets, s, SlotCapacity)
          = IF Cardinality(holders) >= SlotCapacity THEN 0
            ELSE SlotCapacity - Cardinality(holders)
    BY DEF available, taken, at
  <2> HIDE DEF holders
  <2> QED
    BY <1>1, <2>1
<1>3. occupancyExcludingSelf(tickets, i, SlotStart(at)) = Cardinality(holders)
  <2>1. {j \in Held(tickets) \ {i} :
           /\ tickets[j].lane = "reservation"
           /\ isActiveForHandle(tickets[j])
           /\ tickets[j].appointmentAt = at} = holders
    BY DEF isActiveForHandle
  <2> QED
    BY <2>1 DEF occupancyExcludingSelf
<1>4. i \in Held(tickets)
  BY DEF Active, InSt, Held, IInv, TypeOK
<1> DEFINE room == i \in Held(tickets) =>
                     \/ at = tickets[i].appointmentAt
                     \/ occupancyExcludingSelf(tickets, i, SlotStart(at)) < SlotCapacity
<1>5. room <=> Cardinality(holders) < SlotCapacity
  BY <1>3, <1>4
<1>6. Passes(slotHasRoom(i, at)) <=> room
  <2>1. slotHasRoom(i, at) = Failure(room, "SlotFull")
    BY DEF slotHasRoom
  <2>2. room \in BOOLEAN /\ "SlotFull" \in DomainRuleError
    BY DEF DomainRuleError
  <2> HIDE DEF room
  <2> QED
    BY <2>1, <2>2, FailureCheck
<1> QED
  BY <1>2, <1>5, <1>6

\* GET /slots shows room in a slot iff a booking can be moved into it, for
\* any number of bookings and any capacity.
THEOREM PickerTellsTheTruth == ApiSpec => []SlotsViewAgrees
<1>1. IInv /\ HeldFinite => SlotsViewAgrees
  BY CountsAgree
<1> QED
  BY <1>1, Invariant, FinitelyMany, SurfaceImplementsActor, PTL

\* Only a reschedule moves a booking.
LEMMA BookingStep ==
  ASSUME IInv, [Next]_vars, NEW i \in TicketIds, tickets[i] # None,
         ~SameBooking(tickets[i], tickets'[i])
  PROVE  \E at \in RescheduleTargets :
           RescheduleTicket(i, at) /\ at # tickets[i].appointmentAt
<1> DEFINE Goal == \E at \in RescheduleTargets :
                     RescheduleTicket(i, at) /\ at # tickets[i].appointmentAt
<1>0. /\ tickets \in Rows /\ tickets[i] \in Ticket
      /\ tickets'[i] # tickets[i]
  BY DEF IInv, TypeOK, Rows, SameBooking
<1>1. ASSUME NEW j \in TicketIds, NEW row, Request(j, row)
      PROVE  j = i /\ tickets'[i] = row
  BY <1>0, <1>1 DEF Request, dispatch, Rows
<1>2. CASE StaffAction
  <2>1. ASSUME NEW lane, CallNext(lane) PROVE FALSE
    BY <1>0, <1>1, <2>1, TransitionBooking DEF CallNext
  <2>2. ASSUME NEW ids, CallBatch(ids) \/ CallBatchRepeating(ids) PROVE FALSE
    BY <1>0, <2>2, TransitionBooking DEF CallBatch, CallBatchRepeating, dispatch
  <2>3. ASSUME NEW j \in TicketIds,
               CallSpecific(j) \/ MarkServed(j) \/ MarkNoShow(j) \/ Recall(j)
                 \/ CancelTicket(j, "staff")
        PROVE  FALSE
    BY <1>0, <1>1, <2>3, TransitionBooking
       DEF CallSpecific, MarkServed, MarkNoShow, Recall, CancelTicket
  <2> QED
    BY <1>2, <2>1, <2>2, <2>3 DEF StaffAction
<1>3. CASE CustomerAction
  <2>1. ASSUME NEW h, MergeIssue(h) PROVE FALSE
    BY <1>0, <2>1 DEF MergeIssue, dispatch
  <2>2. ASSUME NEW j \in TicketIds, NEW h, NEW form, IssueTicket(j, h, form) PROVE FALSE
    BY <1>1, <2>2 DEF IssueTicket
  <2>3. ASSUME NEW j \in TicketIds, CancelTicket(j, "customer") \/ CheckIn(j)
        PROVE  FALSE
    BY <1>0, <1>1, <2>3, TransitionBooking DEF CancelTicket, CheckIn
  <2>4. ASSUME NEW j \in TicketIds, NEW at \in RescheduleTargets, RescheduleTicket(j, at)
        PROVE  Goal
    <3>1. at # tickets[j].appointmentAt /\ Request(j, applyReschedule(tickets[j], at, now).ticket)
      BY <1>0, <2>4 DEF RescheduleTicket, dispatch
    <3> QED
      BY <1>1, <2>4, <3>1
  <2>5. ASSUME NEW j \in TicketIds, NEW e,
               registerPushSubscription(j, e) \/ unregisterPushSubscription(j, e)
        PROVE  FALSE
    BY <1>0, <2>5 DEF registerPushSubscription, unregisterPushSubscription
  <2> QED
    BY <1>3, <2>1, <2>2, <2>3, <2>4, <2>5 DEF CustomerAction
<1>4. CASE SweepAction
  <2>1. ASSUME NEW j, Nudge(j) PROVE FALSE
    BY <1>0, <2>1, TransitionBooking DEF Nudge, dispatch, Rows
  <2>2. ASSUME AlarmBegin PROVE FALSE
    BY <1>0, <2>2, TransitionBooking DEF AlarmBegin
  <2>3. ASSUME AlarmEnd PROVE FALSE
    BY <1>0, <2>3, TransitionBooking DEF AlarmEnd
  <2> QED
    BY <1>0, <1>4, <2>1, <2>2, <2>3 DEF SweepAction, NudgeByWebSocket, fanOutPush,
       PushAnswer, NudgeAfterFanOut
<1>5. CASE Evict \/ Tick \/ UNCHANGED vars
  BY <1>0, <1>5 DEF Evict, Tick, vars
<1> QED
  BY <1>2, <1>3, <1>4, <1>5 DEF Next

\* The slot a booking moved to held fewer bookings than it may.
LEMMA RescheduleFits ==
  ASSUME IInv, HeldFinite, [Next]_vars, NEW i \in TicketIds, tickets[i] # None,
         ~SameBooking(tickets[i], tickets'[i]),
         SlotStart(tickets'[i].appointmentAt) = tickets'[i].appointmentAt
  PROVE  slotOccupancy(tickets', tickets'[i].appointmentAt) <= SlotCapacity
<1>0. tickets \in Rows /\ tickets[i] \in Ticket /\ i \in Held(tickets)
  BY DEF IInv, TypeOK, Rows, Held
<1>1. PICK at \in RescheduleTargets :
        RescheduleTicket(i, at) /\ at # tickets[i].appointmentAt
  BY BookingStep
<1> DEFINE row == applyReschedule(tickets[i], at, now).ticket
<1>2. /\ tickets' = [tickets EXCEPT ![i] = row]
      /\ occupancyExcludingSelf(tickets, i, SlotStart(at)) < SlotCapacity
  BY <1>1 DEF RescheduleTicket, Request, dispatch
<1>3. row = [tickets[i] EXCEPT !.appointmentAt = at]
  BY DEF applyReschedule, ApplyResult
<1>4. tickets'[i] = row /\ row.appointmentAt = at /\ SlotStart(at) = at
  BY <1>0, <1>2, <1>3 DEF Rows, Ticket
<1> HIDE DEF row
<1> DEFINE others == {j \in Held(tickets) \ {i} :
                        /\ tickets[j].lane = "reservation"
                        /\ isActiveForHandle(tickets[j])
                        /\ tickets[j].appointmentAt = at}
           all == {j \in Held(tickets') :
                     /\ tickets'[j].lane = "reservation"
                     /\ isActiveForHandle(tickets'[j])
                     /\ tickets'[j].appointmentAt = at}
<1>5. IsFiniteSet(others) /\ Cardinality(others) \in Nat
  <2>1. others \in SUBSET Held(tickets)
    OBVIOUS
  <2> QED
    BY <2>1, FS_Subset, FS_CardinalityType DEF HeldFinite
<1>6. all \subseteq others \cup {i}
  BY <1>0, <1>2 DEF Held, Rows
<1>7. Cardinality(others) < SlotCapacity
  BY <1>2, <1>4 DEF occupancyExcludingSelf
<1>8. /\ IsFiniteSet(others \cup {i})
      /\ Cardinality(others \cup {i}) = Cardinality(others) + 1
  <2>1. i \notin others
    OBVIOUS
  <2> HIDE DEF others
  <2> QED
    BY <1>5, <2>1, FS_AddElement
<1>9. IsFiniteSet(all) /\ Cardinality(all) \in Nat
       /\ Cardinality(all) <= Cardinality(others \cup {i})
  <2> HIDE DEF all, others
  <2> QED
    BY <1>6, <1>8, FS_Subset, FS_CardinalityType
<1>10. Cardinality(all) <= SlotCapacity
  <2> HIDE DEF all, others
  <2> QED
    BY <1>5, <1>7, <1>8, <1>9, QueueShopAssumption
<1> QED
  BY <1>4, <1>10 DEF slotOccupancy

\* A reschedule onto the grid never overbooks the slot it moves to, for any
\* number of bookings, whatever capacity the issues before it exceeded.
THEOREM RescheduleKeepsCapacity == ApiSpec => RescheduleNeverOverbooks
<1>1. IInv /\ HeldFinite /\ [Next]_vars
      => [tickets' # tickets => \A i \in TicketIds :
            /\ tickets[i] # None
            /\ tickets'[i].appointmentAt # tickets[i].appointmentAt
            /\ SlotStart(tickets'[i].appointmentAt) = tickets'[i].appointmentAt
            => slotOccupancy(tickets', tickets'[i].appointmentAt) <= SlotCapacity]_apiVars
  BY RescheduleFits DEF SameBooking
<1> QED
  BY <1>1, Invariant, FinitelyMany, SurfaceImplementsActor, PTL DEF Spec, RescheduleNeverOverbooks

\* What a picked slot is booked at: the slot's local start, read as UTC.
LEMMA PickBooks ==
  ASSUME IInv, NEW i \in TicketIds, NEW h \in Handles, NEW s \in Slots,
         PickSlot(i, h, s, "good"), status' = 201
  PROVE  tickets'[i].appointmentAt = slotInstantOf(s)
<1> DEFINE form == << "reservation", slotInstantOf(s) >>
           checks == parseJsonBody("good") \o decodeBody("good")
<1>1. Passes(checks)
  BY BoundaryChecks, Concatenated
<1> HIDE DEF checks
<1>2. IssueTicket(i, h, form)
  <2>1. \/ Dispatched(checks, IssueTicket(i, h, form), 201)
        \/ Dispatched(checks, MergeIssue(h), 200)
    BY DEF PickSlot, IssueRoute, checks
  <2> QED
    BY <1>1, <2>1 DEF Dispatched, Answer
<1>3. tickets'[i] = applyIssue("reservation", h, nextDisplaySeq(tickets),
                               slotInstantOf(s), now).ticket
  BY <1>2 DEF IssueTicket, Request, dispatch, IInv, TypeOK
<1> QED
  BY <1>3 DEF applyIssue, ApplyResult

\* In a deployment whose local time is UTC the customer who picks a slot gets
\* that slot, whatever else the queue holds: what slotTime.ts promises for
\* every time zone is true of that one.
THEOREM PickedSlotKept == UtcOffset = 0 => (ApiSpec => PickedSlotIsBooked)
<1> SUFFICES ASSUME UtcOffset = 0 PROVE ApiSpec => PickedSlotIsBooked
  OBVIOUS
<1>1. \A s \in Slots : slotInstantOf(s) = intervalOf(s)
  <2>1. \A s \in Slots : s \in Nat
    BY QueueApiAssumption
  <2> QED
    BY <2>1 DEF slotInstantOf, intervalOf
<1>2. IInv /\ [ApiNext]_apiVars
        => [\A i \in TicketIds, h \in Handles, s \in Slots :
              PickSlot(i, h, s, "good") /\ status' = 201
                => tickets'[i].appointmentAt = intervalOf(s)]_apiVars
  BY <1>1, PickBooks
<1> QED
  BY <1>2, Invariant, SurfaceImplementsActor, PTL DEF ApiSpec, PickedSlotIsBooked

-----------------------------------------------------------------------------
(* The documented answers.  A list of checks answers with the status of    *)
(* one that fails, so it suffices to know which statuses those bear.       *)

\* The checks of the list that fail are answered with statuses of S.
Answering(checks, S) ==
  /\ checks \in CheckList
  /\ \A n \in DOMAIN checks : ~checks[n][1] => checks[n][2] \in S

LEMMA SingleAnswering ==
  ASSUME NEW holds \in BOOLEAN, NEW answer \in Nat, NEW S, holds \/ answer \in S
  PROVE  Answering(<< << holds, answer >> >>, S)
BY Single DEF Answering

LEMMA BothAnswering ==
  ASSUME NEW S, NEW s, NEW t, Answering(s, S), Answering(t, S)
  PROVE  Answering(s \o t, S)
<1>1. s \in CheckList /\ t \in CheckList /\ s \o t \in CheckList
  BY Concatenated DEF Answering
<1>2. /\ DOMAIN s = 1 .. Len(s) /\ Len(s) \in Nat
      /\ DOMAIN t = 1 .. Len(t) /\ Len(t) \in Nat
      /\ DOMAIN (s \o t) = 1 .. Len(s) + Len(t)
  BY <1>1 DEF CheckList
<1>3. \A n \in 1 .. Len(s) : (s \o t)[n] = s[n]
  BY <1>1, <1>2 DEF CheckList
<1>4. \A n \in 1 .. Len(t) : (s \o t)[Len(s) + n] = t[n]
  BY <1>1, <1>2 DEF CheckList
<1>5. ASSUME NEW n \in DOMAIN (s \o t), ~(s \o t)[n][1]
      PROVE  (s \o t)[n][2] \in S
  <2>1. CASE n \in 1 .. Len(s)
    BY <1>2, <1>3, <1>5, <2>1 DEF Answering
  <2>2. CASE n \notin 1 .. Len(s)
    <3>1. n - Len(s) \in 1 .. Len(t) /\ n = Len(s) + (n - Len(s))
      BY <1>2, <2>2
    <3> QED
      BY <1>2, <1>4, <1>5, <3>1 DEF Answering
  <2> QED
    BY <2>1, <2>2
<1> QED
  BY <1>1, <1>5 DEF Answering

\* A list that does not pass has a first check that fails.
LEMMA VerdictAnswers ==
  ASSUME NEW S, NEW checks, Answering(checks, S), ~Passes(checks)
  PROVE  Verdict(checks) \in S
<1> DEFINE failing == {n \in DOMAIN checks : ~checks[n][1]}
           First(n) == ~checks[n][1] /\ \A m \in 1 .. n - 1 : checks[m][1]
<1>1. checks \in CheckList /\ DOMAIN checks = 1 .. Len(checks) /\ Len(checks) \in Nat
  BY DEF Answering, CheckList
<1>2. PICK k \in DOMAIN checks : ~checks[k][1]
  BY DEF Passes
<1>3. failing \in SUBSET Nat /\ k \in failing
  BY <1>1, <1>2
<1>4. PICK n \in failing : \A m \in failing : ~(m < n)
  BY <1>3, SmallestOf
<1>5. n \in DOMAIN checks /\ First(n)
  <2>1. \A m \in 1 .. n - 1 : m \in DOMAIN checks /\ m < n
    BY <1>1, <1>4
  <2> QED
    BY <1>4, <2>1
<1> DEFINE v == CHOOSE m \in DOMAIN checks : First(m)
<1>6. v \in DOMAIN checks /\ First(v)
  BY <1>5
<1>7. Verdict(checks) = checks[v][2]
  BY DEF Verdict
<1> HIDE DEF v
<1> QED
  BY <1>6, <1>7 DEF Answering

LEMMA AnswerAnswers ==
  ASSUME NEW S, NEW checks, Answering(checks, S), NEW answer \in S
  PROVE  AnswerTo(checks, answer) \in S
BY VerdictAnswers DEF AnswerTo

\* STATUS_BY_TAG, for the tags of the checks.
LEMMA TagStatus ==
  /\ statusForTag("TicketNotFound") = 404 /\ statusForTag("PhoneMismatch") = 403
  /\ statusForTag("AppointmentRequiredForReservationLane") = 422
  /\ statusForTag("SlotInPast") = 422 /\ statusForTag("Defect") = 500
  /\ \A tag \in {"AlreadyCompleted", "AlreadyCancelled", "AlreadyNoShow", "QueueEmpty",
                 "InvalidStateTransition", "CheckInTooEarly", "SlotFull", "LaneMismatch"} :
       statusForTag(tag) = 409
  /\ failResponse("InvalidPayload") = 400 /\ failResponse("MissingStaffCapability") = 401
  /\ failResponse("TicketNotFound") = 404 /\ failResponse("InvalidBody") = 422
<1>1. /\ statusForTag("TicketNotFound") = 404 /\ statusForTag("PhoneMismatch") = 403
      /\ statusForTag("AppointmentRequiredForReservationLane") = 422
      /\ statusForTag("SlotInPast") = 422 /\ statusForTag("Defect") = 500
  BY DEF statusForTag, ValidationError, DomainRuleError, NotFound, Forbidden,
         Unprocessable, Conflict
<1>2. \A tag \in {"AlreadyCompleted", "AlreadyCancelled", "AlreadyNoShow", "QueueEmpty",
                  "InvalidStateTransition", "CheckInTooEarly", "SlotFull", "LaneMismatch"} :
        statusForTag(tag) = 409
  BY DEF statusForTag, ValidationError, DomainRuleError, NotFound, Forbidden,
         Unprocessable, Conflict
<1> QED
  BY <1>1, <1>2 DEF failResponse

\* The checks at the boundary; those that pass answer nothing.
LEMMA BoundaryAnswers ==
  ASSUME NEW S
  PROVE  /\ 404 \in S => \A id : Answering(decodeTicketIdParam(id), S)
         /\ \A body : body # "unparsable" \/ 400 \in S => Answering(parseJsonBody(body), S)
         /\ \A body : body # "misshapen" \/ 422 \in S => Answering(decodeBody(body), S)
         /\ \A cred : staffCapable(cred) \/ 401 \in S => Answering(requireStaff(cred), S)
<1>1. ASSUME NEW b \in BOOLEAN, NEW answer \in Nat, b \/ answer \in S
      PROVE  Answering(<< << b, answer >> >>, S)
  BY <1>1, SingleAnswering
<1>2. ASSUME NEW id, 404 \in S PROVE Answering(decodeTicketIdParam(id), S)
  <2> DEFINE known == id # Malformed
  <2>1. known \in BOOLEAN /\ decodeTicketIdParam(id) = << << known, 404 >> >>
    BY TagStatus DEF decodeTicketIdParam
  <2> HIDE DEF known
  <2> QED
    BY <1>1, <1>2, <2>1
<1>3. ASSUME NEW body, body # "unparsable" \/ 400 \in S
      PROVE  Answering(parseJsonBody(body), S)
  <2> DEFINE parses == body # "unparsable"
  <2>1. parses \in BOOLEAN /\ parseJsonBody(body) = << << parses, 400 >> >>
    BY TagStatus DEF parseJsonBody
  <2>2. parses \/ 400 \in S
    BY <1>3
  <2> HIDE DEF parses
  <2> QED
    BY <1>1, <2>1, <2>2
<1>4. ASSUME NEW body, body # "misshapen" \/ 422 \in S
      PROVE  Answering(decodeBody(body), S)
  <2> DEFINE decodes == body # "misshapen"
  <2>1. decodes \in BOOLEAN /\ decodeBody(body) = << << decodes, 422 >> >>
    BY TagStatus DEF decodeBody
  <2>2. decodes \/ 422 \in S
    BY <1>4
  <2> HIDE DEF decodes
  <2> QED
    BY <1>1, <2>1, <2>2
<1>5. ASSUME NEW cred, staffCapable(cred) \/ 401 \in S
      PROVE  Answering(requireStaff(cred), S)
  <2>1. staffCapable(cred) \in BOOLEAN
    BY DEF staffCapable
  <2>2. requireStaff(cred) = << << staffCapable(cred), 401 >> >>
    BY TagStatus DEF requireStaff
  <2> QED
    BY <1>1, <1>5, <2>1, <2>2
<1> QED
  BY <1>2, <1>3, <1>4, <1>5

\* The checks of the use cases.
LEMMA UseCaseAnswers ==
  ASSUME NEW S, NEW id
  PROVE  /\ 404 \in S => Answering(loadOrTicketNotFound(id), S)
         /\ 403 \in S /\ 404 \in S
              => \A h : Answering(authenticateCustomer(id, h), S)
         /\ 409 \in S => Answering(guardActive(id), S)
         /\ 404 \in S /\ 409 \in S
              => \A states : Answering(transition(id, states), S)
         /\ 404 \in S /\ 409 \in S /\ 422 \in S => Answering(checkInChecks(id), S)
         /\ 409 \in S /\ 422 \in S => \A at : Answering(rescheduleChecks(id, at), S)
<1>1. ASSUME NEW holds \in BOOLEAN,
             NEW tag \in {"AlreadyCompleted", "AlreadyCancelled", "AlreadyNoShow",
                          "QueueEmpty", "InvalidStateTransition", "CheckInTooEarly",
                          "SlotFull", "LaneMismatch"},
             409 \in S
      PROVE  Answering(Failure(holds, tag), S)
  BY <1>1, TagStatus, SingleAnswering DEF Failure
<1>2. ASSUME NEW holds \in BOOLEAN
      PROVE  /\ 404 \in S => Answering(Failure(holds, "TicketNotFound"), S)
             /\ 403 \in S => Answering(Failure(holds, "PhoneMismatch"), S)
             /\ 422 \in S => /\ Answering(Failure(holds, "SlotInPast"), S)
                             /\ Answering(Failure(holds,
                                  "AppointmentRequiredForReservationLane"), S)
  BY TagStatus, SingleAnswering DEF Failure
<1>3. ASSUME 404 \in S PROVE Answering(loadOrTicketNotFound(id), S)
  <2> DEFINE known == id \in Held(tickets)
  <2>1. known \in BOOLEAN
    OBVIOUS
  <2> HIDE DEF known
  <2>2. Answering(Failure(known, "TicketNotFound"), S)
    BY <1>2, <1>3, <2>1
  <2> QED
    BY <2>2 DEF loadOrTicketNotFound, known
<1>4. ASSUME NEW h, 403 \in S, 404 \in S
      PROVE  Answering(authenticateCustomer(id, h), S)
  <2>1. Answering(Failure(id \in Held(tickets) => tickets[id].handle = h, "PhoneMismatch"), S)
    <3> DEFINE own == id \in Held(tickets) => tickets[id].handle = h
    <3>1. own \in BOOLEAN
      OBVIOUS
    <3> HIDE DEF own
    <3>2. Answering(Failure(own, "PhoneMismatch"), S)
      BY <1>2, <1>4, <3>1
    <3> QED
      BY <3>2 DEF own
  <2> QED
    BY <1>3, <1>4, <2>1, BothAnswering DEF authenticateCustomer
<1>5. ASSUME NEW st PROVE Is(id, st) \in BOOLEAN
  BY DEF Is, InState, Held
<1>6. ASSUME NEW st, 409 \in S PROVE Answering(from(id, st), S)
  BY <1>1, <1>5, <1>6 DEF from
<1>7. ASSUME 409 \in S PROVE Answering(guardActive(id), S)
  <2>1. /\ Answering(Failure(~Is(id, {"Served"}), "AlreadyCompleted"), S)
        /\ Answering(Failure(~Is(id, {"Cancelled"}), "AlreadyCancelled"), S)
        /\ Answering(Failure(~Is(id, {"NoShow"}), "AlreadyNoShow"), S)
    BY <1>1, <1>7
  <2> QED
    BY <2>1, BothAnswering DEF guardActive
<1>8. ASSUME NEW states, 404 \in S, 409 \in S
      PROVE  Answering(transition(id, states), S)
  BY <1>3, <1>6, <1>7, <1>8, BothAnswering DEF transition
<1>9. ASSUME 404 \in S, 409 \in S, 422 \in S
      PROVE  Answering(checkInChecks(id), S)
  <2>1. /\ Answering(Failure(Is(id, {"Waiting"}) => tickets[id].appointmentAt # None,
                             "AppointmentRequiredForReservationLane"), S)
        /\ Answering(Failure(Is(id, {"Waiting"}) /\ tickets[id].appointmentAt # None =>
                               now >= tickets[id].appointmentAt - CheckInWindow,
                             "CheckInTooEarly"), S)
    BY <1>1, <1>2, <1>9
  <2>2. Answering(loadOrTicketNotFound(id), S) /\ Answering(from(id, {"Waiting"}), S)
    BY <1>3, <1>6, <1>9
  <2> QED
    BY <2>1, <2>2, BothAnswering DEF checkInChecks
<1>10. ASSUME NEW at, 409 \in S, 422 \in S
      PROVE  Answering(rescheduleChecks(id, at), S)
  <2>1. /\ Answering(Failure(id \in Held(tickets) => tickets[id].lane = "reservation",
                             "LaneMismatch"), S)
        /\ Answering(Failure(id \in Held(tickets) => tickets[id].appointmentAt # None,
                             "InvalidStateTransition"), S)
        /\ Answering(slotHasRoom(id, at), S)
    BY <1>1, <1>10 DEF slotHasRoom
  <2>2. Answering(Failure(at >= now, "SlotInPast"), S)
    <3> DEFINE ahead == at >= now
    <3>1. ahead \in BOOLEAN
      OBVIOUS
    <3> HIDE DEF ahead
    <3>2. Answering(Failure(ahead, "SlotInPast"), S)
      BY <1>2, <1>10, <3>1
    <3> QED
      BY <3>2 DEF ahead
  <2>3. Answering(from(id, {"Waiting", "Called", "Overdue"}), S)
    BY <1>6, <1>10
  <2> QED
    BY <2>1, <2>2, <2>3, BothAnswering DEF rescheduleChecks
<1> QED
  BY <1>3, <1>4, <1>7, <1>8, <1>9, <1>10

-----------------------------------------------------------------------------
(* The views.                                                              *)

\* What is listed of a ticket is an entry.
LEMMA EntryType ==
  ASSUME NEW snap \in Rows, NEW i \in Held(snap)
  PROVE  /\ projectAnonymous(snap, i) \in ProjectionEntry
         /\ snap[i] \in Ticket
<1>1. i \in TicketIds /\ snap[i] \in Ticket
  BY DEF Rows, Held
<1> QED
  BY <1>1 DEF projectAnonymous, ProjectionEntry, Ticket

\* The projection of any rows has the shape the document gives it.
LEMMA ProjectionType ==
  ASSUME NEW snap \in Rows, IsFiniteSet(Held(snap))
  PROVE  projectionPayload(snap) \in QueueProjection
<1>1. ASSUME NEW ids \in SUBSET Held(snap)
      PROVE  Project(snap, ids) \in SUBSET ProjectionEntry
  BY <1>1, EntryType DEF Project
<1>2. \A states : InState(snap, states) \in SUBSET Held(snap)
  BY DEF InState
<1>3. \A lane : waitingCount(snap, lane) \in Nat
  <2>1. \A lane : Waiting(snap, lane) \in SUBSET Held(snap)
    BY DEF Waiting, InState
  <2> QED
    BY <2>1, FS_Subset, FS_CardinalityType DEF waitingCount
<1>4. nextReservationDeadline(snap) \in Instant \cup {None}
  <2> DEFINE r == earliestReservation(snap)
  <2>1. r = None \/ r \in Deadlined(snap)
    <3>1. CASE Deadlined(snap) = {}
      BY <3>1 DEF earliestReservation
    <3>2. CASE Deadlined(snap) # {}
      BY <3>2, EarliestExists
    <3> QED
      BY <3>1, <3>2
  <2>2. r \in Deadlined(snap) => snap[r].appointmentAt \in Instant
    <3>1. r \in Deadlined(snap) => r \in Held(snap) /\ snap[r].appointmentAt # None
      BY DEF Deadlined, Waiting, InState
    <3> QED
      BY <3>1, EntryType DEF Ticket
  <2> HIDE DEF r
  <2>3. nextReservationDeadline(snap) = IF r = None THEN None ELSE snap[r].appointmentAt
    BY DEF nextReservationDeadline, r
  <2> QED
    BY <2>1, <2>2, <2>3
<1>5. {<< projectAnonymous(snap, i), snap[i].nudgeCount >> : i \in InState(snap, {"Overdue"})}
        \in SUBSET OverdueEntry
  <2>1. \A i \in InState(snap, {"Overdue"}) :
          projectAnonymous(snap, i) \in ProjectionEntry /\ snap[i].nudgeCount \in Nat
    BY <1>2, EntryType DEF Ticket
  <2> QED
    BY <2>1 DEF OverdueEntry
<1>6. Lowest(snap, InState(snap, {"Waiting"}), WaitingPreview) \in SUBSET Held(snap)
  BY <1>2 DEF Lowest
<1>7. [lane \in Lane |-> waitingCount(snap, lane)] \in [Lane -> Nat]
  BY <1>3
<1>8. projectionPayload(snap) =
        [laneCounts |-> [lane \in Lane |-> waitingCount(snap, lane)],
         calling |-> Project(snap, InState(snap, {"Called"})),
         overdue |-> {<< projectAnonymous(snap, i), snap[i].nudgeCount >> :
                        i \in InState(snap, {"Overdue"})},
         waitingPreview |-> Project(snap,
           Lowest(snap, InState(snap, {"Waiting"}), WaitingPreview)),
         nextReservationDeadline |-> nextReservationDeadline(snap)]
  BY DEF projectionPayload, computeQueueBuckets
<1>9. /\ Project(snap, InState(snap, {"Called"})) \in SUBSET ProjectionEntry
      /\ Project(snap, Lowest(snap, InState(snap, {"Waiting"}), WaitingPreview))
           \in SUBSET ProjectionEntry
  BY <1>1, <1>2, <1>6
<1> QED
  BY <1>4, <1>5, <1>7, <1>8, <1>9 DEF QueueProjection

\* The counts of a slot are numbers.
LEMMA SlotType ==
  ASSUME HeldFinite, NEW s
  PROVE  slotOf(tickets, s, SlotCapacity) \in Slot
<1> DEFINE holders == {i \in Held(tickets) :
                         /\ tickets[i].lane = "reservation"
                         /\ tickets[i].state \in {"Waiting", "Called", "Overdue"}
                         /\ tickets[i].appointmentAt = intervalOf(s)}
           n == taken(tickets, s)
<1>1. holders \in SUBSET Held(tickets)
  OBVIOUS
<1>2. n = Cardinality(holders)
  BY DEF taken
<1> HIDE DEF holders, n
<1>3. n \in Nat /\ SlotCapacity \in Nat
  BY <1>1, <1>2, FS_Subset, FS_CardinalityType, QueueShopAssumption DEF HeldFinite
<1>4. slotOf(tickets, s, SlotCapacity)
        = [capacity |-> SlotCapacity, taken |-> n,
           available |-> IF n >= SlotCapacity THEN 0 ELSE SlotCapacity - n]
  BY DEF slotOf, available, n
<1>5. (IF n >= SlotCapacity THEN 0 ELSE SlotCapacity - n) \in Nat
  BY <1>3
<1> QED
  BY <1>3, <1>4, <1>5 DEF Slot

-----------------------------------------------------------------------------
(* The paths, one document entry after the other.                          *)

LEMMA HolderAnswers ==
  ASSUME NEW id, NEW h
  PROVE  HolderAnswersListed(id, h)
<1>1. AnswerTo(cancelChecks(id, h, "good"), 200) \in cancelResponses
  <2> DEFINE S == cancelResponses
  <2>1. 403 \in S /\ 404 \in S /\ 409 \in S /\ 200 \in S
    BY DEF cancelResponses
  <2> HIDE DEF S
  <2>2. Answering(cancelChecks(id, h, "good"), S)
    BY <2>1, BoundaryAnswers, UseCaseAnswers, BothAnswering DEF cancelChecks
  <2> QED
    BY <2>1, <2>2, AnswerAnswers DEF S
<1>2. ASSUME NEW e \in Endpoints \cup {None}
      PROVE  AnswerTo(registerPushChecks(id, h, e, "good"), 201) \in registerPushResponses
  <2> DEFINE S == registerPushResponses
             known == e # None
             open == ~Is(id, TERMINAL_TICKET_STATES)
  <2>1. 403 \in S /\ 404 \in S /\ 409 \in S /\ 422 \in S /\ 201 \in S
    BY DEF registerPushResponses
  <2>2. known \in BOOLEAN /\ open \in BOOLEAN
    BY DEF Is, InState, Held
  <2> HIDE DEF S, known, open
  <2>3. /\ Answering(<< << known, failResponse("InvalidBody") >> >>, S)
        /\ Answering(<< << open, 409 >> >>, S)
    BY <2>1, <2>2, TagStatus, SingleAnswering
  <2>4. /\ Answering(decodeTicketIdParam(id), S)
        /\ Answering(parseJsonBody("good"), S)
        /\ Answering(decodeBody("good"), S)
        /\ Answering(loadOrTicketNotFound(id), S)
        /\ Answering(authenticateCustomer(id, h), S)
    BY <2>1, BoundaryAnswers, UseCaseAnswers
  <2>5. Answering(registerPushChecks(id, h, e, "good"), S)
    BY <2>3, <2>4, BothAnswering DEF registerPushChecks, known, open
  <2> QED
    BY <2>1, <2>5, AnswerAnswers DEF S
<1>3. AnswerTo(unregisterPushChecks(id, h, "good"), 200) \in unregisterPushResponses
  <2> DEFINE S == unregisterPushResponses
             own == id \notin Held(tickets) \/ tickets[id].handle = h
  <2>1. 403 \in S /\ 404 \in S /\ 200 \in S
    BY DEF unregisterPushResponses
  <2>2. own \in BOOLEAN
    OBVIOUS
  <2> HIDE DEF S, own
  <2>3. Answering(Failure(own, "PhoneMismatch"), S)
    BY <2>1, <2>2, TagStatus, SingleAnswering DEF Failure
  <2>4. Answering(decodeTicketIdParam(id), S) /\ Answering(decodeBody("good"), S)
    BY <2>1, BoundaryAnswers
  <2>5. Answering(unregisterPushChecks(id, h, "good"), S)
    BY <2>3, <2>4, BothAnswering DEF unregisterPushChecks, own
  <2> QED
    BY <2>1, <2>5, AnswerAnswers DEF S
<1>4. ASSUME NEW at \in RescheduleTargets
      PROVE  AnswerTo(decodeTicketIdParam(id) \o authenticateCustomer(id, h)
                        \o rescheduleChecks(id, at), 200) \in rescheduleResponses
  <2> DEFINE S == rescheduleResponses
  <2>1. 403 \in S /\ 404 \in S /\ 409 \in S /\ 422 \in S /\ 200 \in S
    BY DEF rescheduleResponses
  <2> HIDE DEF S
  <2>2. Answering(decodeTicketIdParam(id) \o authenticateCustomer(id, h)
                    \o rescheduleChecks(id, at), S)
    BY <2>1, BoundaryAnswers, UseCaseAnswers, BothAnswering
  <2> QED
    BY <2>1, <2>2, AnswerAnswers DEF S
<1>5. AnswerTo(byHandleChecks(h, "good"), 200) \in byHandleResponses
  <2> DEFINE S == byHandleResponses
             found == findActiveByHandle(tickets, h) # {}
  <2>1. 404 \in S /\ 200 \in S /\ found \in BOOLEAN
    BY DEF byHandleResponses
  <2> HIDE DEF S, found
  <2>2. Answering(Failure(found, "TicketNotFound"), S)
    BY <2>1, TagStatus, SingleAnswering DEF Failure
  <2>3. Answering(byHandleChecks(h, "good"), S)
    BY <2>2, BoundaryAnswers, BothAnswering DEF byHandleChecks, found
  <2> QED
    BY <2>1, <2>3, AnswerAnswers DEF S
<1> QED
  BY <1>1, <1>2, <1>3, <1>4, <1>5 DEF HolderAnswersListed

\* What the staff guard adds to the checks of a route.
LEMMA StaffAnswerListed ==
  ASSUME NEW S, NEW checks, Answering(checks, S), NEW cred, 200 \in S /\ 401 \in S
  PROVE  AnswerToStaff(cred, checks) \in S
<1>1. Answering(requireStaff(cred) \o checks, S)
  BY BoundaryAnswers, BothAnswering
<1> QED
  BY <1>1, AnswerAnswers DEF AnswerToStaff

LEMMA StaffAnswers ==
  ASSUME NEW id, NEW cred
  PROVE  StaffAnswersListed(id, cred)
<1>1. AnswerToStaff(cred, decodeTicketIdParam(id) \o transition(id, {"Called", "Overdue"}))
        \in servedResponses \cap noShowResponses \cap recallResponses
  <2> DEFINE S == servedResponses \cap noShowResponses \cap recallResponses
  <2>1. 200 \in S /\ 401 \in S /\ 404 \in S /\ 409 \in S
    BY DEF servedResponses, noShowResponses, recallResponses
  <2> HIDE DEF S
  <2>2. Answering(decodeTicketIdParam(id) \o transition(id, {"Called", "Overdue"}), S)
    BY <2>1, BoundaryAnswers, UseCaseAnswers, BothAnswering
  <2> QED
    BY <2>1, <2>2, StaffAnswerListed DEF S
<1>2. ASSUME NEW lane \in Lane \cup {None}
      PROVE  AnswerToStaff(cred, callNextChecks(lane, "good")) \in callNextResponses
  <2> DEFINE S == callNextResponses
             next == IF lane # None THEN head(tickets, lane)
                     ELSE nextCallable(tickets, now, CallGrace)
             found == next # None
  <2>1. 200 \in S /\ 401 \in S /\ 409 \in S /\ found \in BOOLEAN
    BY DEF callNextResponses
  <2>2. callNextChecks(lane, "good")
          = parseJsonBody("good") \o decodeBody("good") \o Failure(found, "QueueEmpty")
    BY DEF callNextChecks
  <2> HIDE DEF S, found
  <2>3. Answering(Failure(found, "QueueEmpty"), S)
    BY <2>1, TagStatus, SingleAnswering DEF Failure
  <2>4. Answering(parseJsonBody("good"), S) /\ Answering(decodeBody("good"), S)
    BY BoundaryAnswers
  <2>5. Answering(callNextChecks(lane, "good"), S)
    BY <2>2, <2>3, <2>4, BothAnswering
  <2> QED
    BY <2>1, <2>5, StaffAnswerListed DEF S
<1>3. AnswerToStaff(cred, << >>) \in staffQueueResponses
  <2>1. Answering(<< >>, staffQueueResponses)
    BY DEF Answering, CheckList
  <2> QED
    BY <2>1, StaffAnswerListed DEF staffQueueResponses
<1>4. ASSUME staffCapable(cred)
      PROVE  AnswerTo(staffCancelChecks(cred, id, "good"), 200) \in cancelResponses
  <2> DEFINE S == cancelResponses
  <2>1. 404 \in S /\ 409 \in S /\ 200 \in S
    BY DEF cancelResponses
  <2> HIDE DEF S
  <2>2. /\ Answering(parseJsonBody("good"), S) /\ Answering(decodeTicketIdParam(id), S)
        /\ Answering(requireStaff(cred), S) /\ Answering(decodeBody("good"), S)
        /\ Answering(loadOrTicketNotFound(id), S) /\ Answering(guardActive(id), S)
    BY <1>4, <2>1, BoundaryAnswers, UseCaseAnswers
  <2>3. Answering(staffCancelChecks(cred, id, "good"), S)
    BY <2>2, BothAnswering DEF staffCancelChecks
  <2> QED
    BY <2>1, <2>3, AnswerAnswers DEF S
<1> QED
  BY <1>1, <1>2, <1>3, <1>4 DEF StaffAnswersListed

LEMMA PublicAnswers ==
  ASSUME NEW id, NEW body \in {"misshapen", "good"}
  PROVE  PublicAnswersListed(id, body)
<1>1. AnswerTo(decodeTicketIdParam(id) \o checkInChecks(id), 200) \in checkInResponses
  <2> DEFINE S == checkInResponses
  <2>1. 404 \in S /\ 409 \in S /\ 422 \in S /\ 200 \in S
    BY DEF checkInResponses
  <2> HIDE DEF S
  <2>2. Answering(decodeTicketIdParam(id) \o checkInChecks(id), S)
    BY <2>1, BoundaryAnswers, UseCaseAnswers, BothAnswering
  <2> QED
    BY <2>1, <2>2, AnswerAnswers DEF S
<1>2. /\ Answering(decodeBody(body), issueResponses)
      /\ Answering(decodeBody(body), slotsResponses)
  <2>1. 422 \in issueResponses /\ 422 \in slotsResponses
    BY DEF issueResponses, slotsResponses
  <2> QED
    BY <2>1, BoundaryAnswers
<1>3. /\ AnswerTo(decodeBody(body), 201) \in issueResponses
      /\ AnswerTo(decodeBody(body), 200) \in slotsResponses
  <2>1. 201 \in issueResponses /\ 200 \in slotsResponses
    BY DEF issueResponses, slotsResponses
  <2> QED
    BY <1>2, <2>1, AnswerAnswers
<1>4. ASSUME NEW right \in BOOLEAN
      PROVE  AnswerTo(loginChecks(right, body), 200) \in loginResponses
  <2> DEFINE S == loginResponses
  <2>1. 200 \in S /\ 401 \in S /\ 422 \in S
    BY DEF loginResponses
  <2> HIDE DEF S
  <2>2. /\ Answering(parseJsonBody(body), S) /\ Answering(decodeBody(body), S)
        /\ Answering(<< << right, failResponse("MissingStaffCapability") >> >>, S)
    BY <2>1, BoundaryAnswers, TagStatus, SingleAnswering
  <2>3. Answering(loginChecks(right, body), S)
    BY <2>2, BothAnswering DEF loginChecks
  <2> QED
    BY <2>1, <2>3, AnswerAnswers DEF S
<1>5. AnswerTo(<< >>, 200) \in queueResponses
  BY DEF AnswerTo, Passes, queueResponses
<1> QED
  BY <1>1, <1>3, <1>4, <1>5 DEF PublicAnswersListed

-----------------------------------------------------------------------------
(* The routes.                                                             *)

\* The statuses the surface answers with: those of the document, the 400 it
\* leaves out, and the 500 of a failure.
Known ==
  issueResponses \cup feedResponses \cup loginResponses
    \cup checkInResponses \cup cancelResponses \cup {400, 500, None}

LEMMA KnownStatus ==
  /\ 101 \in Known /\ 200 \in Known /\ 201 \in Known /\ 400 \in Known /\ 401 \in Known
  /\ 403 \in Known /\ 404 \in Known /\ 409 \in Known /\ 422 \in Known /\ 426 \in Known
  /\ 429 \in Known /\ 500 \in Known /\ None \in Known
BY DEF Known, issueResponses, feedResponses, loginResponses, checkInResponses,
       cancelResponses

\* Whatever a request carries, the checks it fails bear such a status.
LEMMA KnownChecks ==
  /\ \A id : Answering(decodeTicketIdParam(id), Known)
  /\ \A body : Answering(parseJsonBody(body), Known)
  /\ \A body : Answering(decodeBody(body), Known)
  /\ \A cred : Answering(requireStaff(cred), Known)
  /\ \A id : Answering(loadOrTicketNotFound(id), Known)
  /\ \A id, h : Answering(authenticateCustomer(id, h), Known)
  /\ \A id : Answering(guardActive(id), Known)
  /\ \A id, states : Answering(transition(id, states), Known)
  /\ \A id : Answering(checkInChecks(id), Known)
  /\ \A id, at : Answering(rescheduleChecks(id, at), Known)
BY KnownStatus, BoundaryAnswers, UseCaseAnswers

LEMMA KnownCheck ==
  ASSUME NEW holds \in BOOLEAN
  PROVE  /\ Answering(<< << holds, failResponse("InvalidBody") >> >>, Known)
         /\ Answering(<< << holds, failResponse("MissingStaffCapability") >> >>, Known)
         /\ Answering(<< << holds, 409 >> >>, Known)
BY KnownStatus, TagStatus, SingleAnswering

LEMMA KnownFailure ==
  ASSUME NEW holds \in BOOLEAN,
         NEW tag \in {"TicketNotFound", "PhoneMismatch", "QueueEmpty", "Defect"}
  PROVE  Answering(Failure(holds, tag), Known)
BY KnownStatus, TagStatus, SingleAnswering DEF Failure

\* A route that checks, and acts if the checks pass.
LEMMA AnswerKnown ==
  ASSUME NEW checks, NEW ACTION act, NEW answer \in Known, Answering(checks, Known),
         Answer(checks, act, answer) \/ Dispatched(checks, act, answer)
  PROVE  status' \in Known
<1>1. CASE Passes(checks)
  BY <1>1 DEF Answer, Dispatched
<1>2. CASE ~Passes(checks)
  BY <1>2, VerdictAnswers DEF Answer, Dispatched, Refused
<1> QED
  BY <1>1, <1>2

\* A read that checks nothing.
LEMMA EmptyReadKnown ==
  ASSUME Read(<< >>)
  PROVE  status' \in Known
<1>1. Answer(<< >>, UNCHANGED << vars, feed >>, 200)
  BY DEF Read
<1>2. Passes(<< >>)
  BY DEF Passes
<1> QED
  BY <1>1, <1>2, KnownStatus DEF Answer

\* Cancelling and rescheduling, whoever asks.
LEMMA TicketKnown ==
  ASSUME NEW cred, NEW id, NEW h, NEW body,
         \/ CancelRoute(cred, id, h, body)
         \/ \E at : RescheduleRoute(cred, id, h, at, body)
  PROVE  status' \in Known
<1>1. CASE CancelRoute(cred, id, h, body)
  <2>1. Answering(staffCancelChecks(cred, id, body), Known)
    BY KnownChecks, BothAnswering DEF staffCancelChecks
  <2>2. Answering(cancelChecks(id, h, body), Known)
    BY KnownChecks, BothAnswering DEF cancelChecks
  <2> QED
    BY <1>1, <2>1, <2>2, AnswerKnown, KnownStatus DEF CancelRoute
<1>2. ASSUME NEW at, RescheduleRoute(cred, id, h, at, body)
      PROVE  status' \in Known
  <2> DEFINE staff == cred.kind = "token"
             named == staff \/ h # None
             dated == at # None
             boundary == decodeTicketIdParam(id) \o parseJsonBody(body) \o decodeBody(body)
                           \o << << named, failResponse("InvalidBody") >> >>
                           \o Failure(dated, "Defect")
             load == IF staff THEN loadOrTicketNotFound(id) ELSE authenticateCustomer(id, h)
  <2>1. named \in BOOLEAN /\ dated \in BOOLEAN
    OBVIOUS
  <2>2. \/ Refused(Verdict(boundary)) /\ ~Passes(boundary)
        \/ Dispatched(load \o rescheduleChecks(id, at), RescheduleTicket(id, at), 200)
    BY <1>2 DEF RescheduleRoute
  <2>3. Answering(load \o rescheduleChecks(id, at), Known)
    <3>1. Answering(load, Known)
      BY KnownChecks
    <3> HIDE DEF load
    <3> QED
      BY <3>1, KnownChecks, BothAnswering
  <2> HIDE DEF staff, named, dated, load
  <2>4. Answering(boundary, Known)
    <3>1. /\ Answering(<< << named, failResponse("InvalidBody") >> >>, Known)
          /\ Answering(Failure(dated, "Defect"), Known)
      BY <2>1, KnownCheck, KnownFailure
    <3> QED
      BY <3>1, KnownChecks, BothAnswering
  <2> HIDE DEF boundary
  <2>5. Refused(Verdict(boundary)) /\ ~Passes(boundary) => status' \in Known
    BY <2>4, VerdictAnswers DEF Refused
  <2> QED
    BY <2>2, <2>3, <2>5, AnswerKnown, KnownStatus
<1> QED
  BY <1>1, <1>2

LEMMA HolderRouteKnown ==
  ASSUME NEW h, NEW body, HolderRoute(h, body)
  PROVE  status' \in Known
<1>1. ASSUME NEW i, NEW form, IssueRoute(i, h, form, body)
      PROVE  status' \in Known
  <2>1. Answering(parseJsonBody(body) \o decodeBody(body), Known)
    BY KnownChecks, BothAnswering
  <2> QED
    BY <1>1, <2>1, AnswerKnown, KnownStatus DEF IssueRoute
<1>2. ASSUME NEW id, NEW e, RegisterPushRoute(id, h, e, body)
      PROVE  status' \in Known
  <2> DEFINE known == e # None
             open == ~Is(id, TERMINAL_TICKET_STATES)
  <2>1. known \in BOOLEAN /\ open \in BOOLEAN
    BY DEF Is, InState, Held
  <2> HIDE DEF known, open
  <2>2. Answering(<< << known, failResponse("InvalidBody") >> >>, Known)
    BY <2>1, KnownCheck, Zenon
  <2>3. Answering(<< << open, 409 >> >>, Known)
    <3>1. 409 \in Nat /\ 409 \in Known
      BY KnownStatus
    <3> QED
      BY <2>1, <3>1, SingleAnswering
  <2>4. Answering(registerPushChecks(id, h, e, body), Known)
    BY <2>2, <2>3, KnownChecks, BothAnswering DEF registerPushChecks, known, open
  <2> QED
    BY <1>2, <2>4, AnswerKnown, KnownStatus DEF RegisterPushRoute
<1>3. ASSUME NEW id, NEW e, UnregisterPushRoute(id, h, e, body)
      PROVE  status' \in Known
  <2> DEFINE own == id \notin Held(tickets) \/ tickets[id].handle = h
  <2>1. own \in BOOLEAN
    OBVIOUS
  <2> HIDE DEF own
  <2>2. Answering(Failure(own, "PhoneMismatch"), Known)
    BY <2>1, KnownFailure
  <2>3. Answering(decodeTicketIdParam(id) \o decodeBody(body), Known)
    BY KnownChecks, BothAnswering
  <2>4. Answering(decodeTicketIdParam(id) \o decodeBody(body)
                    \o Failure(own, "PhoneMismatch"), Known)
    BY <2>2, <2>3, BothAnswering
  <2>5. Answering(unregisterPushChecks(id, h, body), Known)
    BY <2>4 DEF unregisterPushChecks, own
  <2> QED
    BY <1>3, <2>5, AnswerKnown, KnownStatus DEF UnregisterPushRoute
<1>4. ASSUME NEW id, MyTicketRoute(id, h, body)
      PROVE  status' \in Known
  <2>1. Answering(decodeTicketIdParam(id) \o decodeBody(body)
                    \o authenticateCustomer(id, h), Known)
    BY KnownChecks, BothAnswering
  <2> QED
    BY <1>4, <2>1, AnswerKnown, KnownStatus DEF MyTicketRoute, Read
<1>5. ASSUME ByHandleRoute(h, body)
      PROVE  status' \in Known
  <2> DEFINE found == findActiveByHandle(tickets, h) # {}
  <2>1. found \in BOOLEAN
    OBVIOUS
  <2> HIDE DEF found
  <2>2. Answering(decodeBody(body), Known) /\ Answering(Failure(found, "TicketNotFound"), Known)
    BY <2>1, KnownFailure, KnownChecks
  <2>3. Answering(decodeBody(body) \o Failure(found, "TicketNotFound"), Known)
    BY <2>2, BothAnswering
  <2>4. Answering(byHandleChecks(h, body), Known)
    BY <2>3 DEF byHandleChecks, found
  <2> QED
    BY <1>5, <2>4, AnswerKnown, KnownStatus DEF ByHandleRoute, Read
<1> QED
  BY <1>1, <1>2, <1>3, <1>4, <1>5, TicketKnown DEF HolderRoute

LEMMA PublicRouteKnown ==
  ASSUME PublicRoute
  PROVE  status' \in Known
<1>1. ASSUME NEW id, CheckInRoute(id)
      PROVE  status' \in Known
  <2>1. Answering(decodeTicketIdParam(id) \o checkInChecks(id), Known)
    BY KnownChecks, BothAnswering
  <2> QED
    BY <1>1, <2>1, AnswerKnown, KnownStatus DEF CheckInRoute
<1>2. ASSUME NEW body, SlotsRoute(body)
      PROVE  status' \in Known
  <2>1. Answering(decodeBody(body), Known)
    BY KnownChecks
  <2> QED
    BY <1>2, <2>1, AnswerKnown, KnownStatus DEF SlotsRoute, Read
<1>3. ASSUME NEW body, NEW right \in BOOLEAN, handleStaffLogin(right, body)
      PROVE  status' \in Known
  <2>1. Answering(loginChecks(right, body), Known)
    BY KnownCheck, KnownChecks, BothAnswering DEF loginChecks
  <2> QED
    BY <1>3, <2>1, AnswerKnown, KnownStatus DEF handleStaffLogin, Read
<1>4. ASSUME QueueRoute
      PROVE  status' \in Known
  BY <1>4, EmptyReadKnown DEF QueueRoute
<1>5. ASSUME NEW upgrade, feedRoute(upgrade) \/ rateLimitMiddleware
      PROVE  status' \in Known
  BY <1>5, KnownStatus DEF feedRoute, rateLimitMiddleware, Refused
<1> QED
  BY <1>1, <1>2, <1>3, <1>4, <1>5 DEF PublicRoute

LEMMA StaffRouteKnown ==
  ASSUME StaffRoute
  PROVE  status' \in Known
<1>1. ASSUME StaffQueueRoute
      PROVE  status' \in Known
  BY <1>1, EmptyReadKnown DEF StaffQueueRoute
<1>2. ASSUME NEW id, ServedRoute(id) \/ NoShowRoute(id) \/ RecallRoute(id)
      PROVE  status' \in Known
  <2>1. Answering(decodeTicketIdParam(id) \o transition(id, {"Called", "Overdue"}), Known)
    BY KnownChecks, BothAnswering
  <2> QED
    BY <1>2, <2>1, AnswerKnown, KnownStatus
       DEF ServedRoute, NoShowRoute, RecallRoute, StaffTransition
<1>3. ASSUME NEW ids, CallBatchRepeatingRoute(ids)
      PROVE  status' \in Known
  BY <1>3, StatusType, KnownStatus DEF CallBatchRepeatingRoute
<1>4. ASSUME NEW lane, NEW body, CallNextRoute(lane, body)
      PROVE  status' \in Known
  <2> DEFINE next == IF lane # None THEN head(tickets, lane)
                     ELSE nextCallable(tickets, now, CallGrace)
             found == next # None
  <2>1. found \in BOOLEAN
    OBVIOUS
  <2>2. callNextChecks(lane, body)
          = parseJsonBody(body) \o decodeBody(body) \o Failure(found, "QueueEmpty")
    BY DEF callNextChecks
  <2> HIDE DEF found
  <2>3. /\ Answering(parseJsonBody(body), Known) /\ Answering(decodeBody(body), Known)
        /\ Answering(Failure(found, "QueueEmpty"), Known)
    BY <2>1, KnownFailure, KnownChecks
  <2>4. Answering(callNextChecks(lane, body), Known)
    BY <2>2, <2>3, BothAnswering
  <2> QED
    BY <1>4, <2>4, AnswerKnown, KnownStatus DEF CallNextRoute
<1>5. ASSUME NEW ids, NEW body, CallBatchRoute(ids, body)
      PROVE  status' \in Known
  <2> DEFINE boundary == parseJsonBody(body) \o decodeBody(body)
  <2>1. Answering(boundary, Known)
    BY KnownChecks, BothAnswering
  <2>2. \/ Dispatched(boundary, CallBatch(ids), 200)
        \/ \E failing : /\ ~Passes(transition(failing, {"Waiting"}))
                        /\ callBatchRefused(ids, failing)
    BY <1>5 DEF CallBatchRoute
  <2> HIDE DEF boundary
  <2>3. ASSUME NEW failing, ~Passes(transition(failing, {"Waiting"})),
               callBatchRefused(ids, failing)
        PROVE  status' \in Known
    BY <2>3, KnownChecks, VerdictAnswers DEF callBatchRefused, Refused
  <2> QED
    BY <2>1, <2>2, <2>3, AnswerKnown, KnownStatus
<1>6. ASSUME NEW id, NEW body, CallSpecificRoute(id, body)
      PROVE  status' \in Known
  <2>1. Answering(parseJsonBody(body) \o decodeBody(body) \o decodeTicketIdParam(id)
                    \o transition(id, {"Waiting"}), Known)
    BY KnownChecks, BothAnswering
  <2> QED
    BY <1>6, <2>1, AnswerKnown, KnownStatus DEF CallSpecificRoute
<1> QED
  BY <1>1, <1>2, <1>3, <1>4, <1>5, <1>6 DEF StaffRoute

LEMMA StepKnown ==
  ASSUME ApiNext
  PROVE  status' \in Known
<1>1. ASSUME StaffOnly(StaffRoute)
      PROVE  status' \in Known
  BY <1>1, StaffRouteKnown, TagStatus, KnownStatus DEF StaffOnly, Refused
<1>2. ASSUME NEW body, StaffTicketRoute(body)
      PROVE  status' \in Known
  BY <1>2, TicketKnown DEF StaffTicketRoute
<1>3. ASSUME Sweep \/ Quiet \/ Received
      PROVE  status' \in Known
  BY <1>3, KnownStatus DEF Sweep, Quiet, Received
<1> QED
  BY <1>1, <1>2, <1>3, HolderRouteKnown, PublicRouteKnown DEF ApiNext, Serving

-----------------------------------------------------------------------------
\* The client can trust the document: the feed's shape, the slots' counts and
\* the listed statuses, after any number of steps.
THEOREM AnswersListed == ApiSpec => []AnswersAsDocumented
<1> DEFINE Documented == feed \in QueueProjection /\ status \in Known
<1>1. IInv /\ HeldFinite => tickets \in Rows /\ projectionPayload(tickets) \in QueueProjection
  BY ProjectionType DEF IInv, TypeOK, Rows, HeldFinite
<1>2. ApiInit /\ IInv /\ HeldFinite => Documented
  BY <1>1, KnownStatus DEF ApiInit
<1>3. ASSUME IInv', HeldFinite', Documented, [ApiNext]_apiVars
      PROVE  Documented'
  <2>1. projectionPayload(tickets') \in QueueProjection
    BY <1>3, ProjectionType DEF IInv, TypeOK, Rows, HeldFinite
  <2>2. feed' \in {feed, projectionPayload(tickets')}
    BY <1>3, EveryStep DEF ApiStep, apiVars
  <2>3. status' \in Known
    BY <1>3, StepKnown DEF apiVars
  <2> QED
    BY <1>3, <2>1, <2>2, <2>3
<1>4. HeldFinite /\ Documented => AnswersAsDocumented
  <2> SUFFICES ASSUME HeldFinite, Documented PROVE AnswersAsDocumented
    OBVIOUS
  <2>1. \A s \in Slots : slotOf(tickets, s, SlotCapacity) \in Slot
    BY SlotType
  <2> QED
    BY <2>1, HolderAnswers, StaffAnswers, PublicAnswers DEF AnswersAsDocumented, Known
<1>5. ApiSpec => [](IInv /\ HeldFinite)
  BY SurfaceImplementsActor, Invariant, FinitelyMany, PTL
<1> HIDE DEF Documented
<1> QED
  BY <1>2, <1>3, <1>4, <1>5, PTL DEF ApiSpec

-----------------------------------------------------------------------------
(* Nobody in line moves back, for any length of the preview.  In the queue *)
(* this follows from what a step may do to the line (LineStep): without a  *)
(* recall, whoever waits after it waited before it, or was issued by it    *)
(* behind everybody else.  The customer's page counts in the last          *)
(* broadcast, which may be older than the queue.  Previews says what is    *)
(* left of its truth: the tickets it names are in the order it names them  *)
(* in, and nobody is missing in front of one of them.                      *)

\* What the preview V still says of the queue snap.
Previews(V, snap) ==
  /\ IsFiniteSet(V)
  /\ \A e \in V : /\ e.id \in TicketIds /\ snap[e.id] # None
                  /\ e.lane = snap[e.id].lane
                  /\ e.displaySeq = snap[e.id].displaySeq
  /\ \A e, f \in V : e.id = f.id => e = f
  /\ \A e \in V, j \in TicketIds :
       /\ snap[j] # None /\ snap[j].state = "Waiting"
       /\ snap[j].displaySeq < e.displaySeq
       => \E f \in V : f.id = j

\* The entries of t's lane in front of t.
InFront(V, t) == {e \in V : e.lane = t.lane /\ e.displaySeq < t.displaySeq}

FeedPreviews == Previews(feed.waitingPreview, tickets)

WaitsIn(snap, j) == snap[j] # None /\ snap[j].state = "Waiting"

\* Nobody who held a ticket lost it, its lane or its number.
HoldersStay(old, new) ==
  \A i \in TicketIds : old[i] # None => new[i] # None /\ SameHolder(old[i], new[i])

\* Whoever waits now waited before, or took a number behind everybody.
LineMovesUp(old, new) ==
  \A j \in TicketIds : WaitsIn(new, j) =>
    \/ WaitsIn(old, j) /\ SameHolder(old[j], new[j])
    \/ \A i \in TicketIds : old[i] # None => old[i].displaySeq < new[j].displaySeq

Recalled == \E j \in TicketIds : /\ InSt(j, {"Called", "Overdue"})
                                /\ tickets'[j].state = "Waiting"

-----------------------------------------------------------------------------
(* What a step does to the line.                                           *)

LEMMA HoldersStep ==
  ASSUME IInv, [Next]_vars
  PROVE  HoldersStay(tickets, tickets')
<1> SUFFICES ASSUME NEW i \in TicketIds, tickets[i] # None
             PROVE  tickets'[i] # None /\ SameHolder(tickets[i], tickets'[i])
  BY DEF HoldersStay
<1>1. CASE ~Issuing
  BY <1>1, HolderStep
<1>2. CASE Issuing
  <2>1. PICK j \in TicketIds : /\ tickets[j] = None
                               /\ \E row : tickets' = [tickets EXCEPT ![j] = row]
    BY <1>2 DEF Issuing, IssueTicket, Request, dispatch
  <2>2. tickets'[i] = tickets[i]
    BY <2>1
  <2> QED
    BY <2>2 DEF SameHolder
<1> QED
  BY <1>1, <1>2

\* Without a recall the line only moves up.
LEMMA LineStep ==
  ASSUME IInv, NumbersTopped, [Next]_vars, ~Recalled
  PROVE  LineMovesUp(tickets, tickets')
<1> SUFFICES ASSUME NEW j \in TicketIds, WaitsIn(tickets', j)
             PROVE  \/ WaitsIn(tickets, j) /\ SameHolder(tickets[j], tickets'[j])
                    \/ \A i \in TicketIds :
                         tickets[i] # None => tickets[i].displaySeq < tickets'[j].displaySeq
  BY DEF LineMovesUp
<1>1. CASE tickets[j] # None
  <2>1. tickets[j] \in Ticket
    BY <1>1 DEF IInv, TypeOK
  <2>2. SameHolder(tickets[j], tickets'[j])
    BY <1>1, HoldersStep DEF HoldersStay
  <2>3. Active(j)
    <3>1. CASE ~Issuing
      BY <3>1, HolderStep DEF WaitsIn, Active, InSt
    <3>2. CASE Issuing
      <4>1. PICK i \in TicketIds : /\ tickets[i] = None
                                   /\ \E row : tickets' = [tickets EXCEPT ![i] = row]
        BY <3>2 DEF Issuing, IssueTicket, Request, dispatch
      <4>2. tickets'[j] = tickets[j]
        BY <1>1, <4>1
      <4> QED
        BY <1>1, <4>2 DEF WaitsIn, Active, InSt
    <3> QED
      BY <3>1, <3>2
  <2>4. WaitsIn(tickets, j)
    BY <2>3 DEF Recalled, WaitsIn, Active, InSt
  <2> QED
    BY <2>2, <2>4
<1>2. CASE tickets[j] = None
  <2>1. Issuing
    BY <1>2, HolderStep DEF WaitsIn
  <2>2. PICK h \in Handles, i \in TicketIds, form \in IssueForms :
          /\ tickets[i] = None
          /\ tickets' = [tickets EXCEPT ![i] =
               applyIssue(form[1], h, nextDisplaySeq(tickets), form[2], now).ticket]
    BY <2>1 DEF Issuing, IssueTicket, Request, dispatch
  <2>3. i = j
    BY <1>2, <2>2 DEF WaitsIn
  <2>4. tickets'[j] = applyIssue(form[1], h, nextDisplaySeq(tickets), form[2], now).ticket
    BY <2>2, <2>3 DEF IInv, TypeOK
  <2>5. tickets'[j].displaySeq = nextDisplaySeq(tickets)
    BY <2>4 DEF applyIssue, ApplyResult
  <2> QED
    BY <2>5, NextNumberIsFresh
<1> QED
  BY <1>1, <1>2

-----------------------------------------------------------------------------
(* In the queue.                                                           *)

LEMMA QueueNeverGrows ==
  ASSUME NEW old \in Rows, NEW new \in Rows, NEW i \in TicketIds,
         HoldersStay(old, new), LineMovesUp(old, new), IsFiniteSet(Held(old)),
         positionOf(old, i) # None, positionOf(new, i) # None
  PROVE  /\ positionOf(old, i) \in Nat /\ positionOf(new, i) \in Nat
         /\ positionOf(new, i) <= positionOf(old, i)
<1>1. WaitsIn(old, i) /\ WaitsIn(new, i)
  BY DEF positionOf, InState, Held, WaitsIn
<1>2. old[i] \in Ticket /\ new[i] \in Ticket /\ SameHolder(old[i], new[i])
  BY <1>1 DEF WaitsIn, Rows, HoldersStay
<1>3. Ahead(new, i) \subseteq Ahead(old, i)
  <2> SUFFICES ASSUME NEW j \in Ahead(new, i) PROVE j \in Ahead(old, i)
    OBVIOUS
  <2>1. /\ j \in TicketIds /\ WaitsIn(new, j) /\ new[j].lane = new[i].lane
        /\ new[j].displaySeq < new[i].displaySeq
    BY DEF Ahead, Waiting, InState, Held, WaitsIn, Rows
  <2>2. new[j] \in Ticket
    BY <2>1 DEF WaitsIn, Rows
  <2>3. WaitsIn(old, j) /\ SameHolder(old[j], new[j])
    <3>1. CASE \A k \in TicketIds : old[k] # None => old[k].displaySeq < new[j].displaySeq
      <4>1. old[i].displaySeq < new[j].displaySeq
        BY <1>1, <3>1 DEF WaitsIn
      <4> QED
        BY <1>2, <2>1, <2>2, <4>1 DEF SameHolder, Ticket
    <3> QED
      BY <2>1, <3>1 DEF LineMovesUp
  <2> QED
    BY <1>2, <2>1, <2>3 DEF Ahead, Waiting, InState, Held, WaitsIn, Rows, SameHolder
<1>4. Ahead(old, i) \in SUBSET Held(old)
  BY DEF Ahead, Waiting, InState
<1>5. IsFiniteSet(Ahead(old, i))
  BY <1>4, FS_Subset
<1>6. /\ Cardinality(Ahead(old, i)) \in Nat /\ Cardinality(Ahead(new, i)) \in Nat
      /\ Cardinality(Ahead(new, i)) <= Cardinality(Ahead(old, i))
  BY <1>3, <1>5, FS_Subset, FS_CardinalityType
<1> QED
  BY <1>6 DEF positionOf

-----------------------------------------------------------------------------
(* On the page.                                                            *)

\* A projection that is sent says the truth.
LEMMA FreshPreview ==
  ASSUME NEW snap \in Rows, IsFiniteSet(Held(snap))
  PROVE  /\ Previews(projectionPayload(snap).waitingPreview, snap)
         /\ \A e \in projectionPayload(snap).waitingPreview : WaitsIn(snap, e.id)
<1> DEFINE waiting == InState(snap, {"Waiting"})
           lowest == Lowest(snap, waiting, WaitingPreview)
           V == Project(snap, lowest)
           below(i) == {j \in waiting : snap[j].displaySeq < snap[i].displaySeq}
<1>1. projectionPayload(snap).waitingPreview = V
  BY DEF projectionPayload, computeQueueBuckets
<1>2. /\ waiting \subseteq Held(snap) /\ lowest \subseteq waiting
      /\ \A i \in waiting : i \in TicketIds /\ snap[i] \in Ticket /\ WaitsIn(snap, i)
  BY DEF InState, Held, Lowest, Rows, WaitsIn
<1>3. IsFiniteSet(waiting) /\ IsFiniteSet(lowest)
  BY <1>2, FS_Subset
<1>4. \A e \in V : /\ e.id \in lowest
                   /\ e = projectAnonymous(snap, e.id)
                   /\ e.lane = snap[e.id].lane
                   /\ e.displaySeq = snap[e.id].displaySeq
  BY DEF Project, projectAnonymous
<1>5. IsFiniteSet(V)
  <2> DEFINE f == [i \in lowest |-> projectAnonymous(snap, i)]
  <2>1. f \in Surjection(lowest, V)
    BY DEF Surjection, Project
  <2> QED
    BY <1>3, <2>1, FS_Surjection
<1>6. ASSUME NEW e \in V, NEW j \in waiting, snap[j].displaySeq < e.displaySeq
      PROVE  \E f \in V : f.id = j
  <2>1. e.id \in waiting /\ Cardinality(below(e.id)) < WaitingPreview
    BY <1>2, <1>4 DEF Lowest
  <2>2. below(j) \subseteq below(e.id)
    BY <1>2, <1>4, <1>6, <2>1 DEF Ticket
  <2>3. below(e.id) \in SUBSET waiting
    OBVIOUS
  <2>4. IsFiniteSet(below(e.id))
    BY <1>3, <2>3, FS_Subset
  <2>5. /\ Cardinality(below(j)) \in Nat /\ Cardinality(below(e.id)) \in Nat
        /\ Cardinality(below(j)) <= Cardinality(below(e.id))
    BY <2>2, <2>4, FS_Subset, FS_CardinalityType
  <2>6. Cardinality(below(j)) < WaitingPreview
    <3> HIDE DEF below
    <3> QED
      BY <2>1, <2>5, QueueViewsAssumption
  <2>7. j \in lowest
    <3>1. lowest = {k \in waiting : Cardinality(below(k)) < WaitingPreview}
      BY DEF Lowest
    <3> HIDE DEF below, lowest
    <3> QED
      BY <2>6, <3>1
  <2> QED
    <3>1. projectAnonymous(snap, j) \in V
      BY <2>7 DEF Project
    <3>2. projectAnonymous(snap, j).id = j
      BY DEF projectAnonymous
    <3> HIDE DEF V
    <3> QED
      BY <3>1, <3>2
<1>7. \A e \in V : e.id \in TicketIds /\ snap[e.id] # None /\ WaitsIn(snap, e.id)
  BY <1>2, <1>4 DEF WaitsIn
<1>8. \A e, f \in V : e.id = f.id => e = f
  BY <1>4
<1>9. \A j \in TicketIds : snap[j] # None /\ snap[j].state = "Waiting" => j \in waiting
  BY DEF InState, Held, Rows
<1> HIDE DEF V
<1>10. Previews(V, snap)
  BY <1>4, <1>5, <1>6, <1>7, <1>8, <1>9 DEF Previews
<1> QED
  BY <1>1, <1>7, <1>10

\* A projection that is not renewed goes on saying it while tickets only
\* leave the line.
LEMMA StalePreview ==
  ASSUME NEW old, NEW new, NEW V, Previews(V, old), HoldersStay(old, new),
         \A j \in TicketIds : WaitsIn(new, j) => WaitsIn(old, j)
  PROVE  Previews(V, new)
<1>1. \A e \in V : /\ e.id \in TicketIds /\ new[e.id] # None
                   /\ e.lane = new[e.id].lane
                   /\ e.displaySeq = new[e.id].displaySeq
  BY DEF Previews, HoldersStay, SameHolder
<1>2. \A e \in V, j \in TicketIds :
        /\ new[j] # None /\ new[j].state = "Waiting"
        /\ new[j].displaySeq < e.displaySeq
        => \E f \in V : f.id = j
  BY DEF Previews, HoldersStay, SameHolder, WaitsIn
<1> QED
  BY <1>1, <1>2 DEF Previews

\* What the page shows is the number of entries in front of the ticket's.
LEMMA PositionOnPage ==
  ASSUME NEW payload, NEW i, NEW snap, Previews(payload.waitingPreview, snap),
         positionInfo(payload, i) # None
  PROVE  \E t \in payload.waitingPreview :
           /\ t.id = i
           /\ positionInfo(payload, i) = Cardinality(InFront(payload.waitingPreview, t))
<1> DEFINE mine == {e \in payload.waitingPreview : e.id = i}
           t == CHOOSE e \in mine : TRUE
<1>1. mine # {}
  BY DEF positionInfo
<1>2. t \in mine
  BY <1>1
<1>3. positionInfo(payload, i) = Cardinality(InFront(payload.waitingPreview, t))
  BY <1>1 DEF positionInfo, InFront
<1> QED
  BY <1>2, <1>3

\* Shown at all, it is a number.
LEMMA PositionType ==
  ASSUME NEW payload, NEW i, NEW snap, Previews(payload.waitingPreview, snap),
         positionInfo(payload, i) # None
  PROVE  positionInfo(payload, i) \in Nat
<1>1. PICK t : positionInfo(payload, i) = Cardinality(InFront(payload.waitingPreview, t))
  BY PositionOnPage
<1>2. \A S \in SUBSET payload.waitingPreview : Cardinality(S) \in Nat
  BY FS_Subset, FS_CardinalityType DEF Previews
<1> QED
  BY <1>1, <1>2 DEF InFront

LEMMA PageNeverGrows ==
  ASSUME NEW old \in Rows, NEW new \in Rows, NEW i,
         HoldersStay(old, new), LineMovesUp(old, new),
         NEW p, Previews(p.waitingPreview, old),
         NEW q, Previews(q.waitingPreview, new),
         \A e \in q.waitingPreview : WaitsIn(new, e.id),
         positionInfo(p, i) # None, positionInfo(q, i) # None
  PROVE  positionInfo(q, i) <= positionInfo(p, i)
<1> DEFINE V == p.waitingPreview
           W == q.waitingPreview
<1>1. PICK t \in V :
        /\ t.id = i
        /\ positionInfo(p, i) = Cardinality(InFront(V, t))
  BY PositionOnPage
<1>2. PICK u \in W :
        /\ u.id = i
        /\ positionInfo(q, i) = Cardinality(InFront(W, u))
  BY PositionOnPage
<1> DEFINE before == InFront(V, t)
           after == InFront(W, u)
<1>3. /\ i \in TicketIds /\ old[i] # None /\ old[i] \in Ticket /\ new[i] \in Ticket
      /\ t.lane = old[i].lane /\ t.displaySeq = old[i].displaySeq
      /\ u.lane = old[i].lane /\ u.displaySeq = old[i].displaySeq
  BY <1>1, <1>2 DEF Previews, HoldersStay, SameHolder, Rows
<1>4. ASSUME NEW e \in after
      PROVE  \E f \in before : f.id = e.id
  <2>1. /\ e.id \in TicketIds /\ WaitsIn(new, e.id) /\ new[e.id] \in Ticket
        /\ e.lane = new[e.id].lane /\ e.displaySeq = new[e.id].displaySeq
        /\ e.lane = old[i].lane /\ e.displaySeq < old[i].displaySeq
    BY <1>3 DEF InFront, Previews, Rows
  <2>2. WaitsIn(old, e.id) /\ SameHolder(old[e.id], new[e.id])
    <3>1. CASE \A k \in TicketIds : old[k] # None => old[k].displaySeq < new[e.id].displaySeq
      <4>1. old[i].displaySeq < new[e.id].displaySeq
        BY <1>3, <3>1
      <4> QED
        BY <1>3, <2>1, <4>1 DEF Ticket
    <3> QED
      BY <2>1, <3>1 DEF LineMovesUp
  <2>3. /\ old[e.id].lane = t.lane /\ old[e.id].displaySeq < t.displaySeq
    BY <1>3, <2>1, <2>2 DEF SameHolder
  <2>4. PICK f \in V : f.id = e.id
    BY <1>1, <2>1, <2>2, <2>3 DEF Previews, WaitsIn
  <2>5. f.lane = old[e.id].lane /\ f.displaySeq = old[e.id].displaySeq
    BY <2>4 DEF Previews
  <2> QED
    BY <2>3, <2>4, <2>5 DEF InFront
<1>5. IsFiniteSet(before)
  BY FS_Subset DEF InFront, Previews
<1>6. \A e, f \in after : e.id = f.id => e = f
  BY DEF InFront, Previews
<1> HIDE DEF before, after
<1> DEFINE same == [e \in after |-> CHOOSE f \in before : f.id = e.id]
<1>7. \A e \in after : same[e] \in before /\ same[e].id = e.id
  BY <1>4
<1>8. same \in Injection(after, before)
  BY <1>6, <1>7 DEF Injection, IsInjective
<1> HIDE DEF same
<1>9. Cardinality(after) <= Cardinality(before)
  BY <1>5, <1>8, FS_Injection
<1> QED
  BY <1>1, <1>2, <1>9 DEF before, after

-----------------------------------------------------------------------------
(* The surface.                                                            *)

\* What follows of the steps of the surface: a feed that is sent something is
\* sent the truth, and one that is not knows only who has left.
LEMMA FeedStep ==
  ASSUME IInv, HeldFinite, FeedPreviews, [ApiNext]_apiVars
  PROVE  /\ FeedPreviews'
         /\ \/ feed' = feed
            \/ /\ feed' = projectionPayload(tickets')
               /\ \A e \in feed'.waitingPreview : WaitsIn(tickets', e.id)
<1>1. ApiStep \/ UNCHANGED apiVars
  BY EveryStep
<1>2. [Next]_vars
  BY <1>1 DEF ApiStep, apiVars
<1>3. tickets' \in Rows /\ IsFiniteSet(Held(tickets'))
  BY <1>2, NextKeeps, HeldFiniteKeeps DEF IInv, TypeOK, Rows, HeldFinite
<1>4. CASE feed' = projectionPayload(tickets')
  BY <1>3, <1>4, FreshPreview DEF FeedPreviews
<1>5. CASE feed' = feed /\ \A j \in TicketIds : WaitsIn(tickets', j) => WaitsIn(tickets, j)
  BY <1>2, <1>5, HoldersStep, StalePreview DEF FeedPreviews
<1>6. ASSUME NEW ids, CallBatchRepeating(ids)
      PROVE  \A j \in TicketIds : WaitsIn(tickets', j) => WaitsIn(tickets, j)
  BY <1>6 DEF CallBatchRepeating, InSt, WaitsIn
<1>7. UNCHANGED tickets => \A j \in TicketIds : WaitsIn(tickets', j) => WaitsIn(tickets, j)
  OBVIOUS
<1> QED
  BY <1>1, <1>4, <1>5, <1>6, <1>7 DEF ApiStep, apiVars, vars

\* What the attached feeds were last sent is never wrong about the order.
LEMMA FeedKeepsOrder == ApiSpec => []FeedPreviews
<1>1. ApiInit => FeedPreviews
  <2> SUFFICES ASSUME ApiInit PROVE FeedPreviews
    OBVIOUS
  <2>1. tickets \in Rows /\ Held(tickets) = {}
    BY DEF ApiInit, Init, Rows, Held
  <2> QED
    BY <2>1, FreshPreview, FS_EmptySet DEF ApiInit, FeedPreviews
<1>2. IInv /\ HeldFinite /\ FeedPreviews /\ [ApiNext]_apiVars => FeedPreviews'
  BY FeedStep
<1> QED
  BY <1>1, <1>2, Invariant, FinitelyMany, SurfaceImplementsActor, PTL DEF ApiSpec

\* A customer who waits never sees the number of people ahead grow, in the
\* queue or on the page, unless somebody is recalled: for any number of
\* tickets, any interleaving and any length of the preview.
THEOREM NobodyMovesBack == ApiSpec => PositionNeverGrows
<1>1. IInv /\ HeldFinite /\ NumbersTopped /\ FeedPreviews /\ [ApiNext]_apiVars
      => [LET Grows(p, q) == p # None /\ q # None /\ q > p
              recalled == \E j \in TicketIds : /\ InSt(j, {"Called", "Overdue"})
                                              /\ tickets'[j].state = "Waiting"
          IN  << tickets, feed >>' # << tickets, feed >> /\ ~recalled
              => \A i \in TicketIds :
                   /\ ~Grows(positionOf(tickets, i), positionOf(tickets', i))
                   /\ ~Grows(positionInfo(feed, i), positionInfo(feed', i))]_apiVars
  <2> SUFFICES ASSUME IInv, HeldFinite, NumbersTopped, FeedPreviews, [ApiNext]_apiVars,
                      ~Recalled, NEW i \in TicketIds
               PROVE  /\ positionOf(tickets, i) # None /\ positionOf(tickets', i) # None
                         => ~(positionOf(tickets', i) > positionOf(tickets, i))
                      /\ positionInfo(feed, i) # None /\ positionInfo(feed', i) # None
                         => ~(positionInfo(feed', i) > positionInfo(feed, i))
    BY DEF Recalled
  <2>1. [Next]_vars
    BY EveryStep DEF ApiStep, apiVars
  <2>2. /\ tickets \in Rows /\ tickets' \in Rows /\ IsFiniteSet(Held(tickets))
        /\ HoldersStay(tickets, tickets') /\ LineMovesUp(tickets, tickets')
    BY <2>1, NextKeeps, HoldersStep, LineStep DEF IInv, TypeOK, Rows, HeldFinite
  <2>3. ASSUME positionOf(tickets, i) # None, positionOf(tickets', i) # None
        PROVE  ~(positionOf(tickets', i) > positionOf(tickets, i))
    BY <2>2, <2>3, QueueNeverGrows
  <2>4. ASSUME positionInfo(feed, i) # None, positionInfo(feed', i) # None
        PROVE  ~(positionInfo(feed', i) > positionInfo(feed, i))
    <3>1. FeedPreviews'
      BY FeedStep
    <3>2. positionInfo(feed, i) \in Nat /\ positionInfo(feed', i) \in Nat
      BY <2>4, <3>1, PositionType DEF FeedPreviews
    <3>3. CASE feed' = feed
      BY <3>2, <3>3
    <3>4. CASE \A e \in feed'.waitingPreview : WaitsIn(tickets', e.id)
      <4>1. positionInfo(feed', i) <= positionInfo(feed, i)
        BY <2>2, <2>4, <3>1, <3>4, PageNeverGrows DEF FeedPreviews
      <4> QED
        BY <3>2, <4>1
    <3> QED
      BY <3>3, <3>4, FeedStep
  <2> QED
    BY <2>3, <2>4
<1> QED
  BY <1>1, Invariant, FinitelyMany, NumbersStayTopped, FeedKeepsOrder, SurfaceImplementsActor,
     PTL DEF ApiSpec, PositionNeverGrows

=============================================================================
