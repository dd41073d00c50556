------------------------------ MODULE OpenApi ------------------------------
(***************************************************************************)
(* The OpenAPI document the Worker serves (openapi.ts, with the shapes of  *)
(* responseSchemas.ts), beside the surface it documents: for each path the *)
(* statuses it lists and, where QueueViews has the body, the body's shape. *)
(* The web client's types are generated from this document.                *)
(*                                                                         *)
(* What the document leaves out: 400 for a body that does not parse, on    *)
(* every path that takes one; 422 for a misshapen body of /queue/call-next;*)
(* 429 of the limited paths other than issue, by-handle and call-next; 401 *)
(* for a cancellation under a wrong staff token, where it has 403; and the *)
(* paths call-specific, call-batch and /tickets/me altogether.             *)
(***************************************************************************)
EXTENDS QueueApi

-----------------------------------------------------------------------------
(* Shapes.                                                                 *)

ProjectionEntry ==
  [id : TicketIds, lane : Lane, displaySeq : Nat,
   appointmentAt : Instant \cup {None}]

\* An entry of the overdue list may carry its nudge count.
OverdueEntry == ProjectionEntry \X Nat

QueueProjection ==
  [laneCounts : [Lane -> Nat],
   calling : SUBSET ProjectionEntry,
   overdue : SUBSET OverdueEntry,
   waitingPreview : SUBSET ProjectionEntry,
   nextReservationDeadline : Instant \cup {None}]

Slot == [capacity : Nat, taken : Nat, available : Nat]

-----------------------------------------------------------------------------
(* The statuses each path lists.                                           *)

issueResponses == {200, 201, 422, 429}

checkInResponses == {200, 404, 409, 422}

slotsResponses == {200, 422}

byHandleResponses == {200, 404, 422, 429}

cancelResponses == {200, 403, 404, 409, 422}

registerPushResponses == {201, 403, 404, 409, 422}

unregisterPushResponses == {200, 403, 404, 422}

rescheduleResponses == {200, 403, 404, 409, 422}

servedResponses == {200, 401, 403, 404, 409}

noShowResponses == {200, 401, 403, 404, 409}

recallResponses == {200, 401, 403, 404, 409}

queueResponses == {200}

\* 503 is the answer of a deployment without a staff secret.
staffQueueResponses == {200, 401, 503}

callNextResponses == {200, 401, 403, 409, 429}

feedResponses == {101, 426}

loginResponses == {200, 401, 422, 503}

-----------------------------------------------------------------------------
AnswerTo(checks, answer) == IF Passes(checks) THEN answer ELSE Verdict(checks)

\* A staff request is guarded before its route runs.
AnswerToStaff(cred, checks) == AnswerTo(requireStaff(cred) \o checks, 200)

\* The paths that a well-formed request of the holder h may be sent to.
HolderAnswersListed(id, h) ==
  LET own == authenticateCustomer(id, h)
  IN  /\ AnswerTo(cancelChecks(id, h, "good"), 200) \in cancelResponses
      /\ \A e \in Endpoints \cup {None} :
           AnswerTo(registerPushChecks(id, h, e, "good"), 201) \in registerPushResponses
      /\ AnswerTo(unregisterPushChecks(id, h, "good"), 200) \in unregisterPushResponses
      /\ \A at \in RescheduleTargets :
           AnswerTo(decodeTicketIdParam(id) \o own \o rescheduleChecks(id, at), 200)
             \in rescheduleResponses
      /\ AnswerTo(byHandleChecks(h, "good"), 200) \in byHandleResponses

StaffAnswersListed(id, cred) ==
  LET closing == decodeTicketIdParam(id) \o transition(id, {"Called", "Overdue"})
  IN  /\ AnswerToStaff(cred, closing)
           \in servedResponses \cap noShowResponses \cap recallResponses
      /\ \A lane \in Lane \cup {None} :
           AnswerToStaff(cred, callNextChecks(lane, "good")) \in callNextResponses
      /\ AnswerToStaff(cred, << >>) \in staffQueueResponses
      /\ staffCapable(cred) =>
           AnswerTo(staffCancelChecks(cred, id, "good"), 200) \in cancelResponses

PublicAnswersListed(id, body) ==
  /\ AnswerTo(decodeTicketIdParam(id) \o checkInChecks(id), 200) \in checkInResponses
  /\ AnswerTo(decodeBody(body), 201) \in issueResponses
  /\ AnswerTo(decodeBody(body), 200) \in slotsResponses
  /\ \A right \in BOOLEAN : AnswerTo(loginChecks(right, body), 200) \in loginResponses
  /\ AnswerTo(<< >>, 200) \in queueResponses

\* The client can trust the document it is generated from: whatever the queue
\* has come to, the feed carries what the document says of the projection, a
\* slot's counts are not negative, and a request that is well-formed, or
\* misshapen where the document has 422, is answered with a listed status.
AnswersAsDocumented ==
  /\ feed \in QueueProjection
  /\ status \in issueResponses \cup feedResponses \cup loginResponses
                  \cup checkInResponses \cup cancelResponses \cup {400, 500, None}
  /\ status = None =>
       /\ \A s \in Slots : slotOf(tickets, s, SlotCapacity) \in Slot
       /\ \A id \in Ids :
            /\ \A h \in Handles : HolderAnswersListed(id, h)
            /\ \A cred \in {Anonymous} \cup Header : StaffAnswersListed(id, cred)
            /\ \A body \in {"misshapen", "good"} : PublicAnswersListed(id, body)

=============================================================================
