-------------------------- MODULE QueueShopProofs --------------------------
(***************************************************************************)
(* Proofs about the QueueShop actor, for any number of tickets, customers  *)
(* and endpoints and any sweep parameters.                                 *)
(*                                                                         *)
(* The argument: a request, whatever it is, changes rows in one of a few   *)
(* benign ways (RequestBenign), and benign changes keep the inductive      *)
(* invariant even while a sweep is suspended (BenignKeeps).  What is left  *)
(* are the few steps of the sweep itself.  The last part is about the      *)
(* punctual platform: how long a call can last there.                      *)
(***************************************************************************)
EXTENDS QueueShopTimely, TicketsProofs

Rows == [TicketIds -> Ticket \cup {None}]

\* A well-formed row of this variant.
Sound(t) == t \in Ticket /\ VariantShape(t)

\* What a request may turn a row into: a ticket waiting, called just now or
\* closed by somebody, or the same ticket with another appointment; always a
\* ticket of the same holder.
Benign(old, new) ==
  \/ new = old
  \/ /\ Sound(new)
     /\ \/ old = None
        \/ old.state \notin TERMINAL_TICKET_STATES /\ SameHolder(old, new)
     /\ new.closedBy # "system"
     /\ \/ new.state = "Waiting"
        \/ new.state = "Called" /\ new.calledAt = now
        \/ new.state \in TERMINAL_TICKET_STATES
        \/ old # None /\ new = [old EXCEPT !.appointmentAt = new.appointmentAt]

BenignRequest ==
  \E new \in Rows :
    /\ tickets' = new
    /\ subs' = reapTerminalSubscriptions(new)
    /\ \/ alarmAt' = ensureAlarmArmed
       \/ alarmAt' = alarmAt /\ \A i \in TicketIds : Active(i)' => Active(i)
    /\ UNCHANGED << now, sweepVars >>
    /\ \A i \in TicketIds : Benign(tickets[i], new[i])

SubscriptionChange ==
  /\ UNCHANGED << now, tickets, alarmAt, sweepVars >>
  /\ subs' \in [TicketIds -> SUBSET Endpoints]
  /\ \A i \in TicketIds : Terminal(i) => subs'[i] \subseteq subs[i]

\* A row of an issued ticket is a well-formed ticket.
LEMMA HeldSound ==
  ASSUME TypeOK, NEW i \in TicketIds, tickets[i] # None
  PROVE  Sound(tickets[i])
BY DEF TypeOK, Sound

\* One benign row makes a benign request.
LEMMA RowBenign ==
  ASSUME TypeOK, NEW i \in TicketIds, NEW row, Request(i, row),
         Sound(row), Benign(tickets[i], row)
  PROVE  BenignRequest
<1> DEFINE new == [tickets EXCEPT ![i] = row]
<1>1. new \in Rows
  BY DEF TypeOK, Rows, Sound
<1>2. \A j \in TicketIds : Benign(tickets[j], new[j])
  BY DEF TypeOK, Benign
<1>3. dispatch(new) /\ UNCHANGED sweepVars
  BY DEF Request
<1> QED
  BY <1>1, <1>2, <1>3 DEF BenignRequest, dispatch

\* Changing no row makes a benign request too.
LEMMA NoRowBenign ==
  ASSUME TypeOK, dispatch(tickets), UNCHANGED sweepVars
  PROVE  BenignRequest
BY DEF TypeOK, Rows, Benign, BenignRequest, dispatch

\* The number an issue hands out is a number.
LEMMA NextNumberType ==
  ASSUME TypeOK
  PROVE  nextDisplaySeq(tickets) \in Nat
<1> DEFINE last == HighestNumber(tickets, Held(tickets))
<1>1. CASE last = {}
  BY <1>1 DEF nextDisplaySeq
<1>2. CASE last # {}
  <2> DEFINE top == CHOOSE i \in last : TRUE
  <2>1. top \in last
    BY <1>2
  <2>2. top \in TicketIds /\ tickets[top] # None
    BY <2>1 DEF HighestNumber, Held, TypeOK
  <2>3. tickets[top].displaySeq \in Nat
    BY <2>2 DEF TypeOK, Ticket
  <2>4. nextDisplaySeq(tickets) = 1 + tickets[top].displaySeq
    BY <1>2 DEF nextDisplaySeq
  <2> QED
    BY <2>3, <2>4
<1> QED
  BY <1>1, <1>2

\* What each use case of a request makes of a row is benign.
LEMMA TransitionBenign ==
  ASSUME TypeOK, NEW i \in TicketIds, tickets[i] # None,
         NEW by \in {"staff", "customer"}, NEW to \in Instant
  PROVE  LET t == tickets[i]
             Ok(row) == Sound(row) /\ Benign(t, row)
         IN  /\ t.state = "Waiting" =>
                  /\ Ok(applyCall(t, now).ticket)
                  /\ Ok(applyCheckIn(t, now).ticket)
             /\ t.state \in {"Called", "Overdue"} =>
                  /\ Ok(applyMarkServed(t, now, "staff").ticket)
                  /\ Ok(applyMarkNoShow(t, now, "staff").ticket)
                  /\ Ok(applyRecall(t, now).ticket)
             /\ t.state \in {"Waiting", "Called", "Overdue"} =>
                  /\ Ok(applyCancel(t, now, by).ticket)
                  /\ Ok(applyReschedule(t, to, now).ticket)
<1> DEFINE t == tickets[i]
<1>0. now \in Instant
  BY DEF TypeOK
<1>1. Sound(t)
  BY HeldSound
<1>2. by \in Actor /\ "staff" \in Actor /\ None # "system"
  BY NoneAssumption DEF Actor
<1>3. /\ Sound(applyCall(t, now).ticket)
      /\ Sound(applyMarkServed(t, now, "staff").ticket)
      /\ Sound(applyMarkNoShow(t, now, "staff").ticket)
      /\ Sound(applyRecall(t, now).ticket)
      /\ Sound(applyCancel(t, now, by).ticket)
      /\ Sound(applyReschedule(t, to, now).ticket)
      /\ t.state = "Waiting" => Sound(applyCheckIn(t, now).ticket)
  BY <1>0, <1>1, <1>2, TransitionType, TransitionShape DEF Sound
<1>11. /\ SameHolder(t, applyCall(t, now).ticket)
      /\ SameHolder(t, applyMarkServed(t, now, "staff").ticket)
      /\ SameHolder(t, applyMarkNoShow(t, now, "staff").ticket)
      /\ SameHolder(t, applyRecall(t, now).ticket)
      /\ SameHolder(t, applyCancel(t, now, by).ticket)
      /\ SameHolder(t, applyReschedule(t, to, now).ticket)
      /\ SameHolder(t, applyCheckIn(t, now).ticket)
  BY <1>0, <1>1, <1>2, TransitionType DEF Sound
<1> USE <1>1 DEF Sound, VariantShape, Ticket, ApplyResult, common,
                 TERMINAL_TICKET_STATES
<1>4. /\ applyCall(t, now).ticket.state = "Called"
      /\ applyCall(t, now).ticket.calledAt = now
      /\ applyCall(t, now).ticket.closedBy = None
  BY DEF applyCall
<1>5. /\ applyMarkServed(t, now, "staff").ticket.state = "Served"
      /\ applyMarkServed(t, now, "staff").ticket.closedBy = "staff"
  BY DEF applyMarkServed
<1>6. /\ applyMarkNoShow(t, now, "staff").ticket.state = "NoShow"
      /\ applyMarkNoShow(t, now, "staff").ticket.closedBy = "staff"
  BY DEF applyMarkNoShow
<1>7. /\ applyRecall(t, now).ticket.state = "Waiting"
      /\ applyRecall(t, now).ticket.closedBy = None
  BY DEF applyRecall
<1>8. /\ applyCancel(t, now, by).ticket.state = "Cancelled"
      /\ applyCancel(t, now, by).ticket.closedBy = by
  BY DEF applyCancel
<1>9. /\ applyReschedule(t, to, now).ticket = [t EXCEPT !.appointmentAt = to]
      /\ applyReschedule(t, to, now).ticket.appointmentAt = to
      /\ applyReschedule(t, to, now).ticket.closedBy = t.closedBy
  BY DEF applyReschedule
<1>10. /\ applyCheckIn(t, now).ticket.state = "Waiting"
       /\ applyCheckIn(t, now).ticket.closedBy = None
  BY DEF applyCheckIn
<1> QED
  BY <1>2, <1>3, <1>11, <1>4, <1>5, <1>6, <1>7, <1>8, <1>9, <1>10 DEF Benign

\* Every request of staff and customers is benign, or touches only the
\* subscriptions of a ticket that is not closed (or removes one).
LEMMA RequestBenign ==
  ASSUME TypeOK, StaffAction \/ CustomerAction
  PROVE  BenignRequest \/ SubscriptionChange
<1>0. now \in Instant /\ None \notin TicketIds
  BY QueueShopAssumption DEF TypeOK
<1>1. ASSUME NEW i \in TicketIds, InSt(i, {"Waiting"}),
             Request(i, applyCall(tickets[i], now).ticket)
      PROVE  BenignRequest
  BY <1>0, <1>1, TransitionBenign, RowBenign DEF InSt
<1>2. ASSUME NEW lane \in Lane \cup {None}, CallNext(lane)
      PROVE  BenignRequest
  BY <1>1, <1>2 DEF CallNext
<1>3. ASSUME NEW ids \in SUBSET TicketIds, CallBatch(ids) \/ CallBatchRepeating(ids)
      PROVE  BenignRequest
  <2> DEFINE new == [i \in TicketIds |-> IF i \in ids
                       THEN applyCall(tickets[i], now).ticket ELSE tickets[i]]
  <2>1. ASSUME NEW i \in TicketIds
        PROVE  new[i] \in Ticket \cup {None} /\ Benign(tickets[i], new[i])
    <3>1. CASE i \in ids
      <4>1. InSt(i, {"Waiting"})
        BY <1>3, <3>1 DEF CallBatch, CallBatchRepeating
      <4>2. /\ Sound(applyCall(tickets[i], now).ticket)
            /\ Benign(tickets[i], applyCall(tickets[i], now).ticket)
        BY <1>0, <4>1, TransitionBenign DEF InSt
      <4> QED
        BY <3>1, <4>2 DEF Sound
    <3>2. CASE i \notin ids
      BY <3>2 DEF TypeOK, Benign
    <3> QED
      BY <3>1, <3>2
  <2>2. new \in Rows
    BY <2>1 DEF Rows
  <2>3. CASE CallBatch(ids)
    BY <2>1, <2>2, <2>3 DEF CallBatch, dispatch, BenignRequest
  <2>4. CASE CallBatchRepeating(ids)
    <3>1. \A i \in TicketIds : new[i] # tickets[i] =>
            new[i].state = "Called" /\ Active(i)
      BY <2>4 DEF CallBatchRepeating, TypeOK, InSt, Active, applyCall, ApplyResult,
                  common, Ticket
    <3>2. reapTerminalSubscriptions(new) = subs
      BY <3>1 DEF TypeOK, reapTerminalSubscriptions, TERMINAL_TICKET_STATES
    <3>3. \A i \in TicketIds : Active(i)' => Active(i)
      BY <2>4, <3>1 DEF CallBatchRepeating, Active, InSt
    <3> QED
      BY <2>1, <2>2, <2>4, <3>2, <3>3 DEF CallBatchRepeating, BenignRequest
  <2> QED
    BY <1>3, <2>3, <2>4
<1>4. ASSUME NEW i \in TicketIds,
             CallSpecific(i) \/ MarkServed(i) \/ MarkNoShow(i) \/ Recall(i)
      PROVE  BenignRequest
  <2>1. CASE CallSpecific(i)
    BY <1>1, <2>1 DEF CallSpecific
  <2>2. CASE MarkServed(i)
    BY <1>0, <2>2, TransitionBenign, RowBenign DEF MarkServed, InSt
  <2>3. CASE MarkNoShow(i)
    BY <1>0, <2>3, TransitionBenign, RowBenign DEF MarkNoShow, InSt
  <2>4. CASE Recall(i)
    BY <1>0, <2>4, TransitionBenign, RowBenign DEF Recall, InSt
  <2> QED
    BY <1>4, <2>1, <2>2, <2>3, <2>4
<1>5. ASSUME NEW i \in TicketIds, NEW by \in {"staff", "customer"},
             CancelTicket(i, by)
      PROVE  BenignRequest
  BY <1>0, <1>5, TransitionBenign, RowBenign DEF CancelTicket, Active, InSt
<1>6. ASSUME NEW i \in TicketIds, CheckIn(i)
      PROVE  BenignRequest
  BY <1>0, <1>6, TransitionBenign, RowBenign DEF CheckIn, InSt
<1>7. ASSUME NEW i \in TicketIds, NEW at \in RescheduleTargets,
             RescheduleTicket(i, at)
      PROVE  BenignRequest
  <2>1. at \in Instant /\ tickets[i] # None
        /\ tickets[i].state \in {"Waiting", "Called", "Overdue"}
    BY <1>7, QueueShopAssumption DEF RescheduleTicket, Active, InSt
  <2>2. /\ Sound(applyReschedule(tickets[i], at, now).ticket)
        /\ Benign(tickets[i], applyReschedule(tickets[i], at, now).ticket)
    BY <2>1, TransitionBenign
  <2> QED
    BY <1>7, <2>2, RowBenign, NoRowBenign DEF RescheduleTicket
<1>8. ASSUME NEW h \in Handles, MergeIssue(h)
      PROVE  BenignRequest
  BY <1>8, NoRowBenign DEF MergeIssue
<1>9. ASSUME NEW h \in Handles, NEW i \in TicketIds, NEW form \in IssueForms,
             IssueTicket(i, h, form)
      PROVE  BenignRequest
  <2> DEFINE row == applyIssue(form[1], h, nextDisplaySeq(tickets), form[2], now).ticket
  <2>1. form[1] \in Lane /\ form[2] \in Instant \cup {None}
    BY QueueShopAssumption
  <2>2. row \in Ticket /\ row.state = "Waiting"
    BY <1>0, <2>1, NextNumberType, IssueType
  <2>3. VariantShape(row) /\ row.closedBy = None
    BY DEF applyIssue, ApplyResult, VariantShape
  <2>4. Sound(row) /\ Benign(tickets[i], row)
    BY <1>9, <2>2, <2>3, NoneAssumption DEF IssueTicket, Sound, Benign, Actor
  <2> QED
    BY <1>9, <2>4, RowBenign DEF IssueTicket
<1>10. ASSUME NEW i \in TicketIds, NEW e \in Endpoints,
              registerPushSubscription(i, e) \/ unregisterPushSubscription(i, e)
       PROVE  SubscriptionChange
  BY <1>10 DEF registerPushSubscription, unregisterPushSubscription,
               SubscriptionChange, TypeOK, Active, Terminal, InSt, TERMINAL_TICKET_STATES
<1> QED
  BY <1>2, <1>3, <1>4, <1>5, <1>6, <1>7, <1>8, <1>9, <1>10 DEF StaffAction, CustomerAction

-----------------------------------------------------------------------------
(* The rows part of the invariant, one row at a time.                      *)

\* The least time n nudges take after the promotion.
NudgesTake(n) == (n - 1) * (NudgeInterval + 1)

\* What TypeOK, RowTimes and NudgeSchedule say of the row of an issued ticket.
RowFine(t, at) ==
  /\ Sound(t)
  /\ t.state \in {"Called", "Overdue"} => t.calledAt # None /\ t.calledAt <= at
  /\ t.state = "Overdue" =>
       /\ t.overdueAt # None /\ t.overdueAt <= at
       /\ t.nudgeCount = 0 <=> t.lastNudgedAt = None
       /\ t.nudgeCount > 0 => t.lastNudgedAt <= at
       /\ t.nudgeCount <= MaxNudges
       /\ t.overdueAt > t.calledAt + OverdueAfterCalled
       /\ t.nudgeCount > 0 => t.lastNudgedAt >= t.overdueAt + NudgesTake(t.nudgeCount)

RowsFine ==
  /\ tickets \in Rows
  /\ \A i \in TicketIds : tickets[i] # None => RowFine(tickets[i], now)

\* Everything TypeOK says besides the rows.
RestTyped ==
  /\ now \in Instant
  /\ subs \in [TicketIds -> SUBSET Endpoints]
  /\ alarmAt \in Instant \cup {None}
  /\ sweepAt \in Instant \cup {None}
  /\ toNudge \in SUBSET Candidate
  /\ fan \in FanOut \cup {None}

\* The invariant, split into rows and the rest.
LEMMA Split ==
  IInv <=> /\ RowsFine /\ RestTyped
           /\ SweepLocals /\ SelectionFresh /\ TerminalHoldsNoSubscription
<1>1. TypeOK <=> /\ tickets \in Rows /\ RestTyped
                 /\ \A i \in TicketIds : tickets[i] # None => VariantShape(tickets[i])
  BY DEF TypeOK, Rows, RestTyped
<1>2. ASSUME tickets \in Rows
      PROVE  (\A i \in TicketIds : tickets[i] # None => RowFine(tickets[i], now))
             <=> /\ \A i \in TicketIds : tickets[i] # None => VariantShape(tickets[i])
                 /\ RowTimes /\ NudgeSchedule
  <2> DEFINE Part(i) == /\ tickets[i] # None => VariantShape(tickets[i])
                        /\ InSt(i, {"Called", "Overdue"}) =>
                             tickets[i].calledAt # None /\ tickets[i].calledAt <= now
                        /\ InSt(i, {"Overdue"}) =>
                             /\ tickets[i].overdueAt # None /\ tickets[i].overdueAt <= now
                             /\ tickets[i].nudgeCount = 0 <=> tickets[i].lastNudgedAt = None
                             /\ tickets[i].nudgeCount > 0 => tickets[i].lastNudgedAt <= now
                             /\ tickets[i].nudgeCount <= MaxNudges
                             /\ tickets[i].overdueAt > tickets[i].calledAt + OverdueAfterCalled
                             /\ tickets[i].nudgeCount > 0 => tickets[i].lastNudgedAt
                                  >= tickets[i].overdueAt + NudgesTake(tickets[i].nudgeCount)
  <2>1. (\A i \in TicketIds : Part(i))
        <=> /\ \A i \in TicketIds : tickets[i] # None => VariantShape(tickets[i])
            /\ RowTimes /\ NudgeSchedule
    BY DEF RowTimes, NudgeSchedule, NudgesTake
  <2>2. ASSUME NEW i \in TicketIds
        PROVE  Part(i) <=> (tickets[i] # None => RowFine(tickets[i], now))
    <3>1. tickets[i] = None \/ tickets[i] \in Ticket
      BY <1>2 DEF Rows
    <3> QED
      BY <3>1 DEF RowFine, Sound, InSt
  <2> QED
    BY <2>1, <2>2
<1> QED
  BY <1>1, <1>2 DEF IInv, RowsFine

\* The same of the next state.
LEMMA SplitNext ==
  /\ RowsFine' /\ RestTyped'
  /\ SweepLocals' /\ SelectionFresh' /\ TerminalHoldsNoSubscription'
  => IInv'
BY Split, PTL

\* The initial states satisfy the invariant.
LEMMA InitInvariant ==
  ASSUME Init
  PROVE  IInv
BY QueueShopAssumption
   DEF Init, IInv, TypeOK, RowTimes, NudgeSchedule, SweepLocals, SelectionFresh,
       TerminalHoldsNoSubscription, Terminal, InSt, Instant

\* A dispatch releases the subscriptions of the tickets it closes and of no
\* other.
LEMMA ReapKeeps ==
  ASSUME IInv, NEW new \in Rows, tickets' = new,
         subs' = reapTerminalSubscriptions(new)
  PROVE  /\ subs' \in [TicketIds -> SUBSET Endpoints]
         /\ TerminalHoldsNoSubscription'
BY DEF IInv, TypeOK, Rows, reapTerminalSubscriptions, TerminalHoldsNoSubscription,
       Terminal, InSt, Ticket

\* The alarm a dispatch leaves armed is an instant.
LEMMA ArmedType ==
  ASSUME IInv
  PROVE  ensureAlarmArmed \in Instant
BY QueueShopAssumption DEF IInv, TypeOK, Instant, ensureAlarmArmed

-----------------------------------------------------------------------------
(* Requests keep the invariant, a suspended sweep notwithstanding.         *)

\* A benign change of a row leaves it fine, and overdue only as it was.
LEMMA BenignRow ==
  ASSUME IInv, NEW i \in TicketIds, NEW new \in Ticket \cup {None},
         Benign(tickets[i], new)
  PROVE  /\ new # None => RowFine(new, now)
         /\ new # None /\ new.state = "Overdue" =>
              /\ InSt(i, {"Overdue"})
              /\ new.nudgeCount = tickets[i].nudgeCount
              /\ new.lastNudgedAt = tickets[i].lastNudgedAt
<1>1. tickets[i] # None => RowFine(tickets[i], now) /\ tickets[i] \in Ticket
  BY Split DEF RowsFine, RowFine, Sound
<1>2. now \in Instant /\ now # None
  BY NoneAssumption DEF IInv, TypeOK, Instant
<1>3. CASE new = tickets[i]
  BY <1>1, <1>3 DEF InSt
<1>4. CASE new # tickets[i]
  <2>1. Sound(new)
    BY <1>4 DEF Benign
  <2>2. CASE new.state = "Waiting" \/ new.state \in TERMINAL_TICKET_STATES
    BY <2>1, <2>2 DEF RowFine, TERMINAL_TICKET_STATES
  <2>3. CASE new.state = "Called" /\ new.calledAt = now
    BY <1>2, <2>1, <2>3 DEF RowFine, Instant
  <2>4. CASE tickets[i] # None /\ new = [tickets[i] EXCEPT !.appointmentAt = new.appointmentAt]
    <3>1. /\ new.state = tickets[i].state
          /\ new.calledAt = tickets[i].calledAt
          /\ new.overdueAt = tickets[i].overdueAt
          /\ new.lastNudgedAt = tickets[i].lastNudgedAt
          /\ new.nudgeCount = tickets[i].nudgeCount
      BY <1>1, <2>4 DEF Ticket
    <3> QED
      BY <1>1, <2>1, <2>4, <3>1 DEF RowFine, InSt
  <2> QED
    BY <1>4, <2>2, <2>3, <2>4 DEF Benign
<1> QED
  BY <1>3, <1>4

\* A benign request keeps the invariant.
LEMMA BenignKeeps ==
  ASSUME IInv, BenignRequest
  PROVE  IInv'
<1>1. PICK new \in Rows : /\ tickets' = new
                          /\ subs' = reapTerminalSubscriptions(new)
                          /\ alarmAt' = ensureAlarmArmed \/ alarmAt' = alarmAt
                          /\ UNCHANGED << now, sweepVars >>
                          /\ \A i \in TicketIds : Benign(tickets[i], new[i])
  BY DEF BenignRequest
<1>2. tickets' = new /\ now' = now
  BY <1>1
<1>3. \A i \in TicketIds :
        /\ new[i] # None => RowFine(new[i], now)
        /\ new[i] # None /\ new[i].state = "Overdue" =>
             /\ InSt(i, {"Overdue"})
             /\ new[i].nudgeCount = tickets[i].nudgeCount
             /\ new[i].lastNudgedAt = tickets[i].lastNudgedAt
  BY <1>1, BenignRow DEF Rows
<1>4. RowsFine'
  BY <1>2, <1>3 DEF RowsFine
<1>5. subs' \in [TicketIds -> SUBSET Endpoints] /\ TerminalHoldsNoSubscription'
  BY <1>1, <1>2, ReapKeeps
<1>6. RestTyped'
  BY <1>1, <1>5, ArmedType, Split DEF RestTyped, sweepVars
<1>7. SweepLocals'
  BY <1>1, <1>2 DEF IInv, SweepLocals, sweepVars
<1>8. SelectionFresh'
  <2>1. \A i \in TicketIds, n \in Int : StillDue(i, n) => StillDue(i, n)'
    BY <1>1, <1>2, <1>3 DEF StillDue, InSt, sweepVars
  <2>2. \A c \in toNudge : c.id \in TicketIds /\ c.prior \in Int
    BY DEF IInv, TypeOK, Candidate
  <2>3. fan # None => fan.id \in TicketIds /\ fan.next - 1 \in Int
    BY DEF IInv, TypeOK, FanOut
  <2> QED
    BY <1>1, <2>1, <2>2, <2>3 DEF IInv, SelectionFresh, sweepVars
<1> QED
  BY <1>4, <1>5, <1>6, <1>7, <1>8, SplitNext

\* So does a change of the subscriptions, since it hands none to a closed
\* ticket.
LEMMA SubscriptionKeeps ==
  ASSUME IInv, SubscriptionChange
  PROVE  IInv'
<1>1. RowsFine' /\ RestTyped' /\ SweepLocals' /\ SelectionFresh'
  BY Split DEF SubscriptionChange, RowsFine, RestTyped, SweepLocals, SelectionFresh,
               StillDue, InSt, sweepVars
<1>2. TerminalHoldsNoSubscription'
  <2>1. \A i \in TicketIds : Terminal(i)' => Terminal(i)
    BY DEF SubscriptionChange, Terminal, InSt
  <2> QED
    BY <2>1 DEF SubscriptionChange, TerminalHoldsNoSubscription, IInv
<1> QED
  BY <1>1, <1>2, SplitNext

-----------------------------------------------------------------------------
(* The steps of the sweep.                                                 *)

\* The fields a promotion and a nudge set.
LEMMA MovedParts ==
  ASSUME NEW t \in Ticket, NEW at \in Instant
  PROVE  LET row == applyMoveToOverdue(t, at).ticket
         IN  /\ row.state = "Overdue" /\ row.calledAt = t.calledAt /\ row.overdueAt = at
             /\ row.nudgeCount = 0 /\ row.lastNudgedAt = None
BY DEF applyMoveToOverdue, ApplyResult, common, Ticket

LEMMA NudgedParts ==
  ASSUME NEW t \in Ticket, NEW at \in Instant
  PROVE  LET row == applyNudge(t, at).ticket
         IN  /\ row.state = "Overdue" /\ row.calledAt = t.calledAt
             /\ row.overdueAt = t.overdueAt
             /\ row.lastNudgedAt = at /\ row.nudgeCount = t.nudgeCount + 1
<1> DEFINE u == [common(t) EXCEPT !.state = "Overdue", !.calledAt = t.calledAt,
                                  !.overdueAt = t.overdueAt]
           m == t.nudgeCount + 1
           row == applyNudge(t, at).ticket
<1>1. /\ u \in Ticket /\ u.state = "Overdue" /\ u.calledAt = t.calledAt
      /\ u.overdueAt = t.overdueAt
  BY DEF common, Ticket, TicketState
<1>2. row = [u EXCEPT !.lastNudgedAt = at, !.nudgeCount = m]
  BY DEF applyNudge, ApplyResult
<1> HIDE DEF u, m
<1>3. /\ row.state = "Overdue" /\ row.calledAt = t.calledAt
      /\ row.overdueAt = t.overdueAt
      /\ row.lastNudgedAt = at /\ row.nudgeCount = m
  BY <1>1, <1>2 DEF Ticket
<1> QED
  BY <1>3 DEF m

\* A ticket promoted after its delay is a fine row with no nudge yet.
LEMMA PromotedFine ==
  ASSUME IInv, NEW i \in OverdueDue(now)
  PROVE  LET row == applyMoveToOverdue(tickets[i], now).ticket
         IN  /\ row \in Ticket /\ RowFine(row, now)
             /\ row.state = "Overdue" /\ row.nudgeCount = 0
<1> DEFINE t == tickets[i]
           row == applyMoveToOverdue(t, now).ticket
<1>1. /\ i \in TicketIds /\ t # None /\ t.state = "Called"
      /\ t.calledAt + OverdueAfterCalled < now
  BY DEF OverdueDue, InState, Held, IInv, TypeOK
<1>2. t \in Ticket /\ RowFine(t, now)
  BY <1>1, Split DEF RowsFine, RowFine, Sound
<1>3. now \in Instant /\ "system" \in Actor
  BY DEF IInv, TypeOK, Actor
<1>4. row \in Ticket /\ VariantShape(row)
  BY <1>2, <1>3, TransitionType, TransitionShape DEF RowFine, Sound
<1>5. /\ row.state = "Overdue" /\ row.calledAt = t.calledAt /\ row.overdueAt = now
      /\ row.nudgeCount = 0 /\ row.lastNudgedAt = None
  BY <1>2, <1>3, MovedParts
<1>6. t.calledAt \in Nat /\ t.calledAt <= now
  BY <1>1, <1>2 DEF RowFine, Ticket, Instant
<1> QED
  BY <1>1, <1>3, <1>4, <1>5, <1>6, NoneAssumption, QueueShopAssumption
     DEF RowFine, Sound, Instant

\* The start of a sweep keeps the invariant: what Tick 2 selects is due.
LEMMA AlarmBeginKeeps ==
  ASSUME IInv, AlarmBegin
  PROVE  IInv'
<1> DEFINE due == OverdueDue(now)
           new == [i \in TicketIds |-> IF i \in due
                     THEN applyMoveToOverdue(tickets[i], now).ticket
                     ELSE tickets[i]]
<1>1. /\ tickets' = new /\ now' = now /\ subs' = subs /\ fan' = fan
      /\ sweepAt = None /\ sweepAt' = now
      /\ alarmAt' = IF due = {} THEN None ELSE now + FallbackReArm
      /\ toNudge' = {[id |-> i, prior |-> new[i].nudgeCount] : i \in NudgeDue(new, now)}
  BY DEF AlarmBegin
<1>2. now \in Instant /\ now # None /\ fan = None
  BY <1>1, NoneAssumption DEF IInv, TypeOK, Instant, SweepLocals
<1>3. ASSUME NEW i \in TicketIds
      PROVE  /\ new[i] \in Ticket \cup {None}
             /\ new[i] # None => RowFine(new[i], now)
             /\ new[i] # tickets[i] => new[i].state = "Overdue"
  <2>1. CASE i \in due
    BY <2>1, PromotedFine
  <2>2. CASE i \notin due
    BY <2>2, Split DEF RowsFine, Rows
  <2> QED
    BY <2>1, <2>2
<1>4. RowsFine'
  BY <1>1, <1>3 DEF RowsFine, Rows
<1>5. \A i \in NudgeDue(new, now) :
        /\ i \in TicketIds /\ new[i] # None /\ new[i].state = "Overdue"
        /\ new[i].nudgeCount < MaxNudges
        /\ new[i].lastNudgedAt = None \/ new[i].lastNudgedAt + NudgeInterval < now
  BY DEF NudgeDue, InState, Held
<1>6. \A i \in NudgeDue(new, now) : new[i].nudgeCount \in Nat
  BY <1>3, <1>5 DEF Ticket
<1>7. RestTyped'
  <2>1. alarmAt' \in Instant \cup {None}
    BY <1>1, <1>2, QueueShopAssumption DEF Instant
  <2>2. toNudge' \in SUBSET Candidate
    BY <1>1, <1>5, <1>6 DEF Candidate
  <2> QED
    BY <1>1, <1>2, <2>1, <2>2 DEF IInv, TypeOK, RestTyped
<1>8. SweepLocals'
  <2>1. \A c \in toNudge' : c = [id |-> c.id, prior |-> new[c.id].nudgeCount]
    BY <1>1
  <2> HIDE DEF new
  <2>2. \A c, d \in toNudge' : c.id = d.id => c = d
    BY <2>1
  <2> QED
    BY <1>1, <1>2, <2>2 DEF SweepLocals, Instant
<1>9. SelectionFresh'
  <2>1. ASSUME NEW c \in toNudge'
        PROVE  StillDue(c.id, c.prior)'
    <3>1. PICK i \in NudgeDue(new, now) : c = [id |-> i, prior |-> new[i].nudgeCount]
      BY <1>1
    <3>2. new[i] \in Ticket /\ RowFine(new[i], now)
      BY <1>3, <1>5
    <3>3. new[i].nudgeCount > 0 => new[i].lastNudgedAt + NudgeInterval < now
      BY <1>5, <3>2 DEF RowFine, Ticket
    <3> QED
      BY <1>1, <1>5, <3>1, <3>3 DEF StillDue, InSt
  <2> QED
    BY <1>1, <1>2, <2>1 DEF SelectionFresh
<1>10. TerminalHoldsNoSubscription'
  <2>1. ASSUME NEW i \in TicketIds, Terminal(i)'
        PROVE  Terminal(i)
    BY <1>1, <1>3, <2>1 DEF Terminal, InSt, TERMINAL_TICKET_STATES
  <2> QED
    BY <1>1, <2>1 DEF IInv, TerminalHoldsNoSubscription
<1> QED
  BY <1>4, <1>7, <1>8, <1>9, <1>10, SplitNext

\* One more nudge takes one more interval.
LEMMA NudgesTakeStep ==
  ASSUME NEW n \in Nat
  PROVE  /\ NudgesTake(n) \in Int
         /\ NudgesTake(1) = 0
         /\ NudgesTake(n + 1) = NudgesTake(n) + NudgeInterval + 1
<1>1. NudgeInterval \in Nat
  BY QueueShopAssumption
<1> QED
  BY <1>1 DEF NudgesTake

\* A nudge of a candidate that is still due leaves a fine row.
LEMMA NudgedFine ==
  ASSUME IInv, NEW i \in TicketIds, InSt(i, {"Overdue"}),
         NEW n \in Int, StillDue(i, n), sweepAt # None
  PROVE  LET row == applyNudge(tickets[i], now).ticket
         IN  row \in Ticket /\ RowFine(row, now) /\ row.state = "Overdue"
<1> DEFINE t == tickets[i]
           row == applyNudge(t, now).ticket
           k == t.nudgeCount
<1>1. t \in Ticket /\ RowFine(t, now) /\ t.state = "Overdue"
  BY Split DEF RowsFine, RowFine, Sound, InSt
<1>2. now \in Instant /\ "system" \in Actor /\ sweepAt \in Instant /\ sweepAt <= now
  BY DEF IInv, TypeOK, SweepLocals, Actor
<1>3. row \in Ticket /\ VariantShape(row)
  BY <1>1, <1>2, TransitionType, TransitionShape DEF RowFine, Sound
<1>4. k \in Nat
  BY <1>1 DEF Ticket
<1>5. /\ row.state = "Overdue" /\ row.calledAt = t.calledAt /\ row.overdueAt = t.overdueAt
      /\ row.lastNudgedAt = now /\ row.nudgeCount = k + 1
  BY <1>1, <1>2, NudgedParts
<1>6. /\ k < MaxNudges
      /\ k > 0 => t.lastNudgedAt + NudgeInterval < sweepAt
  BY DEF StillDue
<1>7. /\ t.calledAt # None /\ t.calledAt <= now
      /\ t.overdueAt # None /\ t.overdueAt <= now
      /\ t.overdueAt > t.calledAt + OverdueAfterCalled
      /\ k = 0 <=> t.lastNudgedAt = None
      /\ k > 0 => t.lastNudgedAt >= t.overdueAt + NudgesTake(k)
  BY <1>1 DEF RowFine
<1>8. now >= t.overdueAt + NudgesTake(k + 1)
  <2>1. t.overdueAt \in Nat /\ (k > 0 => t.lastNudgedAt \in Nat)
    BY <1>1, <1>7 DEF Ticket, Instant
  <2>2. CASE k = 0
    BY <1>2, <1>7, <2>1, <2>2, NudgesTakeStep DEF Instant
  <2>3. CASE k > 0
    <3>1. NudgesTake(k + 1) = NudgesTake(k) + NudgeInterval + 1 /\ NudgesTake(k) \in Int
      BY <1>4, NudgesTakeStep
    <3>2. NudgeInterval \in Nat
      BY QueueShopAssumption
    <3> QED
      BY <1>2, <1>6, <1>7, <2>1, <2>3, <3>1, <3>2 DEF Instant
  <2> QED
    BY <1>4, <2>2, <2>3
<1>9. k + 1 <= MaxNudges /\ now # None /\ k + 1 > 0
  BY <1>2, <1>4, <1>6, NoneAssumption, QueueShopAssumption DEF Instant
<1>10. (k + 1 = 0 <=> now = None) /\ now <= now
  BY <1>2, <1>4, <1>9 DEF Instant
<1> HIDE DEF k
<1> QED
  BY <1>3, <1>5, <1>7, <1>8, <1>9, <1>10 DEF RowFine, Sound

\* A nudge, dispatched or refused, keeps the rows, the subscriptions and the
\* rest well-formed, and leaves every other row alone.
LEMMA NudgeRows ==
  ASSUME IInv, NEW i \in TicketIds, NEW n \in Int, StillDue(i, n),
         sweepAt # None, Nudge(i)
  PROVE  /\ RowsFine' /\ TerminalHoldsNoSubscription'
         /\ now' = now
         /\ subs' \in [TicketIds -> SUBSET Endpoints]
         /\ alarmAt' \in Instant \cup {None}
         /\ \A j \in TicketIds \ {i} : tickets'[j] = tickets[j]
<1>1. CASE InSt(i, {"Overdue"})
  <2> DEFINE row == applyNudge(tickets[i], now).ticket
             new == [tickets EXCEPT ![i] = row]
  <2>1. dispatch(new)
    BY <1>1 DEF Nudge
  <2>2. row \in Ticket /\ RowFine(row, now)
    BY <1>1, NudgedFine
  <2> HIDE DEF row
  <2>3. new \in Rows /\ \A j \in TicketIds \ {i} : new[j] = tickets[j]
    BY <2>2 DEF IInv, TypeOK, Rows
  <2>4. \A j \in TicketIds : new[j] # None => RowFine(new[j], now)
    BY <2>2, Split DEF RowsFine, Rows
  <2>5. tickets' = new /\ subs' = reapTerminalSubscriptions(new)
        /\ alarmAt' = ensureAlarmArmed /\ now' = now
    BY <2>1 DEF dispatch
  <2> HIDE DEF new
  <2>6. RowsFine'
    BY <2>3, <2>4, <2>5 DEF RowsFine
  <2>7. subs' \in [TicketIds -> SUBSET Endpoints] /\ TerminalHoldsNoSubscription'
    BY <2>3, <2>5, ReapKeeps
  <2> QED
    BY <2>3, <2>5, <2>6, <2>7, ArmedType
<1>2. CASE ~InSt(i, {"Overdue"})
  <2>1. UNCHANGED << now, tickets, subs, alarmAt >>
    BY <1>2 DEF Nudge
  <2>2. RowsFine' /\ TerminalHoldsNoSubscription'
    BY <2>1, Split DEF RowsFine, TerminalHoldsNoSubscription, Terminal, InSt
  <2> QED
    BY <2>1, <2>2 DEF IInv, TypeOK
<1> QED
  BY <1>1, <1>2

\* A WebSocket nudge keeps the invariant.
LEMMA NudgeByWebSocketKeeps ==
  ASSUME IInv, NEW c \in toNudge, NudgeByWebSocket(c)
  PROVE  IInv'
<1>1. /\ c.id \in TicketIds /\ c.prior \in Int /\ StillDue(c.id, c.prior)
      /\ sweepAt # None /\ fan = None
  BY DEF IInv, TypeOK, Candidate, SweepLocals, SelectionFresh, NudgeByWebSocket
<1>2. /\ toNudge' = toNudge \ {c} /\ sweepAt' = sweepAt /\ fan' = fan
  BY DEF NudgeByWebSocket
<1>3. /\ RowsFine' /\ TerminalHoldsNoSubscription' /\ now' = now
      /\ subs' \in [TicketIds -> SUBSET Endpoints]
      /\ alarmAt' \in Instant \cup {None}
      /\ \A j \in TicketIds \ {c.id} : tickets'[j] = tickets[j]
  BY <1>1, NudgeRows DEF NudgeByWebSocket
<1>4. RestTyped' /\ SweepLocals'
  BY <1>1, <1>2, <1>3 DEF IInv, TypeOK, RestTyped, SweepLocals
<1>5. SelectionFresh'
  <2>1. \A d \in toNudge' : d \in toNudge /\ d.id \in TicketIds \ {c.id}
    BY <1>2 DEF IInv, TypeOK, SweepLocals, Candidate
  <2> QED
    BY <1>1, <1>2, <1>3, <2>1 DEF IInv, SelectionFresh, StillDue, InSt
<1> QED
  BY <1>3, <1>4, <1>5, SplitNext

\* The nudge recorded after a fan-out keeps the invariant.
LEMMA NudgeAfterFanOutKeeps ==
  ASSUME IInv, NudgeAfterFanOut
  PROVE  IInv'
<1>1. /\ fan # None /\ fan.id \in TicketIds /\ fan.next - 1 \in Int
      /\ StillDue(fan.id, fan.next - 1) /\ sweepAt # None
  BY DEF IInv, TypeOK, FanOut, SweepLocals, SelectionFresh, NudgeAfterFanOut
<1>2. toNudge' = toNudge /\ sweepAt' = sweepAt /\ fan' = None
  BY DEF NudgeAfterFanOut
<1>3. /\ RowsFine' /\ TerminalHoldsNoSubscription' /\ now' = now
      /\ subs' \in [TicketIds -> SUBSET Endpoints]
      /\ alarmAt' \in Instant \cup {None}
      /\ \A j \in TicketIds \ {fan.id} : tickets'[j] = tickets[j]
  BY <1>1, NudgeRows DEF NudgeAfterFanOut
<1>4. RestTyped' /\ SweepLocals'
  BY <1>1, <1>2, <1>3 DEF IInv, TypeOK, RestTyped, SweepLocals
<1>5. SelectionFresh'
  <2>1. \A d \in toNudge : d.id \in TicketIds \ {fan.id}
    BY <1>1 DEF IInv, TypeOK, SweepLocals, Candidate
  <2> QED
    BY <1>2, <1>3, <2>1 DEF IInv, SelectionFresh, StillDue, InSt
<1> QED
  BY <1>3, <1>4, <1>5, SplitNext

\* Handing a candidate over to the push service keeps the invariant.
LEMMA FanOutKeeps ==
  ASSUME IInv, NEW c \in toNudge, fanOutPush(c)
  PROVE  IInv'
<1>1. /\ c.id \in TicketIds /\ c.prior \in Nat /\ StillDue(c.id, c.prior)
      /\ sweepAt # None
  BY DEF IInv, TypeOK, Candidate, SweepLocals, SelectionFresh
<1>2. /\ UNCHANGED << now, tickets, subs, alarmAt, sweepAt >>
      /\ toNudge' = toNudge \ {c}
      /\ fan' = [id |-> c.id, next |-> c.prior + 1,
                 pending |-> subs[c.id], delivered |-> FALSE]
  BY DEF fanOutPush
<1>3. fan' \in FanOut /\ fan'.id = c.id /\ fan'.next - 1 = c.prior
  BY <1>1, <1>2 DEF FanOut, IInv, TypeOK
<1>4. RowsFine' /\ TerminalHoldsNoSubscription'
  BY <1>2, Split DEF RowsFine, TerminalHoldsNoSubscription, Terminal, InSt
<1>5. RestTyped' /\ SweepLocals'
  BY <1>1, <1>2, <1>3 DEF IInv, TypeOK, RestTyped, SweepLocals
<1>6. SelectionFresh'
  BY <1>1, <1>2, <1>3 DEF IInv, SelectionFresh, StillDue, InSt
<1> QED
  BY <1>4, <1>5, <1>6, SplitNext

\* An answer of the push service keeps the invariant.
LEMMA PushAnswerKeeps ==
  ASSUME IInv, NEW e \in Endpoints, NEW outcome, PushAnswer(e, outcome)
  PROVE  IInv'
<1>1. /\ fan # None /\ fan \in FanOut /\ sweepAt # None
  BY DEF PushAnswer, IInv, TypeOK, SweepLocals
<1>2. /\ UNCHANGED << now, tickets, alarmAt, sweepAt, toNudge >>
      /\ fan' = [fan EXCEPT !.pending = @ \ {e},
                            !.delivered = @ \/ outcome = "delivered"]
  BY DEF PushAnswer
<1>3. fan' \in FanOut /\ fan'.id = fan.id /\ fan'.next = fan.next
  <2> DEFINE d == fan.delivered \/ outcome = "delivered"
             rest == fan.pending \ {e}
  <2>1. d \in BOOLEAN /\ rest \in SUBSET Endpoints
    BY <1>1 DEF FanOut
  <2>2. fan' = [fan EXCEPT !.pending = rest, !.delivered = d]
    BY <1>2
  <2> HIDE DEF d, rest
  <2> QED
    BY <1>1, <2>1, <2>2 DEF FanOut
<1>4. /\ subs' \in [TicketIds -> SUBSET Endpoints]
      /\ \A i \in TicketIds : subs'[i] \subseteq subs[i]
  BY <1>1 DEF PushAnswer, IInv, TypeOK, FanOut
<1>5. RowsFine' /\ TerminalHoldsNoSubscription'
  BY <1>2, <1>4, Split DEF RowsFine, TerminalHoldsNoSubscription, Terminal, InSt
<1>6. RestTyped' /\ SweepLocals'
  BY <1>1, <1>2, <1>3, <1>4 DEF IInv, TypeOK, RestTyped, SweepLocals
<1>7. SelectionFresh'
  BY <1>1, <1>2, <1>3 DEF IInv, SelectionFresh, StillDue, InSt
<1> QED
  BY <1>5, <1>6, <1>7, SplitNext

\* The shortest of the sweep's intervals is an interval.
LEMMA ReArmType == ReArm \in Nat
<1> DEFINE S == {OverdueAfterCalled, NudgeInterval, AppointmentGrace, FallbackReArm}
<1>1. /\ OverdueAfterCalled \in Nat /\ NudgeInterval \in Nat
      /\ AppointmentGrace \in Nat /\ FallbackReArm \in Nat
  BY QueueShopAssumption
<1>2. \E s \in S : \A r \in S : s <= r
  BY <1>1
<1>3. ReArm \in S
  BY <1>2 DEF ReArm
<1> QED
  BY <1>1, <1>3

\* A row Tick 3 or Tick 4 closes is well-formed and closed.
LEMMA ClosedFine ==
  ASSUME IInv, NEW i \in TicketIds, tickets[i] # None,
         NEW row \in {applyMarkNoShow(tickets[i], now, "system").ticket,
                      applyLapseAppointment(tickets[i], now).ticket}
  PROVE  row \in Ticket /\ RowFine(row, now)
<1>1. tickets[i] \in Ticket /\ VariantShape(tickets[i]) /\ now \in Instant
  BY DEF IInv, TypeOK
<1>2. "system" \in Actor
  BY DEF Actor
<1>3. row \in Ticket /\ VariantShape(row)
  BY <1>1, <1>2, TransitionType, TransitionShape
<1>4. row.state \notin {"Called", "Overdue"}
  BY <1>1 DEF applyMarkNoShow, applyLapseAppointment, ApplyResult, common, Ticket
<1> QED
  BY <1>3, <1>4 DEF RowFine, Sound

\* The end of a sweep keeps the invariant.
LEMMA AlarmEndKeeps ==
  ASSUME IInv, AlarmEnd
  PROVE  IInv'
<1> DEFINE noShow == NoShowDue(sweepAt)
           lapsed == LapseDue(sweepAt)
           new == [i \in TicketIds |->
                     IF i \in noShow
                     THEN applyMarkNoShow(tickets[i], now, "system").ticket
                     ELSE IF i \in lapsed
                     THEN applyLapseAppointment(tickets[i], now).ticket
                     ELSE tickets[i]]
<1>1. /\ toNudge' = {} /\ fan' = None /\ sweepAt' = None /\ now' = now
      /\ tickets' = new /\ subs' = reapTerminalSubscriptions(new)
      /\ alarmAt' = now + ReArm
  BY DEF AlarmEnd
<1>2. \A i \in TicketIds : i \in noShow \/ i \in lapsed => tickets[i] # None
  BY DEF NoShowDue, LapseDue, InState, Held
<1>3. ASSUME NEW i \in TicketIds
      PROVE  new[i] \in Ticket \cup {None} /\ (new[i] # None => RowFine(new[i], now))
  <2>1. CASE i \in noShow \/ i \in lapsed
    BY <1>2, <2>1, ClosedFine
  <2>2. CASE i \notin noShow /\ i \notin lapsed
    BY <2>2, Split DEF RowsFine, Rows
  <2> QED
    BY <2>1, <2>2
<1> HIDE DEF new
<1>4. new \in Rows
  BY <1>3 DEF Rows, new
<1>5. RowsFine'
  BY <1>1, <1>3, <1>4 DEF RowsFine
<1>6. subs' \in [TicketIds -> SUBSET Endpoints] /\ TerminalHoldsNoSubscription'
  BY <1>1, <1>4, ReapKeeps
<1>7. RestTyped' /\ SweepLocals' /\ SelectionFresh'
  BY <1>1, <1>6, ReArmType DEF IInv, TypeOK, RestTyped, SweepLocals, SelectionFresh, Instant
<1> QED
  BY <1>5, <1>6, <1>7, SplitNext

\* So do an eviction and the passing of time.
LEMMA EvictTickKeeps ==
  ASSUME IInv, Evict \/ Tick
  PROVE  IInv'
<1>0. now \in Instant
  BY DEF IInv, TypeOK
<1>1. CASE Evict
  <2>1. RowsFine' /\ TerminalHoldsNoSubscription'
    BY <1>1, Split DEF Evict, RowsFine, TerminalHoldsNoSubscription, Terminal, InSt
  <2>2. RestTyped' /\ SweepLocals' /\ SelectionFresh'
    BY <1>0, <1>1 DEF Evict, IInv, TypeOK, RestTyped, SweepLocals, SelectionFresh
  <2> QED
    BY <2>1, <2>2, SplitNext
<1>2. CASE Tick
  <2>1. now' = now + 1 /\ UNCHANGED << tickets, subs, alarmAt, sweepAt, toNudge, fan >>
    BY <1>2 DEF Tick, sweepVars
  <2>2. ASSUME NEW t, RowFine(t, now)
        PROVE  RowFine(t, now + 1)
    BY <1>0, <2>2 DEF RowFine, Sound, Ticket, Instant
  <2>3. RowsFine' /\ TerminalHoldsNoSubscription'
    BY <2>1, <2>2, Split DEF RowsFine, TerminalHoldsNoSubscription, Terminal, InSt
  <2>4. RestTyped' /\ SweepLocals' /\ SelectionFresh'
    BY <1>0, <2>1 DEF IInv, TypeOK, RestTyped, SweepLocals, SelectionFresh,
                      StillDue, InSt, Instant
  <2> QED
    BY <2>3, <2>4, SplitNext
<1> QED
  BY <1>1, <1>2

-----------------------------------------------------------------------------
(* The theorems.                                                           *)

\* Every step keeps the invariant.
LEMMA NextKeeps ==
  ASSUME IInv, [Next]_vars
  PROVE  IInv'
<1>1. CASE StaffAction \/ CustomerAction
  BY <1>1, RequestBenign, BenignKeeps, SubscriptionKeeps DEF IInv
<1>2. CASE SweepAction
  BY <1>2, AlarmBeginKeeps, NudgeByWebSocketKeeps, FanOutKeeps, PushAnswerKeeps,
     NudgeAfterFanOutKeeps, AlarmEndKeeps DEF SweepAction
<1>3. CASE Evict \/ Tick
  BY <1>3, EvictTickKeeps
<1>4. CASE UNCHANGED vars
  BY <1>4 DEF vars, sweepVars, IInv, TypeOK, RowTimes, NudgeSchedule, SweepLocals,
              SelectionFresh, StillDue, TerminalHoldsNoSubscription, Terminal, InSt
<1> QED
  BY <1>1, <1>2, <1>3, <1>4 DEF Next

\* The inductive invariant holds throughout: whatever requests land while a
\* sweep waits for the push service, what its SELECT found is still due or
\* the ticket left Overdue.
THEOREM Invariant == Spec => []IInv
<1>1. Init => IInv
  BY InitInvariant
<1>2. IInv /\ [Next]_vars => IInv'
  BY NextKeeps
<1> QED
  BY <1>1, <1>2, PTL DEF Spec

\* Every variable keeps its type and every row the shape of its variant.
THEOREM TypeCorrect == Spec => []TypeOK
<1>1. IInv => TypeOK
  BY DEF IInv
<1> QED
  BY <1>1, Invariant, PTL

\* No ticket is nudged past the cap or ahead of the schedule.
THEOREM NudgesOnSchedule == Spec => []NudgeSchedule
<1>1. IInv => NudgeSchedule
  BY DEF IInv
<1> QED
  BY <1>1, Invariant, PTL

\* A closed ticket holds no push subscription.
THEOREM ClosedHoldsNoSubscription == Spec => []TerminalHoldsNoSubscription
<1>1. IInv => TerminalHoldsNoSubscription
  BY DEF IInv
<1> QED
  BY <1>1, Invariant, PTL

\* A push in flight announces the count its Nudged event will record.
THEOREM PushIsAccurate == Spec => []PushAnnouncesRecordedCount
<1>1. IInv => PushAnnouncesRecordedCount
  <2>1. SUFFICES ASSUME IInv, fan # None, InSt(fan.id, {"Overdue"})
                 PROVE  fan.next = tickets[fan.id].nudgeCount + 1
    BY DEF PushAnnouncesRecordedCount
  <2>2. fan.next \in Nat /\ tickets[fan.id].nudgeCount = fan.next - 1
    BY <2>1 DEF IInv, TypeOK, FanOut, SelectionFresh, StillDue
  <2> QED
    BY <2>2
<1> QED
  BY <1>1, Invariant, PTL

\* While a ticket is active an alarm is pending or running.
THEOREM ActiveTicketKeepsAlarm == Spec => []ActiveKeepsAlarm
<1>1. Init => ActiveKeepsAlarm
  BY DEF Init, ActiveKeepsAlarm, Active, InSt
<1>2. IInv /\ ActiveKeepsAlarm /\ [Next]_vars => ActiveKeepsAlarm'
  <2> SUFFICES ASSUME IInv, ActiveKeepsAlarm, [Next]_vars
               PROVE  ActiveKeepsAlarm'
    OBVIOUS
  <2>0. now \in Nat /\ now # None /\ ensureAlarmArmed # None
    BY NoneAssumption, QueueShopAssumption
       DEF IInv, TypeOK, Instant, ensureAlarmArmed
  <2>1. CASE StaffAction \/ CustomerAction
    <3>1. CASE BenignRequest
      BY <2>0, <3>1 DEF BenignRequest, sweepVars, ActiveKeepsAlarm
    <3>2. CASE SubscriptionChange
      BY <3>2 DEF SubscriptionChange, ActiveKeepsAlarm, Active, InSt, sweepVars
    <3> QED
      BY <2>1, <3>1, <3>2, RequestBenign DEF IInv
  <2>2. CASE SweepAction
    <3>1. ASSUME AlarmBegin PROVE ActiveKeepsAlarm'
      BY <2>0, <3>1 DEF AlarmBegin, ActiveKeepsAlarm
    <3>2. ASSUME NEW c \in toNudge, NudgeByWebSocket(c) \/ fanOutPush(c)
          PROVE  ActiveKeepsAlarm'
      BY <3>2 DEF NudgeByWebSocket, fanOutPush, ActiveKeepsAlarm, IInv, SweepLocals
    <3>3. ASSUME NEW e \in Endpoints, NEW outcome, PushAnswer(e, outcome)
          PROVE  ActiveKeepsAlarm'
      BY <3>3 DEF PushAnswer, ActiveKeepsAlarm, IInv, SweepLocals
    <3>4. ASSUME NudgeAfterFanOut PROVE ActiveKeepsAlarm'
      BY <3>4 DEF NudgeAfterFanOut, ActiveKeepsAlarm, IInv, SweepLocals
    <3>5. ASSUME AlarmEnd PROVE ActiveKeepsAlarm'
      <4>1. alarmAt' \in Nat
        BY <2>0, <3>5, ReArmType DEF AlarmEnd
      <4> QED
        BY <4>1, NoneAssumption DEF ActiveKeepsAlarm
    <3> QED
      BY <2>2, <3>1, <3>2, <3>3, <3>4, <3>5 DEF SweepAction
  <2>3. CASE Evict
    BY <2>0, <2>3 DEF Evict, ActiveKeepsAlarm
  <2>4. CASE Tick
    BY <2>4 DEF Tick, ActiveKeepsAlarm, Active, InSt, sweepVars
  <2>5. CASE UNCHANGED vars
    BY <2>5 DEF vars, sweepVars, ActiveKeepsAlarm, Active, InSt
  <2> QED
    BY <2>1, <2>2, <2>3, <2>4, <2>5 DEF Next
<1> QED
  BY <1>1, <1>2, Invariant, PTL DEF Spec

\* What a step may make of a row: a benign change, a promotion or nudge, or
\* a closing by Tick 3 or Tick 4 of the running sweep; the holder stays.
LEMMA RowStep ==
  ASSUME IInv, [Next]_vars, NEW i \in TicketIds
  PROVE  \/ Benign(tickets[i], tickets'[i])
         \/ /\ InSt(i, {"Called", "Overdue"})
            /\ tickets'[i].state = "Overdue"
            /\ tickets'[i] \in Ticket /\ SameHolder(tickets[i], tickets'[i])
         \/ /\ sweepAt # None
            /\ tickets'[i] \in Ticket /\ SameHolder(tickets[i], tickets'[i])
            /\ \/ i \in NoShowDue(sweepAt) /\ tickets'[i].state = "NoShow"
               \/ i \in LapseDue(sweepAt) /\ tickets'[i].state = "Cancelled"
<1> DEFINE Goal == \/ Benign(tickets[i], tickets'[i])
                   \/ /\ InSt(i, {"Called", "Overdue"})
                      /\ tickets'[i].state = "Overdue"
                      /\ tickets'[i] \in Ticket /\ SameHolder(tickets[i], tickets'[i])
                   \/ /\ sweepAt # None
                      /\ tickets'[i] \in Ticket /\ SameHolder(tickets[i], tickets'[i])
                      /\ \/ i \in NoShowDue(sweepAt) /\ tickets'[i].state = "NoShow"
                         \/ i \in LapseDue(sweepAt) /\ tickets'[i].state = "Cancelled"
<1>0. ASSUME tickets'[i] = tickets[i] PROVE Goal
  BY <1>0 DEF Benign
<1>9. now \in Instant /\ "system" \in Actor
  BY DEF IInv, TypeOK, Actor
<1>1. CASE StaffAction \/ CustomerAction
  BY <1>0, <1>1, RequestBenign
     DEF IInv, BenignRequest, SubscriptionChange
<1>2. ASSUME NEW j \in TicketIds, Nudge(j)
      PROVE  Goal
  <2>1. CASE i = j /\ InSt(i, {"Overdue"})
    <3>1. tickets'[i] = applyNudge(tickets[i], now).ticket
      BY <1>2, <2>1 DEF Nudge, dispatch, IInv, TypeOK
    <3>2. tickets[i] \in Ticket
      BY <2>1 DEF IInv, TypeOK, InSt
    <3>3. applyNudge(tickets[i], now).ticket.state = "Overdue"
      BY <3>2 DEF applyNudge, ApplyResult, common, Ticket
    <3>4. /\ applyNudge(tickets[i], now).ticket \in Ticket
          /\ SameHolder(tickets[i], applyNudge(tickets[i], now).ticket)
      BY <1>9, <3>2, TransitionType
    <3> QED
      BY <2>1, <3>1, <3>3, <3>4 DEF InSt
  <2>2. CASE ~(i = j /\ InSt(i, {"Overdue"}))
    <3>1. tickets'[i] = tickets[i]
      BY <1>2, <2>2 DEF Nudge, dispatch, IInv, TypeOK
    <3> QED
      BY <1>0, <3>1
  <2> QED
    BY <2>1, <2>2
<1>3. CASE AlarmBegin
  <2>1. CASE i \in OverdueDue(now)
    <3>1. tickets'[i].state = "Overdue"
          /\ tickets'[i] = applyMoveToOverdue(tickets[i], now).ticket
      BY <1>3, <2>1, PromotedFine DEF AlarmBegin
    <3>2. InSt(i, {"Called", "Overdue"}) /\ tickets[i] \in Ticket
      BY <2>1 DEF OverdueDue, InState, Held, InSt, IInv, TypeOK
    <3>3. /\ applyMoveToOverdue(tickets[i], now).ticket \in Ticket
          /\ SameHolder(tickets[i], applyMoveToOverdue(tickets[i], now).ticket)
      BY <1>9, <3>2, TransitionType
    <3> QED
      BY <3>1, <3>2, <3>3
  <2>2. CASE i \notin OverdueDue(now)
    BY <1>0, <1>3, <2>2 DEF AlarmBegin
  <2> QED
    BY <2>1, <2>2
<1>4. CASE \E c \in toNudge : NudgeByWebSocket(c) \/ fanOutPush(c)
  BY <1>0, <1>2, <1>4 DEF NudgeByWebSocket, fanOutPush, IInv, TypeOK, Candidate
<1>5. CASE \E e \in Endpoints, outcome \in {"delivered", "subscriptionGone", "failed"} :
             PushAnswer(e, outcome)
  BY <1>0, <1>5 DEF PushAnswer
<1>6. CASE NudgeAfterFanOut
  BY <1>2, <1>6 DEF NudgeAfterFanOut, IInv, TypeOK, FanOut
<1>7. CASE AlarmEnd
  <2>1. CASE i \in NoShowDue(sweepAt)
    <3>1. tickets'[i] = applyMarkNoShow(tickets[i], now, "system").ticket
          /\ sweepAt # None
      BY <1>7, <2>1 DEF AlarmEnd
    <3>2. tickets[i] \in Ticket
      BY <2>1 DEF NoShowDue, InState, Held, IInv, TypeOK
    <3>3. tickets'[i].state = "NoShow"
      BY <3>1, <3>2 DEF applyMarkNoShow, ApplyResult, common, Ticket
    <3>4. tickets'[i] \in Ticket /\ SameHolder(tickets[i], tickets'[i])
      BY <1>9, <3>1, <3>2, TransitionType
    <3> QED
      BY <2>1, <3>1, <3>3, <3>4
  <2>2. CASE i \in LapseDue(sweepAt) /\ i \notin NoShowDue(sweepAt)
    <3>1. tickets'[i] = applyLapseAppointment(tickets[i], now).ticket
          /\ sweepAt # None
      BY <1>7, <2>2 DEF AlarmEnd
    <3>2. tickets[i] \in Ticket
      BY <2>2 DEF LapseDue, InState, Held, IInv, TypeOK
    <3>3. tickets'[i].state = "Cancelled"
      BY <3>1, <3>2 DEF applyLapseAppointment, ApplyResult, common, Ticket
    <3>4. tickets'[i] \in Ticket /\ SameHolder(tickets[i], tickets'[i])
      BY <1>9, <3>1, <3>2, TransitionType
    <3> QED
      BY <2>2, <3>1, <3>3, <3>4
  <2>3. CASE i \notin LapseDue(sweepAt) /\ i \notin NoShowDue(sweepAt)
    BY <1>0, <1>7, <2>3 DEF AlarmEnd
  <2> QED
    BY <2>1, <2>2, <2>3
<1>8. CASE Evict \/ Tick \/ UNCHANGED vars
  BY <1>0, <1>8 DEF Evict, Tick, vars
<1> QED
  BY <1>1, <1>3, <1>4, <1>5, <1>6, <1>7, <1>8 DEF Next, SweepAction

\* No step touches the row of a closed ticket.
THEOREM ClosedStaysClosed == Spec => TerminalAbsorbing
<1>1. IInv /\ [Next]_vars =>
        \A i \in TicketIds : Terminal(i) => tickets'[i] = tickets[i]
  <2> SUFFICES ASSUME IInv, [Next]_vars, NEW i \in TicketIds, Terminal(i)
               PROVE  tickets'[i] = tickets[i]
    OBVIOUS
  <2>1. tickets[i] # None /\ tickets[i].state \in TERMINAL_TICKET_STATES
    BY DEF Terminal, InSt
  <2>2. ~InSt(i, {"Called", "Overdue"})
    BY <2>1 DEF InSt, TERMINAL_TICKET_STATES
  <2>3. ASSUME sweepAt # None PROVE i \notin NoShowDue(sweepAt) \cup LapseDue(sweepAt)
    BY <2>1 DEF NoShowDue, LapseDue, InState, TERMINAL_TICKET_STATES
  <2> QED
    BY <2>1, <2>2, <2>3, RowStep DEF Benign
<1> QED
  BY <1>1, Invariant, PTL DEF Spec, TerminalAbsorbing

\* The nudge recorded after an await leaves every ticket in the state it finds
\* it in, and so undoes no request that landed meanwhile.
THEOREM NudgeUndoesNothing == Spec => NudgeKeepsState
<1>1. IInv /\ [Next]_vars =>
        (fan # None /\ fan' = None =>
           \A i \in TicketIds : tickets[i] # None =>
             tickets'[i].state = tickets[i].state)
  <2> SUFFICES ASSUME IInv, [Next]_vars, fan # None, fan' = None,
                      NEW i \in TicketIds, tickets[i] # None
               PROVE  tickets'[i].state = tickets[i].state
    OBVIOUS
  <2>1. CASE StaffAction \/ CustomerAction
    BY <2>1, RequestBenign DEF IInv, BenignRequest, SubscriptionChange, sweepVars
  <2>2. CASE AlarmBegin \/ (\E c \in toNudge : NudgeByWebSocket(c) \/ fanOutPush(c))
               \/ AlarmEnd \/ Tick \/ UNCHANGED vars
    BY <2>2 DEF AlarmBegin, NudgeByWebSocket, fanOutPush, AlarmEnd, Tick, vars,
                sweepVars
  <2>3. CASE \E e \in Endpoints, outcome \in {"delivered", "subscriptionGone", "failed"} :
               PushAnswer(e, outcome)
    BY <2>3 DEF PushAnswer
  <2>4. CASE NudgeAfterFanOut
    <3>1. fan.id \in TicketIds
      BY DEF IInv, TypeOK, FanOut
    <3>2. CASE i = fan.id /\ InSt(i, {"Overdue"})
      <4>1. tickets'[i] = applyNudge(tickets[i], now).ticket
        BY <2>4, <3>2 DEF NudgeAfterFanOut, Nudge, dispatch, IInv, TypeOK
      <4>2. tickets[i] \in Ticket
        BY <3>2 DEF IInv, TypeOK, InSt
      <4>3. applyNudge(tickets[i], now).ticket.state = "Overdue"
        BY <4>2, Zenon DEF applyNudge, ApplyResult, common, Ticket
      <4> QED
        BY <3>2, <4>1, <4>2, <4>3 DEF InSt
    <3>3. CASE ~(i = fan.id /\ InSt(i, {"Overdue"}))
      BY <2>4, <3>1, <3>3 DEF NudgeAfterFanOut, Nudge, dispatch, IInv, TypeOK
    <3> QED
      BY <3>2, <3>3
  <2>5. CASE Evict
    BY <2>5 DEF Evict
  <2> QED
    BY <2>1, <2>2, <2>3, <2>4, <2>5 DEF Next, SweepAction
<1> QED
  BY <1>1, Invariant, PTL DEF Spec, NudgeKeepsState

\* The sweep never closes a ticket as NoShow before the customer had the
\* whole schedule of nudges and a last interval to react in.
THEOREM NoShowComesLate == Spec => SystemNoShowNotEarly
<1>1. IInv /\ [Next]_vars =>
        \A i \in TicketIds :
          /\ InSt(i, {"Called", "Overdue"})
          /\ tickets'[i].state = "NoShow"
          /\ tickets'[i].closedBy = "system"
          => /\ tickets[i].nudgeCount = MaxNudges
             /\ now > tickets[i].calledAt + OverdueAfterCalled
                        + MaxNudges * (NudgeInterval + 1)
  <2> SUFFICES ASSUME IInv, [Next]_vars, NEW i \in TicketIds,
                      InSt(i, {"Called", "Overdue"}),
                      tickets'[i].state = "NoShow", tickets'[i].closedBy = "system"
               PROVE  /\ tickets[i].nudgeCount = MaxNudges
                      /\ now > tickets[i].calledAt + OverdueAfterCalled
                                 + MaxNudges * (NudgeInterval + 1)
    OBVIOUS
  <2> DEFINE t == tickets[i]
  <2>1. sweepAt # None /\ i \in NoShowDue(sweepAt)
    BY RowStep DEF Benign, InSt
  <2>2. /\ t # None /\ t.state = "Overdue" /\ t.nudgeCount >= MaxNudges
        /\ t.lastNudgedAt # None /\ t.lastNudgedAt + NudgeInterval < sweepAt
    BY <2>1 DEF NoShowDue, InState, Held
  <2>3. t \in Ticket /\ RowFine(t, now)
    BY <2>2, Split DEF RowsFine, RowFine, Sound
  <2>4. /\ OverdueAfterCalled \in Nat /\ NudgeInterval \in Nat
        /\ MaxNudges \in Nat
    BY QueueShopAssumption
  <2>5. t.nudgeCount \in Nat /\ t.nudgeCount = MaxNudges
    BY <2>2, <2>3, <2>4 DEF RowFine, Ticket
  <2>6. t.calledAt \in Nat /\ t.overdueAt \in Nat /\ t.lastNudgedAt \in Nat
    BY <2>2, <2>3 DEF RowFine, Ticket, Instant
  <2>7. now \in Nat /\ sweepAt \in Nat /\ sweepAt <= now
    BY <2>1 DEF IInv, TypeOK, SweepLocals, Instant
  <2>8. /\ t.overdueAt > t.calledAt + OverdueAfterCalled
        /\ t.lastNudgedAt >= t.overdueAt + NudgesTake(MaxNudges)
    BY <2>2, <2>3, <2>4, <2>5 DEF RowFine
  <2>9. /\ NudgesTake(MaxNudges) \in Int
        /\ NudgesTake(MaxNudges) + NudgeInterval + 1 = MaxNudges * (NudgeInterval + 1)
    BY <2>4 DEF NudgesTake
  <2> QED
    BY <2>2, <2>4, <2>5, <2>6, <2>7, <2>8, <2>9
<1> QED
  BY <1>1, Invariant, PTL DEF Spec, SystemNoShowNotEarly

\* The sweep cancels only a waiting reservation past the grace of the
\* appointment it has now.
THEOREM LapseComesLate == Spec => LapseOnlyAfterGrace
<1>1. IInv /\ [Next]_vars =>
        \A i \in TicketIds :
          /\ Active(i)
          /\ tickets'[i].state = "Cancelled"
          /\ tickets'[i].closedBy = "system"
          => /\ tickets[i].state = "Waiting"
             /\ tickets[i].lane = "reservation"
             /\ now > tickets[i].appointmentAt + AppointmentGrace
  <2> SUFFICES ASSUME IInv, [Next]_vars, NEW i \in TicketIds, Active(i),
                      tickets'[i].state = "Cancelled", tickets'[i].closedBy = "system"
               PROVE  /\ tickets[i].state = "Waiting"
                      /\ tickets[i].lane = "reservation"
                      /\ now > tickets[i].appointmentAt + AppointmentGrace
    OBVIOUS
  <2>1. sweepAt # None /\ i \in LapseDue(sweepAt)
    BY RowStep DEF Benign, Active, InSt
  <2>2. /\ tickets[i] # None /\ tickets[i].state = "Waiting"
        /\ tickets[i].lane = "reservation" /\ tickets[i].appointmentAt # None
        /\ tickets[i].appointmentAt + AppointmentGrace < sweepAt
    BY <2>1 DEF LapseDue, InState, Held
  <2>3. tickets[i].appointmentAt \in Nat
    BY <2>2 DEF IInv, TypeOK, Ticket, Instant
  <2>4. now \in Nat /\ sweepAt \in Nat /\ sweepAt <= now /\ AppointmentGrace \in Nat
    BY <2>1, QueueShopAssumption DEF IInv, TypeOK, SweepLocals, Instant
  <2> QED
    BY <2>2, <2>3, <2>4
<1> QED
  BY <1>1, Invariant, PTL DEF Spec, LapseOnlyAfterGrace

-----------------------------------------------------------------------------
(* Identity: only an issue adds a row, and it takes a free handle and a    *)
(* fresh number.                                                           *)

\* Some ticket has the highest number, if there is a ticket.
NumbersTopped ==
  Held(tickets) = {} \/ HighestNumber(tickets, Held(tickets)) # {}

Issuing == \E h \in Handles, i \in TicketIds, form \in IssueForms : IssueTicket(i, h, form)

\* No other step adds a row, changes its holder or reopens it.
LEMMA HolderStep ==
  ASSUME IInv, [Next]_vars, ~Issuing, NEW i \in TicketIds
  PROVE  /\ tickets[i] = None => tickets'[i] = None
         /\ tickets[i] # None => tickets'[i] # None /\ SameHolder(tickets[i], tickets'[i])
         /\ Active(i)' => Active(i)
<1>1. ASSUME tickets[i] = None PROVE tickets'[i] = None
  <2> USE <1>1 DEF IInv, TypeOK
  <2>1. ASSUME NEW j \in TicketIds, NEW row, tickets[j] # None, Request(j, row)
        PROVE  tickets'[i] = None
    BY <2>1 DEF Request, dispatch
  <2>2. CASE StaffAction
    <3>1. ASSUME NEW lane, CallNext(lane) PROVE tickets'[i] = None
      BY <2>1, <3>1 DEF CallNext, InSt
    <3>2. ASSUME NEW ids, CallBatch(ids) \/ CallBatchRepeating(ids)
          PROVE  tickets'[i] = None
      BY <3>2 DEF CallBatch, CallBatchRepeating, dispatch, InSt
    <3>3. ASSUME NEW j \in TicketIds,
                 CallSpecific(j) \/ MarkServed(j) \/ MarkNoShow(j) \/ Recall(j)
                   \/ CancelTicket(j, "staff")
          PROVE  tickets'[i] = None
      BY <2>1, <3>3 DEF CallSpecific, MarkServed, MarkNoShow, Recall, CancelTicket, Active, InSt
    <3> QED
      BY <2>2, <3>1, <3>2, <3>3 DEF StaffAction
  <2>3. CASE CustomerAction
    <3>1. ASSUME NEW h, MergeIssue(h) PROVE tickets'[i] = None
      BY <3>1 DEF MergeIssue, dispatch
    <3>2. ASSUME NEW j \in TicketIds, CancelTicket(j, "customer") \/ CheckIn(j)
          PROVE  tickets'[i] = None
      BY <2>1, <3>2 DEF CancelTicket, CheckIn, Active, InSt
    <3>3. ASSUME NEW j \in TicketIds, NEW at, RescheduleTicket(j, at)
          PROVE  tickets'[i] = None
      BY <2>1, <3>3 DEF RescheduleTicket, dispatch, Active, InSt
    <3>4. ASSUME NEW j \in TicketIds, NEW e,
                 registerPushSubscription(j, e) \/ unregisterPushSubscription(j, e)
          PROVE  tickets'[i] = None
      BY <3>4 DEF registerPushSubscription, unregisterPushSubscription
    <3> QED
      BY <2>3, <3>1, <3>2, <3>3, <3>4 DEF CustomerAction, Issuing
  <2>4. ASSUME NEW j, Nudge(j) PROVE tickets'[i] = None
    BY <2>4 DEF Nudge, dispatch, InSt
  <2>5. CASE SweepAction
    <3>1. ASSUME AlarmBegin PROVE tickets'[i] = None
      BY <3>1 DEF AlarmBegin, OverdueDue, InState, Held
    <3>2. ASSUME AlarmEnd PROVE tickets'[i] = None
      BY <3>2 DEF AlarmEnd, NoShowDue, LapseDue, InState, Held
    <3> QED
      BY <2>4, <2>5, <3>1, <3>2 DEF SweepAction, NudgeByWebSocket, fanOutPush,
         PushAnswer, NudgeAfterFanOut
  <2>6. CASE Evict \/ Tick \/ UNCHANGED vars
    BY <2>6 DEF Evict, Tick, vars
  <2> QED
    BY <2>2, <2>3, <2>5, <2>6 DEF Next
<1>2. ASSUME tickets[i] # None
      PROVE  /\ tickets'[i] # None /\ SameHolder(tickets[i], tickets'[i])
             /\ Active(i)' => Active(i)
  <2>0. tickets[i] \in Ticket /\ tickets'[i] \in Ticket \cup {None}
    BY <1>2, NextKeeps DEF IInv, TypeOK
  <2>1. Active(i) <=> tickets[i].state \notin TERMINAL_TICKET_STATES
    BY <1>2, <2>0 DEF Active, InSt, Ticket, TicketState, TERMINAL_TICKET_STATES
  <2>2. CASE tickets'[i] = tickets[i]
    BY <1>2, <2>2 DEF SameHolder, Active, InSt
  <2>3. CASE tickets'[i] # tickets[i]
    <3>1. CASE Benign(tickets[i], tickets'[i])
      BY <1>2, <2>1, <2>3, <3>1, NoTicketAssumption DEF Benign, Sound
    <3>2. CASE /\ InSt(i, {"Called", "Overdue"}) /\ tickets'[i].state = "Overdue"
               /\ tickets'[i] \in Ticket /\ SameHolder(tickets[i], tickets'[i])
      BY <3>2, NoTicketAssumption DEF Active, InSt
    <3>3. CASE /\ sweepAt # None
               /\ tickets'[i] \in Ticket /\ SameHolder(tickets[i], tickets'[i])
               /\ \/ i \in NoShowDue(sweepAt) /\ tickets'[i].state = "NoShow"
                  \/ i \in LapseDue(sweepAt) /\ tickets'[i].state = "Cancelled"
      BY <3>3, NoTicketAssumption DEF Active, InSt
    <3> QED
      BY <3>1, <3>2, <3>3, RowStep
  <2> QED
    BY <2>2, <2>3
<1> QED
  BY <1>1, <1>2, NoTicketAssumption DEF Active, InSt

\* The number handed out is above every other.
LEMMA NextNumberIsFresh ==
  ASSUME IInv, NumbersTopped, NEW j \in TicketIds, tickets[j] # None
  PROVE  tickets[j].displaySeq < nextDisplaySeq(tickets)
<1> DEFINE last == HighestNumber(tickets, Held(tickets))
           top == CHOOSE i \in last : TRUE
<1>1. j \in Held(tickets)
  BY DEF Held, IInv, TypeOK
<1>2. last # {} /\ top \in last
  BY <1>1 DEF NumbersTopped
<1>3. top \in Held(tickets) /\ tickets[j].displaySeq <= tickets[top].displaySeq
  BY <1>1, <1>2 DEF HighestNumber
<1>4. tickets[j].displaySeq \in Nat /\ tickets[top].displaySeq \in Nat
  BY <1>3 DEF Held, IInv, TypeOK, Ticket
<1>5. nextDisplaySeq(tickets) = 1 + tickets[top].displaySeq
  BY <1>2 DEF nextDisplaySeq
<1> QED
  BY <1>3, <1>4, <1>5

\* Handles stay unique among active tickets and numbers among all, at every
\* step.
LEMMA IdentityKeeps ==
  ASSUME IInv, ActiveHandleUnique, DisplaySeqUnique, NumbersTopped, [Next]_vars
  PROVE  ActiveHandleUnique' /\ DisplaySeqUnique' /\ NumbersTopped'
<1>0. tickets \in Rows /\ tickets' \in Rows
  BY NextKeeps DEF IInv, TypeOK, Rows
<1>1. CASE ~Issuing
  <2>1. \A i \in TicketIds :
          /\ tickets[i] = None <=> tickets'[i] = None
          /\ tickets[i] # None => SameHolder(tickets[i], tickets'[i])
          /\ Active(i)' => Active(i)
    BY <1>1, HolderStep
  <2>2. ActiveHandleUnique'
    BY <2>1 DEF ActiveHandleUnique, SameHolder, Active, InSt
  <2>3. DisplaySeqUnique'
    BY <2>1 DEF DisplaySeqUnique, SameHolder
  <2>4. Held(tickets') = Held(tickets)
    BY <1>0, <2>1 DEF Held, Rows
  <2>5. \A i \in Held(tickets) : tickets'[i].displaySeq = tickets[i].displaySeq
    BY <1>0, <2>1 DEF Held, Rows, SameHolder
  <2>6. HighestNumber(tickets', Held(tickets')) = HighestNumber(tickets, Held(tickets))
    BY <2>4, <2>5 DEF HighestNumber
  <2> QED
    BY <2>2, <2>3, <2>4, <2>6 DEF NumbersTopped
<1>2. CASE Issuing
  <2>1. PICK h \in Handles, i \in TicketIds, form \in IssueForms : IssueTicket(i, h, form)
    BY <1>2 DEF Issuing
  <2> DEFINE n == nextDisplaySeq(tickets)
             row == applyIssue(form[1], h, n, form[2], now).ticket
  <2>2. /\ tickets[i] = None /\ tickets' = [tickets EXCEPT ![i] = row]
        /\ findActiveByHandle(tickets, h) = {}
    BY <2>1 DEF IssueTicket, Request, dispatch
  <2>3. row.handle = h /\ row.displaySeq = n
    BY DEF applyIssue, ApplyResult
  <2>4. form[1] \in Lane /\ form[2] \in Instant \cup {None} /\ now \in Instant
    BY QueueShopAssumption DEF IInv, TypeOK
  <2>5. n \in Nat /\ row \in Ticket
    BY <2>4, NextNumberType, IssueType DEF IInv
  <2> HIDE DEF row, n
  <2>6. \A j \in TicketIds \ {i} : tickets'[j] = tickets[j] /\ (Active(j)' <=> Active(j))
    BY <1>0, <2>2 DEF Rows, Active, InSt
  <2>7. tickets'[i] = row
    BY <1>0, <2>2 DEF Rows
  <2>8. \A j \in TicketIds \ {i} : tickets[j] # None => tickets[j].displaySeq < n
    BY NextNumberIsFresh DEF n
  <2>9. \A j \in TicketIds \ {i} : Active(j) => tickets[j].handle # h
    BY <1>0, <2>2 DEF findActiveByHandle, Held, isActiveForHandle, Active, InSt, Rows
  <2>10. ActiveHandleUnique'
    BY <2>3, <2>6, <2>7, <2>9 DEF ActiveHandleUnique
  <2>11. \A j \in TicketIds : tickets[j] # None => tickets[j].displaySeq \in Nat
    BY <1>0 DEF Rows, Ticket
  <2>12. DisplaySeqUnique'
    BY <2>3, <2>5, <2>6, <2>7, <2>8, <2>11 DEF DisplaySeqUnique
  <2>13. i \in HighestNumber(tickets', Held(tickets'))
    <3>1. i \in Held(tickets')
      BY <1>0, <2>5, <2>7, NoTicketAssumption DEF Held, Rows
    <3>2. ASSUME NEW j \in Held(tickets')
          PROVE  tickets'[j].displaySeq <= tickets'[i].displaySeq
      <4>1. j \in TicketIds /\ tickets'[j] # None
        BY <1>0 DEF Held, Rows
      <4> QED
        BY <2>3, <2>5, <2>6, <2>7, <2>8, <2>11, <4>1
    <3> QED
      BY <3>1, <3>2 DEF HighestNumber
  <2> QED
    BY <2>10, <2>12, <2>13 DEF NumbersTopped
<1> QED
  BY <1>1, <1>2

\* Handles, numbers and the highest of them, always.
LEMMA Identity == Spec => [](ActiveHandleUnique /\ DisplaySeqUnique /\ NumbersTopped)
<1>1. Init => ActiveHandleUnique /\ DisplaySeqUnique /\ NumbersTopped
  BY DEF Init, ActiveHandleUnique, DisplaySeqUnique, NumbersTopped, Held, Active, InSt
<1>2. IInv /\ ActiveHandleUnique /\ DisplaySeqUnique /\ NumbersTopped /\ [Next]_vars
      => ActiveHandleUnique' /\ DisplaySeqUnique' /\ NumbersTopped'
  BY IdentityKeeps
<1> QED
  BY <1>1, <1>2, Invariant, PTL DEF Spec

\* A handle never has two active tickets and a display number never two
\* tickets, for any number of customers and any interleaving.
THEOREM IdentityUnique == Spec => [](ActiveHandleUnique /\ DisplaySeqUnique)
BY Identity, PTL

\* As long as there is a ticket, one has the highest number.
LEMMA NumbersStayTopped == Spec => []NumbersTopped
BY Identity, PTL

\* In particular a number called out names one ticket for good.
THEOREM NumberNamesOneTicket == Spec => []DisplaySeqUnique
BY IdentityUnique, PTL

-----------------------------------------------------------------------------
(* The actor behind its repository: whatever changes a row, a request or a *)
(* tick of the sweep, is a use case the port's contract admits from the    *)
(* row it finds.                                                           *)

Port == INSTANCE AtomicQueue
  WITH agg <- tickets, Targets <- RescheduleTargets, Times <- Instant

\* The instance of the port's module has its own copy of the transitions.
LEMMA PortTransitions ==
  \A t, at, by, to :
    /\ Port!applyCall(t, at) = applyCall(t, at)
    /\ Port!applyMoveToOverdue(t, at) = applyMoveToOverdue(t, at)
    /\ Port!applyNudge(t, at) = applyNudge(t, at)
    /\ Port!applyMarkServed(t, at, by) = applyMarkServed(t, at, by)
    /\ Port!applyMarkNoShow(t, at, by) = applyMarkNoShow(t, at, by)
    /\ Port!applyRecall(t, at) = applyRecall(t, at)
    /\ Port!applyCancel(t, at, by) = applyCancel(t, at, by)
    /\ Port!applyLapseAppointment(t, at) = applyLapseAppointment(t, at)
    /\ Port!applyCheckIn(t, at) = applyCheckIn(t, at)
    /\ Port!applyReschedule(t, to, at) = applyReschedule(t, to, at)
<1> USE DEF Port!ApplyResult, ApplyResult, Port!common, common
<1> TAKE t, at, by, to
<1>1. Port!applyCall(t, at) = applyCall(t, at)
  BY DEF Port!applyCall, applyCall
<1>2. Port!applyMoveToOverdue(t, at) = applyMoveToOverdue(t, at)
  BY DEF Port!applyMoveToOverdue, applyMoveToOverdue
<1>3. Port!applyNudge(t, at) = applyNudge(t, at)
  BY DEF Port!applyNudge, applyNudge
<1>4. Port!applyMarkServed(t, at, by) = applyMarkServed(t, at, by)
  BY DEF Port!applyMarkServed, applyMarkServed
<1>5. Port!applyMarkNoShow(t, at, by) = applyMarkNoShow(t, at, by)
  BY DEF Port!applyMarkNoShow, applyMarkNoShow
<1>6. Port!applyRecall(t, at) = applyRecall(t, at)
  BY DEF Port!applyRecall, applyRecall
<1>7. Port!applyCancel(t, at, by) = applyCancel(t, at, by)
  BY DEF Port!applyCancel, applyCancel
<1>8. Port!applyLapseAppointment(t, at) = applyLapseAppointment(t, at)
  BY DEF Port!applyLapseAppointment, applyLapseAppointment
<1>9. Port!applyCheckIn(t, at) = applyCheckIn(t, at)
  BY DEF Port!applyCheckIn, applyCheckIn
<1>10. Port!applyReschedule(t, to, at) = applyReschedule(t, to, at)
  BY DEF Port!applyReschedule, applyReschedule
<1> QED
  BY <1>1, <1>2, <1>3, <1>4, <1>5, <1>6, <1>7, <1>8, <1>9, <1>10

\* What the contract admits, as a list of cases.
LEMMA PortAdmits ==
  ASSUME NEW t, NEW at, NEW r
  PROVE  r \in Port!Results(t, at) <=> Decides(RescheduleTargets, t, at, r)
<1>1. Port!Results(t, at) = Decisions(RescheduleTargets, t, at)
  BY PortTransitions DEF Port!Results, Decisions
<1> QED
  BY <1>1, DecisionsListed

Issues(i) == \E h \in Handles, form \in IssueForms : IssueTicket(i, h, form)

\* The row becomes what a use case admitted from it makes of it.
Decided(i) ==
  /\ tickets[i] # None
  /\ \E r : /\ Decides(RescheduleTargets, tickets[i], now, r)
            /\ tickets'[i] = r.ticket

\* One row changes for one use case.
LEMMA UseCaseStep ==
  ASSUME IInv, [Next]_vars, NEW i \in TicketIds, tickets'[i] # tickets[i]
  PROVE  Issues(i) \/ Decided(i)
<1>0. /\ tickets \in Rows /\ tickets[i] \in Ticket \cup {None}
      /\ None \notin TicketIds
  BY QueueShopAssumption DEF IInv, TypeOK, Rows
<1>1. ASSUME NEW j \in TicketIds, NEW row, Request(j, row)
      PROVE  j = i /\ tickets'[i] = row
  BY <1>0, <1>1 DEF Request, dispatch, Rows
<1>2. CASE StaffAction
  <2>1. ASSUME NEW lane, CallNext(lane) PROVE Decided(i)
    BY <1>1, <2>1 DEF CallNext, InSt, Decided, Decides, Dated, Booked
  <2>2. ASSUME NEW ids, CallBatch(ids) \/ CallBatchRepeating(ids) PROVE Decided(i)
    <3>1. i \in ids /\ tickets'[i] = applyCall(tickets[i], now).ticket
      BY <1>0, <2>2 DEF CallBatch, CallBatchRepeating, dispatch
    <3>2. InSt(i, {"Waiting"})
      BY <2>2, <3>1 DEF CallBatch, CallBatchRepeating
    <3> QED
      BY <3>1, <3>2 DEF InSt, Decided, Decides, Dated, Booked
  <2>3. ASSUME NEW j \in TicketIds, CallSpecific(j) \/ MarkServed(j) \/ Recall(j)
        PROVE  Decided(i)
    BY <1>1, <2>3 DEF CallSpecific, MarkServed, Recall, InSt, Decided, Decides, Dated, Booked
  <2>4. ASSUME NEW j \in TicketIds, MarkNoShow(j) PROVE Decided(i)
    BY <1>1, <2>4 DEF MarkNoShow, InSt, Decided, Decides, Dated, Booked
  <2>5. ASSUME NEW j \in TicketIds, CancelTicket(j, "staff") PROVE Decided(i)
    BY <1>1, <2>5 DEF CancelTicket, Active, InSt, Decided, Decides, Dated, Booked
  <2> QED
    BY <1>2, <2>1, <2>2, <2>3, <2>4, <2>5 DEF StaffAction
<1>3. CASE CustomerAction
  <2>1. ASSUME NEW h, MergeIssue(h) PROVE FALSE
    BY <1>0, <2>1 DEF MergeIssue, dispatch
  <2>2. ASSUME NEW j \in TicketIds, NEW h \in Handles, NEW form \in IssueForms,
               IssueTicket(j, h, form)
        PROVE  Issues(i)
    BY <1>1, <2>2 DEF IssueTicket, Issues
  <2>3. ASSUME NEW j \in TicketIds, CancelTicket(j, "customer") PROVE Decided(i)
    BY <1>1, <2>3 DEF CancelTicket, Active, InSt, Decided, Decides, Dated, Booked
  <2>4. ASSUME NEW j \in TicketIds, CheckIn(j) PROVE Decided(i)
    BY <1>1, <2>4 DEF CheckIn, InSt, Decided, Decides, Dated, Booked
  <2>5. ASSUME NEW j \in TicketIds, NEW at \in RescheduleTargets, RescheduleTicket(j, at)
        PROVE  Decided(i)
    <3>1. at # tickets[j].appointmentAt /\ Request(j, applyReschedule(tickets[j], at, now).ticket)
      BY <1>0, <2>5 DEF RescheduleTicket, dispatch
    <3>2. /\ j = i /\ tickets'[i] = applyReschedule(tickets[i], at, now).ticket
          /\ tickets[i] # None /\ tickets[i].state \in {"Waiting", "Called", "Overdue"}
          /\ tickets[i].lane = "reservation" /\ tickets[i].appointmentAt # None
          /\ at \in RescheduleTargets \ {tickets[i].appointmentAt}
      BY <1>1, <2>5, <3>1 DEF RescheduleTicket, Active, InSt
    <3> QED
      BY <3>2 DEF Decided, Decides, Dated, Booked
  <2>6. ASSUME NEW j \in TicketIds, NEW e,
               registerPushSubscription(j, e) \/ unregisterPushSubscription(j, e)
        PROVE  FALSE
    BY <1>0, <2>6 DEF registerPushSubscription, unregisterPushSubscription
  <2> QED
    BY <1>3, <2>1, <2>2, <2>3, <2>4, <2>5, <2>6 DEF CustomerAction
<1>4. CASE SweepAction
  <2>1. ASSUME NEW j, Nudge(j) PROVE Decided(i)
    <3>1. j = i /\ InSt(i, {"Overdue"}) /\ tickets'[i] = applyNudge(tickets[i], now).ticket
      BY <1>0, <2>1 DEF Nudge, dispatch, Rows
    <3> QED
      BY <3>1 DEF InSt, Decided, Decides, Dated, Booked
  <2>2. ASSUME AlarmBegin PROVE Decided(i)
    <3>1. i \in OverdueDue(now) /\ tickets'[i] = applyMoveToOverdue(tickets[i], now).ticket
      BY <1>0, <2>2 DEF AlarmBegin
    <3>2. tickets[i] # None /\ tickets[i].state = "Called"
      BY <3>1 DEF OverdueDue, InState, Held
    <3> QED
      BY <3>1, <3>2 DEF Decided, Decides, Dated, Booked
  <2>3. ASSUME AlarmEnd PROVE Decided(i)
    <3>1. CASE i \in NoShowDue(sweepAt)
      <4>1. tickets'[i] = applyMarkNoShow(tickets[i], now, "system").ticket
        BY <2>3, <3>1 DEF AlarmEnd
      <4>2. tickets[i] # None /\ tickets[i].state = "Overdue"
        BY <3>1 DEF NoShowDue, InState, Held
      <4> QED
        BY <4>1, <4>2 DEF Decided, Decides, Dated, Booked
    <3>2. CASE i \notin NoShowDue(sweepAt)
      <4>1. /\ i \in LapseDue(sweepAt)
            /\ tickets'[i] = applyLapseAppointment(tickets[i], now).ticket
        BY <2>3, <3>2 DEF AlarmEnd
      <4>2. /\ tickets[i] # None /\ tickets[i].state = "Waiting"
            /\ tickets[i].lane = "reservation" /\ tickets[i].appointmentAt # None
        BY <4>1 DEF LapseDue, InState, Held
      <4> QED
        BY <4>1, <4>2 DEF Decided, Decides, Dated, Booked
    <3> QED
      BY <3>1, <3>2
  <2> QED
    BY <1>0, <1>4, <2>1, <2>2, <2>3 DEF SweepAction, NudgeByWebSocket, fanOutPush,
       PushAnswer, NudgeAfterFanOut
<1>5. CASE Evict \/ Tick \/ UNCHANGED vars
  BY <1>0, <1>5 DEF Evict, Tick, vars
<1> QED
  BY <1>2, <1>3, <1>4, <1>5 DEF Next

\* However requests, sweeps, evictions and the clock interleave, a row only
\* ever appears by an issue to a handle without an active ticket, and only
\* ever changes by a use case the repository's contract admits from the row
\* as it is at that step: no decision is about a row read before an await.
RowsMoveByUseCases ==
  [][\A i \in TicketIds :
       tickets'[i] # tickets[i] =>
         \/ Issues(i)
         \/ /\ tickets[i] # None
            /\ \E r \in Port!Results(tickets[i], now) : tickets'[i] = r.ticket]_vars

THEOREM ActorKeepsPort == Spec => RowsMoveByUseCases
<1>1. \A i : Decided(i) =>
        /\ tickets[i] # None
        /\ \E r \in Port!Results(tickets[i], now) : tickets'[i] = r.ticket
  BY PortAdmits DEF Decided
<1>2. IInv /\ [Next]_vars =>
        \A i \in TicketIds :
          tickets'[i] # tickets[i] =>
            \/ Issues(i)
            \/ /\ tickets[i] # None
               /\ \E r \in Port!Results(tickets[i], now) : tickets'[i] = r.ticket
  BY <1>1, UseCaseStep
<1> QED
  BY <1>2, Invariant, PTL DEF Spec, RowsMoveByUseCases

-----------------------------------------------------------------------------
(* What the holder of a ticket sees of all this.                           *)

Holder == INSTANCE HolderView

\* The active tickets of a handle, each as its number and its state.
Seen(snap, i) == [id |-> snap[i].displaySeq, state |-> snap[i].state]

seenBy(snap, h) == {Seen(snap, i) : i \in findActiveByHandle(snap, h)}

\* The rows that count are those of the active tickets of the handle.
LEMMA ActiveRows ==
  ASSUME NEW snap \in Rows, NEW h, NEW i
  PROVE  i \in findActiveByHandle(snap, h) <=>
           /\ i \in TicketIds /\ snap[i] # None
           /\ snap[i].state \in {"Waiting", "Called", "Overdue"} /\ snap[i].handle = h
<1>1. DOMAIN snap = TicketIds
  BY DEF Rows
<1>2. i \in TicketIds /\ snap[i] # None => snap[i].state \in TicketState
  BY DEF Rows, Ticket
<1> QED
  BY <1>1, <1>2 DEF findActiveByHandle, isActiveForHandle, Held, TicketState, TERMINAL_TICKET_STATES

LEMMA SeenType ==
  ASSUME NEW snap \in Rows, NEW h, NEW i \in findActiveByHandle(snap, h)
  PROVE  Seen(snap, i) \in Holder!View
<1>1. snap[i] \in Ticket /\ snap[i].state \in {"Waiting", "Called", "Overdue"}
  BY ActiveRows DEF Rows
<1>2. snap[i].displaySeq \in Nat
  BY <1>1 DEF Ticket
<1> QED
  BY <1>1, <1>2 DEF Seen, Holder!View

\* What a decision makes of an active ticket, as its holder sees it.
LEMMA DecisionSeen ==
  ASSUME NEW t \in Ticket, NEW at, NEW r, Decides(RescheduleTargets, t, at, r)
  PROVE  \/ r.ticket.state = t.state
         \/ r.ticket.state \in TERMINAL_TICKET_STATES
         \/ t.state = "Waiting" /\ r.ticket.state = "Called"
         \/ t.state = "Called" /\ r.ticket.state = "Overdue"
         \/ t.state \in {"Called", "Overdue"} /\ r.ticket.state = "Waiting"
<1>1. \A by : /\ applyMarkServed(t, at, by).ticket.state = "Served"
              /\ applyMarkNoShow(t, at, by).ticket.state = "NoShow"
              /\ applyCancel(t, at, by).ticket.state = "Cancelled"
  BY DEF Ticket, common, ApplyResult, applyMarkServed, applyMarkNoShow, applyCancel
<1>2. /\ applyCall(t, at).ticket.state = "Called"
      /\ applyMoveToOverdue(t, at).ticket.state = "Overdue"
      /\ applyNudge(t, at).ticket.state = "Overdue"
      /\ applyRecall(t, at).ticket.state = "Waiting"
      /\ applyCheckIn(t, at).ticket.state = "Waiting"
      /\ applyLapseAppointment(t, at).ticket.state = "Cancelled"
  BY DEF Ticket, common, ApplyResult, applyCall, applyMoveToOverdue, applyNudge,
     applyRecall, applyCheckIn, applyLapseAppointment
<1>3. \A to : applyReschedule(t, to, at).ticket.state = t.state
  BY DEF Ticket, ApplyResult, applyReschedule
<1> QED
  BY <1>1, <1>2, <1>3 DEF Decides, TERMINAL_TICKET_STATES

\* One step changes what one holder sees by one move, or not at all.
LEMMA SeenFollows ==
  ASSUME IInv, IInv', ActiveHandleUnique, [Next]_vars, NEW h \in Handles
  PROVE  Holder!Follows(seenBy(tickets, h), seenBy(tickets', h))
<1> DEFINE old == findActiveByHandle(tickets, h)
           new == findActiveByHandle(tickets', h)
<1>1. tickets \in Rows /\ tickets' \in Rows
  BY DEF IInv, TypeOK, Rows
<1>2. \A i, j \in old : i = j
  BY <1>1, ActiveRows DEF ActiveHandleUnique, Active, InSt
<1>3. CASE \E i \in TicketIds, g \in Handles, form \in IssueForms : IssueTicket(i, g, form)
  <2>1. PICK i \in TicketIds, g \in Handles, form \in IssueForms : IssueTicket(i, g, form)
    BY <1>3
  <2> DEFINE row == applyIssue(form[1], g, nextDisplaySeq(tickets), form[2], now).ticket
  <2>2. /\ tickets[i] = None /\ tickets' = [tickets EXCEPT ![i] = row]
        /\ findActiveByHandle(tickets, g) = {}
    BY <2>1 DEF IssueTicket, Request, dispatch
  <2>3. row.handle = g /\ row.state = "Waiting"
    BY DEF applyIssue, ApplyResult
  <2>4. tickets'[i] = row /\ \A j \in TicketIds \ {i} : tickets'[j] = tickets[j]
    BY <1>1, <2>2 DEF Rows
  <2>5. row # None
    <3>1. form[1] \in Lane /\ form[2] \in Instant \cup {None} /\ now \in Instant
      BY QueueShopAssumption DEF IInv, TypeOK
    <3>2. row \in Ticket
      BY <3>1, NextNumberType, IssueType DEF IInv
    <3> QED
      BY <3>2, NoTicketAssumption
  <2> HIDE DEF row
  <2>6. CASE g = h
    <3>1. old = {}
      BY <2>2, <2>6
    <3>2. \A j : j \in new <=> j = i
      BY <1>1, <2>3, <2>4, <2>5, <2>6, <3>1, ActiveRows
    <3>3. seenBy(tickets, h) = {} /\ seenBy(tickets', h) = {Seen(tickets', i)}
      BY <3>1, <3>2 DEF seenBy
    <3>4. Seen(tickets', i) \in Holder!View
      BY <1>1, <3>2, SeenType
    <3>5. Seen(tickets', i).state = "Waiting"
      BY <2>3, <2>4 DEF Seen
    <3> QED
      BY <3>3, <3>4, <3>5 DEF Holder!Follows, Holder!Issued
  <2>7. CASE g # h
    <3>1. new = old
      <4>1. ASSUME NEW j PROVE j \in new <=> j \in old
        <5>1. CASE j = i
          <6>1. i \notin old
            BY <1>1, <2>2, ActiveRows
          <6>2. tickets'[i].handle # h
            BY <2>3, <2>4, <2>7
          <6>3. i \notin new
            BY <1>1, <6>2, ActiveRows
          <6> QED
            BY <5>1, <6>1, <6>3
        <5>2. CASE j # i
          <6>1. j \in TicketIds => tickets'[j] = tickets[j]
            BY <2>4, <5>2
          <6> QED
            BY <1>1, <6>1, ActiveRows
        <5> QED
          BY <5>1, <5>2
      <4> QED
        BY <4>1
    <3>2. \A j \in old : Seen(tickets', j) = Seen(tickets, j)
      BY <1>1, <2>2, <2>4, ActiveRows DEF Seen
    <3>3. seenBy(tickets', h) = seenBy(tickets, h)
      BY <3>1, <3>2 DEF seenBy
    <3> QED
      BY <3>3 DEF Holder!Follows
  <2> QED
    BY <2>6, <2>7
<1>4. CASE ~\E i \in TicketIds, g \in Handles, form \in IssueForms : IssueTicket(i, g, form)
  <2>1. \A j \in TicketIds :
          /\ tickets[j] = None => tickets'[j] = None
          /\ tickets[j] # None => tickets'[j] # None /\ SameHolder(tickets[j], tickets'[j])
          /\ Active(j)' => Active(j)
    BY <1>4, HolderStep DEF Issuing
  <2>2. new \subseteq old
    BY <1>1, <2>1, ActiveRows DEF Active, InSt, SameHolder
  <2>3. CASE old = {}
    <3>1. seenBy(tickets, h) = {} /\ seenBy(tickets', h) = {}
      BY <2>2, <2>3 DEF seenBy
    <3> QED
      BY <3>1 DEF Holder!Follows
  <2>4. CASE old # {}
    <3>1. PICK i \in old : TRUE
      BY <2>4
    <3> DEFINE v == Seen(tickets, i)
    <3>2. old = {i} /\ seenBy(tickets, h) = {v} /\ v \in Holder!View
      BY <1>1, <1>2, <3>1, SeenType DEF seenBy
    <3>3. CASE new = {}
      <4>1. seenBy(tickets', h) = {}
        BY <3>3 DEF seenBy
      <4> QED
        BY <3>2, <4>1 DEF Holder!Follows, Holder!Moved
    <3>4. CASE new # {}
      <4>1. new = {i} /\ seenBy(tickets', h) = {Seen(tickets', i)}
        BY <2>2, <3>2, <3>4 DEF seenBy
      <4>2. /\ i \in TicketIds /\ tickets[i] \in Ticket /\ tickets[i] # None
            /\ tickets'[i].displaySeq = tickets[i].displaySeq
            /\ tickets'[i].state \notin TERMINAL_TICKET_STATES
        <5>1. i \in TicketIds /\ tickets[i] # None
          BY <1>1, <3>1, ActiveRows
        <5>2. tickets'[i].state \in {"Waiting", "Called", "Overdue"}
          BY <1>1, <4>1, ActiveRows
        <5>3. tickets[i] \in Ticket
          BY <1>1, <5>1 DEF Rows
        <5> QED
          BY <2>1, <5>1, <5>2, <5>3 DEF SameHolder, TERMINAL_TICKET_STATES
      <4>3. Seen(tickets', i) = [v EXCEPT !.state = tickets'[i].state]
        BY <4>2 DEF Seen
      <4>4. v.state = tickets[i].state
        BY DEF Seen
      <4> HIDE DEF v
      <4>5. CASE tickets'[i].state = tickets[i].state
        <5>1. Seen(tickets', i) = v
          BY <4>2, <4>5 DEF Seen, v
        <5> QED
          BY <3>2, <4>1, <5>1 DEF Holder!Follows
      <4>6. CASE tickets'[i].state # tickets[i].state
        <5>1. Decided(i)
          BY <1>4, <4>2, <4>6, UseCaseStep DEF Issues
        <5>2. \/ tickets[i].state = "Waiting" /\ tickets'[i].state = "Called"
              \/ tickets[i].state = "Called" /\ tickets'[i].state = "Overdue"
              \/ tickets[i].state \in {"Called", "Overdue"} /\ tickets'[i].state = "Waiting"
          BY <4>2, <4>6, <5>1, DecisionSeen DEF Decided
        <5>3. Holder!Moved({v}, {Seen(tickets', i)})
          BY <3>2, <4>3, <4>4, <5>2 DEF Holder!Moved
        <5> QED
          BY <3>2, <4>1, <5>3 DEF Holder!Follows
      <4> QED
        BY <4>5, <4>6
    <3> QED
      BY <3>3, <3>4
  <2> QED
    BY <2>3, <2>4
<1> QED
  BY <1>3, <1>4

\* Whoever holds a ticket sees it issued under a number, called, overdue,
\* waiting again or closed, one such move at a time and never another ticket
\* in its place: two rows of one handle are never active at once, and no
\* sweep or batch moves a ticket twice within one step.
HolderSeesMoves ==
  [][\A h \in Handles : Holder!Follows(seenBy(tickets, h), seenBy(tickets', h))]_vars

THEOREM ActorAsHoldersSeeIt == Spec => HolderSeesMoves
<1>1. IInv /\ IInv' /\ ActiveHandleUnique /\ [Next]_vars =>
        \A h \in Handles : Holder!Follows(seenBy(tickets, h), seenBy(tickets', h))
  BY SeenFollows
<1> QED
  BY <1>1, Invariant, IdentityUnique, PTL DEF Spec, HolderSeesMoves

-----------------------------------------------------------------------------
(* Whom a call without a name reaches.                                     *)

\* A held row is a ticket.
LEMMA RowType ==
  ASSUME NEW snap \in Rows, NEW i \in Held(snap)
  PROVE  i \in TicketIds /\ snap[i] \in Ticket
BY DEF Rows, Held

\* Among reservations with a deadline there is a first: one of the earliest,
\* with the lowest number of those.
LEMMA EarliestExists ==
  ASSUME NEW snap \in Rows, Deadlined(snap) # {}
  PROVE  LET e == earliestReservation(snap)
         IN  /\ e \in Deadlined(snap)
             /\ \A j \in Deadlined(snap) :
                  \/ snap[e].appointmentAt < snap[j].appointmentAt
                  \/ /\ snap[e].appointmentAt = snap[j].appointmentAt
                     /\ snap[e].displaySeq <= snap[j].displaySeq
<1> DEFINE D == Deadlined(snap)
           Before(i, j) == \/ snap[i].appointmentAt < snap[j].appointmentAt
                           \/ /\ snap[i].appointmentAt = snap[j].appointmentAt
                              /\ snap[i].displaySeq <= snap[j].displaySeq
           times == {snap[i].appointmentAt : i \in D}
<1>1. \A i \in D : /\ snap[i].appointmentAt \in Nat
                   /\ snap[i].displaySeq \in Nat
  <2>1. \A i \in D : i \in Held(snap) /\ snap[i].appointmentAt # None
    BY DEF Deadlined, Waiting, InState
  <2> QED
    BY <2>1, RowType DEF Ticket, Instant
<1>2. PICK k \in D : TRUE
  OBVIOUS
<1> HIDE DEF D
<1>3. PICK a \in times : \A n \in times : ~(n < a)
  <2>1. times \in SUBSET Nat /\ snap[k].appointmentAt \in times
    BY <1>1
  <2> HIDE DEF times
  <2> QED
    BY <2>1, SmallestOf
<1> DEFINE first == {i \in D : snap[i].appointmentAt = a}
           numbers == {snap[i].displaySeq : i \in first}
<1>4. PICK l \in first : TRUE
  BY <1>3
<1>5. PICK d \in numbers : \A n \in numbers : ~(n < d)
  <2>1. numbers \in SUBSET Nat /\ snap[l].displaySeq \in numbers
    BY <1>1
  <2> HIDE DEF numbers
  <2> QED
    BY <2>1, SmallestOf
<1>6. PICK i \in first : snap[i].displaySeq = d
  BY <1>5
<1>7. ASSUME NEW j \in D PROVE Before(i, j)
  <2>1. /\ ~(snap[j].appointmentAt < a)
        /\ snap[j].appointmentAt = a => ~(snap[j].displaySeq < d)
    BY <1>3, <1>5
  <2>2. /\ i \in D /\ snap[i].appointmentAt = a /\ snap[i].displaySeq = d
        /\ a \in Nat /\ d \in Nat
        /\ snap[j].appointmentAt \in Nat /\ snap[j].displaySeq \in Nat
    BY <1>1, <1>6
  <2> QED
    BY <2>1, <2>2
<1>8. earliestReservation(snap) = CHOOSE x \in D : \A j \in D : Before(x, j)
  BY DEF earliestReservation, D
<1> DEFINE First(x) == \A j \in D : Before(x, j)
<1>9. i \in D /\ First(i)
  BY <1>6, <1>7
<1> HIDE DEF First
<1>10. (CHOOSE x \in D : First(x)) \in D /\ First(CHOOSE x \in D : First(x))
  BY <1>9
<1>11. earliestReservation(snap) = CHOOSE x \in D : First(x)
  BY <1>8 DEF First
<1> QED
  BY <1>10, <1>11 DEF D, First

\* Among the waiting tickets of a lane there is one with the lowest number.
LEMMA HeadExists ==
  ASSUME NEW snap \in Rows, NEW lane, Waiting(snap, lane) # {}
  PROVE  /\ headOfLane(snap, lane) \in Waiting(snap, lane)
         /\ \A j \in Waiting(snap, lane) :
              snap[headOfLane(snap, lane)].displaySeq <= snap[j].displaySeq
<1> DEFINE W == Waiting(snap, lane)
           numbers == {snap[i].displaySeq : i \in W}
           Lowest(i) == \A j \in W : snap[i].displaySeq <= snap[j].displaySeq
<1>1. \A i \in W : snap[i].displaySeq \in Nat
  <2>1. \A i \in W : i \in Held(snap)
    BY DEF Waiting, InState
  <2> QED
    BY <2>1, RowType DEF Ticket
<1>2. PICK k \in W : TRUE
  OBVIOUS
<1> HIDE DEF W
<1>3. PICK d \in numbers : \A n \in numbers : ~(n < d)
  <2>1. numbers \in SUBSET Nat /\ snap[k].displaySeq \in numbers
    BY <1>1, <1>2
  <2> HIDE DEF numbers
  <2> QED
    BY <2>1, SmallestOf
<1>4. PICK i \in W : snap[i].displaySeq = d
  BY <1>3
<1>5. Lowest(i)
  <2> SUFFICES ASSUME NEW j \in W PROVE snap[i].displaySeq <= snap[j].displaySeq
    OBVIOUS
  <2>1. ~(snap[j].displaySeq < d) /\ snap[j].displaySeq \in Nat /\ d \in Nat
    BY <1>1, <1>3, <1>4
  <2> QED
    BY <1>4, <2>1
<1>6. headOfLane(snap, lane) = CHOOSE x \in W : Lowest(x)
  BY DEF headOfLane, W
<1> HIDE DEF Lowest
<1>7. (CHOOSE x \in W : Lowest(x)) \in W /\ Lowest(CHOOSE x \in W : Lowest(x))
  BY <1>4, <1>5
<1> QED
  BY <1>6, <1>7 DEF W, Lowest

\* The first lane with a waiting ticket, in the order of the chain.
LEMMA LaneOrder ==
  ASSUME NEW snap
  PROVE  LET walkIns == Waiting(snap, "walkIn")
             booked == Waiting(snap, "reservation")
         IN  /\ walkIns # {} => firstLaneWithWaiting(snap) = "walkIn"
             /\ walkIns = {} /\ booked # {} => firstLaneWithWaiting(snap) = "reservation"
             /\ walkIns = {} /\ booked = {} => firstLaneWithWaiting(snap) = None
<1> DEFINE busy == {n \in DOMAIN PREFERRED_LANE_CHAIN :
                      Waiting(snap, PREFERRED_LANE_CHAIN[n]) # {}}
           first == CHOOSE n \in busy : \A m \in busy : n <= m
<1>1. /\ DOMAIN PREFERRED_LANE_CHAIN = {1, 2}
      /\ PREFERRED_LANE_CHAIN[1] = "walkIn" /\ PREFERRED_LANE_CHAIN[2] = "reservation"
  BY DEF PREFERRED_LANE_CHAIN
<1>2. /\ 1 \in busy <=> Waiting(snap, "walkIn") # {}
      /\ 2 \in busy <=> Waiting(snap, "reservation") # {}
      /\ busy \subseteq {1, 2}
  BY <1>1
<1>3. firstLaneWithWaiting(snap) = IF busy = {} THEN None ELSE PREFERRED_LANE_CHAIN[first]
  BY DEF firstLaneWithWaiting
<1>4. 1 \in busy => first = 1
  BY <1>2
<1>5. 1 \notin busy /\ 2 \in busy => first = 2
  BY <1>2
<1> QED
  BY <1>1, <1>2, <1>3, <1>4, <1>5

\* Whether nextCallable finds somebody, and whom.  A reservation due within
\* the grace goes first, the earliest of them; then the walk-in with the
\* lowest number; a later reservation only when no walk-in waits.  Only a
\* waiting reservation without an instant is never found.
THEOREM NextCallableIsNext ==
  ASSUME NEW snap \in Rows, NEW at \in Instant
  PROVE  LET next == nextCallable(snap, at, CallGrace)
             walkIns == Waiting(snap, "walkIn")
             booked == Deadlined(snap)
             DueAt(i) == snap[i].appointmentAt <= at + CallGrace
         IN  /\ next = None <=> walkIns = {} /\ booked = {}
             /\ next # None => next \in walkIns \cup booked
             /\ next \in walkIns =>
                  /\ \A i \in booked : ~DueAt(i)
                  /\ \A i \in walkIns : snap[next].displaySeq <= snap[i].displaySeq
             /\ next \in booked =>
                  /\ DueAt(next) \/ walkIns = {}
                  /\ \A i \in booked : snap[next].appointmentAt <= snap[i].appointmentAt
<1> DEFINE walkIns == Waiting(snap, "walkIn")
           booked == Deadlined(snap)
           e == earliestReservation(snap)
           h == headOfLane(snap, "walkIn")
           lane == firstLaneWithWaiting(snap)
           due == booked # {} /\ snap[e].appointmentAt <= at + CallGrace
<1>1. /\ None \notin TicketIds /\ None \notin Lane
      /\ at \in Nat /\ CallGrace \in Nat
  BY QueueShopAssumption, NoneAssumption DEF Instant
<1>2. /\ walkIns \subseteq Held(snap) /\ booked \subseteq Held(snap)
      /\ booked \subseteq Waiting(snap, "reservation")
      /\ walkIns \cap booked = {}
  BY DEF Waiting, Deadlined, InState
<1>3. \A i \in booked : snap[i].appointmentAt \in Nat
  BY <1>2, RowType DEF Deadlined, Ticket, Instant
<1>4. /\ booked = {} => e = None
      /\ booked # {} => /\ e \in booked /\ e # None
                        /\ \A i \in booked : snap[e].appointmentAt <= snap[i].appointmentAt
  <2>1. CASE booked = {}
    BY <2>1 DEF earliestReservation
  <2>2. CASE booked # {}
    <3>1. /\ e \in booked
          /\ \A i \in booked : \/ snap[e].appointmentAt < snap[i].appointmentAt
                             \/ snap[e].appointmentAt = snap[i].appointmentAt
      BY <2>2, EarliestExists
    <3> HIDE DEF e, booked
    <3> QED
      BY <1>1, <1>2, <1>3, <2>2, <3>1, RowType
  <2> QED
    BY <2>1, <2>2
<1>5. walkIns # {} =>
        /\ h \in walkIns /\ h # None
        /\ \A i \in walkIns : snap[h].displaySeq <= snap[i].displaySeq
  BY <1>1, <1>2, HeadExists, RowType
<1>6. /\ walkIns # {} => lane = "walkIn"
      /\ walkIns = {} /\ Waiting(snap, "reservation") # {} => lane = "reservation"
      /\ walkIns = {} /\ Waiting(snap, "reservation") = {} => lane = None
  BY LaneOrder
<1>7. nextCallable(snap, at, CallGrace) =
        IF due \/ lane = "reservation" THEN e
        ELSE IF lane = None THEN None ELSE headOfLane(snap, lane)
  <2>1. firstLaneWithCallable(snap, at, CallGrace) = IF due THEN "reservation" ELSE lane
    BY <1>4 DEF firstLaneWithCallable
  <2>2. "reservation" # None
    BY <1>1 DEF Lane
  <2> QED
    BY <2>1, <2>2 DEF nextCallable
<1> DEFINE next == nextCallable(snap, at, CallGrace)
<1> HIDE DEF e, h, lane, walkIns, booked, next
<1>8. booked # {} => Waiting(snap, "reservation") # {}
  BY <1>2
<1>9. \/ booked # {} /\ due /\ next = e
      \/ ~due /\ walkIns # {} /\ next = h
      \/ ~due /\ walkIns = {} /\ booked # {} /\ next = e
      \/ walkIns = {} /\ booked = {} /\ next = None
  <2>1. /\ "walkIn" # "reservation" /\ "walkIn" # None /\ None # "reservation"
    BY <1>1 DEF Lane
  <2>2. walkIns # {} => lane = "walkIn"
    BY <1>6 DEF walkIns, lane
  <2>3. walkIns = {} =>
          lane = "reservation" \/ (lane = None /\ Waiting(snap, "reservation") = {})
    BY <1>6 DEF walkIns, lane
  <2>4. next = IF due \/ lane = "reservation" THEN e
               ELSE IF lane = None THEN None ELSE headOfLane(snap, lane)
    BY <1>7 DEF next, e, lane, booked
  <2>5. headOfLane(snap, "walkIn") = h
    BY DEF h
  <2> QED
    BY <1>4, <1>8, <2>1, <2>2, <2>3, <2>4, <2>5
<1>10. ASSUME ~due, booked # {}, NEW i \in booked
       PROVE  ~(snap[i].appointmentAt <= at + CallGrace)
  <2>1. e \in booked /\ snap[e].appointmentAt <= snap[i].appointmentAt
    BY <1>4, <1>10
  <2>2. snap[e].appointmentAt \in Nat /\ snap[i].appointmentAt \in Nat
    BY <1>3, <2>1
  <2> QED
    BY <1>1, <1>10, <2>1, <2>2
<1>11. e \in booked => e \notin walkIns
  BY <1>2
<1>12. h \in walkIns => h \notin booked
  BY <1>2
<1>13. None \notin walkIns \cup booked
  BY <1>1, <1>2, RowType
<1>14. /\ next = None <=> walkIns = {} /\ booked = {}
       /\ next # None => next \in walkIns \cup booked
  BY <1>4, <1>5, <1>9
<1>15. next \in walkIns =>
         /\ \A i \in booked : ~(snap[i].appointmentAt <= at + CallGrace)
         /\ \A i \in walkIns : snap[next].displaySeq <= snap[i].displaySeq
  BY <1>4, <1>5, <1>9, <1>10, <1>11, <1>13
<1>16. next \in booked =>
         /\ snap[next].appointmentAt <= at + CallGrace \/ walkIns = {}
         /\ \A i \in booked : snap[next].appointmentAt <= snap[i].appointmentAt
  BY <1>4, <1>5, <1>9, <1>12, <1>13
<1> QED
  BY <1>14, <1>15, <1>16 DEF walkIns, booked, next

\* Every transition but one keeps the booking: the lane and the instant.
SameBooking(old, new) ==
  new.lane = old.lane /\ new.appointmentAt = old.appointmentAt

LEMMA TransitionBooking ==
  ASSUME NEW t \in Ticket, NEW at, NEW by
  PROVE  /\ SameBooking(t, applyCall(t, at).ticket)
         /\ SameBooking(t, applyMoveToOverdue(t, at).ticket)
         /\ SameBooking(t, applyNudge(t, at).ticket)
         /\ SameBooking(t, applyMarkServed(t, at, by).ticket)
         /\ SameBooking(t, applyMarkNoShow(t, at, by).ticket)
         /\ SameBooking(t, applyRecall(t, at).ticket)
         /\ SameBooking(t, applyCancel(t, at, by).ticket)
         /\ SameBooking(t, applyLapseAppointment(t, at).ticket)
         /\ SameBooking(t, applyCheckIn(t, at).ticket)
BY DEF SameBooking, Ticket, common, ApplyResult, applyCall, applyMoveToOverdue,
   applyNudge, applyMarkServed, applyMarkNoShow, applyRecall, applyCancel,
   applyLapseAppointment, applyCheckIn

\* A decision leaves the lane of a ticket, and an instant once it has one.
LEMMA DecisionKeepsDate ==
  ASSUME NEW t \in Ticket, NEW at, NEW r, Decides(RescheduleTargets, t, at, r)
  PROVE  /\ r.ticket.lane = t.lane
         /\ Dated(t) => Dated(r.ticket)
<1>1. None \notin RescheduleTargets
  BY QueueShopAssumption, NoneAssumption DEF Instant
<1>2. CASE \E to \in RescheduleTargets : r = applyReschedule(t, to, at)
  <2>1. PICK to \in RescheduleTargets : r = applyReschedule(t, to, at)
    BY <1>2
  <2>2. r.ticket = [t EXCEPT !.appointmentAt = to]
    BY <2>1 DEF applyReschedule, ApplyResult
  <2> QED
    BY <1>1, <2>1, <2>2 DEF Ticket, Dated
<1>3. CASE ~\E to \in RescheduleTargets : r = applyReschedule(t, to, at)
  <2>1. SameBooking(t, r.ticket)
    BY <1>3, TransitionBooking DEF Decides
  <2> QED
    BY <2>1 DEF SameBooking, Dated
<1> QED
  BY <1>2, <1>3

\* Every reservation on the board has an instant.
ReservationsDated ==
  \A i \in Held(tickets) : tickets[i].lane = "reservation" => Dated(tickets[i])

\* POST /tickets gives a reservation its instant (the route of the customer's
\* page does; the contract lets it be left out).
DatedForms == \A form \in IssueForms : form[1] = "reservation" => form[2] # None

LEMMA ReservationsStayDated ==
  ASSUME DatedForms, IInv, [Next]_vars, ReservationsDated
  PROVE  ReservationsDated'
<1>1. tickets \in Rows /\ tickets' \in Rows
  <2>1. IInv'
    BY NextKeeps
  <2> QED
    BY <2>1 DEF IInv, TypeOK, Rows
<1> SUFFICES ASSUME NEW i \in TicketIds, tickets'[i] # None,
                    tickets'[i].lane = "reservation"
             PROVE  Dated(tickets'[i])
  BY <1>1 DEF ReservationsDated, Held, Rows, Dated
<1>2. CASE tickets'[i] = tickets[i]
  BY <1>1, <1>2 DEF ReservationsDated, Held, Rows
<1>3. CASE Issues(i)
  <2>1. PICK h \in Handles, form \in IssueForms : IssueTicket(i, h, form)
    BY <1>3 DEF Issues
  <2>2. tickets'[i] = applyIssue(form[1], h, nextDisplaySeq(tickets), form[2], now).ticket
    BY <1>1, <2>1 DEF IssueTicket, Request, dispatch, Rows
  <2>3. tickets'[i].lane = form[1] /\ tickets'[i].appointmentAt = form[2]
    BY <2>2 DEF applyIssue, ApplyResult
  <2> QED
    BY <2>1, <2>3 DEF Dated, DatedForms
<1>4. CASE Decided(i)
  <2>1. tickets[i] \in Ticket /\ i \in Held(tickets)
    BY <1>1, <1>4 DEF Decided, Rows, Held
  <2> QED
    BY <1>4, <2>1, DecisionKeepsDate DEF Decided, ReservationsDated
<1> QED
  BY <1>2, <1>3, <1>4, UseCaseStep

\* As long as every reservation is issued with an instant, no use case takes
\* it away, so "Returns null when the snapshot has no Waiting ticket"
\* (nextCallable, projection.ts) is the only way it returns null: staff who
\* call the next ticket are never told of an empty board while somebody
\* waits, whichever lanes the waiting tickets are in and whenever they are due.
THEOREM NextCallableFinds == DatedForms => (Spec => []NextCallableFindsWaiting)
<1> SUFFICES ASSUME DatedForms PROVE Spec => []NextCallableFindsWaiting
  OBVIOUS
<1>1. Init => ReservationsDated
  BY DEF Init, ReservationsDated, Held
<1>2. IInv /\ [Next]_vars /\ ReservationsDated => ReservationsDated'
  BY ReservationsStayDated
<1>3. IInv /\ ReservationsDated => NextCallableFindsWaiting
  <2> SUFFICES ASSUME IInv, ReservationsDated, NEW i \in TicketIds, InSt(i, {"Waiting"})
               PROVE  nextCallable(tickets, now, CallGrace) # None
    BY DEF NextCallableFindsWaiting
  <2>1. tickets \in Rows /\ now \in Instant
    BY DEF IInv, TypeOK, Rows
  <2>2. i \in InState(tickets, {"Waiting"}) /\ tickets[i].lane \in Lane
    BY <2>1 DEF InSt, InState, Held, Rows, Ticket
  <2>3. i \in Waiting(tickets, "walkIn") \cup Deadlined(tickets)
    BY <2>2 DEF Lane, Waiting, Deadlined, ReservationsDated, Dated, InState
  <2> QED
    BY <2>1, <2>3, NextCallableIsNext
<1> QED
  BY <1>1, <1>2, <1>3, Invariant, PTL DEF Spec

-----------------------------------------------------------------------------
(* The punctual platform.  Between sweeps no called ticket needs the alarm *)
(* earlier than it is armed; in a sweep every ticket whose next step is    *)
(* due is selected, or will be closed at the end.                          *)

\* The promotion comes this long after the call at the latest.
PromotionTakes == Longer(FallbackReArm, OverdueAfterCalled + ReArm)

\* The most that n more sweeps past an interval take.
SweepsTake(n) == n * (NudgeInterval + ReArm)

\* The instant by which the step after t's last one is made.
NextBy(t) == t.calledAt + PromotionTakes + SweepsTake(t.nudgeCount)

\* Tick 2 selected the ticket and has not handled it.
Selected(i) == (\E c \in toNudge : c.id = i) \/ (fan # None /\ fan.id = i)

\* What is true of a row while the alarm is awaited.
Awaited(t, alarm) ==
  /\ t.state = "Called" => alarm <= NextBy(t)
  /\ t.state = "Overdue" =>
       /\ t.nudgeCount > 0
       /\ alarm <= t.lastNudgedAt + NudgeInterval + ReArm
       /\ t.lastNudgedAt + NudgeInterval + ReArm <= NextBy(t)

\* What is true of a row in a sweep at the instant at.
Swept(t, at, selected) ==
  /\ t.state = "Called" => at <= t.calledAt + OverdueAfterCalled
  /\ t.state = "Overdue" =>
       /\ at <= NextBy(t)
       /\ t.nudgeCount > 0 => t.lastNudgedAt + NudgeInterval + ReArm <= NextBy(t)
       /\ \/ selected
          \/ /\ t.nudgeCount > 0
             /\ at <= t.lastNudgedAt + NudgeInterval \/ t.nudgeCount >= MaxNudges

AlarmInTime ==
  /\ now <= alarmAt /\ alarmAt <= now + FallbackReArm
  /\ \A i \in TicketIds : tickets[i] # None => Awaited(tickets[i], alarmAt)

SweepInTime ==
  /\ sweepAt = now
  /\ \A i \in TicketIds : tickets[i] # None => Swept(tickets[i], now, Selected(i))

Punctual ==
  /\ sweepAt = None /\ alarmAt # None => AlarmInTime
  /\ sweepAt # None => SweepInTime

\* The sweep is re-armed by the shortest of its intervals.
LEMMA IntervalFacts ==
  /\ OverdueAfterCalled \in Nat /\ NudgeInterval \in Nat /\ MaxNudges \in Nat
  /\ FallbackReArm \in Nat /\ ReArm \in Nat
  /\ Intervals \subseteq Nat /\ \A r \in Intervals : ReArm <= r
  /\ ReArm <= FallbackReArm
  /\ PromotionTakes \in Nat
  /\ FallbackReArm <= PromotionTakes /\ OverdueAfterCalled + ReArm <= PromotionTakes
<1>1. /\ OverdueAfterCalled \in Nat /\ NudgeInterval \in Nat /\ MaxNudges \in Nat
      /\ AppointmentGrace \in Nat /\ FallbackReArm \in Nat
  BY QueueShopAssumption
<1>2. \E s \in Intervals : \A r \in Intervals : s <= r
  BY <1>1 DEF Intervals
<1>3. ReArm \in Intervals /\ \A r \in Intervals : ReArm <= r
  BY <1>2 DEF ReArm, Intervals
<1>4. ReArm \in Nat /\ ReArm <= FallbackReArm
  BY <1>1, <1>3 DEF Intervals
<1>5. /\ PromotionTakes \in Nat /\ FallbackReArm <= PromotionTakes
      /\ OverdueAfterCalled + ReArm <= PromotionTakes
  BY <1>1, <1>4 DEF PromotionTakes, Longer
<1> QED
  BY <1>1, <1>3, <1>4, <1>5 DEF Intervals

LEMMA SweepsTakeStep ==
  ASSUME NEW n \in Nat
  PROVE  /\ SweepsTake(n) \in Nat
         /\ SweepsTake(0) = 0
         /\ SweepsTake(n + 1) = SweepsTake(n) + NudgeInterval + ReArm
<1> DEFINE k == NudgeInterval + ReArm
<1>1. k \in Nat
  BY IntervalFacts
<1>2. SweepsTake(n) = n * k /\ SweepsTake(0) = 0 * k /\ SweepsTake(n + 1) = (n + 1) * k
  BY DEF SweepsTake
<1> HIDE DEF k
<1>3. n * k \in Nat /\ 0 * k = 0 /\ (n + 1) * k = n * k + k
  BY <1>1
<1> QED
  BY <1>2, <1>3, IntervalFacts DEF k

\* The parts of a row the bounds are about.
LEMMA RowParts ==
  ASSUME IInv, NEW i \in TicketIds, tickets[i] # None
  PROVE  /\ tickets[i] \in Ticket /\ tickets[i].nudgeCount \in Nat
         /\ tickets[i].state \in {"Called", "Overdue"} => tickets[i].calledAt \in Nat
         /\ tickets[i].state = "Called" => tickets[i].nudgeCount = 0
         /\ tickets[i].state = "Overdue" =>
              /\ tickets[i].nudgeCount <= MaxNudges
              /\ tickets[i].nudgeCount > 0 => tickets[i].lastNudgedAt \in Nat
              /\ tickets[i].nudgeCount = 0 => tickets[i].lastNudgedAt = None
<1>1. tickets[i] \in Ticket /\ RowFine(tickets[i], now)
  BY Split DEF RowsFine, RowFine, Sound
<1> QED
  BY <1>1 DEF RowFine, Sound, VariantShape, Ticket, Instant

-----------------------------------------------------------------------------
(* Requests.                                                               *)

\* A benign change of a row needs no earlier alarm than the fallback.
LEMMA BenignInTime ==
  ASSUME IInv, NEW i \in TicketIds, NEW new \in Ticket,
         Benign(tickets[i], new)
  PROVE  /\ \A alarm \in Nat :
              alarm <= now + FallbackReArm /\ (Active(i) => Awaited(tickets[i], alarm))
                => Awaited(new, alarm)
         /\ (Active(i) => Swept(tickets[i], now, Selected(i)))
              => Swept(new, now, Selected(i))
<1>0. now \in Nat
  BY DEF IInv, TypeOK, Instant
<1>1. new.state \in TicketState
  BY DEF Ticket
<1>2. CASE new.state \in {"Waiting"} \cup TERMINAL_TICKET_STATES
  BY <1>2 DEF Awaited, Swept, TERMINAL_TICKET_STATES
<1>3. CASE new.state = "Called" /\ new.calledAt = now /\ new.nudgeCount = 0
  <2>1. NextBy(new) = now + PromotionTakes
    BY <1>0, <1>3, IntervalFacts, SweepsTakeStep DEF NextBy
  <2> QED
    BY <1>0, <1>3, <2>1, IntervalFacts DEF Awaited, Swept
<1>4. CASE /\ new.state \in {"Called", "Overdue"} /\ tickets[i] # None
           /\ new = [tickets[i] EXCEPT !.appointmentAt = new.appointmentAt]
  <2>1. tickets[i] \in Ticket
    BY <1>4 DEF IInv, TypeOK
  <2>2. /\ new.state = tickets[i].state
        /\ new.calledAt = tickets[i].calledAt
        /\ new.lastNudgedAt = tickets[i].lastNudgedAt
        /\ new.nudgeCount = tickets[i].nudgeCount
    BY <1>4, <2>1 DEF Ticket
  <2>3. Active(i)
    BY <1>4, <2>2 DEF Active, InSt
  <2> QED
    BY <2>2, <2>3 DEF Awaited, Swept, NextBy
<1>5. CASE new.state \in {"Called", "Overdue"} /\ new = tickets[i]
  <2>1. Active(i)
    BY <1>5, NoTicketAssumption DEF Active, InSt
  <2> QED
    BY <1>5, <2>1
<1>6. new # tickets[i] /\ new.state = "Called" => new.nudgeCount = 0
  BY DEF Benign, Sound, VariantShape
<1> QED
  BY <1>1, <1>2, <1>3, <1>4, <1>5, <1>6 DEF Benign, TicketState

\* Requests keep the bounds, between sweeps and in one.
LEMMA RequestInTime ==
  ASSUME IInv, ActiveKeepsAlarm, Punctual, StaffAction \/ CustomerAction
  PROVE  Punctual'
<1>0. now \in Nat /\ alarmAt \in Nat \cup {None} /\ None \notin Nat /\ ensureAlarmArmed \in Nat
  BY NoneAssumption, QueueShopAssumption DEF IInv, TypeOK, Instant, ensureAlarmArmed
<1>1. CASE BenignRequest
  <2>1. PICK new \in Rows :
          /\ tickets' = new
          /\ \/ alarmAt' = ensureAlarmArmed
             \/ alarmAt' = alarmAt /\ \A i \in TicketIds : Active(i)' => Active(i)
          /\ UNCHANGED << now, sweepVars >>
          /\ \A i \in TicketIds : Benign(tickets[i], new[i])
    BY <1>1 DEF BenignRequest
  <2>2. now' = now /\ sweepAt' = sweepAt /\ \A i \in TicketIds : Selected(i)' = Selected(i)
    BY <2>1 DEF sweepVars, Selected
  <2>3. ASSUME NEW i \in TicketIds, new[i] # None
        PROVE  new[i] \in Ticket /\ Benign(tickets[i], new[i])
    BY <2>1, <2>3 DEF Rows
  <2>4. CASE sweepAt # None
    <3>1. \A i \in TicketIds : Active(i) => Swept(tickets[i], now, Selected(i))
      BY <2>4 DEF Punctual, SweepInTime, Active, InSt
    <3>2. \A i \in TicketIds : new[i] # None => Swept(new[i], now, Selected(i))
      BY <2>3, <3>1, BenignInTime
    <3> QED
      BY <2>1, <2>2, <2>4, <3>2 DEF Punctual, SweepInTime
  <2>5. CASE sweepAt = None /\ alarmAt' # None
    <3>1. alarmAt' \in Nat
      BY <1>0, <2>1, <2>5
    <3>2. /\ now <= alarmAt' /\ alarmAt' <= now + FallbackReArm
          /\ \A i \in TicketIds : Active(i) => Awaited(tickets[i], alarmAt')
      <4>1. CASE alarmAt = None
        <5>1. alarmAt' = now + FallbackReArm
          BY <2>1, <2>5, <4>1 DEF ensureAlarmArmed
        <5>2. \A i \in TicketIds : ~Active(i)
          BY <2>5, <4>1 DEF ActiveKeepsAlarm
        <5> QED
          BY <1>0, <5>1, <5>2, IntervalFacts
      <4>2. CASE alarmAt # None
        <5>1. alarmAt' = alarmAt
          BY <2>1, <4>2 DEF ensureAlarmArmed
        <5> QED
          BY <2>5, <4>2, <5>1 DEF Punctual, AlarmInTime, Active, InSt
      <4> QED
        BY <4>1, <4>2
    <3>3. \A i \in TicketIds : new[i] # None => Awaited(new[i], alarmAt')
      BY <2>3, <3>1, <3>2, BenignInTime
    <3> QED
      BY <2>1, <2>2, <2>5, <3>2, <3>3 DEF Punctual, AlarmInTime
  <2> QED
    BY <2>2, <2>4, <2>5 DEF Punctual
<1>2. CASE SubscriptionChange
  BY <1>2 DEF SubscriptionChange, Punctual, AlarmInTime, SweepInTime, Selected, sweepVars
<1> QED
  BY <1>1, <1>2, RequestBenign DEF IInv

-----------------------------------------------------------------------------
(* The steps of a sweep, and the clock.                                    *)

\* A sweep that comes when it is due promotes what is past its delay and
\* selects what is past its interval.
LEMMA BeginInTime ==
  ASSUME MaxNudges > 0, IInv, Punctual, AlarmBegin
  PROVE  Punctual'
<1> DEFINE due == OverdueDue(now)
           new == [i \in TicketIds |-> IF i \in due
                     THEN applyMoveToOverdue(tickets[i], now).ticket
                     ELSE tickets[i]]
<1>1. /\ tickets' = new /\ now' = now /\ sweepAt' = now
      /\ sweepAt = None /\ alarmAt # None /\ alarmAt <= now
      /\ toNudge' = {[id |-> i, prior |-> new[i].nudgeCount] : i \in NudgeDue(new, now)}
  BY DEF AlarmBegin
<1>2. now \in Nat /\ alarmAt \in Nat /\ None \notin Nat
  BY <1>1, NoneAssumption DEF IInv, TypeOK, Instant
<1>3. alarmAt = now /\ \A i \in TicketIds : tickets[i] # None => Awaited(tickets[i], now)
  BY <1>1, <1>2 DEF Punctual, AlarmInTime
<1>4. ASSUME NEW i \in NudgeDue(new, now)
      PROVE  Selected(i)'
  <2> DEFINE c == [id |-> i, prior |-> new[i].nudgeCount]
  <2> HIDE DEF new
  <2>1. c \in toNudge'
    BY <1>1
  <2>2. c.id = i
    OBVIOUS
  <2> HIDE DEF c
  <2> QED
    BY <2>1, <2>2 DEF Selected
<1>5. ASSUME NEW i \in TicketIds, new[i] # None
      PROVE  Swept(new[i], now, Selected(i)')
  <2>1. CASE i \in due
    <3>1. tickets[i] # None /\ tickets[i].state = "Called"
      BY <2>1 DEF OverdueDue, InState, Held
    <3>2. /\ tickets[i] \in Ticket /\ tickets[i].nudgeCount = 0
          /\ now <= NextBy(tickets[i])
      BY <1>3, <3>1, RowParts DEF Awaited
    <3>3. /\ new[i].state = "Overdue" /\ new[i].calledAt = tickets[i].calledAt
          /\ new[i].nudgeCount = 0 /\ new[i].lastNudgedAt = None
      BY <1>2, <2>1, <3>2, MovedParts DEF Instant
    <3>4. i \in NudgeDue(new, now)
      BY <1>5, <3>3, IntervalFacts DEF NudgeDue, InState, Held
    <3>5. now <= NextBy(new[i])
      BY <3>2, <3>3 DEF NextBy
    <3> QED
      BY <1>4, <3>3, <3>4, <3>5 DEF Swept
  <2>2. CASE i \notin due
    <3> DEFINE t == tickets[i]
    <3>1. new[i] = t /\ t # None /\ Awaited(t, now)
      BY <1>3, <1>5, <2>2
    <3>2. CASE t.state = "Called"
      <4>1. t.calledAt \in Nat
        BY <3>1, <3>2, RowParts
      <4>2. ~(t.calledAt + OverdueAfterCalled < now)
        BY <2>2, <3>1, <3>2 DEF OverdueDue, InState, Held, IInv, TypeOK
      <4> QED
        BY <1>2, <3>1, <3>2, <4>1, <4>2, IntervalFacts DEF Swept
    <3>3. CASE t.state = "Overdue"
      <4>1. /\ t.nudgeCount > 0 /\ t.lastNudgedAt \in Nat /\ t.nudgeCount \in Nat
            /\ t.calledAt \in Nat
        BY <3>1, <3>3, RowParts DEF Awaited
      <4>2. /\ now <= t.lastNudgedAt + NudgeInterval + ReArm
            /\ t.lastNudgedAt + NudgeInterval + ReArm <= NextBy(t)
        BY <3>1, <3>3 DEF Awaited
      <4>3. NextBy(t) \in Nat
        BY <4>1, IntervalFacts, SweepsTakeStep DEF NextBy
      <4>4. now <= NextBy(t)
        BY <1>2, <4>1, <4>2, <4>3, IntervalFacts
      <4>5. \/ i \in NudgeDue(new, now)
            \/ now <= t.lastNudgedAt + NudgeInterval \/ t.nudgeCount >= MaxNudges
        BY <1>2, <1>5, <3>1, <3>3, <4>1, IntervalFacts DEF NudgeDue, InState, Held
      <4> QED
        BY <1>4, <3>1, <3>3, <4>1, <4>2, <4>4, <4>5 DEF Swept
    <3>4. CASE t.state \notin {"Called", "Overdue"}
      BY <3>1, <3>4 DEF Swept
    <3> QED
      BY <3>2, <3>3, <3>4
  <2> QED
    BY <2>1, <2>2
<1> HIDE DEF new
<1> QED
  BY <1>1, <1>2, <1>5 DEF Punctual, SweepInTime

\* A nudge counts one more step, made now.
LEMMA NudgeInTime ==
  ASSUME IInv, Punctual, sweepAt # None, NEW i \in TicketIds, Nudge(i),
         sweepAt' = sweepAt,
         \A j \in TicketIds \ {i} : Selected(j)' = Selected(j)
  PROVE  Punctual'
<1>1. /\ sweepAt = now /\ now' = now /\ now \in Nat
      /\ \A j \in TicketIds : tickets[j] # None => Swept(tickets[j], now, Selected(j))
  BY DEF Punctual, SweepInTime, Nudge, dispatch, IInv, TypeOK, Instant
<1>2. \A j \in TicketIds \ {i} : tickets'[j] = tickets[j]
  BY DEF Nudge, dispatch, IInv, TypeOK
<1>3. ASSUME tickets'[i] # None
      PROVE  Swept(tickets'[i], now, Selected(i)')
  <2> DEFINE t == tickets[i]
             row == tickets'[i]
  <2>1. CASE InSt(i, {"Overdue"})
    <3>1. t # None /\ t.state = "Overdue"
      BY <2>1 DEF InSt
    <3>2. t \in Ticket /\ t.nudgeCount \in Nat /\ t.calledAt \in Nat
      BY <3>1, RowParts
    <3>3. now <= NextBy(t)
      BY <1>1, <3>1 DEF Swept
    <3>4. row = applyNudge(t, now).ticket
      BY <2>1 DEF Nudge, dispatch, IInv, TypeOK
    <3>5. /\ row.state = "Overdue" /\ row.calledAt = t.calledAt
          /\ row.lastNudgedAt = now /\ row.nudgeCount = t.nudgeCount + 1
      BY <1>1, <3>2, <3>4, NudgedParts DEF Instant
    <3> HIDE DEF t, row
    <3>6. NextBy(row) = NextBy(t) + NudgeInterval + ReArm /\ NextBy(t) \in Nat
      <4>1. /\ SweepsTake(t.nudgeCount) \in Nat
            /\ SweepsTake(row.nudgeCount)
                 = SweepsTake(t.nudgeCount) + NudgeInterval + ReArm
        BY <3>2, <3>5, SweepsTakeStep
      <4> QED
        BY <3>2, <3>5, <4>1, IntervalFacts DEF NextBy
    <3>7. /\ now <= NextBy(row) /\ row.lastNudgedAt + NudgeInterval + ReArm <= NextBy(row)
          /\ now <= row.lastNudgedAt + NudgeInterval /\ row.nudgeCount > 0
      BY <1>1, <3>2, <3>3, <3>5, <3>6, IntervalFacts
    <3> QED
      BY <3>5, <3>7 DEF Swept, row
  <2>2. CASE ~InSt(i, {"Overdue"})
    <3>1. row = t
      BY <2>2 DEF Nudge
    <3> QED
      BY <1>1, <1>3, <2>2, <3>1 DEF Swept, InSt
  <2> QED
    BY <2>1, <2>2
<1> QED
  BY <1>1, <1>2, <1>3 DEF Punctual, SweepInTime

\* Handing a candidate to the push service, or an answer of it, changes no
\* row and no selection.
LEMMA PushInTime ==
  ASSUME IInv, Punctual,
         \/ \E c \in toNudge : fanOutPush(c)
         \/ \E e \in Endpoints, outcome \in {"delivered", "subscriptionGone", "failed"} :
              PushAnswer(e, outcome)
  PROVE  Punctual'
<1>1. UNCHANGED << now, tickets, alarmAt, sweepAt >>
  BY DEF fanOutPush, PushAnswer
<1>2. ASSUME NEW i \in TicketIds PROVE Selected(i)' = Selected(i)
  <2>1. ASSUME NEW c \in toNudge, fanOutPush(c) PROVE Selected(i)' = Selected(i)
    <3>1. /\ fan = None /\ toNudge' = toNudge \ {c}
          /\ fan' = [id |-> c.id, next |-> c.prior + 1,
                     pending |-> subs[c.id], delivered |-> FALSE]
      BY <2>1 DEF fanOutPush
    <3>2. c.id \in TicketIds /\ c.prior \in Nat
      BY <2>1 DEF IInv, TypeOK, Candidate
    <3>3. fan' \in FanOut /\ fan'.id = c.id
      BY <3>1, <3>2 DEF FanOut, IInv, TypeOK
    <3>4. fan' # None
      BY <3>3, NoFanOutAssumption
    <3> QED
      BY <2>1, <3>1, <3>3, <3>4 DEF Selected
  <2>2. ASSUME NEW e, NEW outcome, PushAnswer(e, outcome)
        PROVE  Selected(i)' = Selected(i)
    <3>1. /\ fan # None /\ fan \in FanOut /\ toNudge' = toNudge
          /\ fan' = [fan EXCEPT !.pending = @ \ {e},
                                !.delivered = @ \/ outcome = "delivered"]
      BY <2>2 DEF PushAnswer, IInv, TypeOK
    <3>2. fan' \in FanOut /\ fan'.id = fan.id
      <4> DEFINE d == fan.delivered \/ outcome = "delivered"
                 rest == fan.pending \ {e}
      <4>1. d \in BOOLEAN /\ rest \in SUBSET Endpoints
        BY <3>1 DEF FanOut
      <4>2. fan' = [fan EXCEPT !.pending = rest, !.delivered = d]
        BY <3>1
      <4> HIDE DEF d, rest
      <4> QED
        BY <3>1, <4>1, <4>2 DEF FanOut
    <3>3. fan' # None
      BY <3>2, NoFanOutAssumption
    <3> QED
      BY <3>1, <3>2, <3>3 DEF Selected
  <2> QED
    BY <2>1, <2>2
<1> QED
  BY <1>1, <1>2 DEF Punctual, AlarmInTime, SweepInTime

\* At the end of a sweep nobody is past an interval, so that the next sweep,
\* one re-arming later, is soon enough for everybody.
LEMMA EndInTime ==
  ASSUME IInv, Punctual, AlarmEnd
  PROVE  Punctual'
<1> DEFINE noShow == NoShowDue(sweepAt)
           lapsed == LapseDue(sweepAt)
           new == [i \in TicketIds |->
                     IF i \in noShow
                     THEN applyMarkNoShow(tickets[i], now, "system").ticket
                     ELSE IF i \in lapsed
                     THEN applyLapseAppointment(tickets[i], now).ticket
                     ELSE tickets[i]]
<1>1. /\ sweepAt # None /\ toNudge = {} /\ fan = None
      /\ sweepAt' = None /\ now' = now /\ tickets' = new /\ alarmAt' = now + ReArm
  BY DEF AlarmEnd
<1>2. /\ sweepAt = now /\ now \in Nat /\ None \notin Nat
      /\ \A i \in TicketIds : tickets[i] # None => Swept(tickets[i], now, FALSE)
  <2>1. \A i \in TicketIds : Selected(i) = FALSE
    BY <1>1 DEF Selected
  <2>2. /\ sweepAt = now
        /\ \A i \in TicketIds : tickets[i] # None => Swept(tickets[i], now, Selected(i))
    BY <1>1 DEF Punctual, SweepInTime
  <2>3. \A i \in TicketIds : tickets[i] # None => Swept(tickets[i], now, FALSE)
    BY <2>1, <2>2
  <2>4. now \in Nat /\ None \notin Nat
    BY NoneAssumption DEF IInv, TypeOK, Instant
  <2> QED
    BY <2>2, <2>3, <2>4
<1>3. ASSUME NEW i \in TicketIds, new[i] # None
      PROVE  Awaited(new[i], now + ReArm)
  <2>1. CASE i \in noShow \/ i \in lapsed
    <3>1. tickets[i] \in Ticket
      BY <2>1 DEF NoShowDue, LapseDue, InState, Held, IInv, TypeOK
    <3>2. new[i].state \in {"NoShow", "Cancelled"}
      BY <2>1, <3>1 DEF applyMarkNoShow, applyLapseAppointment, ApplyResult, common, Ticket
    <3> QED
      BY <3>2 DEF Awaited
  <2>2. CASE i \notin noShow /\ i \notin lapsed
    <3> DEFINE t == tickets[i]
    <3>1. new[i] = t /\ t # None /\ Swept(t, now, FALSE)
      BY <1>2, <1>3, <2>2
    <3>2. CASE t.state = "Called"
      <4>1. t.calledAt \in Nat /\ t.nudgeCount = 0 /\ now <= t.calledAt + OverdueAfterCalled
        BY <3>1, <3>2, RowParts DEF Swept
      <4>2. NextBy(t) = t.calledAt + PromotionTakes
        BY <4>1, IntervalFacts, SweepsTakeStep DEF NextBy
      <4>3. now + ReArm <= NextBy(t)
        BY <1>2, <4>1, <4>2, IntervalFacts
      <4> QED
        BY <3>1, <3>2, <4>3 DEF Awaited
    <3>3. CASE t.state = "Overdue"
      <4>1. /\ t.nudgeCount > 0 /\ t.nudgeCount \in Nat /\ t.lastNudgedAt \in Nat
            /\ t.lastNudgedAt + NudgeInterval + ReArm <= NextBy(t)
            /\ now <= t.lastNudgedAt + NudgeInterval \/ t.nudgeCount >= MaxNudges
        BY <3>1, <3>3, RowParts DEF Swept
      <4>2. t.nudgeCount >= MaxNudges => ~(t.lastNudgedAt + NudgeInterval < now)
        BY <1>2, <2>2, <3>1, <3>3, <4>1 DEF NoShowDue, InState, Held, IInv, TypeOK
      <4>3. now + ReArm <= t.lastNudgedAt + NudgeInterval + ReArm
        BY <1>2, <4>1, <4>2, IntervalFacts
      <4> QED
        BY <3>1, <3>3, <4>1, <4>3 DEF Awaited
    <3>4. CASE t.state \notin {"Called", "Overdue"}
      BY <3>1, <3>4 DEF Awaited
    <3> QED
      BY <3>2, <3>3, <3>4
  <2> QED
    BY <2>1, <2>2
<1> HIDE DEF new
<1>4. now <= now + ReArm /\ now + ReArm <= now + FallbackReArm
  BY <1>2, IntervalFacts
<1> QED
  BY <1>1, <1>3, <1>4 DEF Punctual, AlarmInTime

\* Every step of the punctual platform keeps the bounds.
LEMMA TimelyKeeps ==
  ASSUME MaxNudges > 0, IInv, ActiveKeepsAlarm, Punctual, [TimelyNext]_vars
  PROVE  Punctual'
<1>1. CASE StaffAction \/ CustomerAction
  BY <1>1, RequestInTime
<1>2. ASSUME NEW c \in toNudge, NudgeByWebSocket(c) PROVE Punctual'
  <2>1. c.id \in TicketIds /\ sweepAt # None
    BY <1>2 DEF IInv, TypeOK, Candidate, SweepLocals
  <2>2. \A j \in TicketIds \ {c.id} : Selected(j)' = Selected(j)
    BY <1>2 DEF NudgeByWebSocket, Selected
  <2> QED
    BY <1>2, <2>1, <2>2, NudgeInTime DEF NudgeByWebSocket
<1>3. CASE NudgeAfterFanOut
  <2>1. fan.id \in TicketIds /\ sweepAt # None
    BY <1>3 DEF NudgeAfterFanOut, IInv, TypeOK, FanOut, SweepLocals
  <2>2. \A j \in TicketIds \ {fan.id} : Selected(j)' = Selected(j)
    BY <1>3 DEF NudgeAfterFanOut, Selected
  <2> QED
    BY <1>3, <2>1, <2>2, NudgeInTime DEF NudgeAfterFanOut
<1>4. CASE TimelyTick
  <2>1. /\ now \in Nat /\ alarmAt \in Nat \cup {None}
    BY DEF IInv, TypeOK, Instant
  <2>2. /\ sweepAt = None /\ (alarmAt # None => alarmAt > now)
        /\ now' = now + 1 /\ UNCHANGED << tickets, alarmAt, sweepAt >>
    BY <1>4 DEF TimelyTick, Tick, sweepVars
  <2>3. alarmAt # None => now + 1 <= alarmAt /\ alarmAt <= now + 1 + FallbackReArm
    BY <2>1, <2>2, IntervalFacts DEF Punctual, AlarmInTime
  <2> QED
    BY <2>2, <2>3 DEF Punctual, AlarmInTime
<1>5. CASE UNCHANGED vars
  BY <1>5 DEF vars, sweepVars, Punctual, AlarmInTime, SweepInTime, Selected
<1> QED
  BY <1>1, <1>2, <1>3, <1>4, <1>5, BeginInTime, PushInTime, EndInTime
     DEF TimelyNext, SweepAction

\* The bound of the property, with the re-arming the code chooses.
LEMMA NextByBounded ==
  ASSUME NEW t, t.calledAt \in Nat, t.nudgeCount \in Nat, t.nudgeCount <= MaxNudges,
         NEW r \in Intervals
  PROVE  NextBy(t) \in Nat /\ NextBy(t) <= t.calledAt + ResponseBound(r)
<1> DEFINE c == t.nudgeCount
           m == MaxNudges
           k == NudgeInterval + ReArm
           l == NudgeInterval + r
<1>1. c \in Nat /\ m \in Nat /\ k \in Nat /\ l \in Nat /\ c <= m /\ k <= l
  BY IntervalFacts
<1>2. PromotionTakes \in Nat /\ Longer(FallbackReArm, OverdueAfterCalled + r) \in Nat
      /\ PromotionTakes <= Longer(FallbackReArm, OverdueAfterCalled + r)
  BY IntervalFacts DEF PromotionTakes, Longer
<1>3. /\ NextBy(t) = t.calledAt + PromotionTakes + c * k
      /\ ResponseBound(r) = Longer(FallbackReArm, OverdueAfterCalled + r) + m * l
  BY DEF NextBy, SweepsTake, ResponseBound
<1> HIDE DEF c, m, k, l
<1>4. c * k \in Nat /\ m * l \in Nat /\ c * k <= c * l /\ c * l <= m * l /\ c * l \in Nat
  BY <1>1
<1>5. c * k <= m * l
  BY <1>4
<1> QED
  BY <1>2, <1>3, <1>4, <1>5

\* On a platform that delivers alarms when they are due, a called ticket
\* nobody touches is closed in time, whatever requests land between the sweeps
\* or while one waits for the push service, if it may be nudged at all.
THEOREM ResolvedOnSchedule == MaxNudges > 0 => (TimelySpec => []ResolvedInTime)
<1> SUFFICES ASSUME MaxNudges > 0 PROVE TimelySpec => []ResolvedInTime
  OBVIOUS
<1>1. Init => Punctual
  BY DEF Init, Punctual
<1>2. IInv /\ ActiveKeepsAlarm /\ Punctual /\ [TimelyNext]_vars => Punctual'
  BY TimelyKeeps
<1>3. [TimelyNext]_vars => [Next]_vars
  BY DEF TimelyNext, TimelyTick, Next
<1>4. TimelySpec => Spec
  BY <1>3, PTL DEF TimelySpec, Spec
<1>5. IInv /\ ActiveKeepsAlarm /\ Punctual => ResolvedInTime
  <2> SUFFICES ASSUME IInv, ActiveKeepsAlarm, Punctual,
                      NEW i \in TicketIds, InSt(i, {"Called", "Overdue"}),
                      NEW r \in Intervals
               PROVE  now <= tickets[i].calledAt + ResponseBound(r)
    BY DEF ResolvedInTime
  <2> DEFINE t == tickets[i]
  <2>1. t # None /\ t.state \in {"Called", "Overdue"}
    BY DEF InSt
  <2>2. /\ t.calledAt \in Nat /\ t.nudgeCount \in Nat /\ t.nudgeCount <= MaxNudges
        /\ (t.state = "Overdue" /\ t.nudgeCount > 0 => t.lastNudgedAt \in Nat)
        /\ (t.state = "Called" => t.nudgeCount = 0)
    BY <2>1, RowParts, IntervalFacts
  <2>3. NextBy(t) \in Nat /\ NextBy(t) <= t.calledAt + ResponseBound(r)
    BY <2>2, NextByBounded
  <2>4. now <= NextBy(t)
    <3>1. now \in Nat /\ alarmAt \in Nat \cup {None}
      BY DEF IInv, TypeOK, Instant
    <3>2. CASE sweepAt = None
      <4>1. alarmAt # None
        BY <2>1, <3>2 DEF ActiveKeepsAlarm, Active, InSt
      <4>2. now <= alarmAt /\ Awaited(t, alarmAt)
        BY <2>1, <3>2, <4>1 DEF Punctual, AlarmInTime
      <4> QED
        BY <2>1, <2>2, <2>3, <3>1, <4>1, <4>2, IntervalFacts DEF Awaited
    <3>3. CASE sweepAt # None
      <4>1. Swept(t, now, Selected(i))
        BY <2>1, <3>3 DEF Punctual, SweepInTime
      <4>2. CASE t.state = "Called"
        <5>1. NextBy(t) = t.calledAt + PromotionTakes
          BY <2>2, <4>2, IntervalFacts, SweepsTakeStep DEF NextBy
        <5> QED
          BY <2>2, <3>1, <4>1, <4>2, <5>1, IntervalFacts DEF Swept
      <4>3. CASE t.state = "Overdue"
        BY <4>1, <4>3 DEF Swept
      <4> QED
        BY <2>1, <4>2, <4>3
    <3> QED
      BY <3>2, <3>3
  <2>5. ResponseBound(r) \in Int
    <3>1. r \in Nat /\ MaxNudges * (NudgeInterval + r) \in Nat
      BY IntervalFacts
    <3> QED
      BY <3>1, IntervalFacts DEF ResponseBound, Longer
  <2>6. now \in Nat
    BY DEF IInv, TypeOK, Instant
  <2> HIDE DEF t
  <2>7. now <= t.calledAt + ResponseBound(r)
    BY <2>2, <2>3, <2>4, <2>5, <2>6
  <2> QED
    BY <2>7 DEF t
<1> QED
  BY <1>1, <1>2, <1>4, <1>5, Invariant, ActiveTicketKeepsAlarm, PTL DEF TimelySpec

\* The sweep changes no overdue ticket.
SweepLeavesOverdue ==
  [][SweepAction => \A i \in TicketIds :
       InSt(i, {"Overdue"}) => tickets'[i] = tickets[i]]_vars

\* With MAX_NUDGES = 0, which the environment variable admits, Tick 2 selects
\* nobody and Tick 3 waits for a last nudge that never came: only people end
\* such a call. The positive cap of ResolvedOnSchedule is needed.
THEOREM NobodyClosesAtCapZero == MaxNudges = 0 => (Spec => SweepLeavesOverdue)
<1> SUFFICES ASSUME MaxNudges = 0 PROVE Spec => SweepLeavesOverdue
  OBVIOUS
<1>1. ASSUME IInv, SweepAction, NEW i \in TicketIds, InSt(i, {"Overdue"})
      PROVE  tickets'[i] = tickets[i]
  <2>1. /\ tickets[i] # None /\ tickets[i].state = "Overdue"
        /\ tickets[i].nudgeCount = 0 /\ tickets[i].lastNudgedAt = None
    BY <1>1, RowParts, QueueShopAssumption DEF InSt
  <2>2. \A n \in Int : StillDue(i, n) => n = 0 /\ n < MaxNudges
    BY <1>1, <2>1 DEF StillDue
  <2>3. CASE AlarmBegin
    BY <2>1, <2>3 DEF AlarmBegin, OverdueDue, InState, Held
  <2>4. ASSUME NEW c \in toNudge, NudgeByWebSocket(c)
        PROVE  tickets'[i] = tickets[i]
    <3>1. c.prior \in Nat /\ StillDue(c.id, c.prior)
      BY <1>1, <2>4 DEF IInv, TypeOK, Candidate, SelectionFresh
    <3>2. c.id # i
      BY <2>2, <3>1
    <3> QED
      BY <1>1, <2>4, <3>2 DEF NudgeByWebSocket, Nudge, dispatch, IInv, TypeOK
  <2>5. CASE NudgeAfterFanOut
    <3>1. fan # None /\ fan.next \in Nat /\ StillDue(fan.id, fan.next - 1)
      BY <1>1, <2>5 DEF NudgeAfterFanOut, IInv, TypeOK, FanOut, SelectionFresh
    <3>2. fan.id # i
      BY <2>2, <3>1
    <3> QED
      BY <1>1, <2>5, <3>2 DEF NudgeAfterFanOut, Nudge, dispatch, IInv, TypeOK
  <2>6. CASE AlarmEnd
    <3>1. i \notin NoShowDue(sweepAt) /\ i \notin LapseDue(sweepAt)
      BY <2>1 DEF NoShowDue, LapseDue, InState, Held
    <3> QED
      BY <2>6, <3>1 DEF AlarmEnd
  <2>7. ASSUME NEW c \in toNudge, fanOutPush(c)
        PROVE  tickets'[i] = tickets[i]
    BY <2>7 DEF fanOutPush
  <2>8. ASSUME NEW e \in Endpoints,
               NEW outcome \in {"delivered", "subscriptionGone", "failed"},
               PushAnswer(e, outcome)
        PROVE  tickets'[i] = tickets[i]
    BY <2>8 DEF PushAnswer
  <2> QED
    BY <1>1, <2>3, <2>4, <2>5, <2>6, <2>7, <2>8 DEF SweepAction
<1>2. IInv => (SweepAction => \A i \in TicketIds :
                 InSt(i, {"Overdue"}) => tickets'[i] = tickets[i])
  BY <1>1
<1> QED
  BY <1>2, Invariant, PTL DEF Spec, SweepLeavesOverdue

=============================================================================
