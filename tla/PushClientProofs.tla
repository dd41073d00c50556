-------------------------- MODULE PushClientProofs --------------------------
(***************************************************************************)
(* Proofs about the push subscription of a customer's device, for any      *)
(* number of flows, endpoints and tickets.                                 *)
(*                                                                         *)
(* But for endpoints that went astray, the rows the shop keeps all name    *)
(* one endpoint: the one localStorage remembers, or the one of the flow    *)
(* that has just registered and is about to remember it.  A flow that has  *)
(* an endpoint in hand is alone, or that endpoint has gone astray.         *)
(***************************************************************************)
EXTENDS PushClient, TLAPS

\* The strengthening of PushTypeOK: tickets were issued, and a flow that calls
\* the shop has an endpoint in hand.
HolderIssued ==
  /\ shown # Null => shown <= held
  /\ \A f \in Flows : flow[f] # Null =>
       /\ flow[f].ticket <= held
       /\ flow[f].at \in {"unregister", "register", "registered"}
            => flow[f].endpoint # Null

Calling == {"unregister", "register", "registered"}

\* Every row names one of these endpoints, or one that went astray.
RowsAmong(endpoints) == \A r \in rows : r[2] \in endpoints \/ Astray(r[2])

\* The strengthening of DeadRowsAreRemembered.  A flow for a ticket that is no
\* longer active may not have dropped what it should, and registers nothing.
Tidy ==
  /\ \A r \in rows :
       \/ r[2] = device.last \/ Astray(r[2])
       \/ \E f \in Flows : Sub(f, "registered") /\ flow[f].endpoint = r[2]
  /\ \A f, g \in Flows :
       flow[f] # Null /\ flow[f].at \in Calling /\ flow[g] # Null
         => g = f \/ Astray(flow[f].endpoint)
  /\ \A f \in Flows :
       /\ Sub(f, "unregister") => RowsAmong({flow[f].stale, flow[f].endpoint})
       /\ Sub(f, "register") /\ flow[f].ticket = holder => RowsAmong({flow[f].endpoint})
       /\ Sub(f, "registered") => RowsAmong({flow[f].endpoint})

PushTyped == PushTypeOK /\ HolderIssued

-----------------------------------------------------------------------------
(* Types.                                                                  *)

\* What befalls an endpoint is kept for good.
LEMMA Befallen ==
  ASSUME mishaps \subseteq Mishap, NEW what \in {"lost", "overlap", "failed", "untold"},
         NEW es, es \subseteq PushEndpoint \cup {Null}, Befalls(what, es)
  PROVE  mishaps' \subseteq Mishap /\ mishaps \subseteq mishaps'
BY DEF Befalls, Mishap

LEMMA InHandTyped ==
  ASSUME flow \in [Flows -> Flow \cup {Null}]
  PROVE  InHand \subseteq PushEndpoint \cup {Null}
BY DEF InHand, Busy, Flow

\* A flow that goes on, with an endpoint once it has one.
LEMMA FlowType ==
  ASSUME NEW w \in Flow, NEW at \in Await, NEW e \in PushEndpoint \cup {Null},
         NEW s \in PushEndpoint \cup {Null}
  PROVE  /\ [w EXCEPT !.at = at] \in Flow
         /\ [w EXCEPT !.aborted = TRUE] \in Flow
         /\ [w EXCEPT !.endpoint = e, !.stale = s, !.at = at] \in Flow
BY Zenon DEF Flow

LEMMA PushTypedInit == PushInit => PushTyped
<1> SUFFICES ASSUME PushInit PROVE PushTyped
  OBVIOUS
<1>1. 0 \in 0..MaxHeld /\ 0 \in 0..MaxEndpoints
  BY PushAssumption
<1>2. device \in Device
  BY <1>1 DEF PushInit, Device
<1> QED
  BY <1>1, <1>2 DEF PushInit, PushTyped, PushTypeOK, HolderIssued

\* subscribeToPush is called for a ticket that was issued.
LEMMA StartTyped ==
  ASSUME PushTyped, NEW f \in Flows, NEW t \in HeldTicket, t <= held, Start(f, t)
  PROVE  /\ flow' \in [Flows -> Flow \cup {Null}]
         /\ mishaps' \subseteq Mishap
         /\ \A g \in Flows : flow'[g] # Null =>
              /\ flow'[g].ticket <= held
              /\ flow'[g].at \in {"unregister", "register", "registered"}
                   => flow'[g].endpoint # Null
<1> DEFINE w == [at |-> IF device.permission = "default" THEN "permission" ELSE "worker",
                 ticket |-> t, aborted |-> FALSE, endpoint |-> Null, stale |-> Null]
<1>1. w \in Flow /\ w.ticket = t /\ w.at \in {"permission", "worker"}
  BY DEF Flow, Await
<1>2. flow' = [flow EXCEPT ![f] = Null] \/ flow' = [flow EXCEPT ![f] = w]
  BY DEF Start
<1> HIDE DEF w
<1>3. mishaps' \subseteq Mishap
  BY Befallen, InHandTyped DEF Start, PushTyped, PushTypeOK
<1>4. flow \in [Flows -> Flow \cup {Null}]
  BY DEF PushTyped, PushTypeOK
<1> QED
  BY <1>1, <1>2, <1>3, <1>4 DEF PushTyped, HolderIssued

\* A flow that goes on as w, or ends.
LEMMA FlowTyped ==
  ASSUME PushTyped, NEW f \in Flows, flow[f] # Null, NEW w \in Flow,
         w.ticket = flow[f].ticket,
         w.at \in {"unregister", "register", "registered"} => w.endpoint # Null,
         flow' = [flow EXCEPT ![f] = w] \/ flow' = [flow EXCEPT ![f] = Null],
         UNCHANGED << held, shown >>
  PROVE  /\ flow' \in [Flows -> Flow \cup {Null}] /\ HolderIssued'
BY DEF PushTyped, PushTypeOK, HolderIssued


\* Two shapes of what a flow becomes.
LEMMA GoesTyped ==
  ASSUME PushTyped, NEW f \in Flows, flow[f] # Null, NEW at \in Await,
         at \in {"register", "registered"} => flow[f].endpoint # Null,
         at # "unregister",
         Goes(f, at) \/ Ends(f), UNCHANGED << held, shown >>
  PROVE  flow' \in [Flows -> Flow \cup {Null}] /\ HolderIssued'
<1> DEFINE w == [flow[f] EXCEPT !.at = at]
<1>1. flow[f] \in Flow
  BY DEF PushTyped, PushTypeOK
<1>2. w \in Flow
  BY <1>1, FlowType
<1>3. w.ticket = flow[f].ticket /\ w.at = at /\ w.endpoint = flow[f].endpoint
  BY <1>1 DEF Flow
<1>4. flow' = [flow EXCEPT ![f] = w] \/ flow' = [flow EXCEPT ![f] = Null]
  BY DEF Goes, Ends
<1> HIDE DEF w
<1> QED
  BY <1>2, <1>3, <1>4, FlowTyped

LEMMA HoldingTyped ==
  ASSUME PushTyped, NEW f \in Flows, flow[f] # Null, NEW e \in PushEndpoint,
         Holding(f, e), UNCHANGED << held, shown >>
  PROVE  flow' \in [Flows -> Flow \cup {Null}] /\ HolderIssued' /\ mishaps' \subseteq Mishap
<1> DEFINE s == IF device.last = e THEN Null ELSE device.last
           at == IF device.last \in {Null, e} THEN "register" ELSE "unregister"
           w == [flow[f] EXCEPT !.endpoint = e, !.stale = s, !.at = at]
<1>1. flow[f] \in Flow /\ device \in Device /\ e # Null
  BY PushAssumption DEF PushTyped, PushTypeOK, PushEndpoint
<1>2. s \in PushEndpoint \cup {Null} /\ at \in Await
  BY <1>1 DEF Device, Await
<1>3. flow' = [flow EXCEPT ![f] = w] \/ flow' = [flow EXCEPT ![f] = Null]
  BY DEF Holding, Ends
<1> HIDE DEF s, at
<1>4. w \in Flow
  BY <1>1, <1>2, FlowType
<1>5. w.ticket = flow[f].ticket /\ w.endpoint = e
  BY <1>1 DEF Flow
<1> HIDE DEF w
<1>6. mishaps' \subseteq Mishap
  BY Befallen DEF Holding, PushTyped, PushTypeOK
<1> QED
  BY <1>1, <1>3, <1>4, <1>5, <1>6, FlowTyped

\* The steps of a flow.
FlowStep(f) ==
  \/ \E answer \in {"granted", "denied", "default"} : requestPermission(f, answer)
  \/ Proceeds(f) \/ subscribeFails(f) \/ unregisterPush(f, FALSE)
  \/ \E reached \in BOOLEAN : registerLost(f, reached)

LEMMA FlowStepTyped ==
  ASSUME PushTyped, NEW f \in Flows, FlowStep(f)
  PROVE  /\ flow' \in [Flows -> Flow \cup {Null}] /\ HolderIssued'
         /\ device' \in Device /\ UNCHANGED << holder, held, shown >>
         /\ mishaps' \subseteq Mishap
<1> USE DEF Sub
<1>1. /\ device \in Device /\ mishaps \subseteq Mishap
      /\ flow \in [Flows -> Flow \cup {Null}]
      /\ device.subscription \in PushEndpoint \cup {Null}
      /\ device.minted \in 0..MaxEndpoints
  BY DEF PushTyped, PushTypeOK, Device
<1>2. ASSUME NEW answer \in {"granted", "denied", "default"}, requestPermission(f, answer)
      PROVE  /\ flow' \in [Flows -> Flow \cup {Null}] /\ HolderIssued'
             /\ device' \in Device /\ UNCHANGED << holder, held, shown, mishaps >>
  <2>1. Goes(f, "worker") \/ Ends(f)
    BY <1>2 DEF requestPermission
  <2>2. /\ device' = [device EXCEPT !.permission = answer] /\ flow[f] # Null
        /\ UNCHANGED << holder, held, shown, mishaps >>
    BY <1>2 DEF requestPermission
  <2>3. device' \in Device
    BY <1>1, <2>2, Zenon DEF Device
  <2> QED
    BY <2>1, <2>2, <2>3, GoesTyped DEF Await
<1>3. CASE workerReady(f)
  <2>1. /\ Goes(f, "getSubscription") \/ Ends(f)
        /\ flow[f] # Null /\ UNCHANGED << holder, held, device, shown, mishaps >>
    BY <1>3 DEF workerReady
  <2> QED
    BY <1>1, <2>1, GoesTyped DEF Await
<1>4. CASE getSubscription(f)
  <2>1. flow[f] # Null /\ UNCHANGED << holder, held, device, shown >>
    BY <1>4 DEF getSubscription
  <2>2. CASE device.subscription = Null
    <3>1. Goes(f, "subscribe") /\ UNCHANGED mishaps
      BY <1>4, <2>2 DEF getSubscription
    <3> QED
      BY <1>1, <2>1, <3>1, GoesTyped DEF Await
  <2>3. CASE device.subscription # Null
    BY <1>1, <1>4, <2>1, <2>3, HoldingTyped DEF getSubscription
  <2> QED
    BY <2>2, <2>3
<1>5. CASE subscribe(f)
  <2> DEFINE mint == IF device.subscription = Null THEN 1 ELSE 0
             e == IF mint = 1 THEN device.minted + 1 ELSE device.subscription
             m == device.minted + mint
  <2>1. /\ flow[f] # Null /\ UNCHANGED << holder, held, shown >>
        /\ device' = [device EXCEPT !.minted = m, !.subscription = e]
        /\ e <= MaxEndpoints /\ Holding(f, e)
    BY <1>5 DEF subscribe
  <2>2. e \in PushEndpoint /\ m \in 0..MaxEndpoints
    BY <1>1, <2>1, PushAssumption DEF PushEndpoint
  <2> HIDE DEF e, m, mint
  <2>3. device' \in Device
    BY <1>1, <2>1, <2>2, Zenon DEF Device
  <2> QED
    BY <1>1, <2>1, <2>2, <2>3, HoldingTyped
<1>6. CASE subscribeFails(f)
  <2>1. /\ Ends(f) /\ UNCHANGED << holder, held, device, shown >>
        /\ flow[f] # Null /\ Befalls("failed", {Null})
    BY <1>6 DEF subscribeFails
  <2>2. mishaps' \subseteq Mishap
    BY <1>1, <2>1, Befallen
  <2> QED
    BY <2>1, <2>2, <1>1, GoesTyped DEF Await
<1>7. CASE unregisterPush(f, TRUE) \/ unregisterPush(f, FALSE)
  <2>1. /\ Goes(f, "register") /\ UNCHANGED << holder, held, device, shown >>
        /\ flow[f] # Null /\ flow[f].endpoint # Null
        /\ Befalls("lost", {}) \/ Befalls("lost", {flow[f].stale})
    BY <1>7 DEF unregisterPush, PushTyped, HolderIssued
  <2>2. flow[f].stale \in PushEndpoint \cup {Null}
    BY <1>1, <2>1 DEF Flow
  <2>3. mishaps' \subseteq Mishap
    BY <1>1, <2>1, <2>2, Befallen
  <2> QED
    BY <1>1, <2>1, <2>3, GoesTyped DEF Await
<1>8. CASE registerPush(f)
  <2>1. /\ Goes(f, "registered") \/ Ends(f)
        /\ UNCHANGED << holder, held, device, shown, mishaps >>
        /\ flow[f] # Null /\ flow[f].endpoint # Null
    BY <1>8 DEF registerPush, PushTyped, HolderIssued
  <2> QED
    BY <1>1, <2>1, GoesTyped DEF Await
<1>9. CASE \E reached \in BOOLEAN : registerLost(f, reached)
  <2>1. /\ Ends(f) /\ UNCHANGED << holder, held, device, shown >>
        /\ flow[f] # Null /\ Befalls("lost", {flow[f].endpoint})
    BY <1>9 DEF registerLost
  <2>2. flow[f].endpoint \in PushEndpoint \cup {Null}
    BY <1>1, <2>1 DEF Flow
  <2>3. mishaps' \subseteq Mishap
    BY <1>1, <2>1, <2>2, Befallen
  <2> QED
    BY <1>1, <2>1, <2>3, GoesTyped DEF Await
<1>10. CASE writeLastEndpoint(f)
  <2>1. /\ Ends(f) /\ UNCHANGED << holder, held, shown, mishaps >>
        /\ flow[f] # Null /\ flow[f] \in Flow
        /\ device' = [device EXCEPT !.last = flow[f].endpoint]
    BY <1>1, <1>10 DEF writeLastEndpoint
  <2>2. flow[f].endpoint \in PushEndpoint \cup {Null}
    BY <2>1 DEF Flow
  <2>3. device' \in Device
    BY <1>1, <2>1, <2>2, Zenon DEF Device
  <2> QED
    BY <1>1, <2>1, <2>3, GoesTyped DEF Await
<1> QED
  BY <1>1, <1>2, <1>3, <1>4, <1>5, <1>6, <1>7, <1>8, <1>9, <1>10
     DEF FlowStep, Proceeds


\* The shop keeps subscriptions of the active ticket only.
RowsOK == rows \subseteq HeldTicket \X PushEndpoint /\ \A r \in rows : r[1] = holder

LEMMA FlowStepRows ==
  ASSUME PushTyped, NEW f \in Flows, FlowStep(f)
  PROVE  RowsOK'
<1> USE DEF Sub
<1>1. RowsOK /\ flow \in [Flows -> Flow \cup {Null}]
  BY DEF PushTyped, PushTypeOK, RowsOK
<1>2. UNCHANGED holder
  BY FlowStepTyped
<1>3. CASE rows' \subseteq rows
  BY <1>1, <1>2, <1>3 DEF RowsOK
<1>4. CASE /\ flow[f] # Null /\ flow[f].at = "register"
           /\ rows' = Registered(f) /\ flow[f].ticket = holder
  <2> DEFINE r == << flow[f].ticket, flow[f].endpoint >>
  <2>1. flow[f] \in Flow /\ flow[f].endpoint # Null
    BY <1>1, <1>4 DEF PushTyped, HolderIssued
  <2>2. flow[f].ticket \in HeldTicket /\ flow[f].endpoint \in PushEndpoint
    BY <2>1 DEF Flow
  <2> QED
    BY <1>1, <1>2, <1>4, <2>2 DEF RowsOK, Registered
<1>5. CASE /\ rows' # rows /\ ~unregisterPush(f, TRUE)
  <2>1. \/ registerPush(f) \/ \E reached \in BOOLEAN : registerLost(f, reached)
    BY <1>5 DEF FlowStep, Proceeds, requestPermission, workerReady,
       getSubscription, subscribe, subscribeFails, unregisterPush, writeLastEndpoint
  <2> QED
    BY <1>4, <1>5, <2>1 DEF registerPush, registerLost
<1>6. CASE unregisterPush(f, TRUE)
  BY <1>3, <1>6 DEF unregisterPush
<1> QED
  BY <1>3, <1>5, <1>6

\* Opening and leaving pages, the shop, and the push service.
LEMMA PageTyped ==
  ASSUME PushTyped, NEW f \in Flows,
         OpenTicketPage(f) \/ Resubscribe(f)
  PROVE  PushTyped'
<1>1. /\ holder \in (1..held) \cup {Null} /\ held \in 0..MaxHeld
      /\ shown \in HeldTicket \cup {Null} /\ (shown # Null => shown <= held)
      /\ device \in Device
  BY DEF PushTyped, PushTypeOK, HolderIssued
<1>2. CASE OpenTicketPage(f)
  <2>1. /\ holder \in HeldTicket /\ holder <= held /\ shown' = holder
        /\ Start(f, holder) /\ UNCHANGED << holder, held, rows, device >>
    BY <1>1, <1>2, PushAssumption DEF OpenTicketPage, HeldTicket
  <2>2. /\ flow' \in [Flows -> Flow \cup {Null}]
        /\ mishaps' \subseteq Mishap
        /\ \A g \in Flows : flow'[g] # Null =>
             /\ flow'[g].ticket <= held
             /\ flow'[g].at \in {"unregister", "register", "registered"}
                  => flow'[g].endpoint # Null
    BY <2>1, StartTyped
  <2> QED
    BY <1>1, <2>1, <2>2 DEF PushTyped, PushTypeOK, HolderIssued
<1>3. CASE Resubscribe(f)
  <2>1. /\ shown \in HeldTicket /\ shown <= held /\ shown' = shown
        /\ Start(f, shown) /\ UNCHANGED << holder, held, rows >>
        /\ device' = [device EXCEPT !.message = FALSE]
    BY <1>1, <1>3 DEF Resubscribe
  <2>2. /\ flow' \in [Flows -> Flow \cup {Null}]
        /\ mishaps' \subseteq Mishap
        /\ \A g \in Flows : flow'[g] # Null =>
             /\ flow'[g].ticket <= held
             /\ flow'[g].at \in {"unregister", "register", "registered"}
                  => flow'[g].endpoint # Null
    BY <2>1, StartTyped
  <2>3. device' \in Device
    BY <1>1, <2>1, Zenon DEF Device
  <2> QED
    BY <1>1, <2>1, <2>2, <2>3 DEF PushTyped, PushTypeOK, HolderIssued
<1> QED
  BY <1>2, <1>3

LEMMA LeaveTyped ==
  ASSUME PushTyped, LeaveTicketPage \/ CloseBrowser
  PROVE  PushTyped'
<1>1. device \in Device /\ flow \in [Flows -> Flow \cup {Null}] /\ mishaps \subseteq Mishap
  BY DEF PushTyped, PushTypeOK
<1>2. device' = [device EXCEPT !.message = FALSE] /\ shown' = Null
  BY DEF LeaveTicketPage, CloseBrowser
<1>3. device' \in Device
  BY <1>1, <1>2, Zenon DEF Device
<1>4. UNCHANGED << holder, held, rows >> /\ mishaps' \subseteq Mishap
  BY <1>1, InHandTyped, Befallen DEF LeaveTicketPage, CloseBrowser
<1>5. /\ flow' \in [Flows -> Flow \cup {Null}]
      /\ \A f \in Flows : flow'[f] # Null =>
           /\ flow[f] # Null
           /\ flow'[f].ticket = flow[f].ticket
           /\ flow'[f].at = flow[f].at
           /\ flow'[f].endpoint = flow[f].endpoint
  <2>1. CASE CloseBrowser
    BY <2>1 DEF CloseBrowser
  <2>2. CASE LeaveTicketPage
    <3>1. ASSUME NEW w \in Flow
          PROVE  /\ [w EXCEPT !.aborted = TRUE] \in Flow
                 /\ [w EXCEPT !.aborted = TRUE].ticket = w.ticket
                 /\ [w EXCEPT !.aborted = TRUE].at = w.at
                 /\ [w EXCEPT !.aborted = TRUE].endpoint = w.endpoint
      BY Zenon DEF Flow
    <3>2. flow' = [f \in Flows |->
            IF flow[f] = Null THEN Null ELSE [flow[f] EXCEPT !.aborted = TRUE]]
      BY <2>2 DEF LeaveTicketPage
    <3> QED
      BY <1>1, <3>1, <3>2
  <2> QED
    BY <2>1, <2>2
<1> QED
  BY <1>2, <1>3, <1>4, <1>5 DEF PushTyped, PushTypeOK, HolderIssued

LEMMA ShopTyped ==
  ASSUME PushTyped,
         \/ ShowNext \/ HolderIssues \/ HolderCloses
         \/ \E answer \in {"granted", "denied"} : onRequestNotification(answer)
         \/ \E told \in BOOLEAN : subscriptionchange(told)
         \/ \E r \in HeldTicket \X PushEndpoint : SubscriptionGone(r)
  PROVE  PushTyped'
<1>1. /\ holder \in (1..held) \cup {Null} /\ held \in 0..MaxHeld
      /\ shown \in HeldTicket \cup {Null} /\ (shown # Null => shown <= held)
      /\ device \in Device /\ mishaps \subseteq Mishap
      /\ flow \in [Flows -> Flow \cup {Null}]
      /\ rows \subseteq HeldTicket \X PushEndpoint /\ \A r \in rows : r[1] = holder
  BY DEF PushTyped, PushTypeOK, HolderIssued
<1> USE DEF PushTyped, PushTypeOK, HolderIssued
<1>2. CASE ShowNext
  <2>1. holder \in 1..held /\ holder \in HeldTicket
    BY <1>1, <1>2, PushAssumption DEF ShowNext, HeldTicket
  <2> QED
    BY <1>1, <1>2, <2>1 DEF ShowNext
<1>3. CASE HolderIssues
  <2>1. /\ held' = held + 1 /\ holder' = held + 1 /\ held < MaxHeld /\ holder = Null
        /\ UNCHANGED << rows, device, shown, flow, mishaps >>
    BY <1>3 DEF HolderIssues
  <2>2. held' \in 0..MaxHeld /\ holder' \in 1..held' /\ rows = {}
    <3>1. \A r \in rows : r[1] \in HeldTicket /\ r[1] = Null
      BY <1>1, <2>1
    <3> QED
      BY <1>1, <2>1, <3>1, PushAssumption DEF HeldTicket
  <2>3. \A f \in Flows : flow[f] # Null => flow[f].ticket <= held + 1
    <3>1. \A f \in Flows : flow[f] # Null => flow[f].ticket \in 1..MaxHeld
      BY <1>1 DEF Flow, HeldTicket
    <3> QED
      BY <1>1, <3>1, PushAssumption
  <2>4. shown # Null => shown <= held + 1
    BY <1>1, PushAssumption DEF HeldTicket
  <2> QED
    BY <1>1, <2>1, <2>2, <2>3, <2>4
<1>4. CASE HolderCloses
  <2>1. \A r \in rows : r[1] = holder
    BY <1>1
  <2>2. rows' = {} /\ holder' = Null /\ UNCHANGED << held, device, shown, flow, mishaps >>
    BY <1>4, <2>1 DEF HolderCloses
  <2> QED
    BY <1>1, <2>2
<1>5. ASSUME NEW told \in BOOLEAN, subscriptionchange(told) PROVE PushTyped'
  <2> DEFINE e == device.minted + 1
             b == device.message \/ (told /\ shown # Null)
  <2>1. /\ device' = [device EXCEPT !.minted = e, !.subscription = e, !.message = b]
        /\ device.minted < MaxEndpoints
        /\ UNCHANGED << holder, held, rows, shown, flow >>
    BY <1>5 DEF subscriptionchange
  <2>2. e \in PushEndpoint /\ e \in 0..MaxEndpoints /\ b \in BOOLEAN
    <3>1. device.minted \in 0..MaxEndpoints
      BY <1>1 DEF Device
    <3> QED
      BY <2>1, <3>1, PushAssumption DEF PushEndpoint
  <2> HIDE DEF e, b
  <2>3. device' \in Device
    BY <1>1, <2>1, <2>2, Zenon DEF Device
  <2>4. mishaps' \subseteq Mishap
    BY <1>1, <1>5, Befallen DEF subscriptionchange
  <2> QED
    BY <1>1, <2>1, <2>3, <2>4
<1>6. CASE \E r \in HeldTicket \X PushEndpoint : SubscriptionGone(r)
  BY <1>1, <1>6 DEF SubscriptionGone
<1>7. ASSUME NEW answer \in {"granted", "denied"}, onRequestNotification(answer)
      PROVE  PushTyped'
  <2>1. /\ device' = [device EXCEPT !.permission = answer]
        /\ UNCHANGED << holder, held, rows, shown, flow, mishaps >>
    BY <1>7 DEF onRequestNotification
  <2>2. device' \in Device
    BY <1>1, <2>1, Zenon DEF Device
  <2> QED
    BY <1>1, <2>1, <2>2
<1> QED
  BY <1>2, <1>3, <1>4, <1>5, <1>6, <1>7

LEMMA PushTypedStep == PushTyped /\ [PushNext]_pushVars => PushTyped'
<1> SUFFICES ASSUME PushTyped, [PushNext]_pushVars PROVE PushTyped'
  OBVIOUS
<1>1. ASSUME NEW f \in Flows, FlowStep(f) PROVE PushTyped'
  <2>1. /\ flow' \in [Flows -> Flow \cup {Null}] /\ HolderIssued'
        /\ device' \in Device /\ UNCHANGED << holder, held, shown >>
        /\ mishaps' \subseteq Mishap
    BY <1>1, FlowStepTyped
  <2>2. RowsOK'
    BY <1>1, FlowStepRows
  <2> QED
    BY <2>1, <2>2 DEF PushTyped, PushTypeOK, RowsOK
<1>2. CASE UNCHANGED pushVars
  BY <1>2 DEF pushVars, PushTyped, PushTypeOK, HolderIssued
<1> QED
  BY <1>1, <1>2, PageTyped, LeaveTyped, ShopTyped DEF PushNext, FlowStep

\* Every variable of the push client keeps its type, and the shop keeps
\* subscriptions of the active ticket only.
THEOREM PushTypeCorrect == PushSpec => []PushTypeOK
<1>1. PushTyped => PushTypeOK
  BY DEF PushTyped
<1> QED
  BY <1>1, PushTypedInit, PushTypedStep, PTL DEF PushSpec


-----------------------------------------------------------------------------
(* The rows of the shop and the endpoint the device remembers.             *)

\* What has gone astray stays so.
LEMMA AstrayForGood ==
  ASSUME mishaps \subseteq mishaps'
  PROVE  /\ \A e : Astray(e) => Astray(e)'
         /\ \A es : rows' \subseteq rows /\ RowsAmong(es) => RowsAmong(es)'
BY DEF Astray, RowsAmong

\* A step of a flow that has not registered: it goes on before its calls or
\* ends, and the shop's rows are left alone or fewer.
LEMMA EarlyTidy ==
  ASSUME PushTyped, Tidy, NEW f \in Flows, flow[f] # Null, flow[f].at # "registered",
         NEW w, w = Null \/ w.at \notin Calling, flow' = [flow EXCEPT ![f] = w],
         device'.last = device.last, holder' = holder, rows' \subseteq rows,
         mishaps \subseteq mishaps'
  PROVE  Tidy'
<1>1. flow \in [Flows -> Flow \cup {Null}]
  BY DEF PushTyped, PushTypeOK
<1>2. \A g \in Flows : g # f => flow'[g] = flow[g]
  BY <1>1
<1>3. flow'[f] = Null \/ flow'[f].at \notin Calling
  BY <1>1
<1>4. \A g \in Flows, at \in Calling : Sub(g, at)' <=> g # f /\ Sub(g, at)
  BY <1>2, <1>3 DEF Sub
<1>5. ASSUME NEW r \in rows'
      PROVE  \/ r[2] = device'.last \/ Astray(r[2])'
             \/ \E g \in Flows : Sub(g, "registered")' /\ flow'[g].endpoint = r[2]
  <2>1. CASE \E g \in Flows : Sub(g, "registered") /\ flow[g].endpoint = r[2]
    BY <1>2, <1>4, <2>1 DEF Sub, Calling
  <2> QED
    BY <2>1, AstrayForGood DEF Tidy
<1>6. ASSUME NEW g \in Flows, NEW h \in Flows, flow'[g] # Null, flow'[g].at \in Calling,
             flow'[h] # Null
      PROVE  h = g \/ Astray(flow[g].endpoint)'
  BY <1>2, <1>3, <1>6, AstrayForGood DEF Tidy
<1>7. ASSUME NEW g \in Flows
      PROVE  /\ Sub(g, "unregister")' => RowsAmong({flow[g].stale, flow[g].endpoint})'
             /\ Sub(g, "register")' /\ flow'[g].ticket = holder' =>
                  RowsAmong({flow[g].endpoint})'
             /\ Sub(g, "registered")' => RowsAmong({flow[g].endpoint})'
  <2>1. CASE g = f
    BY <1>4, <2>1 DEF Calling
  <2>2. CASE g # f
    <3>1. flow'[g] = flow[g] /\ \A at \in Calling : Sub(g, at)' => Sub(g, at)
      BY <1>2, <1>4, <2>2
    <3>2. /\ RowsAmong({flow[g].stale, flow[g].endpoint})
               => RowsAmong({flow[g].stale, flow[g].endpoint})'
          /\ RowsAmong({flow[g].endpoint}) => RowsAmong({flow[g].endpoint})'
      BY <3>1, AstrayForGood DEF RowsAmong
    <3> QED
      BY <3>1, <3>2 DEF Tidy, Calling
  <2> QED
    BY <2>1, <2>2
<1> QED
  BY <1>5, <1>6, <1>7 DEF Tidy, RowsAmong

\* A flow that has an endpoint in hand: what the others have, or the browser
\* remembers, is dropped, or has gone astray.
LEMMA HoldingTidy ==
  ASSUME PushTyped, Tidy, NEW f \in Flows, flow[f] # Null, flow[f].at \notin Calling,
         NEW e \in PushEndpoint, Holding(f, e),
         device'.last = device.last, UNCHANGED << rows, holder >>
  PROVE  Tidy'
<1>1. /\ flow \in [Flows -> Flow \cup {Null}] /\ flow[f] \in Flow /\ e # Null
      /\ device.last \in PushEndpoint \cup {Null}
      /\ \A r \in rows : r[2] \in PushEndpoint /\ r[2] # Null
  BY PushAssumption DEF PushTyped, PushTypeOK, PushEndpoint, Device
<1>2. mishaps \subseteq mishaps'
  BY DEF Holding, Befalls
<1>3. CASE flow[f].aborted
  <2>1. flow' = [flow EXCEPT ![f] = Null]
    BY <1>3 DEF Holding, Ends
  <2> QED
    BY <1>2, <2>1, EarlyTidy DEF Calling
<1>4. CASE ~flow[f].aborted
  <2> DEFINE s == IF device.last = e THEN Null ELSE device.last
             at == IF device.last \in {Null, e} THEN "register" ELSE "unregister"
             w == [flow[f] EXCEPT !.endpoint = e, !.stale = s, !.at = at]
  <2>1. /\ flow' = [flow EXCEPT ![f] = w]
        /\ Befalls("overlap", IF Busy = {f} THEN {} ELSE {e})
    BY <1>4 DEF Holding
  <2>2. w.at = at /\ w.endpoint = e /\ w.stale = s
    BY <1>1 DEF Flow
  <2> HIDE DEF w
  <2>3. flow'[f] = w /\ \A g \in Flows : g # f => flow'[g] = flow[g]
    BY <1>1, <2>1
  <2>4. at \in {"register", "unregister"}
    OBVIOUS
  <2>5. \A g \in Flows : flow[g] # Null => g = f \/ Astray(e)'
    BY <2>1 DEF Busy, Befalls, Astray
  <2>6. \A g \in Flows : flow[g] # Null /\ flow[g].at \in Calling => Astray(flow[g].endpoint)
    BY DEF Tidy
  <2>7. \A r \in rows : r[2] = device.last \/ Astray(r[2])
    BY <2>6 DEF Tidy, Sub, Calling
  <2>8. \A r \in rows : r[2] = device.last \/ Astray(r[2])'
    BY <1>2, <2>7, AstrayForGood
  <2>9. /\ at = "register" => \A r \in rows : r[2] = e \/ Astray(r[2])'
        /\ at = "unregister" => s = device.last
    BY <1>1, <2>8
  <2>10. \A g \in Flows : flow[g] # Null /\ flow[g].at \in Calling =>
           Astray(flow[g].endpoint)'
    BY <1>2, <2>3, <2>6, AstrayForGood
  <2> HIDE DEF at, s
  <2>11. ASSUME NEW g \in Flows, NEW h \in Flows, flow'[g] # Null, flow'[g].at \in Calling,
                flow'[h] # Null
         PROVE  h = g \/ Astray(flow[g].endpoint)'
    <3>1. CASE g = f
      BY <2>2, <2>3, <2>5, <2>11, <3>1
    <3>2. CASE g # f
      BY <2>3, <2>10, <2>11, <3>2
    <3> QED
      BY <3>1, <3>2
  <2>12. ASSUME NEW g \in Flows
         PROVE  /\ Sub(g, "unregister")' => RowsAmong({flow[g].stale, flow[g].endpoint})'
                /\ Sub(g, "register")' /\ flow'[g].ticket = holder' =>
                     RowsAmong({flow[g].endpoint})'
                /\ Sub(g, "registered")' => RowsAmong({flow[g].endpoint})'
    <3>1. CASE g = f
      BY <2>2, <2>3, <2>4, <2>8, <2>9, <3>1 DEF Sub, RowsAmong
    <3>2. CASE g # f
      <4>1. flow'[g] = flow[g] /\ rows' = rows /\ holder' = holder
        BY <2>3, <3>2
      <4>2. /\ RowsAmong({flow[g].stale, flow[g].endpoint})
                 => RowsAmong({flow[g].stale, flow[g].endpoint})'
            /\ RowsAmong({flow[g].endpoint}) => RowsAmong({flow[g].endpoint})'
        BY <1>2, <4>1, AstrayForGood DEF RowsAmong
      <4> QED
        BY <4>1, <4>2 DEF Tidy, Sub
    <3> QED
      BY <3>1, <3>2
  <2> QED
    BY <2>8, <2>11, <2>12 DEF Tidy
<1> QED
  BY <1>3, <1>4

\* A call that ends with the flow at the next one: the endpoint in hand is
\* the same.
LEMMA CallGoesOn ==
  ASSUME PushTyped, NEW f \in Flows, flow[f] # Null, flow[f].at \in Calling,
         NEW at \in {"register", "registered"}, Goes(f, at), mishaps \subseteq mishaps'
  PROVE  /\ flow'[f].endpoint = flow[f].endpoint /\ flow'[f].ticket = flow[f].ticket
         /\ flow'[f] # Null /\ flow'[f].at = at
         /\ \A g \in Flows : g # f => flow'[g] = flow[g]
         /\ Tidy => \A g, h \in Flows :
              flow'[g] # Null /\ flow'[g].at \in Calling /\ flow'[h] # Null
                => h = g \/ Astray(flow[g].endpoint)'
<1> DEFINE w == [flow[f] EXCEPT !.at = at]
<1>1. flow \in [Flows -> Flow \cup {Null}] /\ flow[f] \in Flow
  BY DEF PushTyped, PushTypeOK
<1>2. w \in Flow
  BY <1>1, FlowType DEF Await
<1>3. w.endpoint = flow[f].endpoint /\ w.ticket = flow[f].ticket /\ w.at = at
  BY <1>1 DEF Flow
<1>4. flow' = [flow EXCEPT ![f] = w]
  BY DEF Goes
<1> HIDE DEF w
<1>5. /\ flow'[f] = w /\ w # Null
      /\ \A g \in Flows : g # f => flow'[g] = flow[g]
  BY <1>1, <1>2, <1>4, FlowAssumption
<1>6. ASSUME Tidy, NEW g \in Flows, NEW h \in Flows,
             flow'[g] # Null, flow'[g].at \in Calling, flow'[h] # Null
      PROVE  h = g \/ Astray(flow[g].endpoint)'
  <2>1. flow[g] # Null /\ flow[g].at \in Calling /\ flow[h] # Null
    BY <1>5, <1>6
  <2>2. flow'[g].endpoint = flow[g].endpoint
    BY <1>3, <1>5
  <2>3. h = g \/ Astray(flow[g].endpoint)
    BY <1>6, <2>1 DEF Tidy
  <2> QED
    BY <2>2, <2>3, AstrayForGood DEF Astray
<1> QED
  BY <1>3, <1>5, <1>6

\* The stale endpoint is dropped at the shop, or goes astray.
LEMMA UnregisterTidy ==
  ASSUME PushTyped, Tidy, NEW f \in Flows, NEW reached \in BOOLEAN, unregisterPush(f, reached)
  PROVE  Tidy'
<1> DEFINE t == flow[f].ticket
           s == flow[f].stale
           e == flow[f].endpoint
<1>1. /\ flow[f] # Null /\ flow[f].at = "unregister"
      /\ rows' = IF reached THEN rows \ {<< t, s >>} ELSE rows
      /\ Befalls("lost", IF reached THEN {} ELSE {s})
      /\ Goes(f, "register") /\ UNCHANGED << holder, device >>
  BY DEF unregisterPush, Sub
<1>2. /\ mishaps \subseteq mishaps' /\ rows' \subseteq rows
      /\ ~reached => \A x : x = s => Astray(x)'
  <2>1. CASE reached
    BY <1>1, <2>1 DEF Befalls
  <2>2. CASE ~reached
    BY <1>1, <2>2 DEF Befalls, Astray
  <2> QED
    BY <2>1, <2>2
<1>3. /\ flow'[f].endpoint = e /\ flow'[f].ticket = t
      /\ flow'[f] # Null /\ flow'[f].at = "register"
      /\ \A g \in Flows : g # f => flow'[g] = flow[g]
      /\ \A g, h \in Flows :
           flow'[g] # Null /\ flow'[g].at \in Calling /\ flow'[h] # Null
             => h = g \/ Astray(flow[g].endpoint)'
  BY <1>1, <1>2, CallGoesOn DEF Calling
<1>4. \A r \in rows : r[1] = holder /\ r = << r[1], r[2] >>
  BY DEF PushTyped, PushTypeOK
<1>5. t = holder => \A r \in rows' : r[2] = e \/ Astray(r[2])'
  <2>1. \A r \in rows : r[2] = s \/ r[2] = e \/ Astray(r[2])
    BY <1>1 DEF Tidy, Sub, RowsAmong
  <2>2. t = holder /\ reached => \A r \in rows' : r[2] # s
    BY <1>1, <1>4
  <2>3. ASSUME NEW r \in rows', t = holder PROVE r[2] = e \/ Astray(r[2])'
    <3>1. r \in rows /\ (r[2] = s => ~reached)
      BY <1>2, <2>2, <2>3
    <3>2. r[2] = s => Astray(r[2])'
      BY <1>2, <3>1
    <3>3. Astray(r[2]) => Astray(r[2])'
      BY <1>2, AstrayForGood
    <3> QED
      BY <2>1, <3>1, <3>2, <3>3
  <2> QED
    BY <2>3
<1>6. \A r \in rows' :
        \/ r[2] = device'.last \/ Astray(r[2])'
        \/ \E g \in Flows : Sub(g, "registered")' /\ flow'[g].endpoint = r[2]
  <2>1. ASSUME NEW g \in Flows, Sub(g, "registered") PROVE Sub(g, "registered")'
    BY <1>1, <1>3, <2>1 DEF Sub
  <2>2. ASSUME NEW g \in Flows, Sub(g, "registered") PROVE flow'[g].endpoint = flow[g].endpoint
    BY <1>1, <1>3, <2>2 DEF Sub
  <2>3. \A r \in rows : Astray(r[2]) => Astray(r[2])'
    BY <1>2, AstrayForGood
  <2>4. device'.last = device.last
    BY <1>1
  <2> QED
    BY <1>2, <2>1, <2>2, <2>3, <2>4 DEF Tidy
<1>7. ASSUME NEW g \in Flows
      PROVE  /\ Sub(g, "unregister")' => RowsAmong({flow[g].stale, flow[g].endpoint})'
             /\ Sub(g, "register")' /\ flow'[g].ticket = holder' =>
                  RowsAmong({flow[g].endpoint})'
             /\ Sub(g, "registered")' => RowsAmong({flow[g].endpoint})'
  <2>1. CASE g = f
    BY <1>1, <1>3, <1>5, <2>1 DEF Sub, RowsAmong
  <2>2. CASE g # f
    <3>1. flow'[g] = flow[g]
      BY <1>3, <2>2
    <3>2. /\ RowsAmong({flow[g].stale, flow[g].endpoint})
               => RowsAmong({flow[g].stale, flow[g].endpoint})'
          /\ RowsAmong({flow[g].endpoint}) => RowsAmong({flow[g].endpoint})'
      BY <1>2, <3>1, AstrayForGood DEF RowsAmong
    <3> QED
      BY <1>1, <3>1, <3>2 DEF Tidy, Sub
  <2> QED
    BY <2>1, <2>2
<1> QED
  BY <1>3, <1>6, <1>7 DEF Tidy

\* Another flow's row is of an endpoint that went astray: two flows had theirs
\* in hand at once.
LEMMA RegisterTidy ==
  ASSUME PushTyped, Tidy, NEW f \in Flows, registerPush(f), flow[f].ticket = holder
  PROVE  Tidy'
<1> DEFINE e == flow[f].endpoint
<1>1. /\ flow[f] # Null /\ flow[f].at = "register" /\ rows' = Registered(f)
      /\ Goes(f, "registered") /\ UNCHANGED << holder, device, mishaps >>
  BY DEF registerPush, Sub
<1>2. /\ flow'[f].endpoint = e /\ flow'[f] # Null /\ flow'[f].at = "registered"
      /\ \A g \in Flows : g # f => flow'[g] = flow[g]
      /\ \A g, h \in Flows :
           flow'[g] # Null /\ flow'[g].at \in Calling /\ flow'[h] # Null
             => h = g \/ Astray(flow[g].endpoint)'
  BY <1>1, CallGoesOn DEF Calling
<1>3. \A x : Astray(x)' <=> Astray(x)
  BY <1>1 DEF Astray
<1>4. \A r \in rows' : r \in rows \/ r[2] = e
  BY <1>1 DEF Registered
<1>5. \A r \in rows' : r[2] = e \/ Astray(r[2])'
  BY <1>1, <1>3, <1>4 DEF Tidy, Sub, RowsAmong
<1>6. \A r \in rows' :
        \/ r[2] = device'.last \/ Astray(r[2])'
        \/ \E g \in Flows : Sub(g, "registered")' /\ flow'[g].endpoint = r[2]
  BY <1>2, <1>5 DEF Sub
<1>7. ASSUME NEW g \in Flows
      PROVE  /\ Sub(g, "unregister")' => RowsAmong({flow[g].stale, flow[g].endpoint})'
             /\ Sub(g, "register")' /\ flow'[g].ticket = holder' =>
                  RowsAmong({flow[g].endpoint})'
             /\ Sub(g, "registered")' => RowsAmong({flow[g].endpoint})'
  <2>1. CASE g = f
    BY <1>2, <1>5, <2>1 DEF Sub, RowsAmong
  <2>2. CASE g # f
    <3>1. flow'[g] = flow[g] /\ holder' = holder
      BY <1>1, <1>2, <2>2
    <3>2. flow[g] # Null /\ flow[g].at \in Calling => Astray(e)
      BY <1>1, <2>2 DEF Tidy, Calling
    <3>3. ASSUME flow[g] # Null, flow[g].at \in Calling
          PROVE  /\ RowsAmong({flow[g].stale, flow[g].endpoint})
                      => RowsAmong({flow[g].stale, flow[g].endpoint})'
                 /\ RowsAmong({flow[g].endpoint}) => RowsAmong({flow[g].endpoint})'
      BY <1>3, <1>4, <3>1, <3>2, <3>3 DEF RowsAmong
    <3> QED
      BY <3>1, <3>3 DEF Tidy, Sub, Calling
  <2> QED
    BY <2>1, <2>2
<1> QED
  BY <1>2, <1>6, <1>7 DEF Tidy

\* The flow ends, and its endpoint is remembered or has gone astray.
LEMMA CallEnds ==
  ASSUME PushTyped, Tidy, NEW f \in Flows,
         writeLastEndpoint(f) \/ \E reached \in BOOLEAN : registerLost(f, reached)
  PROVE  Tidy'
<1> DEFINE e == flow[f].endpoint
<1>1. /\ flow[f] # Null /\ flow[f].at \in {"register", "registered"}
      /\ flow' = [flow EXCEPT ![f] = Null] /\ holder' = holder
      /\ mishaps \subseteq mishaps'
      /\ \A r \in rows' : r \in rows \/ r[2] = e
  BY DEF writeLastEndpoint, registerLost, Sub, Ends, Registered, Befalls
<1>2. flow \in [Flows -> Flow \cup {Null}] /\ device \in Device
  BY DEF PushTyped, PushTypeOK
<1>3. flow'[f] = Null /\ \A g \in Flows : g # f => flow'[g] = flow[g]
  BY <1>1, <1>2
<1>4. \A r \in rows' :
        \/ r[2] = device'.last \/ Astray(r[2])'
        \/ \E g \in Flows : Sub(g, "registered")' /\ flow'[g].endpoint = r[2]
  <2>1. CASE writeLastEndpoint(f)
    <3>1. /\ flow[f].at = "registered" /\ rows' = rows
          /\ device' = [device EXCEPT !.last = e]
      BY <2>1 DEF writeLastEndpoint, Sub
    <3>2. \A r \in rows : r[2] = e \/ Astray(r[2])
      BY <1>1, <3>1 DEF Tidy, Sub, RowsAmong
    <3>3. device'.last = e
      BY <1>2, <3>1 DEF Device
    <3> QED
      BY <1>1, <3>1, <3>2, <3>3, AstrayForGood
  <2>2. CASE \E reached \in BOOLEAN : registerLost(f, reached)
    <3>1. /\ flow[f].at = "register" /\ device' = device
          /\ \A x : x = e => Astray(x)'
      BY <2>2 DEF registerLost, Sub, Befalls, Astray
    <3>2. ASSUME NEW g \in Flows, Sub(g, "registered")
          PROVE  Sub(g, "registered")' /\ flow'[g].endpoint = flow[g].endpoint
      BY <1>3, <3>1, <3>2 DEF Sub
    <3>3. \A r \in rows :
            \/ r[2] = device'.last \/ Astray(r[2])'
            \/ \E g \in Flows : Sub(g, "registered")' /\ flow'[g].endpoint = r[2]
      BY <1>1, <3>1, <3>2, AstrayForGood DEF Tidy
    <3> QED
      BY <1>1, <3>1, <3>3
  <2> QED
    BY <2>1, <2>2
<1>5. ASSUME NEW g \in Flows, NEW h \in Flows, flow'[g] # Null, flow'[g].at \in Calling,
             flow'[h] # Null
      PROVE  h = g \/ Astray(flow[g].endpoint)'
  BY <1>1, <1>3, <1>5, AstrayForGood DEF Tidy, Astray
<1>6. ASSUME NEW g \in Flows
      PROVE  /\ Sub(g, "unregister")' => RowsAmong({flow[g].stale, flow[g].endpoint})'
             /\ Sub(g, "register")' /\ flow'[g].ticket = holder' =>
                  RowsAmong({flow[g].endpoint})'
             /\ Sub(g, "registered")' => RowsAmong({flow[g].endpoint})'
  <2>1. CASE g = f
    BY <1>3, <2>1 DEF Sub
  <2>2. CASE g # f
    <3>1. flow'[g] = flow[g]
      BY <1>3, <2>2
    <3>2. flow[g] # Null /\ flow[g].at \in Calling => Astray(e)
      BY <1>1, <2>2 DEF Tidy, Calling
    <3>3. ASSUME flow[g] # Null, flow[g].at \in Calling
          PROVE  /\ RowsAmong({flow[g].stale, flow[g].endpoint})
                      => RowsAmong({flow[g].stale, flow[g].endpoint})'
                 /\ RowsAmong({flow[g].endpoint}) => RowsAmong({flow[g].endpoint})'
      BY <1>1, <3>1, <3>2, <3>3, AstrayForGood DEF RowsAmong
    <3> QED
      BY <1>1, <3>1, <3>3 DEF Tidy, Sub, Calling
  <2> QED
    BY <2>1, <2>2
<1> QED
  BY <1>4, <1>5, <1>6 DEF Tidy

LEMMA FlowStepTidy ==
  ASSUME PushTyped, Tidy, NEW f \in Flows, FlowStep(f)
  PROVE  Tidy'
<1>1. /\ device \in Device /\ flow \in [Flows -> Flow \cup {Null}]
      /\ flow[f] # Null => flow[f] \in Flow
  BY DEF PushTyped, PushTypeOK
<1>2. \A at \in {"worker", "getSubscription", "subscribe"} :
        flow[f] # Null => [flow[f] EXCEPT !.at = at].at \notin Calling
  BY <1>1 DEF Flow, Calling
<1>3. ASSUME flow[f] # Null, flow[f].at # "registered",
             NEW at \in {"worker", "getSubscription", "subscribe"}, Goes(f, at) \/ Ends(f),
             rows' = rows, holder' = holder, device'.last = device.last,
             mishaps \subseteq mishaps'
      PROVE  Tidy'
  BY <1>2, <1>3, EarlyTidy DEF Goes, Ends
<1>4. CASE \E answer \in {"granted", "denied", "default"} : requestPermission(f, answer)
  <2>1. /\ flow[f] # Null /\ flow[f].at # "registered" /\ mishaps' = mishaps
        /\ Goes(f, "worker") \/ Ends(f)
        /\ rows' = rows /\ holder' = holder /\ device'.last = device.last
    BY <1>1, <1>4 DEF requestPermission, Sub, Device
  <2> QED
    BY <1>3, <2>1
<1>5. CASE workerReady(f)
  <2>1. /\ flow[f] # Null /\ flow[f].at # "registered" /\ mishaps' = mishaps
        /\ Goes(f, "getSubscription") \/ Ends(f)
        /\ rows' = rows /\ holder' = holder /\ device'.last = device.last
    BY <1>5 DEF workerReady, Sub
  <2> QED
    BY <1>3, <2>1
<1>6. CASE getSubscription(f)
  <2>1. /\ flow[f] # Null /\ flow[f].at = "getSubscription"
        /\ UNCHANGED << rows, holder, device >>
    BY <1>6 DEF getSubscription, Sub
  <2>2. CASE device.subscription = Null
    <3>1. Goes(f, "subscribe") /\ mishaps' = mishaps
      BY <1>6, <2>2 DEF getSubscription
    <3> QED
      BY <1>3, <2>1, <3>1
  <2>3. CASE device.subscription # Null
    <3>1. device.subscription \in PushEndpoint /\ Holding(f, device.subscription)
      BY <1>1, <1>6, <2>3 DEF getSubscription, Device
    <3> QED
      BY <2>1, <3>1, HoldingTidy DEF Calling
  <2> QED
    BY <2>2, <2>3
<1>7. CASE subscribe(f)
  <2> DEFINE mint == IF device.subscription = Null THEN 1 ELSE 0
             e == IF mint = 1 THEN device.minted + 1 ELSE device.subscription
             m == device.minted + mint
  <2>1. /\ flow[f] # Null /\ flow[f].at = "subscribe" /\ UNCHANGED << rows, holder >>
        /\ device' = [device EXCEPT !.minted = m, !.subscription = e]
        /\ e <= MaxEndpoints /\ Holding(f, e)
    BY <1>7 DEF subscribe, Sub
  <2>2. e \in PushEndpoint
    <3>1. device.minted \in 0..MaxEndpoints /\ device.subscription \in PushEndpoint \cup {Null}
      BY <1>1 DEF Device
    <3> QED
      BY <2>1, <3>1, PushAssumption DEF PushEndpoint
  <2> HIDE DEF e, m, mint
  <2>3. device'.last = device.last
    BY <1>1, <2>1 DEF Device
  <2> QED
    BY <2>1, <2>2, <2>3, HoldingTidy DEF Calling
<1>8. CASE subscribeFails(f)
  <2>1. /\ flow[f] # Null /\ flow[f].at # "registered" /\ Ends(f)
        /\ rows' = rows /\ holder' = holder /\ device'.last = device.last
        /\ mishaps \subseteq mishaps'
    BY <1>8 DEF subscribeFails, Sub, Befalls
  <2> QED
    BY <1>3, <2>1
<1>9. CASE registerPush(f) /\ flow[f].ticket # holder
  <2>1. /\ flow[f] # Null /\ flow[f].at = "register" /\ rows' = rows /\ Ends(f)
        /\ UNCHANGED << holder, device, mishaps >>
    BY <1>9 DEF registerPush, Sub
  <2> QED
    BY <1>3, <2>1
<1> QED
  BY <1>4, <1>5, <1>6, <1>7, <1>8, <1>9, UnregisterTidy, RegisterTidy, CallEnds
     DEF FlowStep, Proceeds

LEMMA TidyStep == PushTyped /\ Tidy /\ [PushNext]_pushVars => Tidy'
<1> SUFFICES ASSUME PushTyped, Tidy, [PushNext]_pushVars PROVE Tidy'
  OBVIOUS
<1>1. /\ device \in Device /\ flow \in [Flows -> Flow \cup {Null}]
      /\ rows \subseteq HeldTicket \X PushEndpoint /\ \A r \in rows : r[1] = holder
      /\ \A f \in Flows : flow[f] # Null => flow[f].ticket <= held
      /\ held \in 0..MaxHeld
  BY DEF PushTyped, PushTypeOK, HolderIssued
\* Flows are where they were, with what they had in hand.
<1>2. ASSUME mishaps \subseteq mishaps', device'.last = device.last, rows' \subseteq rows,
             \A f \in Flows :
               /\ flow'[f] # Null <=> flow[f] # Null
               /\ flow[f] # Null => /\ flow'[f].at = flow[f].at
                                    /\ flow'[f].ticket = flow[f].ticket
                                    /\ flow'[f].endpoint = flow[f].endpoint
                                    /\ flow'[f].stale = flow[f].stale
                                    /\ flow[f].ticket = holder' => flow[f].ticket = holder
      PROVE  Tidy'
  <2>1. \A f \in Flows, at \in Calling : Sub(f, at)' <=> Sub(f, at)
    BY <1>2 DEF Sub
  <2>2. ASSUME NEW r \in rows'
        PROVE  \/ r[2] = device'.last \/ Astray(r[2])'
               \/ \E f \in Flows : Sub(f, "registered")' /\ flow'[f].endpoint = r[2]
    <3>1. CASE \E f \in Flows : Sub(f, "registered") /\ flow[f].endpoint = r[2]
      BY <1>2, <3>1 DEF Sub
    <3> QED
      BY <1>2, <3>1, AstrayForGood DEF Tidy
  <2>3. ASSUME NEW f \in Flows, NEW g \in Flows, flow'[f] # Null, flow'[f].at \in Calling,
               flow'[g] # Null
        PROVE  g = f \/ Astray(flow[f].endpoint)'
    <3>1. g = f \/ Astray(flow[f].endpoint)
      BY <1>2, <2>3 DEF Tidy
    <3>2. flow'[f].endpoint = flow[f].endpoint
      BY <1>2, <2>3
    <3> QED
      BY <1>2, <3>1, <3>2 DEF Astray
  <2>4. ASSUME NEW f \in Flows
        PROVE  /\ Sub(f, "unregister")' => RowsAmong({flow[f].stale, flow[f].endpoint})'
               /\ Sub(f, "register")' /\ flow'[f].ticket = holder' =>
                    RowsAmong({flow[f].endpoint})'
               /\ Sub(f, "registered")' => RowsAmong({flow[f].endpoint})'
    <3>1. ASSUME flow[f] # Null
          PROVE  /\ RowsAmong({flow[f].stale, flow[f].endpoint})
                      => RowsAmong({flow[f].stale, flow[f].endpoint})'
                 /\ RowsAmong({flow[f].endpoint}) => RowsAmong({flow[f].endpoint})'
      BY <1>2, <3>1, AstrayForGood DEF RowsAmong
    <3> QED
      BY <1>2, <2>1, <3>1 DEF Tidy, Sub, Calling
  <2> QED
    BY <2>2, <2>3, <2>4 DEF Tidy
<1>3. ASSUME NEW f \in Flows, OpenTicketPage(f) \/ Resubscribe(f) PROVE Tidy'
  <2>1. PICK t : Start(f, t)
    BY <1>3 DEF OpenTicketPage, Resubscribe
  <2>2. rows' = rows /\ holder' = holder /\ device'.last = device.last
    BY <1>1, <1>3 DEF OpenTicketPage, Resubscribe, Device
  <2>3. PICK w : flow' = [flow EXCEPT ![f] = w] /\ (w = Null \/ w.at \notin Calling)
    <3>1. flow' = [flow EXCEPT ![f] = Null] \/
          flow' = [flow EXCEPT ![f] =
            [at |-> IF device.permission = "default" THEN "permission" ELSE "worker",
             ticket |-> t, aborted |-> FALSE, endpoint |-> Null, stale |-> Null]]
      BY <2>1 DEF Start
    <3> QED
      BY <3>1 DEF Calling
  <2>4. mishaps \subseteq mishaps' /\ \A e \in InHand : Astray(e)'
    BY <2>1 DEF Start, Befalls, Astray
  <2>5. flow[f] = Null /\ \A g \in Flows : g # f => flow'[g] = flow[g]
    BY <1>1, <2>1, <2>3 DEF Start
  <2>6. flow'[f] = Null \/ flow'[f].at \notin Calling
    BY <1>1, <2>3
  <2>7. \A g \in Flows, at \in Calling : Sub(g, at)' <=> Sub(g, at) /\ g # f
    BY <2>5, <2>6 DEF Sub
  <2>8. ASSUME NEW r \in rows'
        PROVE  \/ r[2] = device'.last \/ Astray(r[2])'
               \/ \E g \in Flows : Sub(g, "registered")' /\ flow'[g].endpoint = r[2]
    <3>1. CASE \E g \in Flows : Sub(g, "registered") /\ flow[g].endpoint = r[2]
      BY <2>5, <3>1 DEF Sub
    <3> QED
      BY <2>2, <2>4, <3>1, AstrayForGood DEF Tidy
  <2>9. ASSUME NEW g \in Flows, flow'[g] # Null, flow'[g].at \in Calling
        PROVE  Astray(flow[g].endpoint)'
    <3>1. flow'[g] = flow[g]
      BY <2>5, <2>6, <2>9
    <3>2. flow[g].endpoint # Null
      BY <2>9, <3>1 DEF PushTyped, HolderIssued, Calling
    <3>3. flow[g].endpoint \in InHand
      BY <2>9, <3>1, <3>2 DEF InHand, Busy
    <3> QED
      BY <2>4, <3>1, <3>3 DEF Astray
  <2>10. ASSUME NEW g \in Flows
         PROVE  /\ Sub(g, "unregister")' => RowsAmong({flow[g].stale, flow[g].endpoint})'
                /\ Sub(g, "register")' /\ flow'[g].ticket = holder' =>
                     RowsAmong({flow[g].endpoint})'
                /\ Sub(g, "registered")' => RowsAmong({flow[g].endpoint})'
    <3>1. CASE g = f
      BY <2>7, <3>1 DEF Calling
    <3>2. CASE g # f
      <4>1. flow'[g] = flow[g]
        BY <2>5, <3>2
      <4>2. /\ RowsAmong({flow[g].stale, flow[g].endpoint})
                 => RowsAmong({flow[g].stale, flow[g].endpoint})'
            /\ RowsAmong({flow[g].endpoint}) => RowsAmong({flow[g].endpoint})'
        BY <2>2, <2>4, <4>1, AstrayForGood DEF RowsAmong
      <4> QED
        BY <2>2, <4>1, <4>2 DEF Tidy, Sub
    <3> QED
      BY <3>1, <3>2
  <2> QED
    BY <2>8, <2>9, <2>10 DEF Tidy
<1>4. CASE LeaveTicketPage
  <2>1. /\ rows' = rows /\ holder' = holder /\ mishaps' = mishaps /\ device'.last = device.last
        /\ flow' = [f \in Flows |->
             IF flow[f] = Null THEN Null ELSE [flow[f] EXCEPT !.aborted = TRUE]]
    BY <1>1, <1>4 DEF LeaveTicketPage, Device
  <2>2. ASSUME NEW w \in Flow
        PROVE  /\ [w EXCEPT !.aborted = TRUE] \in Flow
               /\ [w EXCEPT !.aborted = TRUE].ticket = w.ticket
               /\ [w EXCEPT !.aborted = TRUE].at = w.at
               /\ [w EXCEPT !.aborted = TRUE].endpoint = w.endpoint
               /\ [w EXCEPT !.aborted = TRUE].stale = w.stale
    BY Zenon DEF Flow
  <2>3. \A f \in Flows :
          /\ flow'[f] # Null <=> flow[f] # Null
          /\ flow[f] # Null => /\ flow'[f].ticket = flow[f].ticket
                               /\ flow'[f].at = flow[f].at
                               /\ flow'[f].endpoint = flow[f].endpoint
                               /\ flow'[f].stale = flow[f].stale
    BY <1>1, <2>1, <2>2, FlowAssumption
  <2> QED
    BY <1>2, <2>1, <2>3
<1>5. CASE CloseBrowser
  <2>1. /\ rows' = rows /\ device'.last = device.last
        /\ \A f \in Flows : flow'[f] = Null
        /\ mishaps \subseteq mishaps' /\ \A e \in InHand : Astray(e)'
    BY <1>1, <1>5 DEF CloseBrowser, Device, Befalls, Astray
  <2>2. \A f \in Flows : Sub(f, "registered") => flow[f].endpoint \in InHand
    BY DEF PushTyped, HolderIssued, InHand, Busy, Sub
  <2>3. \A r \in rows' : r[2] = device'.last \/ Astray(r[2])'
    BY <2>1, <2>2, AstrayForGood DEF Tidy
  <2> QED
    BY <2>1, <2>3 DEF Tidy, Sub
<1>6. CASE \/ ShowNext
           \/ \E answer \in {"granted", "denied"} : onRequestNotification(answer)
           \/ \E told \in BOOLEAN : subscriptionchange(told)
           \/ \E r \in HeldTicket \X PushEndpoint : SubscriptionGone(r)
           \/ UNCHANGED pushVars
  <2>1. /\ rows' \subseteq rows /\ flow' = flow /\ holder' = holder
        /\ device'.last = device.last /\ mishaps \subseteq mishaps'
    BY <1>1, <1>6 DEF ShowNext, onRequestNotification, subscriptionchange, SubscriptionGone,
                      pushVars, Device, Befalls
  <2> QED
    BY <1>2, <2>1
<1>7. CASE HolderCloses
  <2>1. rows' = {} /\ UNCHANGED << flow, device, mishaps >> /\ holder' = Null
    BY <1>1, <1>7 DEF HolderCloses
  <2>2. \A f \in Flows : flow[f] # Null => flow[f].ticket # Null
    BY <1>1, PushAssumption DEF Flow, HeldTicket
  <2> QED
    BY <1>2, <2>1, <2>2
<1>8. CASE HolderIssues
  <2>1. holder' = held + 1 /\ UNCHANGED << rows, flow, device, mishaps >>
    BY <1>8 DEF HolderIssues
  <2>2. \A f \in Flows : flow[f] # Null => flow[f].ticket # held + 1
    <3>1. \A f \in Flows : flow[f] # Null => flow[f].ticket \in HeldTicket
      BY <1>1 DEF Flow
    <3> QED
      BY <1>1, <3>1, PushAssumption DEF HeldTicket
  <2> QED
    BY <1>2, <2>1, <2>2
<1> QED
  BY <1>3, <1>4, <1>5, <1>6, <1>7, <1>8, FlowStepTidy DEF PushNext, FlowStep

\* Whatever went wrong, and however many flows there were, the next one can
\* drop every dead endpoint the shop has, except those about which a call was
\* lost or which a flow had in hand while another was under way.
THEOREM DeadRowsStayKnown == PushSpec => []DeadRowsAreRemembered
<1>1. PushInit => Tidy
  BY DEF PushInit, Tidy, Sub
<1>2. PushTyped /\ Tidy => DeadRowsAreRemembered
  <2> SUFFICES ASSUME PushTyped, Tidy, NEW r \in rows
               PROVE  r[2] = device.last \/ r[2] \in InHand \/ Astray(r[2])
    BY DEF DeadRowsAreRemembered
  <2>1. r[2] # Null
    BY PushAssumption DEF PushTyped, PushTypeOK, PushEndpoint
  <2> QED
    BY <2>1 DEF Tidy, InHand, Busy, Sub
<1> QED
  BY <1>1, <1>2, PushTypedInit, PushTypedStep, TidyStep, PTL DEF PushSpec

=============================================================================
