----------------------------- MODULE PushClient -----------------------------
(***************************************************************************)
(* Web Push on the customer's device: subscribeToPush of                   *)
(* apps/web/src/lib/pushSubscribe.ts, step by step between its awaits, the *)
(* ticket page that starts and aborts it, the service worker's             *)
(* subscriptionchange listener, and the rows it writes at the shop.        *)
(*                                                                         *)
(* The browser may replace the device's subscription at any time, and a    *)
(* page may have two flows under way.  Keys, texts and what a push shows   *)
(* are left out; unsubscribeFromPush has no caller that can be reached (a  *)
(* handle's ticket is never shown terminal by a refresh).                  *)
(***************************************************************************)
EXTENDS Naturals

CONSTANTS
  Null,          \* null
  Flows,         \* calls of subscribeToPush under way at the same time
  MaxEndpoints,  \* bound on the endpoints the push service hands out
  MaxHeld        \* bound on the tickets of this customer

ASSUME PushAssumption ==
  /\ MaxEndpoints \in Nat /\ MaxHeld \in Nat
  /\ Null \notin (1..MaxEndpoints) \cup (1..MaxHeld)

VARIABLES
  holder,   \* the shop: the customer's active ticket, or Null
  held,     \* the shop: tickets this customer was issued
  rows,     \* the shop: push_subscriptions, <<ticket, endpoint>>
  device,   \* the browser: permission, PushManager and localStorage
  shown,    \* the ticket the open ticket page shows, or Null
  flow,     \* the calls of subscribeToPush
  mishaps   \* history: what went wrong, and with which endpoint

pushVars == << holder, held, rows, device, shown, flow, mishaps >>

HeldTicket == 1..MaxHeld
PushEndpoint == 1..MaxEndpoints

Device == [permission   : {"default", "granted", "denied"},
           subscription : PushEndpoint \cup {Null},  \* pushManager's
           last         : PushEndpoint \cup {Null},  \* queue.lastSubscribedEndpoint
           minted       : 0..MaxEndpoints,
           message      : BOOLEAN]            \* push:resubscribe is posted

\* Where subscribeToPush awaits.
Await == {"permission", "worker", "getSubscription", "subscribe",
          "unregister", "register", "registered"}

Flow == [at       : Await,
         ticket   : HeldTicket,
         aborted  : BOOLEAN,                      \* params.signal
         endpoint : PushEndpoint \cup {Null},
         stale    : PushEndpoint \cup {Null}]     \* lastEndpoint as it was read

ASSUME FlowAssumption == Null \notin Flow

\* A call to the shop or its answer was lost; two flows were under way at
\* once; the browser threw; the open page was not told of a rotation.
Mishap == {"lost", "overlap", "failed", "untold"} \X (PushEndpoint \cup {Null})

-----------------------------------------------------------------------------
Goes(f, at) == flow' = [flow EXCEPT ![f].at = at]
Ends(f) == flow' = [flow EXCEPT ![f] = Null]

Sub(f, at) == flow[f] # Null /\ flow[f].at = at

Befalls(what, endpoints) == mishaps' = mishaps \cup ({what} \X endpoints)

Busy == {f \in Flows : flow[f] # Null}

\* The endpoints flows have in hand.
InHand == {flow[f].endpoint : f \in Busy} \ {Null}

\* subscribeToPush up to its first await.
Start(f, ticket) ==
  /\ flow[f] = Null
  /\ flow' = [flow EXCEPT ![f] =
       IF device.permission = "denied" THEN Null
       ELSE [at |-> IF device.permission = "default" THEN "permission" ELSE "worker",
             ticket |-> ticket, aborted |-> FALSE,
             endpoint |-> Null, stale |-> Null]]
  /\ Befalls("overlap", InHand)

\* The first refresh of a ticket page has found the ticket.
OpenTicketPage(f) ==
  /\ shown = Null /\ holder # Null
  /\ shown' = holder
  /\ Start(f, holder)
  /\ UNCHANGED << holder, held, rows, device >>

\* The service worker's message: the page subscribes again.
Resubscribe(f) ==
  /\ device.message /\ shown # Null
  /\ Start(f, shown)
  /\ device' = [device EXCEPT !.message = FALSE]
  /\ UNCHANGED << holder, held, rows, shown >>

\* A later refresh of the page shows the ticket issued since; it does not
\* subscribe.
ShowNext ==
  /\ shown # Null /\ holder \notin {Null, shown}
  /\ shown' = holder
  /\ UNCHANGED << holder, held, rows, device, flow, mishaps >>

\* onDestroy aborts the signal; the flows run on to their next check.
LeaveTicketPage ==
  /\ shown # Null
  /\ shown' = Null
  /\ flow' = [f \in Flows |->
       IF flow[f] = Null THEN Null ELSE [flow[f] EXCEPT !.aborted = TRUE]]
  /\ device' = [device EXCEPT !.message = FALSE]
  /\ UNCHANGED << holder, held, rows, mishaps >>

\* The browser is closed, and the flows with it.
CloseBrowser ==
  /\ shown # Null \/ Busy # {}
  /\ shown' = Null
  /\ flow' = [f \in Flows |-> Null]
  /\ device' = [device EXCEPT !.message = FALSE]
  /\ Befalls("lost", InHand)
  /\ UNCHANGED << holder, held, rows >>

-----------------------------------------------------------------------------
(* subscribeToPush, await by await.                                        *)

\* The ticket page's own notification button asks, and subscribes to nothing.
onRequestNotification(answer) ==
  /\ shown # Null /\ device.permission = "default"
  /\ device' = [device EXCEPT !.permission = answer]
  /\ UNCHANGED << holder, held, rows, shown, flow, mishaps >>

\* Whoever answers the browser's question answers it for every flow.  A
\* question that is dismissed leaves it at "default".
requestPermission(f, answer) ==
  /\ Sub(f, "permission")
  /\ device.permission \in {"default", answer}
  /\ device' = [device EXCEPT !.permission = answer]
  /\ IF answer = "granted" /\ ~flow[f].aborted THEN Goes(f, "worker") ELSE Ends(f)
  /\ UNCHANGED << holder, held, rows, shown, mishaps >>

workerReady(f) ==
  /\ Sub(f, "worker")
  /\ IF flow[f].aborted THEN Ends(f) ELSE Goes(f, "getSubscription")
  /\ UNCHANGED << holder, held, rows, device, shown, mishaps >>

\* The device has a subscription.  The endpoint registered last, if it is
\* another one, is unregistered first.
Holding(f, e) ==
  IF flow[f].aborted THEN Ends(f) /\ UNCHANGED mishaps
  ELSE /\ flow' = [flow EXCEPT
            ![f].endpoint = e,
            ![f].stale = IF device.last = e THEN Null ELSE device.last,
            ![f].at = IF device.last \in {Null, e} THEN "register" ELSE "unregister"]
       /\ Befalls("overlap", IF Busy = {f} THEN {} ELSE {e})

\* Slip: the endpoint registered last is not looked at.
HoldingBlindly(f, e) ==
  IF flow[f].aborted THEN Ends(f) /\ UNCHANGED mishaps
  ELSE /\ flow' = [flow EXCEPT ![f].endpoint = e, ![f].at = "register"]
       /\ Befalls("overlap", IF Busy = {f} THEN {} ELSE {e})

\* Slip: an endpoint that was registered once is not registered again.
getSubscriptionTrusting(f) ==
  /\ Sub(f, "getSubscription")
  /\ CASE device.subscription = Null -> Goes(f, "subscribe") /\ UNCHANGED mishaps
       [] device.subscription = device.last -> Ends(f) /\ UNCHANGED mishaps
       [] OTHER -> Holding(f, device.subscription)
  /\ UNCHANGED << holder, held, rows, device, shown >>

\* Slip: as HoldingBlindly.
getSubscriptionBlindly(f) ==
  /\ Sub(f, "getSubscription")
  /\ IF device.subscription = Null
     THEN Goes(f, "subscribe") /\ UNCHANGED mishaps
     ELSE HoldingBlindly(f, device.subscription)
  /\ UNCHANGED << holder, held, rows, device, shown >>

getSubscription(f) ==
  /\ Sub(f, "getSubscription")
  /\ IF device.subscription = Null
     THEN Goes(f, "subscribe") /\ UNCHANGED mishaps
     ELSE Holding(f, device.subscription)
  /\ UNCHANGED << holder, held, rows, device, shown >>

\* pushManager.subscribe gives the subscription another flow made meanwhile,
\* or asks the push service for one.
subscribe(f) ==
  LET mint == IF device.subscription = Null THEN 1 ELSE 0
      e == IF mint = 1 THEN device.minted + 1 ELSE device.subscription
  IN  /\ Sub(f, "subscribe")
      /\ e <= MaxEndpoints
      /\ device' = [device EXCEPT !.minted = @ + mint, !.subscription = e]
      /\ Holding(f, e)
      /\ UNCHANGED << holder, held, rows, shown >>

\* The browser throws before anything was sent to the shop.
subscribeFails(f) ==
  /\ \E at \in {"worker", "getSubscription", "subscribe"} : Sub(f, at)
  /\ Ends(f)
  /\ Befalls("failed", {Null})
  /\ UNCHANGED << holder, held, rows, device, shown >>

\* The answer is ignored, and so is its loss.
unregisterPush(f, reached) ==
  /\ Sub(f, "unregister")
  /\ rows' = IF reached THEN rows \ {<< flow[f].ticket, flow[f].stale >>} ELSE rows
  /\ Befalls("lost", IF reached THEN {} ELSE {flow[f].stale})
  /\ Goes(f, "register")
  /\ UNCHANGED << holder, held, device, shown >>

Registered(f) == rows \cup {<< flow[f].ticket, flow[f].endpoint >>}

\* The shop takes a subscription for an active ticket only.
registerPush(f) ==
  /\ Sub(f, "register")
  /\ IF flow[f].ticket = holder
     THEN rows' = Registered(f) /\ Goes(f, "registered")
     ELSE UNCHANGED rows /\ Ends(f)
  /\ UNCHANGED << holder, held, device, shown, mishaps >>

\* NetworkError, before or after the shop has acted.
registerLost(f, reached) ==
  /\ Sub(f, "register")
  /\ rows' = IF reached /\ flow[f].ticket = holder THEN Registered(f) ELSE rows
  /\ Befalls("lost", {flow[f].endpoint})
  /\ Ends(f)
  /\ UNCHANGED << holder, held, device, shown >>

writeLastEndpoint(f) ==
  /\ Sub(f, "registered")
  /\ device' = [device EXCEPT !.last = flow[f].endpoint]
  /\ Ends(f)
  /\ UNCHANGED << holder, held, rows, shown, mishaps >>

-----------------------------------------------------------------------------
(* The browser, the shop and the push service.                             *)

\* RFC 8030 7.3: the subscription is replaced.  The service worker hears of it
\* or not (it listens for "subscriptionchange"; browsers send
\* "pushsubscriptionchange"), and posts a message to the open page.
subscriptionchange(told) ==
  /\ device.subscription # Null
  /\ device.minted < MaxEndpoints
  /\ device' = [device EXCEPT !.minted = @ + 1,
                              !.subscription = device.minted + 1,
                              !.message = @ \/ (told /\ shown # Null)]
  /\ Befalls("untold", IF told \/ shown = Null THEN {} ELSE {Null})
  /\ UNCHANGED << holder, held, rows, shown, flow >>

HolderIssues ==
  /\ holder = Null /\ held < MaxHeld
  /\ held' = held + 1
  /\ holder' = held + 1
  /\ UNCHANGED << rows, device, shown, flow, mishaps >>

\* reapTerminalSubscriptions goes with every closing transition.
HolderCloses ==
  /\ holder # Null
  /\ holder' = Null
  /\ rows' = {r \in rows : r[1] # holder}
  /\ UNCHANGED << held, device, shown, flow, mishaps >>

\* A push to an endpoint that was replaced is answered 404 or 410.
SubscriptionGone(r) ==
  /\ r \in rows /\ r[2] # device.subscription
  /\ rows' = rows \ {r}
  /\ UNCHANGED << holder, held, device, shown, flow, mishaps >>

PushInit ==
  /\ holder = Null /\ held = 0 /\ rows = {} /\ shown = Null
  /\ device = [permission |-> "default", subscription |-> Null, last |-> Null,
               minted |-> 0, message |-> FALSE]
  /\ flow = [f \in Flows |-> Null]
  /\ mishaps = {}

\* What the browser and the shop owe a flow that was started.
Proceeds(f) ==
  \/ workerReady(f) \/ getSubscription(f) \/ subscribe(f)
  \/ registerPush(f) \/ writeLastEndpoint(f)
  \/ unregisterPush(f, TRUE)

PushNext ==
  \/ \E f \in Flows :
       \/ OpenTicketPage(f) \/ Resubscribe(f)
       \/ \E answer \in {"granted", "denied", "default"} : requestPermission(f, answer)
       \/ Proceeds(f)
       \/ subscribeFails(f)
       \/ unregisterPush(f, FALSE)
       \/ \E reached \in BOOLEAN : registerLost(f, reached)
  \/ \E answer \in {"granted", "denied"} : onRequestNotification(answer)
  \/ ShowNext \/ LeaveTicketPage \/ CloseBrowser
  \/ \E told \in BOOLEAN : subscriptionchange(told)
  \/ HolderIssues \/ HolderCloses
  \/ \E r \in HeldTicket \X PushEndpoint : SubscriptionGone(r)

\* The message is handed to the page, and a flow goes on; people, the push
\* service and failures owe nothing.
PushFairness ==
  /\ \A f \in Flows : WF_pushVars(Proceeds(f))
  /\ WF_pushVars(\E f \in Flows : Resubscribe(f))

PushSpec == PushInit /\ [][PushNext]_pushVars /\ PushFairness

-----------------------------------------------------------------------------
(* Properties.                                                             *)

\* Every variable has its type, and the shop keeps subscriptions of the
\* active ticket only.
PushTypeOK ==
  /\ held \in 0..MaxHeld
  /\ holder \in (1..held) \cup {Null}
  /\ rows \subseteq HeldTicket \X PushEndpoint
  /\ \A r \in rows : r[1] = holder
  /\ device \in Device
  /\ shown \in HeldTicket \cup {Null}
  /\ flow \in [Flows -> Flow \cup {Null}]
  /\ mishaps \subseteq Mishap

\* A lost call was about this endpoint, or a flow that had it in hand
\* overlapped another.
Astray(e) == \E what \in {"lost", "overlap"} : << what, e >> \in mishaps

\* Whatever went wrong before, the next flow can drop every dead endpoint the
\* shop still has: it is the one localStorage remembers, or one a flow has in
\* hand.  Those that went astray are excepted, and only they: a dead row may
\* be left that nobody remembers, for the 410 sweep (ADR-0073).
DeadRowsAreRemembered ==
  \A r \in rows : r[2] # device.subscription =>
    r[2] = device.last \/ r[2] \in InHand \/ Astray(r[2])

Subscribing(t) ==
  \E f \in Flows : Sub(f, "worker") /\ flow[f].ticket = t /\ ~flow[f].aborted

Reachable(t) == device.subscription # Null /\ << t, device.subscription >> \in rows

\* A flow for the active ticket ends with the shop able to reach the device as
\* it is then, unless the page is left, the ticket closes or a call fails.  A
\* device that was registered for an earlier ticket is registered again.
SubscribedInTheEnd ==
  (holder # Null /\ Subscribing(holder))
    ~> (holder = Null \/ Reachable(holder) \/ shown = Null \/ mishaps # {})

=============================================================================
