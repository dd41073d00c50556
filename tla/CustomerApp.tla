---------------------------- MODULE CustomerApp ----------------------------
(***************************************************************************)
(* The customer's browser tab: the landing, issue, recover and ticket      *)
(* pages of apps/web/src/routes with the ticket cache, the called alert    *)
(* and the chime of apps/web/src/lib, against a shop that moves on its own *)
(* and a network that answers late, out of order or not at all.            *)
(*                                                                         *)
(* A page that is navigated away from is destroyed, but its callbacks are  *)
(* not: a request it sent is still answered, its onMount goes on after an  *)
(* await, and a feed it connects afterwards has nobody to close it.  So a  *)
(* page instance keeps its slot until nothing can call it any more.        *)
(*                                                                         *)
(* The shop is seen through the active ticket of a handle; what it may do  *)
(* to that ticket is QueueShop's subject.  Texts, layout, the QR code and  *)
(* the form's fields are left out, and so are the second tab and the       *)
(* operator's device, on which these pages redirect to /staff.             *)
(***************************************************************************)
EXTENDS QueueFeed, Sequences, SequencesExt, FiniteSets

CONSTANTS
  Handles,     \* (nameKana, phoneLast4) pairs
  Slots,       \* page instances alive at the same time
  Operations,  \* buttons of the ticket page the customer presses
  MaxFlight,   \* bound on the requests in flight
  MaxTickets,  \* bound on the tickets issued
  MaxKeys      \* bound on calls and nudges

ASSUME CustomerAssumption ==
  /\ MaxFlight \in Nat /\ MaxTickets \in Nat /\ MaxKeys \in Nat
  /\ None \notin Handles \cup Slots

VARIABLES
  active,   \* the shop: the active ticket of each handle, or None
  issued,   \* the shop: ids handed out
  called,   \* the shop: calls and nudges made; each mints calledAt#nudgeCount
  tab,      \* the browser: localStorage, the chime, the pages and requests
  seen      \* history: keys alerted, whether a page that was left has had a
            \* hand in the ringing there is, and which oddities have happened

phoneVars == << active, issued, called, tab, seen >>

Route == {"landing", "issue", "recover", "ticket"}

ActiveTicket == [id    : 1..MaxTickets,
                 state : {"Waiting", "Called", "Overdue"},
                 key   : 0..MaxKeys]   \* of the call or nudge; 0 while waiting

\* What a page may show: the customer's own cancellation included.
ShownTicket == [id : 1..MaxTickets, key : 0..MaxKeys,
                state : {"Waiting", "Called", "Overdue", "Cancelled"}]

Stored == [id : 1..MaxTickets, handle : Handles]

Page == [route  : Route,
         stored : Stored \cup {None},
         ticket : ShownTicket \cup {None},
         error  : BOOLEAN,              \* an ErrorCard is shown
         booting: BOOLEAN,              \* onMount is awaiting
         feed   : Feed,
         dialog : {"none", "cancel", "reschedule"},  \* open, and modal
         chimePlaying : BOOLEAN,        \* the page's copy of the chime's flag
         left   : {"no", "booting", "delay", "settled"}] \* how it was left

\* Refreshes: the boot's, a later one, and those that end an operation.
Refresh == {"boot", "refresh", "checkedIn", "rescheduled"}

Operation == {"cancel", "checkIn", "reschedule"}

ASSUME OperationAssumption == Operations \subseteq Operation

Kind == Refresh \cup Operation \cup {"shopState", "issue", "recover"}

\* How far a request is; "ok", "TicketNotFound" and "refused" are answers the
\* shop gave, "NetworkError" is fetchJson's own.
Outcome == {"sent", "ok", "TicketNotFound", "refused", "NetworkError"}

Request == [page   : Slots,
            kind   : Kind,
            handle : Handles \cup {None},
            id     : (1..MaxTickets) \cup {None},
            status : Outcome,
            row    : ShownTicket \cup {None}]

NewRequest(s, kind, handle, id) ==
  [page |-> s, kind |-> kind, handle |-> handle, id |-> id,
   status |-> "sent", row |-> None]

Tab == [cache   : Stored \cup {None},          \* queue.ticket.v2
        alerted : (1..MaxKeys) \cup {None},    \* the last alert's key
        playing : BOOLEAN,                     \* the chime loops
        pages   : [Slots -> Page \cup {None}],
        mounted : Slots \cup {None},          \* None: no tab is open
        flight  : Seq(Request)]

ASSUME NoPageAssumption ==
  None \notin Nat \cup Page \cup ShownTicket \cup Stored

Oddity == {"ghost",     \* a page that is gone was called back
           "overtaken"} \* a ticket was answered or received out of order

-----------------------------------------------------------------------------
(* Pages.                                                                  *)

\* A page instance something can still call back.
Callable(p, s, flight) ==
  p.booting \/ FeedAlive(p.feed) \/ \E n \in DOMAIN flight : flight[n].page = s

\* Destroyed pages nothing refers to any more are gone.
Collect(w) ==
  [w EXCEPT !.pages = [s \in Slots |->
     IF /\ @[s] # None /\ @[s].left # "no"
        /\ ~Callable(@[s], s, w.flight)
     THEN None ELSE @[s]]]

\* What is left of a page: the feed its onDestroy closed, and how it was left.
\* What it showed is of no more interest.
Remains(p) ==
  [p EXCEPT !.ticket = None, !.error = FALSE, !.chimePlaying = FALSE,
            !.dialog = "none", !.feed = close(p.feed),
            !.left = IF p.booting THEN "booting"
                     ELSE IF p.feed.phase = "delay" THEN "delay"
                     ELSE "settled"]

\* Slip: onDestroy leaves the chime to its own timer.
leaveRinging(w) == [w EXCEPT !.pages[w.mounted] = Remains(@)]

\* onDestroy: the feed is closed and the chime's listener removed; the ticket
\* page stops the chime.
onDestroy(w) ==
  [w EXCEPT !.pages[w.mounted] = Remains(@),
            !.playing = @ /\ w.pages[w.mounted].route # "ticket"]

\* onMount's redirects: a device that has a ticket is sent to /ticket, and
\* /ticket without one to /recover.
Redirected(route, cache) ==
  IF route = "ticket" THEN IF cache = None THEN "recover" ELSE "ticket"
  ELSE IF cache = None THEN route ELSE "ticket"

\* A fresh instance of the page a redirect ends on.  The ticket page waits for
\* its first refresh and the landing for the shop's state.
onMount(w, route) ==
  LET free == {s \in Slots : w.pages[s] = None}
      to == Redirected(route, w.cache)
      stored == IF to = "ticket" THEN w.cache ELSE None
  IN  IF free = {} THEN [w EXCEPT !.flight = << >>]  \* beyond the bound
      ELSE LET s == CHOOSE x \in free : TRUE
           IN  [w EXCEPT
                 !.mounted = s,
                 !.pages[s] = [route |-> to, stored |-> stored, ticket |-> None,
                               error |-> FALSE,
                               booting |-> to \in {"ticket", "landing"},
                               feed |-> NoFeed, dialog |-> "none",
                               chimePlaying |-> FALSE, left |-> "no"],
                 !.flight = IF to = "ticket"
                   THEN Append(@, NewRequest(s, "boot", stored.handle, None))
                   ELSE IF to = "landing"
                   THEN Append(@, NewRequest(s, "shopState", None, None))
                   ELSE @]

\* goto(route): the router keeps the component of the route it is on already.
goto(w, route) ==
  IF w.pages[w.mounted].route = route THEN w
  ELSE onMount(Collect(onDestroy(w)), route)

\* onMount goes on after its last await, mounted or not.
Booted(w, s) ==
  [w EXCEPT !.pages[s].booting = FALSE, !.pages[s].feed = connectQueueFeed]

-----------------------------------------------------------------------------
(* The called alert and the chime.                                         *)

\* Starting a playing chime restarts its timers and tells nobody.
chimeStart(w) ==
  IF w.playing THEN w
  ELSE [w EXCEPT !.playing = TRUE,
                 !.pages[w.mounted].chimePlaying =
                    w.pages[w.mounted].route = "ticket"]

chimeStop(w) ==
  [w EXCEPT !.playing = FALSE, !.pages[w.mounted].chimePlaying = FALSE]

\* One alert per call and per nudge, remembered across page loads.
maybeTriggerCalledAlert(w, row) ==
  IF row.state \notin {"Called", "Overdue"} \/ w.alerted = row.key THEN w
  ELSE chimeStart([w EXCEPT !.alerted = row.key])

-----------------------------------------------------------------------------
(* Answers.                                                                *)

\* A refresh that found a ticket.
Found(w, s, r) ==
  maybeTriggerCalledAlert(
    [w EXCEPT !.cache = [id |-> r.row.id, handle |-> r.handle],
              !.pages[s] = IF s = w.mounted
                           THEN [@ EXCEPT !.ticket = r.row, !.error = FALSE]
                           ELSE @],
    r.row)

\* The ErrorCard of the ticket page; the forms' is left out.
Failed(w, s) ==
  [w EXCEPT !.pages[s].error = s = w.mounted /\ w.pages[s].route = "ticket"]

\* Slip: any error counts as a handle without a ticket.
refreshPurging(w, s, r) ==
  IF r.status = "ok" THEN Found(w, s, r)
  ELSE goto([w EXCEPT !.cache = None, !.alerted = None], "recover")

\* Slip: the cache of a handle without a ticket is kept.
refreshKeeping(w, s, r) ==
  CASE r.status = "ok" -> Found(w, s, r)
    [] r.status = "TicketNotFound" -> goto(w, "recover")
    [] OTHER -> Failed(w, s)

\* The answer to a refresh of the page in slot s, mounted or not: a handle
\* without a ticket costs the cache and leads to /recover.
refresh(w, s, r) ==
  CASE r.status = "ok" -> Found(w, s, r)
    [] r.status = "TicketNotFound" ->
         goto([w EXCEPT !.cache = None, !.alerted = None], "recover")
    [] OTHER -> Failed(w, s)

\* The boot's refresh is followed by a second request where it found a
\* ticket; everywhere else onMount goes on at once.
afterBoot(w, s, r) ==
  LET w1 == refresh(w, s, r)
  IN  IF r.status = "ok"
      THEN [w1 EXCEPT !.flight = Append(@, NewRequest(s, "shopState", None, None))]
      ELSE Booted(w1, s)

\* The forms of /issue and /recover: the ticket is cached and shown.
handleResult(w, s, r) ==
  IF r.status # "ok" THEN Failed(w, s)
  ELSE goto([w EXCEPT !.cache = [id |-> r.row.id, handle |-> r.handle]], "ticket")

\* What a dialog asked for was done: the ticket is shown as the shop left it,
\* and the dialog closes.  Nothing here stops the chime.
Confirmed(w, s, r) ==
  [w EXCEPT !.pages[s].ticket = IF s = w.mounted THEN r.row ELSE None,
            !.pages[s].dialog = IF @ = r.kind THEN "none" ELSE @]

onCancelConfirm(w, s, r) ==
  IF r.status = "ok" THEN Confirmed(w, s, r) ELSE Failed(w, s)

onCheckIn(w, s, r) ==
  IF r.status = "ok"
  THEN [w EXCEPT !.flight = Append(@, NewRequest(s, "checkedIn", r.handle, None))]
  ELSE Failed(w, s)

\* A refused reschedule is reported in its dialog.
onRescheduleConfirm(w, s, r) ==
  IF r.status = "ok"
  THEN [Confirmed(w, s, r) EXCEPT
          !.flight = Append(@, NewRequest(s, "rescheduled", r.handle, None))]
  ELSE w

Answered(w, s, r) ==
  CASE r.kind = "boot" -> afterBoot(w, s, r)
    [] r.kind \in Refresh \ {"boot"} -> refresh(w, s, r)
    [] r.kind = "shopState" -> Booted(w, s)
    [] r.kind \in {"issue", "recover"} -> handleResult(w, s, r)
    [] r.kind = "cancel" -> onCancelConfirm(w, s, r)
    [] r.kind = "checkIn" -> onCheckIn(w, s, r)
    [] r.kind = "reschedule" -> onRescheduleConfirm(w, s, r)

-----------------------------------------------------------------------------
(* Steps of the browser.  A step that would need more slots or requests    *)
(* than the bounds allow is not taken.                                     *)

Become(w) ==
  /\ w.pages[w.mounted].left = "no"
  /\ Len(w.flight) <= MaxFlight
  /\ tab' = Collect(w)

Here == tab.pages[tab.mounted]

On(route) == tab.mounted # None /\ Here.route = route

\* The alert fired: its memory took a new key.
Alerting == tab'.alerted # None /\ tab'.alerted # tab.alerted

Remember(odd) ==
  seen' = [rung  |-> IF Alerting THEN seen.rung \cup {tab'.alerted} ELSE seen.rung,
           loose |-> tab'.playing /\ ((tab.playing /\ seen.loose) \/ "ghost" \in odd),
           odd   |-> seen.odd \cup odd]

\* The oddity of a step that calls a page back in slot s.
CalledBack(s) == IF s = tab.mounted THEN {} ELSE {"ghost"}

\* The oddity of answering or receiving request n before an older one, where
\* both bring a ticket to the cache or the alert.
Brings(n) == tab.flight[n].kind \in Refresh \cup {"issue", "recover"}

Overtaking(older, n) ==
  IF Brings(n) /\ \E m \in older : m < n /\ Brings(m) THEN {"overtaken"} ELSE {}

\* A request of the mounted page, one of its kind at a time.
Send(kind, handle, id) ==
  /\ \A n \in DOMAIN tab.flight :
       tab.flight[n].page = tab.mounted =>
         tab.flight[n].kind \notin {kind} \cup
           CASE kind = "checkIn" -> {"checkedIn"}
             [] kind = "reschedule" -> {"rescheduled"}
             [] OTHER -> {}
  /\ Become([tab EXCEPT !.flight = Append(@, NewRequest(tab.mounted, kind, handle, id))])
  /\ UNCHANGED << active, issued, called, seen >>

\* A bound: the customer navigates, submits a form or opens a dialog only while
\* slots are left for what the pages may do by themselves.
Room == Cardinality({s \in Slots : tab.pages[s] = None}) >= 2

\* The customer fills in a form, or presses a button of the ticket page.
SubmitIssue(h) == Room /\ On("issue") /\ Send("issue", h, None)

SubmitRecover(h) == Room /\ On("recover") /\ Send("recover", h, None)

SetDialog(dialog) ==
  /\ tab' = [tab EXCEPT !.pages[tab.mounted].dialog = dialog]
  /\ UNCHANGED << active, issued, called, seen >>

\* The ticket page, with nothing modal in front of it.
AtPage == On("ticket") /\ Here.dialog = "none"

\* The buttons that ask first.  They need an active ticket and an open feed.
OpenDialog(op) ==
  /\ Room /\ AtPage /\ op # "checkIn"
  /\ Here.ticket # None
  /\ Here.ticket.state # "Cancelled"
  /\ QueueFeedState(Here.feed) = "open"
  /\ SetDialog(op)

\* Back, the cross or the backdrop; whatever was sent is still answered.
CloseDialog == On("ticket") /\ Here.dialog # "none" /\ SetDialog("none")

\* The check-in button sends at once.  In a dialog the confirm button stays,
\* whatever the feed and the ticket have come to behind it.
Operate(op) ==
  /\ IF op = "checkIn"
     THEN AtPage /\ Here.ticket # None /\ Here.ticket.state = "Waiting"
     ELSE On("ticket") /\ Here.dialog = op
  /\ Send(op, Here.stored.handle, Here.stored.id)

\* The retry button of the ErrorCard.
Retry ==
  /\ AtPage /\ Here.error
  /\ Become([tab EXCEPT !.flight = Append(@,
               NewRequest(tab.mounted, "refresh", Here.stored.handle, None))])
  /\ UNCHANGED << active, issued, called, seen >>

Navigate(route) ==
  /\ Room
  /\ tab.mounted # None /\ Here.route # route
  /\ Become(goto(tab, route))
  /\ UNCHANGED << active, issued, called, seen >>

\* Slip: the alert's memory dies with the page.
CloseForgetting ==
  /\ tab.mounted # None
  /\ tab' = [tab EXCEPT !.playing = FALSE, !.mounted = None, !.alerted = None,
                        !.pages = [s \in Slots |-> None], !.flight = << >>]
  /\ UNCHANGED << active, issued, called, seen >>

\* The tab is closed, or left behind by a reload: nothing runs on.
Close ==
  /\ tab.mounted # None
  /\ tab' = [tab EXCEPT !.playing = FALSE, !.mounted = None,
                        !.pages = [s \in Slots |-> None], !.flight = << >>]
  /\ UNCHANGED << active, issued, called, seen >>

\* A page is opened afresh.  localStorage is what remains, unless the entry is
\* older than its TTL.
Open(route, expired) ==
  /\ tab.mounted = None
  /\ tab' = onMount([tab EXCEPT !.cache = IF expired THEN None ELSE @], route)
  /\ UNCHANGED << active, issued, called, seen >>

\* The button that stops the chime is on the page.
AcknowledgeShown ==
  /\ On("ticket") /\ Here.chimePlaying
  /\ Here.ticket # None /\ Here.ticket.state # "Cancelled"

Acknowledge ==
  /\ AtPage /\ AcknowledgeShown
  /\ tab' = chimeStop(tab)
  /\ UNCHANGED << active, issued, called, seen >>

\* CHIME_TIMEOUT_MS after the last start.
ChimeTimeout ==
  /\ tab.playing
  /\ tab' = chimeStop(tab)
  /\ UNCHANGED << active, issued, called, seen >>

\* The browser hands request n's answer, or its failure, to the page.
Receive(n) ==
  /\ n \in DOMAIN tab.flight
  /\ tab.flight[n].status # "sent"
  /\ LET r == tab.flight[n]
         w == [tab EXCEPT !.flight = RemoveAt(@, n)]
     IN  /\ Become(Answered(w, r.page, r))
         /\ Remember(CalledBack(r.page)
                       \cup Overtaking(DOMAIN tab.flight, n))
  /\ UNCHANGED << active, issued, called >>

FeedStep(s, f) ==
  /\ tab.pages[s] # None
  /\ Become([tab EXCEPT !.pages[s].feed = f])
  /\ Remember(CalledBack(s))
  /\ UNCHANGED << active, issued, called >>

FeedOpens(s) ==
  tab.pages[s] # None /\ Dialing(tab.pages[s].feed)
    /\ FeedStep(s, onopen(tab.pages[s].feed))

FeedRetries(s) ==
  tab.pages[s] # None /\ tab.pages[s].feed.phase = "delay"
    /\ FeedStep(s, reconnect(tab.pages[s].feed))

FeedDrops(s) ==
  /\ tab.pages[s] # None
  /\ Dialing(tab.pages[s].feed) \/ tab.pages[s].feed.phase = "open"
  /\ FeedStep(s, onclose(tab.pages[s].feed))

\* Slip: the projection is taken for all there is to know.
FeedDeliversSilently(s) ==
  /\ tab.pages[s] # None
  /\ tab.pages[s].feed.news
  /\ Become([tab EXCEPT !.pages[s].feed = onmessage(@)])
  /\ Remember(CalledBack(s))
  /\ UNCHANGED << active, issued, called >>

\* onProjection: the ticket page asks for its ticket, once per message.
FeedDelivers(s) ==
  /\ tab.pages[s] # None
  /\ tab.pages[s].feed.news
  /\ LET p == tab.pages[s]
         w == [tab EXCEPT !.pages[s].feed = onmessage(@)]
     IN  Become(IF p.route # "ticket" THEN w
                ELSE [w EXCEPT !.flight = Append(@,
                        NewRequest(s, "refresh", p.stored.handle, None))])
  /\ Remember(CalledBack(s))
  /\ UNCHANGED << active, issued, called >>

-----------------------------------------------------------------------------
(* The shop and the network.                                               *)

\* Every open socket gets the projection after a change.
Broadcast(w) ==
  [w EXCEPT !.pages = [s \in Slots |->
     IF w.pages[s] = None THEN None
     ELSE [w.pages[s] EXCEPT !.feed = broadcast(w.pages[s].feed)]]]

ShopSets(h, row) ==
  /\ active' = [active EXCEPT ![h] = row]
  /\ tab' = Broadcast(tab)
  /\ UNCHANGED << issued, seen >>

\* The counter and the sweep move the ticket on: a call or a nudge mints a
\* key, promotion to Overdue keeps it.
ShopCalls(h) ==
  /\ active[h] # None /\ active[h].state \in {"Waiting", "Overdue"}
  /\ called < MaxKeys
  /\ called' = called + 1
  /\ ShopSets(h, [active[h] EXCEPT !.key = called + 1,
                    !.state = IF @ = "Waiting" THEN "Called" ELSE @])

ShopMoves(h) ==
  /\ active[h] # None
  /\ \/ /\ active[h].state = "Called"
        /\ ShopSets(h, [active[h] EXCEPT !.state = "Overdue"])
     \/ /\ active[h].state \in {"Called", "Overdue"}
        /\ ShopSets(h, [active[h] EXCEPT !.state = "Waiting", !.key = 0])
     \/ ShopSets(h, None)
  /\ UNCHANGED called

\* Somebody else's ticket changed.
ShopServesOthers ==
  /\ tab' = Broadcast(tab)
  /\ UNCHANGED << active, issued, called, seen >>

\* Request n is answered at the shop; w is the browser, told of the change.
Reply(w, n, status, row) ==
  tab' = [w EXCEPT !.flight[n].status = status, !.flight[n].row = row]

AnswerTicket(n, r) ==
  /\ r.kind \in Refresh \cup {"recover"}
  /\ IF active[r.handle] = None THEN Reply(tab, n, "TicketNotFound", None)
     ELSE Reply(tab, n, "ok", active[r.handle])
  /\ UNCHANGED << active, issued >>

\* A holder of an active ticket is given that ticket again.
AnswerIssue(n, r) ==
  /\ r.kind = "issue"
  /\ IF active[r.handle] # None
     THEN /\ Reply(tab, n, "ok", active[r.handle])
          /\ UNCHANGED << active, issued >>
     ELSE /\ issued < MaxTickets
          /\ issued' = issued + 1
          /\ active' = [active EXCEPT ![r.handle] =
                          [id |-> issued + 1, state |-> "Waiting", key |-> 0]]
          /\ Reply(Broadcast(tab), n, "ok", active'[r.handle])

\* The ticket the request names is the handle's active one.
Names(r) == active[r.handle] # None /\ active[r.handle].id = r.id

AnswerCancel(n, r) ==
  /\ r.kind = "cancel" /\ Names(r)
  /\ active' = [active EXCEPT ![r.handle] = None]
  /\ Reply(Broadcast(tab), n, "ok",
           [active[r.handle] EXCEPT !.state = "Cancelled", !.key = 0])
  /\ UNCHANGED issued

\* The times and slots that decide are not modelled here.
AnswerOperation(n, r) ==
  /\ r.kind \in {"checkIn", "reschedule"} /\ Names(r)
  /\ r.kind = "checkIn" => active[r.handle].state = "Waiting"
  /\ Reply(Broadcast(tab), n, "ok", active[r.handle])
  /\ UNCHANGED << active, issued >>

\* A rate limit, a time or a slot that is not free, another ticket by now.
Refuse(n, r) ==
  /\ r.kind \in Operation \cup {"issue"}
  /\ Reply(tab, n, "refused", None)
  /\ UNCHANGED << active, issued >>

Answer(n) ==
  /\ n \in DOMAIN tab.flight
  /\ tab.flight[n].status = "sent"
  /\ LET r == tab.flight[n]
     IN  \/ AnswerTicket(n, r)
         \/ AnswerIssue(n, r)
         \/ AnswerCancel(n, r)
         \/ AnswerOperation(n, r)
         \/ Refuse(n, r)
         \/ /\ r.kind = "shopState"
            /\ Reply(tab, n, "ok", None)
            /\ UNCHANGED << active, issued >>
  /\ Remember(Overtaking({m \in DOMAIN tab.flight :
                            tab.flight[m].status = "sent"}, n))
  /\ UNCHANGED called

\* The connection fails before or after the shop has acted.
Lose(n) ==
  /\ n \in DOMAIN tab.flight
  /\ tab.flight[n].status # "NetworkError"
  /\ tab.flight[n].kind # "shopState"  \* onMount goes on all the same
  /\ Reply(tab, n, "NetworkError", None)
  /\ UNCHANGED << active, issued, called, seen >>

-----------------------------------------------------------------------------
\* A device without a ticket, and no page open.
PhoneInit ==
  /\ active = [h \in Handles |-> None]
  /\ issued = 0
  /\ called = 0
  /\ seen = [rung |-> {}, loose |-> FALSE, odd |-> {}]
  /\ tab = [cache |-> None, alerted |-> None, playing |-> FALSE,
            pages |-> [s \in Slots |-> None], mounted |-> None, flight |-> << >>]

CustomerActs ==
  \/ \E h \in Handles : SubmitIssue(h) \/ SubmitRecover(h)
  \/ \E op \in Operations : Operate(op) \/ OpenDialog(op)
  \/ CloseDialog
  \/ Retry
  \/ \E route \in Route :
       Navigate(route) \/ \E expired \in BOOLEAN : Open(route, expired)
  \/ Close
  \/ Acknowledge

ShopActs ==
  \/ \E h \in Handles : ShopCalls(h) \/ ShopMoves(h)
  \/ ShopServesOthers

PhoneNext ==
  \/ CustomerActs
  \/ ShopActs
  \/ ChimeTimeout
  \/ \E n \in 1..MaxFlight : Answer(n) \/ Lose(n) \/ Receive(n)
  \/ \E s \in Slots : FeedOpens(s) \/ FeedRetries(s) \/ FeedDrops(s) \/ FeedDelivers(s)

\* The mounted page's socket opens, at once or after a delay.
FeedConnects ==
  tab.mounted # None /\ (FeedOpens(tab.mounted) \/ FeedRetries(tab.mounted))

FeedProjects == tab.mounted # None /\ FeedDelivers(tab.mounted)

\* The oldest request is answered or fails, and what was answered is handed
\* over; a socket opens, and one that keeps opening delivers its first message
\* some day.  Customers, shop, failing connections and timers owe nothing.
PhoneFairness ==
  /\ WF_phoneVars(Answer(1))
  /\ WF_phoneVars(Receive(1))
  /\ WF_phoneVars(FeedConnects)
  /\ SF_phoneVars(FeedProjects)

PhoneSpec == PhoneInit /\ [][PhoneNext]_phoneVars /\ PhoneFairness

-----------------------------------------------------------------------------
(* Properties.                                                             *)

\* Every variable has its type, and only the mounted page is not destroyed.
PhoneTypeOK ==
  /\ active \in [Handles -> ActiveTicket \cup {None}]
  /\ issued \in 0..MaxTickets
  /\ called \in 0..MaxKeys
  /\ seen.rung \subseteq 1..MaxKeys
  /\ seen.loose \in BOOLEAN
  /\ seen.odd \subseteq Oddity
  /\ tab \in Tab
  /\ \A s \in Slots : tab.pages[s] # None => (tab.pages[s].left = "no" <=> s = tab.mounted)
  /\ tab.mounted # None =>
       /\ Here # None
       /\ Here.route = "ticket" <=> Here.stored # None

\* The chime loops only over a ticket page that shows the acknowledge button,
\* with two exceptions: over the customer's own cancellation it rings on
\* without a button (see TerminalEndsChime), and so it does when a page that was
\* left was called back while it rang, or rang it.  No other order of alerts,
\* navigation, reloads and answers leaves it ringing where nobody can silence
\* it, and a later ring is again one that can be.
ChimeControlled ==
  tab.playing /\ ~seen.loose
    => \/ AcknowledgeShown
       \/ On("ticket") /\ Here.ticket # None /\ Here.ticket.state = "Cancelled"

\* A claim of the code's commentary that the code does not keep: the loop
\* repeats "until the customer taps the on-screen button, the 15 s hard timeout
\* fires, or the page observes a terminal state" (chimeController.ts), of which
\* the only one a ticket page can show is the customer's own cancellation.
TerminalEndsChime ==
  On("ticket") /\ Here.ticket # None /\ Here.ticket.state = "Cancelled"
    => ~tab.playing

\* A feed outlives its page only if the page was left while onMount was
\* awaiting or the feed was between two sockets: close() misses no other.
FeedDiesWithPage ==
  \A s \in Slots :
    tab.pages[s] # None /\ s # tab.mounted /\ FeedAlive(tab.pages[s].feed)
      => tab.pages[s].left \in {"booting", "delay"}

\* The device forgets a ticket only when the shop has closed it, however late
\* the answer that said so, unless an answer to a page that was left, or an
\* older answer than the one before, is what it acted on.
ForgetsOnlyClosed ==
  [][/\ tab.cache # None /\ tab'.cache = None
     /\ seen'.odd = {}
     /\ \E n \in DOMAIN tab.flight : Receive(n)
     => LET t == active[tab.cache.handle]
        IN  t = None \/ t.id # tab.cache.id]_phoneVars

\* The device serves one customer.  It remembers only the last key alerted, so
\* two who take turns on it are alerted again.
OneCustomer == \A g, h \in Handles : g = h

\* One call and one nudge alert once, page loads and reconnects included, on a
\* device of one customer, unless answers arrived out of order.
AlertsOncePerKey ==
  [][OneCustomer /\ Alerting /\ seen'.odd = {}
     => tab'.alerted \notin seen.rung]_phoneVars

OnTicketPage(h) == On("ticket") /\ Here.stored.handle = h

\* The page tells the customer that what it shows may be old.
LostTouchShown ==
  tab.mounted # None /\ (Here.error \/ QueueFeedState(Here.feed) = "reconnecting")

\* The page's feed was given up for good.  The ticket page shows no sign of it.
GivenUp == tab.mounted # None /\ Here.feed.phase = "closed"

\* The page shows an error or has no feed any more; or an oddity happened,
\* after which a run is not explored.
CutOff ==
  \/ tab.mounted # None /\ Here.error
  \/ GivenUp
  \/ seen.odd # {}

\* A call made while the customer's ticket page is open is heard there,
\* whatever connections are lost: a page does not stay open over a call that
\* has not rung, unless it shows an error or its feed was given up.
CallHeard ==
  \A h \in Handles, k \in 1..MaxKeys :
    []<>(\/ ~OnTicketPage(h)
         \/ active[h] = None
         \/ active[h].key # k
         \/ k \in seen.rung
         \/ CutOff)

\* A claim that the code does not keep: "a non-1000 close paints the reconnect
\* banner" (ADR-0061), so a call goes unheard on an open ticket page only while
\* the page says that it has lost touch.
CallHeardOrShown ==
  \A h \in Handles, k \in 1..MaxKeys :
    []<>(\/ ~OnTicketPage(h)
         \/ active[h] = None
         \/ active[h].key # k
         \/ k \in seen.rung
         \/ LostTouchShown
         \/ seen.odd # {})

\* An open tab does not keep a ticket the shop has closed: the device forgets
\* it, unless the page shows an error or its feed was given up.
ClosedTicketIsLeft ==
  \A h \in Handles :
    []<>(\/ tab.mounted = None
         \/ tab.cache = None
         \/ tab.cache.handle # h
         \/ active[h] # None
         \/ CutOff)

\* A bound: what follows an oddity is not explored.
Regular == seen.odd = {}
=============================================================================
