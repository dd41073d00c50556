# A TLA+ model of the slot-booking queue

This directory holds a TLA+ specification of the walk-in queue in this
repository, from the rows of its tickets to the pages that show them, TLC
configurations that check it on small instances, and TLAPS
proofs of its main safety properties. Paths below are relative to the
repository's root.

## 1. The system

One deployment serves one shop. Customers take a numbered ticket, in the
walk-in lane or as a reservation; staff call, serve, recall and close tickets;
a timer reminds called customers and closes the tickets of those who never
come. All of it is serialised through one Cloudflare Durable Object.

| Component | Code | State | Operations | What makes it correct |
|---|---|---|---|---|
| Ticket aggregate | `packages/core/src/domain/queue/{Ticket,transitions,TicketEvent,projection}.ts` | a tagged union of six states | eleven total transitions, each returning the next row and its event; the event fold | folding the events gives the row; no field outlives its variant |
| Queue queries | `projection.ts` | none | head of lane, next callable, slot occupancy, next number, active handle, positions | they pick the ticket their comments describe; ties are settled |
| Use cases | `packages/core/src/application/usecases/queue` | none | issue, call (three ways), serve, no-show, recall, cancel, check-in, reschedule, nudge, lapse | guards refuse every illegal source state; one active ticket per holder |
| QueueShop actor | `apps/default/src/server/durableObjects/QueueShop.ts` | tickets, subscriptions, the alarm | `dispatch`, subscription calls, `alarm()` with its four ticks, board WebSocket | nothing a request does while the sweep awaits is lost or acted on stale; an active ticket always has an alarm coming |
| Push subscriptions | `adapters/DurableObjectPushSubscriptionRepositoryLive.ts` | endpoints per ticket | register, unregister, reap, delete a dead endpoint | a closed ticket holds none |
| Web Push client | `packages/push/src` | none | one send with four outcomes | the outcome classes |
| Ticket store | `adapters/DurableObjectTicketRepositoryLive.ts`, `packages/core/src/infrastructure/eventsourced` | event log, rows, snapshots, outbox | load, save, issue, saveBatch | optimistic concurrency; load equals the saved row |
| Slots | `domain/queue/Slot.ts`, `http/router.ts` | none | bucket of an instant, interval of a bucket, slot list | no instant outside its own bucket; no overbooked slot |
| Wait estimate | `domain/queue/eta.ts` | a moving average | update, estimate | bounds and monotonicity |
| HTTP boundary | `apps/default/src/server/http` | none | routes: limiter, credential, id, body, then the actor; errors to statuses; the OpenAPI document | a refusal changes nothing; answers are those the document lists |
| Staff session, rate limit | `security`, `http/rateLimit.ts` | signed tokens | issue, verify | expiry |
| PII purge, audit log, outbox, backoff | `adapters/D1*.ts`, `schema/outbox.ts`, `application/runtime` | D1 tables | one SQL statement each | retention |
| Customer pages | `apps/web/src/routes`, `lib/{api,ticketCache,calledAlert,chimeController}.ts` | localStorage, page instances, a feed each, requests in flight, the chime | issue, recover, refresh, cancel, check-in, reschedule, alert | a call is heard once and can be silenced; a closed ticket is left, an active one kept |
| Push subscription of a device | `apps/web/src/lib/pushSubscribe.ts`, `static/sw.js` | the browser's subscription, the endpoint registered last | subscribe, reconcile, resubscribe | the shop reaches the device; dead endpoints are remembered |
| Staff page | `apps/web/src/routes/staff`, `lib/staffSession.ts` | session, board, one busy flag, toast, feed | login, refresh, actions, undo, logout | a session ends for cause; names are gone after it; one action at a time |

How they interact. The router authenticates a request, decodes it and calls the
actor. `dispatch` runs one use case against the store, broadcasts the new
projection to the boards, releases the subscriptions of tickets that became
terminal and arms the alarm if none is pending. The alarm runs four ticks over
the same tables (promote called tickets to Overdue, nudge overdue ones by push,
close those out of nudges as NoShow, cancel reservations whose instant has
lapsed), each by dispatching the same use cases, and arms itself again. A page
holds a WebSocket to the actor; a message carries the anonymous projection and
makes the page ask for its own ticket, or the staff page for its lists, by HTTP.

What is hard. A Durable Object is single-threaded but not atomic: its input
gate is closed while it awaits its own storage and open while it awaits the
network. The one network await of the actor is `sendPush` in Tick 2. While it
is pending any request may be served on the very ticket being pushed, time
passes, and the object may be evicted with the sweep's locals. The pages have
the same difficulty at every `await`: when it returns the page may have been left,
the session ended, and a later request answered before. The hazards,
each at its line, are listed in `PROJECT.json`; the properties are written for
them.

## 2. The modules

| Module | Models | Uses |
|---|---|---|
| `Tickets` | rows, events, transitions with the events they mint, the event fold | |
| `Projection` | the queries the use cases decide by | `Tickets` |
| `QueueShop` | the actor: use cases, dispatch, subscriptions, the sweep, eviction, the clock; its safety properties and the inductive invariant | `Projection` |
| `QueueShopTimely` | the same actor on a punctual platform, with fairness: response time and liveness | `QueueShop` |
| `QueueViews` | what the queue shows: positions, the anonymous projection, the slot list, the picker's instants | `Projection` |
| `QueueApi` | every route of the Worker over the actor, with its checks, statuses and the broadcast | `QueueShop`, `QueueViews` |
| `OpenApi` | the document the Worker serves about itself | `QueueApi` |
| `TicketStore` | the SQLite repository under overlapping use cases: log, rows, revisions, snapshots | `Projection`, `AtomicQueue` |
| `AtomicQueue` | the port's contract: every use case in one step | `Projection` |
| `HolderView` | what the devices of one holder can tell of the queue: the abstract specification between the actor and the customer's pages | |
| `QueueFeed` | the reconnecting WebSocket of a page | |
| `CustomerApp` | the customer's tab: pages, cache, alert, chime, requests | `QueueFeed` |
| `StaffConsole` | the staff page: session, board, actions, undo | `QueueFeed` |
| `PushClient` | subscribing a device to push, await by await | |
| `MCQueueShop`, `MCTimely`, `MCTicketStore`, `MCApi`, `MCWeb` | constants and symmetry for TLC; `MCWeb` puts the three web modules side by side | |
| `TicketsProofs`, `QueueShopProofs`, `QueueApiProofs`, `TicketStoreProofs`, `StaffConsoleProofs`, `PushClientProofs`, `CustomerAppProofs`, `WebProofs` | theorems and proofs | |

The layers see each other in the abstract. `QueueApi` runs on `QueueShop` itself.
The web modules see the shop through what a page can observe of it: the active
ticket of a handle (`CustomerApp`), the rows of one customer's subscriptions
(`PushClient`), a version number and the current secret (`StaffConsole`). In each,
whatever the shop does is allowed to happen at any time. For a customer's ticket the
two views are tied: `HolderView` says how it may move, `QueueShop` is proved to move it
only so, and the shop `CustomerApp` assumes to make all those moves and no other.

`QueueShop` sees the store as one atomic save, which is what `TicketStore`
shows it to be (`StoreIsAtomic`) with the two exceptions of the runs `checkin`
and `batch`; the second is a step of `QueueShop` (`CallBatchRepeating`). Conversely each step
of `QueueShop` changes rows only as `AtomicQueue` would (`ActorKeepsPort`), so the contract
the store implements is the one the actor uses.

### State

`tickets` is the `tickets` table: a row per issued id, `None` before. The tagged
union is one record whose variant-only fields are `None`, which is how the table
stores it. Left out of the row, because no property tells two of their values
apart: the free text, the `reason` (a Cancelled row closed by `"system"` is the
one the code marks `appointment_lapsed`), the instant a ticket was closed, who
called it, the channel of a nudge, and `seq`, which equals `displaySeq` in
every row the code issues. `subs` is `push_subscriptions`, `alarmAt` what
`getAlarm()` returns, and `sweepAt`, `toNudge` and `fan` the locals of the
running `alarm()`: its instant, the Tick 2 rows not handled yet with the nudge
counts they were read with, and the fan-out being awaited. Instants are natural
numbers and `now` the clock.

`QueueApi` adds `feed`, the projection the attached sockets were last sent, and
`status`, that of the answer under way. `CustomerApp` keeps a tab in one record:
localStorage (`cache`, `alerted`), whether the chime loops, the requests in flight and
up to `Slots` page instances. A page that was left keeps its slot while a request,
an awaiting `onMount` or a feed can still call it back, because the code does not
stop them. `StaffConsole` does the same for the staff page, and `PushClient` has
one record per call of `subscribeToPush`, with the await it is at. Each of the
three has one history variable, which properties read and no step depends on except
through the runs' constraints. `seen` has the keys that rang, the oddities so far and
whether a page that was left has had a hand in the ringing there is (`loose`, over when
it stops). `ledger` has the tokens the shop took and the oddities still in force: that of
a late answer until the lists are cleared, that of an early Undo until all claims to `busy`
have ended. `mishaps` has what went wrong with which endpoint.

### Steps

* One action per use case. Its guard is the conjunction of the conditions the
  code tests; a use case that fails changes nothing, so it needs no step. The
  exception is `CallBatchRepeating`: `saveBatch` checks every revision first but
  runs in no transaction of its own, so a batch that names a waiting ticket
  twice fails on the unique `(ticket_id, seq)` index after earlier members were
  written, and the request fails without reaping or arming.
* `dispatch` is one step with the use case: load, guard, transition, save,
  broadcast, reap and arm are separated by storage awaits only.
* `AlarmBegin` is `alarm()` up to the SELECT of Tick 2; then one step per
  candidate (`NudgeByWebSocket` or `fanOutPush`), one per answer of the push
  service (`PushAnswer`) and one for the nudge recorded after it
  (`NudgeAfterFanOut`); `AlarmEnd` is Ticks 3 and 4 and the re-arm. Ticks 1, 3
  and 4 await nothing but storage and are atomic. The model also lets requests
  in between two candidates that need no push, which is more than the input
  gate allows and changes nothing for the properties.
* `getAlarm()` is null while `alarm()` runs, so a dispatch inside a sweep arms
  the fallback delay; `AlarmEnd` overwrites it, as `setAlarm` does.
* `Evict` (external) loses the locals of a sweep. The runtime promises to
  deliver an unfinished alarm again, at once, unless an alarm set meanwhile has
  taken its place.
* A customer's action is that of the ticket's own holder: for every other
  handle `authenticateCustomer` fails and nothing changes.
* The fold of a second check-in keeps the first instant while the saved row
  carries the second (`transitions.ts:384`, `projection.ts:252`). `QueueShop`
  follows the row; no guard reads `checkedInAt`. `TicketStore` compares the two.
* Slots are counted in elapsed time: `SlotStart` is `intervalOf(bucketOf(at))`
  on a day without a clock change.

* In `TicketStore` each writer is a use case: it loads one ticket, or several
  for a batch, and then saves, is refused by its own guards, or gets a
  `ConcurrencyError`. `save`, `saveBatch` and `issue` are one step each: they run
  synchronously. `load` is the code's three cases in one: the fold starts at the
  snapshot, or at nothing, and without any event the row is returned. The actor
  never overlaps two use cases, and ADR-0029 calls the revision check a
  fail-safe; the module lets them overlap, since that is what the check and the
  contract of the port are for. The clock is reduced to an instant later than those of the
  tickets written. A use case saves one event, as all in this tree do.
* `AtomicQueue` is the contract of `EventSourcedRepository.ts`: a ticket is
  issued, changed by an accepted transition, or a set of waiting tickets is
  called at once. Its check-in asks for an appointment instant and not for the lane,
  like `CheckIn.ts`. `TicketStore` implements it with `agg` read off the rows. The
  instant of an arrival is reduced to the fact in that mapping (`Blur`), because
  a second check-in makes row and log differ in it.

* A route of `QueueApi` is a list of checks in the order of the code, each with the
  status of its failure, and a step of `QueueShop`. The answer is the status of
  the first check that fails, or the step and its status. Requests range over the
  shapes that can be told apart: whose credential, which ticket or none, a body
  that parses, decodes or does neither. The statuses follow `STATUS_BY_TAG` and the
  literals of the routes.
* `StaffOnly` is the guard of the staff routes. `CancelRoute` takes any
  `x-staff-token` for staff, `RescheduleRoute` only the right one, as in the code.
* A reservation's instant is what the picker writes (`slotInstantOf`), a slot's own
  beginning what the server computes (`intervalOf`); they differ by `UtcOffset`.
* `OpenApi` has no step: it states, of each reachable state, that every well-formed
  request would be answered with a status its path lists.
* In `CustomerApp` a request has three ends: `Answer` at the shop, `Lose` before or
  after it, and `Receive` in the browser, which runs the whole continuation up to the
  next await: cache, alert, chime, navigation, follow-up request. `goto` destroys
  the page and mounts another, with the redirects its `onMount` takes.
* `close(f)` of `QueueFeed` closes a socket that is dialing or open. A timer
  between two sockets is not cancelled, so its feed lives on.
* The ticket page's cancel and reschedule buttons need an open feed and an active ticket;
  what they do is open a dialog (`OpenDialog`). The dialog is modal, and its confirm
  button needs neither (`Operate`): the request goes out whatever feed and ticket have
  come to behind the dialog. Check-in has no dialog.
* In `StaffConsole` a call carries the token it was sent with. `startLiveFeed`
  connects a feed after its refresh whether or not that refresh ended the session.
* `PushClient` splits `subscribeToPush` at its awaits; the abort signal is looked at
  where the code looks at it, and `lastEndpoint` is read after the subscription and
  written after the register. The browser's question may be granted, denied or
  dismissed, which leaves it open and ends the flow; the page's own notification button
  asks it without subscribing (`onRequestNotification`).

`TicketIds` bounds the number of tickets ever issued and `MaxTime` the clock;
`MaxRevision` bounds the events of a ticket and `MaxBatch` the tickets a use
case loads. The web modules bound requests and calls in flight (`MaxFlight`,
`MaxCalls`), page instances (`Slots`), tickets, calls and nudges of a customer
(`MaxTickets`, `MaxKeys`, `MaxHeld`), reconnects (`MaxAttempts`, ten in the code), endpoints
(`MaxEndpoints`) and changes of the shop (`MaxVersion`). In `CustomerApp` a customer
navigates, submits a form or opens a dialog only while two slots are free (`Room`), so that the
pages' own navigation always finds one. `WebBound` (`Regular` for the phone's own
runs) is a state constraint: the run `web` does not follow the phone past its first
oddity (an answer to a page that was left, answers out of order), a push subscription
past its second mishap (a second flow counts as one), or the tablet past an oddity other
than a late answer; past that, and beside a stray feed, it has one call in flight. The
proofs know no such constraint. Section 3 says what the properties promise past an
oddity. Delays are constants, in the same unit as the clock.

## 3. What is checked

`CHECK_DEADLOCK FALSE` everywhere: when the clock has reached `MaxTime` and
every ticket is closed an instance has nothing left to do.

| Run | Instance | Shows |
|---|---|---|
| `sweep` | 1 ticket, 2 endpoints, clock to 8, two nudges, delays of 1 | every timing of one customer's call against requests, answers and evictions in the middle of a sweep |
| `timely` | 2 tickets, clock to 12, delays of 2, fallback 4, fair | the response bound, and that every call comes to an end; identity of two customers' tickets |
| `outage` | expected violation | a total push outage does advance `nudgeCount` |
| `undated` | expected violation | a waiting reservation without an instant is never the next callable |
| `store` | 2 tickets, 2 writers, 4 events each, a snapshot every 2 | overlapping loads, saves and batches come to atomic steps |
| `checkin` | expected violation | a second check-in makes the row differ from its log |
| `batch` | expected violation | a batch with a repeated id is left half written |
| `api` | 2 tickets, 2 customers, 1 slot of capacity 1, clock to 1, a call overdue after 1, other delays of 0, UTC | every route, answered and refused, interleaved with sweeps |
| `timezone` | expected violation, 1 ticket, 2 slots, one unit east of UTC | a picked slot is booked at another instant |
| `web` | phone: 1 handle, 3 page instances, 2 requests in flight, 1 ticket, 1 call, 1 reconnect; push: 2 flows, 3 endpoints, 2 tickets; tablet: 2 tokens, 2 calls in flight, 1 change | the three pages against a network that loses and reorders |
| `ringing` | expected violation, the phone of `web` | the chime goes on over the customer's own cancellation |
| `givenup` | expected violation, the phone of `web` | a page whose feed gave up does not say so, and a call goes unheard |

Why the bounds suffice. In `sweep` the clock allows a whole life (call at 0,
overdue at 2, nudges at 2 and 4, NoShow at 6) with slack for a second call
after a recall and for a sweep that straddles it; two endpoints make a fan-out
with a mixed outcome. Tickets do not interact through time, so the timing
properties need one; identity needs two of each, and is checked in `timely`, where tickets live through every
state. In `timely` the
call happens late enough for other requests to shift the sweeps; the bound is
attained: with one less it is violated. A ticket issued per `TicketIds` means a
second issue by the same holder after a cancellation is a second ticket, which
`timely` reaches. In `store`, four events reach two snapshots with a tail after the
first; a batch of two with one member overtaken by the other writer is the
smallest case in which verifying less than every revision shows. In `api` two
tickets meet on the one slot, pass each other in the queue and fill a batch whose
second member fails; credentials expire within the clock. In `web` three page
instances are the one that is open and two it has left; two requests in flight are
the least that can be answered in the wrong order, two flows the least that can
overlap, and three endpoints allow a rotation before and after a registration. Two mishaps
are one that befalls an endpoint and one beside it that must not matter. The
three parts of `web` share no variable: `role` picks one, so its states are the
sum of theirs. Rescheduling from the ticket page is left to the API run:
`Operations` has cancellation, which closes, and check-in, which is
followed by a refresh as a reschedule is.

### Properties

* `ActiveHandleUnique`, `DisplaySeqUnique`: one active ticket per holder, one
  holder per number, across issue, recall, cancel and re-issue.
* `TerminalHoldsNoSubscription`, `TerminalAbsorbing`: closing wins over a
  registration and a fan-out in flight, and nothing reopens a closed ticket.
* `ActiveKeepsAlarm`: no order of requests, sweeps and evictions leaves an
  active ticket without an alarm pending or running.
* `NudgeSchedule`, `PushAnnouncesRecordedCount`, `NudgeKeepsState`: the row read
  before the await is used after it, and still no ticket is nudged twice, past
  the cap or early, the count pushed is the count recorded, and a request that
  landed in the await is not undone.
* `SystemNoShowNotEarly`, `LapseOnlyAfterGrace`: how long the sweep must have
  waited when it closes a ticket; reschedules during the sweep included.
* `ResolvedInTime`: on a punctual platform a called ticket nobody touches is
  closed within `max(fallback, delay + r) + MaxNudges * (interval + r)` of the
  call, `r` being the re-arm delay. This is where the re-arm, the arming at a
  dispatch and the strict cutoffs have to fit together.
* `CalledEventuallyResolved`: a call leads to an end.
* `RevisionIsLogLength`, `HeldIsCurrent`: the number a save compares does say
  whether the state it was computed from is still the one a load would return,
  across snapshots.
* `LogIsLegal`: no event was decided on a state that somebody else had replaced;
  in the whole log each event finds the ticket in a state the fold honours.
* `LoadAgreesWithRow`: the whole log, the log after the snapshot and the row
  tell the same ticket, its arrival instant aside.
* `StoreIsAtomic`: the store implements `AtomicQueue`.
* `RefusalChangesNothing`, `FeedFollows`: an answer that reports a failure changed
  nothing, and whatever changes what the feed shows is broadcast with it. The
  repeated batch is the exception to both: the comment "failed actions do not
  change shop state" (`QueueShop.ts`, `dispatch`) is why nobody is told.
* `PositionNeverGrows`: the place in line, in the queue and as the ticket page
  counts it from the preview, grows only when somebody is recalled.
* `SlotsViewAgrees`, `RescheduleNeverOverbooks`: the room the picker shows is the room
  a reschedule finds, and a reschedule leaves its slot within capacity. An issue
  asks nobody; bookings off the grid are counted on no slot.
* `AnswersAsDocumented`: the feed, the slots and the answers to well-formed requests
  are those of the OpenAPI document, from which the client's types are generated.
* `ChimeControlled`: a looping chime has its button on the open ticket page. Two things
  break that and are named in the property: the customer's own cancellation (run
  `ringing`), and a page that was left and called back while it rings; the second is
  over with that ringing.
* `AlertsOncePerKey`: a call rings once. The device remembers one
  key: two customers who take turns on it are alerted again, so "once" is about one.
* `CallHeard`, `ClosedTicketIsLeft`: a call rings on the open ticket page, and a closed ticket
  is left, unless the page shows an error or its feed was given up for good. A page
  that reconnects is no excuse: it connects in the end or gives up. That a page which
  gave up shows nothing is the run `givenup`.
* `ForgetsOnlyClosed`: the device forgets a ticket only when the shop has closed it.
* `FeedDiesWithPage`: which feeds outlive their page.
* `DeadRowsAreRemembered`, `SubscribedInTheEnd`: whatever the browser does with its
  subscription, the next flow can find every dead row of the shop and
  ends with the shop able to reach the device. Only an endpoint that itself
  went astray is excepted from the first, however much else went wrong.
* `KeptTokenWasTaken`, `BoardNeedsSession`, `SessionEndsForCause`: the staff session
  begins with an accepted token, ends by the operator, the tab or a refused token, a late
  refusal of an earlier one included, and leaves no names, except those a late answer
  brings back until the next logout.
* `OneActionAtATime`, `BusyEnds`, `BoardCatchesUp`: the busy flag is up exactly while one
  action is under way, but for an Undo pressed during another, until both have ended; it
  is always given back; the board follows the shop or says that it does not.

What the web client does not keep, where a property names an exception. The history
variables mark these cases, each of which the model reaches:

* The boot refresh of a ticket page answered 404 navigates to `/recover`, but
  `onMount` goes on and connects a feed on the page it has destroyed. A feed
  between two sockets survives `close()` as well. Such a feed refreshes the
  old page's ticket: it may ring the chime after "page unmount must always silence
  the loop" (`ticket/+page.svelte:449`), where no button stops it before its
  timeout.
* Answers that arrive in the wrong order let an older row overwrite a newer one,
  repeat an alert or forget a ticket issued in between.
* The ticket id kept for the page is not updated by later refreshes, and a ticket
  issued since is shown without being subscribed for push. The service worker
  listens for `subscriptionchange`, while browsers send `pushsubscriptionchange`:
  a rotation during a visit is noticed at the next one.
* A push registration whose answer was lost, or two overlapping flows, can leave a dead
  row of their endpoint nobody remembers. The 404 or 410 of the next push deletes it.
* A late 401 to a call of an earlier session logs the new one out. A late list shows
  names after a logout. A boot refresh that ended the session still
  connects a feed.
* Undo is never disabled: pressed while another action runs, it overlaps it, and the
  first to end clears the flag of both.

### Fairness

`LiveSpec`, the specification of the run `timely`, adds one
weak-fairness condition to `TimelySpec`: the sweep's steps or the clock go on. The platform delivers alarms at least once and `sendPush`
returns on every outcome of `fetch`; requests are under no fairness at all. The
code gives a push no timeout, so a push service that never answers would
suspend the sweep: that hazard is listed, not assumed away elsewhere (in
`QueueShop`, no answer need ever come). `TimelySpec` has no eviction: an alarm
that a request re-arms by the fallback after each eviction could be put off
for ever, so no response time holds there.

In the web modules the oldest request is answered or fails, what was answered is
handed to the page (weak fairness), the mounted page's socket opens, and a feed
that opens again and again delivers its first message some day (strong fairness:
the actor sends the projection on accepting a socket). A flow of `subscribeToPush`
goes on. Customers, operators, the shop, timers and failures owe nothing, so
`CallHeard` allows for a page that shows an error or has given up its feed, and
`BoardCatchesUp` for one that says so. Most of
these properties read `[]<>P`, for "not P does not last": where P names everything
that ends the obligation this is the same as a leads-to.

### Disagreements between the code and its comments

* `OutageNeverAdvancesCount` (run `outage`). `QueueShop.ts:710` says that a
  total push outage does not advance `nudgeCount` towards a silent NoShow.
  Tick 2 dispatches the nudge whatever the fan-out returned.
* `NextCallableFindsWaiting` (run `undated`). `projection.ts:414` says
  `nextCallable` is null only without waiting tickets, and calls its fallback
  unreachable. A reservation issued without an instant, which neither the schema
  nor `IssueTicket` refuses, is waiting and invisible to it.
* `RowIsFold` (run `checkin`). `projection.ts:254` says that the use case
  prevents a second check-in, and ADR-0029 that a snapshot cannot drift from the
  log. `CheckIn` does not look at `checkedInAt`: the row takes the second
  instant, a load that replays the log keeps the first.
* `PickedSlotIsBooked` (run `timezone`). `slotTime.ts:5` says that the picker writes the
  local time as if it were UTC and that the backend's time-zone-aware decoder
  re-interprets it. The boundary decodes an absolute instant and nobody
  re-interprets it: off UTC the booking is the offset away from the slot it was
  picked for.
* `BatchAllOrNothing` (run `batch`). `EventSourcedRepository.ts:60` promises that
  a batch is rolled back if any append fails. `saveBatch` runs in no transaction
  that an exception would undo; a batch that names a ticket twice, which the
  boundary lets through, fails on the unique index with its earlier members
  written.

* `TerminalEndsChime` (run `ringing`). `chimeController.ts:6` says that the loop ends when
  the page observes a terminal state, and ADR-0081 that observing `Cancelled` silences it.
  The one terminal state a ticket page can show is the customer's own cancellation;
  `onCancelConfirm` (`ticket/+page.svelte:303`) shows it, which removes the button,
  and does not stop the chime. Only its 15 s timeout or leaving the page does.
* `CallHeardOrShown` (run `givenup`). ADR-0061 says that a close other than 1000 "paints the
  reconnect banner". The banner is for `"reconnecting"` only (`ticket/+page.svelte:546`):
  once the feed has given up, its state is `"closed"` and the page, which is never
  refreshed again, looks current.

Met while modelling, without a run of their own. ADR-0072 says that the alarm is set to the
next firing time (line 154) and that a call is over after 60 + 90 * 3 = 330 s (line 164); the
code re-arms by the shortest of its intervals (`QueueShop.ts:832`), its cutoffs are
strict, and so the bound of `ResolvedInTime` is later and attained. `MAX_NUDGES`
may be 0 (`QueueShop.ts:679`): Tick 2 then nudges nobody, Tick 3 asks for a last
nudge, and an overdue ticket stays until staff or customer end it
(`NobodyClosesAtCapZero`). `ticket/+page.svelte:449` says that "page unmount must always
silence the loop": a feed that outlives its page can start it again, see above. `projection.ts:441` calls
`slotOccupancy` the capacity guard of IssueTicket, which does not call it.
`boundarySchemas.ts:117` (`newAppointmentAt`) takes any string, so a
malformed one is answered 500. The OpenAPI document omits 400 everywhere, 422 for the
body of call-next, 429 for the other limited paths, 401 for a cancellation under a wrong
staff token (it has 403), and the routes call-specific, call-batch and
`/tickets/me`. `AnswersAsDocumented` is about the rest.

## 4. What is proved

For all values of the constants allowed by the modules' assumptions: the delays and
bounds are naturals, the cap on nudges included, the snapshot interval and the bound on a log are positive,
`None` and `Null` are no instant, actor, lane, id, row, token, page or fan-out, the forms and targets
of the store's requests name instants, and the slots' instants are among those a
customer may ask for.

* `ProjectionAgrees`: from a source state in which the fold honours the event, applying
  the event a transition mints gives the row the transition returns. For
  check-in this needs that there was none before.
* `Invariant`: `Spec => []IInv`, and from it `TypeCorrect`, `NudgesOnSchedule`,
  `NudgeUndoesNothing`, `ClosedHoldsNoSubscription`, `PushIsAccurate`,
  `NoShowComesLate`, `LapseComesLate`, `ClosedStaysClosed`; `ActiveTicketKeepsAlarm` and
  `IdentityUnique` (with `NumberNamesOneTicket`, its half about numbers) by
  invariants of their own. `ActorKeepsPort`: a step changes a row only by issuing it, or to a
  result that `AtomicQueue` admits for the row as it stands at that step; no decision rests on a row
  read before an await. `ActorAsHoldersSeeIt`: the actor moves a holder's ticket as
  `HolderView` says. `NextCallableIsNext`: whom `nextCallable` returns, and that nobody
  goes before; `NextCallableFinds`, below. On the punctual platform `ResolvedOnSchedule`:
  `TimelySpec => []ResolvedInTime`, for any delays, any positive cap and any number of tickets;
  with a cap of 0, `NobodyClosesAtCapZero`: no step of the sweep changes an overdue ticket.
* `SurfaceImplementsActor`: `ApiSpec => Spec`. Each route is a step of the actor or
  leaves it alone, so every theorem about `QueueShop` holds behind HTTP.
  `RefusalsAreClean`, `FeedNeverMisses`, `PickerTellsTheTruth` and
  `RescheduleKeepsCapacity` are the surface's own, and so is `NobodyMovesBack`:
  `PositionNeverGrows` for any length of the preview. `AnswersListed`
  (`AnswersAsDocumented`) compares it with the OpenAPI document.
* `OptimisticConcurrency`: `RevisionIsLogLength` (alone: `RevisionCountsEvents`) and
  `HeldIsCurrent`, for any number of writers, tickets and events and any snapshot
  interval.
* `StoreIsFold`, which is `StoreTypes`, `LogStaysLegal` and `LoadsAgree` together, and
  `StoreRefinesPort`: `Spec => StoreIsAtomic`, the store implements `AtomicQueue`. In
  both, any number of writers, tickets and events, of members of a batch and any
  snapshot interval. The lemma `ReplayAppend` is the fact about the fold they rest on.
* `StaffTypeCorrect`, `KeptTokensWereTaken`, `LogoutForgets`, `RefusalsEndSessions` and
  `ActionsAreAlone`, of `StaffSpec`, for any number of tokens, calls in flight and changes. No
  behaviour is excluded: the exceptions are those in the properties, which section 3 names, and
  the proofs show that there are no others.
* `PushTypeCorrect` and `DeadRowsStayKnown`, of `PushSpec`, for any number of
  flows, endpoints and tickets, and whatever went wrong with other endpoints.
* `DeviceImplementsParts`: `WebSpec => PhoneSpec /\ PushSpec /\ StaffSpec`, fairness included, so
  what is proved of the parts holds on the whole device; `DeviceTypeCorrect` (`WebTypeOK`)
  is one such consequence.
* `PageExpectsEveryMove` and `PageAssumesTheActor`: the shop that `CustomerApp` assumes makes every
  move of `HolderView` (while the bound on alert keys lasts), and only those.
* Three claims of comments that the code does not keep, each under the one condition whose
  absence breaks it: `NextCallableFinds` (`NextCallableFindsWaiting`, if every reservation is
  issued with an instant), `PickedSlotKept` (`PickedSlotIsBooked`, if the shop's offset is zero) and
  `BatchWithoutRepeatsIsAtomic` (`BatchAllOrNothing`, if no request names a ticket
  twice). The runs `undated`, `timezone` and `batch` show what happens otherwise; with the
  theorems they say that this is all that goes wrong.
* `PhoneTypeCorrect`, `FeedsDieWithPages`, `ChimeIsControlled`, `ForgottenWasClosed` and
  `AlertedOnce` (`AlertsOncePerKey`), of `PhoneSpec`, for any number of pages, requests in flight, customers, tickets and calls.

`MCWeb` runs `PhoneSpec`, `PushSpec` and `StaffSpec` in its three roles and checks the
same properties there.

The argument. `NudgeSchedule` is not inductive: a nudge is recorded from a row
selected earlier. `SelectionFresh` says what is true of every candidate and of
the fan-out in flight: the ticket has left Overdue, or its count and last nudge
are those selected and it was due. `SweepLocals` says that a ticket is selected
once, so no other nudge can move the count in between; `RowTimes` orders the
instants of a row, so that a ticket recalled and called again during the sweep
cannot be Overdue before the next one. The proof splits the steps in two.
Requests are *benign* (`RequestBenign`): each changes a row only to one that is
not Overdue, or leaves its call and nudge fields alone. `BenignKeeps` shows once
that a benign step keeps `IInv`; the sweep's steps are then treated one by
one. Promotion (`PromotedFine`), the nudge (`NudgedFine`) and the closing
(`ClosedFine`) each have a lemma about the row they produce. `IdentityUnique`
needs only that a transition changes neither handle nor number and never makes
a terminal ticket active, and that a new number exceeds every earlier one.

`ResolvedInTime` is about several sweeps, and about nothing that moves in between, so the
argument says what each ticket may count on. `NextBy` is when a ticket's next step is
due at the latest: its promotion, a nudge, its closing. Between sweeps the
alarm is no later than any ticket needs (`Awaited`); in a sweep, which takes no time, each
ticket whose step is due is promoted, selected, or will be closed at the end (`Swept`).
A nudge moves `NextBy` by one interval and one re-arming of the alarm, and the cap bounds
how often.

`OptimisticConcurrency` leaves open what the fold computes and argues about which
part of which log a load folds. `StoreInv` adds that the log is a list whose length
is the row's revision and that a snapshot is never ahead of it. A step then either
raises a ticket's revision by one, after which whatever was loaded is visibly
old, or leaves log, row and snapshot alone (`StoreStep`), after which a load
returns what it returned before (`FitsOn`). There the logs are lists of unspecified
elements (`IsList`).

What the fold computes is `FoldInv`. The library's induction rules are out of
reach (see below), so `TicketsProofs` argues by smallest counterexample: a set of
numbers that is not empty has a smallest member (`SmallestOf`), hence the
recursion of `replay` has a solution for every length (`UptoExists`), and one more event
is one more `applyEvent` (`ReplayAppend`). The invariant therefore never looks
back over a log: `Rebuilt` says of each ticket that the row, what the log folds to and
what the log after the snapshot folds to are the same ticket, and a step appends
one event to each. The three are *alike*, equal but for the instant of arrival,
because the fold keeps the first check-in and the row takes the last (the run
`checkin`). So it has to be shown that nothing else depends on that instant: alike tickets
allow the same transitions and mint the same events (`TransitionsAlike`,
`DecidesAlike`), and an event that is honoured on one is on the other
(`ContinuesAlike`). `Drafts` adds what a use case between load and save holds: if the
revision has not moved on, the entity it decided on is alike the row. With that, a save
that passes its check is the step `AtomicQueue` takes (`SaveRefines`,
`BatchRefines`), loads and conflicts leave what is committed alone, and the arrival
instant is what the mapping blurs.

`PickerTellsTheTruth` and `RescheduleKeepsCapacity` compare cardinalities, so they
need the set of held tickets to be finite (`HeldFinite`: one more per issue). On
the grid the slot's own instant is the only one that falls into it, so both
counts are of the same set; a reschedule leaves every other booking where it
was, hence at most one more than the guard counted. `FeedNeverMisses` rests on
the dispatch being the only writer of rows. For `AnswersListed` the checks of a
route are lists, and `Answering` says that those that fail bear a status of a set: it
suffices to go through the pieces (`BoundaryAnswers`, `UseCaseAnswers`), since the first
that fails answers (`VerdictAnswers`). The feed has the documented shape because
every projection of rows has (`ProjectionType`).

The staff page's steps are functions of a *world* (page, storage, calls), and the
lemmas say what each function keeps. `Kept` adds to the types that tokens the
page holds, and those of calls the shop answered, were taken, and that a closed tab
has neither session nor calls. `LogoutForgets` then needs that an answer which
is not late bears the session's token. For `ActionsAreAlone`, `Alone` adds to the property
when its exception is over: an early Undo is on record only while a claim is in
flight. Receiving a call removes it from the list (`RemovedCall`), and a new one is
appended.

For `NobodyMovesBack`, without a recall whoever waits after a step waited before it or
was issued by it behind everybody (`LineStep`), so the set of those ahead shrinks. The
page counts in a broadcast that the repeated batch leaves behind the queue; `Previews`
is what such a broadcast still says: its tickets exist in the order it gives, and
nobody who waits is missing in front of one of them.

In `PushClient` the argument goes endpoint by endpoint. `Tidy` says that a flow with an endpoint
in hand is alone, or that endpoint is on record as astray. A flow alone that is about to
register finds no regular row of another endpoint, because it has just unregistered the
remembered one; a flow still busy for a closed ticket registers nothing. So a
row of an endpoint that is not astray names what localStorage remembers, or what a
flow is about to write there.

In `CustomerAppProofs` the browser is one record that the code's functions rewrite, several
per step. `Standing` is what holds between any two of them: requests belong to the
pages that sent them, a page waits in its boot for at most one of them, a page that was
left is booting, between two sockets or has no feed, and what rings is on a ticket
page that knows. Each function has a lemma that it keeps
`Standing`, and each answer's handler is a chain of them. Ringing is the delicate part
(`Handled`): a handler may start the chime only on the mounted page, or the step
records that the ringing is loose until it stops. `ForgottenWasClosed` needs what an answer in flight is worth:
when the shop has said that a handle has no ticket, neither the cache nor an older answer
names a ticket that the handle has now, since whatever it has was issued later (`Missed`).
Answers in their order keep that, and `Sits` says that the mounted ticket page is
about the handle in the cache.

`AlertedOnce` follows a call from the shop's counter to the device. The shop numbers its
calls, a ticket's row bears the newest, and what is in flight to a device that was told in
order bears them in that order (`InOrder`). The device remembers only the last one it
alerted: so every call still to be told must be newer than all that rang, or the one
remembered (`Unheard`). The memory is erased when the shop answers that there is no
ticket; hence what is called after such an answer must be newer than all that rang and
all that the answers before it bring (`Newer`). It is: while there is no ticket there is
no call, and a later one gets a new number.

How the modules fit. The transitions are listed once with the states they accept and what
`AtomicQueue` decides (`DecisionsListed`, `DecisionContinues`); `UseCaseStep` shows that
each changed row of a step of `QueueShop` is an issue or one of those, and everything that
depends only on the kind of change follows from it: `ActorKeepsPort`, the holder's view (`SeenFollows`, with
`IdentityUnique` for "at most one ticket"), and that reservations keep an instant
(`ReservationsStayDated`). For `NextCallableIsNext` the orders are what matters: a set of held tickets that is not empty has an
earliest one (`EarliestExists`), by number or by instant. A batch without repeats
loads and saves each ticket once, so when the revision check passes for all of them no insert fails
(`BatchWhole`). In `WebProofs` each step of the device is a step of one part and leaves the
variables of the others alone.

Model-checked only: liveness (`CalledEventuallyResolved`, `CallHeard`, `ClosedTicketIsLeft`,
`SubscribedInTheEnd`, `BusyEnds`, `BoardCatchesUp`). Of the claims that a run refutes, `OutageNeverAdvancesCount`,
`RowIsFold`, `TerminalEndsChime` and `CallHeardOrShown` have no theorem of this kind: the code contradicts the first
outright, what is left of the second is `LoadsAgree` and of the third `ChimeIsControlled`, and the fourth is liveness. Liveness under fairness and ENABLED are outside the prover's reach, and so
are the library's induction theorems, which take an operator; the fold over a log goes
by smallest counterexample instead. No module that is proved about uses a RECURSIVE
operator.

## 5. Not modelled

* The encryption and signing of a push, the signing of a session: cryptography
  without state of its own. The counting of the rate limiter: a platform service;
  a limited route may refuse at any time.
* Headers, trace ids, request logs, redaction: output. A deployment without
  secrets, which answers 503 on the staff routes.
* Days with a clock change: `bucketOf` counts wall-clock minutes and `intervalOf`
  elapsed time, and the slots here are in elapsed time. Instants below the
  second, and environment variables that are not numbers.
* The in-memory repository, used by tests only. It returns the row where the SQLite
  one folds the log, and a batch naming a ticket twice desynchronises its
  revision.
* The wait estimate: nothing in the application calls it. The backoff schedule
  and the outbox: nothing drains it. D1 statements of the purge and the audit log:
  nothing modelled reads those tables.
* Of the pages: texts, layout, the forms' fields, the QR code, search and chips, a
  customer's second tab. Scripts and fuzzers.

## 6. Plan

Modelled, checked and, as far as section 4 says, proved: every module of the table
in section 2. What would come next:

1. `SlotStart` on a day with a clock change, and the range of days the slot list
   covers.
2. A second tab of the same customer: one localStorage under two pages.
