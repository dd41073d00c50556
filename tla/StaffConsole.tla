---------------------------- MODULE StaffConsole ----------------------------
(***************************************************************************)
(* The counter's tablet: apps/web/src/routes/staff/+page.svelte with       *)
(* lib/staffSession.ts and the toast.  A session is committed after a      *)
(* probe, kept in localStorage and ended by the operator or by an answer   *)
(* that says the token is not accepted; a board of tickets is asked for    *)
(* after every message of the feed; one action runs at a time.             *)
(*                                                                         *)
(* The shop's tickets are a version number, which every change increases,  *)
(* and its STAFF_TOKEN may be rotated.  Which ticket a button is about,    *)
(* search, expansion, chips and the arrival cue are left out, and the page *)
(* is left by closing its tab.  Every call is answered late, out of order  *)
(* or not at all.                                                          *)
(***************************************************************************)
EXTENDS QueueFeed, Sequences, SequencesExt, FiniteSets

CONSTANTS
  Tokens,      \* what an operator may type, and what the secret may be
  MaxCalls,    \* bound on the calls in flight
  MaxVersion   \* bound on the changes of the shop

ASSUME StaffAssumption ==
  /\ MaxCalls \in Nat /\ MaxVersion \in Nat
  /\ Tokens # {} /\ None \notin Tokens

VARIABLES
  secret,    \* the shop: STAFF_TOKEN
  version,   \* the shop: its tickets
  storage,   \* the browser: queue.staffToken
  desk,      \* the page
  calls,     \* the page's requests
  ledger     \* history: tokens the shop took, and oddities

staffVars == << secret, version, storage, desk, calls, ledger >>

Desk == [mounted : BOOLEAN,
         session : Tokens \cup {None},
         board   : (0..MaxVersion) \cup {None},  \* the lists of the last refresh
         busy    : BOOLEAN,
         error   : BOOLEAN,
         undo    : BOOLEAN,   \* the toast offers Undo
         feed    : Feed,
         stray   : BOOLEAN]  \* a feed of an earlier session lives on

\* Before onMount, and what a closed tab leaves.
NoDesk == [mounted |-> FALSE, session |-> None, board |-> None, busy |-> FALSE,
           error |-> FALSE, undo |-> FALSE, feed |-> NoFeed, stray |-> FALSE]

\* The refresh that startLiveFeed awaits ends a login or the boot.
BoardCall == {"refresh", "loginRefresh", "bootRefresh"}

StaffAction == {"callSpecific", "other"}   \* only the first can be undone

CallKind == BoardCall \cup StaffAction \cup {"probe"}

Call == [kind   : CallKind,
         token  : Tokens,
         status : {"sent", "ok", "MissingStaffCapability", "failed"},
         board  : (0..MaxVersion) \cup {None}]

NewCall(kind, token) ==
  [kind |-> kind, token |-> token, status |-> "sent", board |-> None]

StaffOddity == {"late",       \* since the lists were cleared last, an answer to
                              \* a call of another session has come
                "overtaken",  \* a board was sent or received out of order
                "undo"}       \* since the last moment without a claim to busy in
                              \* flight, Undo was pressed while there was one

-----------------------------------------------------------------------------
(* The page and what it keeps: desk, storage and calls change together.    *)

Now == [desk |-> desk, storage |-> storage, calls |-> calls]

Becomes(w) ==
  /\ Len(w.calls) <= MaxCalls
  /\ desk' = w.desk /\ storage' = w.storage /\ calls' = w.calls

\* The calls of a list whose end gives busy back, and the oddities that are
\* over when the page has become w.
Claims(list) == {n \in DOMAIN list : list[n].kind \notin {"refresh", "bootRefresh"}}

Over(w) == (IF w.desk.board = None THEN {"late"} ELSE {})
             \cup (IF Claims(w.calls) = {} THEN {"undo"} ELSE {})

\* currentToken() is read when the call is made; without one none is.
refreshBoard(w, kind) ==
  IF w.desk.session = None THEN w
  ELSE [w EXCEPT !.calls = Append(@, NewCall(kind, w.desk.session))]

\* Slip: the lists stay.
onLogoutKeepingLists(w) ==
  [w EXCEPT !.storage = None,
            !.desk.session = None, !.desk.error = FALSE, !.desk.feed = NoFeed]

\* A toast outlives the session, and so does a feed that is between two
\* sockets, which close() does not stop.
onLogout(w) ==
  [w EXCEPT !.storage = None,
            !.desk.session = None, !.desk.board = None, !.desk.error = FALSE,
            !.desk.stray = @ \/ FeedAlive(close(w.desk.feed)),
            !.desk.feed = NoFeed]

\* Slip: a board that cannot be fetched ends the session.
boardArrivesOrLogout(w, c) ==
  IF c.status = "ok"
  THEN [w EXCEPT !.desk.board = c.board, !.desk.error = FALSE]
  ELSE onLogout(w)

\* refresh(), after its await.  The session is not looked at again.
boardArrives(w, c) ==
  CASE c.status = "ok" -> [w EXCEPT !.desk.board = c.board, !.desk.error = FALSE]
    [] c.status = "MissingStaffCapability" -> onLogout(w)
    [] OTHER -> [w EXCEPT !.desk.error = TRUE]

\* startLiveFeed, after its await: a feed is connected, session or not.
startLiveFeed(w) ==
  [w EXCEPT !.desk.feed = IF @ = NoFeed THEN connectQueueFeed ELSE @]

\* Slip: the token is kept whatever the shop says of it.
probeArrivesPersisting(w, c) ==
  refreshBoard([w EXCEPT !.storage = c.token, !.desk.session = c.token],
               "loginRefresh")

\* onLogin, after its probe: only a token the shop took is kept.
probeArrives(w, c) ==
  IF c.status = "ok"
  THEN refreshBoard([w EXCEPT !.storage = c.token, !.desk.session = c.token],
                    "loginRefresh")
  ELSE [w EXCEPT !.desk.error = TRUE, !.desk.busy = FALSE]

\* Slip: the early return of a refused token leaves busy set.
actionArrivesStuck(w, c) ==
  CASE c.status = "ok" -> refreshBoard([w EXCEPT !.desk.busy = FALSE], "refresh")
    [] c.status = "MissingStaffCapability" -> onLogout(w)
    [] OTHER -> [w EXCEPT !.desk.busy = FALSE, !.desk.error = TRUE]

\* runAction, after its await.  A failure that is not about the token is
\* shown and not followed by a refresh.
actionArrives(w, c) ==
  LET idle == [w EXCEPT !.desk.busy = FALSE]
  IN  CASE c.status = "ok" ->
             refreshBoard([idle EXCEPT
               !.desk.undo = c.kind = "callSpecific"], "refresh")
        [] c.status = "MissingStaffCapability" -> onLogout(idle)
        [] OTHER -> [idle EXCEPT !.desk.error = TRUE, !.desk.undo = FALSE]

Arrived(w, c) ==
  CASE c.kind = "refresh" -> boardArrives(w, c)
    [] c.kind = "bootRefresh" -> startLiveFeed(boardArrives(w, c))
    [] c.kind = "loginRefresh" ->
         [startLiveFeed(boardArrives(w, c)) EXCEPT !.desk.busy = FALSE]
    [] c.kind = "probe" -> probeArrives(w, c)
    [] OTHER -> actionArrives(w, c)

-----------------------------------------------------------------------------
(* The operator.                                                           *)

\* readStoredSession: a credential kept from an earlier visit is a session
\* before the shop has seen it.
OpenDesk ==
  /\ ~desk.mounted
  /\ Becomes(refreshBoard([Now EXCEPT
       !.desk = [NoDesk EXCEPT !.mounted = TRUE, !.session = storage]],
       "bootRefresh"))
  /\ UNCHANGED << secret, version, ledger >>

\* The tab is closed: nothing runs on.
CloseDesk ==
  /\ desk.mounted
  /\ LET w == [Now EXCEPT !.desk = NoDesk, !.calls = << >>]
     IN  Becomes(w) /\ ledger' = [ledger EXCEPT !.odd = @ \ Over(w)]
  /\ UNCHANGED << secret, version >>

onLogin(token) ==
  /\ desk.mounted /\ desk.session = None /\ ~desk.busy
  /\ Becomes([Now EXCEPT !.desk.busy = TRUE, !.desk.error = FALSE,
                         !.calls = Append(@, NewCall("probe", token))])
  /\ UNCHANGED << secret, version, ledger >>

LogOut ==
  /\ desk.mounted /\ desk.session # None
  /\ Becomes(onLogout(Now))
  /\ ledger' = [ledger EXCEPT !.odd = @ \ Over(onLogout(Now))]
  /\ UNCHANGED << secret, version >>

\* Slip: the buttons stay enabled.
runActionEnabled(kind) ==
  Becomes([Now EXCEPT !.desk.error = FALSE,
                      !.calls = Append(@, NewCall(kind, desk.session))])

runAction(kind) ==
  Becomes([Now EXCEPT !.desk.busy = TRUE, !.desk.error = FALSE,
                      !.calls = Append(@, NewCall(kind, desk.session))])

\* The buttons of a card are disabled while busy.
Press(kind) ==
  /\ desk.session # None /\ desk.board # None /\ ~desk.busy
  /\ runAction(kind)
  /\ UNCHANGED << secret, version, ledger >>

\* The toast's Undo recalls the ticket just called; it is never disabled.
handleUndo ==
  /\ desk.session # None /\ desk.undo
  /\ Becomes([Now EXCEPT !.desk.busy = TRUE, !.desk.error = FALSE,
                         !.desk.undo = FALSE,
                         !.calls = Append(@, NewCall("other", desk.session))])
  /\ ledger' = [ledger EXCEPT !.odd = @ \cup (IF desk.busy THEN {"undo"} ELSE {})]
  /\ UNCHANGED << secret, version >>

\* Five seconds, or the operator's tap.
onDismiss ==
  /\ desk.session # None /\ desk.undo
  /\ desk' = [desk EXCEPT !.undo = FALSE]
  /\ UNCHANGED << secret, version, storage, calls, ledger >>

-----------------------------------------------------------------------------
(* Answers and the feed.                                                   *)

IsBoard(n) == calls[n].kind \in BoardCall

\* The oddities of receiving call n.
OddArrival(n) ==
  (IF calls[n].kind # "probe" /\ calls[n].token # desk.session THEN {"late"} ELSE {})
  \cup (IF IsBoard(n) /\ \E m \in 1..(n - 1) : IsBoard(m) THEN {"overtaken"} ELSE {})

ReceiveCall(n) ==
  /\ n \in DOMAIN calls
  /\ calls[n].status # "sent"
  /\ LET w == Arrived([Now EXCEPT !.calls = RemoveAt(@, n)], calls[n])
     IN  /\ Becomes(w)
         /\ ledger' = [ledger EXCEPT !.odd = (@ \cup OddArrival(n)) \ Over(w)]
  /\ UNCHANGED << secret, version >>

DeskFeed(f) ==
  /\ desk' = [desk EXCEPT !.feed = f]
  /\ UNCHANGED << secret, version, storage, calls, ledger >>

DeskFeedConnects ==
  \/ Dialing(desk.feed) /\ DeskFeed(onopen(desk.feed))
  \/ desk.feed.phase = "delay" /\ DeskFeed(reconnect(desk.feed))

DeskFeedDrops ==
  /\ Dialing(desk.feed) \/ desk.feed.phase = "open"
  /\ DeskFeed(onclose(desk.feed))

\* Slip: the message is taken for news about itself.
DeskFeedDeliversSilently ==
  /\ desk.feed.news
  /\ Becomes([Now EXCEPT !.desk.feed = onmessage(@)])
  /\ UNCHANGED << secret, version, ledger >>

\* A stray feed reconnects, and then delivers like any other.
StrayFeedDelivers ==
  /\ desk.stray
  /\ Becomes(refreshBoard(Now, "refresh"))
  /\ UNCHANGED << secret, version, ledger >>

DeskFeedDelivers ==
  /\ desk.feed.news
  /\ Becomes(refreshBoard([Now EXCEPT !.desk.feed = onmessage(@)], "refresh"))
  /\ UNCHANGED << secret, version, ledger >>

-----------------------------------------------------------------------------
(* The shop and the network.                                               *)

\* Somebody took a ticket, was served, ...: every socket is told.
BoardChanges ==
  /\ version < MaxVersion
  /\ version' = version + 1
  /\ desk' = [desk EXCEPT !.feed = broadcast(@)]
  /\ UNCHANGED << secret, storage, calls, ledger >>

\* A deployment with another STAFF_TOKEN, not one that was used before.
RotateSecret(token) ==
  /\ token \notin ledger.taken \cup {secret}
  /\ secret' = token
  /\ UNCHANGED << version, storage, desk, calls, ledger >>

AnswerCall(n) ==
  /\ n \in DOMAIN calls
  /\ calls[n].status = "sent"
  /\ LET c == calls[n]
         odd == IF /\ IsBoard(n)
                   /\ \E m \in 1..(n - 1) : IsBoard(m) /\ calls[m].status = "sent"
                THEN {"overtaken"} ELSE {}
     IN  IF c.token # secret
         THEN /\ calls' = [calls EXCEPT ![n].status = "MissingStaffCapability"]
              /\ UNCHANGED << version, desk, ledger >>
         ELSE /\ IF c.kind \in StaffAction
                 THEN /\ version < MaxVersion
                      /\ version' = version + 1
                      /\ desk' = [desk EXCEPT !.feed = broadcast(@)]
                 ELSE UNCHANGED << version, desk >>
              /\ calls' = [calls EXCEPT ![n].status = "ok", ![n].board = version]
              /\ ledger' = [ledger EXCEPT !.taken = @ \cup {c.token},
                                          !.odd = @ \cup odd]
  /\ UNCHANGED << secret, storage >>

\* A colleague was faster (409), a rate limit, or a connection that failed
\* before or after the shop has acted: the page does the same for each.
FailCall(n) ==
  /\ n \in DOMAIN calls
  /\ calls[n].status # "failed"
  /\ calls' = [calls EXCEPT ![n].status = "failed", ![n].board = None]
  /\ UNCHANGED << secret, version, storage, desk, ledger >>

StaffInit ==
  /\ secret = CHOOSE token \in Tokens : TRUE  \* tokens are interchangeable
  /\ version = 0 /\ storage = None /\ desk = NoDesk /\ calls = << >>
  /\ ledger = [taken |-> {}, odd |-> {}]

StaffNext ==
  \/ OpenDesk \/ CloseDesk \/ LogOut \/ handleUndo \/ onDismiss
  \/ \E token \in Tokens : onLogin(token) \/ RotateSecret(token)
  \/ \E kind \in StaffAction : Press(kind)
  \/ \E n \in 1..MaxCalls :
       ReceiveCall(n) \/ AnswerCall(n) \/ FailCall(n)
  \/ DeskFeedConnects \/ DeskFeedDrops \/ DeskFeedDelivers \/ StrayFeedDelivers
  \/ BoardChanges

\* As for the customer: the oldest call ends, a socket opens, and one that
\* keeps opening delivers its first message some day.
StaffFairness ==
  /\ WF_staffVars(AnswerCall(1) \/ FailCall(1))
  /\ WF_staffVars(ReceiveCall(1))
  /\ WF_staffVars(DeskFeedConnects)
  /\ SF_staffVars(DeskFeedDelivers)

StaffSpec == StaffInit /\ [][StaffNext]_staffVars /\ StaffFairness

-----------------------------------------------------------------------------
(* Properties.                                                             *)

\* Every variable has its type.
StaffTypeOK ==
  /\ secret \in Tokens
  /\ version \in 0..MaxVersion
  /\ storage \in Tokens \cup {None}
  /\ desk \in Desk
  /\ calls \in Seq(Call) /\ Len(calls) <= MaxCalls
  /\ ledger \in [taken : SUBSET Tokens, odd : SUBSET StaffOddity]

\* The session of the page is the stored one.  The customers' names and numbers
\* are in memory during a session only: a logout clears them, and what brings
\* them back without a session is an answer to a call of an ended one, which
\* the code does not look at again.  They stay until the next logout.
BoardNeedsSession ==
  /\ desk.session \in {None, storage}
  /\ desk.board # None => desk.session # None \/ "late" \in ledger.odd

\* Verify before flip: what localStorage holds across reloads, and every
\* session, is a token the shop took at least once.
KeptTokenWasTaken ==
  /\ storage # None => storage \in ledger.taken
  /\ desk.session # None => desk.session \in ledger.taken

\* A session ends by the operator's hand, with the tab, or by an answer that
\* refuses a token: not by a call that was lost, limited or in conflict.  The
\* token refused is the session's own, unless the answer is to a call of an
\* earlier session, which ends this one as well.
SessionEndsForCause ==
  [][desk.session # None /\ desk'.session = None /\ desk'.mounted
       => \/ LogOut
          \/ \E n \in DOMAIN calls :
               /\ calls[n].status = "MissingStaffCapability"
               /\ ReceiveCall(n)]_staffVars

\* The flag all buttons share is up exactly while one login, action or recall is
\* under way, and never two of them.  Only Undo, which is never disabled, breaks
\* it, by being pressed while one is; and no longer than until all have ended.
OneActionAtATime ==
  \/ "undo" \in ledger.odd
  \/ desk.busy /\ \E n \in DOMAIN calls : Claims(calls) = {n}
  \/ ~desk.busy /\ Claims(calls) = {}

\* The buttons and the login form come back, whatever becomes of the call.
BusyEnds == []<>(~desk.busy)

\* The board catches up with the last change while the feed lives, or the page
\* shows that it did not.
BoardCatchesUp ==
  []<>(\/ desk.session = None
       \/ desk.board = version
       \/ desk.error
       \/ desk.feed.phase = "closed"
       \/ "overtaken" \in ledger.odd)

=============================================================================
