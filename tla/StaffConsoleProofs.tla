------------------------- MODULE StaffConsoleProofs -------------------------
(***************************************************************************)
(* Proofs about the counter's tablet, for any number of tokens, calls in   *)
(* flight and changes of the shop.                                         *)
(*                                                                         *)
(* The page, its storage and its calls change together, so most facts are  *)
(* stated of a World that holds the three, and of each function that takes *)
(* one world to the next.                                                  *)
(***************************************************************************)
EXTENDS StaffConsole, SequenceTheorems, FiniteSetTheorems, TLAPS

World == [desk : Desk, storage : Tokens \cup {None}, calls : Seq(Call)]

\* A world whose tokens the shop took: the kept one, that of the session, and
\* those of the calls it answered.
Honest(w, taken) ==
  /\ w \in World
  /\ w.storage # None => w.storage \in taken
  /\ w.desk.session # None => w.desk.session \in taken
  /\ \A n \in DOMAIN w.calls : w.calls[n].status = "ok" => w.calls[n].token \in taken

\* The inductive invariant of types and tokens.  Nothing is in flight for a
\* closed tab.
Kept ==
  /\ StaffTypeOK
  /\ Honest(Now, ledger.taken)
  /\ ~desk.mounted => desk.session = None /\ calls = << >>

-----------------------------------------------------------------------------
(* The calls and the feed.                                                 *)

\* What is left when one call is received.
LEMMA RemovedCall ==
  ASSUME NEW s \in Seq(Call), NEW n \in 1 .. Len(s)
  PROVE  /\ RemoveAt(s, n) \in Seq(Call)
         /\ Len(RemoveAt(s, n)) = Len(s) - 1
         /\ \A m \in 1 .. Len(s) - 1 :
              RemoveAt(s, n)[m] = s[IF m < n THEN m ELSE m + 1]
<1> DEFINE before == SubSeq(s, 1, n - 1)
           after == SubSeq(s, n + 1, Len(s))
<1>1. Len(s) \in Nat /\ \A m \in 1 .. Len(s) : s[m] \in Call
  OBVIOUS
<1>2. /\ before \in Seq(Call) /\ Len(before) = n - 1
      /\ \A m \in 1 .. n - 1 : before[m] = s[m]
  BY <1>1, SubSeqProperties
<1>3. /\ after \in Seq(Call) /\ Len(after) = Len(s) - n
      /\ \A m \in 1 .. Len(s) - n : after[m] = s[n + m]
  BY <1>1, SubSeqProperties
<1>4. RemoveAt(s, n) = before \o after
  BY DEF RemoveAt
<1> HIDE DEF before, after
<1>5. /\ before \o after \in Seq(Call)
      /\ Len(before \o after) = Len(before) + Len(after)
      /\ \A m \in 1 .. Len(before) + Len(after) :
           (before \o after)[m] = IF m <= Len(before) THEN before[m]
                                  ELSE after[m - Len(before)]
  BY <1>2, <1>3, ConcatProperties
<1>6. ASSUME NEW m \in 1 .. Len(s) - 1
      PROVE  (before \o after)[m] = s[IF m < n THEN m ELSE m + 1]
  <2>1. CASE m < n
    BY <1>1, <1>2, <1>3, <1>5, <2>1
  <2>2. CASE m >= n
    <3>1. m - Len(before) \in 1 .. Len(s) - n /\ ~(m <= Len(before))
      BY <1>1, <1>2, <2>2
    <3>2. (before \o after)[m] = after[m - Len(before)]
      BY <1>1, <1>2, <1>3, <1>5, <3>1
    <3>3. after[m - Len(before)] = s[n + (m - Len(before))]
      BY <1>3, <3>1
    <3>4. n + (m - Len(before)) = m + 1 /\ ~(m < n)
      BY <1>1, <1>2, <2>2
    <3> QED
      BY <3>2, <3>3, <3>4
  <2>3. m < n \/ m >= n
    BY <1>1
  <2> QED
    BY <2>1, <2>2, <2>3, Zenon
<1> QED
  BY <1>1, <1>2, <1>3, <1>4, <1>5, <1>6

\* Every callback of a feed's socket makes a feed of it.
LEMMA FeedType ==
  ASSUME NEW f \in Feed
  PROVE  /\ NoFeed \in Feed /\ connectQueueFeed \in Feed
         /\ onopen(f) \in Feed /\ onmessage(f) \in Feed /\ onclose(f) \in Feed
         /\ reconnect(f) \in Feed /\ close(f) \in Feed /\ broadcast(f) \in Feed
<1>1. /\ 0 \in 0 .. MaxAttempts /\ f.attempt \in 0 .. MaxAttempts
      /\ f.phase \in {"none", "connecting", "open", "delay", "retrying", "closed"}
  BY FeedAssumption DEF Feed
<1>2. NoFeed \in Feed
  BY <1>1 DEF NoFeed, Feed
<1>3. connectQueueFeed \in Feed
  BY <1>2, Zenon DEF connectQueueFeed, Feed
<1>4. onopen(f) \in Feed /\ onmessage(f) \in Feed /\ reconnect(f) \in Feed
  BY <1>1, Zenon DEF onopen, onmessage, reconnect, Feed
<1>5. onclose(f) \in Feed
  <2>1. CASE f.manualClose \/ f.attempt >= MaxAttempts
    BY <2>1, Zenon DEF onclose, Feed
  <2>2. CASE ~(f.manualClose \/ f.attempt >= MaxAttempts)
    <3>1. f.attempt + 1 \in 0 .. MaxAttempts
      BY <1>1, <2>2, FeedAssumption
    <3> QED
      BY <2>2, <3>1, Zenon DEF onclose, Feed
  <2> QED
    BY <2>1, <2>2
<1>6. close(f) \in Feed
  <2> DEFINE m == f.manualClose \/ f.phase # "none"
             p == IF Dialing(f) \/ f.phase = "open" THEN "closed" ELSE f.phase
  <2>1. m \in BOOLEAN
    OBVIOUS
  <2>2. p \in {"none", "connecting", "open", "delay", "retrying", "closed"}
    BY <1>1
  <2>3. close(f) = [f EXCEPT !.manualClose = m, !.phase = p, !.news = FALSE]
    BY Zenon DEF close
  <2> HIDE DEF m, p
  <2>4. [f EXCEPT !.manualClose = m, !.phase = p, !.news = FALSE] \in Feed
    BY <2>1, <2>2, Zenon DEF Feed
  <2> QED
    BY <2>3, <2>4, Zenon
<1>7. broadcast(f) \in Feed
  BY Zenon DEF broadcast, Feed
<1> QED
  BY <1>2, <1>3, <1>4, <1>5, <1>6, <1>7, Zenon


-----------------------------------------------------------------------------
(* What each handler makes of a world.                                     *)

\* A refresh asks on behalf of the session, and changes nothing else.
LEMMA RefreshKeeps ==
  ASSUME NEW taken, NEW w, Honest(w, taken), NEW kind \in BoardCall
  PROVE  LET v == refreshBoard(w, kind)
         IN  Honest(v, taken) /\ v.desk = w.desk /\ v.storage = w.storage
<1> DEFINE c == NewCall(kind, w.desk.session)
           v == refreshBoard(w, kind)
<1>1. /\ w.desk \in Desk /\ w.storage \in Tokens \cup {None}
      /\ w.calls \in Seq(Call) /\ w \in World
  BY DEF Honest, World
<1>2. CASE w.desk.session = None
  BY <1>2 DEF refreshBoard
<1>3. CASE w.desk.session # None
  <2>1. w.desk.session \in Tokens
    BY <1>1, <1>3 DEF Desk
  <2>2. c \in Call /\ c.status = "sent"
    BY <2>1 DEF NewCall, Call, CallKind
  <2>3. v = [w EXCEPT !.calls = Append(w.calls, c)]
    BY <1>3, Zenon DEF refreshBoard
  <2> HIDE DEF v, c
  <2>4. Append(w.calls, c) \in Seq(Call)
    BY <1>1, <2>2
  <2>5. /\ v.desk = w.desk /\ v.storage = w.storage
        /\ v.calls = Append(w.calls, c) /\ v \in World
    BY <1>1, <2>3, <2>4 DEF World
  <2>6. \A n \in DOMAIN v.calls : v.calls[n].status = "ok" => v.calls[n].token \in taken
    BY <1>1, <2>2, <2>5 DEF Honest
  <2> QED
    BY <2>5, <2>6 DEF Honest, v
<1> QED
  BY <1>2, <1>3

\* A logout forgets the session and its token, and leaves the calls.
LEMMA LogoutKeeps ==
  ASSUME NEW taken, NEW w, Honest(w, taken)
  PROVE  LET v == onLogout(w)
         IN  /\ Honest(v, taken) /\ v.calls = w.calls /\ v.storage = None
             /\ v.desk.session = None /\ v.desk.board = None
             /\ v.desk.mounted = w.desk.mounted /\ v.desk.busy = w.desk.busy
<1> DEFINE alive == w.desk.stray \/ FeedAlive(close(w.desk.feed))
           d == [w.desk EXCEPT !.session = None, !.board = None, !.error = FALSE,
                               !.stray = alive, !.feed = NoFeed]
           v == onLogout(w)
<1>1. /\ w.desk \in Desk /\ w.storage \in Tokens \cup {None}
      /\ w.calls \in Seq(Call) /\ w \in World
  BY DEF Honest, World
<1>2. NoFeed \in Feed /\ alive \in BOOLEAN
  <2>1. w.desk.feed \in Feed
    BY <1>1 DEF Desk
  <2> QED
    BY <2>1, FeedType
<1>3. v = [w EXCEPT !.storage = None, !.desk = d]
  BY <1>1, Zenon DEF onLogout, World, Desk
<1> HIDE DEF alive, v
<1>4. /\ d \in Desk /\ d.session = None /\ d.board = None
      /\ d.mounted = w.desk.mounted /\ d.busy = w.desk.busy
  BY <1>1, <1>2, Zenon DEF Desk
<1> HIDE DEF d
<1>5. v \in World /\ v.desk = d /\ v.storage = None /\ v.calls = w.calls
  BY <1>1, <1>3, <1>4 DEF World
<1> QED
  BY <1>4, <1>5 DEF Honest, v


\* A board that arrives is shown, ends the session or is an error.
LEMMA BoardKeeps ==
  ASSUME NEW taken, NEW w, Honest(w, taken), NEW c \in Call
  PROVE  LET v == boardArrives(w, c)
         IN  /\ Honest(v, taken) /\ v.calls = w.calls
             /\ v.desk.mounted = w.desk.mounted /\ v.desk.busy = w.desk.busy
             /\ \/ /\ v.desk.session = w.desk.session /\ v.storage = w.storage
                   /\ v.desk.board = w.desk.board \/ c.status = "ok"
                \/ /\ c.status = "MissingStaffCapability"
                   /\ v.desk.session = None /\ v.desk.board = None
<1> DEFINE v == boardArrives(w, c)
<1>1. /\ w.desk \in Desk /\ w.storage \in Tokens \cup {None}
      /\ w.calls \in Seq(Call) /\ w \in World /\ c.board \in (0..MaxVersion) \cup {None}
  BY DEF Honest, World, Call
<1>2. CASE c.status = "ok"
  <2> DEFINE d == [w.desk EXCEPT !.board = c.board, !.error = FALSE]
  <2>1. v = [w EXCEPT !.desk = d]
    BY <1>1, <1>2, Zenon DEF boardArrives, World, Desk
  <2>2. /\ d \in Desk /\ d.session = w.desk.session
        /\ d.mounted = w.desk.mounted /\ d.busy = w.desk.busy
    BY <1>1, Zenon DEF Desk
  <2> HIDE DEF d, v
  <2>3. v \in World /\ v.desk = d /\ v.storage = w.storage /\ v.calls = w.calls
    BY <1>1, <2>1, <2>2 DEF World
  <2> QED
    BY <1>2, <2>2, <2>3 DEF Honest, v
<1>3. CASE c.status = "MissingStaffCapability"
  <2>1. v = onLogout(w)
    BY <1>3 DEF boardArrives
  <2> QED
    BY <1>3, <2>1, LogoutKeeps, Zenon
<1>4. CASE c.status \notin {"ok", "MissingStaffCapability"}
  <2> DEFINE d == [w.desk EXCEPT !.error = TRUE]
  <2>1. v = [w EXCEPT !.desk = d]
    BY <1>1, <1>4, Zenon DEF boardArrives, World, Desk
  <2>2. /\ d \in Desk /\ d.session = w.desk.session /\ d.board = w.desk.board
        /\ d.mounted = w.desk.mounted /\ d.busy = w.desk.busy
    BY <1>1, Zenon DEF Desk
  <2> HIDE DEF d, v
  <2>3. v \in World /\ v.desk = d /\ v.storage = w.storage /\ v.calls = w.calls
    BY <1>1, <2>1, <2>2 DEF World
  <2> QED
    BY <2>2, <2>3 DEF Honest, v
<1> QED
  BY <1>2, <1>3, <1>4

\* Connecting the feed and giving the buttons back concern neither the tokens
\* nor the calls.
LEMMA FeedStarts ==
  ASSUME NEW taken, NEW w, Honest(w, taken)
  PROVE  LET v == startLiveFeed(w)
             u == [v EXCEPT !.desk.busy = FALSE]
         IN  /\ Honest(v, taken) /\ v.calls = w.calls /\ v.storage = w.storage
             /\ v.desk.session = w.desk.session /\ v.desk.board = w.desk.board
             /\ v.desk.mounted = w.desk.mounted /\ v.desk.busy = w.desk.busy
             /\ Honest(u, taken) /\ u.calls = w.calls /\ u.storage = w.storage
             /\ u.desk.session = w.desk.session /\ u.desk.board = w.desk.board
             /\ u.desk.mounted = w.desk.mounted /\ ~u.desk.busy
<1> DEFINE f == IF w.desk.feed = NoFeed THEN connectQueueFeed ELSE w.desk.feed
           d == [w.desk EXCEPT !.feed = f]
           e == [d EXCEPT !.busy = FALSE]
           v == startLiveFeed(w)
           u == [v EXCEPT !.desk.busy = FALSE]
<1>1. /\ w.desk \in Desk /\ w.storage \in Tokens \cup {None}
      /\ w.calls \in Seq(Call) /\ w \in World
  BY DEF Honest, World
<1>2. f \in Feed
  <2>1. w.desk.feed \in Feed
    BY <1>1 DEF Desk
  <2> QED
    BY <2>1, FeedType
<1>3. v = [w EXCEPT !.desk = d]
  BY <1>1, Zenon DEF startLiveFeed, World, Desk
<1> HIDE DEF f, v
<1>4. /\ d \in Desk /\ d.session = w.desk.session /\ d.board = w.desk.board
      /\ d.mounted = w.desk.mounted /\ d.busy = w.desk.busy
  BY <1>1, <1>2, Zenon DEF Desk
<1> HIDE DEF d
<1>5. v \in World /\ v.desk = d /\ v.storage = w.storage /\ v.calls = w.calls
  BY <1>1, <1>3, <1>4 DEF World
<1>6. u = [v EXCEPT !.desk = e]
  BY <1>5, Zenon DEF World
<1>7. /\ e \in Desk /\ e.session = d.session /\ e.board = d.board
      /\ e.mounted = d.mounted /\ ~e.busy
  BY <1>4, Zenon DEF Desk
<1> HIDE DEF e, u
<1>8. u \in World /\ u.desk = e /\ u.storage = v.storage /\ u.calls = v.calls
  BY <1>5, <1>6, <1>7 DEF World
<1> QED
  BY <1>4, <1>5, <1>7, <1>8 DEF Honest, v, u

\* Only a token the shop took becomes the kept one.
LEMMA ProbeKeeps ==
  ASSUME NEW taken, NEW w, Honest(w, taken), NEW c \in Call,
         c.status = "ok" => c.token \in taken
  PROVE  LET v == probeArrives(w, c)
         IN  /\ Honest(v, taken) /\ v.desk.mounted = w.desk.mounted
             /\ v.desk.board = w.desk.board
             /\ \/ /\ c.status = "ok"
                   /\ v.storage = c.token /\ v.desk.session = c.token
                   /\ v.desk.busy = w.desk.busy
                   /\ v.calls = Append(w.calls, NewCall("loginRefresh", c.token))
                \/ /\ v.storage = w.storage /\ v.desk.session = w.desk.session
                   /\ ~v.desk.busy /\ v.calls = w.calls
<1> DEFINE v == probeArrives(w, c)
<1>1. /\ w.desk \in Desk /\ w.storage \in Tokens \cup {None}
      /\ w.calls \in Seq(Call) /\ w \in World /\ c.token \in Tokens
  BY DEF Honest, World, Call
<1>2. CASE c.status = "ok"
  <2> DEFINE d == [w.desk EXCEPT !.session = c.token]
             u == [w EXCEPT !.storage = c.token, !.desk.session = c.token]
  <2>1. u = [w EXCEPT !.storage = c.token, !.desk = d]
    BY <1>1, Zenon DEF World
  <2>2. /\ d \in Desk /\ d.session = c.token /\ d.board = w.desk.board
        /\ d.mounted = w.desk.mounted /\ d.busy = w.desk.busy
    BY <1>1, Zenon DEF Desk
  <2>3. v = refreshBoard(u, "loginRefresh")
    BY <1>2, Zenon DEF probeArrives
  <2> HIDE DEF d, u, v
  <2>4. u \in World /\ u.desk = d /\ u.storage = c.token /\ u.calls = w.calls
    BY <1>1, <2>1, <2>2 DEF World
  <2>5. Honest(u, taken)
    BY <1>2, <2>2, <2>4 DEF Honest
  <2>6. Honest(v, taken) /\ v.desk = d /\ v.storage = c.token
    BY <2>3, <2>4, <2>5, RefreshKeeps DEF BoardCall
  <2>7. v.calls = Append(w.calls, NewCall("loginRefresh", c.token))
    BY <1>1, <2>2, <2>3, <2>4, StaffAssumption DEF refreshBoard, World
  <2> QED
    BY <1>2, <2>2, <2>6, <2>7 DEF v
<1>3. CASE c.status # "ok"
  <2> DEFINE d == [w.desk EXCEPT !.error = TRUE, !.busy = FALSE]
  <2>1. v = [w EXCEPT !.desk = d]
    BY <1>1, <1>3, Zenon DEF probeArrives, World, Desk
  <2>2. /\ d \in Desk /\ d.session = w.desk.session /\ d.board = w.desk.board
        /\ d.mounted = w.desk.mounted /\ ~d.busy
    BY <1>1, Zenon DEF Desk
  <2> HIDE DEF d, v
  <2>3. v \in World /\ v.desk = d /\ v.storage = w.storage /\ v.calls = w.calls
    BY <1>1, <2>1, <2>2 DEF World
  <2> QED
    BY <2>2, <2>3 DEF Honest, v
<1> QED
  BY <1>2, <1>3

\* An action that ends gives the buttons back; one whose token is refused ends
\* the session too.
LEMMA ActionKeeps ==
  ASSUME NEW taken, NEW w, Honest(w, taken), NEW c \in Call
  PROVE  LET v == actionArrives(w, c)
         IN  /\ Honest(v, taken) /\ v.desk.mounted = w.desk.mounted
             /\ ~v.desk.busy
             /\ \/ v.calls = w.calls
                \/ /\ w.desk.session # None
                   /\ v.calls = Append(w.calls, NewCall("refresh", w.desk.session))
             /\ \/ /\ v.desk.session = w.desk.session /\ v.storage = w.storage
                   /\ v.desk.board = w.desk.board
                \/ /\ c.status = "MissingStaffCapability"
                   /\ v.desk.session = None /\ v.desk.board = None
<1> DEFINE v == actionArrives(w, c)
           e == [w.desk EXCEPT !.busy = FALSE]
           idle == [w EXCEPT !.desk.busy = FALSE]
<1>1. /\ w.desk \in Desk /\ w.storage \in Tokens \cup {None}
      /\ w.calls \in Seq(Call) /\ w \in World
  BY DEF Honest, World
<1>2. idle = [w EXCEPT !.desk = e]
  BY <1>1, Zenon DEF World
<1>3. /\ e \in Desk /\ e.session = w.desk.session /\ e.board = w.desk.board
      /\ e.mounted = w.desk.mounted /\ ~e.busy
  BY <1>1, Zenon DEF Desk
<1>4. CASE c.status = "ok"
  <2> DEFINE undo == c.kind = "callSpecific"
             d == [e EXCEPT !.undo = undo]
             u == [idle EXCEPT !.desk.undo = undo]
  <2>1. v = refreshBoard(u, "refresh")
    BY <1>4, Zenon DEF actionArrives
  <2>2. undo \in BOOLEAN
    OBVIOUS
  <2> HIDE DEF idle, e, undo, v
  <2>3. idle \in World /\ idle.desk = e /\ idle.storage = w.storage /\ idle.calls = w.calls
    BY <1>1, <1>2, <1>3 DEF World
  <2>4. u = [idle EXCEPT !.desk = d]
    BY <2>3, Zenon DEF World
  <2>5. /\ d \in Desk /\ d.session = w.desk.session /\ d.board = w.desk.board
        /\ d.mounted = w.desk.mounted /\ ~d.busy
    BY <1>3, <2>2, Zenon DEF Desk
  <2> HIDE DEF d, u
  <2>6. u \in World /\ u.desk = d /\ u.storage = w.storage /\ u.calls = w.calls
    BY <2>3, <2>4, <2>5 DEF World
  <2>7. Honest(u, taken)
    BY <2>5, <2>6 DEF Honest
  <2>8. Honest(v, taken) /\ v.desk = d /\ v.storage = w.storage
    BY <2>1, <2>6, <2>7, RefreshKeeps DEF BoardCall
  <2>9. \/ v.calls = w.calls
        \/ /\ w.desk.session # None
           /\ v.calls = Append(w.calls, NewCall("refresh", w.desk.session))
    BY <2>1, <2>5, <2>6 DEF refreshBoard, World
  <2> QED
    BY <2>5, <2>8, <2>9 DEF v
<1>5. CASE c.status = "MissingStaffCapability"
  <2>1. v = onLogout(idle)
    BY <1>5, Zenon DEF actionArrives
  <2> HIDE DEF idle, e, v
  <2>2. idle \in World /\ idle.desk = e /\ idle.storage = w.storage /\ idle.calls = w.calls
    BY <1>1, <1>2, <1>3 DEF World
  <2>3. Honest(idle, taken)
    BY <1>3, <2>2 DEF Honest
  <2> QED
    BY <1>3, <1>5, <2>1, <2>2, <2>3, LogoutKeeps DEF v
<1>6. CASE c.status \notin {"ok", "MissingStaffCapability"}
  <2> DEFINE d == [e EXCEPT !.error = TRUE, !.undo = FALSE]
  <2>1. v = [idle EXCEPT !.desk.error = TRUE, !.desk.undo = FALSE]
    BY <1>6, Zenon DEF actionArrives
  <2> HIDE DEF idle, e, v
  <2>2. idle \in World /\ idle.desk = e /\ idle.storage = w.storage /\ idle.calls = w.calls
    BY <1>1, <1>2, <1>3 DEF World
  <2>3. v = [idle EXCEPT !.desk = d]
    BY <1>3, <2>1, <2>2, Zenon DEF World, Desk
  <2>4. /\ d \in Desk /\ d.session = w.desk.session /\ d.board = w.desk.board
        /\ d.mounted = w.desk.mounted /\ ~d.busy
    BY <1>3, Zenon DEF Desk
  <2> HIDE DEF d
  <2>5. v \in World /\ v.desk = d /\ v.storage = w.storage /\ v.calls = w.calls
    BY <2>2, <2>3, <2>4 DEF World
  <2> QED
    BY <2>4, <2>5 DEF Honest, v
<1> QED
  BY <1>4, <1>5, <1>6


\* The calls nobody waits for; the others claim busy, from a login's probe to
\* the arrival of its board, or from an action's press to its answer.
Background == {"refresh", "bootRefresh"}

\* What the arrival of a call makes of the session, the board, the buttons and
\* the other calls.
LEMMA ArrivalKeeps ==
  ASSUME NEW taken, NEW w, Honest(w, taken), NEW c \in Call,
         c.status = "ok" => c.token \in taken
  PROVE  LET v == Arrived(w, c)
         IN  /\ Honest(v, taken) /\ v.desk.mounted = w.desk.mounted
             /\ \/ /\ v.desk.session = w.desk.session /\ v.storage = w.storage
                   /\ \/ v.desk.board = w.desk.board
                      \/ c.status = "ok" /\ c.kind # "probe"
                \/ /\ c.status = "MissingStaffCapability" /\ c.kind # "probe"
                   /\ v.desk.session = None /\ v.desk.board = None
                \/ /\ c.kind = "probe"
                   /\ v.storage = c.token /\ v.desk.session = c.token
                   /\ v.desk.board = w.desk.board
             /\ c.kind \in Background =>
                  v.calls = w.calls /\ v.desk.busy = w.desk.busy
             /\ c.kind \notin Background =>
                  \/ /\ ~v.desk.busy
                     /\ \/ v.calls = w.calls
                        \/ \E token \in Tokens :
                             v.calls = Append(w.calls, NewCall("refresh", token))
                  \/ /\ v.desk.busy = w.desk.busy
                     /\ \E token \in Tokens :
                          v.calls = Append(w.calls, NewCall("loginRefresh", token))
<1> DEFINE v == Arrived(w, c)
           b == boardArrives(w, c)
<1>1. /\ c.token \in Tokens /\ c.kind \in CallKind
      /\ w.desk.session # None => w.desk.session \in Tokens
  BY DEF Honest, World, Desk, Call
<1>b. /\ Honest(b, taken) /\ b.calls = w.calls
      /\ b.desk.mounted = w.desk.mounted /\ b.desk.busy = w.desk.busy
      /\ \/ /\ b.desk.session = w.desk.session /\ b.storage = w.storage
            /\ b.desk.board = w.desk.board \/ c.status = "ok"
         \/ /\ c.status = "MissingStaffCapability"
            /\ b.desk.session = None /\ b.desk.board = None
  BY BoardKeeps
<1>2. CASE c.kind = "refresh"
  <2>1. v = b
    BY <1>2, Zenon DEF Arrived
  <2> HIDE DEF v, b
  <2> QED
    BY <1>2, <1>b, <2>1 DEF v, Background
<1>3. CASE c.kind = "bootRefresh"
  <2>1. v = startLiveFeed(b)
    BY <1>3 DEF Arrived
  <2> HIDE DEF v, b
  <2>2. /\ Honest(v, taken) /\ v.calls = b.calls /\ v.storage = b.storage
        /\ v.desk.session = b.desk.session /\ v.desk.board = b.desk.board
        /\ v.desk.mounted = b.desk.mounted /\ v.desk.busy = b.desk.busy
    BY <1>b, <2>1, FeedStarts
  <2> QED
    BY <1>3, <1>b, <2>2 DEF v, Background
<1>4. CASE c.kind = "loginRefresh"
  <2>1. v = [startLiveFeed(b) EXCEPT !.desk.busy = FALSE]
    BY <1>4 DEF Arrived
  <2> HIDE DEF v, b
  <2>2. /\ Honest(v, taken) /\ v.calls = b.calls /\ v.storage = b.storage
        /\ v.desk.session = b.desk.session /\ v.desk.board = b.desk.board
        /\ v.desk.mounted = b.desk.mounted /\ ~v.desk.busy
    BY <1>b, <2>1, FeedStarts
  <2> QED
    BY <1>4, <1>b, <2>2 DEF v, Background
<1>5. CASE c.kind = "probe"
  <2>1. v = probeArrives(w, c)
    BY <1>5 DEF Arrived
  <2>2. /\ Honest(v, taken) /\ v.desk.mounted = w.desk.mounted
        /\ v.desk.board = w.desk.board
        /\ \/ /\ c.status = "ok"
              /\ v.storage = c.token /\ v.desk.session = c.token
              /\ v.desk.busy = w.desk.busy
              /\ v.calls = Append(w.calls, NewCall("loginRefresh", c.token))
           \/ /\ v.storage = w.storage /\ v.desk.session = w.desk.session
              /\ ~v.desk.busy /\ v.calls = w.calls
    BY <2>1, ProbeKeeps
  <2> HIDE DEF v
  <2> QED
    BY <1>1, <1>5, <2>2 DEF v, Background
<1>6. CASE c.kind \in StaffAction
  <2>1. v = actionArrives(w, c)
    BY <1>6 DEF Arrived, StaffAction
  <2>2. /\ Honest(v, taken) /\ v.desk.mounted = w.desk.mounted /\ ~v.desk.busy
        /\ \/ v.calls = w.calls
           \/ /\ w.desk.session # None
              /\ v.calls = Append(w.calls, NewCall("refresh", w.desk.session))
        /\ \/ /\ v.desk.session = w.desk.session /\ v.storage = w.storage
              /\ v.desk.board = w.desk.board
           \/ /\ c.status = "MissingStaffCapability"
              /\ v.desk.session = None /\ v.desk.board = None
    BY <2>1, ActionKeeps
  <2> HIDE DEF v
  <2>3. c.kind \notin Background /\ c.kind # "probe"
    BY <1>6 DEF StaffAction, Background
  <2> QED
    BY <1>1, <2>2, <2>3 DEF v
<1> QED
  BY <1>1, <1>2, <1>3, <1>4, <1>5, <1>6 DEF CallKind, BoardCall

-----------------------------------------------------------------------------
(* Types and tokens.                                                       *)

\* The page, its storage and its calls after Becomes(w) are w.
LEMMA BecomesWorld ==
  ASSUME NEW taken, NEW w, Honest(w, taken), Becomes(w)
  PROVE  /\ Honest(Now, taken)'
         /\ desk' \in Desk /\ storage' \in Tokens \cup {None}
         /\ calls' \in Seq(Call) /\ Len(calls') <= MaxCalls
<1>1. w \in World /\ taken = taken'
  BY DEF Honest
<1> QED
  BY <1>1 DEF Honest, Becomes, Now, World

\* The ledger of the tokens the shop took is not touched by an oddity that
\* comes or is over.
LEMMA OddTyped ==
  ASSUME Kept, NEW new, new \subseteq StaffOddity, NEW over,
         ledger' = [ledger EXCEPT !.odd = (@ \cup new) \ over]
  PROVE  /\ ledger' \in [taken : SUBSET Tokens, odd : SUBSET StaffOddity]
         /\ ledger'.taken = ledger.taken /\ ledger'.odd = (ledger.odd \cup new) \ over
BY DEF Kept, StaffTypeOK

\* In a kept world, an action that replaces desk, storage and calls by those
\* of an honest one, and leaves the shop and the tokens it took, keeps it.
LEMMA BecomesKept ==
  ASSUME Kept, NEW STATE w, Honest(w, ledger.taken), Becomes(w),
         w.desk.mounted \/ (w.desk.session = None /\ w.calls = << >>),
         UNCHANGED << secret, version >>, ledger'.taken = ledger.taken,
         ledger' \in [taken : SUBSET Tokens, odd : SUBSET StaffOddity]
  PROVE  Kept'
<1>1. /\ Honest(Now, ledger.taken)'
      /\ desk' \in Desk /\ storage' \in Tokens \cup {None}
      /\ calls' \in Seq(Call) /\ Len(calls') <= MaxCalls
  BY BecomesWorld
<1>2. ~desk'.mounted => desk'.session = None /\ calls' = << >>
  BY DEF Becomes
<1> QED
  BY <1>1, <1>2 DEF Kept, StaffTypeOK

\* Changing only the desk, to one with the same session.
LEMMA DeskKept ==
  ASSUME Kept, NEW d \in Desk, desk' = d, d.mounted = desk.mounted,
         d.session = desk.session, UNCHANGED << secret, storage, calls, ledger >>,
         version' \in 0..MaxVersion
  PROVE  Kept'
<1>1. [desk |-> d, storage |-> storage, calls |-> calls] \in World
  BY DEF Kept, StaffTypeOK, World
<1>2. Honest(Now, ledger.taken)'
  BY <1>1 DEF Kept, Honest, Now
<1> QED
  BY <1>2 DEF Kept, StaffTypeOK

\* A desk with another feed.
LEMMA FeedChanges ==
  ASSUME NEW d \in Desk, NEW f \in Feed
  PROVE  LET e == [d EXCEPT !.feed = f]
         IN  /\ e \in Desk /\ e.session = d.session /\ e.board = d.board
             /\ e.mounted = d.mounted /\ e.busy = d.busy
BY Zenon DEF Desk

\* The world in which the page sends a call on behalf of a session.
LEMMA StaffSendKeeps ==
  ASSUME Kept, NEW d \in Desk, d.session = desk.session, NEW token \in Tokens,
         NEW kind \in CallKind
  PROVE  Honest([desk |-> d, storage |-> storage,
                 calls |-> Append(calls, NewCall(kind, token))], ledger.taken)
<1> DEFINE c == NewCall(kind, token)
<1>1. c \in Call /\ c.status = "sent"
  BY DEF NewCall, Call
<1>2. calls \in Seq(Call)
  BY DEF Kept, StaffTypeOK
<1> HIDE DEF c
<1>3. Append(calls, c) \in Seq(Call)
  BY <1>1, <1>2
<1>4. [desk |-> d, storage |-> storage, calls |-> Append(calls, c)] \in World
  BY <1>3 DEF Kept, StaffTypeOK, World
<1>5. \A n \in DOMAIN Append(calls, c) :
        Append(calls, c)[n].status = "ok" => Append(calls, c)[n].token \in ledger.taken
  BY <1>1, <1>2 DEF Kept, Honest, Now
<1> QED
  BY <1>4, <1>5 DEF Kept, Honest, Now, c

\* What a received call finds and leaves: the others, each as it was.
LEMMA ReceivedWorld ==
  ASSUME Kept, NEW n \in DOMAIN calls
  PROVE  LET w == [Now EXCEPT !.calls = RemoveAt(@, n)]
         IN  /\ Honest(w, ledger.taken) /\ w.desk = desk /\ w.storage = storage
             /\ w.calls = RemoveAt(calls, n)
             /\ calls[n] \in Call
             /\ calls[n].status = "ok" => calls[n].token \in ledger.taken
             /\ Len(calls) \in Nat /\ n \in 1..Len(calls)
             /\ Len(w.calls) = Len(calls) - 1
             /\ \A m \in 1 .. Len(calls) - 1 :
                  w.calls[m] = calls[IF m < n THEN m ELSE m + 1]
<1> DEFINE w == [Now EXCEPT !.calls = RemoveAt(@, n)]
<1>1. calls \in Seq(Call) /\ Len(calls) \in Nat /\ n \in 1..Len(calls) /\ calls[n] \in Call
  BY DEF Kept, StaffTypeOK
<1>2. /\ RemoveAt(calls, n) \in Seq(Call)
      /\ Len(RemoveAt(calls, n)) = Len(calls) - 1
      /\ \A m \in 1 .. Len(calls) - 1 :
           RemoveAt(calls, n)[m] = calls[IF m < n THEN m ELSE m + 1]
  BY <1>1, RemovedCall
<1>3. w.desk = desk /\ w.storage = storage /\ w.calls = RemoveAt(calls, n)
  BY DEF Now
<1>4. w \in World
  BY <1>2 DEF Now, Kept, StaffTypeOK, World
<1> HIDE DEF w
<1>5. /\ storage # None => storage \in ledger.taken
      /\ desk.session # None => desk.session \in ledger.taken
      /\ \A m \in DOMAIN calls : calls[m].status = "ok" => calls[m].token \in ledger.taken
  BY DEF Kept, Honest, Now
<1>6. \A m \in DOMAIN w.calls : w.calls[m].status = "ok" => w.calls[m].token \in ledger.taken
  <2>1. DOMAIN w.calls = 1 .. Len(calls) - 1
    BY <1>1, <1>2, <1>3
  <2>2. \A m \in 1 .. Len(calls) - 1 : (IF m < n THEN m ELSE m + 1) \in DOMAIN calls
    BY <1>1
  <2> QED
    BY <1>2, <1>3, <1>5, <2>1, <2>2
<1>7. Honest(w, ledger.taken)
  BY <1>3, <1>4, <1>5, <1>6 DEF Honest
<1> QED
  BY <1>1, <1>2, <1>3, <1>5, <1>7 DEF w


LEMMA NoDeskType == NoDesk \in Desk /\ NoDesk.session = None
<1>1. 0 \in 0..MaxAttempts
  BY FeedAssumption
<1>2. NoFeed \in Feed
  BY <1>1 DEF NoFeed, Feed
<1> QED
  BY <1>2 DEF NoDesk, Desk

LEMMA KeptInit == StaffInit => Kept
<1> SUFFICES ASSUME StaffInit PROVE Kept
  OBVIOUS
<1>1. secret \in Tokens /\ 0 \in 0..MaxVersion /\ 0 <= MaxCalls
  BY StaffAssumption DEF StaffInit
<1>2. NoDesk \in Desk /\ NoDesk.session = None
  BY NoDeskType
<1>3. << >> \in Seq(Call) /\ Len(<< >>) = 0 /\ DOMAIN << >> = {}
  OBVIOUS
<1>4. ledger \in [taken : SUBSET Tokens, odd : SUBSET StaffOddity]
  BY DEF StaffInit
<1>5. Honest(Now, ledger.taken)
  BY <1>2, <1>3 DEF StaffInit, Now, Honest, World
<1> QED
  BY <1>1, <1>2, <1>3, <1>4, <1>5 DEF StaffInit, StaffTypeOK, Kept

LEMMA OpenKept == Kept /\ OpenDesk => Kept'
<1> SUFFICES ASSUME Kept, OpenDesk PROVE Kept'
  OBVIOUS
<1> DEFINE d == [NoDesk EXCEPT !.mounted = TRUE, !.session = storage]
           u == [Now EXCEPT !.desk = d]
           v == refreshBoard(u, "bootRefresh")
<1>1. storage \in Tokens \cup {None} /\ NoDesk \in Desk
  BY NoDeskType DEF Kept, StaffTypeOK
<1>2. d \in Desk /\ d.session = storage /\ d.mounted
  BY <1>1 DEF Desk
<1>3. Becomes(v) /\ UNCHANGED << secret, version, ledger >>
  BY DEF OpenDesk
<1> HIDE DEF d
<1>4. u \in World /\ u.desk = d /\ u.storage = storage /\ u.calls = calls
  BY <1>2 DEF Now, World, Kept, StaffTypeOK
<1> HIDE DEF u, v
<1>5. Honest(u, ledger.taken)
  BY <1>2, <1>4 DEF Kept, Honest, Now
<1>6. Honest(v, ledger.taken) /\ v.desk = d
  BY <1>4, <1>5, RefreshKeeps DEF v, BoardCall
<1> QED
  <2>1. v.desk.mounted
    BY <1>2, <1>6
  <2> QED
    BY <1>3, <1>6, <2>1, BecomesKept DEF Kept, StaffTypeOK

LEMMA CloseKept == Kept /\ CloseDesk => Kept'
<1> SUFFICES ASSUME Kept, CloseDesk PROVE Kept'
  OBVIOUS
<1> DEFINE v == [Now EXCEPT !.desk = NoDesk, !.calls = << >>]
<1>1. NoDesk \in Desk /\ NoDesk.session = None
  BY NoDeskType
<1>2. << >> \in Seq(Call) /\ DOMAIN << >> = {}
  OBVIOUS
<1>3. /\ v \in World /\ v.desk = NoDesk /\ v.storage = storage
      /\ v.calls = << >> /\ DOMAIN v.calls = {}
  <2>1. ASSUME NEW s \in Seq(Call)
        PROVE  LET u == [Now EXCEPT !.desk = NoDesk, !.calls = s]
               IN  /\ u \in World /\ u.desk = NoDesk /\ u.storage = storage
                   /\ u.calls = s
    BY <1>1 DEF Now, World, Kept, StaffTypeOK
  <2> QED
    BY <1>2, <2>1
<1>4. /\ Becomes(v) /\ UNCHANGED << secret, version >>
      /\ ledger' = [ledger EXCEPT !.odd = (@ \cup {}) \ Over(v)]
  BY DEF CloseDesk
<1> HIDE DEF v
<1>5. Honest(v, ledger.taken)
  BY <1>1, <1>3 DEF Kept, Honest, Now
<1>6. /\ ledger' \in [taken : SUBSET Tokens, odd : SUBSET StaffOddity]
      /\ ledger'.taken = ledger.taken
  BY <1>4, OddTyped
<1> QED
  BY <1>1, <1>3, <1>4, <1>5, <1>6, BecomesKept

LEMMA LogOutKept == Kept /\ LogOut => Kept'
<1> SUFFICES ASSUME Kept, LogOut PROVE Kept'
  OBVIOUS
<1> DEFINE v == onLogout(Now)
<1>1. Honest(Now, ledger.taken) /\ Now.desk = desk
  BY DEF Kept, Now
<1>2. Honest(v, ledger.taken) /\ v.desk.mounted = desk.mounted
  BY <1>1, LogoutKeeps
<1>3. /\ Becomes(v) /\ UNCHANGED << secret, version >> /\ desk.mounted
      /\ ledger' = [ledger EXCEPT !.odd = (@ \cup {}) \ Over(v)]
  BY DEF LogOut
<1>4. v.desk.mounted
  BY <1>2, <1>3, Zenon
<1> HIDE DEF v
<1>5. /\ ledger' \in [taken : SUBSET Tokens, odd : SUBSET StaffOddity]
      /\ ledger'.taken = ledger.taken
  BY <1>3, OddTyped
<1> QED
  BY <1>2, <1>3, <1>4, <1>5, BecomesKept

\* The calls an operator makes: a probe, an action, or Undo.
LEMMA SentKept ==
  ASSUME Kept, NEW d \in Desk, d.session = desk.session, d.mounted,
         NEW token \in Tokens, NEW kind \in CallKind,
         Becomes([desk |-> d, storage |-> storage,
                  calls |-> Append(calls, NewCall(kind, token))]),
         UNCHANGED << secret, version >>,
         ledger' \in [taken : SUBSET Tokens, odd : SUBSET StaffOddity],
         ledger'.taken = ledger.taken
  PROVE  Kept'
<1> DEFINE w == [desk |-> d, storage |-> storage,
                 calls |-> Append(calls, NewCall(kind, token))]
<1>1. Honest(w, ledger.taken)
  BY StaffSendKeeps
<1>2. Becomes(w) /\ w.desk = d
  OBVIOUS
<1> HIDE DEF w
<1>3. /\ Honest(Now, ledger.taken)'
      /\ desk' \in Desk /\ storage' \in Tokens \cup {None}
      /\ calls' \in Seq(Call) /\ Len(calls') <= MaxCalls
  BY <1>1, <1>2, BecomesWorld
<1>4. desk'.mounted
  BY <1>2 DEF Becomes
<1> QED
  BY <1>3, <1>4 DEF Kept, StaffTypeOK, Honest, Now

LEMMA ProbeKept == ASSUME NEW token \in Tokens PROVE Kept /\ onLogin(token) => Kept'
<1> SUFFICES ASSUME Kept, onLogin(token) PROVE Kept'
  OBVIOUS
<1> DEFINE d == [desk EXCEPT !.busy = TRUE, !.error = FALSE]
<1>1. desk \in Desk /\ desk.mounted
  BY DEF onLogin, Kept, StaffTypeOK
<1>2. d \in Desk /\ d.session = desk.session /\ d.mounted
  BY <1>1, Zenon DEF Desk
<1>3. Becomes([desk |-> d, storage |-> storage,
               calls |-> Append(calls, NewCall("probe", token))])
  BY DEF onLogin, Now, Becomes
<1> HIDE DEF d
<1> QED
  BY <1>2, <1>3, SentKept DEF onLogin, CallKind, Kept, StaffTypeOK

LEMMA PressKept == ASSUME NEW kind \in StaffAction PROVE Kept /\ Press(kind) => Kept'
<1> SUFFICES ASSUME Kept, Press(kind) PROVE Kept'
  OBVIOUS
<1> DEFINE d == [desk EXCEPT !.busy = TRUE, !.error = FALSE]
<1>1. desk \in Desk /\ desk.mounted /\ desk.session \in Tokens
  BY DEF Press, Kept, StaffTypeOK, Desk
<1>2. d \in Desk /\ d.session = desk.session /\ d.mounted
  BY <1>1, Zenon DEF Desk
<1>3. Becomes([desk |-> d, storage |-> storage,
               calls |-> Append(calls, NewCall(kind, desk.session))])
  BY DEF Press, runAction, Now, Becomes
<1> HIDE DEF d
<1> QED
  BY <1>1, <1>2, <1>3, SentKept DEF Press, CallKind, Kept, StaffTypeOK

LEMMA UndoKept == Kept /\ handleUndo => Kept'
<1> SUFFICES ASSUME Kept, handleUndo PROVE Kept'
  OBVIOUS
<1> DEFINE d == [desk EXCEPT !.busy = TRUE, !.error = FALSE, !.undo = FALSE]
<1>1. desk \in Desk /\ desk.mounted /\ desk.session \in Tokens
  BY DEF handleUndo, Kept, StaffTypeOK, Desk
<1>2. d \in Desk /\ d.session = desk.session /\ d.mounted
  BY <1>1, Zenon DEF Desk
<1>3. Becomes([desk |-> d, storage |-> storage,
               calls |-> Append(calls, NewCall("other", desk.session))])
  BY DEF handleUndo, Now, Becomes
<1>4. /\ ledger' \in [taken : SUBSET Tokens, odd : SUBSET StaffOddity]
      /\ ledger'.taken = ledger.taken
  BY DEF handleUndo, Kept, StaffTypeOK, StaffOddity
<1> HIDE DEF d
<1> QED
  BY <1>1, <1>2, <1>3, <1>4, SentKept DEF handleUndo, CallKind, StaffAction


LEMMA ReceiveKept == ASSUME NEW n PROVE Kept /\ ReceiveCall(n) => Kept'
<1> SUFFICES ASSUME Kept, ReceiveCall(n) PROVE Kept'
  OBVIOUS
<1> DEFINE w == [Now EXCEPT !.calls = RemoveAt(@, n)]
           c == calls[n]
           v == Arrived(w, c)
<1>1. /\ n \in DOMAIN calls /\ Becomes(v) /\ UNCHANGED << secret, version >>
      /\ ledger' = [ledger EXCEPT !.odd = (@ \cup OddArrival(n)) \ Over(v)]
  BY DEF ReceiveCall
<1>2. /\ Honest(w, ledger.taken) /\ w.desk = desk /\ c \in Call
      /\ c.status = "ok" => c.token \in ledger.taken
  BY <1>1, ReceivedWorld
<1> HIDE DEF w, c
<1>3. Honest(v, ledger.taken) /\ v.desk.mounted = w.desk.mounted
  BY <1>2, ArrivalKeeps
<1>4. desk.mounted
  BY <1>1 DEF Kept
<1> HIDE DEF v
<1>5. OddArrival(n) \subseteq StaffOddity
  BY DEF OddArrival, StaffOddity
<1>6. /\ ledger' \in [taken : SUBSET Tokens, odd : SUBSET StaffOddity]
      /\ ledger'.taken = ledger.taken
  BY <1>1, <1>5, OddTyped
<1> QED
  BY <1>1, <1>2, <1>3, <1>4, <1>6, BecomesKept

\* The shop's answer is "ok" only for its secret, which then is a taken token.
LEMMA AnswerKept == ASSUME NEW n PROVE Kept /\ AnswerCall(n) => Kept'
<1> SUFFICES ASSUME Kept, AnswerCall(n) PROVE Kept'
  OBVIOUS
<1> USE DEF Kept, StaffTypeOK
<1>1. /\ n \in DOMAIN calls /\ calls \in Seq(Call) /\ calls[n] \in Call
      /\ desk.mounted /\ desk \in Desk /\ UNCHANGED << secret, storage >>
  BY DEF AnswerCall
<1>2. \A m \in DOMAIN calls : calls[m] \in Call
                              /\ (calls[m].status = "ok" => calls[m].token \in ledger.taken)
  BY DEF Honest, Now
<1>3. CASE calls[n].token # secret
  <2> DEFINE c == [calls[n] EXCEPT !.status = "MissingStaffCapability"]
  <2>1. calls' = [calls EXCEPT ![n] = c] /\ UNCHANGED << version, desk, ledger >>
    BY <1>3 DEF AnswerCall
  <2>2. c \in Call /\ c.status = "MissingStaffCapability"
    BY <1>1 DEF Call
  <2> HIDE DEF c
  <2>3. /\ calls' \in Seq(Call) /\ Len(calls') = Len(calls)
        /\ DOMAIN calls' = DOMAIN calls
        /\ \A m \in DOMAIN calls : calls'[m] = IF m = n THEN c ELSE calls[m]
    BY <1>1, <2>1, <2>2
  <2>4. Honest(Now, ledger.taken)'
    BY <1>1, <1>2, <2>1, <2>2, <2>3 DEF Honest, Now, World
  <2> QED
    BY <1>1, <2>1, <2>3, <2>4
<1>4. CASE calls[n].token = secret
  <2> DEFINE c == [calls[n] EXCEPT !.status = "ok", !.board = version]
  <2>1. /\ calls' = [calls EXCEPT ![n].status = "ok", ![n].board = version]
        /\ ledger'.taken = ledger.taken \cup {secret}
        /\ ledger' \in [taken : SUBSET Tokens, odd : SUBSET StaffOddity]
        /\ version' \in 0..MaxVersion
    <3> DEFINE odd == IF /\ IsBoard(n)
                         /\ \E m \in 1..(n - 1) : IsBoard(m) /\ calls[m].status = "sent"
                      THEN {"overtaken"} ELSE {}
    <3>1. /\ calls' = [calls EXCEPT ![n].status = "ok", ![n].board = version]
          /\ ledger' = [ledger EXCEPT !.taken = @ \cup {calls[n].token},
                                      !.odd = @ \cup odd]
      BY <1>4 DEF AnswerCall
    <3>2. odd \subseteq StaffOddity
      BY DEF StaffOddity
    <3>3. version' = version \/ (version < MaxVersion /\ version' = version + 1)
      BY <1>4 DEF AnswerCall
    <3> HIDE DEF odd
    <3>4. /\ ledger'.taken = ledger.taken \cup {secret}
          /\ ledger' \in [taken : SUBSET Tokens, odd : SUBSET StaffOddity]
      BY <1>4, <3>1, <3>2
    <3>5. version' \in 0..MaxVersion
      BY <3>3, StaffAssumption
    <3> QED
      BY <3>1, <3>4, <3>5
  <2>2. /\ desk' \in Desk /\ desk'.session = desk.session /\ desk'.mounted
    <3>1. CASE desk' = desk
      BY <1>1, <3>1
    <3>2. CASE desk' = [desk EXCEPT !.feed = broadcast(@)]
      <4>1. broadcast(desk.feed) \in Feed
        <5>1. desk.feed \in Feed
          BY <1>1 DEF Desk
        <5> QED
          BY <5>1, FeedType
      <4> QED
        BY <1>1, <3>2, <4>1, FeedChanges
    <3> QED
      BY <1>4, <3>1, <3>2 DEF AnswerCall
  <2>3. c \in Call /\ c.token = secret
    BY <1>1, <1>4 DEF Call
  <2>4. calls' = [calls EXCEPT ![n] = c]
    BY <1>1, <2>1 DEF Call
  <2> HIDE DEF c
  <2>5. /\ calls' \in Seq(Call) /\ Len(calls') = Len(calls)
        /\ DOMAIN calls' = DOMAIN calls
        /\ \A m \in DOMAIN calls : calls'[m] = IF m = n THEN c ELSE calls[m]
    BY <1>1, <2>3, <2>4
  <2>6. Honest(Now, ledger.taken)'
    <3>1. /\ Now.storage = storage /\ Now.desk = desk /\ Now.calls = calls
          /\ Now.storage' = storage' /\ Now.desk' = desk' /\ Now.calls' = calls'
      BY DEF Now
    <3>2. Now' \in World
      BY <1>1, <1>2, <2>2, <2>5 DEF Now, World, Honest
    <3>3. /\ storage' # None => storage' \in ledger'.taken
          /\ desk'.session # None => desk'.session \in ledger'.taken
      BY <1>1, <1>2, <2>1, <2>2, <3>1 DEF Honest
    <3>4. ASSUME NEW m \in DOMAIN calls', calls'[m].status = "ok"
          PROVE  calls'[m].token \in ledger'.taken
      BY <1>2, <2>1, <2>3, <2>5, <3>1, <3>4 DEF Honest
    <3> QED
      BY <3>1, <3>2, <3>3, <3>4 DEF Honest
  <2> QED
    BY <1>1, <2>1, <2>2, <2>5, <2>6
<1> QED
  BY <1>3, <1>4

LEMMA FailKept == ASSUME NEW n PROVE Kept /\ FailCall(n) => Kept'
<1> SUFFICES ASSUME Kept, FailCall(n) PROVE Kept'
  OBVIOUS
<1> USE DEF Kept, StaffTypeOK
<1> DEFINE c == [calls[n] EXCEPT !.status = "failed", !.board = None]
<1>1. /\ n \in DOMAIN calls /\ calls \in Seq(Call) /\ calls[n] \in Call
      /\ desk.mounted /\ UNCHANGED << secret, version, storage, desk, ledger >>
  BY DEF FailCall
<1>2. \A m \in DOMAIN calls : calls[m] \in Call
                              /\ (calls[m].status = "ok" => calls[m].token \in ledger.taken)
  BY DEF Honest, Now
<1>3. c \in Call /\ c.status = "failed" /\ calls' = [calls EXCEPT ![n] = c]
  BY <1>1 DEF Call, FailCall
<1> HIDE DEF c
<1>4. /\ calls' \in Seq(Call) /\ Len(calls') = Len(calls)
      /\ DOMAIN calls' = DOMAIN calls
      /\ \A m \in DOMAIN calls : calls'[m] = IF m = n THEN c ELSE calls[m]
  BY <1>1, <1>3
<1>5. Honest(Now, ledger.taken)'
  BY <1>1, <1>2, <1>3, <1>4 DEF Honest, Now, World
<1> QED
  BY <1>1, <1>4, <1>5

\* The page's feed, and what the shop tells it.
LEMMA FeedKept ==
  Kept /\ (DeskFeedConnects \/ DeskFeedDrops \/ BoardChanges) => Kept'
<1> SUFFICES ASSUME Kept, DeskFeedConnects \/ DeskFeedDrops \/ BoardChanges
             PROVE  Kept'
  OBVIOUS
<1>1. desk \in Desk /\ desk.feed \in Feed
  BY DEF Kept, StaffTypeOK, Desk
<1>2. PICK f \in Feed : /\ desk' = [desk EXCEPT !.feed = f]
                        /\ UNCHANGED << secret, storage, calls, ledger >>
                        /\ version' \in 0..MaxVersion
  BY <1>1, FeedType, StaffAssumption
     DEF DeskFeedConnects, DeskFeedDrops, BoardChanges, DeskFeed, Kept, StaffTypeOK
<1> DEFINE d == [desk EXCEPT !.feed = f]
<1>3. d \in Desk /\ d.session = desk.session /\ d.mounted = desk.mounted
  BY <1>1, FeedChanges
<1> QED
  BY <1>2, <1>3, DeskKept

\* A message makes the page ask for the board.
LEMMA DeliverKept == Kept /\ (DeskFeedDelivers \/ StrayFeedDelivers) => Kept'
<1> SUFFICES ASSUME Kept, DeskFeedDelivers \/ StrayFeedDelivers PROVE Kept'
  OBVIOUS
<1>1. desk \in Desk /\ desk.feed \in Feed
  BY DEF Kept, StaffTypeOK, Desk
<1>2. PICK f \in Feed :
        /\ Becomes(refreshBoard([Now EXCEPT !.desk.feed = f], "refresh"))
        /\ UNCHANGED << secret, version, ledger >>
  <2>1. CASE DeskFeedDelivers
    <3>1. onmessage(desk.feed) \in Feed
      BY <1>1, FeedType
    <3>2. [Now EXCEPT !.desk.feed = onmessage(@)]
            = [Now EXCEPT !.desk.feed = onmessage(desk.feed)]
      BY DEF Now
    <3> QED
      BY <2>1, <3>1, <3>2 DEF DeskFeedDelivers
  <2>2. CASE StrayFeedDelivers
    <3>1. [Now EXCEPT !.desk.feed = desk.feed] = Now
      BY <1>1 DEF Now, Desk
    <3> QED
      BY <1>1, <2>2, <3>1 DEF StrayFeedDelivers
  <2> QED
    BY <2>1, <2>2
<1> DEFINE d == [desk EXCEPT !.feed = f]
           u == [Now EXCEPT !.desk.feed = f]
           v == refreshBoard(u, "refresh")
<1>3. d \in Desk /\ d.session = desk.session /\ d.mounted = desk.mounted
  BY <1>1, FeedChanges
<1>4. u = [desk |-> d, storage |-> storage, calls |-> calls]
  BY DEF Now
<1> HIDE DEF d
<1>5. u \in World /\ u.desk = d /\ u.storage = storage /\ u.calls = calls
  BY <1>3, <1>4 DEF World, Kept, StaffTypeOK
<1> HIDE DEF u, v
<1>6. Honest(u, ledger.taken)
  BY <1>3, <1>5 DEF Kept, Honest, Now
<1>7. Honest(v, ledger.taken) /\ v.desk = d
  BY <1>5, <1>6, RefreshKeeps DEF v, BoardCall
<1>8. v.desk.mounted \/ (v.desk.session = None /\ v.calls = << >>)
  <2>1. CASE desk.mounted
    BY <1>3, <1>7, <2>1
  <2>2. CASE ~desk.mounted
    BY <1>3, <1>5, <1>7, <2>2 DEF v, refreshBoard, Kept
  <2> QED
    BY <2>1, <2>2
<1>9. /\ ledger' \in [taken : SUBSET Tokens, odd : SUBSET StaffOddity]
      /\ ledger'.taken = ledger.taken
  BY <1>2 DEF Kept, StaffTypeOK
<1>10. Becomes(v)
  BY <1>2 DEF u, v
<1> QED
  BY <1>2, <1>7, <1>8, <1>9, <1>10, BecomesKept

LEMMA OthersKept ==
  Kept /\ (onDismiss \/ \E token \in Tokens : RotateSecret(token)) => Kept'
<1> SUFFICES ASSUME Kept, onDismiss \/ \E token \in Tokens : RotateSecret(token)
             PROVE  Kept'
  OBVIOUS
<1>1. CASE onDismiss
  <2> DEFINE d == [desk EXCEPT !.undo = FALSE]
  <2>1. /\ desk' = d /\ UNCHANGED << secret, storage, calls, ledger >>
        /\ version' \in 0..MaxVersion /\ desk \in Desk
    BY <1>1 DEF onDismiss, Kept, StaffTypeOK
  <2>2. d \in Desk /\ d.session = desk.session /\ d.mounted = desk.mounted
    BY <2>1, Zenon DEF Desk
  <2> HIDE DEF d
  <2> QED
    BY <2>1, <2>2, DeskKept
<1>2. CASE \E token \in Tokens : RotateSecret(token)
  <2>1. secret' \in Tokens /\ UNCHANGED << version, storage, desk, calls, ledger >>
    BY <1>2 DEF RotateSecret
  <2> QED
    BY <2>1 DEF Kept, StaffTypeOK, Honest, Now
<1> QED
  BY <1>1, <1>2

LEMMA KeptStep == Kept /\ [StaffNext]_staffVars => Kept'
<1> SUFFICES ASSUME Kept, [StaffNext]_staffVars PROVE Kept'
  OBVIOUS
<1>1. CASE UNCHANGED staffVars
  BY <1>1 DEF staffVars, Kept, StaffTypeOK, Honest, Now
<1> QED
  BY <1>1, OpenKept, CloseKept, LogOutKept, ProbeKept, PressKept, UndoKept,
     ReceiveKept, AnswerKept, FailKept, FeedKept, DeliverKept, OthersKept
     DEF StaffNext

\* Every variable of the counter's tablet keeps its type.
THEOREM StaffTypeCorrect == StaffSpec => []StaffTypeOK
<1>1. Kept => StaffTypeOK
  BY DEF Kept
<1> QED
  BY <1>1, KeptInit, KeptStep, PTL DEF StaffSpec

\* Verify before flip, for any number of calls in flight: what localStorage
\* keeps, and every session, is a token the shop took at least once.
THEOREM KeptTokensWereTaken == StaffSpec => []KeptTokenWasTaken
<1>1. Kept => KeptTokenWasTaken
  BY DEF Kept, Honest, Now, KeptTokenWasTaken
<1> QED
  BY <1>1, KeptInit, KeptStep, PTL DEF StaffSpec


-----------------------------------------------------------------------------
(* The session and the board.                                              *)

\* The steps that neither open, close nor end anything.
Quiet ==
  \/ handleUndo \/ onDismiss
  \/ \E token \in Tokens : onLogin(token) \/ RotateSecret(token)
  \/ \E kind \in StaffAction : Press(kind)
  \/ \E n \in 1..MaxCalls : AnswerCall(n) \/ FailCall(n)
  \/ DeskFeedConnects \/ DeskFeedDrops \/ DeskFeedDelivers \/ StrayFeedDelivers
  \/ BoardChanges

\* Those leave session, board and storage as they are.
LEMMA QuietDeskStep ==
  Kept /\ Quiet => /\ desk'.session = desk.session /\ desk'.board = desk.board
                   /\ storage' = storage /\ ledger.odd \subseteq ledger'.odd
<1> SUFFICES ASSUME Kept, Quiet
             PROVE  /\ desk'.session = desk.session /\ desk'.board = desk.board
                    /\ storage' = storage /\ ledger.odd \subseteq ledger'.odd
  OBVIOUS
<1>1. /\ desk \in Desk /\ desk.feed \in Feed
      /\ ledger \in [taken : SUBSET Tokens, odd : SUBSET StaffOddity]
  BY DEF Kept, StaffTypeOK, Desk
<1>2. CASE handleUndo
  <2>1. ledger.odd \subseteq ledger'.odd
    BY <1>1, <1>2 DEF handleUndo
  <2>2. /\ desk' = [desk EXCEPT !.busy = TRUE, !.error = FALSE, !.undo = FALSE]
        /\ storage' = storage
    BY <1>2 DEF handleUndo, Becomes, Now
  <2> QED
    BY <1>1, <2>1, <2>2 DEF Desk
<1>3. CASE onDismiss
  BY <1>1, <1>3 DEF onDismiss, Desk
<1>4. CASE \E token \in Tokens : onLogin(token)
  <2>1. /\ desk' = [desk EXCEPT !.busy = TRUE, !.error = FALSE]
        /\ storage' = storage /\ ledger' = ledger
    BY <1>4 DEF onLogin, Becomes, Now
  <2> QED
    BY <1>1, <2>1 DEF Desk
<1>5. CASE \E token \in Tokens : RotateSecret(token)
  BY <1>5 DEF RotateSecret
<1>6. CASE \E kind \in StaffAction : Press(kind)
  <2>1. /\ desk' = [desk EXCEPT !.busy = TRUE, !.error = FALSE]
        /\ storage' = storage /\ ledger' = ledger
    BY <1>6 DEF Press, runAction, Becomes, Now
  <2> QED
    BY <1>1, <2>1 DEF Desk
<1>7. ASSUME NEW n \in 1..MaxCalls, AnswerCall(n)
      PROVE  /\ desk'.session = desk.session /\ desk'.board = desk.board
             /\ storage' = storage /\ ledger.odd \subseteq ledger'.odd
  <2>1. /\ desk' = desk \/ desk' = [desk EXCEPT !.feed = broadcast(@)]
        /\ storage' = storage
    BY <1>7 DEF AnswerCall
  <2>2. ledger.odd \subseteq ledger'.odd
    <3>1. \/ ledger' = ledger
          \/ \E t, o : ledger' = [ledger EXCEPT !.taken = @ \cup t, !.odd = @ \cup o]
      BY <1>7 DEF AnswerCall
    <3> QED
      BY <1>1, <3>1
  <2> QED
    BY <1>1, <2>1, <2>2 DEF Desk
<1>8. CASE \E n \in 1..MaxCalls : FailCall(n)
  BY <1>8 DEF FailCall
<1>9. CASE DeskFeedConnects \/ DeskFeedDrops \/ BoardChanges
  BY <1>1, <1>9 DEF DeskFeedConnects, DeskFeedDrops, BoardChanges, DeskFeed, Desk
<1>10. CASE DeskFeedDelivers
  <2> DEFINE u == [Now EXCEPT !.desk.feed = onmessage(@)]
  <2>1. Becomes(refreshBoard(u, "refresh")) /\ ledger' = ledger
    BY <1>10 DEF DeskFeedDelivers
  <2>2. /\ u.desk.session = desk.session /\ u.desk.board = desk.board
        /\ u.storage = storage
    BY <1>1 DEF Now, Desk
  <2>3. u = [desk |-> u.desk, storage |-> u.storage, calls |-> u.calls]
    BY DEF Now
  <2> HIDE DEF u
  <2>4. /\ refreshBoard(u, "refresh").desk = u.desk
        /\ refreshBoard(u, "refresh").storage = u.storage
    BY <2>3 DEF refreshBoard
  <2> QED
    BY <2>1, <2>2, <2>4 DEF Becomes
<1>11. CASE StrayFeedDelivers
  <2>1. Becomes(refreshBoard(Now, "refresh")) /\ ledger' = ledger
    BY <1>11 DEF StrayFeedDelivers
  <2>2. /\ refreshBoard(Now, "refresh").desk = desk
        /\ refreshBoard(Now, "refresh").storage = storage
    BY DEF refreshBoard, Now
  <2> QED
    BY <2>1, <2>2 DEF Becomes
<1> QED
  BY <1>2, <1>3, <1>4, <1>5, <1>6, <1>7, <1>8, <1>9, <1>10, <1>11 DEF Quiet

\* What receiving a call makes of session, board and storage.
LEMMA ReceiveStep ==
  ASSUME Kept, NEW n, ReceiveCall(n)
  PROVE  /\ n \in DOMAIN calls /\ desk.mounted
         /\ desk'.board # None /\ "late" \in ledger.odd \cup OddArrival(n)
              => "late" \in ledger'.odd
         /\ \/ /\ desk'.session = desk.session /\ storage' = storage
               /\ \/ desk'.board = desk.board
                  \/ /\ calls[n].status = "ok" /\ calls[n].kind # "probe"
                     /\ calls[n].token \in Tokens
            \/ /\ calls[n].status = "MissingStaffCapability" /\ calls[n].kind # "probe"
               /\ desk'.session = None /\ desk'.board = None
            \/ /\ storage' \in Tokens /\ desk'.session = storage'
               /\ desk'.board = desk.board
<1> DEFINE w == [Now EXCEPT !.calls = RemoveAt(@, n)]
           c == calls[n]
           v == Arrived(w, c)
<1>1. /\ n \in DOMAIN calls /\ Becomes(v)
      /\ ledger' = [ledger EXCEPT !.odd = (@ \cup OddArrival(n)) \ Over(v)]
  BY DEF ReceiveCall
<1>2. /\ Honest(w, ledger.taken) /\ w.desk = desk /\ w.storage = storage /\ c \in Call
      /\ c.status = "ok" => c.token \in ledger.taken
  BY <1>1, ReceivedWorld
<1>3. c.token \in Tokens
  BY <1>2 DEF Call
<1> HIDE DEF w, c
<1>4. v.desk.board # None /\ "late" \in ledger.odd \cup OddArrival(n) => "late" \in ledger'.odd
  <2> HIDE DEF v
  <2>1. OddArrival(n) \subseteq StaffOddity
    BY DEF OddArrival, StaffOddity
  <2>2. ledger'.odd = (ledger.odd \cup OddArrival(n)) \ Over(v)
    BY <1>1, <2>1, OddTyped
  <2>3. v.desk.board # None => "late" \notin Over(v)
    BY DEF Over
  <2> QED
    BY <2>2, <2>3
<1>5. \/ /\ v.desk.session = w.desk.session /\ v.storage = w.storage
         /\ \/ v.desk.board = w.desk.board
            \/ c.status = "ok" /\ c.kind # "probe"
      \/ /\ c.status = "MissingStaffCapability" /\ c.kind # "probe"
         /\ v.desk.session = None /\ v.desk.board = None
      \/ /\ c.kind = "probe"
         /\ v.storage = c.token /\ v.desk.session = c.token
         /\ v.desk.board = w.desk.board
  BY <1>2, ArrivalKeeps
<1>6. desk.mounted
  BY <1>1 DEF Kept
<1> HIDE DEF v
<1>7. desk' = v.desk /\ storage' = v.storage
  BY <1>1 DEF Becomes
<1>8. \/ /\ desk'.session = desk.session /\ storage' = storage
         /\ \/ desk'.board = desk.board
            \/ c.status = "ok" /\ c.kind # "probe"
      \/ /\ c.status = "MissingStaffCapability" /\ c.kind # "probe"
         /\ desk'.session = None /\ desk'.board = None
      \/ /\ storage' = c.token /\ desk'.session = c.token
         /\ desk'.board = desk.board
  BY <1>2, <1>5, <1>7
<1> QED
  BY <1>1, <1>3, <1>4, <1>6, <1>7, <1>8 DEF c

LEMMA BoardStep ==
  Kept /\ BoardNeedsSession /\ [StaffNext]_staffVars => BoardNeedsSession'
<1> SUFFICES ASSUME Kept, BoardNeedsSession, [StaffNext]_staffVars
             PROVE  /\ desk'.board # None => desk'.session # None \/ "late" \in ledger'.odd
                    /\ desk'.session \in {None, storage'}
  BY DEF BoardNeedsSession
<1>1. CASE UNCHANGED staffVars
  BY <1>1 DEF staffVars, BoardNeedsSession
<1>2. CASE Quiet
  BY <1>2, QuietDeskStep DEF BoardNeedsSession
<1>3. CASE OpenDesk
  <2> DEFINE d == [NoDesk EXCEPT !.mounted = TRUE, !.session = storage]
             u == [Now EXCEPT !.desk = d]
  <2>1. Becomes(refreshBoard(u, "bootRefresh"))
    BY <1>3 DEF OpenDesk
  <2>2. d.session = storage /\ d.board = None
    BY DEF NoDesk
  <2> HIDE DEF d
  <2>3. u = [desk |-> d, storage |-> storage, calls |-> calls]
    BY DEF Now
  <2> HIDE DEF u
  <2>4. /\ refreshBoard(u, "bootRefresh").desk = d
        /\ refreshBoard(u, "bootRefresh").storage = storage
    BY <2>3 DEF refreshBoard
  <2> QED
    BY <2>1, <2>2, <2>4 DEF Becomes
<1>4. CASE CloseDesk
  <2>1. desk' = NoDesk
    BY <1>4 DEF CloseDesk, Becomes, Now
  <2> QED
    BY <2>1 DEF NoDesk
<1>5. CASE LogOut
  <2>1. Honest(Now, ledger.taken)
    BY DEF Kept
  <2>2. onLogout(Now).desk.session = None /\ onLogout(Now).desk.board = None
    BY <2>1, LogoutKeeps
  <2> QED
    BY <1>5, <2>2 DEF LogOut, Becomes
<1>6. ASSUME NEW n \in 1..MaxCalls, ReceiveCall(n)
      PROVE  /\ desk'.board # None => desk'.session # None \/ "late" \in ledger'.odd
             /\ desk'.session \in {None, storage'}
  <2>1. calls[n].kind # "probe" /\ calls[n].token # desk.session => "late" \in OddArrival(n)
    BY DEF OddArrival
  <2> QED
    BY <1>6, <2>1, ReceiveStep, StaffAssumption DEF BoardNeedsSession
<1> QED
  BY <1>1, <1>2, <1>3, <1>4, <1>5, <1>6 DEF StaffNext, Quiet

\* For any number of calls in flight, the page keeps its lists without a
\* session only when an answer to a call of an ended session has brought them,
\* since they were cleared last.
THEOREM LogoutForgets == StaffSpec => []BoardNeedsSession
<1>1. StaffInit => BoardNeedsSession
  BY DEF StaffInit, BoardNeedsSession, NoDesk
<1> QED
  BY <1>1, KeptInit, KeptStep, BoardStep, PTL DEF StaffSpec

\* A session ends by the operator's hand, with the tab, or when an answer that
\* refuses a token is received, whichever session's that was.
THEOREM RefusalsEndSessions == StaffSpec => SessionEndsForCause
<1>1. ASSUME Kept, [StaffNext]_staffVars, desk.session # None,
             desk'.session = None, desk'.mounted
      PROVE  \/ LogOut
             \/ \E n \in DOMAIN calls :
                  /\ calls[n].status = "MissingStaffCapability"
                  /\ ReceiveCall(n)
  <2>1. CASE UNCHANGED staffVars
    BY <1>1, <2>1 DEF staffVars
  <2>2. CASE Quiet
    BY <1>1, <2>2, QuietDeskStep
  <2>3. CASE OpenDesk
    BY <1>1, <2>3 DEF OpenDesk, Kept
  <2>4. CASE CloseDesk
    <3>1. desk' = NoDesk
      BY <2>4 DEF CloseDesk, Becomes, Now
    <3> QED
      BY <1>1, <3>1 DEF NoDesk
  <2>5. ASSUME NEW n \in 1..MaxCalls, ReceiveCall(n)
        PROVE  n \in DOMAIN calls /\ calls[n].status = "MissingStaffCapability"
    BY <1>1, <2>5, ReceiveStep, StaffAssumption
  <2> QED
    BY <1>1, <2>1, <2>2, <2>3, <2>4, <2>5 DEF StaffNext, Quiet
<1>2. Kept /\ [StaffNext]_staffVars =>
        [desk.session # None /\ desk'.session = None /\ desk'.mounted
           => \/ LogOut
              \/ \E n \in DOMAIN calls :
                   /\ calls[n].status = "MissingStaffCapability"
                   /\ ReceiveCall(n)]_staffVars
  BY <1>1
<1> QED
  BY <1>2, KeptInit, KeptStep, PTL DEF StaffSpec, SessionEndsForCause


-----------------------------------------------------------------------------
(* One action at a time.                                                   *)

\* The strengthening: Undo's oddity is over when the last claim has ended, and
\* that one gives busy back.
Alone == OneActionAtATime /\ ("undo" \in ledger.odd => Claims(calls) # {})

LEMMA ClaimsOf ==
  ASSUME NEW s
  PROVE  \A n : n \in Claims(s) <=> n \in DOMAIN s /\ s[n].kind \notin Background
BY DEF Claims, Background

LEMMA AppendedClaims ==
  ASSUME NEW s \in Seq(Call), NEW kind \in CallKind, NEW token \in Tokens
  PROVE  LET t == Append(s, NewCall(kind, token))
         IN  /\ Len(s) + 1 \in DOMAIN t
             /\ kind \in Background => Claims(t) = Claims(s)
             /\ kind \notin Background => Claims(t) = Claims(s) \cup {Len(s) + 1}
<1> DEFINE c == NewCall(kind, token)
           t == Append(s, c)
<1>1. c \in Call /\ c.kind = kind
  BY DEF NewCall, Call
<1> HIDE DEF c
<1>2. /\ DOMAIN t = 1 .. Len(s) + 1 /\ DOMAIN s = 1 .. Len(s) /\ Len(s) \in Nat
      /\ \A n \in 1 .. Len(s) : t[n] = s[n]
      /\ t[Len(s) + 1] = c
  BY <1>1
<1> HIDE DEF t
<1>3. \A n : n \in DOMAIN t <=> n \in DOMAIN s \/ n = Len(s) + 1
  BY <1>2
<1>4. Len(s) + 1 \notin DOMAIN s /\ \A n \in DOMAIN s : t[n] = s[n]
  BY <1>2
<1>5. ASSUME kind \in Background PROVE Claims(t) = Claims(s)
  BY <1>1, <1>2, <1>3, <1>4, <1>5, ClaimsOf
<1>6. ASSUME kind \notin Background PROVE Claims(t) = Claims(s) \cup {Len(s) + 1}
  BY <1>1, <1>2, <1>3, <1>4, <1>6, ClaimsOf
<1>7. Len(s) + 1 \in DOMAIN t
  BY <1>3
<1> QED
  BY <1>5, <1>6, <1>7 DEF t, c

LEMMA RemovedClaims ==
  ASSUME NEW s \in Seq(Call), NEW n \in DOMAIN s, NEW t, DOMAIN t = 1 .. Len(s) - 1,
         \A m \in 1 .. Len(s) - 1 : t[m] = s[IF m < n THEN m ELSE m + 1]
  PROVE  /\ Claims(s) \subseteq {n} => Claims(t) = {}
         /\ s[n].kind \in Background =>
              /\ Claims(s) # {} => Claims(t) # {}
              /\ \A m \in DOMAIN s : Claims(s) = {m} => \E k \in DOMAIN t : Claims(t) = {k}
<1> DEFINE at(m) == IF m < n THEN m ELSE m + 1
           from(m) == IF m < n THEN m ELSE m - 1
<1>1. Len(s) \in Nat /\ n \in 1 .. Len(s) /\ DOMAIN s = 1 .. Len(s)
  OBVIOUS
<1>2. \A m \in DOMAIN t : at(m) \in DOMAIN s /\ at(m) # n /\ t[m] = s[at(m)] /\ from(at(m)) = m
  BY <1>1
<1>3. \A m \in DOMAIN s : m # n => from(m) \in DOMAIN t /\ at(from(m)) = m
  BY <1>1
<1> HIDE DEF at, from
<1>4. \A m \in DOMAIN t : m \in Claims(t) <=> at(m) \in Claims(s)
  BY <1>2, ClaimsOf
<1>5. Claims(t) \subseteq DOMAIN t /\ Claims(s) \subseteq DOMAIN s
  BY ClaimsOf
<1>6. Claims(s) \subseteq {n} => Claims(t) = {}
  BY <1>2, <1>4, <1>5
<1>7. ASSUME s[n].kind \in Background, NEW m \in Claims(s)
      PROVE  /\ from(m) \in Claims(t)
             /\ Claims(s) = {m} => Claims(t) = {from(m)}
  <2>1. m \in DOMAIN s /\ m # n
    BY <1>7, ClaimsOf
  <2>2. from(m) \in DOMAIN t /\ at(from(m)) = m
    BY <1>3, <2>1
  <2>3. from(m) \in Claims(t)
    BY <1>4, <1>7, <2>2
  <2>4. ASSUME Claims(s) = {m}, NEW k \in Claims(t) PROVE k = from(m)
    <3>1. k \in DOMAIN t /\ at(k) = m
      BY <1>4, <1>5, <2>4
    <3> QED
      BY <1>2, <3>1
  <2> QED
    BY <2>3, <2>4
<1> QED
  BY <1>5, <1>6, <1>7

LEMMA AloneReceived ==
  ASSUME Kept, Alone, NEW n, ReceiveCall(n)
  PROVE  Alone'
<1> DEFINE w == [Now EXCEPT !.calls = RemoveAt(@, n)]
           c == calls[n]
           v == Arrived(w, c)
<1>1. /\ n \in DOMAIN calls /\ Becomes(v)
      /\ ledger' = [ledger EXCEPT !.odd = (@ \cup OddArrival(n)) \ Over(v)]
  BY DEF ReceiveCall
<1>2. /\ Honest(w, ledger.taken) /\ w.desk = desk /\ c \in Call
      /\ c.status = "ok" => c.token \in ledger.taken
      /\ Len(calls) \in Nat /\ Len(w.calls) = Len(calls) - 1
      /\ \A m \in 1 .. Len(calls) - 1 :
           w.calls[m] = calls[IF m < n THEN m ELSE m + 1]
  BY <1>1, ReceivedWorld
<1>3. calls \in Seq(Call) /\ desk.busy \in BOOLEAN
  BY DEF Kept, StaffTypeOK, Desk
<1> HIDE DEF w, c
<1>4. w.calls \in Seq(Call) /\ DOMAIN w.calls = 1 .. Len(calls) - 1
  <2>1. w.calls \in Seq(Call)
    BY <1>2 DEF Honest, World
  <2> QED
    BY <1>2, <2>1
\* The other calls, before the page makes another.
<1>5. /\ Claims(calls) \subseteq {n} => Claims(w.calls) = {}
      /\ c.kind \in Background =>
           /\ Claims(calls) # {} => Claims(w.calls) # {}
           /\ \A m \in DOMAIN calls :
                Claims(calls) = {m} => \E k \in DOMAIN w.calls : Claims(w.calls) = {k}
  <2> HIDE DEF OneActionAtATime
  <2>1. DOMAIN w.calls = 1 .. Len(calls) - 1
    BY <1>4
  <2> QED
    BY <1>1, <1>2, <1>3, <2>1, RemovedClaims DEF c
<1>6. c.kind \notin Background => n \in Claims(calls)
  BY <1>1, ClaimsOf DEF c
<1>7. /\ c.kind \in Background => v.calls = w.calls /\ v.desk.busy = w.desk.busy
      /\ c.kind \notin Background =>
           \/ /\ ~v.desk.busy
              /\ \/ v.calls = w.calls
                 \/ \E token \in Tokens :
                      v.calls = Append(w.calls, NewCall("refresh", token))
           \/ /\ v.desk.busy = w.desk.busy
              /\ \E token \in Tokens :
                   v.calls = Append(w.calls, NewCall("loginRefresh", token))
  BY <1>2, ArrivalKeeps
<1> HIDE DEF v
<1>8. desk' = v.desk /\ calls' = v.calls
  BY <1>1 DEF Becomes
<1>9. /\ "refresh" \in CallKind /\ "refresh" \in Background
      /\ "loginRefresh" \in CallKind /\ "loginRefresh" \notin Background
  BY DEF CallKind, BoardCall, Background
<1>10. "undo" \in ledger'.odd <=> "undo" \in ledger.odd /\ Claims(calls') # {}
  <2>1. OddArrival(n) \subseteq StaffOddity /\ "undo" \notin OddArrival(n)
    BY DEF OddArrival, StaffOddity
  <2>2. ledger'.odd = (ledger.odd \cup OddArrival(n)) \ Over(v)
    BY <1>1, <2>1, OddTyped
  <2>3. "undo" \in Over(v) <=> Claims(v.calls) = {}
    BY DEF Over
  <2> QED
    BY <1>8, <2>1, <2>2, <2>3
\* A call nobody waits for.
<1>11. CASE c.kind \in Background
  <2>1. calls' = w.calls /\ desk'.busy = desk.busy
    BY <1>2, <1>7, <1>8, <1>11
  <2>2. CASE "undo" \in ledger.odd
    <3>1. "undo" \in ledger'.odd /\ Claims(calls') # {}
      BY <1>5, <1>10, <1>11, <2>1, <2>2 DEF Alone
    <3> QED
      BY <3>1 DEF Alone, OneActionAtATime
  <2>3. CASE "undo" \notin ledger.odd
    <3>1. "undo" \notin ledger'.odd
      BY <1>10, <2>3
    <3>2. CASE desk.busy /\ \E m \in DOMAIN calls : Claims(calls) = {m}
      <4>1. desk'.busy /\ \E k \in DOMAIN calls' : Claims(calls') = {k}
        BY <1>5, <1>11, <2>1, <3>2
      <4> QED
        BY <3>1, <4>1 DEF Alone, OneActionAtATime
    <3>3. CASE ~desk.busy /\ Claims(calls) = {}
      <4>1. ~desk'.busy /\ Claims(calls') = {}
        BY <1>5, <2>1, <3>3
      <4> QED
        BY <3>1, <4>1 DEF Alone, OneActionAtATime
    <3> QED
      BY <2>3, <3>2, <3>3 DEF Alone, OneActionAtATime
  <2> QED
    BY <2>2, <2>3
\* A claim ends, or the login's probe hands it to its board.
<1>12. CASE c.kind \notin Background
  <2>1. CASE /\ ~v.desk.busy
             /\ \/ v.calls = w.calls
                \/ \E token \in Tokens :
                     v.calls = Append(w.calls, NewCall("refresh", token))
    <3>1. ~desk'.busy /\ Claims(calls') = Claims(w.calls)
      <4>1. CASE v.calls = w.calls
        BY <1>8, <2>1, <4>1
      <4>2. ASSUME NEW token \in Tokens,
                   v.calls = Append(w.calls, NewCall("refresh", token))
            PROVE  Claims(v.calls) = Claims(w.calls)
        BY <1>4, <1>9, <4>2, AppendedClaims
      <4> QED
        BY <1>8, <2>1, <4>1, <4>2
    <3>2. CASE "undo" \in ledger.odd
      BY <1>10, <3>1, <3>2 DEF Alone, OneActionAtATime
    <3>3. CASE "undo" \notin ledger.odd
      <4>1. Claims(calls) \subseteq {n}
        BY <1>6, <1>12, <3>3 DEF Alone, OneActionAtATime
      <4>2. Claims(calls') = {} /\ "undo" \notin ledger'.odd
        BY <1>5, <1>10, <3>1, <3>3, <4>1
      <4> QED
        BY <3>1, <4>2 DEF Alone, OneActionAtATime
    <3> QED
      BY <3>2, <3>3
  <2>2. CASE /\ v.desk.busy = w.desk.busy
             /\ \E token \in Tokens :
                  v.calls = Append(w.calls, NewCall("loginRefresh", token))
    <3>1. /\ Len(w.calls) + 1 \in DOMAIN calls'
          /\ Claims(calls') = Claims(w.calls) \cup {Len(w.calls) + 1}
      BY <1>4, <1>8, <1>9, <2>2, AppendedClaims
    <3>2. desk'.busy = desk.busy
      BY <1>2, <1>8, <2>2
    <3>3. CASE "undo" \in ledger.odd
      BY <1>10, <3>1, <3>3 DEF Alone, OneActionAtATime
    <3>4. CASE "undo" \notin ledger.odd
      <4>1. desk.busy /\ Claims(calls) \subseteq {n}
        BY <1>6, <1>12, <3>4 DEF Alone, OneActionAtATime
      <4>2. Claims(calls') = {Len(w.calls) + 1} /\ "undo" \notin ledger'.odd
        BY <1>5, <1>10, <3>1, <3>4, <4>1
      <4>3. desk'.busy
        BY <3>2, <4>1
      <4> QED
        BY <3>1, <4>2, <4>3 DEF Alone, OneActionAtATime
    <3> QED
      BY <3>3, <3>4
  <2> QED
    BY <1>7, <1>12, <2>1, <2>2
<1> QED
  BY <1>11, <1>12

\* A probe, an action or Undo.  The first two find the page idle.
LEMMA AloneSent ==
  ASSUME Kept, Alone,
         handleUndo \/ (\E token \in Tokens : onLogin(token))
           \/ \E kind \in StaffAction : Press(kind)
  PROVE  Alone'
<1>1. /\ desk \in Desk /\ calls \in Seq(Call) /\ desk.busy \in BOOLEAN
      /\ ledger \in [taken : SUBSET Tokens, odd : SUBSET StaffOddity]
  BY DEF Kept, StaffTypeOK, Desk
<1>2. /\ \E kind \in CallKind \ Background, token \in Tokens :
           calls' = Append(calls, NewCall(kind, token))
      /\ desk'.busy
  <2>1. CASE handleUndo
    <3>1. /\ calls' = Append(calls, NewCall("other", desk.session))
          /\ desk' = [desk EXCEPT !.busy = TRUE, !.error = FALSE, !.undo = FALSE]
          /\ desk.session \in Tokens
      BY <1>1, <2>1 DEF handleUndo, Becomes, Now, Desk
    <3>2. desk'.busy
      BY <1>1, <3>1 DEF Desk
    <3>3. "other" \in CallKind \ Background
      BY DEF CallKind, StaffAction, Background
    <3> QED
      BY <3>1, <3>2, <3>3
  <2>2. ASSUME NEW token \in Tokens, onLogin(token)
        PROVE  /\ \E kind \in CallKind \ Background, t \in Tokens :
                    calls' = Append(calls, NewCall(kind, t))
               /\ desk'.busy
    <3>1. /\ calls' = Append(calls, NewCall("probe", token))
          /\ desk' = [desk EXCEPT !.busy = TRUE, !.error = FALSE]
      BY <1>1, <2>2 DEF onLogin, Becomes, Now
    <3>2. desk'.busy
      BY <1>1, <3>1 DEF Desk
    <3>3. "probe" \in CallKind \ Background
      BY DEF CallKind, Background
    <3> QED
      BY <3>1, <3>2, <3>3
  <2>3. ASSUME NEW k \in StaffAction, Press(k)
        PROVE  /\ \E kind \in CallKind \ Background, token \in Tokens :
                    calls' = Append(calls, NewCall(kind, token))
               /\ desk'.busy
    <3>1. /\ calls' = Append(calls, NewCall(k, desk.session))
          /\ desk' = [desk EXCEPT !.busy = TRUE, !.error = FALSE]
          /\ desk.session \in Tokens
      BY <1>1, <2>3 DEF Press, runAction, Becomes, Now, Desk
    <3>2. desk'.busy
      BY <1>1, <3>1 DEF Desk
    <3>3. k \in CallKind \ Background
      BY DEF CallKind, StaffAction, Background
    <3> QED
      BY <3>1, <3>2, <3>3
  <2> QED
    BY <2>1, <2>2, <2>3
<1>3. /\ Len(calls) + 1 \in DOMAIN calls'
      /\ Claims(calls') = Claims(calls) \cup {Len(calls) + 1}
  BY <1>1, <1>2, AppendedClaims
<1>4. \/ "undo" \in ledger'.odd
      \/ ~desk.busy /\ (ledger'.odd = ledger.odd)
  <2>1. CASE handleUndo
    <3>1. ledger'.odd = ledger.odd \cup (IF desk.busy THEN {"undo"} ELSE {})
      BY <1>1, <2>1 DEF handleUndo
    <3> QED
      BY <3>1
  <2>2. CASE \E token \in Tokens : onLogin(token)
    BY <2>2 DEF onLogin
  <2>3. CASE \E kind \in StaffAction : Press(kind)
    BY <2>3 DEF Press
  <2> QED
    BY <2>1, <2>2, <2>3
<1>5. CASE "undo" \in ledger'.odd
  BY <1>3, <1>5 DEF Alone, OneActionAtATime
<1>6. CASE "undo" \notin ledger'.odd
  <2>1. Claims(calls) = {}
    BY <1>4, <1>6 DEF Alone, OneActionAtATime
  <2>2. desk'.busy /\ Claims(calls') = {Len(calls) + 1}
    BY <1>2, <1>3, <2>1
  <2> QED
    BY <1>3, <1>6, <2>2 DEF Alone, OneActionAtATime
<1> QED
  BY <1>5, <1>6

\* The steps that leave busy and what claims it as they are.
LEMMA ClaimsStay ==
  ASSUME Alone, Claims(calls') = Claims(calls), DOMAIN calls \subseteq DOMAIN calls',
         desk'.busy = desk.busy, "undo" \in ledger'.odd <=> "undo" \in ledger.odd
  PROVE  Alone'
BY DEF Alone, OneActionAtATime

LEMMA AloneStep == Kept /\ Alone /\ [StaffNext]_staffVars => Alone'
<1> SUFFICES ASSUME Kept, Alone, [StaffNext]_staffVars PROVE Alone'
  OBVIOUS
<1>1. /\ desk \in Desk /\ calls \in Seq(Call)
      /\ ledger \in [taken : SUBSET Tokens, odd : SUBSET StaffOddity]
  BY DEF Kept, StaffTypeOK
<1>2. Claims(<< >>) = {}
  BY DEF Claims
<1>3. CASE UNCHANGED staffVars
  BY <1>3, ClaimsStay DEF staffVars
\* What else calls for the board claims nothing.
<1>4. ASSUME NEW w, NEW kind \in Background,
             w \in World, w.calls = calls, Becomes(refreshBoard(w, kind))
      PROVE  /\ Claims(calls') = Claims(calls) /\ DOMAIN calls \subseteq DOMAIN calls'
             /\ desk' = w.desk
  <2> DEFINE v == refreshBoard(w, kind)
  <2>1. /\ v.desk = w.desk
        /\ \/ v.calls = calls
           \/ \E token \in Tokens : v.calls = Append(calls, NewCall(kind, token))
    <3>1. CASE w.desk.session = None
      BY <1>4, <3>1 DEF refreshBoard
    <3>2. CASE w.desk.session # None
      <4>1. w.desk.session \in Tokens
        BY <1>4, <3>2 DEF World, Desk
      <4> QED
        BY <1>4, <3>2, <4>1 DEF refreshBoard, World
    <3> QED
      BY <3>1, <3>2
  <2>2. calls' = v.calls /\ desk' = w.desk
    BY <1>4, <2>1 DEF Becomes
  <2>3. kind \in CallKind
    BY DEF CallKind, BoardCall, Background
  <2> HIDE DEF v
  <2>4. Claims(calls') = Claims(calls)
    <3>1. CASE v.calls = calls
      BY <2>2, <3>1
    <3>2. ASSUME NEW token \in Tokens, v.calls = Append(calls, NewCall(kind, token))
          PROVE  Claims(v.calls) = Claims(calls)
      BY <1>1, <2>3, <3>2, AppendedClaims
    <3> QED
      BY <2>1, <2>2, <3>1, <3>2
  <2>5. DOMAIN calls \subseteq DOMAIN calls'
    <3>1. CASE v.calls = calls
      BY <2>2, <3>1
    <3>2. ASSUME NEW token \in Tokens, v.calls = Append(calls, NewCall(kind, token))
          PROVE  DOMAIN calls \subseteq DOMAIN calls'
      <4>1. NewCall(kind, token) \in Call
        BY <2>3 DEF NewCall, Call
      <4> QED
        BY <1>1, <2>2, <3>2, <4>1
    <3> QED
      BY <2>1, <3>1, <3>2
  <2> QED
    BY <2>2, <2>4, <2>5
<1>5. CASE OpenDesk
  <2> DEFINE d == [NoDesk EXCEPT !.mounted = TRUE, !.session = storage]
             u == [Now EXCEPT !.desk = d]
  <2>1. Becomes(refreshBoard(u, "bootRefresh")) /\ ledger' = ledger /\ calls = << >>
    BY <1>5 DEF OpenDesk, Kept
  <2>2. storage \in Tokens \cup {None}
    BY DEF Kept, StaffTypeOK
  <2>3. d \in Desk
    BY <2>2, NoDeskType, Zenon DEF Desk
  <2>4. ~d.busy
    BY DEF NoDesk
  <2> HIDE DEF d
  <2>5. u \in World /\ u.calls = calls /\ u.desk = d
    BY <1>1, <2>2, <2>3 DEF Now, World
  <2> HIDE DEF u
  <2>6. Claims(calls') = {} /\ desk' = d
    BY <1>2, <1>4, <2>1, <2>5 DEF Background
  <2>7. "undo" \notin ledger'.odd
    BY <1>2, <2>1 DEF Alone
  <2> QED
    BY <2>4, <2>6, <2>7 DEF Alone, OneActionAtATime
<1>6. CASE CloseDesk
  <2> DEFINE v == [Now EXCEPT !.desk = NoDesk, !.calls = << >>]
  <2>1. v.calls = << >> /\ v.desk = NoDesk
    BY DEF Now
  <2>2. Becomes(v) /\ ledger' = [ledger EXCEPT !.odd = (@ \cup {}) \ Over(v)]
    BY <1>6 DEF CloseDesk
  <2> HIDE DEF v
  <2>3. ledger'.odd = (ledger.odd \cup {}) \ Over(v)
    BY <2>2, OddTyped
  <2>4. "undo" \in Over(v)
    BY <1>2, <2>1 DEF Over
  <2>5. "undo" \notin ledger'.odd /\ Claims(calls') = {} /\ desk' = NoDesk
    BY <1>2, <2>1, <2>2, <2>3, <2>4 DEF Becomes
  <2> QED
    BY <2>5 DEF Alone, OneActionAtATime, NoDesk
<1>7. CASE LogOut
  <2> DEFINE v == onLogout(Now)
  <2>1. Becomes(v) /\ ledger' = [ledger EXCEPT !.odd = (@ \cup {}) \ Over(v)]
    BY <1>7 DEF LogOut
  <2>2. Honest(Now, ledger.taken) /\ Now.calls = calls /\ Now.desk = desk
    BY DEF Kept, Now
  <2>3. v.calls = calls /\ v.desk.busy = desk.busy
    BY <2>2, LogoutKeeps
  <2> HIDE DEF v
  <2>4. ledger'.odd = (ledger.odd \cup {}) \ Over(v)
    BY <2>1, OddTyped
  <2>5. "undo" \in Over(v) <=> Claims(calls) = {}
    BY <2>3 DEF Over
  <2>6. "undo" \in ledger'.odd <=> "undo" \in ledger.odd
    BY <2>4, <2>5 DEF Alone
  <2> QED
    BY <2>1, <2>3, <2>6, ClaimsStay DEF Becomes
<1>8. ASSUME NEW n \in 1..MaxCalls, ReceiveCall(n) PROVE Alone'
  BY <1>8, AloneReceived
<1>9. CASE handleUndo \/ (\E token \in Tokens : onLogin(token))
             \/ \E kind \in StaffAction : Press(kind)
  BY <1>9, AloneSent
\* An answer on its way is still the same call.
<1>10. ASSUME NEW n \in 1..MaxCalls, AnswerCall(n) \/ FailCall(n) PROVE Alone'
  <2>1. /\ DOMAIN calls' = DOMAIN calls
        /\ \A m \in DOMAIN calls : calls'[m].kind = calls[m].kind
    <3>1. \A m \in DOMAIN calls : calls[m] \in Call
      BY <1>1
    <3>2. \/ calls' = [calls EXCEPT ![n].status = "MissingStaffCapability"]
          \/ calls' = [calls EXCEPT ![n].status = "ok", ![n].board = version]
          \/ calls' = [calls EXCEPT ![n].status = "failed", ![n].board = None]
      BY <1>10 DEF AnswerCall, FailCall
    <3>3. CASE calls' = [calls EXCEPT ![n].status = "MissingStaffCapability"]
      BY <1>1, <3>1, <3>3 DEF Call
    <3>4. CASE calls' = [calls EXCEPT ![n].status = "ok", ![n].board = version]
      BY <1>1, <3>1, <3>4 DEF Call
    <3>5. CASE calls' = [calls EXCEPT ![n].status = "failed", ![n].board = None]
      BY <1>1, <3>1, <3>5 DEF Call
    <3> QED
      BY <3>2, <3>3, <3>4, <3>5
  <2>2. Claims(calls') = Claims(calls)
    BY <2>1, ClaimsOf
  <2>3. "undo" \in ledger'.odd <=> "undo" \in ledger.odd
    <3>1. \/ ledger' = ledger
          \/ \E t : \E o \in {{}, {"overtaken"}} :
               ledger' = [ledger EXCEPT !.taken = @ \cup t, !.odd = @ \cup o]
      <4>1. CASE FailCall(n)
        BY <4>1 DEF FailCall
      <4>2. CASE AnswerCall(n)
        BY <4>2 DEF AnswerCall
      <4> QED
        BY <1>10, <4>1, <4>2
    <3>2. ASSUME NEW t, NEW o \in {{}, {"overtaken"}},
                 ledger' = [ledger EXCEPT !.taken = @ \cup t, !.odd = @ \cup o]
          PROVE  ledger'.odd = ledger.odd \cup o /\ "undo" \notin o
      <4>1. ledger'.odd = ledger.odd \cup o
        BY <1>1, <3>2
      <4>2. "undo" \notin o
        OBVIOUS
      <4> QED
        BY <4>1, <4>2
    <3> QED
      BY <3>1, <3>2
  <2>4. desk'.busy = desk.busy
    <3>1. desk' = desk \/ desk' = [desk EXCEPT !.feed = broadcast(@)]
      BY <1>10 DEF AnswerCall, FailCall
    <3> QED
      BY <1>1, <3>1 DEF Desk
  <2> QED
    BY <2>1, <2>2, <2>3, <2>4, ClaimsStay
<1>11. CASE DeskFeedConnects \/ DeskFeedDrops \/ BoardChanges \/ onDismiss
              \/ \E token \in Tokens : RotateSecret(token)
  <2>1. ledger' = ledger /\ calls' = calls
    BY <1>11 DEF DeskFeedConnects, DeskFeedDrops, BoardChanges, onDismiss,
                 RotateSecret, DeskFeed
  <2>2. desk'.busy = desk.busy
    BY <1>1, <1>11 DEF DeskFeedConnects, DeskFeedDrops, BoardChanges, onDismiss,
                       RotateSecret, DeskFeed, Desk
  <2> QED
    BY <2>1, <2>2, ClaimsStay
<1>12. CASE DeskFeedDelivers
  <2> DEFINE u == [Now EXCEPT !.desk.feed = onmessage(@)]
             d == [desk EXCEPT !.feed = onmessage(desk.feed)]
  <2>1. Becomes(refreshBoard(u, "refresh")) /\ ledger' = ledger
    BY <1>12 DEF DeskFeedDelivers
  <2>2. desk.feed \in Feed
    BY <1>1 DEF Desk
  <2>3. d \in Desk /\ d.busy = desk.busy
    BY <1>1, <2>2, FeedType, FeedChanges
  <2>4. u = [desk |-> d, storage |-> storage, calls |-> calls]
    BY DEF Now
  <2> HIDE DEF d
  <2>5. u \in World /\ u.calls = calls /\ u.desk = d
    BY <2>3, <2>4 DEF World, Kept, StaffTypeOK
  <2> HIDE DEF u
  <2>6. /\ Claims(calls') = Claims(calls) /\ DOMAIN calls \subseteq DOMAIN calls'
        /\ desk' = d
    BY <1>4, <2>1, <2>5 DEF Background
  <2> QED
    BY <2>1, <2>3, <2>6, ClaimsStay
<1>13. CASE StrayFeedDelivers
  <2>1. Becomes(refreshBoard(Now, "refresh")) /\ ledger' = ledger
    BY <1>13 DEF StrayFeedDelivers
  <2>2. Now \in World /\ Now.calls = calls /\ Now.desk = desk
    BY DEF Now, Kept, Honest
  <2>3. /\ Claims(calls') = Claims(calls) /\ DOMAIN calls \subseteq DOMAIN calls'
        /\ desk' = desk
    BY <1>4, <2>1, <2>2 DEF Background
  <2> QED
    BY <2>1, <2>3, ClaimsStay
<1> QED
  BY <1>3, <1>5, <1>6, <1>7, <1>8, <1>9, <1>10, <1>11, <1>12, <1>13 DEF StaffNext

\* For any number of calls in flight: busy is up exactly while one login,
\* action or recall is under way, unless Undo was pressed during another; and
\* from the moment all of those have ended that holds again.
THEOREM ActionsAreAlone == StaffSpec => []OneActionAtATime
<1>1. StaffInit => Alone
  BY DEF StaffInit, Alone, OneActionAtATime, Claims, NoDesk
<1>2. Alone => OneActionAtATime
  BY DEF Alone
<1> QED
  BY <1>1, <1>2, KeptInit, KeptStep, AloneStep, PTL DEF StaffSpec

=============================================================================
