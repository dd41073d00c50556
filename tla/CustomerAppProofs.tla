-------------------------- MODULE CustomerAppProofs --------------------------
(***************************************************************************)
(* Proofs about the customer's tab, for any number of handles, page slots, *)
(* requests in flight, tickets and calls.                                  *)
(*                                                                         *)
(* Every handler takes one browser to the next, so the facts are stated of *)
(* a browser w.  Orderly is what holds of it even while a page is being    *)
(* replaced; Good adds that a page is mounted.                             *)
(***************************************************************************)
EXTENDS CustomerApp, SequenceTheorems, TLAPS

\* The requests onMount awaits.
Booter == {"boot", "shopState"}

\* A request that can be answered as the shop answers it.
Sensible(q) ==
  /\ q \in Request
  /\ q.kind # "shopState" => q.handle \in Handles
  /\ q.status = "ok" /\ q.kind \in Refresh \cup {"issue", "recover", "cancel", "reschedule"}
       => q.row # None
  /\ q.row # None /\ q.row.state \in {"Called", "Overdue"} => q.row.key # 0

\* A page that was left is booting still, or dead, or was between two sockets.
OrderlyPage(p) ==
  /\ p.route = "ticket" <=> p.stored # None
  /\ p.left \in {"delay", "settled"} => ~p.booting
  /\ p.left = "settled" => ~FeedAlive(p.feed)

\* A request belongs to a page that is still there, one a boot awaits to a
\* page that boots, and the ticket page asks for the ticket it is about.
Belongs(q, w) ==
  /\ w.pages[q.page] # None
  /\ q.kind \in Refresh \cup Operation =>
       w.pages[q.page].route = "ticket" /\ q.handle = w.pages[q.page].stored.handle
  /\ q.kind \in Booter => w.pages[q.page].booting
  /\ q.kind \in {"issue", "recover"} => w.pages[q.page].route = q.kind

\* A boot awaits one request at a time.
OneBoot(flight) ==
  \A m, n \in DOMAIN flight :
    /\ flight[m].kind \in Booter /\ flight[n].kind \in Booter
    /\ flight[m].page = flight[n].page
    => m = n

Orderly(w) ==
  /\ w \in Tab
  /\ \A s \in Slots : w.pages[s] # None =>
       OrderlyPage(w.pages[s]) /\ (w.pages[s].left = "no" => s = w.mounted)
  /\ \A n \in DOMAIN w.flight : Sensible(w.flight[n]) /\ Belongs(w.flight[n], w)
  /\ OneBoot(w.flight)

Fits(w) == w.pages[w.mounted].left = "no"

Good(w) ==
  /\ Orderly(w)
  /\ w.mounted # None
  /\ w.pages[w.mounted] # None
  /\ Fits(w)

\* The chime loops over a ticket page that knows of it.
Chimes(w) ==
  w.playing => LET p == w.pages[w.mounted]
               IN  /\ w.mounted # None /\ p # None
                   /\ p.route = "ticket" /\ p.ticket # None /\ p.chimePlaying

\* The mounted ticket page is about the cached handle.
Sits(w) ==
  w.mounted # None /\ w.cache # None =>
    LET p == w.pages[w.mounted]
    IN  p # None /\ p.route = "ticket" => w.cache.handle = p.stored.handle

\* A handler sends one request, or none, or the bound has cut all off.
Grew(f, g) ==
  \/ g = f
  \/ g = << >>
  \/ \E q \in Request : q.status = "sent" /\ g = Append(f, q)

-----------------------------------------------------------------------------
(* Pages that stay, whatever they show.                                    *)

\* The same page, and no feed brought back to life.
SamePage(p, q) ==
  \/ q = p
  \/ /\ p # None /\ q # None
     /\ q.route = p.route /\ q.stored = p.stored
     /\ q.booting = p.booting /\ q.left = p.left
     /\ FeedAlive(q.feed) => FeedAlive(p.feed)

Touched(w, v) ==
  /\ v \in Tab
  /\ v.mounted = w.mounted /\ v.flight = w.flight
  /\ \A s \in Slots : SamePage(w.pages[s], v.pages[s])

LEMMA TouchedTwice ==
  ASSUME NEW u, NEW v, NEW w, Touched(u, v), Touched(v, w)
  PROVE  Touched(u, w)
BY DEF Touched, SamePage

LEMMA TouchKeeps ==
  ASSUME NEW w, Orderly(w), NEW v, Touched(w, v)
  PROVE  Orderly(v) /\ (Good(w) => Good(v))
<1>1. v \in Tab /\ v.mounted = w.mounted /\ v.flight = w.flight /\ w \in Tab
  BY DEF Touched, Orderly
<1>2. ASSUME NEW s \in Slots
      PROVE  /\ v.pages[s] # None <=> w.pages[s] # None
             /\ v.pages[s] # None =>
                  /\ OrderlyPage(v.pages[s])
                  /\ v.pages[s].left = w.pages[s].left
                  /\ v.pages[s].route = w.pages[s].route
                  /\ v.pages[s].booting = w.pages[s].booting
                  /\ v.pages[s].stored = w.pages[s].stored
                  /\ (v.pages[s].left = "no" => s = v.mounted)
  BY <1>1 DEF Touched, SamePage, Orderly, OrderlyPage
<1>3. ASSUME NEW n \in DOMAIN v.flight
      PROVE  Sensible(v.flight[n]) /\ Belongs(v.flight[n], v)
  <2>1. Sensible(w.flight[n]) /\ Belongs(w.flight[n], w)
    BY <1>1 DEF Orderly
  <2>2. w.flight[n].page \in Slots
    BY <2>1 DEF Sensible, Request
  <2> QED
    BY <1>1, <1>2, <2>1, <2>2 DEF Belongs
<1>4. Orderly(v)
  BY <1>1, <1>2, <1>3 DEF Orderly
<1>5. ASSUME Good(w) PROVE Good(v)
  <2>1. w.mounted \in Slots
    BY <1>1, <1>5 DEF Good, Tab
  <2> QED
    BY <1>1, <1>2, <1>4, <1>5, <2>1 DEF Good, Fits
<1> QED
  BY <1>4, <1>5

LEMMA TouchSits ==
  ASSUME NEW w \in Tab, NEW v, Touched(w, v), v.cache = w.cache, Sits(w)
  PROVE  Sits(v)
<1>1. v.mounted = w.mounted /\ (w.mounted # None => w.mounted \in Slots)
  BY DEF Touched, Tab
<1>2. w.mounted # None => SamePage(w.pages[w.mounted], v.pages[w.mounted])
  BY <1>1 DEF Touched
<1> QED
  BY <1>1, <1>2 DEF Sits, SamePage

\* A browser with another page in slot s.
LEMMA PageSet ==
  ASSUME NEW w \in Tab, NEW s \in Slots, NEW q \in Page \cup {None}
  PROVE  LET v == [w EXCEPT !.pages[s] = q]
         IN  /\ v \in Tab
             /\ v.cache = w.cache /\ v.alerted = w.alerted /\ v.playing = w.playing
             /\ v.mounted = w.mounted /\ v.flight = w.flight
             /\ v.pages = [w.pages EXCEPT ![s] = q]
             /\ v.pages[s] = q
             /\ \A r \in Slots \ {s} : v.pages[r] = w.pages[r]
BY DEF Tab

\* A page changed in what it shows.
LEMMA PageTouched ==
  ASSUME NEW w \in Tab, NEW s \in Slots, w.pages[s] # None, NEW q \in Page,
         SamePage(w.pages[s], q)
  PROVE  Touched(w, [w EXCEPT !.pages[s] = q])
BY PageSet DEF Touched, SamePage

-----------------------------------------------------------------------------
(* The chime and the alert.                                                *)

LEMMA ChimeStarts ==
  ASSUME NEW w, Good(w)
  PROVE  LET v == chimeStart(w)
         IN  /\ Touched(w, v) /\ v.playing /\ v.cache = w.cache /\ v.alerted = w.alerted
             /\ /\ w.pages[w.mounted].route = "ticket"
                /\ w.pages[w.mounted].ticket # None
                /\ Chimes(w)
                => Chimes(v)
<1> DEFINE s == w.mounted
           q == [w.pages[s] EXCEPT !.chimePlaying = w.pages[s].route = "ticket"]
           u == [w EXCEPT !.pages[s] = q]
           v == chimeStart(w)
<1>1. w \in Tab /\ s \in Slots /\ w.pages[s] \in Page
  BY DEF Good, Orderly, Tab
<1>2. CASE w.playing
  <2>1. v = w
    BY <1>2 DEF chimeStart
  <2> QED
    BY <1>1, <1>2, <2>1 DEF Touched, SamePage
<1>3. CASE ~w.playing
  <2> DEFINE p == w.pages[s]
             rings == p.route = "ticket"
  <2>1. /\ q \in Page /\ SamePage(p, q)
        /\ q.route = p.route /\ q.ticket = p.ticket /\ q.chimePlaying = rings
    <3>1. q = [p EXCEPT !.chimePlaying = rings] /\ rings \in BOOLEAN /\ p \in Page
      BY <1>1
    <3> HIDE DEF p, rings, q
    <3>2. /\ q \in Page /\ q.route = p.route /\ q.ticket = p.ticket /\ q.chimePlaying = rings
          /\ q.stored = p.stored /\ q.booting = p.booting /\ q.left = p.left /\ q.feed = p.feed
      BY <3>1 DEF Page
    <3>3. p # None /\ q # None
      BY <3>1, <3>2, NoPageAssumption
    <3> QED
      BY <3>2, <3>3 DEF SamePage
  <2>2. v = [u EXCEPT !.playing = TRUE]
    BY <1>1, <1>3 DEF chimeStart, Tab
  <2> HIDE DEF q
  <2>3. Touched(w, u) /\ u \in Tab /\ u.pages[s] = q /\ u.cache = w.cache /\ u.alerted = w.alerted
    BY <1>1, <2>1, PageTouched, PageSet DEF Good
  <2> HIDE DEF u
  <2>4. /\ v \in Tab /\ v.playing /\ v.cache = u.cache /\ v.alerted = u.alerted
        /\ v.pages = u.pages /\ v.mounted = u.mounted /\ v.flight = u.flight
    BY <2>2, <2>3 DEF Tab
  <2> HIDE DEF v
  <2>5. Touched(w, v)
    BY <2>3, <2>4 DEF Touched
  <2>6. ASSUME p.route = "ticket", p.ticket # None  PROVE Chimes(v)
    <3>1. v.mounted = s /\ v.pages[v.mounted] = q
      BY <2>3, <2>4 DEF Touched
    <3>2. q.route = "ticket" /\ q.ticket # None /\ q.chimePlaying
      BY <2>1, <2>6
    <3>3. s # None /\ q # None
      BY <1>1, <2>1, CustomerAssumption, NoPageAssumption
    <3> QED
      BY <3>1, <3>2, <3>3 DEF Chimes
  <2> QED
    BY <2>3, <2>4, <2>5, <2>6 DEF v
<1> QED
  BY <1>2, <1>3

LEMMA ChimeStops ==
  ASSUME NEW w \in Tab, w.mounted = None \/ w.pages[w.mounted] # None
  PROVE  LET v == chimeStop(w)
         IN  Touched(w, v) /\ ~v.playing /\ v.cache = w.cache /\ v.alerted = w.alerted
<1> DEFINE P == [w.pages EXCEPT ![w.mounted].chimePlaying = FALSE]
           v == chimeStop(w)
<1>1. v = [w EXCEPT !.playing = FALSE, !.pages = P]
  BY DEF chimeStop, Tab
<1>2. \A s \in Slots : w.pages[s] # None => w.pages[s] \in Page
  BY DEF Tab
<1>3. P \in [Slots -> Page \cup {None}] /\ \A s \in Slots : SamePage(w.pages[s], P[s])
  <2> SUFFICES ASSUME NEW s \in Slots
               PROVE  P[s] \in Page \cup {None} /\ SamePage(w.pages[s], P[s])
    BY DEF Tab
  <2>1. CASE s # w.mounted
    BY <2>1 DEF Tab, SamePage
  <2>2. CASE s = w.mounted
    <3>1. s # None /\ w.pages[s] # None /\ w.pages[s] \in Page
      BY <1>2, <2>2, CustomerAssumption
    <3> DEFINE q == [w.pages[s] EXCEPT !.chimePlaying = FALSE]
    <3>2. P[s] = q
      BY <2>2 DEF Tab
    <3>3. /\ q \in Page /\ q.route = w.pages[s].route /\ q.stored = w.pages[s].stored
          /\ q.booting = w.pages[s].booting /\ q.left = w.pages[s].left
          /\ q.feed = w.pages[s].feed
      BY <3>1 DEF Page
    <3> HIDE DEF q, P
    <3> QED
      BY <3>1, <3>2, <3>3, NoPageAssumption DEF SamePage
  <2> QED
    BY <2>1, <2>2
<1> HIDE DEF P, v
<1>4. /\ v \in Tab /\ ~v.playing /\ v.cache = w.cache /\ v.alerted = w.alerted
      /\ v.pages = P /\ v.mounted = w.mounted /\ v.flight = w.flight
  BY <1>1, <1>3 DEF Tab
<1> QED
  BY <1>3, <1>4 DEF Touched, v

\* The rows an alert looks at.
Ringable(row) ==
  row \in ShownTicket /\ (row.state \in {"Called", "Overdue"} => row.key # 0)

LEMMA AlertKeeps ==
  ASSUME NEW w, Good(w), NEW row, Ringable(row)
  PROVE  LET v == maybeTriggerCalledAlert(w, row)
         IN  /\ Touched(w, v) /\ v.cache = w.cache
             /\ /\ w.pages[w.mounted].route = "ticket"
                /\ w.pages[w.mounted].ticket # None
                /\ Chimes(w)
                => Chimes(v)
<1> DEFINE u == [w EXCEPT !.alerted = row.key]
           v == maybeTriggerCalledAlert(w, row)
<1>1. w \in Tab
  BY DEF Good, Orderly
<1>2. CASE v = w
  BY <1>1, <1>2 DEF Touched, SamePage
<1>3. CASE v # w
  <2>1. v = chimeStart(u) /\ row.state \in {"Called", "Overdue"}
    BY <1>3 DEF maybeTriggerCalledAlert
  <2>2. row.key \in 1 .. MaxKeys
    BY <2>1, CustomerAssumption DEF Ringable, ShownTicket
  <2>3. /\ u \in Tab /\ u.pages = w.pages /\ u.mounted = w.mounted
        /\ u.flight = w.flight /\ u.playing = w.playing /\ u.cache = w.cache
    BY <1>1, <2>2 DEF Tab
  <2> HIDE DEF u
  <2>4. Touched(w, u) /\ (Chimes(w) => Chimes(u))
    BY <2>3 DEF Touched, SamePage, Chimes
  <2>5. Good(u)
    BY <2>4, TouchKeeps DEF Good
  <2> HIDE DEF v
  <2>6. Touched(w, v) /\ v.cache = u.cache
    BY <2>1, <2>4, <2>5, ChimeStarts, TouchedTwice
  <2>7. /\ u.pages[u.mounted].route = "ticket"
        /\ u.pages[u.mounted].ticket # None
        /\ Chimes(u)
        => Chimes(v)
    BY <2>1, <2>5, ChimeStarts
  <2> QED
    BY <2>3, <2>4, <2>6, <2>7 DEF v
<1> QED
  BY <1>2, <1>3

-----------------------------------------------------------------------------
(* What a page shows.                                                      *)

\* A browser with another cache and another memory of alerts.
LEMMA Stores ==
  ASSUME NEW w \in Tab, NEW c \in Stored \cup {None}, NEW a \in (1..MaxKeys) \cup {None}
  PROVE  LET v == [w EXCEPT !.cache = c, !.alerted = a]
         IN  /\ Touched(w, v)
             /\ v.playing = w.playing /\ v.pages = w.pages
             /\ Chimes(w) => Chimes(v)
<1> DEFINE v == [w EXCEPT !.cache = c, !.alerted = a]
<1>1. /\ v \in Tab /\ v.playing = w.playing /\ v.pages = w.pages
      /\ v.mounted = w.mounted /\ v.flight = w.flight
  BY DEF Tab
<1> HIDE DEF v
<1>2. Touched(w, v) /\ (Chimes(w) => Chimes(v))
  BY <1>1 DEF Touched, SamePage, Chimes
<1> QED
  BY <1>1, <1>2 DEF v

LEMMA Caches ==
  ASSUME NEW w \in Tab, NEW c \in Stored \cup {None}
  PROVE  LET v == [w EXCEPT !.cache = c]
         IN  /\ Touched(w, v)
             /\ v.playing = w.playing /\ v.pages = w.pages
             /\ Chimes(w) => Chimes(v)
<1> DEFINE u == [w EXCEPT !.cache = c, !.alerted = w.alerted]
           v == [w EXCEPT !.cache = c]
<1>1. u = v
  BY DEF Tab
<1>2. w.alerted \in (1..MaxKeys) \cup {None}
  BY DEF Tab
<1>3. Touched(w, u) /\ u.playing = w.playing /\ u.pages = w.pages /\ (Chimes(w) => Chimes(u))
  BY <1>2, Stores
<1> HIDE DEF u, v
<1> QED
  BY <1>1, <1>3 DEF v

Showing(w, s, t, e, f) ==
  [w EXCEPT !.pages[s] = [w.pages[s] EXCEPT !.ticket = t, !.error = e, !.feed = f]]

\* A page that shows another ticket or another error, and goes on ringing.
LEMMA Shows ==
  ASSUME NEW w \in Tab, NEW s \in Slots, w.pages[s] # None,
         NEW t \in ShownTicket \cup {None}, NEW e \in BOOLEAN, NEW f \in Feed,
         FeedAlive(f) => FeedAlive(w.pages[s].feed)
  PROVE  LET v == Showing(w, s, t, e, f)
         IN  /\ Touched(w, v) /\ v.playing = w.playing /\ v.cache = w.cache
             /\ v.alerted = w.alerted
             /\ v.pages[s].ticket = t
             /\ \A x \in Slots \ {s} : v.pages[x] = w.pages[x]
             /\ Chimes(w) /\ (s = w.mounted => t # None \/ t = w.pages[s].ticket) => Chimes(v)
<1> DEFINE p == w.pages[s]
           q == [p EXCEPT !.ticket = t, !.error = e, !.feed = f]
           v == Showing(w, s, t, e, f)
<1>1. p \in Page /\ v = [w EXCEPT !.pages[s] = q]
  BY DEF Tab, Showing
<1>2. /\ q \in Page /\ q.route = p.route /\ q.stored = p.stored /\ q.ticket = t
      /\ q.booting = p.booting /\ q.left = p.left /\ q.feed = f
      /\ q.chimePlaying = p.chimePlaying
  BY <1>1 DEF Page
<1> HIDE DEF q, v
<1>3. SamePage(p, q) /\ q # None
  BY <1>2, NoPageAssumption DEF SamePage
<1> HIDE DEF p
<1>4. /\ v \in Tab /\ v.cache = w.cache /\ v.alerted = w.alerted /\ v.playing = w.playing
      /\ v.mounted = w.mounted /\ v.pages[s] = q
      /\ \A x \in Slots \ {s} : v.pages[x] = w.pages[x]
  BY <1>1, <1>2, PageSet
<1>5. Touched(w, v)
  BY <1>1, <1>2, <1>3, PageTouched DEF p
<1>6. ASSUME Chimes(w), s = w.mounted => t # None \/ t = p.ticket
      PROVE  Chimes(v)
  <2> SUFFICES ASSUME v.playing PROVE Chimes(v)
    BY DEF Chimes
  <2>1. w.mounted \in Slots /\ v.mounted = w.mounted
    BY <1>4, <1>6 DEF Chimes, Tab
  <2>2. CASE s = w.mounted
    BY <1>2, <1>3, <1>4, <1>6, <2>1, <2>2 DEF Chimes, p
  <2>3. CASE s # w.mounted
    BY <1>4, <1>6, <2>1, <2>3 DEF Chimes
  <2> QED
    BY <2>2, <2>3
<1> QED
  BY <1>2, <1>4, <1>5, <1>6 DEF v, p

\* A dialog is opened or closed.
LEMMA DialogSet ==
  ASSUME NEW w \in Tab, NEW s \in Slots, w.pages[s] # None,
         NEW d \in {"none", "cancel", "reschedule"}
  PROVE  LET v == [w EXCEPT !.pages[s].dialog = d]
         IN  /\ Touched(w, v) /\ v.playing = w.playing /\ v.cache = w.cache
             /\ v.alerted = w.alerted
             /\ Chimes(w) => Chimes(v)
<1> DEFINE p == w.pages[s]
           q == [p EXCEPT !.dialog = d]
           v == [w EXCEPT !.pages[s].dialog = d]
<1>1. p \in Page /\ v = [w EXCEPT !.pages[s] = q]
  BY DEF Tab
<1>2. /\ q \in Page /\ q.route = p.route /\ q.stored = p.stored /\ q.ticket = p.ticket
      /\ q.booting = p.booting /\ q.left = p.left /\ q.feed = p.feed
      /\ q.chimePlaying = p.chimePlaying
  BY <1>1 DEF Page
<1> HIDE DEF q, v
<1>3. SamePage(p, q) /\ q # None
  BY <1>2, NoPageAssumption DEF SamePage
<1> HIDE DEF p
<1>4. /\ v \in Tab /\ v.cache = w.cache /\ v.alerted = w.alerted /\ v.playing = w.playing
      /\ v.mounted = w.mounted /\ v.pages[s] = q
      /\ \A x \in Slots \ {s} : v.pages[x] = w.pages[x]
  BY <1>1, <1>2, PageSet
<1>5. Touched(w, v)
  BY <1>1, <1>2, <1>3, PageTouched DEF p
<1>6. ASSUME Chimes(w) PROVE Chimes(v)
  <2> SUFFICES ASSUME v.playing PROVE Chimes(v)
    BY DEF Chimes
  <2>1. w.mounted \in Slots /\ v.mounted = w.mounted
    BY <1>4, <1>6 DEF Chimes, Tab
  <2>2. CASE s = w.mounted
    BY <1>2, <1>3, <1>4, <1>6, <2>1, <2>2 DEF Chimes, p
  <2>3. CASE s # w.mounted
    BY <1>4, <1>6, <2>1, <2>3 DEF Chimes
  <2> QED
    BY <2>2, <2>3
<1> QED
  BY <1>4, <1>5, <1>6 DEF v

LEMMA FoundKeeps ==
  ASSUME NEW w, Good(w), NEW s \in Slots, w.pages[s] # None,
         NEW r, Ringable(r.row), r.handle \in Handles
  PROVE  LET v == Found(w, s, r)
         IN  /\ Touched(w, v) /\ v.cache = [id |-> r.row.id, handle |-> r.handle]
             /\ s = w.mounted /\ w.pages[s].route = "ticket" /\ Chimes(w) => Chimes(v)
<1> DEFINE c == [id |-> r.row.id, handle |-> r.handle]
           w1 == [w EXCEPT !.cache = c]
           p == w.pages[s]
           u == IF s = w.mounted
                THEN Showing(w1, s, r.row, FALSE, w1.pages[s].feed)
                ELSE w1
           v == Found(w, s, r)
<1>1. /\ w \in Tab /\ r.row \in ShownTicket /\ c \in Stored /\ p \in Page
      /\ r.row # None
  BY NoPageAssumption DEF Good, Orderly, Tab, Ringable, ShownTicket, Stored
<1>2. /\ Touched(w, w1) /\ w1.pages = w.pages /\ (Chimes(w) => Chimes(w1))
      /\ w1.mounted = w.mounted /\ w1 \in Tab /\ w1.cache = c
  <2>1. w1.cache = c
    BY <1>1 DEF Tab
  <2> QED
    BY <1>1, <2>1, Caches DEF Touched
<1>3. v = maybeTriggerCalledAlert(u, r.row)
  <2>1. [w EXCEPT !.cache = c, !.pages[s] = IF s = w.mounted
                           THEN [@ EXCEPT !.ticket = r.row, !.error = FALSE]
                           ELSE @] = u
    <3>1. CASE s = w.mounted
      <4>1. [p EXCEPT !.ticket = r.row, !.error = FALSE]
              = [p EXCEPT !.ticket = r.row, !.error = FALSE, !.feed = p.feed]
        BY <1>1 DEF Page
      <4> QED
        BY <1>1, <3>1, <4>1 DEF Tab, Showing
    <3>2. CASE s # w.mounted
      BY <1>1, <3>2 DEF Tab
    <3> QED
      BY <3>1, <3>2
  <2> HIDE DEF u
  <2> QED
    BY <2>1 DEF Found
<1> HIDE DEF w1, v
<1>4. /\ Touched(w1, u) /\ (Chimes(w1) => Chimes(u)) /\ u.mounted = w.mounted
      /\ u.cache = c
      /\ s = w.mounted => u.pages[s].ticket = r.row
  <2>1. CASE s = w.mounted
    <3> DEFINE calm == FALSE
               f == w1.pages[s].feed
               x == Showing(w1, s, r.row, calm, f)
    <3>1. f \in Feed /\ calm \in BOOLEAN
      BY <1>1, <1>2 DEF Page
    <3>2. u = x
      BY <2>1
    <3> HIDE DEF calm
    <3>3. /\ Touched(w1, x) /\ x.pages[s].ticket = r.row /\ (Chimes(w1) => Chimes(x))
          /\ x.cache = w1.cache
      <4>1. /\ w1 \in Tab /\ w1.pages[s] # None
            /\ r.row \in ShownTicket \cup {None} /\ r.row # None
        BY <1>1, <1>2
      <4> QED
        BY <3>1, <4>1, Shows
    <3> HIDE DEF x, u
    <3>4. x.mounted = w1.mounted
      BY <3>3 DEF Touched
    <3> QED
      BY <1>2, <3>2, <3>3, <3>4
  <2>2. CASE s # w.mounted
    BY <1>2, <2>2 DEF Touched, SamePage
  <2> QED
    BY <2>1, <2>2
<1> HIDE DEF u
<1>5. Touched(w, u) /\ Good(u)
  BY <1>2, <1>4, TouchedTwice, TouchKeeps DEF Good
<1>6. Touched(u, v) /\ v.cache = u.cache
  BY <1>3, <1>5, AlertKeeps
<1>7. Touched(w, v)
  BY <1>5, <1>6, TouchedTwice
<1>8. ASSUME s = w.mounted, w.pages[s].route = "ticket", Chimes(w)
      PROVE  Chimes(v)
  <2>1. u.pages[u.mounted].route = "ticket" /\ u.pages[u.mounted].ticket # None
    BY <1>1, <1>4, <1>5, <1>8 DEF Touched, SamePage
  <2> QED
    BY <1>2, <1>3, <1>4, <1>5, <1>8, <2>1, AlertKeeps
<1> QED
  BY <1>4, <1>6, <1>7, <1>8 DEF v

LEMMA FailedKeeps ==
  ASSUME NEW w \in Tab, NEW s \in Slots, w.pages[s] # None
  PROVE  LET v == Failed(w, s)
         IN  Touched(w, v) /\ (Chimes(w) => Chimes(v)) /\ v.cache = w.cache
<1> DEFINE p == w.pages[s]
           e == s = w.mounted /\ p.route = "ticket"
<1>1. p \in Page
  BY DEF Tab
<1> DEFINE x == Showing(w, s, p.ticket, e, p.feed)
<1>2. [p EXCEPT !.error = e] = [p EXCEPT !.ticket = p.ticket, !.error = e, !.feed = p.feed]
  BY <1>1 DEF Page
<1>3. Failed(w, s) = [w EXCEPT !.pages[s] = [p EXCEPT !.error = e]]
  BY DEF Failed, Tab
<1>4. p.ticket \in ShownTicket \cup {None} /\ p.feed \in Feed /\ e \in BOOLEAN
  BY <1>1 DEF Page
<1> HIDE DEF e
<1>5. Touched(w, x) /\ (Chimes(w) => Chimes(x)) /\ x.cache = w.cache
  BY <1>4, Shows
<1>6. Failed(w, s) = x
  BY <1>2, <1>3 DEF Showing
<1> HIDE DEF x
<1> QED
  BY <1>5, <1>6


-----------------------------------------------------------------------------
(* Pages that come and go.                                                 *)

\* A browser with a page, even one that is about to be replaced.
Sound(w) == Orderly(w) /\ w.mounted # None /\ w.pages[w.mounted] # None

\* The page in slot s is booting, and what it awaits has been answered.
BootsAlone(w, s) ==
  /\ w.pages[s] # None /\ w.pages[s].booting
  /\ \A n \in DOMAIN w.flight : w.flight[n].kind \in Booter => w.flight[n].page # s

AllLeft(w) == \A s \in Slots : w.pages[s] # None => w.pages[s].left # "no"

LEMMA GoodIsSound ==
  ASSUME NEW w
  PROVE  Good(w) <=> Sound(w) /\ Fits(w)
BY DEF Good, Sound

LEMMA TouchedBoots ==
  ASSUME NEW w, NEW v, Touched(w, v), NEW s \in Slots, BootsAlone(w, s)
  PROVE  BootsAlone(v, s)
BY DEF Touched, SamePage, BootsAlone

LEMMA TouchSounds ==
  ASSUME NEW w, NEW v, Touched(w, v), Sound(w)
  PROVE  Sound(v)
<1>1. w.mounted \in Slots
  BY DEF Sound, Orderly, Tab
<1> QED
  BY <1>1, TouchKeeps DEF Sound, Touched, SamePage

\* What is collected nobody can call back.
LEMMA CollectKeeps ==
  ASSUME NEW w, Orderly(w)
  PROVE  LET v == Collect(w)
         IN  /\ Orderly(v)
             /\ Good(w) => Good(v)
             /\ Chimes(w) /\ Good(w) => Chimes(v)
             /\ v.playing = w.playing /\ v.cache = w.cache /\ v.alerted = w.alerted
             /\ v.mounted = w.mounted /\ v.flight = w.flight
             /\ AllLeft(w) => AllLeft(v)
             /\ Sits(w) => Sits(v)
             /\ \A s \in Slots : BootsAlone(w, s) => BootsAlone(v, s)
<1> DEFINE v == Collect(w)
           Gone(s) == /\ w.pages[s] # None /\ w.pages[s].left # "no"
                      /\ ~Callable(w.pages[s], s, w.flight)
           P == [s \in Slots |-> IF Gone(s) THEN None ELSE w.pages[s]]
<1>1. w \in Tab /\ v = [w EXCEPT !.pages = P]
  BY DEF Orderly, Collect
<1>2. P \in [Slots -> Page \cup {None}]
  BY <1>1 DEF Tab
<1>3. \A s \in Slots : P[s] = IF Gone(s) THEN None ELSE w.pages[s]
  OBVIOUS
<1> HIDE DEF P, v
<1>4. /\ v \in Tab /\ v.playing = w.playing /\ v.cache = w.cache /\ v.alerted = w.alerted
      /\ v.mounted = w.mounted /\ v.flight = w.flight /\ v.pages = P
  BY <1>1, <1>2 DEF Tab
<1>5. ASSUME NEW n \in DOMAIN w.flight
      PROVE  Sensible(w.flight[n]) /\ Belongs(w.flight[n], v)
  <2>1. Sensible(w.flight[n]) /\ Belongs(w.flight[n], w)
    BY DEF Orderly
  <2>2. w.flight[n].page \in Slots
    BY <2>1 DEF Sensible, Request
  <2>3. ~Gone(w.flight[n].page)
    BY DEF Callable
  <2> HIDE DEF Gone
  <2>4. v.pages[w.flight[n].page] = w.pages[w.flight[n].page]
    BY <1>3, <1>4, <2>2, <2>3
  <2> QED
    BY <2>1, <2>4 DEF Belongs
<1>6. Orderly(v)
  <2>1. \A s \in Slots : v.pages[s] # None =>
           OrderlyPage(v.pages[s]) /\ (v.pages[s].left = "no" => s = v.mounted)
    BY <1>3, <1>4 DEF Orderly
  <2> QED
    BY <1>4, <1>5, <2>1 DEF Orderly
<1>7. ASSUME Good(w) PROVE Good(v) /\ (Chimes(w) => Chimes(v))
  <2>1. w.mounted \in Slots /\ v.pages[w.mounted] = w.pages[w.mounted]
    BY <1>1, <1>3, <1>4, <1>7 DEF Good, Fits, Tab
  <2> QED
    BY <1>4, <1>6, <1>7, <2>1 DEF Good, Fits, Chimes
<1>8. AllLeft(w) => AllLeft(v)
  BY <1>3, <1>4 DEF AllLeft
<1>9. ASSUME NEW s \in Slots, BootsAlone(w, s) PROVE BootsAlone(v, s)
  <2>1. ~Gone(s)
    BY <1>9 DEF BootsAlone, Callable
  <2> HIDE DEF Gone
  <2> QED
    BY <1>3, <1>4, <1>9, <2>1 DEF BootsAlone
<1>10. Sits(w) => Sits(v)
  BY <1>1, <1>3, <1>4 DEF Sits, Tab
<1> QED
  BY <1>4, <1>6, <1>7, <1>8, <1>9, <1>10 DEF v

\* What is left of a page is orderly: its feed is dead, or between two sockets.
LEMMA RemainsOrderly ==
  ASSUME NEW p \in Page, OrderlyPage(p)
  PROVE  LET q == Remains(p)
         IN  /\ q \in Page /\ OrderlyPage(q) /\ q.left # "no"
             /\ q.route = p.route /\ q.booting = p.booting /\ q.stored = p.stored
<1> DEFINE f == close(p.feed)
           l == IF p.booting THEN "booting"
                ELSE IF p.feed.phase = "delay" THEN "delay" ELSE "settled"
           q == Remains(p)
<1>1. p.feed \in Feed /\ p.booting \in BOOLEAN
  BY DEF Page
<1>2. f \in Feed /\ (p.feed.phase # "delay" => ~FeedAlive(f))
  BY <1>1 DEF Feed, close, FeedAlive, Dialing
<1>3. l \in {"booting", "delay", "settled"}
  OBVIOUS
<1>4. q = [p EXCEPT !.ticket = None, !.error = FALSE, !.chimePlaying = FALSE,
                    !.dialog = "none", !.feed = f, !.left = l]
  BY DEF Remains
<1> HIDE DEF f, q
<1>5. /\ q \in Page /\ q.left = l /\ q.feed = f
      /\ q.route = p.route /\ q.booting = p.booting /\ q.stored = p.stored
  BY <1>2, <1>3, <1>4 DEF Page
<1>6. OrderlyPage(q)
  BY <1>1, <1>2, <1>5 DEF OrderlyPage
<1> QED
  BY <1>3, <1>5, <1>6 DEF q

LEMMA DestroyKeeps ==
  ASSUME NEW w, Good(w)
  PROVE  LET v == onDestroy(w)
         IN  /\ Sound(v) /\ AllLeft(v)
             /\ v.cache = w.cache /\ v.flight = w.flight /\ (Sits(w) => Sits(v))
             /\ Chimes(w) => ~v.playing
             /\ \A s \in Slots : BootsAlone(w, s) => BootsAlone(v, s)
<1> DEFINE m == w.mounted
           q == Remains(w.pages[m])
           b == w.playing /\ w.pages[m].route # "ticket"
           v == onDestroy(w)
<1>1. w \in Tab /\ m \in Slots /\ w.pages[m] \in Page /\ OrderlyPage(w.pages[m])
  BY DEF Good, Orderly, Tab
<1>2. /\ q \in Page /\ OrderlyPage(q) /\ q.left # "no"
      /\ q.route = w.pages[m].route /\ q.booting = w.pages[m].booting
      /\ q.stored = w.pages[m].stored
  BY <1>1, RemainsOrderly
<1>3. v = [w EXCEPT !.pages[m] = q, !.playing = b] /\ b \in BOOLEAN
  BY <1>1 DEF onDestroy, Tab
<1>4. q # None
  BY <1>2, NoPageAssumption
<1> HIDE DEF q, v
<1>5. /\ v \in Tab /\ v.playing = b /\ v.flight = w.flight /\ v.mounted = m
      /\ v.cache = w.cache
      /\ v.pages[m] = q /\ \A s \in Slots \ {m} : v.pages[s] = w.pages[s]
  BY <1>1, <1>2, <1>3 DEF Tab
<1>6. AllLeft(v)
  BY <1>2, <1>5 DEF AllLeft, Good, Orderly
<1>7. ASSUME NEW s \in Slots
      PROVE  /\ v.pages[s] # None <=> w.pages[s] # None
             /\ v.pages[s] # None => /\ v.pages[s].route = w.pages[s].route
                                     /\ v.pages[s].booting = w.pages[s].booting
                                     /\ v.pages[s].stored = w.pages[s].stored
                                     /\ OrderlyPage(v.pages[s])
  BY <1>2, <1>4, <1>5 DEF Good, Orderly
<1>8. ASSUME NEW n \in DOMAIN v.flight
      PROVE  Sensible(v.flight[n]) /\ Belongs(v.flight[n], v)
  <2>1. Sensible(w.flight[n]) /\ Belongs(w.flight[n], w)
    BY <1>5 DEF Good, Orderly
  <2>2. w.flight[n].page \in Slots
    BY <2>1 DEF Sensible, Request
  <2> QED
    BY <1>5, <1>7, <2>1, <2>2 DEF Belongs
<1>9. Sound(v)
  <2>1. Orderly(v)
    BY <1>5, <1>6, <1>7, <1>8 DEF Orderly, Good, AllLeft
  <2> QED
    BY <1>4, <1>5, <2>1 DEF Sound, Good
<1>10. Chimes(w) => ~v.playing
  BY <1>5 DEF Chimes
<1>11. \A s \in Slots : BootsAlone(w, s) => BootsAlone(v, s)
  BY <1>5, <1>7 DEF BootsAlone
<1>12. Sits(w) => Sits(v)
  BY <1>1, <1>5, <1>7 DEF Sits
<1> QED
  BY <1>5, <1>6, <1>9, <1>10, <1>11, <1>12 DEF v


-----------------------------------------------------------------------------
(* Requests that come and go.                                              *)

LEMMA NewRequestSensible ==
  ASSUME NEW s \in Slots, NEW kind \in Kind, NEW handle \in Handles \cup {None},
         NEW id \in (1..MaxTickets) \cup {None},
         kind # "shopState" => handle \in Handles
  PROVE  LET q == NewRequest(s, kind, handle, id)
         IN  /\ Sensible(q) /\ q.page = s /\ q.kind = kind /\ q.handle = handle
             /\ q.status = "sent" /\ q.row = None /\ q.id = id
BY DEF NewRequest, Sensible, Request, Outcome

LEMMA SendKeeps ==
  ASSUME NEW w, Orderly(w), NEW q, Sensible(q), Belongs(q, w),
         q.kind \in Booter => BootsAlone(w, q.page)
  PROVE  LET v == [w EXCEPT !.flight = Append(@, q)]
         IN  /\ Orderly(v)
             /\ v.pages = w.pages /\ v.mounted = w.mounted
             /\ v.playing = w.playing /\ v.cache = w.cache /\ v.alerted = w.alerted
             /\ \A s \in Slots : BootsAlone(w, s) /\ (q.kind \in Booter => q.page # s)
                                   => BootsAlone(v, s)
<1> DEFINE F == Append(w.flight, q)
           v == [w EXCEPT !.flight = Append(@, q)]
<1>1. w \in Tab /\ w.flight \in Seq(Request) /\ q \in Request
  BY DEF Orderly, Tab, Sensible
<1>2. /\ F \in Seq(Request) /\ Len(F) = Len(w.flight) + 1
      /\ DOMAIN F = 1..(Len(w.flight) + 1) /\ F[Len(w.flight) + 1] = q
      /\ DOMAIN w.flight = 1..Len(w.flight) /\ Len(w.flight) \in Nat
      /\ \A n \in DOMAIN w.flight : F[n] = w.flight[n]
  BY <1>1
<1>3. v = [w EXCEPT !.flight = F]
  BY <1>1 DEF Tab
<1> HIDE DEF F, v
<1>4. /\ v \in Tab /\ v.flight = F /\ v.pages = w.pages /\ v.mounted = w.mounted
      /\ v.playing = w.playing /\ v.cache = w.cache /\ v.alerted = w.alerted
  BY <1>1, <1>2, <1>3 DEF Tab
<1>5. \A n \in DOMAIN F : n \in DOMAIN w.flight \/ n = Len(w.flight) + 1
  BY <1>2
<1>6. \A n \in DOMAIN v.flight : Sensible(v.flight[n]) /\ Belongs(v.flight[n], v)
  BY <1>2, <1>4, <1>5 DEF Orderly, Belongs
<1>7. OneBoot(v.flight)
  <2> SUFFICES ASSUME NEW m \in DOMAIN F, NEW n \in DOMAIN F,
                      F[m].kind \in Booter, F[n].kind \in Booter, F[m].page = F[n].page
               PROVE  m = n
    BY <1>4 DEF OneBoot
  <2>1. m \in DOMAIN w.flight \/ m = Len(w.flight) + 1
    BY <1>5
  <2>2. n \in DOMAIN w.flight \/ n = Len(w.flight) + 1
    BY <1>5
  <2>3. CASE m \in DOMAIN w.flight /\ n \in DOMAIN w.flight
    BY <1>2, <2>3 DEF Orderly, OneBoot
  <2>4. CASE m = Len(w.flight) + 1 /\ n \in DOMAIN w.flight
    BY <1>2, <2>4 DEF BootsAlone
  <2>5. CASE n = Len(w.flight) + 1 /\ m \in DOMAIN w.flight
    BY <1>2, <2>5 DEF BootsAlone
  <2> QED
    BY <2>1, <2>2, <2>3, <2>4, <2>5
<1>8. Orderly(v)
  BY <1>4, <1>6, <1>7 DEF Orderly
<1>9. ASSUME NEW s \in Slots, BootsAlone(w, s), q.kind \in Booter => q.page # s
      PROVE  BootsAlone(v, s)
  BY <1>2, <1>4, <1>5, <1>9 DEF BootsAlone
<1> QED
  BY <1>4, <1>8, <1>9 DEF v

\* The same of a browser that stays good and goes on ringing.
LEMMA GoodSends ==
  ASSUME NEW w, Good(w), NEW q, Sensible(q), Belongs(q, w), q.kind \notin Booter
  PROVE  LET v == [w EXCEPT !.flight = Append(@, q)]
         IN  Good(v) /\ (Chimes(w) => Chimes(v))
<1> DEFINE v == [w EXCEPT !.flight = Append(@, q)]
<1>1. Orderly(v) /\ v.pages = w.pages /\ v.mounted = w.mounted /\ v.playing = w.playing
  BY SendKeeps DEF Good
<1> HIDE DEF v
<1>2. Good(v) /\ (Chimes(w) => Chimes(v))
  BY <1>1 DEF Good, Fits, Chimes
<1> QED
  BY <1>2 DEF v

WithReply(q, status, row) == [q EXCEPT !.status = status, !.row = row]

Replied(w, n, status, row) ==
  [w EXCEPT !.flight[n].status = status, !.flight[n].row = row]

\* Request n is answered, lost, or handed over.
LEMMA ReplyKeeps ==
  ASSUME NEW w, Orderly(w), NEW n \in DOMAIN w.flight, NEW status \in Outcome,
         NEW row \in ShownTicket \cup {None},
         Sensible(WithReply(w.flight[n], status, row))
  PROVE  LET v == Replied(w, n, status, row)
         IN  /\ Orderly(v)
             /\ v.pages = w.pages /\ v.mounted = w.mounted
             /\ v.playing = w.playing /\ v.alerted = w.alerted
<1> DEFINE q == WithReply(w.flight[n], status, row)
           F == [w.flight EXCEPT ![n] = q]
           v == Replied(w, n, status, row)
<1>1. w \in Tab /\ w.flight \in Seq(Request) /\ w.flight[n] \in Request
  BY DEF Orderly, Tab, Sensible
<1>2. /\ q \in Request /\ q.page = w.flight[n].page /\ q.kind = w.flight[n].kind
      /\ q.handle = w.flight[n].handle
  BY <1>1 DEF Request, WithReply
<1>3. v = [w EXCEPT !.flight = F]
  BY <1>1 DEF Tab, Request, Replied, WithReply
<1>4. Sensible(q)
  OBVIOUS
<1> HIDE DEF q
<1>5. /\ F \in Seq(Request) /\ DOMAIN F = DOMAIN w.flight /\ F[n] = q
      /\ \A m \in DOMAIN w.flight : m # n => F[m] = w.flight[m]
  BY <1>1, <1>2
<1> HIDE DEF F, v
<1>6. /\ v \in Tab /\ v.flight = F /\ v.pages = w.pages /\ v.mounted = w.mounted
      /\ v.playing = w.playing /\ v.alerted = w.alerted
  BY <1>1, <1>3, <1>5 DEF Tab
<1>7. \A m \in DOMAIN F : /\ F[m].page = w.flight[m].page /\ F[m].kind = w.flight[m].kind
                           /\ F[m].handle = w.flight[m].handle
  BY <1>2, <1>5
<1>8. ASSUME NEW m \in DOMAIN F
      PROVE  Sensible(F[m]) /\ Belongs(F[m], v)
  <2>1. m \in DOMAIN w.flight /\ Sensible(w.flight[m]) /\ Belongs(w.flight[m], w)
    BY <1>5 DEF Orderly
  <2>2. Sensible(F[m])
    BY <1>4, <1>5, <2>1
  <2>3. Belongs(F[m], v)
    BY <1>6, <1>7, <2>1 DEF Belongs
  <2> QED
    BY <2>2, <2>3
<1>9. OneBoot(F)
  BY <1>5, <1>7 DEF Orderly, OneBoot
<1>10. Orderly(v)
  BY <1>6, <1>8, <1>9 DEF Orderly
<1> QED
  BY <1>6, <1>10 DEF v

\* The requests that are left when one is taken out.
LEMMA RemovedRequest ==
  ASSUME NEW s \in Seq(Request), NEW n \in 1 .. Len(s)
  PROVE  /\ RemoveAt(s, n) \in Seq(Request)
         /\ Len(RemoveAt(s, n)) = Len(s) - 1
         /\ \A m \in 1 .. Len(s) - 1 :
              RemoveAt(s, n)[m] = s[IF m < n THEN m ELSE m + 1]
<1> DEFINE before == SubSeq(s, 1, n - 1)
           after == SubSeq(s, n + 1, Len(s))
<1>1. Len(s) \in Nat /\ \A m \in 1 .. Len(s) : s[m] \in Request
  OBVIOUS
<1>2. /\ before \in Seq(Request) /\ Len(before) = n - 1
      /\ \A m \in 1 .. n - 1 : before[m] = s[m]
  BY <1>1, SubSeqProperties
<1>3. /\ after \in Seq(Request) /\ Len(after) = Len(s) - n
      /\ \A m \in 1 .. Len(s) - n : after[m] = s[n + m]
  BY <1>1, SubSeqProperties
<1>4. RemoveAt(s, n) = before \o after
  BY DEF RemoveAt
<1> HIDE DEF before, after
<1>5. /\ before \o after \in Seq(Request)
      /\ Len(before \o after) = Len(before) + Len(after)
      /\ \A m \in 1 .. Len(before) + Len(after) :
           (before \o after)[m] = IF m <= Len(before) THEN before[m]
                                  ELSE after[m - Len(before)]
  BY <1>2, <1>3, ConcatProperties
<1>6. ASSUME NEW m \in 1 .. Len(s) - 1
      PROVE  (before \o after)[m] = s[IF m < n THEN m ELSE m + 1]
  <2>1. CASE m < n
    BY <1>1, <1>2, <1>3, <1>5, <2>1
  <2>2. CASE m >= n
    <3>1. m - Len(before) \in 1 .. Len(s) - n /\ ~(m <= Len(before))
      BY <1>1, <1>2, <2>2
    <3>2. (before \o after)[m] = after[m - Len(before)]
      BY <1>1, <1>2, <1>3, <1>5, <3>1
    <3>3. after[m - Len(before)] = s[n + (m - Len(before))]
      BY <1>3, <3>1
    <3>4. n + (m - Len(before)) = m + 1 /\ ~(m < n)
      BY <1>1, <1>2, <2>2
    <3> QED
      BY <3>2, <3>3, <3>4
  <2>3. m < n \/ m >= n
    BY <1>1
  <2> QED
    BY <2>1, <2>2, <2>3, Zenon
<1> QED
  BY <1>1, <1>2, <1>3, <1>4, <1>5, <1>6

\* Request n is handed over: the others keep their order.
LEMMA TakeKeeps ==
  ASSUME NEW w, Good(w), NEW n \in DOMAIN w.flight
  PROVE  LET v == [w EXCEPT !.flight = RemoveAt(@, n)]
             q == w.flight[n]
         IN  /\ Good(v)
             /\ v.pages = w.pages /\ v.mounted = w.mounted
             /\ Chimes(w) => Chimes(v)
             /\ q.kind \in Booter => BootsAlone(v, q.page)
<1> DEFINE F == RemoveAt(w.flight, n)
           Old(m) == IF m < n THEN m ELSE m + 1
           v == [w EXCEPT !.flight = RemoveAt(@, n)]
           q == w.flight[n]
<1>1. /\ w \in Tab /\ w.flight \in Seq(Request) /\ Len(w.flight) \in Nat
      /\ DOMAIN w.flight = 1..Len(w.flight)
  BY DEF Good, Orderly, Tab
<1>2. n \in Nat /\ n >= 1 /\ n <= Len(w.flight)
  BY <1>1
<1>3. /\ F \in Seq(Request) /\ DOMAIN F = 1..(Len(w.flight) - 1)
      /\ \A m \in 1..(Len(w.flight) - 1) : F[m] = w.flight[Old(m)]
  BY <1>1, <1>2, RemovedRequest
<1>4. \A m \in DOMAIN F : Old(m) \in DOMAIN w.flight /\ Old(m) # n
  BY <1>1, <1>2, <1>3
<1>5. \A m, k \in DOMAIN F : Old(m) = Old(k) => m = k
  BY <1>2, <1>3
<1>6. v = [w EXCEPT !.flight = F]
  BY <1>1 DEF Tab
<1> HIDE DEF F, v, Old
<1>7. /\ v \in Tab /\ v.flight = F /\ v.pages = w.pages /\ v.mounted = w.mounted
      /\ v.playing = w.playing
  BY <1>1, <1>3, <1>6 DEF Tab
<1>8. ASSUME NEW m \in DOMAIN F
      PROVE  Sensible(F[m]) /\ Belongs(F[m], v)
  <2>1. F[m] = w.flight[Old(m)] /\ Old(m) \in DOMAIN w.flight
    BY <1>3, <1>4
  <2>2. Sensible(F[m]) /\ Belongs(F[m], w)
    BY <2>1 DEF Good, Orderly
  <2> QED
    BY <1>7, <2>2 DEF Belongs
<1>9. OneBoot(F)
  BY <1>3, <1>4, <1>5 DEF Good, Orderly, OneBoot
<1>10. Good(v) /\ (Chimes(w) => Chimes(v))
  BY <1>7, <1>8, <1>9 DEF Good, Orderly, Fits, Chimes
<1>11. ASSUME q.kind \in Booter PROVE BootsAlone(v, q.page)
  <2>1. Belongs(q, w)
    BY DEF Good, Orderly
  <2>2. ASSUME NEW m \in DOMAIN F, F[m].kind \in Booter PROVE F[m].page # q.page
    BY <1>3, <1>4, <1>11, <2>2 DEF Good, Orderly, OneBoot
  <2> QED
    BY <1>7, <1>11, <2>1, <2>2 DEF BootsAlone, Belongs
<1> QED
  BY <1>7, <1>10, <1>11 DEF v


-----------------------------------------------------------------------------
(* A page takes another's place.                                           *)

LEMMA RedirectedPage ==
  ASSUME NEW route \in Route, NEW c
  PROVE  LET to == Redirected(route, c)
         IN  to \in Route /\ (to = "ticket" => c # None)
BY DEF Redirected, Route

Mounts(w, s, p) == [w EXCEPT !.mounted = s, !.pages[s] = p]

\* A fresh page is mounted in a slot that was free: no request names it.
LEMMA MountKeeps ==
  ASSUME NEW w, Orderly(w), AllLeft(w), NEW s \in Slots, w.pages[s] = None,
         NEW p \in Page, OrderlyPage(p), p.left = "no"
  PROVE  LET v == Mounts(w, s, p)
         IN  /\ Good(v)
             /\ v.pages[s] = p /\ v.flight = w.flight /\ v.playing = w.playing
             /\ v.mounted = s /\ v.cache = w.cache
             /\ \A x \in Slots : BootsAlone(w, x) => x # s /\ BootsAlone(v, x)
             /\ p.booting => BootsAlone(v, s)
<1> DEFINE v == Mounts(w, s, p)
<1>1. w \in Tab /\ p # None /\ s # None
  BY NoPageAssumption, CustomerAssumption DEF Orderly
<1>2. /\ v \in Tab /\ v.mounted = s /\ v.flight = w.flight /\ v.playing = w.playing
      /\ v.cache = w.cache
      /\ v.pages[s] = p /\ \A x \in Slots \ {s} : v.pages[x] = w.pages[x]
  BY <1>1 DEF Tab, Mounts
<1> HIDE DEF v
<1>3. ASSUME NEW n \in DOMAIN w.flight
      PROVE  /\ w.flight[n].page # s
             /\ Sensible(w.flight[n]) /\ Belongs(w.flight[n], v)
  <2>1. Sensible(w.flight[n]) /\ Belongs(w.flight[n], w)
    BY DEF Orderly
  <2>2. w.flight[n].page \in Slots /\ w.flight[n].page # s
    BY <2>1 DEF Sensible, Request, Belongs
  <2> QED
    BY <1>2, <2>1, <2>2 DEF Belongs
<1>4. \A x \in Slots : v.pages[x] # None =>
        OrderlyPage(v.pages[x]) /\ (v.pages[x].left = "no" => x = v.mounted)
  BY <1>2 DEF Orderly, AllLeft
<1>5. Good(v)
  BY <1>1, <1>2, <1>3, <1>4 DEF Good, Orderly, Fits
<1>6. \A x \in Slots : BootsAlone(w, x) => x # s /\ BootsAlone(v, x)
  BY <1>2 DEF BootsAlone
<1>7. p.booting => BootsAlone(v, s)
  BY <1>1, <1>2, <1>3 DEF BootsAlone
<1> QED
  BY <1>2, <1>5, <1>6, <1>7 DEF v

LEMMA OnMountKeeps ==
  ASSUME NEW w, Orderly(w), AllLeft(w), NEW route \in Route,
         w.mounted = None => \A s \in Slots : w.pages[s] = None
  PROVE  LET v == onMount(w, route)
         IN  /\ v.playing = w.playing /\ v.cache = w.cache
             /\ Grew(w.flight, v.flight) /\ (Sits(w) => Sits(v))
             /\ \A x \in Slots : BootsAlone(w, x) => BootsAlone(v, x)
             /\ (\E s \in Slots : w.pages[s] = None) => Good(v)
             /\ w.mounted # None => Sound(v)
<1> DEFINE free == {s \in Slots : w.pages[s] = None}
           to == Redirected(route, w.cache)
           stored == IF to = "ticket" THEN w.cache ELSE None
           s == CHOOSE x \in free : TRUE
           p == [route |-> to, stored |-> stored, ticket |-> None,
                 error |-> FALSE,
                 booting |-> to \in {"ticket", "landing"},
                 feed |-> NoFeed, dialog |-> "none", chimePlaying |-> FALSE,
                 left |-> "no"]
           v == onMount(w, route)
<1>1. w \in Tab
  BY DEF Orderly
<1>2. CASE free = {}
  <2>1. v = [w EXCEPT !.flight = << >>]
    BY <1>2 DEF onMount
  <2> HIDE DEF v
  <2>2. /\ v \in Tab /\ v.flight = << >> /\ v.pages = w.pages /\ v.mounted = w.mounted
        /\ v.playing = w.playing /\ v.cache = w.cache
    <3>1. << >> \in Seq(Request)
      OBVIOUS
    <3> QED
      BY <1>1, <2>1, <3>1 DEF Tab
  <2>3. Orderly(v)
    BY <2>2 DEF Orderly, OneBoot
  <2>4. \A x \in Slots : BootsAlone(w, x) => BootsAlone(v, x)
    BY <2>2 DEF BootsAlone
  <2>5. \A x \in Slots : w.pages[x] # None
    BY <1>2
  <2>6. w.mounted # None => Sound(v)
    BY <1>1, <2>2, <2>3, <2>5 DEF Sound, Tab
  <2>7. Grew(w.flight, v.flight) /\ (Sits(w) => Sits(v))
    BY <2>2 DEF Grew, Sits
  <2> QED
    BY <2>2, <2>4, <2>5, <2>6, <2>7 DEF v
<1>3. CASE free # {}
  <2>1. s \in Slots /\ w.pages[s] = None
    BY <1>3
  <2> HIDE DEF s
  <2>2. to \in Route /\ (to = "ticket" => w.cache # None)
    BY RedirectedPage
  <2>3. /\ stored \in Stored \cup {None} /\ (to = "ticket" <=> stored # None)
        /\ to = "ticket" => stored = w.cache
    BY <1>1, <2>2 DEF Tab
  <2> HIDE DEF to, stored
  <2>4. NoFeed \in Feed
    BY FeedAssumption DEF NoFeed, Feed
  <2>5. /\ p \in Page /\ p.left = "no" /\ p.route = to /\ p.stored = stored
        /\ p.booting = (to \in {"ticket", "landing"})
    BY <2>2, <2>3, <2>4 DEF Page
  <2>6. OrderlyPage(p)
    BY <2>3, <2>5 DEF OrderlyPage
  <2> DEFINE u == Mounts(w, s, p)
             q == NewRequest(s, "boot", stored.handle, None)
             r == NewRequest(s, "shopState", None, None)
  <2>7. v = [u EXCEPT !.flight = IF to = "ticket" THEN Append(@, q)
                                 ELSE IF to = "landing" THEN Append(@, r)
                                 ELSE @]
    <3> HIDE DEF p, q, r
    <3>1. v = [w EXCEPT !.mounted = s, !.pages[s] = p,
                        !.flight = IF to = "ticket" THEN Append(@, q)
                                 ELSE IF to = "landing" THEN Append(@, r)
                                 ELSE @]
      BY <1>3, Zenon DEF onMount, p, q, r, s, to, stored
    <3> QED
      BY <1>1, <3>1 DEF Tab, Mounts
  <2> HIDE DEF p
  <2>8. /\ Good(u) /\ u.pages[s] = p /\ u.flight = w.flight /\ u.playing = w.playing
        /\ u.mounted = s /\ u.cache = w.cache
        /\ \A x \in Slots : BootsAlone(w, x) => x # s /\ BootsAlone(u, x)
        /\ p.booting => BootsAlone(u, s)
    BY <2>1, <2>5, <2>6, MountKeeps
  <2> HIDE DEF u, v
  <2>9. p # None
    BY <2>5, NoPageAssumption
  <2> DEFINE Fresh == /\ v.pages = u.pages /\ v.mounted = s /\ v.cache = w.cache
                      /\ Grew(w.flight, v.flight)
  <2>13. ASSUME Fresh
         PROVE  v.cache = w.cache /\ Grew(w.flight, v.flight) /\ Sits(v)
    BY <2>3, <2>5, <2>8, <2>13 DEF Sits
  <2>10. CASE to = "ticket"
    <3>1. stored.handle \in Handles /\ "boot" \in Kind
      BY <2>3, <2>10 DEF Stored, Kind, Refresh
    <3>2. Sensible(q) /\ q.page = s /\ q.kind = "boot" /\ q.status = "sent" /\ q.handle = stored.handle
      <4> HIDE DEF stored
      <4> QED
        BY <2>1, <3>1 DEF NewRequest, Sensible, Request, Outcome
    <3> HIDE DEF q
    <3>3. Belongs(q, u)
      BY <2>5, <2>8, <2>9, <2>10, <3>2 DEF Belongs
    <3>4. BootsAlone(u, q.page)
      BY <2>5, <2>8, <2>10, <3>2
    <3>5. v = [u EXCEPT !.flight = Append(@, q)]
      BY <2>7, <2>10
    <3>6. /\ Orderly(v) /\ v.pages = u.pages /\ v.mounted = u.mounted /\ v.playing = u.playing
          /\ v.cache = u.cache
          /\ \A x \in Slots : BootsAlone(u, x) /\ x # s => BootsAlone(v, x)
      BY <2>8, <3>2, <3>3, <3>4, <3>5, SendKeeps DEF Good
    <3>7. Good(v)
      BY <2>8, <3>6 DEF Good, Fits
    <3>8. Grew(w.flight, v.flight)
      <4>1. v.flight = Append(w.flight, q)
        BY <2>8, <3>5 DEF Good, Orderly, Tab
      <4> QED
        BY <3>2, <4>1 DEF Grew, Sensible
    <3>9. Fresh
      BY <2>8, <3>6, <3>8
    <3> QED
      BY <2>1, <2>8, <2>13, <3>6, <3>7, <3>9, GoodIsSound DEF v
  <2>11. CASE to = "landing"
    <3>1. "shopState" \in Kind
      BY DEF Kind
    <3>2. Sensible(r) /\ r.page = s /\ r.kind = "shopState" /\ r.status = "sent"
      BY <2>1, <3>1 DEF NewRequest, Sensible, Request, Outcome
    <3> HIDE DEF r
    <3>3. Belongs(r, u)
      BY <2>5, <2>8, <2>9, <2>11, <3>2 DEF Belongs, Refresh, Operation
    <3>4. BootsAlone(u, r.page)
      BY <2>5, <2>8, <2>11, <3>2
    <3>5. v = [u EXCEPT !.flight = Append(@, r)]
      BY <2>7, <2>11
    <3>6. /\ Orderly(v) /\ v.pages = u.pages /\ v.mounted = u.mounted /\ v.playing = u.playing
          /\ v.cache = u.cache
          /\ \A x \in Slots : BootsAlone(u, x) /\ x # s => BootsAlone(v, x)
      BY <2>8, <3>2, <3>3, <3>4, <3>5, SendKeeps DEF Good
    <3>7. Good(v)
      BY <2>8, <3>6 DEF Good, Fits
    <3>8. Grew(w.flight, v.flight)
      <4>1. v.flight = Append(w.flight, r)
        BY <2>8, <3>5 DEF Good, Orderly, Tab
      <4> QED
        BY <3>2, <4>1 DEF Grew, Sensible
    <3>9. Fresh
      BY <2>8, <3>6, <3>8
    <3> QED
      BY <2>1, <2>8, <2>13, <3>6, <3>7, <3>9, GoodIsSound DEF v
  <2>12. CASE to \notin {"ticket", "landing"}
    <3>1. u \in Tab
      BY <2>8 DEF Good, Orderly
    <3>2. v = u
      BY <2>7, <2>12, <3>1 DEF Tab
    <3>3. Fresh
      BY <2>8, <3>2 DEF Grew
    <3> QED
      BY <2>1, <2>8, <2>13, <3>2, <3>3, GoodIsSound DEF v
  <2> QED
    BY <2>10, <2>11, <2>12
<1> QED
  BY <1>2, <1>3

LEMMA GotoKeeps ==
  ASSUME NEW w, Good(w), NEW route \in Route
  PROVE  LET v == goto(w, route)
         IN  /\ Sound(v) /\ v.cache = w.cache
             /\ Grew(w.flight, v.flight) /\ (Sits(w) => Sits(v))
             /\ Chimes(w) => Chimes(v)
             /\ \A x \in Slots : BootsAlone(w, x) => BootsAlone(v, x)
<1> DEFINE d == onDestroy(w)
           c == Collect(d)
           v == goto(w, route)
<1>1. CASE w.pages[w.mounted].route = route
  <2>1. v = w
    BY <1>1 DEF goto
  <2> HIDE DEF v
  <2> QED
    BY <2>1, GoodIsSound DEF v, Grew
<1>2. CASE w.pages[w.mounted].route # route
  <2>1. v = onMount(c, route)
    BY <1>2 DEF goto
  <2> HIDE DEF v
  <2>2. /\ Sound(d) /\ AllLeft(d) /\ (Chimes(w) => ~d.playing)
        /\ d.cache = w.cache /\ d.flight = w.flight /\ (Sits(w) => Sits(d))
        /\ \A x \in Slots : BootsAlone(w, x) => BootsAlone(d, x)
    BY DestroyKeeps
  <2> HIDE DEF d
  <2>3. /\ Orderly(c) /\ AllLeft(c) /\ c.playing = d.playing /\ c.mounted = d.mounted
        /\ c.cache = d.cache /\ c.flight = d.flight /\ (Sits(d) => Sits(c))
        /\ \A x \in Slots : BootsAlone(d, x) => BootsAlone(c, x)
    BY <2>2, CollectKeeps DEF Sound
  <2> HIDE DEF c
  <2>4. c.mounted # None
    BY <2>2, <2>3 DEF Sound
  <2>5. /\ v.playing = c.playing /\ Sound(v) /\ v.cache = c.cache
        /\ Grew(c.flight, v.flight) /\ (Sits(c) => Sits(v))
        /\ \A x \in Slots : BootsAlone(c, x) => BootsAlone(v, x)
    BY <2>1, <2>3, <2>4, OnMountKeeps
  <2> QED
    BY <2>2, <2>3, <2>5 DEF Chimes, v
<1> QED
  BY <1>1, <1>2

LEMMA BootedKeeps ==
  ASSUME NEW w, Sound(w), NEW s \in Slots, BootsAlone(w, s)
  PROVE  LET v == Booted(w, s)
         IN  /\ Sound(v) /\ (Chimes(w) => Chimes(v))
             /\ v.cache = w.cache /\ v.flight = w.flight /\ (Sits(w) => Sits(v))
<1> DEFINE p == w.pages[s]
           q == [p EXCEPT !.booting = FALSE, !.feed = connectQueueFeed]
           v == Booted(w, s)
<1>1. w \in Tab /\ p \in Page /\ OrderlyPage(p) /\ p.booting
  BY DEF Sound, Orderly, Tab, BootsAlone
<1>2. connectQueueFeed \in Feed
  <2>1. NoFeed \in Feed
    BY FeedAssumption DEF NoFeed, Feed
  <2> QED
    BY <2>1 DEF connectQueueFeed, Feed
<1>3. /\ q \in Page /\ q.route = p.route /\ q.stored = p.stored /\ q.ticket = p.ticket
      /\ q.left = p.left /\ q.chimePlaying = p.chimePlaying /\ q.booting = FALSE
  BY <1>1, <1>2 DEF Page
<1>4. v = [w EXCEPT !.pages[s] = q]
  BY <1>1 DEF Booted, Tab
<1> HIDE DEF q
<1>5. OrderlyPage(q) /\ q # None
  BY <1>1, <1>3, NoPageAssumption DEF OrderlyPage
<1> HIDE DEF v
<1>6. /\ v \in Tab /\ v.mounted = w.mounted /\ v.flight = w.flight /\ v.playing = w.playing
      /\ v.cache = w.cache
      /\ v.pages[s] = q /\ \A x \in Slots \ {s} : v.pages[x] = w.pages[x]
  BY <1>1, <1>3, <1>4, PageSet
<1>7. \A n \in DOMAIN v.flight : Sensible(v.flight[n]) /\ Belongs(v.flight[n], v)
  <2> SUFFICES ASSUME NEW n \in DOMAIN w.flight
               PROVE  Sensible(w.flight[n]) /\ Belongs(w.flight[n], v)
    BY <1>6
  <2>1. Sensible(w.flight[n]) /\ Belongs(w.flight[n], w)
    BY DEF Sound, Orderly
  <2>2. w.flight[n].page \in Slots
    BY <2>1 DEF Sensible, Request
  <2>3. w.flight[n].page = s => w.flight[n].kind \notin Booter
    BY DEF BootsAlone
  <2> QED
    BY <1>3, <1>5, <1>6, <2>1, <2>2, <2>3 DEF Belongs
<1>8. Orderly(v)
  <2>1. ASSUME NEW x \in Slots, v.pages[x] # None
        PROVE  OrderlyPage(v.pages[x]) /\ (v.pages[x].left = "no" => x = v.mounted)
    <3>1. w.pages[x] # None =>
            OrderlyPage(w.pages[x]) /\ (w.pages[x].left = "no" => x = w.mounted)
      BY DEF Sound, Orderly
    <3>2. CASE x = s
      BY <1>3, <1>5, <1>6, <3>1, <3>2 DEF BootsAlone
    <3>3. CASE x # s
      BY <1>6, <2>1, <3>1, <3>3
    <3> QED
      BY <3>2, <3>3
  <2>2. OneBoot(v.flight)
    BY <1>6 DEF Sound, Orderly
  <2> QED
    BY <1>6, <1>7, <2>1, <2>2 DEF Orderly
<1>9. w.mounted \in Slots
  BY <1>1 DEF Sound, Tab
<1>10. Sound(v)
  BY <1>5, <1>6, <1>8, <1>9 DEF Sound
<1>11. Chimes(w) => Chimes(v)
  BY <1>3, <1>5, <1>6, <1>9 DEF Chimes
<1>12. Sits(w) => Sits(v)
  <2>1. w.pages[w.mounted] # None
    BY DEF Sound
  <2> QED
    BY <1>3, <1>6, <1>9, <2>1 DEF Sits
<1> QED
  BY <1>6, <1>10, <1>11, <1>12 DEF v


-----------------------------------------------------------------------------
(* Answers.                                                                *)

\* A request r that was taken from the browser w.
Taken(r, w) ==
  /\ Sensible(r) /\ Belongs(r, w)
  /\ r.kind \in Booter => BootsAlone(w, r.page)

\* What a handler makes of a good browser: sound, and ringing where it rang
\* unless it was called back in a page that is gone.
Handled(w, s, v) == Sound(v) /\ (s = w.mounted /\ Chimes(w) => Chimes(v))

\* What it makes of the cache, of the requests, and of the page about them.
CacheAfter(w, r) ==
  IF r.status = "ok" /\ r.kind \in Refresh \cup {"issue", "recover"}
  THEN [id |-> r.row.id, handle |-> r.handle]
  ELSE IF r.status = "TicketNotFound" /\ r.kind \in Refresh THEN None
  ELSE w.cache

Effect(w, r, v) ==
  /\ v.cache = CacheAfter(w, r)
  /\ Grew(w.flight, v.flight)
  /\ r.page = w.mounted /\ Sits(w) => Sits(v)

LEMMA TouchHandled ==
  ASSUME NEW w, Good(w), NEW s, NEW v, Touched(w, v),
         s = w.mounted /\ Chimes(w) => Chimes(v)
  PROVE  Handled(w, s, v)
BY TouchSounds, GoodIsSound DEF Handled

LEMMA TakenFacts ==
  ASSUME NEW w, NEW r, Taken(r, w)
  PROVE  /\ r.page \in Slots /\ w.pages[r.page] # None
         /\ r.status \in Outcome /\ r.kind \in Kind
         /\ r.kind \in Refresh \cup Operation =>
              w.pages[r.page].route = "ticket" /\ r.handle = w.pages[r.page].stored.handle
         /\ r.kind # "shopState" => r.handle \in Handles
         /\ r.status = "ok"
               /\ r.kind \in Refresh \cup {"issue", "recover", "cancel", "reschedule"}
              => r.row # None /\ r.row \in ShownTicket
         /\ r.row # None => Ringable(r.row)
BY DEF Taken, Sensible, Belongs, Request, Ringable

LEMMA TouchEffect ==
  ASSUME NEW w \in Tab, NEW r, NEW v, Touched(w, v), v.cache = w.cache, CacheAfter(w, r) = w.cache
  PROVE  Effect(w, r, v)
<1>1. Sits(w) => Sits(v)
  BY TouchSits
<1> QED
  BY <1>1 DEF Effect, Grew, Touched

LEMMA RefreshHandled ==
  ASSUME NEW w, Good(w), NEW r, Taken(r, w), r.kind \in Refresh
  PROVE  LET s == r.page
             v == refresh(w, s, r)
         IN  /\ Handled(w, s, v) /\ Effect(w, r, v)
             /\ BootsAlone(w, s) => BootsAlone(v, s)
             /\ r.status = "ok" => Touched(w, v)
<1> DEFINE s == r.page
           v == refresh(w, s, r)
           u == [w EXCEPT !.cache = None, !.alerted = None]
<1>1. /\ s \in Slots /\ w.pages[s] # None /\ w.pages[s].route = "ticket" /\ w \in Tab
      /\ r.handle \in Handles /\ (r.status = "ok" => Ringable(r.row))
      /\ r.handle = w.pages[s].stored.handle
  BY TakenFacts DEF Good, Orderly, Refresh
<1> HIDE DEF s
<1>2. CASE r.status = "ok"
  <2>1. v = Found(w, s, r)
    BY <1>2 DEF refresh
  <2> HIDE DEF v
  <2>2. Touched(w, v) /\ (s = w.mounted /\ Chimes(w) => Chimes(v))
    BY <1>1, <1>2, <2>1, FoundKeeps
  <2>3. Handled(w, s, v) /\ (BootsAlone(w, s) => BootsAlone(v, s))
    BY <1>1, <2>2, TouchHandled, TouchedBoots
  <2>4. v.cache = [id |-> r.row.id, handle |-> r.handle] /\ v.cache = CacheAfter(w, r)
    BY <1>1, <1>2, <2>1, FoundKeeps DEF CacheAfter
  <2>5. s = w.mounted => Sits(v)
    <3>1. v.mounted = w.mounted /\ SamePage(w.pages[s], v.pages[s]) /\ v.cache.handle = r.handle
      BY <1>1, <2>2, <2>4 DEF Touched
    <3> QED
      BY <1>1, <3>1 DEF Sits, SamePage
  <2>6. Effect(w, r, v)
    BY <2>2, <2>4, <2>5 DEF Effect, Touched, Grew, s
  <2> QED
    BY <2>2, <2>3, <2>6 DEF v, s
<1>3. CASE r.status = "TicketNotFound"
  <2>1. v = goto(u, "recover")
    BY <1>3 DEF refresh
  <2> HIDE DEF v
  <2>2. Touched(w, u) /\ (Chimes(w) => Chimes(u))
    BY <1>1, Stores
  <2>6. u.cache = None
    BY <1>1 DEF Tab
  <2> HIDE DEF u
  <2>3. Good(u) /\ (BootsAlone(w, s) => BootsAlone(u, s))
    BY <1>1, <2>2, TouchKeeps, TouchedBoots DEF Good
  <2>4. "recover" \in Route
    BY DEF Route
  <2>5. /\ Sound(v) /\ (Chimes(u) => Chimes(v))
        /\ BootsAlone(u, s) => BootsAlone(v, s)
        /\ v.cache = u.cache /\ Grew(u.flight, v.flight) /\ (Sits(u) => Sits(v))
    BY <1>1, <2>1, <2>3, <2>4, GotoKeeps
  <2>7. Effect(w, r, v)
    <3>1. Sits(u)
      BY <2>6 DEF Sits
    <3>2. CacheAfter(w, r) = None
      BY <1>3 DEF CacheAfter
    <3> QED
      BY <2>2, <2>5, <2>6, <3>1, <3>2 DEF Effect, Touched
  <2> QED
    BY <1>3, <2>2, <2>3, <2>5, <2>7 DEF v, s, Handled
<1>4. CASE r.status \notin {"ok", "TicketNotFound"}
  <2>1. v = Failed(w, s)
    BY <1>4 DEF refresh
  <2> HIDE DEF v
  <2>2. Touched(w, v) /\ (Chimes(w) => Chimes(v)) /\ v.cache = w.cache
    BY <1>1, <2>1, FailedKeeps
  <2>3. Handled(w, s, v) /\ (BootsAlone(w, s) => BootsAlone(v, s))
    BY <1>1, <2>2, TouchHandled, TouchedBoots
  <2>4. Effect(w, r, v)
    BY <1>1, <1>4, <2>2, TouchEffect DEF CacheAfter
  <2> QED
    BY <1>4, <2>3, <2>4 DEF v, s
<1> QED
  BY <1>2, <1>3, <1>4

LEMMA AfterBootHandled ==
  ASSUME NEW w, Good(w), NEW r, Taken(r, w), r.kind = "boot"
  PROVE  LET v == afterBoot(w, r.page, r)
         IN  Handled(w, r.page, v) /\ Effect(w, r, v)
<1> DEFINE s == r.page
           w1 == refresh(w, s, r)
           q == NewRequest(s, "shopState", None, None)
           v == afterBoot(w, s, r)
<1>1. /\ s \in Slots /\ r.kind \in Refresh /\ BootsAlone(w, s)
  BY TakenFacts DEF Taken, Booter, Refresh
<1>2. /\ Handled(w, s, w1) /\ Effect(w, r, w1) /\ BootsAlone(w1, s)
      /\ r.status = "ok" => Touched(w, w1)
  BY <1>1, RefreshHandled
<1>3. CASE r.status = "ok"
  <2>1. v = [w1 EXCEPT !.flight = Append(@, q)]
    BY <1>3 DEF afterBoot
  <2> HIDE DEF w1, v
  <2>2. Orderly(w1) /\ w1.mounted # None /\ w1.pages[w1.mounted] # None
    BY <1>2 DEF Handled, Sound
  <2>3. Sensible(q) /\ q.page = s /\ q.kind = "shopState" /\ q.status = "sent"
    BY <1>1 DEF NewRequest, Sensible, Request, Outcome, Kind
  <2> HIDE DEF q
  <2>4. Belongs(q, w1)
    BY <1>2, <2>3 DEF Belongs, BootsAlone, Refresh, Operation
  <2>5. /\ Orderly(v) /\ v.pages = w1.pages /\ v.mounted = w1.mounted /\ v.playing = w1.playing
        /\ v.cache = w1.cache
    BY <1>2, <2>1, <2>2, <2>3, <2>4, SendKeeps
  <2>6. Sound(v) /\ (Chimes(w1) => Chimes(v))
    BY <2>2, <2>5 DEF Sound, Chimes
  <2>7. v.flight = Append(w.flight, q)
    BY <1>2, <1>3, <2>1, <2>2 DEF Orderly, Tab, Touched
  <2>8. Effect(w, r, v)
    BY <1>2, <2>3, <2>5, <2>7 DEF Effect, Grew, Sits, Sensible
  <2> QED
    BY <1>2, <2>6, <2>8 DEF Handled, v
<1>4. CASE r.status # "ok"
  <2>1. v = Booted(w1, s)
    BY <1>4 DEF afterBoot
  <2> HIDE DEF w1, v
  <2>2. /\ Sound(v) /\ (Chimes(w1) => Chimes(v))
        /\ v.cache = w1.cache /\ v.flight = w1.flight /\ (Sits(w1) => Sits(v))
    BY <1>1, <1>2, <2>1, BootedKeeps DEF Handled
  <2>3. Effect(w, r, v)
    BY <1>2, <2>2 DEF Effect
  <2> QED
    BY <1>2, <2>2, <2>3 DEF Handled, v
<1> QED
  BY <1>3, <1>4

LEMMA FormHandled ==
  ASSUME NEW w, Good(w), NEW r, Taken(r, w), r.kind \in {"issue", "recover"}
  PROVE  LET v == handleResult(w, r.page, r)
         IN  Handled(w, r.page, v) /\ Effect(w, r, v)
<1> DEFINE s == r.page
           c == [id |-> r.row.id, handle |-> r.handle]
           u == [w EXCEPT !.cache = c]
           v == handleResult(w, s, r)
<1>1. /\ s \in Slots /\ w.pages[s] # None /\ w \in Tab /\ r.handle \in Handles
      /\ w.pages[s].route # "ticket" /\ r.kind \notin Refresh
      /\ r.status = "ok" => r.row \in ShownTicket
  BY TakenFacts DEF Good, Orderly, Taken, Belongs, Refresh
<1>2. CASE r.status = "ok"
  <2>1. v = goto(u, "ticket") /\ c \in Stored
    BY <1>1, <1>2 DEF handleResult, Stored, ShownTicket
  <2> HIDE DEF c, v
  <2>2. Touched(w, u) /\ (Chimes(w) => Chimes(u)) /\ u.cache = c
    <3>1. u.cache = c
      BY <1>1 DEF Tab
    <3> QED
      BY <1>1, <2>1, <3>1, Caches
  <2> HIDE DEF u
  <2>3. Good(u) /\ "ticket" \in Route
    BY <2>2, TouchKeeps DEF Good, Route
  <2>4. /\ Sound(v) /\ (Chimes(u) => Chimes(v))
        /\ v.cache = u.cache /\ Grew(u.flight, v.flight) /\ (Sits(u) => Sits(v))
    BY <2>1, <2>3, GotoKeeps
  <2>5. Effect(w, r, v)
    <3>1. s = w.mounted => Sits(u)
      BY <1>1, <2>2 DEF Sits, Touched, SamePage
    <3>2. CacheAfter(w, r) = c
      BY <1>2 DEF CacheAfter, c
    <3> QED
      BY <2>2, <2>4, <3>1, <3>2 DEF Effect, Touched
  <2> QED
    BY <2>2, <2>4, <2>5 DEF Handled, v
<1>3. CASE r.status # "ok"
  <2>1. v = Failed(w, s)
    BY <1>3 DEF handleResult
  <2> HIDE DEF v
  <2>2. Touched(w, v) /\ (Chimes(w) => Chimes(v)) /\ v.cache = w.cache
    BY <1>1, <2>1, FailedKeeps
  <2>3. Effect(w, r, v)
    BY <1>1, <1>3, <2>2, TouchEffect DEF CacheAfter
  <2> QED
    BY <2>2, <2>3, TouchHandled DEF v
<1> QED
  BY <1>2, <1>3

\* The ticket a dialog asked about is shown, and the dialog closes.
LEMMA ConfirmedKeeps ==
  ASSUME NEW w, Good(w), NEW r, Taken(r, w), r.kind \in {"cancel", "reschedule"},
         r.status = "ok"
  PROVE  LET v == Confirmed(w, r.page, r)
         IN  /\ Touched(w, v) /\ (Chimes(w) => Chimes(v))
             /\ v.cache = w.cache /\ v.alerted = w.alerted /\ v.playing = w.playing
<1> DEFINE s == r.page
           p == w.pages[s]
           t == IF s = w.mounted THEN r.row ELSE None
           d == IF p.dialog = r.kind THEN "none" ELSE p.dialog
           u == Showing(w, s, t, p.error, p.feed)
           v == [u EXCEPT !.pages[s].dialog = d]
<1>1. /\ s \in Slots /\ p # None /\ w \in Tab /\ p \in Page
      /\ r.row \in ShownTicket /\ r.row # None
  BY TakenFacts DEF Good, Orderly, Tab
<1>2. /\ t \in ShownTicket \cup {None} /\ p.error \in BOOLEAN /\ p.feed \in Feed
      /\ d \in {"none", "cancel", "reschedule"}
  BY <1>1 DEF Page
<1>3. s = w.mounted => t # None
  BY <1>1
<1>4. Confirmed(w, s, r) = v
  <2>1. Confirmed(w, s, r) =
          [w EXCEPT !.pages[s] = [[p EXCEPT !.ticket = t] EXCEPT !.dialog = d]]
    BY <1>1 DEF Confirmed, Tab, Page
  <2>2. [p EXCEPT !.ticket = t] = [p EXCEPT !.ticket = t, !.error = p.error, !.feed = p.feed]
    BY <1>1 DEF Page
  <2>3. v = [w EXCEPT !.pages[s] = [[p EXCEPT !.ticket = t] EXCEPT !.dialog = d]]
    <3> DEFINE x == [p EXCEPT !.ticket = t]
    <3>1. u = [w EXCEPT !.pages[s] = x]
      BY <2>2 DEF Showing
    <3> HIDE DEF x, u, s, d
    <3>2. u.pages = [w.pages EXCEPT ![s] = x] /\ u.pages[s] = x
      BY <1>1, <3>1 DEF Tab
    <3>3. v = [u EXCEPT !.pages = [u.pages EXCEPT ![s] = [x EXCEPT !.dialog = d]]]
      BY <3>2
    <3>4. [u.pages EXCEPT ![s] = [x EXCEPT !.dialog = d]]
            = [w.pages EXCEPT ![s] = [x EXCEPT !.dialog = d]]
      BY <1>1, <3>2 DEF Tab
    <3>5. v = [w EXCEPT !.pages[s] = [x EXCEPT !.dialog = d]]
      BY <1>1, <3>1, <3>3, <3>4 DEF Tab
    <3> QED
      BY <3>5 DEF x, s, d
  <2> QED
    BY <2>1, <2>3
<1> HIDE DEF t, d
<1>5. /\ Touched(w, u) /\ (Chimes(w) => Chimes(u))
      /\ u.cache = w.cache /\ u.alerted = w.alerted /\ u.playing = w.playing
  <2>1. s \in Slots /\ w \in Tab /\ w.pages[s] # None
    BY <1>1
  <2> HIDE DEF s
  <2> QED
    BY <1>2, <1>3, <2>1, Shows
<1> HIDE DEF u
<1>6. u \in Tab /\ u.pages[s] # None
  BY <1>1, <1>5 DEF Touched, SamePage
<1>7. /\ Touched(u, v) /\ (Chimes(u) => Chimes(v))
      /\ v.cache = u.cache /\ v.alerted = u.alerted /\ v.playing = u.playing
  <2> HIDE DEF s
  <2> QED
    BY <1>1, <1>2, <1>6, DialogSet DEF s
<1> HIDE DEF v
<1> QED
  BY <1>4, <1>5, <1>7, TouchedTwice DEF s

LEMMA CancelHandled ==
  ASSUME NEW w, Good(w), NEW r, Taken(r, w), r.kind = "cancel"
  PROVE  LET v == onCancelConfirm(w, r.page, r)
         IN  Handled(w, r.page, v) /\ Effect(w, r, v)
<1> DEFINE v == onCancelConfirm(w, r.page, r)
<1>1. r.page \in Slots /\ w.pages[r.page] # None /\ w \in Tab
  BY TakenFacts DEF Good, Orderly
<1>2. CacheAfter(w, r) = w.cache
  BY DEF CacheAfter, Refresh
<1>3. Touched(w, v) /\ (Chimes(w) => Chimes(v)) /\ v.cache = w.cache
  <2>1. CASE r.status = "ok"
    BY <2>1, ConfirmedKeeps DEF onCancelConfirm
  <2>2. CASE r.status # "ok"
    BY <1>1, <2>2, FailedKeeps DEF onCancelConfirm
  <2> QED
    BY <2>1, <2>2
<1> HIDE DEF v
<1> QED
  BY <1>1, <1>2, <1>3, TouchHandled, TouchEffect DEF v

\* The refresh that follows an operation.
LEMMA FollowedUp ==
  ASSUME NEW w, Good(w), NEW r, Taken(r, w), CacheAfter(w, r) = w.cache,
         NEW u, Touched(w, u), Chimes(w) => Chimes(u), u.cache = w.cache,
         NEW k \in {"checkedIn", "rescheduled"}, r.kind \in Operation
  PROVE  LET v == [u EXCEPT !.flight = Append(@, NewRequest(r.page, k, r.handle, None))]
         IN  Handled(w, r.page, v) /\ Effect(w, r, v)
<1> DEFINE s == r.page
           q == NewRequest(s, k, r.handle, None)
           v == [u EXCEPT !.flight = Append(@, q)]
<1>1. /\ s \in Slots /\ w.pages[s] # None /\ w \in Tab /\ r.handle \in Handles
      /\ w.pages[s].route = "ticket" /\ r.handle = w.pages[s].stored.handle
  BY TakenFacts DEF Good, Orderly, Operation
<1>2. Good(u) /\ u \in Tab /\ u.mounted = w.mounted /\ u.flight = w.flight
  BY TouchKeeps DEF Good, Touched
<1>3. /\ u.pages[s] # None /\ u.pages[s].route = "ticket"
      /\ r.handle = u.pages[s].stored.handle
  BY <1>1 DEF Touched, SamePage
<1>4. Sensible(q) /\ q.page = s /\ q.kind = k /\ q.handle = r.handle
      /\ q.status = "sent"
  BY <1>1 DEF NewRequest, Sensible, Request, Outcome, Kind, Refresh
<1> HIDE DEF q
<1>5. Belongs(q, u) /\ q.kind \notin Booter
  BY <1>1, <1>3, <1>4 DEF Belongs, Booter
<1>6. Good(v) /\ (Chimes(u) => Chimes(v))
  BY <1>2, <1>4, <1>5, GoodSends
<1>7. /\ v.flight = Append(w.flight, q) /\ v.cache = w.cache /\ v.pages = u.pages
      /\ v.mounted = w.mounted
  BY <1>2 DEF Tab
<1> HIDE DEF v
<1>8. Sits(w) => Sits(v)
  <2>1. Sits(w) => Sits(u)
    BY <1>1, TouchSits
  <2> QED
    BY <1>2, <1>7, <2>1 DEF Sits
<1> QED
  BY <1>4, <1>6, <1>7, <1>8, GoodIsSound DEF Handled, Effect, Grew, Sensible, v, q, s

LEMMA CheckInHandled ==
  ASSUME NEW w, Good(w), NEW r, Taken(r, w), r.kind = "checkIn"
  PROVE  LET v == onCheckIn(w, r.page, r)
         IN  Handled(w, r.page, v) /\ Effect(w, r, v)
<1> DEFINE v == onCheckIn(w, r.page, r)
<1>1. r.page \in Slots /\ w.pages[r.page] # None /\ w \in Tab
  BY TakenFacts DEF Good, Orderly
<1>2. CacheAfter(w, r) = w.cache
  BY DEF CacheAfter, Refresh
<1>3. CASE r.status = "ok"
  <2>1. Touched(w, w)
    BY <1>1 DEF Touched, SamePage
  <2> QED
    BY <1>2, <1>3, <2>1, FollowedUp DEF onCheckIn, Operation
<1>4. CASE r.status # "ok"
  <2>1. v = Failed(w, r.page)
    BY <1>4 DEF onCheckIn
  <2> QED
    BY <1>1, <1>2, <2>1, FailedKeeps, TouchHandled, TouchEffect
<1> QED
  BY <1>3, <1>4

LEMMA RescheduleHandled ==
  ASSUME NEW w, Good(w), NEW r, Taken(r, w), r.kind = "reschedule"
  PROVE  LET v == onRescheduleConfirm(w, r.page, r)
         IN  Handled(w, r.page, v) /\ Effect(w, r, v)
<1> DEFINE u == Confirmed(w, r.page, r)
<1>1. CacheAfter(w, r) = w.cache
  BY DEF CacheAfter, Refresh
<1>2. CASE r.status = "ok"
  <2>1. Touched(w, u) /\ (Chimes(w) => Chimes(u)) /\ u.cache = w.cache
    BY <1>2, ConfirmedKeeps
  <2> DEFINE v == [u EXCEPT !.flight =
                    Append(@, NewRequest(r.page, "rescheduled", r.handle, None))]
  <2>2. onRescheduleConfirm(w, r.page, r) = v
    BY <1>2 DEF onRescheduleConfirm
  <2> HIDE DEF u
  <2>3. Handled(w, r.page, v) /\ Effect(w, r, v)
    BY <1>1, <2>1, FollowedUp DEF Operation
  <2> HIDE DEF v
  <2> QED
    BY <2>2, <2>3
<1>3. CASE r.status # "ok"
  <2>1. Handled(w, r.page, w) /\ Effect(w, r, w)
    BY <1>1, GoodIsSound DEF Handled, Effect, Grew
  <2> QED
    BY <1>3, <2>1 DEF onRescheduleConfirm
<1> QED
  BY <1>2, <1>3

\* Whatever is answered, the page's handler leaves a sound browser.
LEMMA AnsweredHandled ==
  ASSUME NEW w, Good(w), NEW r, Taken(r, w)
  PROVE  LET v == Answered(w, r.page, r)
         IN  Handled(w, r.page, v) /\ Effect(w, r, v)
<1> DEFINE s == r.page
<1>1. s \in Slots /\ r.kind \in Kind
  BY TakenFacts
<1>2. CASE r.kind = "boot"
  <2>1. Answered(w, s, r) = afterBoot(w, s, r)
    BY <1>2 DEF Answered, Refresh
  <2> QED
    BY <1>2, <2>1, AfterBootHandled
<1>3. CASE r.kind \in Refresh \ {"boot"}
  <2>1. Answered(w, s, r) = refresh(w, s, r)
    BY <1>3 DEF Answered, Refresh
  <2> QED
    BY <1>3, <2>1, RefreshHandled
<1>4. CASE r.kind = "shopState"
  <2>1. Answered(w, s, r) = Booted(w, s)
    BY <1>4 DEF Answered, Refresh
  <2>2. BootsAlone(w, s) /\ Sound(w)
    BY <1>4, GoodIsSound DEF Taken, Booter
  <2> DEFINE v == Booted(w, s)
  <2>3. /\ Sound(v) /\ (Chimes(w) => Chimes(v))
        /\ v.cache = w.cache /\ v.flight = w.flight /\ (Sits(w) => Sits(v))
    BY <1>1, <2>2, BootedKeeps
  <2> HIDE DEF v
  <2>4. CacheAfter(w, r) = w.cache
    BY <1>4 DEF CacheAfter, Refresh
  <2>5. Handled(w, s, v) /\ Effect(w, r, v)
    BY <2>3, <2>4 DEF Handled, Effect, Grew
  <2> QED
    BY <2>1, <2>5 DEF v
<1>5. CASE r.kind \in {"issue", "recover"}
  <2>1. Answered(w, s, r) = handleResult(w, s, r)
    BY <1>5 DEF Answered, Refresh
  <2> QED
    BY <1>5, <2>1, FormHandled
<1>6. CASE r.kind = "cancel"
  <2>1. Answered(w, s, r) = onCancelConfirm(w, s, r)
    BY <1>6 DEF Answered, Refresh
  <2> QED
    BY <1>6, <2>1, CancelHandled
<1>7. CASE r.kind = "checkIn"
  <2>1. Answered(w, s, r) = onCheckIn(w, s, r)
    BY <1>7 DEF Answered, Refresh
  <2> QED
    BY <1>7, <2>1, CheckInHandled
<1>8. CASE r.kind = "reschedule"
  <2>1. Answered(w, s, r) = onRescheduleConfirm(w, s, r)
    BY <1>8 DEF Answered, Refresh
  <2> QED
    BY <1>8, <2>1, RescheduleHandled
<1> QED
  BY <1>1, <1>2, <1>3, <1>4, <1>5, <1>6, <1>7, <1>8 DEF Kind, Operation


-----------------------------------------------------------------------------
(* The steps.                                                              *)

ShopTypes ==
  /\ active \in [Handles -> ActiveTicket \cup {None}]
  /\ issued \in 0..MaxTickets
  /\ called \in 0..MaxKeys
  /\ \A h \in Handles : active[h] # None /\ active[h].state # "Waiting" => active[h].key # 0

SeenTypes ==
  seen.rung \subseteq 1..MaxKeys /\ seen.loose \in BOOLEAN /\ seen.odd \subseteq Oddity

\* Without a page nothing is left over.
Standing(w) ==
  /\ Orderly(w)
  /\ w.mounted # None => Good(w)
  /\ w.mounted = None =>
       w.flight = << >> /\ ~w.playing /\ \A s \in Slots : w.pages[s] = None

\* What rings without a page that was left having had a hand in it.
Rings == ~seen.loose => Chimes(tab)

PhoneInv == ShopTypes /\ SeenTypes /\ Standing(tab) /\ Rings

LEMMA StandingFacts ==
  ASSUME NEW w, Standing(w)
  PROVE  /\ w \in Tab
         /\ \A n \in DOMAIN w.flight : Good(w)
         /\ \A s \in Slots : w.pages[s] # None => Good(w)
         /\ w.playing => Good(w)
BY DEF Standing, Orderly

LEMMA GoodStands ==
  ASSUME NEW w, Good(w)
  PROVE  Standing(w)
BY DEF Good, Standing

LEMMA TouchStands ==
  ASSUME NEW w, Standing(w), NEW v, Touched(w, v), v.playing => w.playing
  PROVE  Standing(v)
<1>1. Orderly(v) /\ (Good(w) => Good(v))
  BY TouchKeeps DEF Standing
<1>2. v.mounted = w.mounted /\ v.flight = w.flight
  BY DEF Touched
<1>3. \A s \in Slots : w.pages[s] = None => v.pages[s] = None
  BY DEF Touched, SamePage
<1> QED
  BY <1>1, <1>2, <1>3 DEF Standing

LEMMA BecomeKeeps ==
  ASSUME NEW v, Sound(v), Become(v)
  PROVE  Good(tab') /\ (Chimes(v) => Chimes(tab'))
<1>1. Good(v) /\ tab' = Collect(v)
  BY GoodIsSound DEF Become, Fits
<1>2. Orderly(v)
  BY DEF Sound
<1> QED
  BY <1>1, <1>2, CollectKeeps

LEMMA RememberKeeps ==
  ASSUME SeenTypes, tab' \in Tab, NEW odd \in SUBSET Oddity, Remember(odd)
  PROVE  /\ SeenTypes'
         /\ ~seen'.loose =>
              \/ ~tab'.playing
              \/ "ghost" \notin odd /\ (~tab.playing \/ ~seen.loose)
<1>1. Alerting => tab'.alerted \in 1..MaxKeys
  BY DEF Alerting, Tab
<1>2. (tab'.playing /\ ((tab.playing /\ seen.loose) \/ "ghost" \in odd)) \in BOOLEAN
  OBVIOUS
<1> QED
  BY <1>1, <1>2 DEF Remember, SeenTypes

\* A step of the browser that remembers nothing.
LEMMA QuietStep ==
  ASSUME PhoneInv, UNCHANGED seen, Standing(tab'), Chimes(tab) => Chimes(tab')
  PROVE  SeenTypes' /\ Standing(tab)' /\ Rings'
BY DEF PhoneInv, SeenTypes, Rings, Standing, Orderly, OrderlyPage, Sensible, Belongs,
       OneBoot, Good, Fits, Chimes, Tab


\* The mounted page sends a request.
LEMMA Posts ==
  ASSUME Good(tab), NEW kind \in Kind \ Booter, NEW handle \in Handles,
         NEW id \in (1..MaxTickets) \cup {None}, NEW s \in Slots, tab.pages[s] # None,
         kind \in Refresh \cup Operation =>
           tab.pages[s].route = "ticket" /\ handle = tab.pages[s].stored.handle,
         kind \in {"issue", "recover"} => tab.pages[s].route = kind
  PROVE  LET v == [tab EXCEPT !.flight = Append(@, NewRequest(s, kind, handle, id))]
         IN  /\ Sound(v)
             /\ Become(v) => Standing(tab') /\ (Chimes(tab) => Chimes(tab'))
<1> DEFINE q == NewRequest(s, kind, handle, id)
           v == [tab EXCEPT !.flight = Append(@, q)]
<1>1. Sensible(q) /\ q.page = s /\ q.kind = kind /\ q.handle = handle
  <2>1. kind \in Kind /\ handle \in Handles \cup {None}
    OBVIOUS
  <2> QED
    BY <2>1, NewRequestSensible
<1> HIDE DEF q
<1>2. Belongs(q, tab)
  BY <1>1 DEF Belongs
<1>3. Good(v) /\ (Chimes(tab) => Chimes(v))
  BY <1>1, <1>2, GoodSends
<1> HIDE DEF v
<1>4. Become(v) => Standing(tab') /\ (Chimes(tab) => Chimes(tab'))
  BY <1>3, BecomeKeeps, GoodIsSound, GoodStands
<1> QED
  BY <1>3, <1>4, GoodIsSound DEF v, q

LEMMA OnFacts ==
  ASSUME PhoneInv, NEW route, On(route)
  PROVE  /\ Good(tab) /\ tab.mounted \in Slots /\ Here # None /\ Here \in Page
         /\ Here.route = route
         /\ route = "ticket" => Here.stored \in Stored
<1>1. Good(tab)
  BY DEF PhoneInv, Standing, On
<1>2. /\ tab.mounted \in Slots /\ Here # None /\ Here \in Page
      /\ OrderlyPage(Here)
  BY <1>1 DEF Good, Orderly, Tab, Here
<1> QED
  BY <1>1, <1>2 DEF On, OrderlyPage, Page

LEMMA Sent ==
  ASSUME PhoneInv,
         \/ \E h \in Handles : SubmitIssue(h) \/ SubmitRecover(h)
         \/ \E op \in Operations : Operate(op)
         \/ Retry
  PROVE  PhoneInv'
<1>1. ASSUME NEW h \in Handles, SubmitIssue(h) \/ SubmitRecover(h)
      PROVE  Standing(tab') /\ (Chimes(tab) => Chimes(tab'))
  <2>1. PICK kind \in {"issue", "recover"} : On(kind) /\ Send(kind, h, None)
    BY <1>1 DEF SubmitIssue, SubmitRecover
  <2>2. /\ Good(tab) /\ tab.mounted \in Slots /\ tab.pages[tab.mounted] # None
        /\ tab.pages[tab.mounted].route = kind
    BY <2>1, OnFacts DEF Here
  <2>3. kind \in Kind \ Booter /\ kind \notin Refresh \cup Operation
    BY DEF Kind, Booter, Refresh, Operation
  <2> QED
    BY <2>1, <2>2, <2>3, Posts DEF Send
<1>2. ASSUME NEW op \in Operations, Operate(op)
      PROVE  Standing(tab') /\ (Chimes(tab) => Chimes(tab'))
  <2>1. /\ Good(tab) /\ tab.mounted \in Slots /\ tab.pages[tab.mounted] # None
        /\ tab.pages[tab.mounted].route = "ticket" /\ Here.stored \in Stored
    BY <1>2, OnFacts DEF Operate, AtPage, Here
  <2>2. op \in Kind \ Booter /\ op \notin {"issue", "recover"}
    BY OperationAssumption DEF Kind, Booter, Operation
  <2>3. /\ Here.stored.handle \in Handles /\ Here.stored.id \in (1..MaxTickets) \cup {None}
        /\ Here.stored.handle = tab.pages[tab.mounted].stored.handle
    BY <2>1 DEF Stored, Here
  <2> QED
    BY <1>2, <2>1, <2>2, <2>3, Posts DEF Operate, Send
<1>3. ASSUME Retry
      PROVE  Standing(tab') /\ (Chimes(tab) => Chimes(tab'))
  <2>1. /\ Good(tab) /\ tab.mounted \in Slots /\ tab.pages[tab.mounted] # None
        /\ tab.pages[tab.mounted].route = "ticket" /\ Here.stored \in Stored
    BY <1>3, OnFacts DEF Retry, AtPage, Here
  <2>2. "refresh" \in Kind \ Booter
    BY DEF Kind, Booter, Refresh
  <2>3. /\ Here.stored.handle \in Handles
        /\ Here.stored.handle = tab.pages[tab.mounted].stored.handle
    BY <2>1 DEF Stored, Here
  <2> QED
    BY <1>3, <2>1, <2>2, <2>3, Posts DEF Retry
<1>4. ShopTypes' /\ UNCHANGED seen
  BY DEF PhoneInv, ShopTypes, SubmitIssue, SubmitRecover, Operate, Retry, Send
<1>5. Standing(tab') /\ (Chimes(tab) => Chimes(tab'))
  BY <1>1, <1>2, <1>3
<1> QED
  BY <1>4, <1>5, QuietStep DEF PhoneInv

\* A dialog is opened or closed over the mounted page.
LEMMA Asked ==
  ASSUME PhoneInv, (\E op \in Operations : OpenDialog(op)) \/ CloseDialog
  PROVE  PhoneInv'
<1>1. PICK d \in {"none", "cancel", "reschedule"} : On("ticket") /\ SetDialog(d)
  <2>1. \A op \in Operations : op # "checkIn" => op \in {"none", "cancel", "reschedule"}
    BY OperationAssumption DEF Operation
  <2> QED
    BY <2>1 DEF OpenDialog, CloseDialog, AtPage
<1>2. Good(tab) /\ tab \in Tab /\ tab.mounted \in Slots /\ tab.pages[tab.mounted] # None
  BY <1>1, OnFacts DEF Good, Orderly, Here
<1>3. tab' = [tab EXCEPT !.pages[tab.mounted].dialog = d]
  BY <1>1 DEF SetDialog
<1>4. Touched(tab, tab') /\ tab'.playing = tab.playing /\ (Chimes(tab) => Chimes(tab'))
  BY <1>2, <1>3, DialogSet
<1>5. Standing(tab')
  BY <1>4, TouchStands DEF PhoneInv
<1>6. ShopTypes' /\ UNCHANGED seen
  BY <1>1 DEF SetDialog, PhoneInv, ShopTypes
<1> QED
  BY <1>4, <1>5, <1>6, QuietStep DEF PhoneInv

\* The customer goes to another page, opens the tab and closes it.
LEMMA Moved ==
  ASSUME PhoneInv,
         \/ \E route \in Route :
              Navigate(route) \/ \E expired \in BOOLEAN : Open(route, expired)
         \/ Close
  PROVE  PhoneInv'
<1>1. ASSUME NEW route \in Route, Navigate(route)
      PROVE  Standing(tab') /\ (Chimes(tab) => Chimes(tab'))
  <2>1. Good(tab) /\ Become(goto(tab, route))
    BY <1>1 DEF Navigate, PhoneInv, Standing
  <2>2. Sound(goto(tab, route)) /\ (Chimes(tab) => Chimes(goto(tab, route)))
    BY <2>1, GotoKeeps
  <2> QED
    BY <2>1, <2>2, BecomeKeeps, GoodStands
<1>2. ASSUME NEW route \in Route, NEW expired \in BOOLEAN, Open(route, expired)
      PROVE  Standing(tab') /\ (Chimes(tab) => Chimes(tab'))
  <2> DEFINE c == IF expired THEN None ELSE tab.cache
             u == [tab EXCEPT !.cache = c]
  <2>1. /\ tab \in Tab /\ tab.mounted = None /\ ~tab.playing
        /\ \A s \in Slots : tab.pages[s] = None
    BY <1>2 DEF PhoneInv, Standing, Orderly, Open
  <2>2. tab' = onMount(u, route)
    BY <1>2, <2>1 DEF Open, Tab
  <2>3. c \in Stored \cup {None}
    BY <2>1 DEF Tab
  <2> HIDE DEF c
  <2>4. Touched(tab, u) /\ u.playing = tab.playing /\ u.pages = tab.pages
    BY <2>1, <2>3, Caches
  <2> HIDE DEF u
  <2>5. Orderly(u) /\ AllLeft(u)
    BY <2>1, <2>4, TouchKeeps DEF PhoneInv, Standing, AllLeft
  <2>6. \A s \in Slots : u.pages[s] = None
    BY <2>1, <2>4
  <2>7. /\ tab'.playing = u.playing
        /\ (\E s \in Slots : u.pages[s] = None) => Good(tab')
    BY <2>2, <2>5, <2>6, OnMountKeeps
  <2>8. CASE Slots = {}
    <3>1. tab' = [u EXCEPT !.flight = << >>]
      BY <2>2, <2>8 DEF onMount
    <3>2. u \in Tab /\ u.mounted = None
      BY <2>1, <2>4 DEF Touched
    <3>3. << >> \in Seq(Request)
      OBVIOUS
    <3>4. /\ tab' \in Tab /\ tab'.mounted = None /\ tab'.flight = << >>
          /\ tab'.pages = u.pages /\ ~tab'.playing
      BY <2>1, <2>4, <3>1, <3>2, <3>3 DEF Tab
    <3> QED
      BY <2>8, <3>4 DEF Standing, Orderly, OneBoot, Chimes
  <2>9. CASE Slots # {}
    BY <2>1, <2>4, <2>6, <2>7, <2>9, GoodStands DEF Chimes
  <2> QED
    BY <2>8, <2>9
<1>3. ASSUME Close
      PROVE  Standing(tab') /\ (Chimes(tab) => Chimes(tab'))
  <2>1. tab \in Tab
    BY DEF PhoneInv, Standing, Orderly
  <2>2. << >> \in Seq(Request) /\ [s \in Slots |-> None] \in [Slots -> Page \cup {None}]
    OBVIOUS
  <2>3. /\ tab' \in Tab /\ tab'.mounted = None /\ tab'.flight = << >>
        /\ ~tab'.playing /\ tab'.pages = [s \in Slots |-> None]
    BY <1>3, <2>1, <2>2 DEF Close, Tab
  <2> QED
    BY <2>3 DEF Standing, Orderly, OneBoot, Chimes
<1>4. ShopTypes' /\ UNCHANGED seen
  BY DEF PhoneInv, ShopTypes, Navigate, Open, Close
<1>5. Standing(tab') /\ (Chimes(tab) => Chimes(tab'))
  BY <1>1, <1>2, <1>3
<1> QED
  BY <1>4, <1>5, QuietStep DEF PhoneInv

LEMMA Silenced ==
  ASSUME PhoneInv, Acknowledge \/ ChimeTimeout
  PROVE  PhoneInv'
<1>1. tab' = chimeStop(tab) /\ UNCHANGED << active, issued, called, seen >>
  BY DEF Acknowledge, ChimeTimeout
<1>2. tab \in Tab /\ Standing(tab) /\ (tab.mounted = None \/ tab.pages[tab.mounted] # None)
  BY DEF PhoneInv, Standing, Orderly, Good
<1>3. Touched(tab, tab') /\ ~tab'.playing
  BY <1>1, <1>2, ChimeStops
<1>4. Standing(tab') /\ Chimes(tab')
  BY <1>2, <1>3, TouchStands DEF Chimes
<1>5. ShopTypes' /\ UNCHANGED seen
  BY <1>1 DEF PhoneInv, ShopTypes
<1> QED
  BY <1>4, <1>5, QuietStep DEF PhoneInv


-----------------------------------------------------------------------------
(* The shop, the network and the feeds.                                    *)

\* A page whose feed changed goes on ringing.
LEMMA FeedSet ==
  ASSUME NEW w \in Tab, NEW s \in Slots, w.pages[s] # None, NEW f \in Feed,
         FeedAlive(f) => FeedAlive(w.pages[s].feed)
  PROVE  LET v == [w EXCEPT !.pages[s].feed = f]
         IN  Touched(w, v) /\ v.playing = w.playing /\ (Chimes(w) => Chimes(v))
<1> DEFINE p == w.pages[s]
           u == Showing(w, s, p.ticket, p.error, f)
           v == [w EXCEPT !.pages[s].feed = f]
<1>1. p \in Page /\ p.ticket \in ShownTicket \cup {None} /\ p.error \in BOOLEAN
  <2>1. p \in Page
    BY DEF Tab
  <2> QED
    BY <2>1 DEF Page
<1>2. v = u
  <2>1. [p EXCEPT !.feed = f] = [p EXCEPT !.ticket = p.ticket, !.error = p.error, !.feed = f]
    BY <1>1 DEF Page
  <2>2. v = [w EXCEPT !.pages[s] = [p EXCEPT !.feed = f]]
    BY DEF Tab
  <2> QED
    BY <2>1, <2>2 DEF Showing
<1>3. Touched(w, u) /\ u.playing = w.playing /\ (Chimes(w) => Chimes(u))
  BY <1>1, Shows
<1> HIDE DEF u, v
<1> QED
  BY <1>2, <1>3 DEF v

LEMMA BroadcastKeeps ==
  ASSUME NEW w \in Tab
  PROVE  LET v == Broadcast(w)
         IN  Touched(w, v) /\ v.playing = w.playing /\ (Chimes(w) => Chimes(v))
<1> DEFINE P == [s \in Slots |->
                  IF w.pages[s] = None THEN None
                  ELSE [w.pages[s] EXCEPT !.feed = broadcast(w.pages[s].feed)]]
           v == Broadcast(w)
<1>1. v = [w EXCEPT !.pages = P]
  BY DEF Broadcast
<1>2. ASSUME NEW s \in Slots, w.pages[s] # None
      PROVE  /\ P[s] \in Page /\ P[s] # None
             /\ SamePage(w.pages[s], P[s])
             /\ P[s].route = w.pages[s].route /\ P[s].ticket = w.pages[s].ticket
             /\ P[s].chimePlaying = w.pages[s].chimePlaying
  <2> DEFINE p == w.pages[s]
             f == broadcast(p.feed)
  <2>1. p \in Page
    BY <1>2 DEF Tab
  <2>2. f \in Feed /\ (FeedAlive(f) => FeedAlive(p.feed))
    <3>1. p.feed \in Feed
      BY <2>1 DEF Page
    <3> QED
      BY <3>1 DEF Feed, broadcast, FeedAlive
  <2>3. P[s] = [p EXCEPT !.feed = f]
    BY <1>2
  <2> HIDE DEF f, P
  <2>4. /\ P[s] \in Page /\ P[s].route = p.route /\ P[s].stored = p.stored
        /\ P[s].booting = p.booting /\ P[s].left = p.left /\ P[s].feed = f
        /\ P[s].ticket = p.ticket /\ P[s].chimePlaying = p.chimePlaying
    BY <2>1, <2>2, <2>3 DEF Page
  <2> QED
    BY <1>2, <2>2, <2>4, NoPageAssumption DEF SamePage
<1>3. \A s \in Slots : w.pages[s] = None => P[s] = None
  OBVIOUS
<1>4. P \in [Slots -> Page \cup {None}]
  BY <1>2
<1> HIDE DEF P, v
<1>5. /\ v \in Tab /\ v.pages = P /\ v.mounted = w.mounted /\ v.flight = w.flight
      /\ v.playing = w.playing
  BY <1>1, <1>4 DEF Tab
<1>6. Touched(w, v)
  BY <1>2, <1>3, <1>5 DEF Touched, SamePage
<1>7. Chimes(w) => Chimes(v)
  BY <1>2, <1>5 DEF Chimes, Tab
<1> QED
  BY <1>5, <1>6, <1>7 DEF v

LEMMA Told ==
  ASSUME PhoneInv, tab' = Broadcast(tab)
  PROVE  Standing(tab') /\ (Chimes(tab) => Chimes(tab'))
BY BroadcastKeeps, TouchStands, StandingFacts DEF PhoneInv

LEMMA RowsAreShown ==
  ASSUME NEW row \in ActiveTicket
  PROVE  row # None /\ row \in ShownTicket
BY NoPageAssumption DEF ActiveTicket, ShownTicket

WithRow(a, state, key) == [a EXCEPT !.state = state, !.key = key]

LEMMA RowChanges ==
  ASSUME NEW a \in ActiveTicket, NEW state \in {"Waiting", "Called", "Overdue"},
         NEW key \in 0..MaxKeys
  PROVE  LET row == WithRow(a, state, key)
         IN  row \in ActiveTicket /\ row.state = state /\ row.key = key
BY DEF ActiveTicket, WithRow

LEMMA ShopKeeps ==
  ASSUME PhoneInv, ShopActs
  PROVE  PhoneInv'
<1>1. ASSUME NEW h \in Handles, ShopCalls(h)
      PROVE  ShopTypes'
  <2> DEFINE row == [active[h] EXCEPT !.key = called + 1,
                       !.state = IF @ = "Waiting" THEN "Called" ELSE @]
  <2>1. /\ active[h] \in ActiveTicket /\ called + 1 \in 1..MaxKeys /\ called' = called + 1
        /\ active' = [active EXCEPT ![h] = row] /\ issued' = issued
    BY <1>1, CustomerAssumption DEF ShopCalls, ShopSets, PhoneInv, ShopTypes
  <2>2. row \in ActiveTicket /\ row.key # 0
    <3> DEFINE a == active[h]
               key == called + 1
               state == IF a.state = "Waiting" THEN "Called" ELSE a.state
    <3>1. row = WithRow(a, state, key)
      BY <2>1 DEF ActiveTicket, WithRow
    <3>2. /\ state \in {"Waiting", "Called", "Overdue"} /\ a \in ActiveTicket
          /\ key \in 0..MaxKeys /\ key # 0
      BY <2>1, CustomerAssumption DEF ActiveTicket
    <3> HIDE DEF row, a, key, state
    <3> QED
      BY <3>1, <3>2, RowChanges
  <2> HIDE DEF row
  <2> QED
    BY <2>1, <2>2 DEF PhoneInv, ShopTypes
<1>2. ASSUME NEW h \in Handles, ShopMoves(h)
      PROVE  ShopTypes'
  <2>1. active[h] \in ActiveTicket /\ active[h] # None
    BY <1>2 DEF ShopMoves, PhoneInv, ShopTypes
  <2>2. PICK row : /\ active' = [active EXCEPT ![h] = row]
                   /\ row \in ActiveTicket \cup {None}
                   /\ row # None /\ row.state # "Waiting" => row.key # 0
    <3>1. CASE active[h].state = "Called" /\ ShopSets(h, [active[h] EXCEPT !.state = "Overdue"])
      <4>1. active[h].key # 0
        BY <2>1, <3>1 DEF PhoneInv, ShopTypes
      <4>2. [active[h] EXCEPT !.state = "Overdue"] \in ActiveTicket
        BY <2>1 DEF ActiveTicket
      <4>3. [active[h] EXCEPT !.state = "Overdue"].key # 0
        BY <2>1, <4>1 DEF ActiveTicket
      <4> QED
        BY <3>1, <4>2, <4>3 DEF ShopSets
    <3>2. CASE ShopSets(h, [active[h] EXCEPT !.state = "Waiting", !.key = 0])
      <4> DEFINE row == WithRow(active[h], "Waiting", 0)
      <4>1. 0 \in 0..MaxKeys
        BY CustomerAssumption
      <4>2. active' = [active EXCEPT ![h] = row]
        BY <3>2 DEF ShopSets, WithRow
      <4>3. row \in ActiveTicket /\ row.state = "Waiting"
        BY <2>1, <4>1, RowChanges
      <4> HIDE DEF row
      <4> QED
        BY <4>2, <4>3
    <3>3. CASE ShopSets(h, None)
      BY <3>3 DEF ShopSets
    <3> QED
      BY <1>2, <3>1, <3>2, <3>3 DEF ShopMoves
  <2>3. UNCHANGED << issued, called >>
    BY <1>2 DEF ShopMoves, ShopSets
  <2> QED
    BY <2>2, <2>3 DEF PhoneInv, ShopTypes
<1>3. ASSUME ShopServesOthers
      PROVE  ShopTypes'
  BY <1>3 DEF ShopServesOthers, PhoneInv, ShopTypes
<1>4. tab' = Broadcast(tab) /\ UNCHANGED seen
  BY DEF ShopActs, ShopCalls, ShopMoves, ShopServesOthers, ShopSets
<1>5. ShopTypes'
  BY <1>1, <1>2, <1>3 DEF ShopActs
<1> QED
  BY <1>4, <1>5, Told, QuietStep DEF PhoneInv

LEMMA Replies ==
  ASSUME NEW w, Good(w), NEW n \in DOMAIN w.flight, NEW status \in Outcome,
         NEW row, Reply(w, n, status, row),
         row \in ShownTicket \cup {None}, row # None => Ringable(row),
         /\ status = "ok"
         /\ w.flight[n].kind \in Refresh \cup {"issue", "recover", "cancel", "reschedule"}
         => row # None
  PROVE  Good(tab') /\ (Chimes(w) => Chimes(tab'))
<1> DEFINE r == w.flight[n]
           q == WithReply(r, status, row)
<1>1. Sensible(r) /\ r \in Request
  BY DEF Good, Orderly, Sensible
<1>2. /\ q \in Request /\ q.status = status /\ q.row = row
      /\ q.kind = r.kind /\ q.handle = r.handle
  BY <1>1 DEF Request, WithReply
<1> HIDE DEF q
<1>3. Sensible(q)
  BY <1>1, <1>2 DEF Sensible, Ringable
<1> DEFINE v == Replied(w, n, status, row)
<1>4. /\ Orderly(v) /\ v.pages = w.pages /\ v.mounted = w.mounted
      /\ v.playing = w.playing
  <2>1. Sensible(WithReply(w.flight[n], status, row))
    BY <1>3 DEF q
  <2> QED
    BY <2>1, ReplyKeeps DEF Good
<1>5. tab' = v
  BY DEF Reply, Replied
<1> HIDE DEF v
<1> QED
  BY <1>4, <1>5 DEF Good, Fits, Chimes


\* Standing is a predicate of a browser, the next one's as well.
LEMMA StandingPrimed ==
  ASSUME Standing(tab')
  PROVE  Standing(tab)'
BY DEF Standing, Orderly, OrderlyPage, Sensible, Belongs, OneBoot, Good, Fits, Tab

\* The shop answers request n, for the mounted page or one that was left.
LEMMA AnswerKeeps ==
  ASSUME PhoneInv, NEW n, Answer(n)
  PROVE  PhoneInv'
<1> DEFINE r == tab.flight[n]
           told == Broadcast(tab)
           Kept == ShopTypes' /\ Good(tab') /\ (Chimes(tab) => Chimes(tab'))
<1>1. /\ n \in DOMAIN tab.flight /\ Good(tab) /\ tab \in Tab
      /\ Sensible(r) /\ r.kind \in Kind
  BY StandingFacts DEF Answer, PhoneInv, Good, Orderly, Sensible, Request
<1>2. r.kind # "shopState" => r.handle \in Handles
  BY <1>1 DEF Sensible
<1>3. /\ Good(told) /\ (Chimes(tab) => Chimes(told))
      /\ n \in DOMAIN told.flight /\ told.flight[n] = r
  BY <1>1, BroadcastKeeps, TouchKeeps DEF Touched, Good
<1> HIDE DEF told
<1>4. /\ "ok" \in Outcome /\ "TicketNotFound" \in Outcome /\ "refused" \in Outcome
      /\ None \in ShownTicket \cup {None}
  BY DEF Outcome
<1>5. ASSUME NEW w, Good(w), n \in DOMAIN w.flight, Chimes(tab) => Chimes(w),
             NEW status \in Outcome, Reply(w, n, status, None),
             /\ status = "ok"
             /\ w.flight[n].kind \in Refresh \cup {"issue", "recover", "cancel", "reschedule"}
             => FALSE
      PROVE  Good(tab') /\ (Chimes(tab) => Chimes(tab'))
  BY <1>4, <1>5, Replies
<1>6. ASSUME NEW h \in Handles, active[h] # None
      PROVE  /\ active[h] \in ActiveTicket /\ active[h] \in ShownTicket
             /\ active[h] # None /\ Ringable(active[h])
  BY <1>6, RowsAreShown DEF PhoneInv, ShopTypes, Ringable
<1>7. ASSUME NEW w, Good(w), n \in DOMAIN w.flight, Chimes(tab) => Chimes(w),
             NEW row \in ShownTicket, Ringable(row), Reply(w, n, "ok", row)
      PROVE  Good(tab') /\ (Chimes(tab) => Chimes(tab'))
  <2>1. row \in ShownTicket \cup {None} /\ row # None
    BY <1>7, NoPageAssumption
  <2> QED
    BY <1>4, <1>7, <2>1, Replies
<1>8. ASSUME AnswerTicket(n, r)
      PROVE  Kept
  <2>1. r.handle \in Handles /\ ShopTypes'
    BY <1>2, <1>8 DEF AnswerTicket, Refresh, PhoneInv, ShopTypes, Answer
  <2>2. CASE active[r.handle] = None
    BY <1>1, <1>4, <1>5, <1>8, <2>1, <2>2 DEF AnswerTicket
  <2>3. CASE active[r.handle] # None
    BY <1>1, <1>6, <1>7, <1>8, <2>1, <2>3 DEF AnswerTicket
  <2> QED
    BY <2>1, <2>2, <2>3
<1>9. ASSUME AnswerIssue(n, r)
      PROVE  Kept
  <2>1. r.handle \in Handles
    BY <1>2, <1>9 DEF AnswerIssue
  <2>2. CASE active[r.handle] # None
    <3>1. ShopTypes'
      BY <1>9, <2>2 DEF AnswerIssue, PhoneInv, ShopTypes, Answer
    <3> QED
      BY <1>1, <1>6, <1>7, <1>9, <2>1, <2>2, <3>1 DEF AnswerIssue
  <2>3. CASE active[r.handle] = None
    <3> DEFINE row == [id |-> issued + 1, state |-> "Waiting", key |-> 0]
    <3>1. issued + 1 \in 1..MaxTickets /\ 0 \in 0..MaxKeys
      BY <1>9, <2>3, CustomerAssumption DEF AnswerIssue, PhoneInv, ShopTypes
    <3>2. row \in ActiveTicket /\ row.state = "Waiting"
      BY <3>1 DEF ActiveTicket
    <3>3. /\ active' = [active EXCEPT ![r.handle] = row] /\ issued' = issued + 1
          /\ called' = called /\ Reply(told, n, "ok", active'[r.handle])
      BY <1>9, <2>3 DEF AnswerIssue, Answer, told
    <3> HIDE DEF row
    <3>4. active'[r.handle] = row
      BY <2>1, <3>3 DEF PhoneInv, ShopTypes
    <3>5. Ringable(row)
      BY <3>2, RowsAreShown DEF Ringable
    <3>6. row \in ShownTicket
      BY <3>2, RowsAreShown
    <3>7. Good(tab') /\ (Chimes(tab) => Chimes(tab'))
      BY <1>3, <1>7, <3>3, <3>4, <3>5, <3>6
    <3>8. ShopTypes'
      BY <2>1, <3>1, <3>2, <3>3, CustomerAssumption DEF PhoneInv, ShopTypes
    <3> QED
      BY <3>7, <3>8
  <2> QED
    BY <2>2, <2>3
<1>10. ASSUME AnswerCancel(n, r)
      PROVE  Kept
  <2>1. r.handle \in Handles /\ active[r.handle] # None
    BY <1>2, <1>10 DEF AnswerCancel, Names
  <2> DEFINE row == [active[r.handle] EXCEPT !.state = "Cancelled", !.key = 0]
  <2>2. row \in ShownTicket /\ row.state = "Cancelled"
    <3>1. 0 \in 0..MaxKeys /\ active[r.handle] \in ShownTicket
      BY <1>6, <2>1, CustomerAssumption
    <3> QED
      BY <3>1 DEF ShownTicket
  <2>3. /\ active' = [active EXCEPT ![r.handle] = None] /\ issued' = issued
        /\ called' = called /\ Reply(told, n, "ok", row)
    BY <1>10 DEF AnswerCancel, Answer, told
  <2> HIDE DEF row
  <2>4. Ringable(row)
    BY <2>2 DEF Ringable
  <2>5. Good(tab') /\ (Chimes(tab) => Chimes(tab'))
    BY <1>3, <1>7, <2>2, <2>3, <2>4
  <2>6. ShopTypes'
    BY <2>1, <2>3 DEF PhoneInv, ShopTypes
  <2> QED
    BY <2>5, <2>6
<1>11. ASSUME AnswerOperation(n, r)
      PROVE  Kept
  <2>1. r.handle \in Handles /\ active[r.handle] # None
    BY <1>2, <1>11 DEF AnswerOperation, Names
  <2>2. Reply(told, n, "ok", active[r.handle]) /\ ShopTypes'
    BY <1>11 DEF AnswerOperation, told, PhoneInv, ShopTypes, Answer
  <2> QED
    BY <1>3, <1>6, <1>7, <2>1, <2>2
<1>12. ASSUME Refuse(n, r)
      PROVE  Kept
  <2>1. Reply(tab, n, "refused", None) /\ ShopTypes'
    BY <1>12 DEF Refuse, PhoneInv, ShopTypes, Answer
  <2> QED
    BY <1>1, <1>4, <1>5, <2>1
<1>13. ASSUME r.kind = "shopState",
             Reply(tab, n, "ok", None),
             UNCHANGED << active, issued >>
      PROVE  Kept
  <2>1. ShopTypes'
    BY <1>13 DEF PhoneInv, ShopTypes, Answer
  <2>2. r.kind \notin Refresh \cup {"issue", "recover", "cancel", "reschedule"}
    BY <1>13 DEF Refresh
  <2> QED
    BY <1>1, <1>4, <1>5, <1>13, <2>1, <2>2
<1>14. Kept
  BY <1>8, <1>9, <1>10, <1>11, <1>12, <1>13 DEF Answer
<1>15. PICK odd \in SUBSET Oddity : Remember(odd)
  BY DEF Answer, Overtaking, Oddity
<1>16. tab' \in Tab
  BY <1>14 DEF Good, Orderly
<1>17. SeenTypes' /\ Rings'
  <2>1. Chimes(tab') => Chimes(tab)'
    BY DEF Chimes
  <2>2. (~tab.playing => Chimes(tab)) /\ (~tab'.playing => Chimes(tab'))
    BY DEF Chimes
  <2> QED
    BY <1>14, <1>15, <1>16, <2>1, <2>2, RememberKeeps DEF PhoneInv, Rings
<1> QED
  BY <1>14, <1>17, GoodStands, StandingPrimed DEF PhoneInv

LEMMA LoseKeeps ==
  ASSUME PhoneInv, NEW n, Lose(n)
  PROVE  PhoneInv'
<1>1. n \in DOMAIN tab.flight /\ Good(tab)
  BY StandingFacts DEF Lose, PhoneInv
<1>2. "NetworkError" \in Outcome /\ Reply(tab, n, "NetworkError", None)
  BY DEF Lose, Outcome
<1>3. Good(tab') /\ (Chimes(tab) => Chimes(tab'))
  BY <1>1, <1>2, Replies
<1>4. ShopTypes' /\ UNCHANGED seen
  BY DEF Lose, PhoneInv, ShopTypes
<1> QED
  BY <1>3, <1>4, GoodStands, QuietStep DEF PhoneInv

\* A step that calls the page in slot s back.
LEMMA CallsBack ==
  ASSUME PhoneInv, NEW s \in Slots, NEW v, Handled(tab, s, v), Become(v),
         NEW odd \in SUBSET Oddity, Remember(CalledBack(s) \cup odd),
         UNCHANGED << active, issued, called >>
  PROVE  PhoneInv'
<1>1. Good(tab') /\ (s = tab.mounted /\ Chimes(tab) => Chimes(tab'))
  BY BecomeKeeps DEF Handled
<1>2. tab' \in Tab
  BY <1>1 DEF Good, Orderly
<1>3. CalledBack(s) \cup odd \in SUBSET Oddity
  BY DEF CalledBack, Oddity
<1>4. /\ SeenTypes'
      /\ ~seen'.loose =>
           \/ ~tab'.playing
           \/ "ghost" \notin CalledBack(s) /\ (~tab.playing \/ ~seen.loose)
  BY <1>2, <1>3, RememberKeeps DEF PhoneInv
<1>5. Rings'
  <2>1. Chimes(tab') => Chimes(tab)'
    BY DEF Chimes
  <2>2. (~tab.playing => Chimes(tab)) /\ (~tab'.playing => Chimes(tab'))
    BY DEF Chimes
  <2> QED
    BY <1>1, <1>4, <2>1, <2>2 DEF PhoneInv, Rings, CalledBack
<1>6. ShopTypes'
  BY DEF PhoneInv, ShopTypes
<1> QED
  BY <1>1, <1>4, <1>5, <1>6, GoodStands, StandingPrimed DEF PhoneInv

LEMMA ReceiveKeeps ==
  ASSUME PhoneInv, NEW n, Receive(n)
  PROVE  PhoneInv'
<1> DEFINE r == tab.flight[n]
           w == [tab EXCEPT !.flight = RemoveAt(@, n)]
           s == r.page
           v == Answered(w, s, r)
           odd == Overtaking(DOMAIN tab.flight, n)
<1>1. n \in DOMAIN tab.flight /\ Good(tab)
  BY StandingFacts DEF Receive, PhoneInv
<1>2. /\ Good(w) /\ w.pages = tab.pages /\ w.mounted = tab.mounted
      /\ Chimes(tab) => Chimes(w)
      /\ r.kind \in Booter => BootsAlone(w, r.page)
  BY <1>1, TakeKeeps
<1>3. Become(v) /\ Remember(CalledBack(s) \cup odd) /\ UNCHANGED << active, issued, called >>
  BY DEF Receive
<1> HIDE DEF w
<1>4. Sensible(r) /\ Belongs(r, tab)
  BY <1>1 DEF Good, Orderly
<1>5. Taken(r, w)
  BY <1>2, <1>4 DEF Taken, Belongs
<1>6. s \in Slots
  BY <1>4 DEF Sensible, Request
<1>7. Handled(w, s, v)
  BY <1>2, <1>5, AnsweredHandled
<1> HIDE DEF v, s
<1>8. Handled(tab, s, v)
  BY <1>2, <1>7 DEF Handled
<1>9. odd \in SUBSET Oddity
  BY DEF Overtaking, Oddity
<1> HIDE DEF odd
<1> QED
  BY <1>3, <1>6, <1>8, <1>9, CallsBack

LEMMA FeedTypes ==
  ASSUME NEW f \in Feed
  PROVE  onopen(f) \in Feed /\ reconnect(f) \in Feed /\ onclose(f) \in Feed
<1>1. f.attempt \in 0..MaxAttempts /\ 0 \in 0..MaxAttempts
  BY FeedAssumption DEF Feed
<1>2. f.attempt < MaxAttempts => f.attempt + 1 \in 0..MaxAttempts
  BY <1>1, FeedAssumption
<1>3. ~(f.attempt >= MaxAttempts) => f.attempt < MaxAttempts
  BY <1>1, FeedAssumption
<1>4. onopen(f) \in Feed /\ reconnect(f) \in Feed
  BY <1>1 DEF Feed, onopen, reconnect
<1>5. onclose(f) \in Feed
  BY <1>2, <1>3 DEF Feed, onclose
<1> QED
  BY <1>4, <1>5

LEMMA FeedKeeps ==
  ASSUME PhoneInv, NEW s \in Slots,
         FeedOpens(s) \/ FeedRetries(s) \/ FeedDrops(s) \/ FeedDelivers(s)
  PROVE  PhoneInv'
<1> DEFINE p == tab.pages[s]
           w == [tab EXCEPT !.pages[s].feed = onmessage(@)]
<1>1. /\ p # None /\ Good(tab) /\ tab \in Tab /\ p \in Page
  BY StandingFacts DEF FeedOpens, FeedRetries, FeedDrops, FeedDelivers, PhoneInv, Tab
<1>2. p.feed \in Feed
  BY <1>1 DEF Page
<1>3. {} \in SUBSET Oddity /\ CalledBack(s) \cup {} = CalledBack(s)
  OBVIOUS
<1>4. ASSUME NEW f \in Feed, FeedAlive(f) => FeedAlive(p.feed), FeedStep(s, f)
      PROVE  PhoneInv'
  <2> DEFINE v == [tab EXCEPT !.pages[s].feed = f]
  <2>1. Touched(tab, v) /\ (Chimes(tab) => Chimes(v))
    BY <1>1, <1>4, FeedSet
  <2>2. Become(v) /\ Remember(CalledBack(s)) /\ UNCHANGED << active, issued, called >>
    BY <1>4 DEF FeedStep
  <2> HIDE DEF v
  <2>3. Handled(tab, s, v)
    BY <1>1, <2>1, TouchHandled
  <2> QED
    BY <1>3, <2>2, <2>3, CallsBack
<1>5. CASE FeedOpens(s)
  <2>1. /\ onopen(p.feed) \in Feed /\ FeedAlive(p.feed)
    BY <1>2, <1>5, FeedTypes DEF FeedOpens, Dialing, FeedAlive
  <2> QED
    BY <1>4, <1>5, <2>1 DEF FeedOpens
<1>6. CASE FeedRetries(s)
  <2>1. /\ reconnect(p.feed) \in Feed /\ FeedAlive(p.feed)
    BY <1>2, <1>6, FeedTypes DEF FeedRetries, FeedAlive
  <2> QED
    BY <1>4, <1>6, <2>1 DEF FeedRetries
<1>7. CASE FeedDrops(s)
  <2>1. /\ onclose(p.feed) \in Feed /\ FeedAlive(p.feed)
    BY <1>2, <1>7, FeedTypes DEF FeedDrops, Dialing, FeedAlive
  <2> QED
    BY <1>4, <1>7, <2>1 DEF FeedDrops
<1>8. CASE FeedDelivers(s)
  <2> DEFINE f == onmessage(p.feed)
             q == NewRequest(s, "refresh", p.stored.handle, None)
             v == IF p.route # "ticket" THEN w ELSE [w EXCEPT !.flight = Append(@, q)]
  <2>1. f \in Feed /\ (FeedAlive(f) => FeedAlive(p.feed))
    BY <1>2 DEF Feed, onmessage, FeedAlive
  <2>2. w = [tab EXCEPT !.pages[s].feed = f]
    BY <1>1 DEF Tab
  <2>3. /\ Become(v) /\ Remember(CalledBack(s)) /\ UNCHANGED << active, issued, called >>
    BY <1>8 DEF FeedDelivers
  <2> HIDE DEF w, f
  <2>4. Touched(tab, w) /\ (Chimes(tab) => Chimes(w))
    BY <1>1, <2>1, <2>2, FeedSet
  <2>5. Good(w)
    BY <1>1, <2>4, TouchKeeps DEF Good
  <2>6. CASE p.route # "ticket"
    <3>1. v = w
      BY <2>6
    <3> HIDE DEF v
    <3> QED
      BY <1>1, <1>3, <2>3, <2>4, <3>1, TouchHandled, CallsBack
  <2>7. CASE p.route = "ticket"
    <3>1. OrderlyPage(p)
      BY <1>1 DEF Good, Orderly
    <3>2. p.stored \in Stored
      BY <1>1, <2>7, <3>1 DEF OrderlyPage, Page
    <3>3. p.stored.handle \in Handles /\ "refresh" \in Kind
      BY <3>2 DEF Stored, Kind, Refresh
    <3>4. /\ w.pages[s] # None /\ w.pages[s].route = "ticket"
          /\ w.pages[s].stored = p.stored
      BY <1>1, <2>4, <2>7 DEF Touched, SamePage
    <3>5. v = [w EXCEPT !.flight = Append(@, q)]
      BY <2>7
    <3> HIDE DEF v, p
    <3>6. Sensible(q) /\ q.page = s /\ q.kind = "refresh" /\ q.handle = p.stored.handle
      BY <3>3 DEF NewRequest, Sensible, Request, Outcome, Refresh
    <3> HIDE DEF q
    <3>7. Belongs(q, w) /\ q.kind \notin Booter
      BY <3>4, <3>6 DEF Belongs, Booter
    <3>8. Good(v) /\ (Chimes(w) => Chimes(v))
      BY <2>5, <3>5, <3>6, <3>7, GoodSends
    <3>9. Handled(tab, s, v)
      BY <2>4, <3>8, GoodIsSound DEF Handled
    <3> QED
      BY <1>3, <2>3, <3>9, CallsBack
  <2> QED
    BY <2>6, <2>7
<1> QED
  BY <1>5, <1>6, <1>7, <1>8


-----------------------------------------------------------------------------
(* The theorems.                                                           *)

LEMMA PhoneStarts ==
  ASSUME PhoneInit
  PROVE  PhoneInv
<1>1. << >> \in Seq(Request) /\ [s \in Slots |-> None] \in [Slots -> Page \cup {None}]
  OBVIOUS
<1>2. /\ tab \in Tab /\ tab.mounted = None /\ tab.flight = << >> /\ ~tab.playing
      /\ \A s \in Slots : tab.pages[s] = None
  BY <1>1 DEF PhoneInit, Tab
<1>3. Standing(tab)
  BY <1>2 DEF Standing, Orderly, OneBoot
<1>4. ShopTypes /\ SeenTypes
  BY CustomerAssumption DEF PhoneInit, ShopTypes, SeenTypes
<1> QED
  BY <1>2, <1>3, <1>4 DEF PhoneInv, Rings, Chimes

LEMMA PhoneStep ==
  ASSUME PhoneInv, [PhoneNext]_phoneVars
  PROVE  PhoneInv'
<1>1. CASE CustomerActs
  <2>1. \/ \/ \E h \in Handles : SubmitIssue(h) \/ SubmitRecover(h)
           \/ \E op \in Operations : Operate(op)
           \/ Retry
        \/ (\E op \in Operations : OpenDialog(op)) \/ CloseDialog
        \/ \/ \E route \in Route :
                Navigate(route) \/ \E expired \in BOOLEAN : Open(route, expired)
           \/ Close
        \/ Acknowledge
    BY <1>1 DEF CustomerActs
  <2> QED
    BY <2>1, Sent, Asked, Moved, Silenced
<1>2. CASE ShopActs
  BY <1>2, ShopKeeps
<1>3. CASE ChimeTimeout
  BY <1>3, Silenced
<1>4. CASE \E n \in 1..MaxFlight : Answer(n) \/ Lose(n) \/ Receive(n)
  BY <1>4, AnswerKeeps, LoseKeeps, ReceiveKeeps
<1>5. CASE \E s \in Slots : FeedOpens(s) \/ FeedRetries(s) \/ FeedDrops(s) \/ FeedDelivers(s)
  BY <1>5, FeedKeeps
<1>6. CASE UNCHANGED phoneVars
  <2>1. UNCHANGED << active, issued, called, tab, seen >>
    BY <1>6 DEF phoneVars
  <2>2. Standing(tab') /\ (Chimes(tab) => Chimes(tab')) /\ ShopTypes'
    BY <2>1 DEF PhoneInv, ShopTypes
  <2> QED
    BY <2>1, <2>2, QuietStep DEF PhoneInv
<1> QED
  BY <1>1, <1>2, <1>3, <1>4, <1>5, <1>6 DEF PhoneNext

LEMMA PhoneAlways == PhoneSpec => []PhoneInv
<1>1. PhoneInit => PhoneInv
  BY PhoneStarts
<1>2. PhoneInv /\ [PhoneNext]_phoneVars => PhoneInv'
  BY PhoneStep
<1> QED
  BY <1>1, <1>2, PTL DEF PhoneSpec

\* Type correctness; only the mounted page is not destroyed, and only a page
\* with a cached ticket is a ticket page.
THEOREM PhoneTypeCorrect == PhoneSpec => []PhoneTypeOK
<1>1. PhoneInv => PhoneTypeOK
  <2> SUFFICES ASSUME PhoneInv PROVE PhoneTypeOK
    OBVIOUS
  <2>1. tab \in Tab /\ Orderly(tab)
    BY DEF PhoneInv, Standing, Orderly
  <2>2. ASSUME NEW s \in Slots, tab.pages[s] # None
        PROVE  tab.pages[s].left = "no" <=> s = tab.mounted
    <3>1. Good(tab)
      BY <2>2, StandingFacts DEF PhoneInv
    <3> QED
      BY <2>1, <2>2, <3>1 DEF Orderly, Good, Fits
  <2>3. ASSUME tab.mounted # None
        PROVE  Here # None /\ (Here.route = "ticket" <=> Here.stored # None)
    <3>1. Good(tab) /\ tab.mounted \in Slots
      BY <2>1, <2>3 DEF PhoneInv, Standing, Tab
    <3> QED
      BY <2>1, <3>1 DEF Orderly, OrderlyPage, Good, Here
  <2> QED
    BY <2>1, <2>2, <2>3 DEF PhoneInv, ShopTypes, SeenTypes, PhoneTypeOK
<1> QED
  BY <1>1, PhoneAlways, PTL

\* However many connections are lost and pages left, only a page left during
\* its boot or between two sockets leaves a live feed behind.
THEOREM FeedsDieWithPages == PhoneSpec => []FeedDiesWithPage
<1>1. PhoneInv => FeedDiesWithPage
  <2> SUFFICES ASSUME PhoneInv, NEW s \in Slots, tab.pages[s] # None,
                      s # tab.mounted, FeedAlive(tab.pages[s].feed)
               PROVE  tab.pages[s].left \in {"booting", "delay"}
    BY DEF FeedDiesWithPage
  <2>1. tab.pages[s] \in Page /\ OrderlyPage(tab.pages[s]) /\ tab.pages[s].left # "no"
    BY DEF PhoneInv, Standing, Orderly, Tab
  <2> QED
    BY <2>1 DEF OrderlyPage, Page
<1> QED
  BY <1>1, PhoneAlways, PTL

\* However answers are delayed and reordered, the chime loops only over a
\* ticket page that shows the button to silence it, or over the customer's own
\* cancellation, where the code shows none, or while a page that was left has
\* had a hand in that ringing; the next ringing is controlled again.
THEOREM ChimeIsControlled == PhoneSpec => []ChimeControlled
<1>1. PhoneInv => ChimeControlled
  BY DEF PhoneInv, Rings, Chimes, ChimeControlled, AcknowledgeShown, On, Here
<1> QED
  BY <1>1, PhoneAlways, PTL

-----------------------------------------------------------------------------
(* What the device believes of the shop's tickets.                         *)

\* The ticket is not the active one of the handle.
NotActive(a, h, id) == a[h] # None => a[h].id # id

\* An answer that will cost the device its ticket, and one that is about one.
Missing(q) == q.kind \in Refresh /\ q.status = "TicketNotFound"
Bringing(q) == q.kind \in Refresh \cup {"issue", "recover"}

\* Only issued ids are in hand.
Issued(w, a, i) ==
  /\ \A h \in Handles : a[h] # None => a[h].id <= i
  /\ w.cache # None => w.cache.id <= i
  /\ \A n \in DOMAIN w.flight :
       w.flight[n].status = "ok" /\ w.flight[n].row # None => w.flight[n].row.id <= i

\* When the shop answered that a handle has no ticket, every older request was
\* answered, and neither the cache nor those answers name a ticket that the
\* handle has now: what it has was issued since.
Missed(w, a) ==
  \A n \in DOMAIN w.flight : Missing(w.flight[n]) =>
    LET h == w.flight[n].handle
    IN  /\ w.cache # None /\ w.cache.handle = h => NotActive(a, h, w.cache.id)
        /\ \A m \in DOMAIN w.flight : m < n /\ Bringing(w.flight[m]) =>
             /\ w.flight[m].status # "sent"
             /\ w.flight[m].status = "ok" /\ w.flight[m].handle = h
                  => NotActive(a, h, w.flight[m].row.id)

Held(w, a, i, odd) == Issued(w, a, i) /\ (odd = {} => Sits(w) /\ Missed(w, a))

ForgetInv == PhoneInv /\ Held(tab, active, issued, seen.odd)

\* A new request, or none left, and the cache kept or forgotten.
LEMMA GrowHolds ==
  ASSUME NEW w \in Tab, NEW v, Grew(w.flight, v.flight), v.cache \in {w.cache, None},
         NEW a, NEW i
  PROVE  /\ Issued(w, a, i) => Issued(v, a, i)
         /\ Missed(w, a) => Missed(v, a)
<1> DEFINE f == w.flight
           g == v.flight
<1>1. f \in Seq(Request) /\ Len(f) \in Nat /\ DOMAIN f = 1..Len(f)
  BY DEF Tab
<1>2. ASSUME NEW n \in DOMAIN g, g[n].status # "sent",
             NEW m \in DOMAIN g, m <= n
      PROVE  m \in DOMAIN f /\ g[m] = f[m]
  <2>1. CASE g = f
    BY <2>1
  <2>2. CASE g = << >>
    BY <2>2
  <2>3. CASE \E q \in Request : q.status = "sent" /\ g = Append(f, q)
    <3>1. PICK q \in Request : q.status = "sent" /\ g = Append(f, q)
      BY <2>3
    <3> HIDE DEF f, g
    <3>2. /\ DOMAIN g = 1..(Len(f) + 1) /\ g[Len(f) + 1] = q
          /\ \A k \in 1..Len(f) : g[k] = f[k]
      BY <1>1, <3>1, AppendProperties
    <3>3. n # Len(f) + 1
      BY <1>2, <3>1, <3>2
    <3> QED
      BY <1>1, <1>2, <3>2, <3>3
  <2> QED
    BY <2>1, <2>2, <2>3 DEF Grew
<1>3. g = << >> \/ (\A n \in DOMAIN g : n \in Nat)
  <2>1. CASE \E q \in Request : q.status = "sent" /\ g = Append(f, q)
    BY <1>1, <2>1, AppendProperties
  <2> QED
    BY <1>1, <2>1 DEF Grew
<1>4. \A n \in DOMAIN g : n <= n
  BY <1>3
<1>5. \A m, n \in DOMAIN g : m < n => m <= n
  BY <1>3
<1> HIDE DEF f, g
<1>6. ASSUME Issued(w, a, i) PROVE Issued(v, a, i)
  BY <1>2, <1>4, <1>6 DEF Issued, f, g
<1>7. ASSUME Missed(w, a) PROVE Missed(v, a)
  <2> SUFFICES ASSUME NEW n \in DOMAIN g, Missing(g[n])
               PROVE  LET h == g[n].handle
                      IN  /\ v.cache # None /\ v.cache.handle = h => NotActive(a, h, v.cache.id)
                          /\ \A m \in DOMAIN g : m < n /\ Bringing(g[m]) =>
                               /\ g[m].status # "sent"
                               /\ g[m].status = "ok" /\ g[m].handle = h
                                    => NotActive(a, h, g[m].row.id)
    BY DEF Missed, g
  <2>1. g[n].status # "sent"
    BY DEF Missing
  <2>2. n \in DOMAIN f /\ g[n] = f[n] /\ Missing(f[n])
    BY <1>2, <1>4, <2>1
  <2>3. \A m \in DOMAIN g : m < n => m \in DOMAIN f /\ g[m] = f[m]
    BY <1>2, <1>5, <2>1
  <2> QED
    BY <1>7, <2>2, <2>3 DEF Missed, f
<1> QED
  BY <1>6, <1>7

\* The shop's tickets are the ones they were, gone, or new.
LEMMA ShopHolds ==
  ASSUME NEW w, Orderly(w), NEW a, NEW b, NEW i \in Nat, NEW j \in Nat, i <= j,
         Issued(w, a, i),
         \A h \in Handles : b[h] # None =>
           \/ a[h] # None /\ b[h].id = a[h].id
           \/ b[h].id \in Nat /\ b[h].id > i /\ b[h].id <= j,
         \A h \in Handles : a[h] # None => a[h].id \in Nat
  PROVE  Issued(w, b, j) /\ (Missed(w, a) => Missed(w, b))
<1>1. /\ w.cache # None => w.cache.id \in Nat /\ w.cache.id <= i
      /\ \A n \in DOMAIN w.flight :
           w.flight[n].status = "ok" /\ w.flight[n].row # None =>
             w.flight[n].row.id \in Nat /\ w.flight[n].row.id <= i
  <2>1. w.cache # None => w.cache \in Stored
    BY DEF Orderly, Tab
  <2>2. \A n \in DOMAIN w.flight : w.flight[n].row # None => w.flight[n].row \in ShownTicket
    BY DEF Orderly, Sensible, Request
  <2> QED
    BY <2>1, <2>2 DEF Issued, Stored, ShownTicket
<1>2. Issued(w, b, j)
  BY <1>1 DEF Issued
<1>3. ASSUME NEW h \in Handles, NEW id \in Nat, id <= i, NotActive(a, h, id)
      PROVE  NotActive(b, h, id)
  BY <1>3 DEF NotActive
<1>4. ASSUME Missed(w, a) PROVE Missed(w, b)
  <2> SUFFICES ASSUME NEW n \in DOMAIN w.flight, Missing(w.flight[n])
               PROVE  LET h == w.flight[n].handle
                      IN  /\ w.cache # None /\ w.cache.handle = h => NotActive(b, h, w.cache.id)
                          /\ \A m \in DOMAIN w.flight : m < n /\ Bringing(w.flight[m]) =>
                               /\ w.flight[m].status # "sent"
                               /\ w.flight[m].status = "ok" /\ w.flight[m].handle = h
                                    => NotActive(b, h, w.flight[m].row.id)
    BY DEF Missed
  <2>1. w.flight[n].handle \in Handles
    BY DEF Missing, Refresh, Orderly, Sensible
  <2>2. \A m \in DOMAIN w.flight :
          Bringing(w.flight[m]) /\ w.flight[m].status = "ok" => w.flight[m].row # None
    BY DEF Bringing, Orderly, Sensible
  <2> QED
    BY <1>1, <1>3, <1>4, <2>1, <2>2 DEF Missed
<1> QED
  BY <1>2, <1>4

\* Request n is answered or lost.
LEMMA ReplyHolds ==
  ASSUME NEW w, Orderly(w), NEW n \in DOMAIN w.flight, NEW a, NEW i,
         NEW status \in Outcome \ {"sent"}, NEW row \in ShownTicket \cup {None},
         Issued(w, a, i), status = "ok" /\ row # None => row.id <= i
  PROVE  LET v == Replied(w, n, status, row)
             r == w.flight[n]
         IN  /\ Issued(v, a, i)
             /\ Sits(w) => Sits(v)
             /\ /\ Missed(w, a)
                /\ status = "ok" => r.status = "sent"
                /\ status = "TicketNotFound" /\ r.kind \in Refresh =>
                     /\ a[r.handle] = None
                     /\ \A m \in DOMAIN w.flight :
                          m < n /\ Bringing(w.flight[m]) => w.flight[m].status # "sent"
                => Missed(v, a)
<1> DEFINE r == w.flight[n]
           q == WithReply(r, status, row)
           F == [w.flight EXCEPT ![n] = q]
           v == Replied(w, n, status, row)
<1>1. w \in Tab /\ w.flight \in Seq(Request) /\ r \in Request
  BY DEF Orderly, Tab, Sensible
<1>2. /\ q \in Request /\ q.kind = r.kind /\ q.handle = r.handle
      /\ q.status = status /\ q.row = row
  BY <1>1 DEF Request, WithReply
<1>3. v = [w EXCEPT !.flight = F]
  BY <1>1 DEF Tab, Request, Replied, WithReply
<1> HIDE DEF q
<1>4. /\ F \in Seq(Request) /\ DOMAIN F = DOMAIN w.flight /\ F[n] = q
      /\ \A m \in DOMAIN w.flight : m # n => F[m] = w.flight[m]
      /\ DOMAIN w.flight \subseteq Nat
  BY <1>1, <1>2
<1> HIDE DEF F, v
<1>5. v.flight = F /\ v.cache = w.cache /\ v.pages = w.pages /\ v.mounted = w.mounted
  BY <1>1, <1>3, <1>4 DEF Tab
<1>6. Issued(v, a, i)
  BY <1>2, <1>4, <1>5 DEF Issued
<1>7. Sits(w) => Sits(v)
  BY <1>5 DEF Sits
<1>8. ASSUME Missed(w, a), status = "ok" => r.status = "sent",
             status = "TicketNotFound" /\ r.kind \in Refresh =>
               /\ a[r.handle] = None
               /\ \A m \in DOMAIN w.flight :
                    m < n /\ Bringing(w.flight[m]) => w.flight[m].status # "sent"
      PROVE  Missed(v, a)
  <2> SUFFICES ASSUME NEW k \in DOMAIN F, Missing(F[k])
               PROVE  LET h == F[k].handle
                      IN  /\ w.cache # None /\ w.cache.handle = h => NotActive(a, h, w.cache.id)
                          /\ \A m \in DOMAIN F : m < k /\ Bringing(F[m]) =>
                               /\ F[m].status # "sent"
                               /\ F[m].status = "ok" /\ F[m].handle = h
                                    => NotActive(a, h, F[m].row.id)
    BY <1>5 DEF Missed
  <2>1. CASE k = n
    <3>1. a[F[k].handle] = None
      BY <1>2, <1>4, <1>8, <2>1 DEF Missing
    <3>2. \A m \in DOMAIN F : m < k /\ Bringing(F[m]) => F[m].status # "sent"
      BY <1>2, <1>4, <1>8, <2>1 DEF Missing
    <3> QED
      BY <3>1, <3>2 DEF NotActive
  <2>2. CASE k # n
    <3>1. F[k] = w.flight[k] /\ Missing(w.flight[k]) /\ k \in DOMAIN w.flight
      BY <1>4, <2>2
    <3>2. ASSUME NEW m \in DOMAIN F, m < k, Bringing(F[m])
          PROVE  /\ F[m].status # "sent"
                 /\ F[m].status = "ok" /\ F[m].handle = F[k].handle
                      => NotActive(a, F[k].handle, F[m].row.id)
      <4>1. CASE m # n
        BY <1>4, <1>8, <3>1, <3>2, <4>1 DEF Missed
      <4>2. CASE m = n
        <5>1. Bringing(r) /\ F[m] = q
          BY <1>2, <1>4, <3>2, <4>2 DEF Bringing
        <5>2. r.status # "sent"
          BY <1>4, <1>8, <3>1, <3>2, <4>2, <5>1 DEF Missed
        <5> QED
          BY <1>2, <1>8, <5>1, <5>2
      <4> QED
        BY <4>1, <4>2
    <3> QED
      BY <1>8, <3>1, <3>2 DEF Missed
  <2> QED
    BY <2>1, <2>2
<1> QED
  BY <1>6, <1>7, <1>8 DEF v

\* A step that asks nothing of the shop: the cache is kept or forgotten, and a
\* request is sent or not.
Drift(v) ==
  /\ v.cache \in {tab.cache, None}
  /\ Grew(tab.flight, v.flight)
  /\ Sits(tab) => Sits(v)

LEMMA DriftHolds ==
  ASSUME ForgetInv, Drift(tab'), UNCHANGED << active, issued >>, seen.odd \subseteq seen'.odd
  PROVE  Held(tab', active', issued', seen'.odd)
<1>1. tab \in Tab
  BY DEF ForgetInv, PhoneInv, Standing, Orderly
<1>2. /\ Issued(tab, active, issued) => Issued(tab', active, issued)
      /\ Missed(tab, active) => Missed(tab', active)
  BY <1>1, GrowHolds DEF Drift
<1>3. seen'.odd = {} => seen.odd = {}
  OBVIOUS
<1> QED
  BY <1>2, <1>3 DEF ForgetInv, Held, Drift

LEMMA BecomeDrifts ==
  ASSUME NEW v \in Tab, Become(v), Drift(v)
  PROVE  Drift(tab')
<1> DEFINE P == [s \in Slots |->
                  IF /\ v.pages[s] # None /\ v.pages[s].left # "no"
                     /\ ~Callable(v.pages[s], s, v.flight)
                  THEN None ELSE v.pages[s]]
<1>1. tab' = [v EXCEPT !.pages = P] /\ v.pages[v.mounted].left = "no"
  BY DEF Become, Collect
<1>2. v.mounted # None => v.mounted \in Slots /\ P[v.mounted] = v.pages[v.mounted]
  BY <1>1 DEF Tab
<1> HIDE DEF P
<1>3. /\ tab'.cache = v.cache /\ tab'.flight = v.flight /\ tab'.mounted = v.mounted
      /\ tab'.pages = P
  BY <1>1 DEF Tab
<1>4. Sits(v) => Sits(tab')
  BY <1>2, <1>3 DEF Sits
<1> QED
  BY <1>3, <1>4 DEF Drift

LEMMA TouchDrifts ==
  ASSUME tab \in Tab, NEW v, Touched(tab, v), v.cache = tab.cache
  PROVE  Drift(v) /\ v \in Tab
BY TouchSits DEF Drift, Grew, Touched

LEMMA SendDrifts ==
  ASSUME NEW w \in Tab, w.cache = tab.cache, w.flight = tab.flight, Sits(tab) => Sits(w),
         NEW q \in Request, q.status = "sent"
  PROVE  LET v == [w EXCEPT !.flight = Append(@, q)]
         IN  v \in Tab /\ Drift(v)
<1> DEFINE v == [w EXCEPT !.flight = Append(@, q)]
<1>1. Append(w.flight, q) \in Seq(Request)
  BY AppendProperties DEF Tab
<1>2. /\ v \in Tab /\ v.cache = w.cache /\ v.pages = w.pages /\ v.mounted = w.mounted
      /\ v.flight = Append(w.flight, q)
  BY <1>1 DEF Tab
<1> HIDE DEF v
<1>3. Sits(w) => Sits(v)
  BY <1>2 DEF Sits
<1> QED
  BY <1>2, <1>3 DEF Drift, Grew, v

LEMMA CustomerDrifts ==
  ASSUME PhoneInv, CustomerActs
  PROVE  Drift(tab') /\ UNCHANGED << active, issued, seen >>
<1>1. UNCHANGED << active, issued, seen >>
  BY DEF CustomerActs, SubmitIssue, SubmitRecover, Operate, Retry, Send, OpenDialog,
         CloseDialog, SetDialog, Navigate, Open, Close, Acknowledge
<1>2. tab \in Tab
  BY DEF PhoneInv, Standing, Orderly
<1>3. ASSUME NEW q \in Request, q.status = "sent",
             Become([tab EXCEPT !.flight = Append(@, q)])
      PROVE  Drift(tab')
  BY <1>2, <1>3, SendDrifts, BecomeDrifts
<1>4. ASSUME NEW kind \in Kind, NEW handle \in Handles, NEW id \in (1..MaxTickets) \cup {None},
             tab.mounted \in Slots
      PROVE  LET q == NewRequest(tab.mounted, kind, handle, id)
             IN  q \in Request /\ q.status = "sent"
  BY <1>4 DEF NewRequest, Request, Outcome
<1>5. ASSUME NEW h \in Handles, SubmitIssue(h) \/ SubmitRecover(h)
      PROVE  Drift(tab')
  <2>1. PICK kind \in {"issue", "recover"} : On(kind) /\ Send(kind, h, None)
    BY <1>5 DEF SubmitIssue, SubmitRecover
  <2>2. tab.mounted \in Slots /\ kind \in Kind
    BY <2>1, OnFacts DEF Kind
  <2> QED
    BY <1>3, <1>4, <2>1, <2>2 DEF Send
<1>6. ASSUME On("ticket")
      PROVE  /\ tab.mounted \in Slots
             /\ Here.stored.handle \in Handles
             /\ Here.stored.id \in (1..MaxTickets) \cup {None}
  BY <1>6, OnFacts DEF Stored
<1>7. ASSUME NEW op \in Operations, Operate(op)
      PROVE  Drift(tab')
  <2>1. op \in Kind
    BY OperationAssumption DEF Kind
  <2> QED
    BY <1>3, <1>4, <1>6, <1>7, <2>1 DEF Operate, AtPage, Send
<1>8. ASSUME Retry PROVE Drift(tab')
  <2>1. "refresh" \in Kind
    BY DEF Kind, Refresh
  <2> QED
    BY <1>3, <1>4, <1>6, <1>8, <2>1 DEF Retry, AtPage
<1>9. ASSUME NEW route \in Route, Navigate(route) PROVE Drift(tab')
  <2>1. Good(tab) /\ Become(goto(tab, route))
    BY <1>9 DEF Navigate, PhoneInv, Standing
  <2>2. goto(tab, route) \in Tab /\ Drift(goto(tab, route))
    BY <2>1, GotoKeeps DEF Drift, Sound, Orderly
  <2> QED
    BY <2>1, <2>2, BecomeDrifts
<1>10. ASSUME NEW route \in Route, NEW expired \in BOOLEAN, Open(route, expired)
       PROVE  Drift(tab')
  <2> DEFINE c == IF expired THEN None ELSE tab.cache
             u == [tab EXCEPT !.cache = c]
  <2>1. tab.mounted = None /\ (\A s \in Slots : tab.pages[s] = None)
    BY <1>10 DEF PhoneInv, Standing, Open
  <2>2. tab' = onMount(u, route)
    BY <1>2, <1>10 DEF Open, Tab
  <2>3. c \in Stored \cup {None} /\ c \in {tab.cache, None}
    BY <1>2 DEF Tab
  <2> HIDE DEF c
  <2>4. Touched(tab, u) /\ u.pages = tab.pages /\ u.cache = c
    BY <1>2, <2>3, Caches DEF Tab
  <2> HIDE DEF u
  <2>5. Orderly(u) /\ AllLeft(u) /\ u.mounted = None /\ u.flight = tab.flight
    BY <2>1, <2>4, TouchKeeps DEF PhoneInv, Standing, AllLeft, Touched
  <2>6. tab'.cache = u.cache /\ Grew(u.flight, tab'.flight) /\ (Sits(u) => Sits(tab'))
    BY <2>1, <2>2, <2>4, <2>5, OnMountKeeps
  <2> QED
    BY <2>3, <2>4, <2>5, <2>6 DEF Drift, Sits
<1>11. ASSUME Close PROVE Drift(tab')
  BY <1>2, <1>11 DEF Close, Tab, Drift, Grew, Sits
<1>12. ASSUME Acknowledge PROVE Drift(tab')
  <2>1. tab.pages[tab.mounted] # None
    BY <1>12, OnFacts DEF Acknowledge, AtPage, Here
  <2> QED
    BY <1>2, <1>12, <2>1, ChimeStops, TouchDrifts DEF Acknowledge
<1>13. ASSUME (\E op \in Operations : OpenDialog(op)) \/ CloseDialog PROVE Drift(tab')
  <2>1. PICK d \in {"none", "cancel", "reschedule"} : On("ticket") /\ SetDialog(d)
    <3>1. \A op \in Operations : op # "checkIn" => op \in {"none", "cancel", "reschedule"}
      BY OperationAssumption DEF Operation
    <3> QED
      BY <1>13, <3>1 DEF OpenDialog, CloseDialog, AtPage
  <2>2. tab.mounted \in Slots /\ tab.pages[tab.mounted] # None
    BY <2>1, OnFacts DEF Here
  <2>3. tab' = [tab EXCEPT !.pages[tab.mounted].dialog = d]
    BY <2>1 DEF SetDialog
  <2> QED
    BY <1>2, <2>2, <2>3, DialogSet, TouchDrifts
<1> QED
  BY <1>1, <1>5, <1>7, <1>8, <1>9, <1>10, <1>11, <1>12, <1>13 DEF CustomerActs

LEMMA TimeoutDrifts ==
  ASSUME PhoneInv, ChimeTimeout
  PROVE  Drift(tab') /\ UNCHANGED << active, issued, seen >>
<1>1. tab \in Tab /\ (tab.mounted = None \/ tab.pages[tab.mounted] # None)
  BY DEF PhoneInv, Standing, Orderly, Good
<1> QED
  BY <1>1, ChimeStops, TouchDrifts DEF ChimeTimeout

LEMMA FeedDrifts ==
  ASSUME PhoneInv, NEW s \in Slots,
         FeedOpens(s) \/ FeedRetries(s) \/ FeedDrops(s) \/ FeedDelivers(s)
  PROVE  Drift(tab') /\ UNCHANGED << active, issued >> /\ seen.odd \subseteq seen'.odd
<1> DEFINE p == tab.pages[s]
           Set(f) == [tab EXCEPT !.pages[s].feed = f]
<1>1. p # None /\ tab \in Tab /\ p \in Page /\ p.feed \in Feed /\ OrderlyPage(p)
  BY StandingFacts
     DEF FeedOpens, FeedRetries, FeedDrops, FeedDelivers, PhoneInv, Standing, Orderly, Tab, Page
<1>2. ASSUME NEW f \in Feed, FeedAlive(f) => FeedAlive(p.feed)
      PROVE  Touched(tab, Set(f)) /\ Set(f).cache = tab.cache
  BY <1>1, <1>2, FeedSet DEF Tab
<1>3. ASSUME NEW f \in Feed, FeedAlive(f) => FeedAlive(p.feed), Become(Set(f))
      PROVE  Drift(tab')
  <2>1. Drift(Set(f)) /\ Set(f) \in Tab
    BY <1>1, <1>2, <1>3, TouchDrifts
  <2> QED
    BY <1>3, <2>1, BecomeDrifts
<1>4. UNCHANGED << active, issued >> /\ seen.odd \subseteq seen'.odd
  BY DEF FeedOpens, FeedRetries, FeedDrops, FeedDelivers, FeedStep, Remember
<1>5. ASSUME FeedOpens(s) \/ FeedRetries(s) \/ FeedDrops(s) PROVE Drift(tab')
  <2>1. PICK f \in {onopen(p.feed), reconnect(p.feed), onclose(p.feed)} :
               Become(Set(f)) /\ FeedAlive(p.feed)
    BY <1>5 DEF FeedOpens, FeedRetries, FeedDrops, FeedStep, Dialing, FeedAlive
  <2>2. f \in Feed
    BY <1>1, FeedTypes
  <2> QED
    BY <1>3, <2>1, <2>2
<1>6. ASSUME FeedDelivers(s) PROVE Drift(tab')
  <2> DEFINE f == onmessage(p.feed)
             q == NewRequest(s, "refresh", p.stored.handle, None)
  <2>1. f \in Feed /\ (FeedAlive(f) => FeedAlive(p.feed))
    BY <1>1 DEF Feed, onmessage, FeedAlive
  <2>2. Set(f) = [tab EXCEPT !.pages[s].feed = onmessage(@)]
    BY <1>1 DEF Tab
  <2>3. CASE p.route # "ticket"
    <3>1. Become(Set(f))
      BY <1>6, <2>2, <2>3 DEF FeedDelivers
    <3> HIDE DEF f, Set
    <3> QED
      BY <1>3, <2>1, <3>1
  <2>4. CASE p.route = "ticket"
    <3>1. Become([Set(f) EXCEPT !.flight = Append(@, q)])
      BY <1>6, <2>2, <2>4 DEF FeedDelivers
    <3>2. q \in Request /\ q.status = "sent"
      BY <1>1, <2>4 DEF OrderlyPage, Page, Stored, NewRequest, Request, Kind, Refresh, Outcome
    <3> HIDE DEF f, q, Set
    <3>3. /\ Set(f) \in Tab /\ Set(f).flight = tab.flight /\ Set(f).cache = tab.cache
          /\ Sits(tab) => Sits(Set(f))
      BY <1>1, <1>2, <2>1, TouchSits DEF Touched
    <3>4. /\ [Set(f) EXCEPT !.flight = Append(@, q)] \in Tab
          /\ Drift([Set(f) EXCEPT !.flight = Append(@, q)])
      BY <3>2, <3>3, SendDrifts
    <3> QED
      BY <3>1, <3>4, BecomeDrifts
  <2> QED
    BY <2>3, <2>4
<1> QED
  BY <1>4, <1>5, <1>6

LEMMA ShopActsHold ==
  ASSUME ForgetInv, ShopActs
  PROVE  Held(tab', active', issued', seen'.odd)
<1>1. tab' = Broadcast(tab) /\ UNCHANGED << issued, seen >>
  BY DEF ShopActs, ShopCalls, ShopMoves, ShopServesOthers, ShopSets
<1>2. /\ tab \in Tab /\ Orderly(tab) /\ issued \in Nat /\ issued <= issued
      /\ active \in [Handles -> ActiveTicket \cup {None}]
  BY CustomerAssumption DEF ForgetInv, PhoneInv, ShopTypes, Standing, Orderly
<1>3. \A h \in Handles : active[h] # None => active[h] \in ActiveTicket /\ active[h].id \in Nat
  BY <1>2 DEF ActiveTicket
<1>4. ASSUME NEW h \in Handles, ShopCalls(h) \/ ShopMoves(h), NEW k \in Handles,
             active'[k] # None
      PROVE  active[k] # None /\ active'[k].id = active[k].id
  <2>1. active[h] \in ActiveTicket /\ active[h] # None
    BY <1>3, <1>4 DEF ShopCalls, ShopMoves
  <2>2. PICK row : /\ active' = [active EXCEPT ![h] = row]
                   /\ row = None \/ row.id = active[h].id
    <3> DEFINE r == active[h]
               called1 == [r EXCEPT !.key = called + 1,
                             !.state = IF @ = "Waiting" THEN "Called" ELSE @]
               overdue == [r EXCEPT !.state = "Overdue"]
               waiting == [r EXCEPT !.state = "Waiting", !.key = 0]
    <3>1. called1.id = r.id /\ overdue.id = r.id /\ waiting.id = r.id
      BY <2>1 DEF ActiveTicket
    <3>2. \/ ShopSets(h, called1) \/ ShopSets(h, overdue)
          \/ ShopSets(h, waiting) \/ ShopSets(h, None)
      BY <1>4 DEF ShopCalls, ShopMoves
    <3> HIDE DEF r, called1, overdue, waiting
    <3>3. PICK row : ShopSets(h, row) /\ (row = None \/ row.id = r.id)
      BY <3>1, <3>2
    <3> QED
      BY <3>3 DEF ShopSets, r
  <2> QED
    BY <1>2, <1>4, <2>1, <2>2
<1>5. \A h \in Handles : active'[h] # None => active[h] # None /\ active'[h].id = active[h].id
  BY <1>4 DEF ShopActs, ShopServesOthers
<1>6. /\ Issued(tab, active', issued)
      /\ Missed(tab, active) => Missed(tab, active')
  BY <1>2, <1>3, <1>5, ShopHolds DEF ForgetInv, Held
<1>7. Drift(tab')
  <2>1. Touched(tab, Broadcast(tab)) /\ Broadcast(tab).cache = tab.cache
    BY <1>2, BroadcastKeeps DEF Broadcast, Tab
  <2> QED
    BY <1>1, <1>2, <2>1, TouchDrifts
<1>8. /\ Issued(tab', active', issued)
      /\ Missed(tab, active') => Missed(tab', active')
  BY <1>2, <1>6, <1>7, GrowHolds DEF Drift
<1> QED
  BY <1>1, <1>6, <1>7, <1>8 DEF ForgetInv, Held, Drift

\* Request n is answered by a browser that has been told of the change or not.
LEMMA AnswersHold ==
  ASSUME ForgetInv, NEW n \in DOMAIN tab.flight, NEW w \in {tab, Broadcast(tab)},
         NEW status \in Outcome \ {"sent"}, NEW row \in ShownTicket \cup {None},
         Reply(w, n, status, row),
         issued' \in Nat, issued <= issued',
         \A h \in Handles : active'[h] # None =>
           \/ active[h] # None /\ active'[h].id = active[h].id
           \/ active'[h].id \in Nat /\ active'[h].id > issued /\ active'[h].id <= issued',
         status = "ok" /\ row # None => row.id <= issued',
         seen.odd \subseteq seen'.odd,
         status = "ok" => tab.flight[n].status = "sent",
         seen'.odd = {} /\ status = "TicketNotFound" /\ tab.flight[n].kind \in Refresh =>
           /\ active'[tab.flight[n].handle] = None
           /\ \A m \in DOMAIN tab.flight :
                m < n /\ Bringing(tab.flight[m]) => tab.flight[m].status # "sent"
  PROVE  Held(tab', active', issued', seen'.odd)
<1>1. /\ tab \in Tab /\ Orderly(tab) /\ issued \in Nat
      /\ \A h \in Handles : active[h] # None => active[h].id \in Nat
  BY CustomerAssumption
     DEF ForgetInv, PhoneInv, ShopTypes, ActiveTicket, Standing, Orderly
<1>2. /\ Orderly(w) /\ w.flight = tab.flight /\ w \in Tab
      /\ w.cache = tab.cache /\ (Sits(tab) => Sits(w))
  <2>1. Touched(tab, Broadcast(tab)) /\ Broadcast(tab).cache = tab.cache
    BY <1>1, BroadcastKeeps DEF Broadcast, Tab
  <2>2. CASE w = tab
    BY <1>1, <2>2
  <2>3. CASE w = Broadcast(tab)
    BY <1>1, <2>1, <2>3, TouchKeeps, TouchSits DEF Touched
  <2> QED
    BY <2>2, <2>3
<1>3. /\ Issued(w, active, issued)
      /\ Missed(tab, active) => Missed(w, active)
  BY <1>1, <1>2, GrowHolds DEF Grew, ForgetInv, Held
<1>4. /\ Issued(w, active', issued')
      /\ Missed(w, active) => Missed(w, active')
  BY <1>1, <1>2, <1>3, ShopHolds
<1>5. tab' = Replied(w, n, status, row) /\ n \in DOMAIN w.flight
  BY <1>2 DEF Reply, Replied
<1>6. /\ Issued(tab', active', issued')
      /\ Sits(w) => Sits(tab')
      /\ seen'.odd = {} /\ Missed(w, active') => Missed(tab', active')
  BY <1>2, <1>4, <1>5, ReplyHolds
<1>7. seen'.odd = {} => seen.odd = {}
  OBVIOUS
<1> QED
  BY <1>2, <1>3, <1>4, <1>6, <1>7 DEF ForgetInv, Held

LEMMA AnswerHolds ==
  ASSUME ForgetInv, NEW n, Answer(n)
  PROVE  Held(tab', active', issued', seen'.odd)
<1> DEFINE r == tab.flight[n]
           told == Broadcast(tab)
           Same == \A h \in Handles : active'[h] # None =>
                     active[h] # None /\ active'[h].id = active[h].id
<1>1. /\ n \in DOMAIN tab.flight /\ tab \in Tab /\ Sensible(r)
      /\ r.status = "sent" /\ r.kind \in Kind
      /\ issued \in Nat /\ issued <= issued
      /\ active \in [Handles -> ActiveTicket \cup {None}]
  BY CustomerAssumption
     DEF Answer, ForgetInv, PhoneInv, ShopTypes, Standing, Orderly, Sensible, Request
<1>2. seen.odd \subseteq seen'.odd
  BY DEF Answer, Remember
<1>3. ASSUME seen'.odd = {}, Bringing(r)
      PROVE  \A m \in DOMAIN tab.flight :
               m < n /\ Bringing(tab.flight[m]) => tab.flight[m].status # "sent"
  BY <1>3 DEF Answer, Remember, Overtaking, Brings, Bringing
<1>4. {"ok", "TicketNotFound", "refused"} \subseteq Outcome \ {"sent"}
      /\ None \in ShownTicket \cup {None}
      /\ "ok" # "TicketNotFound" /\ "refused" # "TicketNotFound"
  BY DEF Outcome
<1>5. r.kind # "shopState" => r.handle \in Handles
  BY <1>1 DEF Sensible
<1>6. ASSUME NEW h \in Handles, active[h] # None
      PROVE  /\ active[h] \in ShownTicket /\ active[h].id <= issued /\ active[h].id \in Nat
             /\ active[h] \in ActiveTicket
  BY <1>1, <1>6, RowsAreShown DEF ActiveTicket, ForgetInv, Held, Issued
<1>7. ASSUME NEW w \in {tab, told}, NEW status \in {"ok", "refused"},
             NEW row \in ShownTicket \cup {None}, Reply(w, n, status, row), Same,
             UNCHANGED issued, row # None => row.id <= issued
      PROVE  Held(tab', active', issued', seen'.odd)
  BY <1>1, <1>2, <1>4, <1>7, AnswersHold
<1>8. UNCHANGED active => Same
  OBVIOUS
<1>9. CASE AnswerTicket(n, r)
  <2>1. r.handle \in Handles /\ UNCHANGED << active, issued >>
    BY <1>5, <1>9 DEF AnswerTicket, Refresh
  <2>2. CASE active[r.handle] = None
    <3>1. Reply(tab, n, "TicketNotFound", None)
      BY <1>9, <2>2 DEF AnswerTicket
    <3>2. Bringing(r)
      BY <1>9 DEF AnswerTicket, Bringing
    <3> QED
      BY <1>1, <1>2, <1>3, <1>4, <2>1, <2>2, <3>1, <3>2, AnswersHold
  <2>3. CASE active[r.handle] # None
    <3>1. Reply(tab, n, "ok", active[r.handle])
      BY <1>9, <2>3 DEF AnswerTicket
    <3> QED
      BY <1>6, <1>7, <1>8, <2>1, <2>3, <3>1
  <2> QED
    BY <2>2, <2>3
<1>10. CASE AnswerIssue(n, r)
  <2>1. r.handle \in Handles
    BY <1>5, <1>10 DEF AnswerIssue
  <2>2. CASE active[r.handle] # None
    <3>1. Reply(tab, n, "ok", active[r.handle]) /\ UNCHANGED << active, issued >>
      BY <1>10, <2>2 DEF AnswerIssue
    <3> QED
      BY <1>6, <1>7, <1>8, <2>1, <2>2, <3>1
  <2>3. CASE active[r.handle] = None
    <3> DEFINE row == [id |-> issued + 1, state |-> "Waiting", key |-> 0]
    <3>1. /\ issued' = issued + 1 /\ active' = [active EXCEPT ![r.handle] = row]
          /\ Reply(told, n, "ok", active'[r.handle]) /\ issued < MaxTickets
      BY <1>10, <2>3 DEF AnswerIssue
    <3>2. row \in ShownTicket /\ row.id = issued + 1
      BY <1>1, <3>1, CustomerAssumption DEF ShownTicket
    <3> HIDE DEF row
    <3>3. active'[r.handle] = row /\ \A h \in Handles \ {r.handle} : active'[h] = active[h]
      BY <1>1, <2>1, <3>1
    <3>4. \A h \in Handles : active'[h] # None =>
             \/ active[h] # None /\ active'[h].id = active[h].id
             \/ active'[h].id \in Nat /\ active'[h].id > issued /\ active'[h].id <= issued'
      BY <1>1, <3>1, <3>2, <3>3
    <3>5. issued' \in Nat /\ issued <= issued' /\ row.id <= issued'
      BY <1>1, <3>1, <3>2
    <3>6. Reply(told, n, "ok", row) /\ told \in {tab, Broadcast(tab)}
      BY <3>1, <3>3
    <3> HIDE DEF told
    <3> QED
      BY <1>1, <1>2, <1>4, <3>2, <3>4, <3>5, <3>6, AnswersHold
  <2> QED
    BY <2>2, <2>3
<1>11. CASE AnswerCancel(n, r)
  <2>1. r.handle \in Handles /\ active[r.handle] # None
    BY <1>5, <1>11 DEF AnswerCancel, Names
  <2> DEFINE row == [active[r.handle] EXCEPT !.state = "Cancelled", !.key = 0]
  <2>2. row \in ShownTicket /\ row.id = active[r.handle].id
    <3>1. 0 \in 0..MaxKeys /\ active[r.handle] \in ShownTicket
      BY <1>6, <2>1, CustomerAssumption
    <3> QED
      BY <3>1 DEF ShownTicket
  <2>3. /\ active' = [active EXCEPT ![r.handle] = None] /\ issued' = issued
        /\ Reply(told, n, "ok", row)
    BY <1>11 DEF AnswerCancel
  <2> HIDE DEF row
  <2>4. Same
    BY <1>1, <2>1, <2>3
  <2> QED
    BY <1>6, <1>7, <2>1, <2>2, <2>3, <2>4
<1>12. CASE AnswerOperation(n, r)
  <2>1. /\ r.handle \in Handles /\ active[r.handle] # None
        /\ Reply(told, n, "ok", active[r.handle]) /\ UNCHANGED << active, issued >>
    BY <1>5, <1>12 DEF AnswerOperation, Names
  <2> HIDE DEF told
  <2> QED
    BY <1>6, <1>7, <1>8, <2>1
<1>13. CASE Refuse(n, r)
  BY <1>4, <1>7, <1>8, <1>13 DEF Refuse
<1>14. CASE Reply(tab, n, "ok", None) /\ UNCHANGED << active, issued >>
  BY <1>4, <1>7, <1>8, <1>14
<1> QED
  BY <1>9, <1>10, <1>11, <1>12, <1>13, <1>14 DEF Answer

LEMMA LoseHolds ==
  ASSUME ForgetInv, NEW n, Lose(n)
  PROVE  Held(tab', active', issued', seen'.odd)
<1>1. /\ n \in DOMAIN tab.flight /\ issued' \in Nat /\ issued <= issued'
      /\ UNCHANGED << active, issued, seen >>
  BY CustomerAssumption DEF Lose, ForgetInv, PhoneInv, ShopTypes
<1>2. Reply(tab, n, "NetworkError", None) /\ "NetworkError" \in Outcome \ {"sent"}
  BY DEF Lose, Outcome
<1> QED
  BY <1>1, <1>2, AnswersHold

\* An answer to the mounted page that is the oldest about a ticket.
LEMMA ReceiveHolds ==
  ASSUME ForgetInv, NEW n, Receive(n)
  PROVE  /\ Held(tab', active', issued', seen'.odd)
         /\ tab.cache # None /\ tab'.cache = None /\ seen'.odd = {}
              => NotActive(active, tab.cache.handle, tab.cache.id)
<1> DEFINE r == tab.flight[n]
           F == RemoveAt(tab.flight, n)
           w == [tab EXCEPT !.flight = RemoveAt(@, n)]
           c == CacheAfter(tab, r)
           u == [w EXCEPT !.cache = c]
           v == Answered(w, r.page, r)
           Old(m) == IF m < n THEN m ELSE m + 1
<1>1. n \in DOMAIN tab.flight /\ Good(tab) /\ r.status # "sent"
  BY StandingFacts DEF Receive, ForgetInv, PhoneInv
<1>2. /\ Good(w) /\ w.pages = tab.pages /\ w.mounted = tab.mounted
      /\ r.kind \in Booter => BootsAlone(w, r.page)
  BY <1>1, TakeKeeps
<1>3. /\ tab \in Tab /\ tab.flight \in Seq(Request) /\ Len(tab.flight) \in Nat
      /\ DOMAIN tab.flight = 1..Len(tab.flight) /\ n \in Nat
      /\ Sensible(r) /\ Belongs(r, tab)
  BY <1>1 DEF Good, Orderly, Tab
<1>4. /\ F \in Seq(Request) /\ DOMAIN F = 1..(Len(tab.flight) - 1)
      /\ \A m \in 1..(Len(tab.flight) - 1) : F[m] = tab.flight[Old(m)]
  <2>1. n \in 1..Len(tab.flight)
    BY <1>1, <1>3
  <2>2. /\ F \in Seq(Request) /\ Len(F) = Len(tab.flight) - 1
        /\ \A m \in 1..(Len(tab.flight) - 1) : F[m] = tab.flight[IF m < n THEN m ELSE m + 1]
    BY <1>3, <2>1, RemovedRequest
  <2> HIDE DEF F, r, w, c, u, v
  <2>3. DOMAIN F = 1..Len(F)
    BY <2>2
  <2> QED
    BY <2>2, <2>3
<1>5. /\ \A m \in DOMAIN F : Old(m) \in DOMAIN tab.flight /\ Old(m) # n /\ F[m] = tab.flight[Old(m)]
      /\ \A m, k \in DOMAIN F : m < k => Old(m) < Old(k)
  BY <1>1, <1>3, <1>4
<1>6. w.flight = F /\ w.cache = tab.cache /\ w \in Tab
  BY <1>3, <1>4 DEF Tab
<1>7. Taken(r, w)
  BY <1>2, <1>3 DEF Taken, Belongs
<1>8. c \in Stored \cup {None} /\ CacheAfter(w, r) = c
  <2>1. /\ r.handle \in Handles \/ r.kind = "shopState"
        /\ r.status = "ok" /\ r.kind \in Refresh \cup {"issue", "recover", "cancel"}
             => r.row \in ShownTicket
    BY <1>7, TakenFacts
  <2> QED
    BY <1>3, <1>6, <2>1 DEF CacheAfter, Stored, ShownTicket, Tab, Refresh
<1> HIDE DEF c, F, w
<1>9. Effect(w, r, v) /\ Sound(v) /\ Become(v)
  BY <1>2, <1>7, AnsweredHandled DEF Handled, Receive, w
<1>10. /\ UNCHANGED << active, issued >>
       /\ seen'.odd = seen.odd \cup CalledBack(r.page) \cup Overtaking(DOMAIN tab.flight, n)
  BY DEF Receive, Remember
<1> HIDE DEF v
<1>11. tab'.cache = c /\ tab'.flight = v.flight /\ (Sits(v) => Sits(tab'))
  <2>1. tab' = Collect(v) /\ Orderly(v)
    BY <1>9 DEF Become, Sound
  <2>2. v.cache = c
    BY <1>8, <1>9 DEF Effect
  <2> QED
    BY <2>1, <2>2, CollectKeeps
<1>12. u \in Tab /\ u.flight = F /\ u.cache = c
  BY <1>6, <1>8 DEF Tab
<1> HIDE DEF u
<1>13. Grew(u.flight, tab'.flight) /\ tab'.cache = u.cache
  BY <1>6, <1>9, <1>11, <1>12 DEF Effect
<1>14. Issued(tab, active, issued)
  BY DEF ForgetInv, Held
<1>15. Issued(u, active, issued)
  <2>1. c # None => c.id <= issued
    <3>1. CASE r.status = "ok" /\ r.kind \in Refresh \cup {"issue", "recover"}
      <4>1. r.row # None
        BY <1>7, <3>1, TakenFacts
      <4> QED
        BY <1>1, <1>14, <3>1, <4>1 DEF Issued, CacheAfter, c
    <3>2. CASE ~(r.status = "ok" /\ r.kind \in Refresh \cup {"issue", "recover"})
      BY <1>14, <3>2 DEF Issued, CacheAfter, c
    <3> QED
      BY <3>1, <3>2
  <2> QED
    BY <1>5, <1>12, <1>14, <2>1 DEF Issued
<1>16. ASSUME seen'.odd = {}
       PROVE  /\ r.page = tab.mounted /\ Sits(tab) /\ Missed(tab, active)
              /\ Bringing(r) =>
                   \A m \in DOMAIN tab.flight : Bringing(tab.flight[m]) => ~(m < n)
  <2>1. seen.odd = {} /\ CalledBack(r.page) = {} /\ Overtaking(DOMAIN tab.flight, n) = {}
    BY <1>10, <1>16
  <2> QED
    BY <2>1 DEF CalledBack, Overtaking, Brings, Bringing, ForgetInv, Held
<1>17. ASSUME seen'.odd = {}
       PROVE  Missed(u, active)
  <2> SUFFICES ASSUME NEW k \in DOMAIN F, Missing(F[k])
               PROVE  LET h == F[k].handle
                      IN  /\ c # None /\ c.handle = h => NotActive(active, h, c.id)
                          /\ \A m \in DOMAIN F : m < k /\ Bringing(F[m]) =>
                               /\ F[m].status # "sent"
                               /\ F[m].status = "ok" /\ F[m].handle = h
                                    => NotActive(active, h, F[m].row.id)
    BY <1>12 DEF Missed
  <2> DEFINE o == Old(k)
             h == F[k].handle
  <2>1. o \in DOMAIN tab.flight /\ o # n /\ F[k] = tab.flight[o] /\ Missing(tab.flight[o])
    BY <1>5
  <2>2. \A m \in DOMAIN F : m < k =>
          Old(m) \in DOMAIN tab.flight /\ Old(m) < o /\ F[m] = tab.flight[Old(m)]
    BY <1>5
  <2>3. Bringing(tab.flight[o])
    BY <2>1 DEF Missing, Bringing
  <2> HIDE DEF o, Old
  <2>4. \A m \in DOMAIN F : m < k /\ Bringing(F[m]) =>
          /\ F[m].status # "sent"
          /\ F[m].status = "ok" /\ F[m].handle = h => NotActive(active, h, F[m].row.id)
    BY <1>16, <1>17, <2>1, <2>2 DEF Missed
  <2>5. ASSUME c # None, c.handle = h PROVE NotActive(active, h, c.id)
    <3>1. CASE r.status = "ok" /\ r.kind \in Refresh \cup {"issue", "recover"}
      <4>1. c.id = r.row.id /\ r.handle = h /\ Bringing(r)
        BY <2>5, <3>1 DEF CacheAfter, c, Bringing
      <4>2. n < o
        BY <1>3, <1>16, <1>17, <2>1, <2>3, <4>1
      <4> QED
        BY <1>1, <1>16, <1>17, <2>1, <3>1, <4>1, <4>2 DEF Missed
    <3>2. CASE ~(r.status = "ok" /\ r.kind \in Refresh \cup {"issue", "recover"})
      <4>1. c = tab.cache
        BY <2>5, <3>2 DEF CacheAfter, c
      <4> QED
        BY <1>16, <1>17, <2>1, <2>5, <4>1 DEF Missed
    <3> QED
      BY <3>1, <3>2
  <2> QED
    BY <2>4, <2>5
<1>18. Issued(tab', active, issued) /\ (seen'.odd = {} => Missed(tab', active))
  BY <1>12, <1>13, <1>15, <1>17, GrowHolds
<1>19. ASSUME seen'.odd = {} PROVE Sits(tab')
  <2>1. Sits(w) /\ r.page = w.mounted
    BY <1>2, <1>6, <1>16, <1>19 DEF Sits
  <2> QED
    BY <1>9, <1>11, <2>1 DEF Effect
<1>20. ASSUME tab.cache # None, tab'.cache = None, seen'.odd = {}
       PROVE  NotActive(active, tab.cache.handle, tab.cache.id)
  <2>1. Missing(r)
    <3>1. CASE r.status = "ok" /\ r.kind \in Refresh \cup {"issue", "recover"}
      <4>1. r.row \in ShownTicket /\ r.handle \in Handles
        BY <1>7, <3>1, TakenFacts DEF Refresh
      <4>2. [id |-> r.row.id, handle |-> r.handle] \in Stored
        BY <4>1 DEF ShownTicket, Stored
      <4> QED
        BY <1>11, <1>20, <3>1, <4>2, NoPageAssumption DEF CacheAfter, c
    <3>2. CASE ~(r.status = "ok" /\ r.kind \in Refresh \cup {"issue", "recover"})
      BY <1>11, <1>20, <3>2 DEF CacheAfter, c, Missing
    <3> QED
      BY <3>1, <3>2
  <2>2. /\ tab.pages[tab.mounted].route = "ticket"
        /\ r.handle = tab.pages[tab.mounted].stored.handle
    BY <1>3, <1>16, <1>20, <2>1 DEF Missing, Belongs
  <2>3. tab.cache.handle = r.handle
    BY <1>1, <1>16, <1>20, <2>2 DEF Sits, Good
  <2> QED
    BY <1>1, <1>16, <1>20, <2>1, <2>3 DEF Missed
<1> QED
  BY <1>10, <1>18, <1>19, <1>20 DEF Held

LEMMA ForgetStep ==
  ASSUME ForgetInv, [PhoneNext]_phoneVars
  PROVE  ForgetInv'
<1>1. PhoneInv'
  BY PhoneStep DEF ForgetInv
<1>2. PhoneInv
  BY DEF ForgetInv
<1>3. Held(tab', active', issued', seen'.odd)
  <2>1. CASE CustomerActs
    BY <1>2, <2>1, CustomerDrifts, DriftHolds
  <2>2. CASE ShopActs
    BY <2>2, ShopActsHold
  <2>3. CASE ChimeTimeout
    BY <1>2, <2>3, TimeoutDrifts, DriftHolds
  <2>4. CASE \E n \in 1..MaxFlight : Answer(n) \/ Lose(n) \/ Receive(n)
    BY <2>4, AnswerHolds, LoseHolds, ReceiveHolds
  <2>5. CASE \E s \in Slots : FeedOpens(s) \/ FeedRetries(s) \/ FeedDrops(s) \/ FeedDelivers(s)
    BY <1>2, <2>5, FeedDrifts, DriftHolds
  <2>6. CASE UNCHANGED phoneVars
    BY <2>6, DriftHolds DEF phoneVars, Drift, Grew
  <2> QED
    BY <2>1, <2>2, <2>3, <2>4, <2>5, <2>6 DEF PhoneNext
<1>4. Held(tab, active, issued, seen.odd)'
  BY <1>3 DEF Held, Issued, Sits, Missed, Missing, Bringing, NotActive
<1> QED
  BY <1>1, <1>4 DEF ForgetInv

\* However long an answer takes, the device forgets a ticket only when the shop
\* has closed it, as long as no page that was left is called back and answers
\* about tickets come in their order.
THEOREM ForgottenWasClosed == PhoneSpec => ForgetsOnlyClosed
<1>1. PhoneInit => ForgetInv
  <2> SUFFICES ASSUME PhoneInit PROVE ForgetInv
    OBVIOUS
  <2>1. PhoneInv
    BY PhoneStarts
  <2> QED
    BY <2>1 DEF ForgetInv, Held, Issued, Sits, Missed, PhoneInit
<1>2. ForgetInv /\ [PhoneNext]_phoneVars => ForgetInv'
  BY ForgetStep
<1>3. ForgetInv =>
        [/\ tab.cache # None /\ tab'.cache = None
         /\ seen'.odd = {}
         /\ \E n \in DOMAIN tab.flight : Receive(n)
         => LET t == active[tab.cache.handle]
            IN  t = None \/ t.id # tab.cache.id]_phoneVars
  BY ReceiveHolds DEF NotActive
<1> QED
  BY <1>1, <1>2, <1>3, PTL DEF PhoneSpec, ForgetsOnlyClosed

-----------------------------------------------------------------------------
(* The alert's memory.  Calls are numbered in the order the shop makes     *)
(* them, answers bring them in that order, and the one alerted last is     *)
(* remembered until the shop has said that the ticket is gone; what is     *)
(* called after that is newer.                                             *)

IsCalled(row) == row # None /\ row.state \in {"Called", "Overdue"}

\* A refresh that brings a call.
Telling(q) == q.kind \in Refresh /\ q.status = "ok" /\ IsCalled(q.row)

\* A call that has not rung, or that the device remembers as the last.
Unheard(key, remembered, rung) ==
  (\A k \in rung : k <= key) /\ (key \in rung => remembered = key)

\* A call made after all that rang and all that the requests before n bring.
Newer(key, n, f, rung) ==
  /\ \A k \in rung : k < key
  /\ \A m \in DOMAIN f : m < n /\ Telling(f[m]) => f[m].row.key < key

\* Of the c calls made so far: those that rang, those the requests of f bring,
\* and those of the tickets a.
InOrder(f, a, c, remembered, rung) ==
  /\ \A k \in rung : k <= c
  /\ \A n \in DOMAIN f : Telling(f[n]) =>
       /\ f[n].row.key <= c
       /\ Unheard(f[n].row.key, remembered, rung)
       /\ \A m \in DOMAIN f : m < n /\ Telling(f[m]) => f[m].row.key <= f[n].row.key
  /\ \A h \in Handles : IsCalled(a[h]) =>
       /\ a[h].key <= c
       /\ Unheard(a[h].key, remembered, rung)
       /\ \A m \in DOMAIN f : Telling(f[m]) => f[m].row.key <= a[h].key
  /\ \A n \in DOMAIN f : Missing(f[n]) =>
       /\ \A m \in DOMAIN f : n < m /\ Telling(f[m]) => Newer(f[m].row.key, n, f, rung)
       /\ \A h \in Handles : IsCalled(a[h]) => Newer(a[h].key, n, f, rung)
  /\ \A n \in DOMAIN f : Telling(f[n]) \/ Missing(f[n]) =>
       \A m \in DOMAIN f : m < n /\ f[m].kind \in Refresh => f[m].status # "sent"

\* The property is about a device of one customer and a run without oddities.
Heard(f, a, c, remembered, rung, odd) ==
  OneCustomer /\ odd = {} => InOrder(f, a, c, remembered, rung)

HeardInv == PhoneInv /\ Heard(tab.flight, active, called, tab.alerted, seen.rung, seen.odd)

\* A list of requests whose calls are numbers.
Keyed(f) ==
  /\ f \in Seq(Request) /\ Len(f) \in Nat /\ DOMAIN f = 1..Len(f)
  /\ \A n \in DOMAIN f : Telling(f[n]) => f[n].row.key \in Nat

LEMMA FlightKeyed ==
  ASSUME NEW w, Orderly(w)
  PROVE  Keyed(w.flight)
<1>1. w.flight \in Seq(Request) /\ Len(w.flight) \in Nat /\ DOMAIN w.flight = 1..Len(w.flight)
  BY DEF Orderly, Tab
<1>2. ASSUME NEW n \in DOMAIN w.flight, Telling(w.flight[n])
      PROVE  w.flight[n].row.key \in Nat
  <2>1. w.flight[n].row \in ShownTicket
    BY <1>2 DEF Orderly, Sensible, Request, Telling, IsCalled
  <2> QED
    BY <2>1, CustomerAssumption DEF ShownTicket
<1> QED
  BY <1>1, <1>2 DEF Keyed

\* Requests that were answered before a handler sent one.
LEMMA GrewFacts ==
  ASSUME NEW f \in Seq(Request), NEW g, Grew(f, g)
  PROVE  \A n, m \in DOMAIN g :
           g[n].status # "sent" /\ (m < n \/ m = n) => m \in DOMAIN f /\ g[m] = f[m]
<1>1. Len(f) \in Nat /\ DOMAIN f = 1..Len(f)
  OBVIOUS
<1>2. CASE g = f
  BY <1>2
<1>3. CASE g = << >>
  BY <1>3
<1>4. CASE \E q \in Request : q.status = "sent" /\ g = Append(f, q)
  <2>1. PICK q \in Request : q.status = "sent" /\ g = Append(f, q)
    BY <1>4
  <2>2. /\ DOMAIN g = 1..(Len(f) + 1) /\ g[Len(f) + 1] = q
        /\ \A k \in 1..Len(f) : g[k] = f[k]
    BY <1>1, <2>1, AppendProperties
  <2>3. \A n \in DOMAIN g : g[n].status # "sent" => n # Len(f) + 1
    BY <2>1, <2>2
  <2> QED
    BY <1>1, <2>2, <2>3
<1> QED
  BY <1>2, <1>3, <1>4 DEF Grew

LEMMA GrowInOrder ==
  ASSUME NEW f \in Seq(Request), NEW g, Grew(f, g), NEW a, NEW c, NEW b, NEW rung,
         InOrder(f, a, c, b, rung)
  PROVE  InOrder(g, a, c, b, rung)
<1>1. \A n \in DOMAIN g : Telling(g[n]) \/ Missing(g[n]) => g[n].status # "sent"
  BY DEF Telling, Missing
<1>2. \A n \in DOMAIN g : Telling(g[n]) \/ Missing(g[n]) =>
        /\ n \in DOMAIN f /\ g[n] = f[n]
        /\ \A m \in DOMAIN g : m < n => m \in DOMAIN f /\ g[m] = f[m]
  BY <1>1, GrewFacts
<1>3. /\ \A k \in rung : k <= c
      /\ \A n \in DOMAIN g : Telling(g[n]) =>
           /\ g[n].row.key <= c
           /\ Unheard(g[n].row.key, b, rung)
           /\ \A m \in DOMAIN g : m < n /\ Telling(g[m]) => g[m].row.key <= g[n].row.key
  BY <1>2 DEF InOrder
<1>4. \A h \in Handles : IsCalled(a[h]) =>
        /\ a[h].key <= c
        /\ Unheard(a[h].key, b, rung)
        /\ \A m \in DOMAIN g : Telling(g[m]) => g[m].row.key <= a[h].key
  BY <1>2 DEF InOrder
<1>5. ASSUME NEW n \in DOMAIN g, Missing(g[n])
      PROVE  /\ \A m \in DOMAIN g : n < m /\ Telling(g[m]) => Newer(g[m].row.key, n, g, rung)
             /\ \A h \in Handles : IsCalled(a[h]) => Newer(a[h].key, n, g, rung)
  <2>1. n \in DOMAIN f /\ Missing(f[n])
    BY <1>2, <1>5
  <2>2. ASSUME NEW key, Newer(key, n, f, rung) PROVE Newer(key, n, g, rung)
    BY <1>2, <2>2 DEF Newer
  <2> QED
    BY <1>2, <2>1, <2>2 DEF InOrder
<1>6. \A n \in DOMAIN g : Telling(g[n]) \/ Missing(g[n]) =>
        \A m \in DOMAIN g : m < n /\ g[m].kind \in Refresh => g[m].status # "sent"
  BY <1>2 DEF InOrder
<1> QED
  BY <1>3, <1>4, <1>5, <1>6 DEF InOrder

\* A ticket's call is the one it was, or the newest.
LEMMA ShopInOrder ==
  ASSUME NEW f, Keyed(f), NEW a, NEW b, NEW c \in Nat, NEW d \in Nat, c <= d,
         NEW r, NEW rung \in SUBSET Nat,
         \A h \in Handles : IsCalled(b[h]) =>
           \/ IsCalled(a[h]) /\ b[h].key = a[h].key /\ a[h].key \in Nat
           \/ b[h].key \in Nat /\ c < b[h].key /\ b[h].key <= d,
         InOrder(f, a, c, r, rung)
  PROVE  InOrder(f, b, d, r, rung)
<1>1. \A k \in rung : k \in Nat /\ k <= c /\ k <= d
  BY DEF InOrder
<1>2. \A n \in DOMAIN f : Telling(f[n]) =>
        f[n].row.key \in Nat /\ f[n].row.key <= c /\ f[n].row.key <= d
  BY DEF InOrder, Keyed
<1>3. ASSUME NEW h \in Handles, IsCalled(b[h])
      PROVE  /\ b[h].key <= d
             /\ Unheard(b[h].key, r, rung)
             /\ \A m \in DOMAIN f : Telling(f[m]) => f[m].row.key <= b[h].key
             /\ \A n \in DOMAIN f : Missing(f[n]) => Newer(b[h].key, n, f, rung)
  <2>1. CASE IsCalled(a[h]) /\ b[h].key = a[h].key /\ a[h].key \in Nat
    BY <2>1 DEF InOrder
  <2>2. CASE b[h].key \in Nat /\ c < b[h].key /\ b[h].key <= d
    <3>1. \A k \in rung : k < b[h].key /\ k <= b[h].key /\ k # b[h].key
      BY <1>1, <2>2
    <3>2. \A n \in DOMAIN f : Telling(f[n]) =>
            f[n].row.key < b[h].key /\ f[n].row.key <= b[h].key
      BY <1>2, <2>2
    <3> QED
      BY <2>2, <3>1, <3>2 DEF Unheard, Newer
  <2> QED
    BY <1>3, <2>1, <2>2
<1> QED
  BY <1>1, <1>2, <1>3 DEF InOrder

\* Request n is answered or lost: an answer comes after those to all older
\* requests, and brings the call the ticket has.
LEMMA ReplyInOrder ==
  ASSUME OneCustomer, NEW f, Keyed(f), NEW n \in DOMAIN f, NEW q, q.kind = f[n].kind,
         NEW a, NEW c, NEW r, NEW rung \in SUBSET Nat,
         \A h \in Handles : IsCalled(a[h]) => a[h].key \in Nat,
         Telling(q) \/ Missing(q) =>
           /\ f[n].status = "sent"
           /\ \A m \in DOMAIN f : m < n /\ f[m].kind \in Refresh => f[m].status # "sent",
         Telling(q) => \E h \in Handles : IsCalled(a[h]) /\ q.row.key = a[h].key,
         Missing(q) => \A h \in Handles : ~IsCalled(a[h]),
         q.status # "sent",
         InOrder(f, a, c, r, rung)
  PROVE  InOrder([f EXCEPT ![n] = q], a, c, r, rung)
<1> DEFINE g == [f EXCEPT ![n] = q]
<1>1. /\ DOMAIN g = DOMAIN f /\ g[n] = q /\ DOMAIN f \subseteq Nat
      /\ \A m \in DOMAIN f : m # n => g[m] = f[m]
  BY DEF Keyed
<1> HIDE DEF g
\* No younger refresh has been answered before n.
<1>2. ASSUME Telling(q) \/ Missing(q), NEW m \in DOMAIN f, Telling(f[m]) \/ Missing(f[m])
      PROVE  m < n
  <2>1. f[n].status = "sent" /\ f[n].kind \in Refresh /\ m # n
    BY <1>2 DEF Telling, Missing
  <2>2. ~(n < m)
    BY <1>2, <2>1 DEF InOrder
  <2> QED
    BY <1>1, <2>1, <2>2
<1>3. ASSUME NEW m \in DOMAIN g, Telling(g[m])
      PROVE  /\ g[m].row.key <= c
             /\ Unheard(g[m].row.key, r, rung)
             /\ \A k \in DOMAIN g : k < m /\ Telling(g[k]) => g[k].row.key <= g[m].row.key
  <2>1. CASE m = n
    <3>1. PICK h \in Handles : IsCalled(a[h]) /\ q.row.key = a[h].key
      BY <1>1, <1>3, <2>1
    <3>2. \A k \in DOMAIN g : k < m => k # n
      BY <1>1, <2>1
    <3> QED
      BY <1>1, <2>1, <3>1, <3>2 DEF InOrder
  <2>2. CASE m # n
    <3>1. g[m] = f[m] /\ m \in DOMAIN f /\ Telling(f[m])
      BY <1>1, <1>3, <2>2
    <3>2. \A k \in DOMAIN g : k < m /\ Telling(g[k]) => k # n
      BY <1>1, <1>2, <3>1
    <3> QED
      BY <1>1, <3>1, <3>2 DEF InOrder
  <2> QED
    BY <2>1, <2>2
<1>4. ASSUME NEW h \in Handles, IsCalled(a[h])
      PROVE  /\ a[h].key <= c
             /\ Unheard(a[h].key, r, rung)
             /\ \A m \in DOMAIN g : Telling(g[m]) => g[m].row.key <= a[h].key
  <2>1. ASSUME Telling(q) PROVE q.row.key = a[h].key /\ q.row.key <= a[h].key
    BY <1>4, <2>1 DEF OneCustomer
  <2> QED
    BY <1>1, <1>4, <2>1 DEF InOrder
<1>5. ASSUME NEW m \in DOMAIN g, Missing(g[m])
      PROVE  /\ \A k \in DOMAIN g : m < k /\ Telling(g[k]) => Newer(g[k].row.key, m, g, rung)
             /\ \A h \in Handles : IsCalled(a[h]) => Newer(a[h].key, m, g, rung)
  <2>1. CASE m = n
    <3>1. \A k \in DOMAIN g : ~(m < k /\ Telling(g[k]))
      BY <1>1, <1>2, <1>5, <2>1
    <3>2. \A h \in Handles : ~IsCalled(a[h])
      BY <1>1, <1>5, <2>1
    <3> QED
      BY <3>1, <3>2
  <2>2. CASE m # n
    <3>1. g[m] = f[m] /\ m \in DOMAIN f /\ Missing(f[m])
      BY <1>1, <1>5, <2>2
    <3>2. ASSUME Telling(q) PROVE m < n
      BY <1>2, <3>1, <3>2
    <3>3. ASSUME NEW key, Newer(key, m, f, rung) PROVE Newer(key, m, g, rung)
      <4>1. ~(n < m /\ Telling(q))
        BY <1>1, <3>1, <3>2
      <4> QED
        BY <1>1, <3>3, <4>1 DEF Newer
    <3>4. ASSUME NEW k \in DOMAIN g, m < k, Telling(g[k])
          PROVE  Newer(g[k].row.key, m, g, rung)
      <4>1. CASE k = n
        <5>1. PICK h \in Handles : IsCalled(a[h]) /\ q.row.key = a[h].key
          BY <1>1, <3>4, <4>1
        <5> QED
          BY <1>1, <3>1, <3>3, <4>1, <5>1 DEF InOrder
      <4>2. CASE k # n
        BY <1>1, <3>1, <3>3, <3>4, <4>2 DEF InOrder
      <4> QED
        BY <4>1, <4>2
    <3>5. \A h \in Handles : IsCalled(a[h]) => Newer(a[h].key, m, g, rung)
      BY <3>1, <3>3 DEF InOrder
    <3> QED
      BY <3>4, <3>5
  <2> QED
    BY <2>1, <2>2
<1>6. ASSUME NEW m \in DOMAIN g, Telling(g[m]) \/ Missing(g[m]),
             NEW k \in DOMAIN g, k < m, g[k].kind \in Refresh
      PROVE  g[k].status # "sent"
  <2>1. CASE m = n
    <3>1. k # n /\ (Telling(q) \/ Missing(q))
      BY <1>1, <1>6, <2>1
    <3> QED
      BY <1>1, <1>6, <2>1, <3>1
  <2>2. CASE m # n
    <3>1. f[k].status # "sent"
      BY <1>1, <1>6, <2>2 DEF InOrder
    <3> QED
      BY <1>1, <3>1
  <2> QED
    BY <2>1, <2>2
<1>7. \A k \in rung : k <= c
  BY DEF InOrder
<1> QED
  BY <1>3, <1>4, <1>5, <1>6, <1>7 DEF InOrder, g

\* What a handler makes of the memory, and a step of what has rung.
AlertedAfter(r, remembered) ==
  IF Telling(r) THEN r.row.key
  ELSE IF Missing(r) THEN None
  ELSE remembered

RungAfter(b, remembered, rung) ==
  IF b # None /\ b # remembered THEN rung \cup {b} ELSE rung

\* Request n is handed over: if it is about the ticket it is the oldest, hence
\* it brings the oldest call, one that has not rung.
LEMMA TakeInOrder ==
  ASSUME NEW f, Keyed(f), NEW n \in DOMAIN f, NEW a, NEW c, NEW r, NEW rung \in SUBSET Nat,
         \A h \in Handles : IsCalled(a[h]) => a[h].key \in Nat,
         Telling(f[n]) \/ Missing(f[n]) =>
           \A m \in DOMAIN f : f[m].kind \in Refresh => ~(m < n),
         InOrder(f, a, c, r, rung)
  PROVE  LET b == AlertedAfter(f[n], r)
         IN  /\ InOrder(RemoveAt(f, n), a, c, b, RungAfter(b, r, rung))
             /\ b # None /\ b # r => b \notin rung
<1> DEFINE g == RemoveAt(f, n)
           b == AlertedAfter(f[n], r)
           after == RungAfter(b, r, rung)
           Old(m) == IF m < n THEN m ELSE m + 1
<1>1. /\ n \in Nat /\ Len(f) \in Nat /\ DOMAIN f = 1..Len(f)
      /\ DOMAIN g = 1..(Len(f) - 1)
      /\ \A m \in DOMAIN g : g[m] = f[Old(m)]
  <2>1. f \in Seq(Request) /\ Len(f) \in Nat /\ DOMAIN f = 1..Len(f) /\ n \in 1..Len(f)
    BY DEF Keyed
  <2>2. /\ g \in Seq(Request) /\ Len(g) = Len(f) - 1
        /\ \A m \in 1..(Len(f) - 1) : g[m] = f[Old(m)]
    BY <2>1, RemovedRequest
  <2> HIDE DEF g, Old
  <2>3. DOMAIN g = 1..Len(g)
    BY <2>2
  <2> QED
    BY <2>1, <2>2, <2>3
<1>2. \A m \in DOMAIN g : Old(m) \in DOMAIN f /\ Old(m) # n /\ Old(m) \in Nat /\ g[m] = f[Old(m)]
  BY <1>1
<1>3. \A m, k \in DOMAIN g : m < k => Old(m) < Old(k)
  BY <1>1
<1> HIDE DEF g, b, Old
<1>4. \A m \in DOMAIN f : Telling(f[m]) => f[m].row.key \in Nat
  BY DEF Keyed
<1>5. InOrder(g, a, c, r, rung)
  <2>1. ASSUME NEW key, NEW m \in DOMAIN g, Newer(key, Old(m), f, rung)
        PROVE  Newer(key, m, g, rung)
    BY <1>2, <1>3, <2>1 DEF Newer
  <2>2. \A m \in DOMAIN g : Missing(g[m]) =>
          /\ \A k \in DOMAIN g : m < k /\ Telling(g[k]) => Newer(g[k].row.key, Old(m), f, rung)
          /\ \A h \in Handles : IsCalled(a[h]) => Newer(a[h].key, Old(m), f, rung)
    BY <1>2, <1>3 DEF InOrder
  <2>3. \A m \in DOMAIN g : Telling(g[m]) =>
          /\ g[m].row.key <= c
          /\ Unheard(g[m].row.key, r, rung)
          /\ \A k \in DOMAIN g : k < m /\ Telling(g[k]) => g[k].row.key <= g[m].row.key
    BY <1>2, <1>3 DEF InOrder
  <2>4. \A m \in DOMAIN g : Telling(g[m]) \/ Missing(g[m]) =>
          \A k \in DOMAIN g : k < m /\ g[k].kind \in Refresh => g[k].status # "sent"
    BY <1>2, <1>3 DEF InOrder
  <2>5. /\ \A k \in rung : k <= c
        /\ \A h \in Handles : IsCalled(a[h]) =>
             /\ a[h].key <= c
             /\ Unheard(a[h].key, r, rung)
             /\ \A m \in DOMAIN g : Telling(g[m]) => g[m].row.key <= a[h].key
    BY <1>2 DEF InOrder
  <2> QED
    BY <2>1, <2>2, <2>3, <2>4, <2>5 DEF InOrder
<1>6. CASE Telling(f[n])
  <2> DEFINE key == f[n].row.key
  <2>1. b = key /\ key \in Nat /\ key <= c /\ Unheard(key, r, rung)
    BY <1>4, <1>6 DEF b, AlertedAfter, InOrder
  <2>2. after = rung \/ after = rung \cup {key}
    BY <2>1 DEF RungAfter
  <2>3. ASSUME key # r PROVE key \notin rung
    BY <2>1, <2>3 DEF Unheard
\* The other calls in flight, and the tickets' calls, are no older.
  <2>4. ASSUME NEW k \in Nat, Unheard(k, r, rung), key <= k
        PROVE  Unheard(k, b, after)
    <3>1. \A x \in after : x <= k
      BY <2>2, <2>4 DEF Unheard
    <3>2. ASSUME k \in after PROVE k = key
      <4>1. k \in rung => k <= key
        BY <2>1 DEF Unheard
      <4> QED
        BY <2>1, <2>2, <2>4, <3>2, <4>1
    <3> QED
      BY <2>1, <3>1, <3>2 DEF Unheard
  <2>5. \A m \in DOMAIN g : Telling(g[m]) =>
          g[m].row.key \in Nat /\ key <= g[m].row.key
    <3>1. ASSUME NEW m \in DOMAIN g, Telling(g[m])
          PROVE  g[m].row.key \in Nat /\ key <= g[m].row.key
      <4>1. ~(Old(m) < n) /\ Old(m) # n /\ Old(m) \in Nat /\ Old(m) \in DOMAIN f
            /\ Telling(f[Old(m)]) /\ g[m] = f[Old(m)]
        BY <1>2, <1>6, <3>1 DEF Telling
      <4>2. n < Old(m)
        BY <1>1, <4>1
      <4> QED
        BY <1>4, <1>6, <4>1, <4>2 DEF InOrder
    <3> QED
      BY <3>1
  <2>6. \A h \in Handles : IsCalled(a[h]) => key <= a[h].key
    BY <1>6 DEF InOrder
  <2>7. ASSUME NEW m \in DOMAIN g, Missing(g[m]), NEW k, Newer(k, m, g, rung),
               Newer(k, Old(m), f, rung)
        PROVE  Newer(k, m, g, after)
    <3>1. ~(Old(m) < n) /\ Old(m) # n /\ Old(m) \in Nat
      BY <1>2, <1>6, <2>7 DEF Missing
    <3>2. n < Old(m)
      BY <1>1, <3>1
    <3>3. key < k
      BY <1>6, <2>7, <3>2 DEF Newer
    <3> QED
      BY <2>2, <2>7, <3>3 DEF Newer
  <2>8. \A m \in DOMAIN g : Missing(g[m]) =>
          /\ \A k \in DOMAIN g : m < k /\ Telling(g[k]) =>
               Newer(g[k].row.key, m, g, rung) /\ Newer(g[k].row.key, Old(m), f, rung)
          /\ \A h \in Handles : IsCalled(a[h]) =>
               Newer(a[h].key, m, g, rung) /\ Newer(a[h].key, Old(m), f, rung)
    BY <1>2, <1>3, <1>5 DEF InOrder
  <2> HIDE DEF key, after
  <2>9. \A x \in after : x <= c
    BY <1>5, <2>1, <2>2 DEF InOrder
  <2>10. InOrder(g, a, c, b, after)
    BY <1>5, <2>4, <2>5, <2>6, <2>7, <2>8, <2>9 DEF InOrder
  <2> QED
    BY <2>1, <2>3, <2>10 DEF g, b, after
<1>7. CASE Missing(f[n])
  <2>1. b = None /\ after = rung
    BY <1>7 DEF b, AlertedAfter, Missing, Telling, RungAfter
\* What is called after this is newer than all that rang.
  <2>2. ASSUME NEW k \in Nat, Newer(k, n, f, rung) PROVE Unheard(k, None, rung)
    BY <2>2 DEF Newer, Unheard
  <2>3. ASSUME NEW m \in DOMAIN g, Telling(g[m]) PROVE Unheard(g[m].row.key, None, rung)
    <3>1. ~(Old(m) < n) /\ Old(m) # n /\ Old(m) \in Nat /\ Old(m) \in DOMAIN f
          /\ Telling(f[Old(m)]) /\ g[m] = f[Old(m)]
      BY <1>2, <1>7, <2>3 DEF Telling
    <3>2. n < Old(m)
      BY <1>1, <3>1
    <3> QED
      BY <1>4, <1>7, <2>2, <3>1, <3>2 DEF InOrder
  <2>4. \A h \in Handles : IsCalled(a[h]) => Unheard(a[h].key, None, rung)
    BY <1>7, <2>2 DEF InOrder
  <2>5. InOrder(g, a, c, None, rung)
    BY <1>5, <2>3, <2>4 DEF InOrder
  <2> QED
    BY <2>1, <2>5 DEF g, b
<1>8. CASE ~Telling(f[n]) /\ ~Missing(f[n])
  <2>1. b = r /\ after = rung
    BY <1>8 DEF b, AlertedAfter, RungAfter
  <2> QED
    BY <1>5, <2>1 DEF g, b
<1> QED
  BY <1>6, <1>7, <1>8


\* A browser w whose last alert is b.
Remembers(w, b) == "alerted" \in DOMAIN w /\ w.alerted = b

\* Pages come and go without the memory.
LEMMA OnMountRemembers ==
  ASSUME NEW w, NEW b, Remembers(w, b), NEW route
  PROVE  Remembers(onMount(w, route), b)
<1> DEFINE s == CHOOSE x \in {y \in Slots : w.pages[y] = None} : TRUE
<1>1. \/ onMount(w, route) = [w EXCEPT !.flight = << >>]
      \/ \E p, f : onMount(w, route) = [w EXCEPT !.mounted = s, !.pages[s] = p, !.flight = f]
  BY DEF onMount
<1> HIDE DEF s
<1> QED
  BY <1>1 DEF Remembers

LEMMA CollectRemembers ==
  ASSUME NEW w, NEW b, Remembers(w, b)
  PROVE  Remembers(Collect(w), b)
BY DEF Collect, Remembers

LEMMA GotoRemembers ==
  ASSUME NEW w, NEW b, Remembers(w, b), NEW route
  PROVE  Remembers(goto(w, route), b)
<1>1. Remembers(onDestroy(w), b)
  BY DEF onDestroy, Remembers
<1>2. Remembers(Collect(onDestroy(w)), b)
  BY <1>1, CollectRemembers
<1>3. Remembers(onMount(Collect(onDestroy(w)), route), b)
  BY <1>2, OnMountRemembers
<1> QED
  BY <1>3 DEF goto

LEMMA FoundRemembers ==
  ASSUME NEW w, NEW b, Remembers(w, b), NEW s, NEW r,
         r.kind \in Refresh, r.status = "ok", r.row # None
  PROVE  Remembers(Found(w, s, r), AlertedAfter(r, b))
<1> DEFINE x == [w EXCEPT !.cache = [id |-> r.row.id, handle |-> r.handle],
                          !.pages[s] = IF s = w.mounted
                                       THEN [@ EXCEPT !.ticket = r.row, !.error = FALSE]
                                       ELSE @]
           y == [x EXCEPT !.alerted = r.row.key]
<1>1. Found(w, s, r) = maybeTriggerCalledAlert(x, r.row)
  BY DEF Found
<1>2. Remembers(x, b)
  BY DEF Remembers
<1> HIDE DEF x
<1>3. Remembers(y, r.row.key)
  BY <1>2 DEF Remembers
<1>4. CASE r.row.state \in {"Called", "Overdue"}
  <2>1. AlertedAfter(r, b) = r.row.key
    BY <1>4 DEF AlertedAfter, Telling, IsCalled
  <2>2. maybeTriggerCalledAlert(x, r.row) = IF x.alerted = r.row.key THEN x ELSE chimeStart(y)
    BY <1>4 DEF maybeTriggerCalledAlert
  <2> HIDE DEF y
  <2>3. Remembers(chimeStart(y), r.row.key)
    BY <1>3 DEF chimeStart, Remembers
  <2> QED
    BY <1>1, <1>2, <2>1, <2>2, <2>3 DEF Remembers
<1>5. CASE r.row.state \notin {"Called", "Overdue"}
  <2>1. AlertedAfter(r, b) = b
    BY <1>5 DEF AlertedAfter, Telling, IsCalled, Missing
  <2>2. maybeTriggerCalledAlert(x, r.row) = x
    BY <1>5 DEF maybeTriggerCalledAlert
  <2> QED
    BY <1>1, <1>2, <2>1, <2>2
<1> QED
  BY <1>4, <1>5

LEMMA FailedRemembers ==
  ASSUME NEW w, NEW b, Remembers(w, b), NEW s
  PROVE  Remembers(Failed(w, s), b)
BY DEF Failed, Remembers

LEMMA RefreshRemembers ==
  ASSUME NEW w, NEW b, Remembers(w, b), NEW s, NEW r,
         r.kind \in Refresh, r.status = "ok" => r.row # None
  PROVE  Remembers(refresh(w, s, r), AlertedAfter(r, b))
<1>1. CASE r.status = "ok"
  BY <1>1, FoundRemembers DEF refresh
<1>2. CASE r.status = "TicketNotFound"
  <2> DEFINE u == [w EXCEPT !.cache = None, !.alerted = None]
  <2>1. Remembers(u, None) /\ refresh(w, s, r) = goto(u, "recover")
    BY <1>2 DEF refresh, Remembers
  <2>2. AlertedAfter(r, b) = None
    BY <1>2 DEF AlertedAfter, Telling, Missing
  <2> HIDE DEF u
  <2> QED
    BY <2>1, <2>2, GotoRemembers
<1>3. CASE r.status \notin {"ok", "TicketNotFound"}
  <2>1. refresh(w, s, r) = Failed(w, s)
    BY <1>3 DEF refresh
  <2>2. AlertedAfter(r, b) = b
    BY <1>3 DEF AlertedAfter, Telling, Missing
  <2> QED
    BY <2>1, <2>2, FailedRemembers
<1> QED
  BY <1>1, <1>2, <1>3

\* Only an answer to a refresh changes the memory.
LEMMA AnsweredRemembers ==
  ASSUME NEW w, NEW b, Remembers(w, b), NEW r, Taken(r, w)
  PROVE  Remembers(Answered(w, r.page, r), AlertedAfter(r, b))
<1> DEFINE s == r.page
<1>1. r.kind \in Kind /\ (r.status = "ok" /\ r.kind \in Refresh => r.row # None)
  BY TakenFacts
<1>2. r.kind \notin Refresh => AlertedAfter(r, b) = b
  BY DEF AlertedAfter, Telling, Missing
<1>3. ASSUME NEW x, NEW c, Remembers(x, c) PROVE Remembers(Booted(x, s), c)
  BY <1>3 DEF Booted, Remembers
<1>4. ASSUME NEW x, NEW c, Remembers(x, c), NEW q
      PROVE  Remembers([x EXCEPT !.flight = Append(@, q)], c)
  BY <1>4 DEF Remembers
<1>5. CASE r.kind = "boot"
  <2> DEFINE x == refresh(w, s, r)
  <2>1. Remembers(x, AlertedAfter(r, b))
    BY <1>1, <1>5, RefreshRemembers DEF Refresh
  <2>2. Answered(w, s, r) = afterBoot(w, s, r)
    BY <1>5 DEF Answered
  <2>3. afterBoot(w, s, r) = IF r.status = "ok"
            THEN [x EXCEPT !.flight = Append(@, NewRequest(s, "shopState", None, None))]
            ELSE Booted(x, s)
    BY DEF afterBoot
  <2> DEFINE c == AlertedAfter(r, b)
             q == NewRequest(s, "shopState", None, None)
             y == [x EXCEPT !.flight = Append(@, q)]
  <2> HIDE DEF x, c, q
  <2>4. CASE r.status = "ok"
    <3>1. Answered(w, s, r) = y
      BY <2>2, <2>3, <2>4 DEF q
    <3>2. Remembers(x, c)
      BY <2>1 DEF c
    <3>3. Remembers(y, c)
      BY <1>4, <3>2
    <3> QED
      BY <3>1, <3>3 DEF c
  <2>5. CASE r.status # "ok"
    <3>1. Answered(w, s, r) = Booted(x, s)
      BY <2>2, <2>3, <2>5, Zenon
    <3>2. Remembers(Answered(w, s, r), AlertedAfter(r, b))
      BY <1>3, <2>1, <3>1, Zenon
    <3> QED
      BY <3>2
  <2> QED
    BY <2>4, <2>5
<1>6. CASE r.kind \in Refresh \ {"boot"}
  <2>1. Answered(w, s, r) = refresh(w, s, r)
    BY <1>6 DEF Answered, Refresh
  <2> QED
    BY <1>1, <1>6, <2>1, RefreshRemembers
<1>7. CASE r.kind = "shopState"
  BY <1>2, <1>3, <1>7 DEF Answered, Refresh
<1>8. CASE r.kind \in {"issue", "recover"}
  <2> DEFINE x == [w EXCEPT !.cache = [id |-> r.row.id, handle |-> r.handle]]
  <2>1. Remembers(x, b)
    BY DEF Remembers
  <2>2. /\ Answered(w, s, r) = handleResult(w, s, r)
        /\ handleResult(w, s, r) = IF r.status # "ok" THEN Failed(w, s) ELSE goto(x, "ticket")
    BY <1>8 DEF Answered, Refresh, handleResult
  <2> HIDE DEF x
  <2>3. r.kind \notin Refresh
    BY <1>8 DEF Refresh
  <2> QED
    BY <1>2, <2>1, <2>2, <2>3, FailedRemembers, GotoRemembers
<1>11. Remembers(Confirmed(w, s, r), b)
  BY DEF Confirmed, Remembers
<1>9. CASE r.kind = "cancel"
  <2>1. Answered(w, s, r) = onCancelConfirm(w, s, r) /\ r.kind \notin Refresh
    BY <1>9 DEF Answered, Refresh
  <2> QED
    BY <1>2, <1>11, <2>1, FailedRemembers DEF onCancelConfirm
<1>10. CASE r.kind = "checkIn"
  <2> DEFINE q == NewRequest(s, "checkedIn", r.handle, None)
  <2>1. Answered(w, s, r) = onCheckIn(w, s, r) /\ r.kind \notin Refresh
    BY <1>10 DEF Answered, Refresh
  <2>2. Remembers([w EXCEPT !.flight = Append(@, q)], b)
    BY <1>4
  <2> QED
    BY <1>2, <2>1, <2>2, FailedRemembers DEF onCheckIn
<1>12. CASE r.kind = "reschedule"
  <2> DEFINE x == Confirmed(w, s, r)
             q == NewRequest(s, "rescheduled", r.handle, None)
  <2>1. /\ Answered(w, s, r) = onRescheduleConfirm(w, s, r) /\ r.kind \notin Refresh
        /\ onRescheduleConfirm(w, s, r)
             = IF r.status = "ok" THEN [x EXCEPT !.flight = Append(@, q)] ELSE w
    BY <1>12 DEF Answered, Refresh, onRescheduleConfirm
  <2> HIDE DEF x, q
  <2>2. Remembers([x EXCEPT !.flight = Append(@, q)], b)
    BY <1>4, <1>11 DEF x
  <2> QED
    BY <1>2, <2>1, <2>2
<1> QED
  BY <1>1, <1>5, <1>6, <1>7, <1>8, <1>9, <1>10, <1>12 DEF Kind, Operation

\* Nothing but an answer that is handed over touches the memory.
LEMMA QuietRemembers ==
  ASSUME tab \in Tab,
         \/ CustomerActs \/ ShopActs \/ ChimeTimeout
         \/ \E n \in 1..MaxFlight : Answer(n) \/ Lose(n)
         \/ \E s \in Slots : FeedOpens(s) \/ FeedRetries(s) \/ FeedDrops(s) \/ FeedDelivers(s)
  PROVE  tab'.alerted = tab.alerted /\ seen'.rung = seen.rung
<1> DEFINE b == tab.alerted
<1>1. Remembers(tab, b)
  BY DEF Tab, Remembers
<1> HIDE DEF b
<1>2. ASSUME NEW w, Remembers(w, b), Become(w) PROVE Remembers(tab', b)
  BY <1>2, CollectRemembers DEF Become
<1>3. Remembers(Broadcast(tab), b)
  BY <1>1 DEF Broadcast, Remembers
<1>4. Remembers(chimeStop(tab), b)
  BY <1>1 DEF chimeStop, Remembers
<1>5. \A f : Remembers([tab EXCEPT !.flight = f], b)
  BY <1>1 DEF Remembers
<1>6. Remembers(tab', b)
  <2>1. ASSUME NEW kind, NEW handle, NEW id, Send(kind, handle, id) PROVE Remembers(tab', b)
    BY <1>2, <1>5, <2>1 DEF Send
  <2>2. CASE CustomerActs
    <3>1. ASSUME NEW h, SubmitIssue(h) \/ SubmitRecover(h) PROVE Remembers(tab', b)
      BY <2>1, <3>1 DEF SubmitIssue, SubmitRecover
    <3>2. ASSUME NEW op, Operate(op) PROVE Remembers(tab', b)
      BY <2>1, <3>2 DEF Operate
    <3>3. ASSUME Retry PROVE Remembers(tab', b)
      BY <1>2, <1>5, <3>3 DEF Retry
    <3>4. ASSUME NEW route, Navigate(route) PROVE Remembers(tab', b)
      BY <1>1, <1>2, <3>4, GotoRemembers DEF Navigate
    <3>5. ASSUME NEW route, NEW expired, Open(route, expired) PROVE Remembers(tab', b)
      <4> DEFINE x == [tab EXCEPT !.cache = IF expired THEN None ELSE @]
      <4>1. Remembers(x, b) /\ tab' = onMount(x, route)
        BY <1>1, <3>5 DEF Open, Remembers
      <4> HIDE DEF x
      <4> QED
        BY <4>1, OnMountRemembers
    <3>6. ASSUME Close PROVE Remembers(tab', b)
      BY <1>1, <3>6 DEF Close, Remembers
    <3>7. ASSUME Acknowledge PROVE Remembers(tab', b)
      BY <1>4, <3>7 DEF Acknowledge
    <3>8. ASSUME NEW op, OpenDialog(op) \/ CloseDialog PROVE Remembers(tab', b)
      <4>1. \E d : tab' = [tab EXCEPT !.pages[tab.mounted].dialog = d]
        BY <3>8 DEF OpenDialog, CloseDialog, SetDialog
      <4> QED
        BY <1>1, <4>1 DEF Remembers
    <3> QED
      BY <2>2, <3>1, <3>2, <3>3, <3>4, <3>5, <3>6, <3>7, <3>8 DEF CustomerActs
  <2>3. CASE ShopActs
    BY <1>3, <2>3 DEF ShopActs, ShopCalls, ShopMoves, ShopServesOthers, ShopSets
  <2>4. CASE ChimeTimeout
    BY <1>4, <2>4 DEF ChimeTimeout
  <2>5. ASSUME NEW n, Answer(n) \/ Lose(n) PROVE Remembers(tab', b)
    <3>1. \E w \in {tab, Broadcast(tab)} : \E status, row : Reply(w, n, status, row)
      BY <2>5 DEF Answer, Lose, AnswerTicket, AnswerIssue, AnswerCancel, AnswerOperation, Refuse
    <3> QED
      BY <1>1, <1>3, <3>1 DEF Reply, Remembers
  <2>6. ASSUME NEW s,
               FeedOpens(s) \/ FeedRetries(s) \/ FeedDrops(s) \/ FeedDelivers(s)
        PROVE  Remembers(tab', b)
    <3>1. ASSUME NEW f PROVE Remembers([tab EXCEPT !.pages[s].feed = f], b)
      BY <1>1 DEF Remembers
    <3>2. ASSUME NEW f, FeedStep(s, f) PROVE Remembers(tab', b)
      BY <1>2, <3>1, <3>2 DEF FeedStep
    <3>3. CASE FeedDelivers(s)
      <4> DEFINE w == [tab EXCEPT !.pages[s].feed = onmessage(@)]
      <4>1. Remembers(w, b)
        BY <1>1 DEF Remembers
      <4>2. Become(w) \/ \E q : Become([w EXCEPT !.flight = Append(@, q)])
        BY <3>3 DEF FeedDelivers
      <4> HIDE DEF w
      <4>3. \A q : Remembers([w EXCEPT !.flight = Append(@, q)], b)
        BY <4>1 DEF Remembers
      <4> QED
        BY <1>2, <4>1, <4>2, <4>3
    <3> QED
      BY <2>6, <3>2, <3>3 DEF FeedOpens, FeedRetries, FeedDrops
  <2> QED
    BY <2>2, <2>3, <2>4, <2>5, <2>6
<1>7. tab'.alerted = tab.alerted
  BY <1>6 DEF Remembers, b
<1>8. seen'.rung = seen.rung
  <2>1. \/ UNCHANGED seen
        \/ \E odd : Remember(odd)
    BY DEF CustomerActs, SubmitIssue, SubmitRecover, Operate, Retry, Send, OpenDialog,
           CloseDialog, SetDialog, Navigate, Open, Close, Acknowledge, ShopActs, ShopCalls, ShopMoves, ShopServesOthers, ShopSets,
           ChimeTimeout, Answer, Lose, FeedOpens, FeedRetries, FeedDrops, FeedDelivers, FeedStep
  <2> QED
    BY <1>7, <2>1 DEF Remember, Alerting
<1> QED
  BY <1>7, <1>8


\* Every call of a ticket is one of those made.
LEMMA CallsAreNumbers ==
  ASSUME PhoneInv
  PROVE  /\ called \in Nat /\ seen.rung \in SUBSET Nat
         /\ active \in [Handles -> ActiveTicket \cup {None}]
         /\ \A h \in Handles : active[h] # None => active[h] \in ActiveTicket
         /\ \A h \in Handles : IsCalled(active[h]) => active[h].key \in Nat
         /\ tab \in Tab /\ Orderly(tab) /\ Keyed(tab.flight) /\ tab.flight \in Seq(Request)
<1>1. /\ called \in Nat /\ seen.rung \in SUBSET Nat
      /\ active \in [Handles -> ActiveTicket \cup {None}]
      /\ Orderly(tab)
  BY CustomerAssumption DEF PhoneInv, ShopTypes, SeenTypes, Standing
<1>2. \A h \in Handles : active[h] # None => active[h] \in ActiveTicket
  BY <1>1
<1>3. \A h \in Handles : IsCalled(active[h]) => active[h].key \in Nat
  BY <1>2, CustomerAssumption DEF IsCalled, ActiveTicket
<1> QED
  BY <1>1, <1>2, <1>3, FlightKeyed DEF Orderly, Tab

\* A step that hands over no answer: the tickets' calls are the ones they were
\* or newer, and requests are sent or not.
LEMMA QuietHeard ==
  ASSUME HeardInv, Grew(tab.flight, tab'.flight),
         tab'.alerted = tab.alerted, seen'.rung = seen.rung, seen.odd \subseteq seen'.odd,
         called' \in Nat, called <= called',
         \A h \in Handles : IsCalled(active'[h]) =>
           \/ IsCalled(active[h]) /\ active'[h].key = active[h].key
           \/ active'[h].key \in Nat /\ called < active'[h].key /\ active'[h].key <= called'
  PROVE  Heard(tab'.flight, active', called', tab'.alerted, seen'.rung, seen'.odd)
<1>1. SUFFICES ASSUME OneCustomer, seen'.odd = {}
               PROVE  InOrder(tab'.flight, active', called', tab.alerted, seen.rung)
  BY DEF Heard
<1>2. InOrder(tab.flight, active, called, tab.alerted, seen.rung)
  BY <1>1 DEF HeardInv, Heard
<1>3. InOrder(tab.flight, active', called', tab.alerted, seen.rung)
  <2>1. PhoneInv
    BY DEF HeardInv
  <2> QED
    BY <1>2, <2>1, CallsAreNumbers, ShopInOrder
<1> QED
  BY <1>3, GrowInOrder, CallsAreNumbers DEF HeardInv

LEMMA ShopHeard ==
  ASSUME HeardInv, ShopActs
  PROVE  Heard(tab'.flight, active', called', tab'.alerted, seen'.rung, seen'.odd)
<1>1. /\ called \in Nat /\ tab \in Tab
      /\ active \in [Handles -> ActiveTicket \cup {None}]
      /\ \A h \in Handles : active[h] # None => active[h] \in ActiveTicket
  BY CallsAreNumbers DEF HeardInv
<1>2. tab' = Broadcast(tab) /\ UNCHANGED seen
  BY DEF ShopActs, ShopCalls, ShopMoves, ShopServesOthers, ShopSets
<1>3. tab'.flight = tab.flight
  BY <1>1, <1>2 DEF Broadcast, Tab
<1>4. ASSUME NEW h \in Handles, ShopCalls(h) \/ ShopMoves(h), NEW k \in Handles,
             IsCalled(active'[k])
      PROVE  /\ called' \in Nat /\ called <= called'
             /\ \/ IsCalled(active[k]) /\ active'[k].key = active[k].key
                \/ active'[k].key \in Nat /\ called < active'[k].key /\ active'[k].key <= called'
  <2> DEFINE r == active[h]
             called1 == [r EXCEPT !.key = called + 1,
                           !.state = IF @ = "Waiting" THEN "Called" ELSE @]
             overdue == [r EXCEPT !.state = "Overdue"]
             waiting == [r EXCEPT !.state = "Waiting", !.key = 0]
  <2>1. r \in ActiveTicket /\ r # None
    BY <1>1, <1>4 DEF ShopCalls, ShopMoves
  <2>2. /\ called1.key = called + 1 /\ waiting.state = "Waiting" /\ overdue.key = r.key
    BY <2>1 DEF ActiveTicket
  <2>3. \/ ShopSets(h, called1) /\ called' = called + 1
        \/ /\ ShopSets(h, overdue) \/ ShopSets(h, waiting) \/ ShopSets(h, None)
           /\ called' = called
           /\ ShopSets(h, overdue) => r.state = "Called"
                                      \/ ShopSets(h, waiting) \/ ShopSets(h, None)
    BY <1>4 DEF ShopCalls, ShopMoves
  <2> HIDE DEF r, called1, overdue, waiting
  <2>4. ASSUME NEW row, ShopSets(h, row)
        PROVE  active'[h] = row /\ (k # h => active'[k] = active[k])
    BY <1>1, <2>4 DEF ShopSets
  <2>5. called' \in Nat /\ called <= called'
    BY <1>1, <2>3
  <2>6. CASE k # h
    <3>1. \E row : ShopSets(h, row)
      BY <2>3
    <3> QED
      BY <1>4, <2>4, <2>5, <2>6, <3>1
  <2>7. CASE k = h
    <3>1. CASE ShopSets(h, called1) /\ called' = called + 1
      BY <1>1, <2>2, <2>4, <2>7, <3>1
    <3>2. CASE ShopSets(h, overdue) /\ r.state = "Called"
      <4>1. IsCalled(active[k])
        BY <2>1, <2>7, <3>2 DEF IsCalled, r
      <4> QED
        BY <2>2, <2>4, <2>5, <2>7, <3>2, <4>1 DEF r
    <3>3. CASE ShopSets(h, waiting) \/ ShopSets(h, None)
      BY <1>4, <2>2, <2>4, <2>7, <3>3 DEF IsCalled
    <3> QED
      BY <2>3, <3>1, <3>2, <3>3
  <2> QED
    BY <2>6, <2>7
<1>5. ASSUME ShopServesOthers
      PROVE  UNCHANGED << active, called >>
  BY <1>5 DEF ShopServesOthers
<1>6. called' \in Nat /\ called <= called'
  <2>1. called' \in {called, called + 1}
    BY DEF ShopActs, ShopCalls, ShopMoves, ShopServesOthers
  <2> QED
    BY <1>1, <2>1
<1>7. \A k \in Handles : IsCalled(active'[k]) =>
        \/ IsCalled(active[k]) /\ active'[k].key = active[k].key
        \/ active'[k].key \in Nat /\ called < active'[k].key /\ active'[k].key <= called'
  BY <1>4, <1>5 DEF ShopActs
<1>8. tab'.alerted = tab.alerted
  BY <1>1, QuietRemembers
<1> QED
  BY <1>2, <1>3, <1>6, <1>7, <1>8, QuietHeard DEF Grew

\* The list of requests after an answer.
LEMMA ReplyFlight ==
  ASSUME PhoneInv, NEW n \in DOMAIN tab.flight, NEW w \in {tab, Broadcast(tab)},
         NEW status, NEW row, Reply(w, n, status, row)
  PROVE  LET q == WithReply(tab.flight[n], status, row)
         IN  /\ tab'.flight = [tab.flight EXCEPT ![n] = q]
             /\ q.kind = tab.flight[n].kind /\ q.status = status /\ q.row = row
<1> DEFINE r == tab.flight[n]
           q == WithReply(r, status, row)
<1>1. tab \in Tab /\ r \in Request
  BY CallsAreNumbers DEF Orderly, Sensible
<1>2. q.kind = r.kind /\ q.status = status /\ q.row = row
  BY <1>1 DEF Request, WithReply
<1>3. w \in [{"cache", "alerted", "playing", "pages", "mounted", "flight"} -> {w[x] : x \in
               {"cache", "alerted", "playing", "pages", "mounted", "flight"}}]
      /\ w.flight = tab.flight
  BY <1>1 DEF Tab, Broadcast
<1>4. tab' = [w EXCEPT !.flight = [w.flight EXCEPT ![n] = q]]
  BY <1>1, <1>3 DEF Reply, WithReply, Request
<1> HIDE DEF q
<1>5. tab'.flight = [w.flight EXCEPT ![n] = q]
  BY <1>3, <1>4
<1> QED
  BY <1>2, <1>3, <1>5 DEF q

LEMMA AnswerHeard ==
  ASSUME HeardInv, NEW n \in 1..MaxFlight, Answer(n)
  PROVE  Heard(tab'.flight, active', called', tab'.alerted, seen'.rung, seen'.odd)
<1> DEFINE r == tab.flight[n]
           f == tab.flight
<1>1. PhoneInv
  BY DEF HeardInv
<1>2. /\ n \in DOMAIN f /\ r.status = "sent" /\ UNCHANGED called
      /\ seen.odd \subseteq seen'.odd
  BY DEF Answer, Remember
<1>3. /\ called \in Nat /\ seen.rung \in SUBSET Nat /\ tab \in Tab
      /\ active \in [Handles -> ActiveTicket \cup {None}]
      /\ \A h \in Handles : IsCalled(active[h]) => active[h].key \in Nat
      /\ Orderly(tab) /\ Keyed(f)
  BY <1>1, CallsAreNumbers
<1>4. tab'.alerted = tab.alerted /\ seen'.rung = seen.rung
  BY <1>3, QuietRemembers
<1>5. SUFFICES ASSUME OneCustomer, seen'.odd = {}
               PROVE  InOrder(tab'.flight, active', called, tab.alerted, seen.rung)
  BY <1>2, <1>4 DEF Heard
<1>6. InOrder(f, active, called, tab.alerted, seen.rung)
  BY <1>2, <1>5 DEF HeardInv, Heard
<1>7. r.kind \in Refresh =>
        \A m \in DOMAIN f : m < n /\ f[m].kind \in Refresh => f[m].status # "sent"
  BY <1>5 DEF Answer, Remember, Overtaking, Brings
<1> HIDE DEF r, f
\* An answer that brings no call and misses no ticket, whatever it did.
<1>8. ASSUME NEW w \in {tab, Broadcast(tab)}, NEW status, NEW row, Reply(w, n, status, row),
             status # "sent",
             \A h \in Handles : IsCalled(active'[h]) =>
               IsCalled(active[h]) /\ active'[h].key = active[h].key,
             r.kind \in Refresh => UNCHANGED active,
             r.kind \in Refresh /\ status = "ok" /\ IsCalled(row) =>
               \E h \in Handles : IsCalled(active[h]) /\ row.key = active[h].key,
             r.kind \in Refresh /\ status = "TicketNotFound" =>
               \A h \in Handles : ~IsCalled(active[h])
      PROVE  InOrder(tab'.flight, active', called, tab.alerted, seen.rung)
  <2> DEFINE q == WithReply(r, status, row)
  <2>1. /\ tab'.flight = [f EXCEPT ![n] = q]
        /\ q.kind = r.kind /\ q.status = status /\ q.row = row
    BY <1>1, <1>2, <1>8, ReplyFlight DEF r, f
  <2> HIDE DEF q
  <2>2. InOrder(f, active', called, tab.alerted, seen.rung)
    BY <1>3, <1>6, <1>8, ShopInOrder
  <2>3. \A h \in Handles : IsCalled(active'[h]) => active'[h].key \in Nat
    BY <1>3, <1>8
  <2>4. Telling(q) \/ Missing(q) =>
          /\ f[n].status = "sent"
          /\ \A m \in DOMAIN f : m < n /\ f[m].kind \in Refresh => f[m].status # "sent"
    BY <1>2, <1>7, <2>1 DEF Telling, Missing, r, f
  <2>5. /\ Telling(q) => \E h \in Handles : IsCalled(active'[h]) /\ q.row.key = active'[h].key
        /\ Missing(q) => \A h \in Handles : ~IsCalled(active'[h])
    BY <1>8, <2>1 DEF Telling, Missing
  <2>6. q.status # "sent" /\ q.kind = f[n].kind
    BY <1>8, <2>1 DEF r, f
  <2>7. InOrder([f EXCEPT ![n] = q], active', called, tab.alerted, seen.rung)
    BY <1>2, <1>3, <1>5, <2>2, <2>3, <2>4, <2>5, <2>6, ReplyInOrder
  <2> QED
    BY <2>1, <2>7
<1>9. r.kind # "shopState" => r.handle \in Handles
  BY <1>2, <1>3 DEF Orderly, Sensible, r, f
<1>10. CASE AnswerTicket(n, r)
  <2>1. r.handle \in Handles /\ UNCHANGED active
    BY <1>9, <1>10 DEF AnswerTicket, Refresh
  <2>2. CASE active[r.handle] = None
    <3>1. Reply(tab, n, "TicketNotFound", None)
      BY <1>10, <2>2 DEF AnswerTicket
    <3>2. \A h \in Handles : ~IsCalled(active[h])
      BY <1>5, <2>1, <2>2 DEF OneCustomer, IsCalled
    <3> QED
      BY <1>8, <2>1, <3>1, <3>2
  <2>3. CASE active[r.handle] # None
    <3>1. Reply(tab, n, "ok", active[r.handle])
      BY <1>10, <2>3 DEF AnswerTicket
    <3> QED
      BY <1>8, <2>1, <3>1
  <2> QED
    BY <2>2, <2>3
<1>11. CASE AnswerIssue(n, r)
  <2>1. r.handle \in Handles /\ r.kind \notin Refresh
    BY <1>9, <1>11 DEF AnswerIssue, Refresh
  <2>2. CASE active[r.handle] # None
    BY <1>8, <1>11, <2>1, <2>2 DEF AnswerIssue
  <2>3. CASE active[r.handle] = None
    <3>1. /\ active' = [active EXCEPT ![r.handle] =
                          [id |-> issued + 1, state |-> "Waiting", key |-> 0]]
          /\ Reply(Broadcast(tab), n, "ok", active'[r.handle])
      BY <1>11, <2>3 DEF AnswerIssue
    <3>2. \A h \in Handles : IsCalled(active'[h]) => active'[h] = active[h]
      BY <1>3, <2>1, <3>1 DEF IsCalled
    <3> QED
      BY <1>8, <2>1, <3>1, <3>2
  <2> QED
    BY <2>2, <2>3
<1>12. CASE AnswerCancel(n, r)
  <2>1. r.handle \in Handles /\ r.kind \notin Refresh
    BY <1>9, <1>12 DEF AnswerCancel, Refresh
  <2>2. /\ active' = [active EXCEPT ![r.handle] = None]
        /\ \E row : Reply(Broadcast(tab), n, "ok", row)
    BY <1>12 DEF AnswerCancel
  <2>3. \A h \in Handles : IsCalled(active'[h]) => active'[h] = active[h]
    BY <1>3, <2>1, <2>2 DEF IsCalled
  <2> QED
    BY <1>8, <2>1, <2>2, <2>3
<1>13. CASE AnswerOperation(n, r)
  <2>1. /\ r.kind \notin Refresh /\ UNCHANGED active
        /\ Reply(Broadcast(tab), n, "ok", active[r.handle])
    BY <1>13 DEF AnswerOperation, Refresh
  <2> QED
    BY <1>8, <2>1
<1>14. CASE Refuse(n, r)
  <2>1. r.kind \notin Refresh /\ UNCHANGED active /\ Reply(tab, n, "refused", None)
    BY <1>14 DEF Refuse, Refresh, Operation
  <2> QED
    BY <1>8, <2>1
<1>15. CASE r.kind = "shopState" /\ Reply(tab, n, "ok", None) /\ UNCHANGED active
  <2>1. r.kind \notin Refresh
    BY <1>15 DEF Refresh
  <2> QED
    BY <1>8, <1>15, <2>1
<1> QED
  BY <1>10, <1>11, <1>12, <1>13, <1>14, <1>15 DEF Answer, r

LEMMA LoseHeard ==
  ASSUME HeardInv, NEW n \in 1..MaxFlight, Lose(n)
  PROVE  Heard(tab'.flight, active', called', tab'.alerted, seen'.rung, seen'.odd)
<1> DEFINE f == tab.flight
           q == WithReply(f[n], "NetworkError", None)
<1>1. PhoneInv /\ n \in DOMAIN f /\ UNCHANGED << active, called, seen >>
  BY DEF HeardInv, Lose
<1>2. /\ seen.rung \in SUBSET Nat /\ tab \in Tab /\ Keyed(f)
      /\ \A h \in Handles : IsCalled(active[h]) => active[h].key \in Nat
  BY <1>1, CallsAreNumbers
<1>3. tab'.alerted = tab.alerted
  BY <1>2, QuietRemembers
<1>4. tab'.flight = [f EXCEPT ![n] = q] /\ q.kind = f[n].kind /\ q.status = "NetworkError"
  BY <1>1, ReplyFlight DEF Lose
<1> HIDE DEF q, f
<1>5. ~Telling(q) /\ ~Missing(q) /\ q.status # "sent"
  BY <1>4 DEF Telling, Missing
<1>6. ASSUME OneCustomer, InOrder(f, active, called, tab.alerted, seen.rung)
      PROVE  InOrder([f EXCEPT ![n] = q], active, called, tab.alerted, seen.rung)
  BY <1>1, <1>2, <1>4, <1>5, <1>6, ReplyInOrder
<1> QED
  BY <1>1, <1>3, <1>4, <1>6 DEF HeardInv, Heard, f

\* The mounted page takes the oldest answer about its ticket.
LEMMA ReceiveHeard ==
  ASSUME HeardInv, NEW n \in 1..MaxFlight, Receive(n)
  PROVE  /\ Heard(tab'.flight, active', called', tab'.alerted, seen'.rung, seen'.odd)
         /\ OneCustomer /\ Alerting /\ seen'.odd = {} => tab'.alerted \notin seen.rung
<1> DEFINE r == tab.flight[n]
           f == tab.flight
           F == RemoveAt(f, n)
           w == [tab EXCEPT !.flight = RemoveAt(@, n)]
           v == Answered(w, r.page, r)
           b == AlertedAfter(r, tab.alerted)
           rung == RungAfter(b, tab.alerted, seen.rung)
<1>1. n \in DOMAIN f /\ PhoneInv /\ Good(tab) /\ UNCHANGED << active, called >>
  BY StandingFacts DEF Receive, HeardInv, PhoneInv
<1>2. /\ seen.rung \in SUBSET Nat /\ tab \in Tab /\ Keyed(f) /\ called \in Nat
      /\ \A h \in Handles : IsCalled(active[h]) => active[h].key \in Nat
  BY <1>1, CallsAreNumbers
<1>3. Good(w) /\ Taken(r, w)
  <2>1. /\ Good(w) /\ w.pages = tab.pages
        /\ r.kind \in Booter => BootsAlone(w, r.page)
    BY <1>1, TakeKeeps
  <2>2. Sensible(r) /\ Belongs(r, tab)
    BY <1>1 DEF Good, Orderly
  <2> QED
    BY <2>1, <2>2 DEF Taken, Belongs
<1>4. w.flight = F /\ F \in Seq(Request) /\ Remembers(w, tab.alerted)
  <2>1. F \in Seq(Request)
    BY <1>1, <1>2, RemovedRequest DEF Keyed
  <2> QED
    BY <1>2, <2>1 DEF Tab, Remembers
<1> HIDE DEF w, F
<1>5. Effect(w, r, v) /\ Sound(v) /\ Become(v) /\ Remembers(v, b)
  BY <1>3, <1>4, AnsweredHandled, AnsweredRemembers DEF Handled, Receive, w
<1>6. /\ seen'.rung = IF Alerting THEN seen.rung \cup {tab'.alerted} ELSE seen.rung
      /\ seen'.odd = seen.odd \cup CalledBack(r.page) \cup Overtaking(DOMAIN f, n)
  <2>1. Remember(CalledBack(r.page) \cup Overtaking(DOMAIN f, n))
    BY DEF Receive
  <2>2. seen.odd \cup (CalledBack(r.page) \cup Overtaking(DOMAIN f, n))
          = seen.odd \cup CalledBack(r.page) \cup Overtaking(DOMAIN f, n)
    OBVIOUS
  <2> QED
    BY <2>1, <2>2 DEF Remember
<1> HIDE DEF v
<1>7. tab'.flight = v.flight /\ tab'.alerted = b
  <2>1. tab' = Collect(v) /\ Orderly(v)
    BY <1>5 DEF Become, Sound
  <2> QED
    BY <1>5, <2>1, CollectKeeps, CollectRemembers DEF Remembers
<1>8. Grew(F, tab'.flight)
  BY <1>4, <1>5, <1>7 DEF Effect
<1>9. seen'.rung = rung
  BY <1>6, <1>7 DEF RungAfter, Alerting
<1> HIDE DEF b, rung
<1>10. SUFFICES ASSUME OneCustomer, seen'.odd = {}
                PROVE  /\ InOrder(tab'.flight, active, called, b, rung)
                       /\ b # None /\ b # tab.alerted => b \notin seen.rung
  BY <1>1, <1>7, <1>9 DEF Heard, Alerting
<1>11. /\ seen.odd = {}
       /\ r.kind \in Refresh => \A m \in DOMAIN f : f[m].kind \in Refresh => ~(m < n)
  <2>1. seen.odd = {} /\ Overtaking(DOMAIN f, n) = {}
    BY <1>6, <1>10
  <2> QED
    BY <2>1 DEF Overtaking, Brings
<1>12. InOrder(f, active, called, tab.alerted, seen.rung)
  BY <1>10, <1>11 DEF HeardInv, Heard
<1>13. Telling(r) \/ Missing(r) => \A m \in DOMAIN f : f[m].kind \in Refresh => ~(m < n)
  BY <1>11 DEF Telling, Missing
<1>14. /\ InOrder(F, active, called, b, rung)
       /\ b # None /\ b # tab.alerted => b \notin seen.rung
  <2> HIDE DEF f
  <2>1. r = f[n] /\ n \in DOMAIN f
    BY <1>1 DEF f
  <2> HIDE DEF r
  <2> QED
    BY <1>2, <1>12, <1>13, <2>1, TakeInOrder DEF F, b, rung
<1> QED
  BY <1>4, <1>8, <1>14, GrowInOrder

LEMMA HeardStep ==
  ASSUME HeardInv, [PhoneNext]_phoneVars
  PROVE  /\ HeardInv'
         /\ OneCustomer /\ Alerting /\ seen'.odd = {} => tab'.alerted \notin seen.rung
<1> DEFINE Now == Heard(tab'.flight, active', called', tab'.alerted, seen'.rung, seen'.odd)
<1>1. PhoneInv /\ PhoneInv' /\ tab \in Tab /\ called \in Nat
  BY PhoneStep, CallsAreNumbers DEF HeardInv
<1>2. ASSUME Grew(tab.flight, tab'.flight), UNCHANGED << active, called >>,
             tab'.alerted = tab.alerted, seen'.rung = seen.rung, seen.odd \subseteq seen'.odd
      PROVE  Now
  BY <1>1, <1>2, QuietHeard
<1> HIDE DEF Now
<1>3. ASSUME Drift(tab'), UNCHANGED << active, issued >>, UNCHANGED called,
             seen.odd \subseteq seen'.odd,
             tab'.alerted = tab.alerted, seen'.rung = seen.rung
      PROVE  Now /\ ~Alerting
  <2>1. Grew(tab.flight, tab'.flight) /\ UNCHANGED << active, called >>
    BY <1>3 DEF Drift
  <2> QED
    BY <1>2, <1>3, <2>1 DEF Alerting
<1>4. ASSUME CustomerActs PROVE Now /\ ~Alerting
  <2>1. UNCHANGED called
    BY <1>4 DEF CustomerActs, SubmitIssue, SubmitRecover, Operate, Retry, Send, OpenDialog,
                CloseDialog, SetDialog, Navigate, Open, Close, Acknowledge
  <2>2. Drift(tab') /\ UNCHANGED << active, issued, seen >>
    BY <1>1, <1>4, CustomerDrifts
  <2>3. tab'.alerted = tab.alerted /\ seen'.rung = seen.rung
    BY <1>1, <1>4, QuietRemembers
  <2> QED
    BY <1>3, <2>1, <2>2, <2>3
<1>5. ASSUME ShopActs PROVE Now /\ ~Alerting
  <2>1. tab'.alerted = tab.alerted
    BY <1>1, <1>5, QuietRemembers
  <2> QED
    BY <1>5, <2>1, ShopHeard DEF Alerting, Now
<1>6. ASSUME ChimeTimeout PROVE Now /\ ~Alerting
  <2>1. UNCHANGED called
    BY <1>6 DEF ChimeTimeout
  <2>2. Drift(tab') /\ UNCHANGED << active, issued, seen >>
    BY <1>1, <1>6, TimeoutDrifts
  <2>3. tab'.alerted = tab.alerted /\ seen'.rung = seen.rung
    BY <1>1, <1>6, QuietRemembers
  <2> QED
    BY <1>3, <2>1, <2>2, <2>3
<1>7. ASSUME NEW n \in 1..MaxFlight, Answer(n) \/ Lose(n)
      PROVE  Now /\ ~Alerting
  <2>1. tab'.alerted = tab.alerted
    BY <1>1, <1>7, QuietRemembers
  <2> QED
    BY <1>7, <2>1, AnswerHeard, LoseHeard DEF Alerting, Now
<1>8. ASSUME NEW n \in 1..MaxFlight, Receive(n)
      PROVE  /\ Now
             /\ OneCustomer /\ Alerting /\ seen'.odd = {} => tab'.alerted \notin seen.rung
  BY <1>8, ReceiveHeard DEF Now
<1>9. ASSUME NEW s \in Slots,
             FeedOpens(s) \/ FeedRetries(s) \/ FeedDrops(s) \/ FeedDelivers(s)
      PROVE  Now /\ ~Alerting
  <2>1. UNCHANGED called
    BY <1>9 DEF FeedOpens, FeedRetries, FeedDrops, FeedDelivers, FeedStep
  <2>2. Drift(tab') /\ UNCHANGED << active, issued >> /\ seen.odd \subseteq seen'.odd
    BY <1>1, <1>9, FeedDrifts
  <2>3. tab'.alerted = tab.alerted /\ seen'.rung = seen.rung
    BY <1>1, <1>9, QuietRemembers
  <2> QED
    BY <1>3, <2>1, <2>2, <2>3
<1>10. ASSUME UNCHANGED phoneVars PROVE Now /\ ~Alerting
  <2>1. UNCHANGED << active, called, tab, seen >>
    BY <1>10 DEF phoneVars
  <2> QED
    BY <1>2, <2>1 DEF Grew, Alerting
<1>11. /\ Now
       /\ OneCustomer /\ Alerting /\ seen'.odd = {} => tab'.alerted \notin seen.rung
  BY <1>4, <1>5, <1>6, <1>7, <1>8, <1>9, <1>10 DEF PhoneNext
<1>12. Heard(tab.flight, active, called, tab.alerted, seen.rung, seen.odd)'
  BY <1>11 DEF Now, Heard, InOrder, Telling, Missing, IsCalled, Newer, Unheard
<1> QED
  BY <1>1, <1>11, <1>12 DEF HeardInv

\* A device of one customer alerts once for a call and once for a nudge, page
\* loads, reconnects and lost answers included, as long as no page that was
\* left is called back and answers about the ticket come in their order.
THEOREM AlertedOnce == PhoneSpec => AlertsOncePerKey
<1>1. PhoneInit => HeardInv
  <2> SUFFICES ASSUME PhoneInit PROVE HeardInv
    OBVIOUS
  <2>1. PhoneInv
    BY PhoneStarts
  <2>2. tab.flight = << >> /\ seen.rung = {} /\ \A h \in Handles : active[h] = None
    BY DEF PhoneInit
  <2> QED
    BY <2>1, <2>2 DEF HeardInv, Heard, InOrder, IsCalled
<1>2. HeardInv /\ [PhoneNext]_phoneVars => HeardInv'
  BY HeardStep
<1>3. HeardInv /\ [PhoneNext]_phoneVars =>
        [OneCustomer /\ Alerting /\ seen'.odd = {} => tab'.alerted \notin seen.rung]_phoneVars
  BY HeardStep
<1> QED
  BY <1>1, <1>2, <1>3, PTL DEF PhoneSpec, AlertsOncePerKey

=============================================================================
