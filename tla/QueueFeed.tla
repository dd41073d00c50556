------------------------------ MODULE QueueFeed ------------------------------
(***************************************************************************)
(* connectQueueFeed of apps/web/src/lib/api.ts: the reconnecting WebSocket *)
(* a page holds to the queue.  A feed is a record, and each callback of    *)
(* its socket an operator from the feed before to the feed after.          *)
(*                                                                         *)
(* Messages carry the public projection, which no page of the customer     *)
(* acts on: a page reacts to one by asking for its own ticket.  So only    *)
(* whether an undelivered message exists is kept (news).                   *)
(***************************************************************************)
EXTENDS Naturals

CONSTANTS
  None,         \* null or undefined
  MaxAttempts   \* RECONNECT_DELAYS_MS.length

ASSUME FeedAssumption == MaxAttempts \in Nat

Feed == [phase       : {"none", "connecting", "open", "delay", "retrying", "closed"},
         attempt     : 0..MaxAttempts,
         manualClose : BOOLEAN,
         news        : BOOLEAN]

\* The variable before connectQueueFeed has returned a handle.
NoFeed == [phase |-> "none", attempt |-> 0, manualClose |-> FALSE, news |-> FALSE]

connectQueueFeed == [NoFeed EXCEPT !.phase = "connecting"]

\* What onState last reported: the delay and the connecting that follows it
\* look the same from outside.
QueueFeedState(f) ==
  IF f.phase \in {"delay", "retrying"} THEN "reconnecting" ELSE f.phase

Dialing(f) == f.phase \in {"connecting", "retrying"}

\* The feed has a socket, or a timer that will make one.
FeedAlive(f) == f.phase \notin {"none", "closed"}

\* The actor sends the current projection to every socket it accepts.
onopen(f) == [f EXCEPT !.phase = "open", !.attempt = 0, !.news = TRUE]

onmessage(f) == [f EXCEPT !.news = FALSE]

\* Slip: one reconnect more than there are delays.
oncloseOncePast(f) ==
  IF f.manualClose \/ f.attempt > MaxAttempts
  THEN [f EXCEPT !.phase = "closed", !.news = FALSE]
  ELSE [f EXCEPT !.phase = "delay", !.attempt = @ + 1, !.news = FALSE]

onclose(f) ==
  IF f.manualClose \/ f.attempt >= MaxAttempts
  THEN [f EXCEPT !.phase = "closed", !.news = FALSE]
  ELSE [f EXCEPT !.phase = "delay", !.attempt = @ + 1, !.news = FALSE]

reconnect(f) == [f EXCEPT !.phase = "retrying"]

\* Slip: only a socket that has opened is closed.
closeWhenOpen(f) ==
  [f EXCEPT !.manualClose = @ \/ f.phase # "none",
            !.phase = IF f.phase = "open" THEN "closed" ELSE @,
            !.news = FALSE]

\* The handle's close().  A socket that is dialing or open is done with; the
\* timer of a feed between two sockets is not cancelled.
close(f) ==
  [f EXCEPT !.manualClose = @ \/ f.phase # "none",
            !.phase = IF Dialing(f) \/ f.phase = "open" THEN "closed" ELSE @,
            !.news = FALSE]

\* broadcastProjection reaches every open socket.
broadcast(f) == [f EXCEPT !.news = @ \/ f.phase = "open"]

=============================================================================
