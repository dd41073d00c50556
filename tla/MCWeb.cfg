SPECIFICATION WebSpec
CONSTANTS
  None = None
  Null = Null
  Handles = {h1}
  Slots = {s1, s2, s3}
  Operations = {"cancel", "checkIn"}
  MaxFlight = 2
  MaxTickets = 1
  MaxKeys = 1
  MaxAttempts = 1
  Flows = {f1, f2}
  MaxEndpoints = 3
  MaxHeld = 2
  Tokens = {k1, k2}
  MaxCalls = 2
  MaxVersion = 1
INVARIANT WebTypeOK
INVARIANT ChimeControlled
INVARIANT FeedDiesWithPage
INVARIANT DeadRowsAreRemembered
INVARIANT BoardNeedsSession
INVARIANT KeptTokenWasTaken
INVARIANT OneActionAtATime
PROPERTY ForgetsOnlyClosed
PROPERTY AlertsOncePerKey
PROPERTY SessionEndsForCause
PROPERTY CallHeard
PROPERTY ClosedTicketIsLeft
PROPERTY SubscribedInTheEnd
PROPERTY BusyEnds
PROPERTY BoardCatchesUp
CONSTRAINT WebBound
CHECK_DEADLOCK FALSE
