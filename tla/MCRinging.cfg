\* One customer, one ticket, one call, and the cancel button.
SPECIFICATION PhoneSpec
CONSTANTS
  None = None
  Handles = {h1}
  Slots = {s1, s2, s3}
  Operations = {"cancel"}
  MaxFlight = 2
  MaxTickets = 1
  MaxKeys = 1
  MaxAttempts = 1
INVARIANT TerminalEndsChime
CONSTRAINT Regular
CHECK_DEADLOCK FALSE
