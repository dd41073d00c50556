\* One customer, one ticket, one call, and a feed that is given up.
SPECIFICATION PhoneSpec
CONSTANTS
  None = None
  Handles = {h1}
  Slots = {s1, s2, s3}
  Operations = {}
  MaxFlight = 2
  MaxTickets = 1
  MaxKeys = 1
  MaxAttempts = 1
PROPERTY CallHeardOrShown
CONSTRAINT Regular
CHECK_DEADLOCK FALSE
