\* Two tickets and two customers on a punctual and fair platform.
SPECIFICATION LiveSpec
CONSTANTS
  TicketIds = {t1, t2}
  Handles = {h1, h2}
  Endpoints = {e1}
  None = None
  IssueForms <- MCForms
  RescheduleTargets = {}
  MaxTime = 12
  OverdueAfterCalled = 2
  NudgeInterval = 2
  MaxNudges = 1
  AppointmentGrace = 5
  FallbackReArm = 4
  CallGrace = 0
  CheckInWindow = 0
  Granularity = 1
  SlotCapacity = 1
  PushEnabled = TRUE
INVARIANT ActiveHandleUnique
INVARIANT DisplaySeqUnique
INVARIANT ResolvedInTime
PROPERTY CalledEventuallyResolved
CHECK_DEADLOCK FALSE
