\* A deployment one unit east of UTC: the slot a customer picked and the instant
\* it is booked at.
SPECIFICATION ApiSpec
CONSTANTS
  TicketIds = {t1}
  Handles = {h1}
  Endpoints = {e1}
  None = None
  Malformed = Malformed
  IssueForms <- MCForms
  RescheduleTargets = {1, 2}
  Slots = {1, 2}
  UtcOffset = 1
  WaitingPreview = 2
  TtlSeconds = 1
  MaxTime = 1
  OverdueAfterCalled = 0
  NudgeInterval = 0
  MaxNudges = 1
  AppointmentGrace = 0
  FallbackReArm = 1
  CallGrace = 0
  CheckInWindow = 0
  Granularity = 1
  SlotCapacity = 1
  PushEnabled = FALSE
PROPERTY PickedSlotIsBooked
CHECK_DEADLOCK FALSE
