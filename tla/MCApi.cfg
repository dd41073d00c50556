\* Two tickets and two customers behind the HTTP surface, on UTC.
SPECIFICATION ApiSpec
CONSTANTS
  TicketIds = {t1, t2}
  Handles = {h1, h2}
  Endpoints = {e1}
  None = None
  Malformed = Malformed
  IssueForms <- MCForms
  RescheduleTargets = {0, 1}
  Slots = {1}
  UtcOffset = 0
  WaitingPreview = 2
  TtlSeconds = 1
  MaxTime = 1
  OverdueAfterCalled = 1
  NudgeInterval = 0
  MaxNudges = 1
  AppointmentGrace = 0
  FallbackReArm = 1
  CallGrace = 0
  CheckInWindow = 0
  Granularity = 1
  SlotCapacity = 1
  PushEnabled = FALSE
SYMMETRY Symmetry
INVARIANT AnswersAsDocumented
INVARIANT SlotsViewAgrees
PROPERTY PositionNeverGrows
PROPERTY RefusalChangesNothing
PROPERTY FeedFollows
PROPERTY RescheduleNeverOverbooks
CHECK_DEADLOCK FALSE
