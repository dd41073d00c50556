\* One ticket, two subscriptions: every timing of one customer's nudges.
SPECIFICATION Spec
CONSTANTS
  TicketIds = {t1}
  Handles = {h1}
  Endpoints = {e1, e2}
  None = None
  IssueForms <- MCIssueForms
  RescheduleTargets <- MCTargets
  MaxTime = 8
  OverdueAfterCalled = 1
  NudgeInterval = 1
  MaxNudges = 2
  AppointmentGrace = 1
  FallbackReArm = 2
  CallGrace = 1
  CheckInWindow = 1
  Granularity = 1
  SlotCapacity = 1
  PushEnabled = TRUE
SYMMETRY Symmetry
INVARIANT TypeOK
INVARIANT TerminalHoldsNoSubscription
INVARIANT ActiveKeepsAlarm
INVARIANT PushAnnouncesRecordedCount
INVARIANT NudgeSchedule
PROPERTY SystemNoShowNotEarly
PROPERTY LapseOnlyAfterGrace
PROPERTY NudgeKeepsState
PROPERTY TerminalAbsorbing
CHECK_DEADLOCK FALSE
