\* One ticket, one subscription; every push may fail.
SPECIFICATION Spec
CONSTANTS
  TicketIds = {t1}
  Handles = {h1}
  Endpoints = {e1}
  None = None
  IssueForms <- MCIssueForms
  RescheduleTargets <- MCTargets
  MaxTime = 4
  OverdueAfterCalled = 1
  NudgeInterval = 1
  MaxNudges = 2
  AppointmentGrace = 1
  FallbackReArm = 2
  CallGrace = 1
  CheckInWindow = 1
  Granularity = 1
  SlotCapacity = 1
  PushEnabled = TRUE
PROPERTY OutageNeverAdvancesCount
CHECK_DEADLOCK FALSE
