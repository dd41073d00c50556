\* One ticket, issued as a reservation without an instant.
SPECIFICATION Spec
CONSTANTS
  TicketIds = {t1}
  Handles = {h1}
  Endpoints = {e1}
  None = None
  IssueForms <- MCUndatedForms
  RescheduleTargets <- MCTargets
  MaxTime = 4
  OverdueAfterCalled = 1
  NudgeInterval = 1
  MaxNudges = 2
  AppointmentGrace = 1
  FallbackReArm = 2
  CallGrace = 1
  CheckInWindow = 1
  Granularity = 1
  SlotCapacity = 1
  PushEnabled = TRUE
INVARIANT NextCallableFindsWaiting
CHECK_DEADLOCK FALSE
