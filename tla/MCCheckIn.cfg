\* One ticket, one use case at a time, no snapshot yet.
SPECIFICATION Spec
CONSTANTS
  TicketIds = {t1}
  Handles = {h1}
  None = None
  Writers = {w1}
  IssueForms <- MCReservations
  Targets = {2}
  SnapshotInterval = 200
  MaxBatch = 2
  MaxRevision = 4
  Repeats = FALSE
INVARIANT RowIsFold
CHECK_DEADLOCK FALSE
