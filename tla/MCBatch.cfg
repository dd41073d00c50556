\* One use case, and batches that may name a ticket twice.
SPECIFICATION Spec
CONSTANTS
  TicketIds = {t1, t2}
  Handles = {h1, h2}
  None = None
  Writers = {w1}
  IssueForms <- MCReservations
  Targets = {2}
  SnapshotInterval = 2
  MaxBatch = 2
  MaxRevision = 4
  Repeats = TRUE
PROPERTY BatchAllOrNothing
CHECK_DEADLOCK FALSE
