\* Two tickets, two overlapping use cases, a snapshot every other event.
SPECIFICATION Spec
CONSTANTS
  TicketIds = {t1, t2}
  Handles = {h1, h2}
  None = None
  Writers = {w1, w2}
  IssueForms <- MCReservations
  Targets = {2}
  SnapshotInterval = 2
  MaxBatch = 2
  MaxRevision = 4
  Repeats = FALSE
SYMMETRY Symmetry
INVARIANT TypeOK
INVARIANT RevisionIsLogLength
INVARIANT HeldIsCurrent
INVARIANT LogIsLegal
INVARIANT LoadAgreesWithRow
PROPERTY StoreIsAtomic
CHECK_DEADLOCK FALSE
