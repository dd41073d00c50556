----------------------------- MODULE TicketStore -----------------------------
(***************************************************************************)
(* The event-sourced ticket repository over SQLite                         *)
(* (apps/default/src/server/adapters/DurableObjectTicketRepositoryLive.ts):*)
(* an event log, a row with a revision and, every SnapshotInterval events, *)
(* a snapshot per ticket.  Use cases load, decide and save; save refuses a *)
(* revision that has moved on.                                             *)
(*                                                                         *)
(* Inside the actor no two use cases overlap; the revision check is there  *)
(* for callers that do, and this module lets any number of them.  A use    *)
(* case saves one event per ticket.  The outbox repeats the log and is     *)
(* left out.                                                               *)
(***************************************************************************)
EXTENDS Projection

CONSTANTS TicketIds,
          Writers,           \* use cases in progress
          IssueForms,        \* <<lane, appointmentAt>> pairs
          Targets,           \* instants a booking may be moved to
          SnapshotInterval,  \* SNAPSHOT_INTERVAL
          MaxBatch,          \* bound on the length of a batch
          MaxRevision,       \* bound on the events of a ticket
          Repeats            \* a batch may name a ticket twice

\* LoadedAggregate; its state is None where nothing is stored.
Aggregate == [state : Ticket \cup {None}, revision : Nat]

Absent == [state |-> None, revision |-> 0]

ASSUME TicketStoreAssumption ==
  /\ SnapshotInterval \in Nat \ {0}
  /\ MaxBatch \in Nat /\ MaxRevision \in Nat \ {0}
  /\ IssueForms \subseteq Lane \X (Instant \cup {None})
  /\ Targets \subseteq Instant
  /\ Repeats \in BOOLEAN

VARIABLES
  log,       \* ticket_events: per ticket, the events in seq order
  row,       \* tickets: the projected row and its revision
  snapshot,  \* aggregate_snapshots: the latest, or Absent
  held       \* what each use case has loaded, in order

store == << log, row, snapshot >>
vars == << log, row, snapshot, held >>

Loaded == [id : TicketIds, state : Ticket, expected : Nat]

Exists(i) == row[i].state # None

TypeOK ==
  /\ log \in [TicketIds -> Seq(TicketEvent)]
  /\ row \in [TicketIds -> Aggregate]
  /\ snapshot \in [TicketIds -> Aggregate]
  /\ held \in [Writers -> Seq(Loaded)]
  /\ \A i \in TicketIds : Exists(i) => VariantShape(row[i].state)

Init ==
  /\ log = [i \in TicketIds |-> << >>]
  /\ row = [i \in TicketIds |-> Absent]
  /\ snapshot = [i \in TicketIds |-> Absent]
  /\ held = [w \in Writers |-> << >>]

Rows == [i \in TicketIds |-> row[i].state]

\* Slip: seq >= revision instead of seq > revision.
tailWithBase(i) ==
  SubSeq(log[i], IF snapshot[i] = Absent THEN 1 ELSE snapshot[i].revision, Len(log[i]))

\* The events after the snapshot, or all of them without one.
tail(i) == SubSeq(log[i], snapshot[i].revision + 1, Len(log[i]))

\* The fold of the tail over the snapshot; the row, when there is neither.
load(i) ==
  IF snapshot[i] = Absent /\ log[i] = << >> THEN row[i]
  ELSE [state    |-> replay(snapshot[i].state, tail(i)),
        revision |-> snapshot[i].revision + Len(tail(i))]

-----------------------------------------------------------------------------
\* An instant later than all those of the tickets written.
Now(ids) ==
  1 + CHOOSE n \in {Len(log[i]) : i \in ids} : \A i \in ids : n >= Len(log[i])

Times == 1 .. MaxRevision

\* The committed tickets are the rows; LoadAgreesWithRow says that loads agree.
Atomic == INSTANCE AtomicQueue WITH agg <-
  [i \in TicketIds |-> IF Exists(i)
                       THEN [row[i].state EXCEPT
                               !.checkedInAt = IF @ = None THEN None ELSE 0]
                       ELSE None]

\* Slip: the row keeps its revision.
stuckRevision(i) == IF Exists(i) THEN row[i].revision ELSE 1

nextRevision(i) == row[i].revision + 1

\* Appends the event of each result, replaces the row and, at a multiple of
\* the interval, the snapshot.
Persist(results) ==
  LET saved(i) == [state |-> results[i].ticket, revision |-> nextRevision(i)]
      ids == DOMAIN results
  IN  /\ log' = [i \in TicketIds |->
                   IF i \in ids THEN Append(log[i], results[i].event) ELSE log[i]]
      /\ row' = [i \in TicketIds |-> IF i \in ids THEN saved(i) ELSE row[i]]
      /\ snapshot' = [i \in TicketIds |->
                        IF i \in ids /\ nextRevision(i) % SnapshotInterval = 0
                        THEN saved(i) ELSE snapshot[i]]

Release(w) == held' = [held EXCEPT ![w] = << >>]

Issue(i) ==
  /\ ~Exists(i)
  /\ \E h \in Handles, form \in IssueForms :
       /\ findActiveByHandle(Rows, h) = {}
       /\ Persist([j \in {i} |->
                     applyIssue(form[1], h, nextDisplaySeq(Rows), form[2], Now({i}))])
  /\ UNCHANGED held

AllWaiting(ms) == \A n \in DOMAIN ms : ms[n].state.state = "Waiting"

\* A use case loads a ticket; only CallBatch loads more than one, and it
\* goes on only while its members wait.
Load(w, i) ==
  /\ Len(held[w]) < MaxBatch
  /\ load(i).state # None
  /\ load(i).revision < MaxRevision
  /\ held[w] # << >> =>
       /\ AllWaiting(held[w])
       /\ load(i).state.state = "Waiting"
       /\ Repeats \/ \A n \in DOMAIN held[w] : held[w][n].id # i
  /\ held' = [held EXCEPT ![w] = Append(@, [id |-> i, state |-> load(i).state,
                                            expected |-> load(i).revision])]
  /\ UNCHANGED store

\* The use case refuses what it loaded.
Refuse(w) ==
  /\ held[w] # << >>
  /\ Release(w)
  /\ UNCHANGED store

\* Slip: only the first member of a batch is verified.
firstIsStale(ms) == ms[1].expected # row[ms[1].id].revision

\* Slip: nothing is verified.
neverStale(ms) == FALSE

stale(ms) == \E n \in DOMAIN ms : ms[n].expected # row[ms[n].id].revision

ConcurrencyError(w) ==
  /\ held[w] # << >>
  /\ stale(held[w])
  /\ Release(w)
  /\ UNCHANGED store

save(w) ==
  /\ Len(held[w]) = 1
  /\ ~stale(held[w])
  /\ LET m == held[w][1]
     IN  \E r \in Atomic!Results(m.state, Now({m.id})) : Persist([i \in {m.id} |-> r])
  /\ Release(w)

\* The positions before the first one that names an earlier member again:
\* there the INSERT of the event meets the unique (ticket_id, seq).
Inserted(ms) ==
  {n \in DOMAIN ms : \A p, q \in 1 .. n : p # q => ms[p].id # ms[q].id}

\* CallBatch.  What was inserted before the failing member stays.
saveBatch(w) ==
  /\ Len(held[w]) > 1
  /\ AllWaiting(held[w])
  /\ ~stale(held[w])
  /\ LET ms == held[w]
         ids == {ms[n].id : n \in Inserted(ms)}
         state(i) == ms[CHOOSE n \in Inserted(ms) : ms[n].id = i].state
     IN  Persist([i \in ids |-> applyCall(state(i), Now(ids))])
  /\ Release(w)

Next ==
  \/ \E i \in TicketIds : Issue(i)
  \/ \E w \in Writers : \/ \E i \in TicketIds : Load(w, i)
                        \/ Refuse(w)
                        \/ ConcurrencyError(w)
                        \/ save(w)
                        \/ saveBatch(w)

Spec == Init /\ [][Next]_vars

-----------------------------------------------------------------------------
\* The seq column is the row's revision continued: no event is skipped and
\* none inserted twice.
RevisionIsLogLength ==
  \A i \in TicketIds : row[i].revision = Len(log[i])

\* What a use case loaded is either what it would load now or older by
\* revision, which save then notices.
HeldIsCurrent ==
  \A w \in Writers : \A n \in DOMAIN held[w] :
    LET m == held[w][n]
    IN  /\ m.expected <= row[m.id].revision
        /\ m.expected = row[m.id].revision =>
             load(m.id) = [state |-> m.state, revision |-> m.expected]

\* The decision of a use case is never about a state another one replaced:
\* the fold honours every event of the log (ADR-0051), save for the arrival
\* instant of a repeated check-in.
LogIsLegal ==
  \A i \in TicketIds : \A n \in DOMAIN log[i] :
    LET before == replay(None, SubSeq(log[i], 1, n - 1))
    IN  \/ Honoured(before, log[i][n])
        \/ log[i][n].type = "CheckedIn" /\ In(before, {"Waiting"})

\* The log alone gives every row (ADR-0059), and so does the log from the
\* last snapshot on, at the row's revision; arrival instants aside.
LoadAgreesWithRow ==
  \A i \in TicketIds : Exists(i) =>
    /\ Atomic!Blur(replay(None, log[i])) = Atomic!Blur(row[i].state)
    /\ load(i).state # None
    /\ load(i).revision = row[i].revision
    /\ Atomic!Blur(load(i).state) = Atomic!Blur(row[i].state)

\* Load, decide and save come to one atomic step of the port's contract,
\* however use cases overlap.
StoreIsAtomic == Atomic!Spec

(* Claims of the repository's documents that the code does not keep.       *)

\* "structural impossibility of 'snapshot drifted from event log'"
\* (ADR-0029): the row is the fold of the log to the last field.
RowIsFold ==
  \A i \in TicketIds : Exists(i) => replay(None, log[i]) = row[i].state

\* "if any member's revision check fails (or any append fails) the entire
\* batch is rolled back" (EventSourcedRepository.ts).
BatchAllOrNothing ==
  [][\A w \in Writers :
       LET ms == held[w]
           named(i) == Cardinality({n \in DOMAIN ms : ms[n].id = i})
       IN  Len(ms) > 1 /\ held'[w] = << >> =>
             \/ log' = log
             \/ \A i \in {ms[n].id : n \in DOMAIN ms} :
                  Len(log'[i]) = Len(log[i]) + named(i)]_vars

=============================================================================
