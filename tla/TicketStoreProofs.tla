-------------------------- MODULE TicketStoreProofs --------------------------
(***************************************************************************)
(* The store, proved for any number of writers, tickets and events and any *)
(* snapshot interval: that its optimistic concurrency notices every change *)
(* (which takes only which log a load reads), that the log, the snapshot   *)
(* and the row of a ticket tell the same story (which takes what the fold  *)
(* computes), and, from the two, that it implements AtomicQueue.           *)
(***************************************************************************)
EXTENDS TicketStore, TicketsProofs, SequenceTheorems, FiniteSetTheorems

\* A sequence, of whatever elements: the rows a fold returns have no type
\* that could be proved.
IsList(s) == \E S : s \in Seq(S)

LogsAreLists == \A i \in TicketIds : IsList(log[i])

RowsInStep ==
  \A i \in TicketIds :
    row[i] = [state |-> row[i].state, revision |-> Len(log[i])]

SnapshotsBehind ==
  \A i \in TicketIds : snapshot[i].revision \in 0 .. Len(log[i])

Logs == LogsAreLists /\ RowsInStep /\ SnapshotsBehind

Holds ==
  /\ DOMAIN held = Writers
  /\ \A w \in Writers :
       /\ IsList(held[w])
       /\ \A n \in DOMAIN held[w] : /\ held[w][n].id \in TicketIds
                                    /\ held[w][n].expected \in Nat

StoreInv == Logs /\ Holds /\ HeldIsCurrent

-----------------------------------------------------------------------------
\* Appending one element makes a list one longer and keeps the others.
LEMMA AppendList ==
  ASSUME NEW s, IsList(s), NEW e
  PROVE  /\ IsList(Append(s, e))
         /\ Len(s) \in Nat
         /\ Len(Append(s, e)) = Len(s) + 1
         /\ DOMAIN Append(s, e) = 1 .. Len(s) + 1
         /\ DOMAIN s = 1 .. Len(s)
         /\ \A n \in 1 .. Len(s) : Append(s, e)[n] = s[n]
         /\ Append(s, e)[Len(s) + 1] = e
<1>1. PICK S : s \in Seq(S)  BY DEF IsList
<1>2. s \in Seq(S \cup {e})  BY <1>1
<1>3. Append(s, e) \in Seq(S \cup {e})  BY <1>2
<1> QED  BY <1>2, <1>3 DEF IsList

\* The empty sequence is a list.
LEMMA EmptyList == IsList(<< >>) /\ Len(<< >>) = 0 /\ DOMAIN << >> = {}
<1>1. << >> \in Seq({})  OBVIOUS
<1> QED  BY <1>1 DEF IsList

\* A load returns an aggregate at the revision the log has reached.
LEMMA LoadRevision ==
  ASSUME Logs, NEW i \in TicketIds
  PROVE  load(i) = [state |-> load(i).state, revision |-> Len(log[i])]
<1>1. PICK S : log[i] \in Seq(S)  BY DEF Logs, LogsAreLists, IsList
<1>2. Len(log[i]) \in Nat  BY <1>1
<1>3. CASE snapshot[i] = Absent /\ log[i] = << >>
  BY <1>3 DEF Logs, RowsInStep, load
<1>4. CASE ~(snapshot[i] = Absent /\ log[i] = << >>)
  <2> DEFINE r == snapshot[i].revision
  <2>1. r \in Nat /\ r <= Len(log[i])  BY <1>2 DEF Logs, SnapshotsBehind
  <2>2. Len(tail(i)) = Len(log[i]) - r  BY <1>1, <1>2, <2>1 DEF tail
  <2>3. r + Len(tail(i)) = Len(log[i])  BY <1>2, <2>1, <2>2
  <2> QED  BY <1>4, <2>3 DEF load
<1> QED  BY <1>3, <1>4

\* Every ticket moves on by one revision or stays as it is.
StoreStep ==
  \A i \in TicketIds :
    \/ row'[i].revision = row[i].revision + 1
    \/ log'[i] = log[i] /\ row'[i] = row[i] /\ snapshot'[i] = snapshot[i]

\* What a save writes keeps log, row and snapshot in step.
LEMMA PersistKeeps ==
  ASSUME Logs, TicketStoreAssumption,
         NEW results, DOMAIN results \subseteq TicketIds, Persist(results)
  PROVE  Logs' /\ StoreStep
<1> DEFINE ids == DOMAIN results
<1>1. SUFFICES ASSUME NEW i \in TicketIds
               PROVE  /\ IsList(log'[i])
                      /\ row'[i] = [state |-> row'[i].state, revision |-> Len(log'[i])]
                      /\ snapshot'[i].revision \in 0 .. Len(log'[i])
                      /\ \/ row'[i].revision = row[i].revision + 1
                         \/ log'[i] = log[i] /\ row'[i] = row[i] /\ snapshot'[i] = snapshot[i]
  BY DEF Logs, LogsAreLists, RowsInStep, SnapshotsBehind, StoreStep
<1>2. IsList(log[i]) /\ row[i] = [state |-> row[i].state, revision |-> Len(log[i])]
      /\ snapshot[i].revision \in 0 .. Len(log[i])
  BY DEF Logs, LogsAreLists, RowsInStep, SnapshotsBehind
<1>3. CASE i \notin ids
  <2>1. log'[i] = log[i] /\ row'[i] = row[i] /\ snapshot'[i] = snapshot[i]
    BY <1>3 DEF Persist
  <2> QED  BY <1>2, <2>1
<1>4. CASE i \in ids
  <2> DEFINE new == [state |-> results[i].ticket, revision |-> nextRevision(i)]
  <2>1. log'[i] = Append(log[i], results[i].event) /\ row'[i] = new
        /\ (snapshot'[i] = new \/ snapshot'[i] = snapshot[i])
    BY <1>4 DEF Persist
  <2>2. IsList(log'[i]) /\ Len(log[i]) \in Nat /\ Len(log'[i]) = Len(log[i]) + 1
    BY <1>2, <2>1, AppendList
  <2>3. row[i].revision = Len(log[i])  BY <1>2
  <2>4. nextRevision(i) = Len(log'[i]) /\ nextRevision(i) = row[i].revision + 1
    BY <2>2, <2>3 DEF nextRevision
  <2>5. new.revision = Len(log'[i])  BY <2>4
  <2>6. snapshot'[i].revision \in 0 .. Len(log'[i])
    BY <1>2, <2>1, <2>2, <2>5
  <2> QED  BY <2>1, <2>2, <2>4, <2>5, <2>6
<1> QED  BY <1>3, <1>4

\* The revision of a row is a number, that of a loaded aggregate its.
LEMMA RevisionType ==
  ASSUME Logs, NEW i \in TicketIds
  PROVE  row[i].revision \in Nat /\ row[i].revision = Len(log[i])
<1>1. IsList(log[i]) /\ row[i] = [state |-> row[i].state, revision |-> Len(log[i])]
  BY DEF Logs, LogsAreLists, RowsInStep
<1>2. Len(log[i]) \in Nat  BY <1>1, AppendList
<1>3. row[i].revision = Len(log[i])  BY <1>1
<1> QED  BY <1>2, <1>3

\* A loaded state t of revision e: what a load returns, or older.
Fits(i, t, e) ==
  /\ e <= row[i].revision
  /\ e = row[i].revision => load(i) = [state |-> t, revision |-> e]

\* Whatever is saved, a loaded aggregate stays current or is visibly old.
LEMMA FitsOn ==
  ASSUME Logs, StoreStep, NEW i \in TicketIds, NEW t, NEW e \in Nat, Fits(i, t, e)
  PROVE  Fits(i, t, e)'
<1>1. CASE row'[i].revision = row[i].revision + 1
  BY <1>1, RevisionType DEF Fits
<1>2. CASE log'[i] = log[i] /\ row'[i] = row[i] /\ snapshot'[i] = snapshot[i]
  <2>1. tail(i)' = tail(i)  BY <1>2 DEF tail
  <2>2. load(i)' = load(i)  BY <1>2, <2>1 DEF load
  <2> QED  BY <1>2, <2>2 DEF Fits
<1> QED  BY <1>1, <1>2 DEF StoreStep

-----------------------------------------------------------------------------
\* The invariant in the initial state.
LEMMA InitStore == TicketStoreAssumption /\ Init => StoreInv
<1> SUFFICES ASSUME Init PROVE StoreInv  OBVIOUS
<1>1. LogsAreLists  BY EmptyList DEF Init, LogsAreLists
<1>2. RowsInStep  BY EmptyList DEF Init, RowsInStep, Absent
<1>3. SnapshotsBehind  BY EmptyList DEF Init, SnapshotsBehind, Absent
<1>4. Holds /\ HeldIsCurrent  BY EmptyList DEF Init, Holds, HeldIsCurrent
<1> QED  BY <1>1, <1>2, <1>3, <1>4 DEF StoreInv, Logs

\* A save by one use case, or by none, leaves what the others hold in order.
LEMMA SaveKeeps ==
  ASSUME StoreInv, Logs', StoreStep,
         DOMAIN held' = DOMAIN held,
         \A w \in Writers : held'[w] = held[w] \/ held'[w] = << >>
  PROVE  StoreInv'
<1>1. Holds'
  BY EmptyList DEF StoreInv, Holds
<1>2. ASSUME NEW w \in Writers, NEW n \in DOMAIN held'[w],
             NEW i, NEW t, NEW e,
             i = held'[w][n].id, t = held'[w][n].state, e = held'[w][n].expected
      PROVE  Fits(i, t, e)'
  <2>1. held'[w] = held[w]  BY <1>2, EmptyList
  <2>2. i \in TicketIds /\ e \in Nat  BY <1>2, <2>1 DEF StoreInv, Holds
  <2>3. Fits(i, t, e)  BY <1>2, <2>1 DEF StoreInv, HeldIsCurrent, Fits
  <2> QED  BY <2>2, <2>3, FitsOn DEF StoreInv
<1>3. HeldIsCurrent'  BY <1>2 DEF HeldIsCurrent, Fits
<1> QED  BY <1>1, <1>3 DEF StoreInv

\* A use case that loads one more ticket holds what the store has now.
LEMMA LoadKeeps ==
  ASSUME StoreInv, NEW v \in Writers, NEW i \in TicketIds, Load(v, i)
  PROVE  StoreInv'
<1>0. Logs /\ Logs'
  BY DEF StoreInv, Load, store, Logs, LogsAreLists, RowsInStep, SnapshotsBehind
<1> DEFINE new == [id |-> i, state |-> load(i).state, expected |-> load(i).revision]
<1>1. \A w \in Writers : held'[w] = IF w = v THEN Append(held[v], new) ELSE held[w]
  BY DEF StoreInv, Holds, Load
<1>2. new.id \in TicketIds /\ new.expected \in Nat /\ Fits(new.id, new.state, new.expected)
  <2>1. load(i) = [state |-> load(i).state, revision |-> Len(log[i])]
    BY <1>0, LoadRevision
  <2>2. load(i).revision = Len(log[i])  BY <2>1
  <2>3. row[i].revision \in Nat /\ row[i].revision = Len(log[i])
    BY <1>0, RevisionType
  <2>4. load(i) = [state |-> load(i).state, revision |-> load(i).revision]
    BY <2>1, <2>2
  <2> QED  BY <2>2, <2>3, <2>4 DEF Fits
<1>3. ASSUME NEW w \in Writers, NEW n \in DOMAIN held'[w]
      PROVE  held'[w][n] = new \/ (n \in DOMAIN held[w] /\ held'[w][n] = held[w][n])
  <2>1. CASE w # v  BY <1>1, <1>3, <2>1
  <2>2. CASE w = v
    <3> DEFINE h == held[v]
    <3>1. IsList(h)  BY DEF StoreInv, Holds
    <3>2. held'[w] = Append(h, new)  BY <1>1, <2>2
    <3> HIDE DEF new, h
    <3>3. /\ Len(h) \in Nat /\ DOMAIN h = 1 .. Len(h)
          /\ DOMAIN Append(h, new) = 1 .. Len(h) + 1
          /\ \A k \in 1 .. Len(h) : Append(h, new)[k] = h[k]
          /\ Append(h, new)[Len(h) + 1] = new
      BY <3>1, AppendList
    <3>4. n \in 1 .. Len(h) + 1  BY <1>3, <3>2, <3>3
    <3>5. n = Len(h) + 1 \/ n \in 1 .. Len(h)  BY <3>3, <3>4
    <3>6. held'[w][n] = new \/ (n \in DOMAIN h /\ held'[w][n] = h[n])
      BY <3>2, <3>3, <3>5
    <3> QED  BY <2>2, <3>6 DEF h
  <2> QED  BY <2>1, <2>2
<1>4. Holds'
  <2>1. \A w \in Writers : IsList(held'[w])
    BY <1>1, AppendList DEF StoreInv, Holds
  <2>2. DOMAIN held' = Writers  BY DEF StoreInv, Holds, Load
  <2> HIDE DEF new
  <2> QED  BY <1>2, <1>3, <2>1, <2>2 DEF StoreInv, Holds
<1>5. HeldIsCurrent'
  <2>1. ASSUME NEW w \in Writers, NEW n \in DOMAIN held'[w]
        PROVE  Fits(held'[w][n].id, held'[w][n].state, held'[w][n].expected)
    <3>1. CASE held'[w][n] = new  BY <1>2, <3>1
    <3>2. CASE n \in DOMAIN held[w] /\ held'[w][n] = held[w][n]
      BY <3>2 DEF StoreInv, HeldIsCurrent, Fits
    <3> QED  BY <1>3, <2>1, <3>1, <3>2
  <2>2. \A j : load(j)' = load(j) /\ row'[j] = row[j]
    BY DEF Load, store, load, tail
  <2> HIDE DEF new
  <2> QED  BY <2>1, <2>2 DEF HeldIsCurrent, Fits
<1> QED  BY <1>0, <1>4, <1>5 DEF StoreInv

\* A save moves every ticket on or leaves it; nothing else moves one.
LEMMA StoreStays ==
  ASSUME Logs, UNCHANGED store
  PROVE  Logs' /\ StoreStep
BY DEF store, Logs, LogsAreLists, RowsInStep, SnapshotsBehind, StoreStep

\* Every step keeps the invariant.
LEMMA NextStore ==
  ASSUME TicketStoreAssumption, StoreInv, [Next]_vars
  PROVE  StoreInv'
<1>0. Logs  BY DEF StoreInv
<1>1. ASSUME NEW i \in TicketIds, Issue(i)  PROVE StoreInv'
  <2>1. PICK r : Persist([j \in {i} |-> r])
    BY <1>1 DEF Issue
  <2>2. DOMAIN [j \in {i} |-> r] \subseteq TicketIds  OBVIOUS
  <2>3. Logs' /\ StoreStep  BY <1>0, <2>1, <2>2, PersistKeeps
  <2> QED  BY <1>1, <2>3, SaveKeeps DEF Issue
<1>2. ASSUME NEW w \in Writers, NEW i \in TicketIds, Load(w, i)  PROVE StoreInv'
  BY <1>2, LoadKeeps
<1>3. ASSUME NEW w \in Writers, Refuse(w) \/ ConcurrencyError(w)  PROVE StoreInv'
  <2>1. UNCHANGED store /\ Release(w)
    BY <1>3 DEF Refuse, ConcurrencyError
  <2>2. Logs' /\ StoreStep  BY <1>0, <2>1, StoreStays
  <2> QED  BY <2>1, <2>2, SaveKeeps DEF Release
<1>4. ASSUME NEW w \in Writers, save(w)  PROVE StoreInv'
  <2>1. PICK r : Persist([i \in {held[w][1].id} |-> r])
    BY <1>4 DEF save
  <2>2. held[w][1].id \in TicketIds
    <3>1. IsList(held[w])  BY DEF StoreInv, Holds
    <3>2. 1 \in DOMAIN held[w]  BY <1>4, <3>1, AppendList DEF save
    <3> QED  BY <3>2 DEF StoreInv, Holds
  <2>3. Logs' /\ StoreStep  BY <1>0, <2>1, <2>2, PersistKeeps
  <2> QED  BY <1>4, <2>3, SaveKeeps DEF save, Release
<1>5. ASSUME NEW w \in Writers, saveBatch(w)  PROVE StoreInv'
  <2> DEFINE ids == {held[w][n].id : n \in Inserted(held[w])}
             state(i) == held[w][CHOOSE n \in Inserted(held[w]) : held[w][n].id = i].state
             results == [i \in ids |-> applyCall(state(i), Now(ids))]
  <2>1. Persist(results) /\ DOMAIN results = ids
    BY <1>5 DEF saveBatch
  <2>2. ids \subseteq TicketIds  BY DEF StoreInv, Holds, Inserted
  <2>3. Logs' /\ StoreStep  BY <1>0, <2>1, <2>2, PersistKeeps
  <2> QED  BY <1>5, <2>3, SaveKeeps DEF saveBatch, Release
<1>6. CASE UNCHANGED vars
  <2>1. UNCHANGED store /\ held' = held  BY <1>6 DEF vars, store
  <2>2. Logs' /\ StoreStep  BY <1>0, <2>1, StoreStays
  <2> QED  BY <2>1, <2>2, SaveKeeps
<1> QED  BY <1>1, <1>2, <1>3, <1>4, <1>5, <1>6 DEF Next

\* The revision of every row is the length of its log, and what a use case
\* has loaded is what it would load now unless the revision has moved on:
\* optimistic concurrency, for every number of writers and every interval.
THEOREM OptimisticConcurrency ==
  TicketStoreAssumption => (Spec => [](RevisionIsLogLength /\ HeldIsCurrent))
<1> SUFFICES ASSUME TicketStoreAssumption
             PROVE  Spec => [](RevisionIsLogLength /\ HeldIsCurrent)
  OBVIOUS
<1>1. Init => StoreInv  BY InitStore
<1>2. StoreInv /\ [Next]_vars => StoreInv'  BY NextStore
<1>3. StoreInv => RevisionIsLogLength /\ HeldIsCurrent
  BY RevisionType DEF StoreInv, RevisionIsLogLength
<1> QED  BY <1>1, <1>2, <1>3, PTL DEF Spec

\* In particular no save is lost or doubled: the revision counts the events.
THEOREM RevisionCountsEvents ==
  TicketStoreAssumption => (Spec => []RevisionIsLogLength)
<1>1. (RevisionIsLogLength /\ HeldIsCurrent) => RevisionIsLogLength
  OBVIOUS
<1> QED  BY <1>1, OptimisticConcurrency, PTL

\* No use case holds a ticket twice.
Distinct ==
  \A w \in Writers : \A p, q \in DOMAIN held[w] : p # q => held[w][p].id # held[w][q].id

LEMMA DistinctStays ==
  ASSUME ~Repeats, StoreInv, [Next]_vars, Distinct
  PROVE  Distinct'
<1>1. ASSUME NEW v \in Writers, NEW i \in TicketIds, Load(v, i)  PROVE Distinct'
  <2> DEFINE new == [id |-> i, state |-> load(i).state, expected |-> load(i).revision]
             h == held[v]
  <2>1. \A w \in Writers : held'[w] = IF w = v THEN Append(h, new) ELSE held[w]
    BY <1>1 DEF StoreInv, Holds, Load
  <2>2. IsList(h)  BY DEF StoreInv, Holds
  <2>3. \A n \in DOMAIN h : h[n].id # i
    <3>1. h = << >> => DOMAIN h = {}  BY EmptyList
    <3> QED  BY <1>1, <3>1 DEF Load
  <2>4. \A p, q \in DOMAIN h : p # q => h[p].id # h[q].id  BY DEF Distinct
  <2>5. new.id = i  OBVIOUS
  <2> SUFFICES ASSUME NEW w \in Writers, NEW p \in DOMAIN held'[w],
                      NEW q \in DOMAIN held'[w], p # q
               PROVE  held'[w][p].id # held'[w][q].id
    BY DEF Distinct
  <2>6. CASE w # v  BY <2>1, <2>6 DEF Distinct
  <2>7. CASE w = v
    <3>1. held'[w] = Append(h, new)  BY <2>1, <2>7
    <3> HIDE DEF new, h
    <3>2. /\ Len(h) \in Nat /\ DOMAIN h = 1 .. Len(h)
          /\ DOMAIN Append(h, new) = 1 .. Len(h) + 1
          /\ \A k \in 1 .. Len(h) : Append(h, new)[k] = h[k]
          /\ Append(h, new)[Len(h) + 1] = new
      BY <2>2, AppendList
    <3>3. ASSUME NEW k \in 1 .. Len(h) + 1, k # Len(h) + 1 PROVE k \in DOMAIN h
      BY <3>2, <3>3
    <3>4. p \in 1 .. Len(h) + 1 /\ q \in 1 .. Len(h) + 1  BY <3>1, <3>2
    <3>5. CASE p = Len(h) + 1
      <4>1. q \in DOMAIN h  BY <3>3, <3>4, <3>5
      <4> QED  BY <2>3, <2>5, <3>1, <3>2, <3>5, <4>1
    <3>6. CASE q = Len(h) + 1
      <4>1. p \in DOMAIN h  BY <3>3, <3>4, <3>6
      <4> QED  BY <2>3, <2>5, <3>1, <3>2, <3>6, <4>1
    <3>7. CASE p # Len(h) + 1 /\ q # Len(h) + 1
      <4>1. p \in DOMAIN h /\ q \in DOMAIN h  BY <3>3, <3>4, <3>7
      <4> QED  BY <2>4, <3>1, <3>2, <4>1
    <3> QED  BY <3>5, <3>6, <3>7
  <2> QED  BY <2>6, <2>7
<1>2. ASSUME DOMAIN held' = DOMAIN held,
             \A w \in Writers : held'[w] = held[w] \/ held'[w] = << >>
      PROVE  Distinct'
  BY <1>2, EmptyList DEF Distinct
<1> QED
  BY <1>1, <1>2 DEF Next, Issue, Refuse, ConcurrencyError, save, saveBatch, Release,
     vars, StoreInv, Holds

\* A step that ends a batch writes nothing, or one event for each member.
LEMMA BatchWhole ==
  ASSUME StoreInv, Distinct, [Next]_vars, NEW w \in Writers,
         Len(held[w]) > 1, held'[w] = << >>
  PROVE  \/ log' = log
         \/ \A i \in {held[w][n].id : n \in DOMAIN held[w]} :
              Len(log'[i]) = Len(log[i]) + Cardinality({n \in DOMAIN held[w] : held[w][n].id = i})
<1> DEFINE ms == held[w]
           ids == {ms[n].id : n \in DOMAIN ms}
<1>1. IsList(ms) /\ DOMAIN ms = 1 .. Len(ms) /\ Len(ms) \in Nat /\ ms # << >>
  BY AppendList, EmptyList DEF StoreInv, Holds
<1>2. ASSUME held'[w] = held[w] PROVE FALSE
  BY <1>1, <1>2
<1>3. ASSUME UNCHANGED store PROVE log' = log
  BY <1>3 DEF store
<1>4. ASSUME NEW v \in Writers, v # w, held'[w] # held[w] PROVE ~Release(v)
  BY <1>4 DEF Release, StoreInv, Holds
<1>5. ASSUME saveBatch(w), NEW i \in ids
      PROVE  Len(log'[i]) = Len(log[i]) + Cardinality({n \in DOMAIN ms : ms[n].id = i})
  <2>1. Inserted(ms) = DOMAIN ms
    BY <1>1 DEF Inserted, Distinct
  <2>2. PICK k \in DOMAIN ms : ms[k].id = i
    OBVIOUS
  <2>3. {n \in DOMAIN ms : ms[n].id = i} = {k}
    BY <2>2 DEF Distinct
  <2>4. Cardinality({n \in DOMAIN ms : ms[n].id = i}) = 1
    BY <2>3, FS_Singleton
  <2> DEFINE state(j) == ms[CHOOSE n \in Inserted(ms) : ms[n].id = j].state
             results == [j \in ids |-> applyCall(state(j), Now(ids))]
  <2>5. Persist(results) /\ DOMAIN results = ids
    BY <1>5, <2>1 DEF saveBatch
  <2>6. i \in TicketIds
    BY <2>2 DEF StoreInv, Holds
  <2> HIDE DEF results, ids
  <2>7. log'[i] = Append(log[i], results[i].event)
    <3>1. i \in ids
      BY <2>2 DEF ids
    <3> QED
      BY <2>5, <2>6, <3>1 DEF Persist
  <2>8. IsList(log[i])
    BY <2>6 DEF StoreInv, Logs, LogsAreLists
  <2>9. Len(log'[i]) = Len(log[i]) + 1
    BY <2>7, <2>8, AppendList
  <2> QED
    BY <2>4, <2>9
<1>6. CASE \E i \in TicketIds : Issue(i)
  BY <1>2, <1>6 DEF Issue
<1>7. ASSUME NEW v \in Writers, NEW i \in TicketIds, Load(v, i) PROVE log' = log
  BY <1>3, <1>7 DEF Load
<1>8. ASSUME NEW v \in Writers, Refuse(v) \/ ConcurrencyError(v) PROVE log' = log
  BY <1>3, <1>8 DEF Refuse, ConcurrencyError
<1>9. ASSUME NEW v \in Writers, save(v) PROVE FALSE
  <2>1. Len(held[v]) = 1 /\ Release(v)
    BY <1>9 DEF save
  <2>2. Len(held[w]) # 1
    <3>1. ~(1 > 1)
      OBVIOUS
    <3> QED
      BY <3>1
  <2>3. v # w
    BY <2>1, <2>2
  <2> QED
    BY <1>2, <1>4, <2>1, <2>3
<1>10. ASSUME NEW v \in Writers, saveBatch(v) PROVE v = w
  BY <1>2, <1>4, <1>10 DEF saveBatch
<1>11. CASE UNCHANGED vars
  BY <1>11 DEF vars
<1> QED
  BY <1>5, <1>6, <1>7, <1>8, <1>9, <1>10, <1>11 DEF Next

\* CallBatch is all or nothing after all, as EventSourcedRepository.ts says,
\* for as many members and other writers as there may be, as long as no
\* batch names a ticket twice: as far as revisions and the unique (ticket_id,
\* seq) go, a repeated member is the only way an append fails once all the
\* revisions were verified.
THEOREM BatchWithoutRepeatsIsAtomic ==
  TicketStoreAssumption /\ ~Repeats => (Spec => BatchAllOrNothing)
<1> SUFFICES ASSUME TicketStoreAssumption, ~Repeats PROVE Spec => BatchAllOrNothing
  OBVIOUS
<1>1. Init => StoreInv /\ Distinct
  <2>1. Init => Distinct  BY EmptyList DEF Init, Distinct
  <2> QED  BY <2>1, InitStore
<1>2. StoreInv /\ Distinct /\ [Next]_vars => StoreInv' /\ Distinct'
  BY NextStore, DistinctStays
<1>3. StoreInv /\ Distinct /\ [Next]_vars =>
        [\A w \in Writers :
           LET ms == held[w]
               named(i) == Cardinality({n \in DOMAIN ms : ms[n].id = i})
           IN  Len(ms) > 1 /\ held'[w] = << >> =>
                 \/ log' = log
                 \/ \A i \in {ms[n].id : n \in DOMAIN ms} :
                      Len(log'[i]) = Len(log[i]) + named(i)]_vars
  BY BatchWhole
<1> QED  BY <1>1, <1>2, <1>3, PTL DEF Spec, BatchAllOrNothing

-----------------------------------------------------------------------------
(* What the fold computes.                                                 *)

\* The tail of a longer list is the longer tail.
LEMMA SubSeqAppend ==
  ASSUME NEW S, NEW s \in Seq(S), NEW e \in S, NEW k \in 0 .. Len(s)
  PROVE  SubSeq(Append(s, e), k + 1, Len(s) + 1) = Append(SubSeq(s, k + 1, Len(s)), e)
<1> DEFINE t == Append(s, e)
           n == Len(s)
           l == SubSeq(t, k + 1, n + 1)
           m == SubSeq(s, k + 1, n)
           r == Append(m, e)
<1>1. /\ n \in Nat /\ t \in Seq(S) /\ Len(t) = n + 1 /\ t[n + 1] = e
      /\ \A j \in 1 .. n : t[j] = s[j]
  OBVIOUS
<1>2. /\ m \in Seq(S) /\ Len(m) = n - k
      /\ \A j \in 1 .. n - k : m[j] = s[k + j]
  OBVIOUS
<1> HIDE DEF t, n, m
<1>3. /\ l \in Seq(S) /\ Len(l) = n - k + 1
      /\ \A j \in 1 .. n - k + 1 : l[j] = t[k + j]
  BY <1>1 DEF n
<1>4. /\ r \in Seq(S) /\ Len(r) = n - k + 1 /\ r[n - k + 1] = e
      /\ \A j \in 1 .. n - k : r[j] = m[j]
  BY <1>1, <1>2
<1> HIDE DEF l, r
<1>5. n - k \in Nat /\ k + (n - k + 1) = n + 1
  BY <1>1 DEF n
<1>6. ASSUME NEW j \in 1 .. n - k + 1 PROVE l[j] = r[j]
  <2>1. CASE j = n - k + 1
    BY <1>1, <1>3, <1>4, <1>5, <2>1
  <2>2. CASE j # n - k + 1
    <3>1. j \in 1 .. n - k /\ k + j \in 1 .. n
      BY <1>1, <1>5, <2>2
    <3> QED
      BY <1>1, <1>2, <1>3, <1>4, <3>1
  <2> QED
    BY <2>1, <2>2
<1>7. l = r
  BY <1>3, <1>4, <1>6, SeqEqual
<1> QED
  BY <1>7 DEF l, r, m, n, t

\* What the whole log makes of a ticket, and what its snapshot and the tail do.
FromLog(i) == replay(None, log[i])

FromSnapshot(i) == replay(snapshot[i].state, tail(i))

\* The log of ticket i, read either way, is a row like the one stored.
Rebuilt(i) ==
  /\ log[i] \in Seq(TicketEvent)
  /\ row[i] \in Aggregate
  /\ snapshot[i] \in Aggregate
  /\ \A n \in DOMAIN log[i] : Legal(replay(None, SubSeq(log[i], 1, n - 1)), log[i][n])
  /\ IF Exists(i)
     THEN /\ log[i] # << >> /\ WellFormed(row[i].state)
          /\ \A t \in {FromLog(i), FromSnapshot(i)} : WellFormed(t) /\ Alike(t, row[i].state)
     ELSE log[i] = << >> /\ snapshot[i] = Absent

\* What a save may write for ticket i: a result that carries both on.
Written(i, r) == Continues(FromLog(i), r) /\ Continues(FromSnapshot(i), r)

\* A legal event makes a legal log longer.
LEMMA LegalAppend ==
  ASSUME NEW s \in Seq(TicketEvent), NEW e \in TicketEvent,
         \A n \in DOMAIN s : Legal(replay(None, SubSeq(s, 1, n - 1)), s[n]),
         Legal(replay(None, s), e)
  PROVE  LET t == Append(s, e)
         IN  \A n \in DOMAIN t : Legal(replay(None, SubSeq(t, 1, n - 1)), t[n])
<1> DEFINE t == Append(s, e)
           k == Len(s)
<1>1. /\ k \in Nat /\ DOMAIN t = 1 .. k + 1 /\ DOMAIN s = 1 .. k /\ t[k + 1] = e
      /\ \A n \in 1 .. k : t[n] = s[n]
      /\ SubSeq(t, 1, k) = s
      /\ \A n \in 1 .. k : SubSeq(t, 1, n - 1) = SubSeq(s, 1, n - 1)
  OBVIOUS
<1> HIDE DEF t, k
<1>2. ASSUME NEW n \in DOMAIN t PROVE Legal(replay(None, SubSeq(t, 1, n - 1)), t[n])
  <2>1. CASE n = k + 1
    <3>1. n - 1 = k
      BY <1>1, <2>1
    <3> QED
      BY <1>1, <2>1, <3>1
  <2>2. CASE n # k + 1
    <3>1. n \in 1 .. k
      BY <1>1, <2>2
    <3> QED
      BY <1>1, <3>1
  <2> QED
    BY <2>1, <2>2
<1> QED
  BY <1>2 DEF t

\* The row that a save writes is again what log and snapshot give.
LEMMA PersistRebuilds ==
  ASSUME Logs, TicketStoreAssumption, \A i \in TicketIds : Rebuilt(i),
         NEW results, DOMAIN results \subseteq TicketIds, Persist(results),
         \A i \in DOMAIN results : Written(i, results[i])
  PROVE  \A i \in TicketIds : Rebuilt(i)'
<1> DEFINE ids == DOMAIN results
<1>1. ASSUME NEW i \in TicketIds, i \notin ids
      PROVE  Rebuilt(i)'
  <2>1. log'[i] = log[i] /\ row'[i] = row[i] /\ snapshot'[i] = snapshot[i]
    BY <1>1 DEF Persist
  <2>2. Rebuilt(i)
    OBVIOUS
  <2> QED
    BY <2>1, <2>2 DEF Rebuilt, Exists, FromLog, FromSnapshot, tail
<1>2. ASSUME NEW i \in ids
      PROVE  Rebuilt(i)'
  <2> DEFINE e == results[i].event
             u == results[i].ticket
             new == [state |-> u, revision |-> nextRevision(i)]
             k == Len(log[i])
  <2>1. i \in TicketIds /\ Rebuilt(i) /\ Written(i, results[i])
    OBVIOUS
  <2>2. /\ log'[i] = Append(log[i], e) /\ row'[i] = new
        /\ snapshot'[i] = new \/ snapshot'[i] = snapshot[i]
    BY <2>1 DEF Persist
  <2>3. /\ e \in TicketEvent /\ WellFormed(u)
        /\ \A p \in {FromLog(i), FromSnapshot(i)} :
             WellFormed(applyEvent(p, e)) /\ Alike(applyEvent(p, e), u)
        /\ Legal(FromLog(i), e)
    BY <2>1 DEF Written, Continues
  <2>4. /\ log[i] \in Seq(TicketEvent) /\ k \in Nat
        /\ log'[i] \in Seq(TicketEvent) /\ Len(log'[i]) = k + 1
        /\ log'[i] # << >>
    <3>1. log[i] \in Seq(TicketEvent)
      BY <2>1 DEF Rebuilt
    <3> QED
      BY <2>2, <2>3, <3>1
  <2>5. nextRevision(i) = k + 1 /\ snapshot[i].revision \in 0 .. k
    BY <2>1, RevisionType DEF nextRevision, Logs, SnapshotsBehind
  <2>6. new \in Aggregate /\ new.state = u /\ new.revision = k + 1 /\ u # None
    BY <2>3, <2>4, <2>5, NoTicketAssumption DEF Aggregate, WellFormed
  <2> HIDE DEF new, u, e
  <2>7. row'[i] \in Aggregate /\ snapshot'[i] \in Aggregate
    BY <2>1, <2>2, <2>6 DEF Rebuilt
  <2>8. \A n \in DOMAIN log'[i] : Legal(replay(None, SubSeq(log'[i], 1, n - 1)), log'[i][n])
    <3>1. \A n \in DOMAIN log[i] : Legal(replay(None, SubSeq(log[i], 1, n - 1)), log[i][n])
      BY <2>1 DEF Rebuilt
    <3>2. Legal(replay(None, log[i]), e)
      BY <2>3 DEF FromLog
    <3> QED
      BY <2>2, <2>3, <2>4, <3>1, <3>2, LegalAppend
  <2>9. replay(None, log'[i]) = applyEvent(FromLog(i), e)
    BY <2>2, <2>4, ReplayAppend DEF FromLog
  <2>10. ASSUME NEW t, t = replay(snapshot'[i].state,
                                  SubSeq(log'[i], snapshot'[i].revision + 1, Len(log'[i])))
         PROVE  WellFormed(t) /\ Alike(t, u)
    <3>1. CASE snapshot'[i] = new
      <4>1. SubSeq(log'[i], snapshot'[i].revision + 1, Len(log'[i])) = << >>
        BY <2>4, <2>6, <3>1
      <4>2. t = u
        BY <2>6, <2>10, <3>1, <4>1, ReplayEmpty
      <4> QED
        BY <2>3, <4>2, AlikeEquivalence
    <3>2. CASE snapshot'[i] = snapshot[i]
      <4>1. SubSeq(log'[i], snapshot'[i].revision + 1, Len(log'[i])) = Append(tail(i), e)
        BY <2>2, <2>3, <2>4, <2>5, <3>2, SubSeqAppend DEF tail
      <4>2. tail(i) \in Seq(TicketEvent)
        BY <2>4, <2>5 DEF tail
      <4>3. t = replay(snapshot[i].state, Append(tail(i), e))
        BY <2>10, <3>2, <4>1
      <4>4. t = applyEvent(FromSnapshot(i), e)
        BY <4>2, <4>3, ReplayAppend DEF FromSnapshot
      <4> QED
        BY <2>3, <4>4
    <3> QED
      BY <2>2, <3>1, <3>2
  <2>11. WellFormed(FromSnapshot(i)') /\ Alike(FromSnapshot(i)', u)
    BY <2>10 DEF FromSnapshot, tail
  <2>12. WellFormed(FromLog(i)') /\ Alike(FromLog(i)', u)
    BY <2>3, <2>9 DEF FromLog
  <2>13. Exists(i)' /\ row'[i].state = u
    BY <2>2, <2>6 DEF Exists
  <2> QED
    BY <2>3, <2>4, <2>7, <2>8, <2>11, <2>12, <2>13 DEF Rebuilt
<1> QED
  BY <1>1, <1>2

\* The instance of the port's module has its own copy of the transitions.
LEMMA SameTransitions ==
  \A t, at, by, to :
    /\ Atomic!applyCall(t, at) = applyCall(t, at)
    /\ Atomic!applyMoveToOverdue(t, at) = applyMoveToOverdue(t, at)
    /\ Atomic!applyNudge(t, at) = applyNudge(t, at)
    /\ Atomic!applyMarkServed(t, at, by) = applyMarkServed(t, at, by)
    /\ Atomic!applyMarkNoShow(t, at, by) = applyMarkNoShow(t, at, by)
    /\ Atomic!applyRecall(t, at) = applyRecall(t, at)
    /\ Atomic!applyCancel(t, at, by) = applyCancel(t, at, by)
    /\ Atomic!applyLapseAppointment(t, at) = applyLapseAppointment(t, at)
    /\ Atomic!applyCheckIn(t, at) = applyCheckIn(t, at)
    /\ Atomic!applyReschedule(t, to, at) = applyReschedule(t, to, at)
<1> USE DEF Atomic!ApplyResult, ApplyResult, Atomic!common, common
<1> TAKE t, at, by, to
<1>1. Atomic!applyCall(t, at) = applyCall(t, at)
  BY DEF Atomic!applyCall, applyCall
<1>2. Atomic!applyMoveToOverdue(t, at) = applyMoveToOverdue(t, at)
  BY DEF Atomic!applyMoveToOverdue, applyMoveToOverdue
<1>3. Atomic!applyNudge(t, at) = applyNudge(t, at)
  BY DEF Atomic!applyNudge, applyNudge
<1>4. Atomic!applyMarkServed(t, at, by) = applyMarkServed(t, at, by)
  BY DEF Atomic!applyMarkServed, applyMarkServed
<1>5. Atomic!applyMarkNoShow(t, at, by) = applyMarkNoShow(t, at, by)
  BY DEF Atomic!applyMarkNoShow, applyMarkNoShow
<1>6. Atomic!applyRecall(t, at) = applyRecall(t, at)
  BY DEF Atomic!applyRecall, applyRecall
<1>7. Atomic!applyCancel(t, at, by) = applyCancel(t, at, by)
  BY DEF Atomic!applyCancel, applyCancel
<1>8. Atomic!applyLapseAppointment(t, at) = applyLapseAppointment(t, at)
  BY DEF Atomic!applyLapseAppointment, applyLapseAppointment
<1>9. Atomic!applyCheckIn(t, at) = applyCheckIn(t, at)
  BY DEF Atomic!applyCheckIn, applyCheckIn
<1>10. Atomic!applyReschedule(t, to, at) = applyReschedule(t, to, at)
  BY DEF Atomic!applyReschedule, applyReschedule
<1> QED
  BY <1>1, <1>2, <1>3, <1>4, <1>5, <1>6, <1>7, <1>8, <1>9, <1>10

\* The two ways to state what a use case may decide are one.
LEMMA ResultsAreDecisions ==
  ASSUME NEW t, NEW at, NEW r
  PROVE  r \in Atomic!Results(t, at) <=> Decides(Targets, t, at, r)
<1>1. Atomic!Results(t, at) = Decisions(Targets, t, at)
  BY SameTransitions DEF Atomic!Results, Decisions
<1> QED
  BY <1>1, DecisionsListed

\* What a use case may do to a ticket it may do to one that is like it.
LEMMA DecidesAlike ==
  ASSUME NEW t \in Ticket, NEW u \in Ticket, Alike(t, u), NEW at \in Instant,
         Targets \subseteq Instant, NEW r, Decides(Targets, t, at, r)
  PROVE  \E q : Decides(Targets, u, at, q) /\ AlikeResults(r, q)
<1>1. u.state = t.state /\ u.appointmentAt = t.appointmentAt /\ (Dated(u) <=> Dated(t))
      /\ (Booked(u) <=> Booked(t))
  BY DEF Alike, Booked, Dated
<1>2. {"staff", "customer", "system"} \subseteq Actor
  BY DEF Actor
<1>3. PICK to \in Instant : TRUE
  BY DEF Instant
<1>4. CASE t.state = "Waiting" /\ r = applyCall(t, at)
  BY <1>1, <1>2, <1>3, <1>4, TransitionsAlike DEF Decides
<1>5. CASE t.state = "Waiting" /\ Dated(t) /\ r = applyCheckIn(t, at)
  BY <1>1, <1>2, <1>3, <1>5, TransitionsAlike DEF Decides
<1>6. CASE t.state = "Waiting" /\ Booked(t) /\ r = applyLapseAppointment(t, at)
  BY <1>1, <1>2, <1>3, <1>6, TransitionsAlike DEF Decides
<1>7. CASE t.state = "Called" /\ r = applyMoveToOverdue(t, at)
  BY <1>1, <1>2, <1>3, <1>7, TransitionsAlike DEF Decides
<1>8. CASE t.state = "Overdue" /\ r = applyNudge(t, at)
  BY <1>1, <1>2, <1>3, <1>8, TransitionsAlike DEF Decides
<1>9. CASE t.state \in {"Called", "Overdue"} /\ r = applyMarkServed(t, at, "staff")
  BY <1>1, <1>2, <1>3, <1>9, TransitionsAlike DEF Decides
<1>10. CASE t.state \in {"Called", "Overdue"} /\ r = applyRecall(t, at)
  BY <1>1, <1>2, <1>3, <1>10, TransitionsAlike DEF Decides
<1>11. ASSUME t.state \in {"Called", "Overdue"},
              NEW by \in {"staff", "system"}, r = applyMarkNoShow(t, at, by)
       PROVE  \E q : Decides(Targets, u, at, q) /\ AlikeResults(r, q)
  BY <1>1, <1>2, <1>3, <1>11, TransitionsAlike DEF Decides
<1>12. ASSUME t.state \in {"Waiting", "Called", "Overdue"},
              NEW by \in {"staff", "customer"}, r = applyCancel(t, at, by)
       PROVE  \E q : Decides(Targets, u, at, q) /\ AlikeResults(r, q)
  BY <1>1, <1>2, <1>3, <1>12, TransitionsAlike DEF Decides
<1>13. ASSUME t.state \in {"Waiting", "Called", "Overdue"}, Booked(t),
              NEW new \in Targets \ {t.appointmentAt}, r = applyReschedule(t, new, at)
       PROVE  \E q : Decides(Targets, u, at, q) /\ AlikeResults(r, q)
  BY <1>1, <1>2, <1>13, TransitionsAlike DEF Decides
<1> QED
  BY <1>4, <1>5, <1>6, <1>7, <1>8, <1>9, <1>10, <1>11, <1>12, <1>13 DEF Decides

\* What use cases hold are tickets as the code has them, below the bound.
Drafts ==
  \A w \in Writers :
    /\ held[w] \in Seq(Loaded)
    /\ \A n \in DOMAIN held[w] : /\ VariantShape(held[w][n].state)
                                 /\ held[w][n].expected < MaxRevision

\* The four variables are tables over the tickets and the use cases.
Tables ==
  /\ log = [i \in TicketIds |-> log[i]]
  /\ row = [i \in TicketIds |-> row[i]]
  /\ snapshot = [i \in TicketIds |-> snapshot[i]]
  /\ held = [w \in Writers |-> held[w]]

FoldInv == StoreInv /\ (\A i \in TicketIds : Rebuilt(i)) /\ Drafts /\ Tables

\* A load returns the row the snapshot and the tail give.
LEMMA LoadRebuilds ==
  ASSUME FoldInv, NEW i \in TicketIds
  PROVE  /\ load(i).state # None => Exists(i)
         /\ Exists(i) =>
              /\ load(i) = [state |-> FromSnapshot(i), revision |-> row[i].revision]
              /\ \A t \in {FromLog(i), FromSnapshot(i)} : WellFormed(t) /\ Alike(t, row[i].state)
              /\ WellFormed(row[i].state)
<1>1. Logs /\ Rebuilt(i)
  BY DEF FoldInv, StoreInv
<1>2. ASSUME ~Exists(i)  PROVE load(i).state = None
  <2>1. log[i] = << >> /\ snapshot[i] = Absent
    BY <1>1, <1>2 DEF Rebuilt
  <2>2. load(i) = row[i]
    BY <2>1 DEF load
  <2> QED
    BY <1>2, <2>2 DEF Exists
<1>3. ASSUME Exists(i)
      PROVE  load(i) = [state |-> FromSnapshot(i), revision |-> row[i].revision]
  <2>1. log[i] # << >>
    BY <1>1, <1>3 DEF Rebuilt
  <2>2. load(i).state = FromSnapshot(i)
    BY <2>1 DEF load, FromSnapshot
  <2> QED
    BY <1>1, <2>2, LoadRevision, RevisionType
<1>4. Exists(i) => /\ \A t \in {FromLog(i), FromSnapshot(i)} : WellFormed(t) /\ Alike(t, row[i].state)
                   /\ WellFormed(row[i].state)
  BY <1>1 DEF Rebuilt
<1> QED
  BY <1>2, <1>3, <1>4


\* A ticket held whose revision has not moved on is what the store has.
LEMMA HeldMatches ==
  ASSUME FoldInv, NEW w \in Writers, NEW n \in DOMAIN held[w],
         held[w][n].expected = row[held[w][n].id].revision
  PROVE  LET m == held[w][n]
         IN  /\ m.id \in TicketIds /\ Exists(m.id)
             /\ m.state \in Ticket /\ m.state = FromSnapshot(m.id)
             /\ \A t \in {m.state, FromLog(m.id)} :
                  WellFormed(t) /\ Alike(t, row[m.id].state)
             /\ row[m.id].state \in Ticket
<1> DEFINE m == held[w][n]
           i == m.id
           t == m.state
<1>1. i \in TicketIds /\ t \in Ticket /\ t # None
  <2>1. held[w] \in Seq(Loaded)
    BY DEF FoldInv, Drafts
  <2>2. m \in Loaded
    BY <2>1
  <2> QED
    BY <2>2, NoTicketAssumption DEF Loaded
<1>2. load(i) = [state |-> t, revision |-> m.expected]
  BY DEF FoldInv, StoreInv, HeldIsCurrent
<1>3. load(i).state = t
  BY <1>2
<1> HIDE DEF m, i, t
<1>4. /\ Exists(i)
      /\ load(i) = [state |-> FromSnapshot(i), revision |-> row[i].revision]
      /\ WellFormed(FromSnapshot(i)) /\ Alike(FromSnapshot(i), row[i].state)
      /\ WellFormed(FromLog(i)) /\ Alike(FromLog(i), row[i].state)
      /\ WellFormed(row[i].state)
  BY <1>1, <1>3, LoadRebuilds
<1>5. FromSnapshot(i) = t
  BY <1>3, <1>4
<1> QED
  BY <1>1, <1>4, <1>5 DEF WellFormed, m, i, t

\* What a use case decides about such a ticket carries on its log.
LEMMA DecisionWrites ==
  ASSUME TicketStoreAssumption, FoldInv, NEW w \in Writers, NEW n \in DOMAIN held[w],
         held[w][n].expected = row[held[w][n].id].revision,
         NEW at \in Instant, NEW r, Decides(Targets, held[w][n].state, at, r)
  PROVE  Written(held[w][n].id, r)
<1> DEFINE i == held[w][n].id
           t == held[w][n].state
<1>1. /\ t \in Ticket /\ FromSnapshot(i) = t /\ WellFormed(t)
      /\ WellFormed(FromLog(i)) /\ FromLog(i) \in Ticket
      /\ Alike(t, row[i].state) /\ Alike(FromLog(i), row[i].state)
  BY HeldMatches DEF WellFormed
<1>2. Targets \subseteq Instant /\ Decides(Targets, t, at, r)
  BY DEF TicketStoreAssumption
<1> HIDE DEF i, t
<1>3. Continues(FromSnapshot(i), r)
  BY <1>1, <1>2, DecisionContinues
<1>4. Continues(FromLog(i), r)
  <2>1. Alike(t, FromLog(i))
    BY <1>1, AlikeEquivalence
  <2>2. PICK q : Decides(Targets, FromLog(i), at, q) /\ AlikeResults(r, q)
    BY <1>1, <1>2, <2>1, DecidesAlike
  <2>3. Continues(FromLog(i), q)
    BY <1>1, <1>2, <2>2, DecisionContinues
  <2> QED
    BY <1>3, <2>2, <2>3, ContinuesAlike DEF Continues
<1> QED
  BY <1>3, <1>4 DEF Written, i

\* An instant after those of the tickets written, within the bound.
LEMMA NowInTime ==
  ASSUME TicketStoreAssumption, Logs, NEW ids \in SUBSET TicketIds, ids # {},
         \A i \in ids : Len(log[i]) < MaxRevision
  PROVE  Now(ids) \in Times /\ Now(ids) \in Instant
<1> DEFINE L == {Len(log[i]) : i \in ids}
           T == {k \in Nat : \A l \in L : l <= k}
<1>1. MaxRevision \in Nat
  BY DEF TicketStoreAssumption
<1>2. \A l \in L : l \in Nat /\ l < MaxRevision
  BY RevisionType
<1>3. MaxRevision \in T /\ T \in SUBSET Nat
  BY <1>1, <1>2
<1> HIDE DEF T
<1>4. PICK k \in T : \A l \in T : ~(l < k)
  BY <1>3, SmallestOf
<1>5. k \in Nat /\ \A l \in L : l <= k
  BY <1>4 DEF T
<1>6. k \in L
  <2>1. SUFFICES ASSUME k \notin L PROVE FALSE
    OBVIOUS
  <2>2. PICK l \in L : TRUE
    OBVIOUS
  <2>3. k - 1 \in Nat /\ \A j \in L : j <= k - 1
    <3>1. \A j \in L : j \in Nat /\ j <= k /\ j # k
      BY <1>2, <1>5, <2>1
    <3> HIDE DEF L
    <3> QED
      BY <1>5, <2>2, <3>1
  <2>4. k - 1 \in T /\ k - 1 < k
    BY <1>5, <2>3 DEF T
  <2> QED
    BY <1>4, <2>4
<1>7. \E n \in L : \A i \in ids : n >= Len(log[i])
  BY <1>2, <1>5, <1>6
<1> DEFINE c == CHOOSE n \in L : \A i \in ids : n >= Len(log[i])
<1>8. c \in L
  BY <1>7
<1>9. Now(ids) = 1 + c
  BY DEF Now
<1> HIDE DEF L, c
<1>10. c \in Nat /\ c < MaxRevision
  BY <1>2, <1>8
<1> QED
  BY <1>1, <1>9, <1>10 DEF Times, Instant

-----------------------------------------------------------------------------
\* Nothing is stored, and nothing held, in the initial state.
LEMMA InitFold == TicketStoreAssumption /\ Init => FoldInv
<1> SUFFICES ASSUME TicketStoreAssumption, Init PROVE FoldInv
  OBVIOUS
<1>1. StoreInv
  BY InitStore
<1>2. ASSUME NEW i \in TicketIds PROVE Rebuilt(i)
  <2>1. log[i] = << >> /\ row[i] = Absent /\ snapshot[i] = Absent
    BY DEF Init
  <2>2. << >> \in Seq(TicketEvent) /\ DOMAIN << >> = {} /\ Absent \in Aggregate
        /\ Absent.state = None
    BY DEF Absent, Aggregate
  <2> QED
    BY <2>1, <2>2 DEF Rebuilt, Exists
<1>3. ASSUME NEW w \in Writers
      PROVE  held[w] = << >> /\ << >> \in Seq(Loaded) /\ DOMAIN << >> = {}
  BY DEF Init
<1>4. Tables
  BY DEF Init, Tables
<1> QED
  BY <1>1, <1>2, <1>3, <1>4 DEF FoldInv, Drafts

\* A save by one use case, or by none, leaves what the others hold.
LEMMA DraftsStay ==
  ASSUME Drafts, \A w \in Writers : held'[w] = held[w] \/ held'[w] = << >>
  PROVE  Drafts'
<1> SUFFICES ASSUME NEW w \in Writers
             PROVE  /\ held'[w] \in Seq(Loaded)
                    /\ \A n \in DOMAIN held'[w] : /\ VariantShape(held'[w][n].state)
                                                  /\ held'[w][n].expected < MaxRevision
  BY DEF Drafts
<1>1. << >> \in Seq(Loaded) /\ DOMAIN << >> = {}
  OBVIOUS
<1> QED
  BY <1>1 DEF Drafts

\* A ticket nobody writes is as it was.
LEMMA RebuiltStays ==
  ASSUME NEW i, Rebuilt(i), UNCHANGED store
  PROVE  Rebuilt(i)'
BY DEF store, Rebuilt, Exists, FromLog, FromSnapshot, tail

\* The use case that loads one more ticket holds a well-formed one.
LEMMA LoadDrafts ==
  ASSUME FoldInv, NEW w \in Writers, NEW i \in TicketIds, Load(w, i)
  PROVE  Drafts'
<1> DEFINE new == [id |-> i, state |-> load(i).state, expected |-> load(i).revision]
<1>1. \A v \in Writers : held'[v] = IF v = w THEN Append(held[v], new) ELSE held[v]
  BY DEF FoldInv, StoreInv, Holds, Load
<1>2. Exists(i) /\ WellFormed(load(i).state) /\ load(i).revision < MaxRevision
      /\ load(i).revision = row[i].revision
  <2>1. Exists(i) /\ load(i).revision < MaxRevision
    BY LoadRebuilds DEF Load
  <2> QED
    BY <2>1, LoadRebuilds
<1>3. row[i].revision \in Nat
  BY RevisionType DEF FoldInv, StoreInv
<1>4. new \in Loaded /\ VariantShape(new.state) /\ new.expected < MaxRevision
  BY <1>2, <1>3 DEF Loaded, WellFormed
<1> HIDE DEF new
<1>5. ASSUME NEW v \in Writers
      PROVE  /\ held'[v] \in Seq(Loaded)
             /\ \A n \in DOMAIN held'[v] : /\ VariantShape(held'[v][n].state)
                                           /\ held'[v][n].expected < MaxRevision
  <2>1. /\ held[v] \in Seq(Loaded)
        /\ \A n \in DOMAIN held[v] : /\ VariantShape(held[v][n].state)
                                     /\ held[v][n].expected < MaxRevision
    BY DEF FoldInv, Drafts
  <2>2. CASE v # w
    BY <1>1, <2>1, <2>2
  <2>3. CASE v = w
    <3>1. held'[v] = Append(held[v], new)
      BY <1>1, <2>3
    <3>2. /\ Append(held[v], new) \in Seq(Loaded)
          /\ \A n \in DOMAIN Append(held[v], new) :
               \/ Append(held[v], new)[n] = new
               \/ n \in DOMAIN held[v] /\ Append(held[v], new)[n] = held[v][n]
      BY <1>4, <2>1
    <3> QED
      BY <1>4, <2>1, <3>1, <3>2
  <2> QED
    BY <2>2, <2>3
<1> QED
  BY <1>5 DEF Drafts

\* What Issue writes carries on an empty log.
LEMMA IssueWrites ==
  ASSUME TicketStoreAssumption, FoldInv, NEW i \in TicketIds, ~Exists(i),
         NEW h \in Handles, NEW form \in IssueForms
  PROVE  LET r == applyIssue(form[1], h, nextDisplaySeq(Rows), form[2], Now({i}))
         IN  Written(i, r) /\ nextDisplaySeq(Rows) \in Nat /\ Now({i}) \in Times
<1>1. form[1] \in Lane /\ form[2] \in Instant \cup {None}
  BY DEF TicketStoreAssumption
<1>2. nextDisplaySeq(Rows) \in Nat
  <2> DEFINE last == HighestNumber(Rows, Held(Rows))
  <2>1. CASE last = {}
    BY <2>1 DEF nextDisplaySeq
  <2>2. CASE last # {}
    <3>1. PICK j : j = CHOOSE k \in last : TRUE
      OBVIOUS
    <3>2. j \in last
      BY <2>2, <3>1
    <3>3. j \in TicketIds /\ Exists(j) /\ Rows[j] = row[j].state
      BY <3>2 DEF HighestNumber, Held, Rows, Exists
    <3>4. Rows[j].displaySeq \in Nat
      BY <3>3, LoadRebuilds DEF WellFormed, Ticket
    <3> QED
      BY <2>2, <3>1, <3>4 DEF nextDisplaySeq
  <2> QED
    BY <2>1, <2>2
<1>3. log[i] = << >> /\ snapshot[i] = Absent
  BY DEF FoldInv, Rebuilt
<1>4. Now({i}) \in Times /\ Now({i}) \in Instant
  <2>1. Len(log[i]) < MaxRevision
    BY <1>3 DEF TicketStoreAssumption
  <2> QED
    BY <2>1, NowInTime DEF FoldInv, StoreInv
<1>5. FromLog(i) = None /\ FromSnapshot(i) = None
  <2>1. tail(i) = << >>
    BY <1>3 DEF tail, Absent
  <2>2. snapshot[i].state = None
    BY <1>3 DEF Absent
  <2> QED
    BY <1>3, <2>1, <2>2, ReplayEmpty DEF FromLog, FromSnapshot
<1>6. Continues(None, applyIssue(form[1], h, nextDisplaySeq(Rows), form[2], Now({i})))
  BY <1>1, <1>2, <1>4, IssueContinues
<1> QED
  BY <1>2, <1>4, <1>5, <1>6 DEF Written

\* The members of a batch about to be saved: what is written for each.
LEMMA BatchWrites ==
  ASSUME TicketStoreAssumption, FoldInv, NEW w \in Writers, saveBatch(w)
  PROVE  LET ms == held[w]
             ids == {ms[n].id : n \in Inserted(ms)}
             state(i) == ms[CHOOSE n \in Inserted(ms) : ms[n].id = i].state
             at == Now(ids)
         IN  /\ ids # {} /\ ids \subseteq TicketIds /\ at \in Times /\ at \in Instant
             /\ \A i \in ids : /\ Exists(i) /\ Written(i, applyCall(state(i), at))
                               /\ state(i) \in Ticket /\ state(i).state = "Waiting"
                               /\ row[i].state \in Ticket
                               /\ Alike(state(i), row[i].state)
<1> DEFINE ms == held[w]
           ids == {ms[n].id : n \in Inserted(ms)}
           pos(i) == CHOOSE n \in Inserted(ms) : ms[n].id = i
           state(i) == ms[pos(i)].state
           at == Now(ids)
<1>1. ms \in Seq(Loaded) /\ Len(ms) \in Nat /\ Len(ms) > 1 /\ AllWaiting(ms) /\ ~stale(ms)
  BY DEF FoldInv, Drafts, saveBatch
<1>2. \A n \in DOMAIN ms : /\ ms[n].expected = row[ms[n].id].revision
                           /\ ms[n].state.state = "Waiting"
                           /\ ms[n].id \in TicketIds /\ ms[n].expected < MaxRevision
  <2> TAKE n \in DOMAIN ms
  <2>1. ms[n] \in Loaded /\ ms[n].expected < MaxRevision
    BY <1>1 DEF FoldInv, Drafts
  <2>2. ms[n].expected = row[ms[n].id].revision /\ ms[n].state.state = "Waiting"
    BY <1>1 DEF stale, AllWaiting
  <2> QED
    BY <2>1, <2>2 DEF Loaded
<1>3. 1 \in Inserted(ms)
  BY <1>1 DEF Inserted
<1>4. Inserted(ms) \subseteq DOMAIN ms
  BY DEF Inserted
<1>5. ids # {} /\ ids \subseteq TicketIds
  BY <1>2, <1>3, <1>4
<1>6. \A i \in ids : pos(i) \in Inserted(ms) /\ ms[pos(i)].id = i
  OBVIOUS
<1>7. Logs
  BY DEF FoldInv, StoreInv
<1>8. at \in Times /\ at \in Instant
  <2>1. \A i \in ids : Len(log[i]) < MaxRevision
    BY <1>2, <1>4, <1>6, <1>7, RevisionType
  <2> HIDE DEF ids
  <2> QED
    BY <1>5, <1>7, <2>1, NowInTime
<1> HIDE DEF at, ids, pos
<1>9. ASSUME NEW i \in ids
      PROVE  /\ Exists(i) /\ Written(i, applyCall(state(i), at))
             /\ state(i) \in Ticket /\ state(i).state = "Waiting"
             /\ row[i].state \in Ticket /\ Alike(state(i), row[i].state)
  <2>1. /\ pos(i) \in DOMAIN ms /\ ms[pos(i)].id = i
        /\ ms[pos(i)].expected = row[i].revision /\ state(i).state = "Waiting"
    BY <1>2, <1>4, <1>6
  <2>2. Decides(Targets, state(i), at, applyCall(state(i), at))
    BY <2>1 DEF Decides
  <2> QED
    BY <1>8, <2>1, <2>2, DecisionWrites, HeldMatches
<1> QED
  BY <1>5, <1>8, <1>9 DEF at, ids, pos

\* A save of one ticket: what it decides is written.
LEMMA SaveWrites ==
  ASSUME TicketStoreAssumption, FoldInv, NEW w \in Writers, save(w)
  PROVE  LET m == held[w][1]
         IN  /\ m.id \in TicketIds /\ Exists(m.id)
             /\ m.state \in Ticket /\ row[m.id].state \in Ticket
             /\ Alike(m.state, row[m.id].state)
             /\ Now({m.id}) \in Times /\ Now({m.id}) \in Instant
             /\ \A r \in Atomic!Results(m.state, Now({m.id})) :
                  /\ Decides(Targets, m.state, Now({m.id}), r)
                  /\ Written(m.id, r)
<1> DEFINE m == held[w][1]
           at == Now({m.id})
<1>1. 1 \in DOMAIN held[w] /\ ~stale(held[w])
  BY DEF save, FoldInv, Drafts
<1>2. m \in Loaded /\ m.expected = row[m.id].revision /\ m.expected < MaxRevision
  BY <1>1 DEF stale, FoldInv, Drafts
<1>3. m.id \in TicketIds
  BY <1>2 DEF Loaded
<1>4. at \in Times /\ at \in Instant
  <2>1. Len(log[m.id]) < MaxRevision /\ Logs
    BY <1>2, <1>3, RevisionType DEF FoldInv, StoreInv
  <2> HIDE DEF m
  <2> QED
    BY <1>3, <2>1, NowInTime
<1> HIDE DEF at
<1>5. \A r \in Atomic!Results(m.state, at) : Decides(Targets, m.state, at, r)
  BY ResultsAreDecisions
<1>6. \A r \in Atomic!Results(m.state, at) : Written(m.id, r)
  BY <1>1, <1>2, <1>4, <1>5, DecisionWrites
<1>7. /\ Exists(m.id) /\ m.state \in Ticket /\ row[m.id].state \in Ticket
      /\ Alike(m.state, row[m.id].state)
  BY <1>1, <1>2, HeldMatches
<1> QED
  BY <1>3, <1>4, <1>5, <1>6, <1>7 DEF at

\* A save replaces the three tables of the store whole.
LEMMA PersistTables ==
  ASSUME NEW results, Persist(results)
  PROVE  /\ log' = [i \in TicketIds |-> log'[i]]
         /\ row' = [i \in TicketIds |-> row'[i]]
         /\ snapshot' = [i \in TicketIds |-> snapshot'[i]]
<1>1. log' = [i \in TicketIds |-> log'[i]]
  BY DEF Persist
<1>2. row' = [i \in TicketIds |-> row'[i]]
  BY DEF Persist
<1>3. snapshot' = [i \in TicketIds |-> snapshot'[i]]
  BY DEF Persist
<1> QED
  BY <1>1, <1>2, <1>3

\* So does every step, if it changes one.
LEMMA NextTables ==
  ASSUME Tables, [Next]_vars
  PROVE  Tables'
<1>1. \/ UNCHANGED store
      \/ \E results : Persist(results)
  <2>1. ASSUME NEW i \in TicketIds, Issue(i)  PROVE \E results : Persist(results)
    BY <2>1 DEF Issue
  <2>2. ASSUME NEW w \in Writers, save(w)  PROVE \E results : Persist(results)
    BY <2>2 DEF save
  <2>3. ASSUME NEW w \in Writers, saveBatch(w)  PROVE \E results : Persist(results)
    BY <2>3 DEF saveBatch
  <2>4. ASSUME NEW w \in Writers, NEW i \in TicketIds, Load(w, i)  PROVE UNCHANGED store
    BY <2>4 DEF Load
  <2>5. ASSUME NEW w \in Writers, Refuse(w) \/ ConcurrencyError(w)  PROVE UNCHANGED store
    BY <2>5 DEF Refuse, ConcurrencyError
  <2>6. CASE UNCHANGED vars
    BY <2>6 DEF vars, store
  <2> QED
    BY <2>1, <2>2, <2>3, <2>4, <2>5, <2>6 DEF Next
<1>2. held' = [w \in Writers |-> held'[w]]
  <2>1. held' = held \/ \E w \in Writers : \E x : held' = [held EXCEPT ![w] = x]
    <3>1. ASSUME NEW i \in TicketIds, Issue(i)  PROVE held' = held
      BY <3>1 DEF Issue
    <3>2. ASSUME NEW w \in Writers, NEW i \in TicketIds, Load(w, i)
          PROVE  \E x : held' = [held EXCEPT ![w] = x]
      BY <3>2 DEF Load
    <3>3. ASSUME NEW w \in Writers, Refuse(w) \/ ConcurrencyError(w) \/ save(w) \/ saveBatch(w)
          PROVE  \E x : held' = [held EXCEPT ![w] = x]
      BY <3>3 DEF Refuse, ConcurrencyError, save, saveBatch, Release
    <3>4. UNCHANGED vars => held' = held
      BY DEF vars
    <3> QED
      BY <3>1, <3>2, <3>3, <3>4 DEF Next
  <2> QED
    BY <2>1 DEF Tables
<1>3. /\ log' = [i \in TicketIds |-> log'[i]]
      /\ row' = [i \in TicketIds |-> row'[i]]
      /\ snapshot' = [i \in TicketIds |-> snapshot'[i]]
  BY <1>1, PersistTables DEF Tables, store
<1> QED
  BY <1>2, <1>3 DEF Tables

\* Every step keeps the invariant.
LEMMA NextFold ==
  ASSUME TicketStoreAssumption, FoldInv, [Next]_vars
  PROVE  FoldInv'
<1>0. StoreInv /\ Logs /\ Drafts /\ \A i \in TicketIds : Rebuilt(i)
  BY DEF FoldInv, StoreInv
<1>1. StoreInv' /\ Tables'
  BY <1>0, NextStore, NextTables DEF FoldInv
<1>2. CASE UNCHANGED store /\ \A w \in Writers : held'[w] = held[w] \/ held'[w] = << >>
  BY <1>0, <1>1, <1>2, RebuiltStays, DraftsStay DEF FoldInv
<1>3. ASSUME NEW i \in TicketIds, Issue(i)  PROVE FoldInv'
  <2>1. PICK h \in Handles, form \in IssueForms :
          Persist([j \in {i} |->
            applyIssue(form[1], h, nextDisplaySeq(Rows), form[2], Now({i}))])
    BY <1>3 DEF Issue
  <2> DEFINE r == applyIssue(form[1], h, nextDisplaySeq(Rows), form[2], Now({i}))
  <2>2. ~Exists(i) /\ held' = held
    BY <1>3 DEF Issue
  <2>3. Written(i, r)
    BY <2>2, IssueWrites
  <2> HIDE DEF r
  <2>4. \A j \in TicketIds : Rebuilt(j)'
    <3> DEFINE results == [j \in {i} |-> r]
    <3>1. Persist(results)
      BY <2>1 DEF r
    <3>2. DOMAIN results = {i} /\ \A j \in {i} : results[j] = r
      OBVIOUS
    <3> HIDE DEF results
    <3> QED
      BY <1>0, <2>3, <3>1, <3>2, PersistRebuilds
  <2> QED
    BY <1>0, <1>1, <2>2, <2>4, DraftsStay DEF FoldInv
<1>4. ASSUME NEW w \in Writers, NEW i \in TicketIds, Load(w, i)  PROVE FoldInv'
  <2>1. UNCHANGED store
    BY <1>4 DEF Load
  <2> QED
    BY <1>0, <1>1, <1>4, <2>1, RebuiltStays, LoadDrafts DEF FoldInv
<1>5. ASSUME NEW w \in Writers, Refuse(w) \/ ConcurrencyError(w)  PROVE FoldInv'
  <2>1. UNCHANGED store /\ held' = [held EXCEPT ![w] = << >>]
    BY <1>5 DEF Refuse, ConcurrencyError, Release
  <2>2. \A v \in Writers : held'[v] = held[v] \/ held'[v] = << >>
    BY <1>0, <2>1 DEF StoreInv, Holds
  <2> QED
    BY <1>2, <2>1, <2>2
<1>6. ASSUME NEW w \in Writers, held' = [held EXCEPT ![w] = << >>],
             NEW results, Persist(results), DOMAIN results \subseteq TicketIds,
             \A i \in DOMAIN results : Written(i, results[i])
      PROVE  FoldInv'
  <2>1. \A i \in TicketIds : Rebuilt(i)'
    BY <1>0, <1>6, PersistRebuilds
  <2>2. \A v \in Writers : held'[v] = held[v] \/ held'[v] = << >>
    BY <1>0, <1>6 DEF StoreInv, Holds
  <2> QED
    BY <1>0, <1>1, <2>1, <2>2, DraftsStay DEF FoldInv
<1>7. ASSUME NEW w \in Writers, save(w)  PROVE FoldInv'
  <2> DEFINE m == held[w][1]
  <2>1. PICK r \in Atomic!Results(m.state, Now({m.id})) : Persist([i \in {m.id} |-> r])
    BY <1>7 DEF save
  <2>2. m.id \in TicketIds /\ Written(m.id, r)
    BY <1>7, <2>1, SaveWrites
  <2>3. held' = [held EXCEPT ![w] = << >>]
    BY <1>7 DEF save, Release
  <2> DEFINE results == [i \in {m.id} |-> r]
  <2>4. Persist(results) /\ DOMAIN results = {m.id} /\ \A i \in {m.id} : results[i] = r
    BY <2>1
  <2> HIDE DEF results, m
  <2> QED
    BY <1>6, <2>2, <2>3, <2>4
<1>8. ASSUME NEW w \in Writers, saveBatch(w)  PROVE FoldInv'
  <2> DEFINE ms == held[w]
             ids == {ms[n].id : n \in Inserted(ms)}
             state(i) == ms[CHOOSE n \in Inserted(ms) : ms[n].id = i].state
             results == [i \in ids |-> applyCall(state(i), Now(ids))]
  <2>1. Persist(results) /\ held' = [held EXCEPT ![w] = << >>]
    BY <1>8 DEF saveBatch, Release
  <2>2. /\ ids \subseteq TicketIds
        /\ \A i \in ids : Written(i, applyCall(state(i), Now(ids)))
    BY <1>8, BatchWrites
  <2> HIDE DEF ids, state
  <2>3. DOMAIN results = ids /\ \A i \in ids : results[i] = applyCall(state(i), Now(ids))
    OBVIOUS
  <2> HIDE DEF results
  <2> QED
    BY <1>6, <2>1, <2>2, <2>3
<1>9. CASE UNCHANGED vars
  BY <1>2, <1>9 DEF vars, store
<1> QED
  BY <1>3, <1>4, <1>5, <1>7, <1>8, <1>9 DEF Next

\* Two well-formed tickets are alike exactly when the port's specification,
\* which keeps of an arrival only the fact, does not tell them apart.
LEMMA BlurAlike ==
  ASSUME NEW t \in Ticket, NEW u \in Ticket, Alike(t, u)
  PROVE  Atomic!Blur(t) = Atomic!Blur(u)
BY DEF Atomic!Blur, Alike, Ticket

\* The invariant says what the runs check.
LEMMA FoldSays ==
  ASSUME FoldInv
  PROVE  TypeOK /\ LogIsLegal /\ LoadAgreesWithRow
<1>0. DOMAIN held = Writers /\ Logs
  BY DEF FoldInv, StoreInv, Holds
<1>1. TypeOK
  <2>1. \A i \in TicketIds : log[i] \in Seq(TicketEvent) /\ row[i] \in Aggregate
                             /\ snapshot[i] \in Aggregate
                             /\ (Exists(i) => VariantShape(row[i].state))
    BY DEF FoldInv, Rebuilt, WellFormed
  <2>2. \A w \in Writers : held[w] \in Seq(Loaded)
    BY DEF FoldInv, Drafts
  <2>3. log \in [TicketIds -> Seq(TicketEvent)]
    BY <2>1 DEF FoldInv, Tables
  <2>4. row \in [TicketIds -> Aggregate]
    BY <2>1 DEF FoldInv, Tables
  <2>5. snapshot \in [TicketIds -> Aggregate]
    BY <2>1 DEF FoldInv, Tables
  <2>6. held \in [Writers -> Seq(Loaded)]
    BY <2>2 DEF FoldInv, Tables
  <2> QED
    BY <2>1, <2>3, <2>4, <2>5, <2>6 DEF TypeOK
<1>2. LogIsLegal
  BY DEF FoldInv, Rebuilt, LogIsLegal, Legal
<1>3. LoadAgreesWithRow
  <2> SUFFICES ASSUME NEW i \in TicketIds, Exists(i)
               PROVE  /\ Atomic!Blur(replay(None, log[i])) = Atomic!Blur(row[i].state)
                      /\ load(i).state # None
                      /\ load(i).revision = row[i].revision
                      /\ Atomic!Blur(load(i).state) = Atomic!Blur(row[i].state)
    BY DEF LoadAgreesWithRow
  <2>1. /\ load(i) = [state |-> FromSnapshot(i), revision |-> row[i].revision]
        /\ FromSnapshot(i) \in Ticket /\ Alike(FromSnapshot(i), row[i].state)
        /\ FromLog(i) \in Ticket /\ Alike(FromLog(i), row[i].state)
        /\ row[i].state \in Ticket
    BY LoadRebuilds DEF WellFormed
  <2>2. Atomic!Blur(FromLog(i)) = Atomic!Blur(row[i].state)
    BY <2>1, BlurAlike
  <2>3. Atomic!Blur(FromSnapshot(i)) = Atomic!Blur(row[i].state)
    BY <2>1, BlurAlike
  <2>4. load(i).state = FromSnapshot(i) /\ load(i).revision = row[i].revision
    BY <2>1
  <2> QED
    BY <2>1, <2>2, <2>3, <2>4, NoTicketAssumption DEF FromLog
<1> QED
  BY <1>1, <1>2, <1>3

\* The log of a ticket is the whole truth about it: its rows are well-formed,
\* every event of it was honoured by the fold when it was appended, and a
\* load, from the snapshot or from the start, gives the row, at its revision.
THEOREM StoreIsFold ==
  TicketStoreAssumption => (Spec => [](TypeOK /\ LogIsLegal /\ LoadAgreesWithRow))
<1> SUFFICES ASSUME TicketStoreAssumption
             PROVE  Spec => [](TypeOK /\ LogIsLegal /\ LoadAgreesWithRow)
  OBVIOUS
<1>1. Init => FoldInv
  BY InitFold
<1>2. FoldInv /\ [Next]_vars => FoldInv'
  BY NextFold
<1>3. FoldInv => TypeOK /\ LogIsLegal /\ LoadAgreesWithRow
  BY FoldSays
<1> QED
  BY <1>1, <1>2, <1>3, PTL DEF Spec

\* The tables hold what their types say, for every number of events.
THEOREM StoreTypes == TicketStoreAssumption => (Spec => []TypeOK)
<1>1. (TypeOK /\ LogIsLegal /\ LoadAgreesWithRow) => TypeOK
  OBVIOUS
<1> QED
  BY <1>1, StoreIsFold, PTL

\* No use case appends an event that a replay would ignore (ADR-0051), but
\* for a second check-in.
THEOREM LogStaysLegal == TicketStoreAssumption => (Spec => []LogIsLegal)
<1>1. (TypeOK /\ LogIsLegal /\ LoadAgreesWithRow) => LogIsLegal
  OBVIOUS
<1> QED
  BY <1>1, StoreIsFold, PTL

\* Snapshots are a cache: with one or without, a load gives the row
\* (ADR-0059).
THEOREM LoadsAgree == TicketStoreAssumption => (Spec => []LoadAgreesWithRow)
<1>1. (TypeOK /\ LogIsLegal /\ LoadAgreesWithRow) => LoadAgreesWithRow
  OBVIOUS
<1> QED
  BY <1>1, StoreIsFold, PTL

-----------------------------------------------------------------------------
(* The refinement of AtomicQueue.                                          *)

\* The committed tickets: what the refinement mapping of TicketStore gives.
Committed ==
  [i \in TicketIds |-> IF Exists(i) THEN Atomic!Blur(row[i].state) ELSE None]

\* The instance's copies of the queries Issue asks are the same, too.
LEMMA SameQueries ==
  \A s, h, lane, n, appt, at :
    /\ Atomic!findActiveByHandle(s, h) = findActiveByHandle(s, h)
    /\ Atomic!nextDisplaySeq(s) = nextDisplaySeq(s)
    /\ Atomic!applyIssue(lane, h, n, appt, at) = applyIssue(lane, h, n, appt, at)
    /\ Atomic!InState(s, {"Waiting"}) = InState(s, {"Waiting"})
<1> TAKE s, h, lane, n, appt, at
<1>1. Atomic!Held(s) = Held(s)
  BY DEF Atomic!Held, Held
<1>2. Atomic!findActiveByHandle(s, h) = findActiveByHandle(s, h)
  BY <1>1 DEF Atomic!findActiveByHandle, findActiveByHandle, Atomic!isActiveForHandle, isActiveForHandle
<1>3. Atomic!HighestNumber(s, Held(s)) = HighestNumber(s, Held(s))
  BY DEF Atomic!HighestNumber, HighestNumber
<1>4. Atomic!nextDisplaySeq(s) = nextDisplaySeq(s)
  BY <1>1, <1>3 DEF Atomic!nextDisplaySeq, nextDisplaySeq
<1>5. Atomic!applyIssue(lane, h, n, appt, at) = applyIssue(lane, h, n, appt, at)
  BY DEF Atomic!applyIssue, applyIssue, Atomic!ApplyResult, ApplyResult
<1>6. Atomic!InState(s, {"Waiting"}) = InState(s, {"Waiting"})
  BY <1>1 DEF Atomic!InState, InState
<1> QED
  BY <1>2, <1>4, <1>5, <1>6

\* The refinement mapping in the initial state.
LEMMA AtomicInit == Atomic!Init <=> Committed = [i \in TicketIds |-> None]
BY DEF Atomic!Init, Committed, Atomic!Blur

\* An Issue of the port's specification, in terms of the committed tickets.
LEMMA AtomicIssue ==
  ASSUME NEW i \in TicketIds, Committed[i] = None,
         NEW h \in Handles, NEW form \in IssueForms, NEW at \in Times,
         findActiveByHandle(Committed, h) = {},
         Committed' = [Committed EXCEPT ![i] =
           applyIssue(form[1], h, nextDisplaySeq(Committed), form[2], at).ticket]
  PROVE  Atomic!Issue(i)
BY SameQueries DEF Atomic!Issue, Committed, Atomic!Blur

\* Blurring a ticket leaves one that is like it.
LEMMA BlurKeeps ==
  ASSUME NEW t \in Ticket
  PROVE  /\ Atomic!Blur(t) \in Ticket /\ Alike(t, Atomic!Blur(t))
         /\ VariantShape(t) => VariantShape(Atomic!Blur(t))
<1> DEFINE c == IF t.checkedInAt = None THEN None ELSE 0
           u == [t EXCEPT !.checkedInAt = c]
<1>1. Atomic!Blur(t) = u
  BY DEF Atomic!Blur
<1>2. c \in Instant \cup {None} /\ (c = None <=> t.checkedInAt = None)
  BY NoneAssumption DEF Instant
<1> HIDE DEF c
<1>3. u \in Ticket /\ Alike(t, u)
  BY <1>2 DEF Ticket, Alike
<1>4. VariantShape(t) => VariantShape(u)
  BY <1>2 DEF Ticket, VariantShape
<1> QED
  BY <1>1, <1>3, <1>4

\* A ticket that has not arrived, or whose arrival is blurred already, is as
\* the port's specification keeps it.
LEMMA BlurOnce ==
  ASSUME NEW t \in Ticket, t.checkedInAt \in {None, 0}
  PROVE  Atomic!Blur(t) = t
BY NoneAssumption DEF Atomic!Blur, Ticket

\* The committed ticket is like the row.
LEMMA CommittedRow ==
  ASSUME FoldInv, NEW i \in TicketIds
  PROVE  /\ ~Exists(i) => Committed[i] = None
         /\ Exists(i) =>
              /\ Committed[i] = Atomic!Blur(row[i].state)
              /\ Committed[i] # None
              /\ row[i].state \in Ticket /\ WellFormed(Committed[i])
              /\ Committed[i] \in Ticket
              /\ Alike(row[i].state, Committed[i])
<1>1. ~Exists(i) => Committed[i] = None
  BY DEF Committed
<1>2. ASSUME Exists(i)
      PROVE  /\ Committed[i] = Atomic!Blur(row[i].state)
             /\ Committed[i] # None
             /\ row[i].state \in Ticket /\ WellFormed(Committed[i])
             /\ Committed[i] \in Ticket
             /\ Alike(row[i].state, Committed[i])
  <2>1. Committed[i] = Atomic!Blur(row[i].state)
    BY <1>2 DEF Committed
  <2>2. row[i].state \in Ticket /\ VariantShape(row[i].state)
    BY <1>2, LoadRebuilds DEF WellFormed
  <2> QED
    BY <2>1, <2>2, BlurKeeps, NoTicketAssumption DEF WellFormed
<1> QED
  BY <1>1, <1>2

\* The queries of Issue see the rows and the committed tickets alike.
LEMMA QueriesAgree ==
  ASSUME FoldInv, NEW h
  PROVE  /\ findActiveByHandle(Committed, h) = findActiveByHandle(Rows, h)
         /\ nextDisplaySeq(Committed) = nextDisplaySeq(Rows)
<1>1. DOMAIN Committed = TicketIds /\ DOMAIN Rows = TicketIds
  BY DEF Committed, Rows
<1>2. Held(Committed) = Held(Rows)
  BY <1>1, CommittedRow DEF Held, Rows, Exists
<1>3. \A i \in Held(Rows) : /\ i \in TicketIds /\ Exists(i) /\ Rows[i] = row[i].state
                            /\ Alike(Rows[i], Committed[i])
  BY <1>1, CommittedRow DEF Held, Rows, Exists
<1>4. \A i \in Held(Rows) : /\ Committed[i].state = Rows[i].state
                            /\ Committed[i].handle = Rows[i].handle
                            /\ Committed[i].displaySeq = Rows[i].displaySeq
  BY <1>3 DEF Alike
<1>5. findActiveByHandle(Committed, h) = findActiveByHandle(Rows, h)
  BY <1>2, <1>4 DEF findActiveByHandle, isActiveForHandle
<1>6. HighestNumber(Committed, Held(Committed)) = HighestNumber(Rows, Held(Rows))
  BY <1>2, <1>4 DEF HighestNumber
<1>7. nextDisplaySeq(Committed) = nextDisplaySeq(Rows)
  <2> DEFINE last == HighestNumber(Rows, Held(Rows))
             j == CHOOSE i \in last : TRUE
  <2>1. CASE last = {}
    BY <1>6, <2>1 DEF nextDisplaySeq
  <2>2. CASE last # {}
    <3>1. j \in last
      BY <2>2
    <3>2. j \in Held(Rows)
      BY <3>1 DEF HighestNumber
    <3>3. Committed[j].displaySeq = Rows[j].displaySeq
      BY <1>4, <3>2
    <3>4. nextDisplaySeq(Rows) = 1 + Rows[j].displaySeq
      BY <2>2 DEF nextDisplaySeq
    <3>5. nextDisplaySeq(Committed) = 1 + Committed[j].displaySeq
      BY <1>6, <2>2 DEF nextDisplaySeq
    <3> QED
      BY <3>3, <3>4, <3>5
  <2> QED
    BY <2>1, <2>2
<1> QED
  BY <1>5, <1>7

\* What a save makes of the committed tickets.
LEMMA PersistCommits ==
  ASSUME NEW results, DOMAIN results \subseteq TicketIds, Persist(results),
         \A i \in DOMAIN results : results[i].ticket \in Ticket
  PROVE  Committed' = [i \in TicketIds |-> IF i \in DOMAIN results
                                           THEN Atomic!Blur(results[i].ticket)
                                           ELSE Committed[i]]
<1>1. ASSUME NEW i \in TicketIds, i \in DOMAIN results
      PROVE  row'[i].state = results[i].ticket /\ row'[i].state # None
  <2>1. row'[i] = [state |-> results[i].ticket, revision |-> nextRevision(i)]
    BY <1>1 DEF Persist
  <2>2. results[i].ticket # None
    BY <1>1, NoTicketAssumption
  <2> QED
    BY <2>1, <2>2
<1>2. ASSUME NEW i \in TicketIds, i \notin DOMAIN results
      PROVE  row'[i] = row[i]
  BY <1>2 DEF Persist
<1>3. Committed' = [i \in TicketIds |-> IF row'[i].state # None
                                        THEN Atomic!Blur(row'[i].state) ELSE None]
  BY DEF Committed, Exists, Atomic!Blur
<1>4. ASSUME NEW i \in TicketIds
      PROVE  (IF row'[i].state # None THEN Atomic!Blur(row'[i].state) ELSE None)
               = IF i \in DOMAIN results THEN Atomic!Blur(results[i].ticket) ELSE Committed[i]
  <2>1. CASE i \in DOMAIN results
    BY <1>1, <2>1
  <2>2. CASE i \notin DOMAIN results
    BY <1>2, <2>2 DEF Committed, Exists
  <2> QED
    BY <2>1, <2>2
<1> QED
  BY <1>3, <1>4

-----------------------------------------------------------------------------
\* Issue is one step of the port's specification.
LEMMA IssueRefines ==
  ASSUME TicketStoreAssumption, FoldInv, NEW i \in TicketIds, Issue(i)
  PROVE  Atomic!Issue(i)
<1>1. PICK h \in Handles, form \in IssueForms :
        /\ findActiveByHandle(Rows, h) = {}
        /\ Persist([j \in {i} |->
             applyIssue(form[1], h, nextDisplaySeq(Rows), form[2], Now({i}))])
  BY DEF Issue
<1> DEFINE r == applyIssue(form[1], h, nextDisplaySeq(Rows), form[2], Now({i}))
<1>2. ~Exists(i)
  BY DEF Issue
<1>3. Now({i}) \in Times /\ Written(i, r)
  BY <1>2, IssueWrites
<1>4. r.ticket \in Ticket
  BY <1>3 DEF Written, Continues, WellFormed
<1>5. Atomic!Blur(r.ticket) = r.ticket
  <2>1. r.ticket.checkedInAt = None
    BY DEF applyIssue, ApplyResult
  <2> HIDE DEF r
  <2> QED
    BY <1>4, <2>1, BlurOnce
<1>6. /\ findActiveByHandle(Committed, h) = {}
      /\ r = applyIssue(form[1], h, nextDisplaySeq(Committed), form[2], Now({i}))
  BY <1>1, QueriesAgree
<1>7. Committed[i] = None /\ DOMAIN Committed = TicketIds
  BY <1>2, CommittedRow DEF Committed
<1> DEFINE results == [j \in {i} |-> r]
<1>8. Persist(results) /\ DOMAIN results = {i} /\ results[i] = r
  BY <1>1
<1> HIDE DEF r
<1>9. Committed' = [Committed EXCEPT ![i] = r.ticket]
  <2>1. Committed' = [j \in TicketIds |-> IF j \in {i} THEN Atomic!Blur(results[j].ticket)
                                          ELSE Committed[j]]
    BY <1>4, <1>8, PersistCommits
  <2>2. Committed = [j \in TicketIds |-> Committed[j]]
    BY DEF Committed
  <2> QED
    BY <1>5, <1>8, <2>1, <2>2
<1> QED
  BY <1>3, <1>6, <1>7, <1>9, AtomicIssue

\* So is the save of one ticket, whenever it was loaded.
LEMMA SaveRefines ==
  ASSUME TicketStoreAssumption, FoldInv, NEW w \in Writers, save(w)
  PROVE  \E i \in TicketIds : Atomic!Change(i)
<1> DEFINE m == held[w][1]
           i == m.id
           at == Now({i})
<1>1. PICK r \in Atomic!Results(m.state, at) : Persist([j \in {i} |-> r])
  BY DEF save
<1>2. /\ i \in TicketIds /\ Exists(i) /\ m.state \in Ticket
      /\ Alike(m.state, row[i].state) /\ at \in Times /\ at \in Instant
      /\ Decides(Targets, m.state, at, r) /\ Written(i, r)
  BY <1>1, SaveWrites
<1> HIDE DEF m, i, at
<1>3. /\ Committed[i] # None /\ Committed[i] \in Ticket /\ WellFormed(Committed[i])
      /\ Alike(m.state, Committed[i])
  BY <1>2, CommittedRow, AlikeEquivalence
<1>4. Targets \subseteq Instant
  BY DEF TicketStoreAssumption
<1>5. PICK q : Decides(Targets, Committed[i], at, q) /\ AlikeResults(r, q)
  BY <1>2, <1>3, <1>4, DecidesAlike
<1>6. q \in Atomic!Results(Committed[i], at)
  BY <1>5, ResultsAreDecisions
<1>7. q.ticket \in Ticket
  BY <1>2, <1>3, <1>4, <1>5, DecisionContinues DEF Continues, WellFormed
<1>8. r.ticket \in Ticket
  BY <1>2 DEF Written, Continues, WellFormed
<1>9. Atomic!Blur(r.ticket) = Atomic!Blur(q.ticket)
  BY <1>5, <1>7, <1>8, BlurAlike DEF AlikeResults
<1>10. Committed' = [Committed EXCEPT ![i] = Atomic!Blur(q.ticket)]
  <2> DEFINE results == [j \in {i} |-> r]
  <2>1. Persist(results) /\ DOMAIN results = {i} /\ results[i] = r
    BY <1>1
  <2>2. Committed' = [j \in TicketIds |-> IF j \in {i} THEN Atomic!Blur(results[j].ticket)
                                          ELSE Committed[j]]
    BY <1>2, <1>8, <2>1, PersistCommits
  <2>3. Committed = [j \in TicketIds |-> Committed[j]]
    BY DEF Committed
  <2> QED
    BY <1>2, <1>9, <2>1, <2>2, <2>3
<1>11. PICK j \in TicketIds : j = i
  BY <1>2
<1>12. \E a \in Times : \E r1 \in Atomic!Results(Committed[j], a) :
         Committed' = [Committed EXCEPT ![j] = Atomic!Blur(r1.ticket)]
  BY <1>2, <1>6, <1>10, <1>11
<1>13. Atomic!Change(j)
  BY <1>3, <1>11, <1>12 DEF Atomic!Change, Committed, Atomic!Blur
<1> QED
  BY <1>13

\* So is a batch, for the members that were inserted.
LEMMA BatchRefines ==
  ASSUME TicketStoreAssumption, FoldInv, NEW w \in Writers, saveBatch(w)
  PROVE  \E ids \in (SUBSET TicketIds) \ {{}} : Atomic!CallAll(ids)
<1> DEFINE ms == held[w]
           ids == {ms[n].id : n \in Inserted(ms)}
           state(i) == ms[CHOOSE n \in Inserted(ms) : ms[n].id = i].state
           at == Now(ids)
<1>1. Persist([i \in ids |-> applyCall(state(i), at)])
  BY DEF saveBatch
<1>2. /\ ids # {} /\ ids \subseteq TicketIds /\ at \in Times /\ at \in Instant
      /\ \A i \in ids : /\ Exists(i) /\ Written(i, applyCall(state(i), at))
                        /\ state(i) \in Ticket /\ state(i).state = "Waiting"
                        /\ row[i].state \in Ticket
                        /\ Alike(state(i), row[i].state)
  BY BatchWrites
<1> HIDE DEF ids, state, at
<1>3. ASSUME NEW i \in ids
      PROVE  /\ Committed[i].state = "Waiting" /\ Committed[i] # None
             /\ applyCall(state(i), at).ticket \in Ticket
             /\ Atomic!Blur(applyCall(state(i), at).ticket)
                  = applyCall(Committed[i], at).ticket
  <2>1. /\ i \in TicketIds /\ Exists(i) /\ state(i) \in Ticket /\ state(i).state = "Waiting"
        /\ Alike(state(i), row[i].state) /\ Written(i, applyCall(state(i), at))
    BY <1>2
  <2>2. /\ Committed[i] # None /\ Committed[i] \in Ticket /\ row[i].state \in Ticket
        /\ Alike(row[i].state, Committed[i]) /\ Alike(state(i), Committed[i])
        /\ Committed[i] = Atomic!Blur(row[i].state) /\ WellFormed(Committed[i])
    BY <2>1, CommittedRow, AlikeEquivalence
  <2>3. Committed[i].state = "Waiting"
    BY <2>1, <2>2 DEF Alike
  <2>4. AlikeResults(applyCall(state(i), at), applyCall(Committed[i], at))
    <3>1. PICK by \in Actor : TRUE
      BY DEF Actor
    <3> QED
      BY <1>2, <2>1, <2>2, TransitionsAlike
  <2>5. applyCall(state(i), at).ticket \in Ticket
    BY <2>1 DEF Written, Continues, WellFormed
  <2>6. applyCall(Committed[i], at).ticket \in Ticket
    <3>1. Decides(Targets, Committed[i], at, applyCall(Committed[i], at))
      BY <2>3 DEF Decides
    <3> QED
      BY <1>2, <2>2, <3>1, DecisionContinues DEF Continues, WellFormed, TicketStoreAssumption
  <2>7. Atomic!Blur(applyCall(Committed[i], at).ticket) = applyCall(Committed[i], at).ticket
    <3>1. Committed[i].checkedInAt \in {None, 0}
      BY <2>2 DEF Atomic!Blur, Ticket
    <3>2. applyCall(Committed[i], at).ticket.checkedInAt = Committed[i].checkedInAt
      BY <2>2 DEF applyCall, ApplyResult, common, Ticket
    <3> QED
      BY <2>6, <3>1, <3>2, BlurOnce
  <2> QED
    BY <2>2, <2>3, <2>4, <2>5, <2>6, <2>7, BlurAlike DEF AlikeResults
<1>4. ids \subseteq InState(Committed, {"Waiting"})
  <2>1. DOMAIN Committed = TicketIds
    BY DEF Committed
  <2> QED
    BY <1>2, <1>3, <2>1 DEF InState, Held
<1>5. Committed' = [i \in TicketIds |-> IF i \in ids THEN applyCall(Committed[i], at).ticket
                                        ELSE Committed[i]]
  <2> DEFINE results == [i \in ids |-> applyCall(state(i), at)]
  <2>1. DOMAIN results = ids /\ Persist(results)
        /\ \A i \in ids : results[i] = applyCall(state(i), at)
    BY <1>1
  <2> HIDE DEF results
  <2>2. Committed' = [i \in TicketIds |-> IF i \in ids THEN Atomic!Blur(results[i].ticket)
                                          ELSE Committed[i]]
    BY <1>2, <1>3, <2>1, PersistCommits
  <2> QED
    BY <1>3, <2>1, <2>2
<1>6. PICK xs \in (SUBSET TicketIds) \ {{}} : xs = ids
  BY <1>2
<1>7. Atomic!CallAll(xs)
  BY <1>2, <1>4, <1>5, <1>6, SameQueries, SameTransitions
     DEF Atomic!CallAll, Committed, Atomic!Blur
<1> QED
  BY <1>7

\* Every step is one of the port's, or changes no committed ticket.
LEMMA NextRefines ==
  ASSUME TicketStoreAssumption, FoldInv, [Next]_vars
  PROVE  Atomic!Next \/ Committed' = Committed
<1>1. ASSUME UNCHANGED store  PROVE Committed' = Committed
  BY <1>1 DEF store, Committed, Exists, Atomic!Blur
<1>2. ASSUME NEW i \in TicketIds, Issue(i)  PROVE Atomic!Next
  BY <1>2, IssueRefines DEF Atomic!Next
<1>3. ASSUME NEW w \in Writers, save(w)  PROVE Atomic!Next
  BY <1>3, SaveRefines DEF Atomic!Next
<1>4. ASSUME NEW w \in Writers, saveBatch(w)  PROVE Atomic!Next
  BY <1>4, BatchRefines DEF Atomic!Next
<1>5. ASSUME NEW w \in Writers, NEW i \in TicketIds, Load(w, i)  PROVE Committed' = Committed
  BY <1>1, <1>5 DEF Load
<1>6. ASSUME NEW w \in Writers, Refuse(w) \/ ConcurrencyError(w)  PROVE Committed' = Committed
  BY <1>1, <1>6 DEF Refuse, ConcurrencyError
<1>7. CASE UNCHANGED vars
  BY <1>1, <1>7 DEF vars, store
<1> QED
  BY <1>2, <1>3, <1>4, <1>5, <1>6, <1>7 DEF Next

\* Load, decide and save, in any interleaving of use cases, implement the
\* port's contract: one atomic step per use case (TicketRepository.save).
THEOREM StoreRefinesPort == TicketStoreAssumption => (Spec => StoreIsAtomic)
<1> SUFFICES ASSUME TicketStoreAssumption PROVE Spec => StoreIsAtomic
  OBVIOUS
<1>1. Init => FoldInv
  BY InitFold
<1>2. FoldInv /\ [Next]_vars => FoldInv'
  BY NextFold
<1>3. Init => Atomic!Init
  BY AtomicInit DEF Init, Committed, Exists, Absent
<1>4. FoldInv /\ [Next]_vars =>
        [Atomic!Next]_[i \in TicketIds |->
                         IF Exists(i)
                         THEN [row[i].state EXCEPT
                                 !.checkedInAt = IF @ = None THEN None ELSE 0]
                         ELSE None]
  BY NextRefines DEF Committed, Atomic!Blur
<1> QED
  BY <1>1, <1>2, <1>3, <1>4, PTL DEF Spec, StoreIsAtomic, Atomic!Spec

=============================================================================
