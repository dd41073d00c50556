----------------------------- MODULE WebProofs ------------------------------
(***************************************************************************)
(* A device of the web client, in whichever of its roles, behaves as each  *)
(* of the three parts specified on their own: it takes the steps of its    *)
(* role and the other parts stand still.  So what is proved of a part for  *)
(* any number of its keys, calls and flows holds of the device, and what   *)
(* the one run of the composition checks is a property of each part.       *)
(***************************************************************************)
EXTENDS MCWeb, CustomerAppProofs, PushClientProofs, StaffConsoleProofs

\* The composition implements its parts, fairness included.
THEOREM DeviceImplementsParts == WebSpec => PhoneSpec /\ PushSpec /\ StaffSpec
<1>1. WebInit => PhoneInit /\ PushInit /\ StaffInit
  BY DEF WebInit
<1>2. [WebNext]_webVars =>
        [PhoneNext]_phoneVars /\ [PushNext]_pushVars /\ [StaffNext]_staffVars
  BY DEF WebNext, webVars
<1> QED
  BY <1>1, <1>2, PTL DEF WebSpec, PhoneSpec, PushSpec, StaffSpec

\* Whatever the customer, the counter, the service worker and the network do
\* and in whatever order the answers arrive, every variable of the device has
\* its type: no handler leaves a page, a form or a stored value in a shape
\* the next one does not expect.
THEOREM DeviceTypeCorrect == WebSpec => []WebTypeOK
<1>1. PhoneTypeOK /\ PushTypeOK /\ StaffTypeOK => WebTypeOK
  BY DEF WebTypeOK
<1> QED
  BY <1>1, DeviceImplementsParts, PhoneTypeCorrect, PushTypeCorrect, StaffTypeCorrect, PTL

-----------------------------------------------------------------------------
(* The shop the customer's page is checked against, and the one there is.  *)

Holder == INSTANCE HolderView

\* The shop's ticket of a handle, without the key of its call.
Shown(row) == IF row = None THEN {} ELSE {[id |-> row.id, state |-> row.state]}

\* A row the shop keeps, as its holder sees it.
LEMMA ShownRow ==
  ASSUME NEW row \in ActiveTicket, row # None
  PROVE  /\ Shown(row) = {[id |-> row.id, state |-> row.state]}
         /\ [id |-> row.id, state |-> row.state] \in Holder!View
<1>1. row.id \in 1..MaxTickets /\ row.state \in {"Waiting", "Called", "Overdue"}
  BY DEF ActiveTicket
<1>2. row.id \in Nat
  BY <1>1, CustomerAssumption
<1> QED
  BY <1>1, <1>2 DEF Shown, Holder!View

\* What else than the number and the state of a row a move decides: a call
\* mints a key, promotion keeps it, waiting has none.
KeyAfter(old, state) ==
  CASE state = "Called" -> called + 1
    [] state = "Overdue" -> old.key
    [] state = "Waiting" -> 0

\* The shop the page's module assumes makes every move the actor is shown to
\* make (ActorAsHoldersSeeIt), as long as the bound on keys allows a call: no
\* change of a ticket the actor broadcasts is one the page was never checked
\* against.
THEOREM PageExpectsEveryMove ==
  ASSUME PhoneTypeOK, NEW h \in Handles, NEW row \in ActiveTicket \cup {None},
         Holder!Moved(Shown(active[h]), Shown(row)), called < MaxKeys,
         row # None => row.key = KeyAfter(active[h], row.state),
         called' = IF row # None /\ row.state = "Called" THEN called + 1 ELSE called,
         ShopSets(h, row)
  PROVE  ShopActs
<1> DEFINE old == active[h]
<1>1. PICK v \in Holder!View :
        /\ Shown(old) = {v}
        /\ \/ Shown(row) = {}
           \/ v.state = "Waiting" /\ Shown(row) = {[v EXCEPT !.state = "Called"]}
           \/ v.state = "Called" /\ Shown(row) = {[v EXCEPT !.state = "Overdue"]}
           \/ v.state \in {"Called", "Overdue"} /\ Shown(row) = {[v EXCEPT !.state = "Waiting"]}
  BY DEF Holder!Moved
<1>2. old # None /\ old \in ActiveTicket /\ v = [id |-> old.id, state |-> old.state]
  BY <1>1 DEF Shown, PhoneTypeOK
<1>3. CASE row = None
  BY <1>2, <1>3 DEF ShopActs, ShopMoves
<1>4. CASE row # None
  <2>1. row \in ActiveTicket /\ Shown(row) = {[id |-> row.id, state |-> row.state]}
    BY <1>4 DEF Shown
  <2>2. \/ /\ v.state = "Waiting"
           /\ [id |-> row.id, state |-> row.state] = [v EXCEPT !.state = "Called"]
        \/ /\ v.state = "Called"
           /\ [id |-> row.id, state |-> row.state] = [v EXCEPT !.state = "Overdue"]
        \/ /\ v.state \in {"Called", "Overdue"}
           /\ [id |-> row.id, state |-> row.state] = [v EXCEPT !.state = "Waiting"]
    BY <1>1, <2>1
  <2>3. \/ old.state = "Waiting" /\ row.id = old.id /\ row.state = "Called"
        \/ old.state = "Called" /\ row.id = old.id /\ row.state = "Overdue"
        \/ old.state \in {"Called", "Overdue"} /\ row.id = old.id /\ row.state = "Waiting"
    BY <1>2, <2>2
  <2>4. CASE old.state = "Waiting" /\ row.id = old.id /\ row.state = "Called"
    <3>1. row.key = called + 1 /\ called' = called + 1
      BY <1>4, <2>4 DEF KeyAfter
    <3>2. row = [old EXCEPT !.key = called + 1,
                            !.state = IF @ = "Waiting" THEN "Called" ELSE @]
      BY <1>2, <2>1, <2>4, <3>1 DEF ActiveTicket
    <3> QED
      BY <1>2, <2>4, <3>1, <3>2 DEF ShopActs, ShopCalls
  <2>5. CASE old.state = "Called" /\ row.id = old.id /\ row.state = "Overdue"
    <3>1. row.key = old.key /\ called' = called
      BY <1>4, <2>5 DEF KeyAfter
    <3>2. row = [old EXCEPT !.state = "Overdue"]
      BY <1>2, <2>1, <2>5, <3>1 DEF ActiveTicket
    <3> QED
      BY <1>2, <2>5, <3>1, <3>2 DEF ShopActs, ShopMoves
  <2>6. CASE old.state \in {"Called", "Overdue"} /\ row.id = old.id /\ row.state = "Waiting"
    <3>1. row.key = 0 /\ called' = called
      BY <1>4, <2>6 DEF KeyAfter
    <3>2. row = [old EXCEPT !.state = "Waiting", !.key = 0]
      BY <1>2, <2>1, <2>6, <3>1 DEF ActiveTicket
    <3> QED
      BY <1>2, <2>6, <3>1, <3>2 DEF ShopActs, ShopMoves
  <2> QED
    BY <2>3, <2>4, <2>5, <2>6
<1> QED
  BY <1>3, <1>4

\* A change of one handle's row, as all handles see it.
LEMMA OneRow ==
  ASSUME PhoneTypeOK, NEW h \in Handles, NEW row, active' = [active EXCEPT ![h] = row],
         Holder!Follows(Shown(active[h]), Shown(row))
  PROVE  \A g \in Handles : Holder!Follows(Shown(active[g]), Shown(active'[g]))
<1>1. \A g \in Handles : active'[g] = IF g = h THEN row ELSE active[g]
  BY DEF PhoneTypeOK
<1> QED
  BY <1>1 DEF Holder!Follows

\* The same row in another state.
LEMMA StateShown ==
  ASSUME NEW old \in ActiveTicket, old # None, NEW state, NEW key,
         \/ state = old.state
         \/ old.state = "Waiting" /\ state = "Called"
         \/ old.state = "Called" /\ state = "Overdue"
         \/ old.state \in {"Called", "Overdue"} /\ state = "Waiting",
         NEW row, row = [old EXCEPT !.state = state, !.key = key]
  PROVE  Holder!Follows(Shown(old), Shown(row))
<1> DEFINE v == [id |-> old.id, state |-> old.state]
<1>1. Shown(old) = {v} /\ v \in Holder!View
  BY ShownRow
<1>2. CASE row = None
  BY <1>1, <1>2 DEF Shown, Holder!Follows, Holder!Moved
<1>3. CASE row # None
  <2>1. row.id = old.id /\ row.state = state
    BY DEF ActiveTicket
  <2>2. Shown(row) = {[v EXCEPT !.state = state]}
    BY <1>3, <2>1 DEF Shown
  <2>3. v.state = old.state /\ (state = old.state => [v EXCEPT !.state = state] = v)
    OBVIOUS
  <2> HIDE DEF v
  <2> QED
    BY <1>1, <2>2, <2>3 DEF Holder!Follows, Holder!Moved
<1> QED
  BY <1>2, <1>3

\* The shop of the page's module moves a ticket as ShopActs or an answer does.
LEMMA ShopFollows ==
  ASSUME PhoneTypeOK, ShopActs
  PROVE  \A h \in Handles : Holder!Follows(Shown(active[h]), Shown(active'[h]))
<1>1. ASSUME NEW h \in Handles, ShopCalls(h)
      PROVE  \A g \in Handles : Holder!Follows(Shown(active[g]), Shown(active'[g]))
  <2> DEFINE state == IF active[h].state = "Waiting" THEN "Called" ELSE active[h].state
             row == [active[h] EXCEPT !.state = state, !.key = called + 1]
  <2>1. active[h] \in ActiveTicket /\ active[h] # None
    BY <1>1 DEF ShopCalls, PhoneTypeOK
  <2>2. active' = [active EXCEPT ![h] = row]
    BY <1>1, <2>1 DEF ShopCalls, ShopSets, ActiveTicket
  <2>3. Holder!Follows(Shown(active[h]), Shown(row))
    BY <2>1, StateShown
  <2> HIDE DEF row
  <2> QED
    BY <2>2, <2>3, OneRow
<1>2. ASSUME NEW h \in Handles, ShopMoves(h)
      PROVE  \A g \in Handles : Holder!Follows(Shown(active[g]), Shown(active'[g]))
  <2> DEFINE late == [active[h] EXCEPT !.state = "Overdue", !.key = active[h].key]
             again == [active[h] EXCEPT !.state = "Waiting", !.key = 0]
  <2>1. active[h] \in ActiveTicket /\ active[h] # None
    BY <1>2 DEF ShopMoves, PhoneTypeOK
  <2>2. [active[h] EXCEPT !.state = "Overdue"] = late
    BY <2>1 DEF ActiveTicket
  <2>3. \/ active[h].state = "Called" /\ active' = [active EXCEPT ![h] = late]
        \/ /\ active[h].state \in {"Called", "Overdue"}
           /\ active' = [active EXCEPT ![h] = again]
        \/ active' = [active EXCEPT ![h] = None]
    BY <1>2, <2>2 DEF ShopMoves, ShopSets
  <2>4. active[h].state = "Called" => Holder!Follows(Shown(active[h]), Shown(late))
    BY <2>1, StateShown
  <2>5. active[h].state \in {"Called", "Overdue"}
          => Holder!Follows(Shown(active[h]), Shown(again))
    BY <2>1, StateShown
  <2>6. Holder!Follows(Shown(active[h]), Shown(None))
    BY <2>1, ShownRow DEF Shown, Holder!Follows, Holder!Moved
  <2> HIDE DEF late, again
  <2> QED
    BY <2>3, <2>4, <2>5, <2>6, OneRow
<1>3. ASSUME ShopServesOthers
      PROVE  \A g \in Handles : Holder!Follows(Shown(active[g]), Shown(active'[g]))
  BY <1>3 DEF ShopServesOthers, Holder!Follows
<1> QED
  BY <1>1, <1>2, <1>3 DEF ShopActs

LEMMA AnswerFollows ==
  ASSUME PhoneTypeOK, NEW n, Answer(n)
  PROVE  \A h \in Handles : Holder!Follows(Shown(active[h]), Shown(active'[h]))
<1> DEFINE r == tab.flight[n]
<1>1. CASE active' = active
  BY <1>1 DEF Holder!Follows
<1>3. CASE AnswerIssue(n, r) /\ active' # active
  <2> DEFINE row == [id |-> issued + 1, state |-> "Waiting", key |-> 0]
  <2>1. /\ active[r.handle] = None /\ issued < MaxTickets
        /\ active' = [active EXCEPT ![r.handle] = row]
    BY <1>3 DEF AnswerIssue
  <2>2. r.handle \in Handles
    BY <2>1, <1>3 DEF PhoneTypeOK
  <2>3. issued + 1 \in 1..MaxTickets /\ 0 \in 0..MaxKeys
    BY <2>1, CustomerAssumption DEF PhoneTypeOK
  <2>4. row \in ActiveTicket
    BY <2>3 DEF ActiveTicket
  <2>5. row.id = issued + 1 /\ row.state = "Waiting"
    OBVIOUS
  <2> HIDE DEF row
  <2>6. Holder!Follows(Shown(active[r.handle]), Shown(row))
    <3>1. CASE row = None
      BY <2>1, <3>1 DEF Holder!Follows
    <3>2. CASE row # None
      BY <2>1, <2>4, <2>5, <3>2, ShownRow DEF Shown, Holder!Follows, Holder!Issued
    <3> QED
      BY <3>1, <3>2
  <2> QED
    BY <2>1, <2>2, <2>6, OneRow
<1>4. CASE AnswerCancel(n, r) /\ active' # active
  <2>1. active[r.handle] # None /\ active' = [active EXCEPT ![r.handle] = None]
    BY <1>4 DEF AnswerCancel, Names
  <2>2. r.handle \in Handles
    BY <2>1, <1>4 DEF PhoneTypeOK
  <2>3. active[r.handle] \in ActiveTicket
    BY <2>1, <2>2 DEF PhoneTypeOK
  <2>4. Holder!Follows(Shown(active[r.handle]), Shown(None))
    BY <2>1, <2>3, ShownRow DEF Shown, Holder!Follows, Holder!Moved
  <2> QED
    BY <2>1, <2>2, <2>4, OneRow
<1> QED
  BY <1>1, <1>3, <1>4 DEF Answer, AnswerTicket, AnswerOperation, Refuse

\* And it makes no other: what the page is shown to withstand is what a shop
\* that lives up to ActorAsHoldersSeeIt can do, no more.
PageShopFollows ==
  [][\A h \in Handles : Holder!Follows(Shown(active[h]), Shown(active'[h]))]_phoneVars

THEOREM PageAssumesTheActor == PhoneSpec => PageShopFollows
<1>1. ASSUME [PhoneNext]_phoneVars, active' # active
      PROVE  ShopActs \/ \E n : Answer(n)
  <2>1. CASE CustomerActs
    BY <1>1, <2>1 DEF CustomerActs, SubmitIssue, SubmitRecover, OpenDialog, CloseDialog, SetDialog, AtPage,
       Operate, Retry, Send,
       Navigate, Open, Close, Acknowledge
  <2>2. ASSUME NEW n, Lose(n) \/ Receive(n) PROVE FALSE
    BY <1>1, <2>2 DEF Lose, Receive
  <2>3. ASSUME NEW s, FeedOpens(s) \/ FeedRetries(s) \/ FeedDrops(s) \/ FeedDelivers(s)
        PROVE  FALSE
    BY <1>1, <2>3 DEF FeedOpens, FeedRetries, FeedDrops, FeedDelivers, FeedStep
  <2>4. CASE ChimeTimeout
    BY <1>1, <2>4 DEF ChimeTimeout
  <2>5. ~UNCHANGED phoneVars
    BY <1>1 DEF phoneVars
  <2> QED
    BY <1>1, <2>1, <2>2, <2>3, <2>4, <2>5 DEF PhoneNext
<1>2. PhoneTypeOK /\ [PhoneNext]_phoneVars =>
        \A h \in Handles : Holder!Follows(Shown(active[h]), Shown(active'[h]))
  <2>1. ASSUME active' = active
        PROVE  \A h \in Handles : Holder!Follows(Shown(active[h]), Shown(active'[h]))
    BY <2>1 DEF Holder!Follows
  <2> QED
    BY <1>1, <2>1, ShopFollows, AnswerFollows
<1> QED
  BY <1>2, PhoneTypeCorrect, PTL DEF PhoneSpec, PageShopFollows

=============================================================================
