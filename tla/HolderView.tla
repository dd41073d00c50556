----------------------------- MODULE HolderView -----------------------------
(***************************************************************************)
(* The queue as the devices of one holder can tell: the active tickets of  *)
(* the handle, at most one, by number and state.  QueueShop is shown to    *)
(* change it only so; the web client's modules are shown to expect every   *)
(* such change.                                                            *)
(***************************************************************************)
EXTENDS Naturals

View == [id : Nat, state : {"Waiting", "Called", "Overdue"}]

Issued(old, new) ==
  old = {} /\ \E v \in View : v.state = "Waiting" /\ new = {v}

\* The ticket closes, or it is called, overdue or waiting again.
Moved(old, new) ==
  \E v \in View :
    /\ old = {v}
    /\ \/ new = {}
       \/ v.state = "Waiting" /\ new = {[v EXCEPT !.state = "Called"]}
       \/ v.state = "Called" /\ new = {[v EXCEPT !.state = "Overdue"]}
       \/ v.state \in {"Called", "Overdue"} /\ new = {[v EXCEPT !.state = "Waiting"]}

Follows(old, new) == new = old \/ Issued(old, new) \/ Moved(old, new)

=============================================================================
