------------------------------- MODULE MCWeb -------------------------------
(***************************************************************************)
(* The web client, one device at a time: a customer's phone, the push      *)
(* subscription of one, or the counter's tablet.  A device with a staff    *)
(* session shows no customer page (they redirect to /staff), and what a    *)
(* push subscription does touches none of the page's other state, so the   *)
(* three never share a variable and each is checked in a run of its own    *)
(* inside this one.                                                        *)
(***************************************************************************)
EXTENDS CustomerApp, PushClient, StaffConsole

VARIABLE role

webVars == << role, phoneVars, pushVars, staffVars >>

WebInit ==
  /\ role \in {"phone", "push", "tablet"}
  /\ PhoneInit /\ PushInit /\ StaffInit

WebNext ==
  /\ UNCHANGED role
  /\ \/ role = "phone" /\ PhoneNext /\ UNCHANGED << pushVars, staffVars >>
     \/ role = "push" /\ PushNext /\ UNCHANGED << phoneVars, staffVars >>
     \/ role = "tablet" /\ StaffNext /\ UNCHANGED << phoneVars, pushVars >>

\* A device that is not in its role is idle, and idle devices owe nothing.
WebSpec ==
  /\ WebInit /\ [][WebNext]_webVars
  /\ PhoneFairness /\ PushFairness /\ StaffFairness

WebTypeOK == PhoneTypeOK /\ PushTypeOK /\ StaffTypeOK

\* A bound: not explored is what follows an oddity of the customer's page; a
\* second mishap of a push subscription, or one next to a second flow; and on
\* the tablet, an oddity or a stray feed next to a second call, and every oddity
\* but a late answer.
WebBound ==
  /\ Regular
  /\ Cardinality(mishaps) + Cardinality(Busy) <= 2
  /\ desk.stray \/ ledger.odd # {} =>
       ledger.odd \subseteq {"late"} /\ Len(calls) <= 1

=============================================================================
