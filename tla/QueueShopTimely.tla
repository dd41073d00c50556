-------------------------- MODULE QueueShopTimely --------------------------
(***************************************************************************)
(* The QueueShop actor on a platform that keeps its promises: an alarm is  *)
(* delivered when it is due, a sweep takes no time and is not evicted.     *)
(* What can be said then is how long a called customer can be kept in the  *)
(* queue: the sweep must come back to the ticket again and again, however  *)
(* requests re-arm the alarm in between.                                   *)
(***************************************************************************)
EXTENDS QueueShop

\* Time stands still while an alarm is due or a sweep is running.
TimelyTick ==
  /\ sweepAt = None
  /\ alarmAt # None => alarmAt > now
  /\ Tick

TimelyNext == StaffAction \/ CustomerAction \/ SweepAction \/ TimelyTick

TimelySpec == Init /\ [][TimelyNext]_vars

\* Requests come as they please; the alarm, the push answers and the clock
\* do not stop.  The runtime delivers alarms at least once, sendPush returns
\* on every outcome of fetch, and the sweep's awaits have no other waiter.
LiveSpec == TimelySpec /\ WF_vars(SweepAction \/ TimelyTick)

Longer(a, b) == IF a < b THEN b ELSE a

\* The intervals a sweep is re-armed by, the shortest of which counts.
Intervals == {OverdueAfterCalled, NudgeInterval, AppointmentGrace, FallbackReArm}

\* The promotion comes with the first sweep past its delay, and each nudge
\* and the closing with the first sweep past an interval, if sweeps are never
\* more than r apart.
ResponseBound(r) ==
  Longer(FallbackReArm, OverdueAfterCalled + r) + MaxNudges * (NudgeInterval + r)

\* Where a ticket is nudged at all (MaxNudges > 0), a called ticket nobody
\* touches is closed within ResponseBound of its call: re-arming after a sweep,
\* arming at a dispatch and the strict cutoffs of the four ticks together lose
\* no ticket and skip no interval.
ResolvedInTime ==
  \A i \in TicketIds : InSt(i, {"Called", "Overdue"}) =>
    \A r \in Intervals : now <= tickets[i].calledAt + ResponseBound(r)

\* For a positive cap, a call leads to an end: served, recalled, cancelled or,
\* at the latest, closed by the sweep, as long as the instance's clock runs.
CalledEventuallyResolved ==
  \A i \in TicketIds :
    /\ InSt(i, {"Called"})
    /\ \E r \in Intervals : tickets[i].calledAt + ResponseBound(r) < MaxTime
    ~> ~InSt(i, {"Called", "Overdue"})

=============================================================================
