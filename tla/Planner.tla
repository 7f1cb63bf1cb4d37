------------------------------- MODULE Planner -------------------------------
(***************************************************************************)
(* Appointments and the awake intervals that serve them                    *)
(* (rendezvousPlanner.h, makeExecutionPlan() and the sleeps of the         *)
(* interval executor in espRaw80211.ino).                                  *)
(*                                                                         *)
(* Every beacon's clock, its TSF, defines an exchange window of length     *)
(* Duration at Phase in every Period.  A board plans the next two windows  *)
(* of its home, then windows of scouts as far as a budget of additional    *)
(* awake time allows, merges windows that lie close together into          *)
(* intervals, and sleeps between the intervals.  After every sleep it      *)
(* plans afresh.                                                           *)
(*                                                                         *)
(* A long sleep is made in two, since the timer drifts: the board wakes    *)
(* StutterLead early, waits for one frame of the beacon it is to meet, and *)
(* sleeps on, now by that beacon's clock.  The plan is gone by then, all   *)
(* that is kept is which beacon it waits for.                              *)
(*                                                                         *)
(* Simplifications.                                                        *)
(*  - now is one clock for all boots, in units; the beacons' clocks run    *)
(*    at its rate and tsf[b] is how far b's is ahead.                      *)
(*  - The board acquires every beacon while it samples after a boot, but a *)
(*    stutter wake may miss the one it waits for.                          *)
(*  - Capacity of a plan is not reached.                                   *)
(*                                                                         *)
(* A definition marked "Wrong:" is a deliberately broken variant of the    *)
(* one that follows it and is used by no action.                           *)
(***************************************************************************)
EXTENDS Integers, Sequences, FiniteSets, FiniteSetsExt, Functions

CONSTANTS
  Bssid,      \* the beacons
  Period,     \* defaultRendezvousUsec
  Phase,      \* exchangePhaseUsec
  Duration,   \* exchangeWindowUsec
  MergeGap,   \* gaps up to this are bridged: 1 s
  Budget,     \* awake time that a scout may add: exchangeWindowUsec + 2 s in
              \* the firmware, which no scout exceeds; less here
  Sampling,   \* beaconSamplingWindowUsec
  Lead,       \* wakeAcquisitionLeadUsec
  FinalLead,  \* Lead and stutterFinalSafetyMarginUsec
  StutterLead,       \* stutterWakeLeadUsec
  StutterThreshold,  \* stutterSleepThresholdUsec
  MinSleep,   \* shortest sleep worth its while: 1 s
  TimeMax     \* bound on now

ASSUME WindowAssumption ==
  /\ IsFiniteSet(Bssid) /\ TimeMax \in Nat
  /\ Period \in Nat \ {0} /\ Phase \in 0 .. Period - 1
  /\ Duration \in 1 .. Period /\ MergeGap \in Nat /\ Budget \in Nat
  /\ Sampling \in Nat /\ Lead \in Nat /\ Sampling <= Lead /\ MinSleep \in Nat
  /\ FinalLead \in Nat /\ Lead <= FinalLead
  /\ StutterThreshold \in Nat /\ StutterLead \in Nat /\ Lead <= StutterLead

VARIABLES
  tsf,        \* what each beacon's clock is ahead of now
  now,
  plannable,  \* sampling ends then
  plan,       \* the plan being executed: its appointments and their intervals
  stutter     \* spiffsStutterTarget, and the home that it was set under

vars == <<tsf, now, plannable, plan, stutter>>

-----------------------------------------------------------------------------
(* rendezvousPlanner.h *)

\* Wrong: a window that is under way counts as late even when it just begins.
NextAppointmentLate(b, t, home) ==
  LET position == (t + tsf[b]) % Period
      untilStart == IF Phase >= position THEN Phase - position ELSE Period - (position - Phase)
      age == IF untilStart = 0 THEN 0 ELSE Period - untilStart
      active == age <= Duration /\ age <= t + tsf[b]
  IN  [start |-> IF active THEN t ELSE t + untilStart,
       end |-> IF active THEN t + Duration - age ELSE t + untilStart + Duration,
       bssid |-> b, home |-> home, late |-> active]

\* nextAppointment(): the window of b under way at time t, or the next one.
NextAppointment(b, t, home) ==
  LET position == (t + tsf[b]) % Period
      untilStart == IF Phase >= position THEN Phase - position ELSE Period - (position - Phase)
      age == IF untilStart = 0 THEN 0 ELSE Period - untilStart
      active == age < Duration /\ age <= t + tsf[b]
  IN  [start |-> IF active THEN t ELSE t + untilStart,
       end |-> IF active THEN t + Duration - age ELSE t + untilStart + Duration,
       bssid |-> b, home |-> home, late |-> active /\ age # 0]

\* Wrong: the end of the last appointment is taken, not the latest end.
MergedToLast(intervals, item) ==
  LET last == intervals[Len(intervals)]
  IN  IF intervals # <<>> /\ item.start - last.end <= MergeGap
      THEN [intervals EXCEPT ![Len(intervals)] =
             [last EXCEPT !.end = item.end, !.appointments = @ \cup item.appointments]]
      ELSE Append(intervals, item)

\* One step of rebuild(): item begins no earlier than the intervals so far.
Merged(intervals, item) ==
  LET last == intervals[Len(intervals)]
  IN  IF intervals # <<>> /\ item.start - last.end <= MergeGap
      THEN [intervals EXCEPT ![Len(intervals)] =
             [last EXCEPT !.end = IF item.end > @ THEN item.end ELSE @,
                          !.appointments = @ \cup item.appointments]]
      ELSE Append(intervals, item)

\* What is left to be merged, and which comes next: that which begins first,
\* among those that begin together the one planned first.
Unmerged(appointments, intervals) ==
  {i \in DOMAIN appointments : \A n \in DOMAIN intervals : i \notin intervals[n].appointments}

Earliest(appointments, left) ==
  CHOOSE i \in left : \A j \in left \ {i} :
    \/ appointments[i].start < appointments[j].start
    \/ appointments[i].start = appointments[j].start /\ i < j

MergeNext(appointments, intervals) ==
  LET i == Earliest(appointments, Unmerged(appointments, intervals))
  IN  Merged(intervals, [start |-> appointments[i].start, end |-> appointments[i].end,
                         appointments |-> {i}])

\* rebuild()
Intervals(appointments) ==
  LET merged[n \in 0 .. Len(appointments)] ==
        IF n = 0 THEN <<>> ELSE MergeNext(appointments, merged[n - 1])
  IN  merged[Len(appointments)]

\* awakeUsec()
AwakeTime(intervals) ==
  LET total[n \in 0 .. Len(intervals)] ==
        IF n = 0 THEN 0 ELSE total[n - 1] + (intervals[n].end - intervals[n].start)
  IN  total[Len(intervals)]

\* Wrong: only the scout's own duration is held against the budget, not the
\* time that bridging gaps to it costs.
AddScoutUnbridged(appointments, scout, homeAwake, budget) ==
  IF scout.end - scout.start > budget THEN appointments ELSE Append(appointments, scout)

\* addScout(): refused when the plan then costs more than budget above what
\* the homes alone do.
AddScout(appointments, scout, homeAwake, budget) ==
  LET added == Append(appointments, scout)
  IN  IF AwakeTime(Intervals(added)) - homeAwake > budget THEN appointments ELSE added

\* The interval to be executed.
NextInterval(intervals, t) ==
  LET ahead == {i \in DOMAIN intervals : intervals[i].end > t}
  IN  intervals[CHOOSE i \in ahead : \A j \in ahead : i <= j]

\* sleepUntilNext()
SleepUntilNext(intervals, t) ==
  LET wait == NextInterval(intervals, t).start - t - Lead
  IN  IF \A i \in DOMAIN intervals : intervals[i].end <= t THEN 0
      ELSE IF wait <= 0 THEN 0 ELSE wait

\* stutterSleepUntil(), 0 for its failure
StutterSleepUntil(boundary, t) ==
  IF boundary - t <= StutterLead THEN 0 ELSE boundary - t - StutterLead

\* Wrong: the last scout is waited for, even when the home is met as well.
StutterTargetScout(home, appointments, interval) ==
  LET scouts == {i \in interval.appointments : ~appointments[i].home}
  IN  IF scouts = {} THEN home ELSE appointments[Max(scouts)].bssid

\* sleepForExecutor(): the beacon to wait for is the home if the interval has
\* an appointment of it, and otherwise the scout planned last.
StutterTarget(home, appointments, interval) ==
  LET scouts == {i \in interval.appointments : ~appointments[i].home}
  IN  IF scouts = interval.appointments THEN appointments[Max(scouts)].bssid ELSE home

-----------------------------------------------------------------------------
(* Actions *)

NoStutter == [target |-> 0, home |-> 0]

NoPlan == [home |-> 0, appointments |-> <<>>, intervals |-> <<>>]

Init ==
  /\ tsf \in [Bssid -> 0 .. Period - 1]
  /\ now = 0 /\ plannable = Sampling
  /\ plan = NoPlan /\ stutter = NoStutter

Homes(h) ==
  LET first == NextAppointment(h, now, TRUE)
  IN  <<first, NextAppointment(h, first.end, TRUE)>>

\* The homes, and the scouts that were not refused.
Appointments(h, scouts, budget) ==
  LET homeAwake == AwakeTime(Intervals(Homes(h)))
      planned[n \in 0 .. Len(scouts)] ==
        IF n = 0 THEN Homes(h)
        ELSE AddScout(planned[n - 1], NextAppointment(scouts[n], now, FALSE), homeAwake, budget)
  IN  planned[Len(scouts)]

\* makeExecutionPlan(): a singleton tries every scout it has chosen, whatever
\* it costs, another board one within the budget.
MakeExecutionPlan(h, scouts, budget) ==
  /\ plan = NoPlan /\ stutter = NoStutter /\ now >= plannable
  /\ LET appointments == Appointments(h, scouts, budget)
     IN  plan' = [home |-> h, appointments |-> appointments,
                  intervals |-> Intervals(appointments)]
  /\ UNCHANGED <<tsf, now, plannable, stutter>>

\* The loop goes round, during an interval or before one.
Pass ==
  /\ now < TimeMax /\ (plan = NoPlan => now < plannable)
  /\ now' = now + 1
  /\ UNCHANGED <<tsf, plannable, plan, stutter>>

SleepFor(duration) ==
  /\ now + duration <= TimeMax
  /\ now' = now + duration
  /\ plannable' = now + duration + Sampling
  /\ plan' = NoPlan

\* sleepForExecutor() between intervals, all the way or to a stutter wake; the
\* plan does not survive.
SleepForExecutor ==
  /\ plan # NoPlan
  /\ LET sleep == SleepUntilNext(plan.intervals, now)
         next == NextInterval(plan.intervals, now)
         short == StutterSleepUntil(next.start, now)
         stutters == sleep > StutterThreshold /\ short > 0 /\ short >= MinSleep
     IN  /\ sleep > 0 /\ sleep >= MinSleep
         /\ SleepFor(IF stutters THEN short ELSE sleep)
         /\ stutter' = IF stutters
                       THEN [target |-> StutterTarget(plan.home, plan.appointments, next),
                             home |-> plan.home]
                       ELSE stutter
  /\ UNCHANGED tsf

\* handleStutterWake() with a frame of the target, and sleepForStutterTarget():
\* the last part of the sleep, or none when it is late for that.
StutterAcquires ==
  /\ stutter # NoStutter
  /\ LET wait == NextAppointment(stutter.target, now, FALSE).start - now - FinalLead
     IN  IF wait > MinSleep THEN SleepFor(wait)
                            ELSE UNCHANGED <<now, plannable, plan>>
  /\ stutter' = NoStutter
  /\ UNCHANGED tsf

\* handleStutterWake() without one: it plans like after any other boot.
StutterTimesOut ==
  /\ stutter # NoStutter /\ now >= plannable
  /\ stutter' = NoStutter
  /\ UNCHANGED <<tsf, now, plannable, plan>>

\* The last interval is over.
Exhausted ==
  /\ plan # NoPlan
  /\ \A i \in DOMAIN plan.intervals : plan.intervals[i].end <= now
  /\ plan' = NoPlan
  /\ UNCHANGED <<tsf, now, plannable, stutter>>

\* A board alone at its home h tries scouts in the order in which it heard
\* their beacons, whatever they cost; another tries one within the budget.
Plans(h) ==
  \/ \E k \in 0 .. Cardinality(Bssid) - 1 : \E scouts \in [1 .. k -> Bssid \ {h}] :
       /\ IsInjective(scouts)
       /\ MakeExecutionPlan(h, scouts, Period * Cardinality(Bssid))
  \/ \E scout \in Bssid \ {h} : MakeExecutionPlan(h, <<scout>>, Budget)

Next ==
  \/ \E h \in Bssid : Plans(h)
  \/ Pass
  \/ SleepForExecutor
  \/ StutterAcquires
  \/ StutterTimesOut
  \/ Exhausted

Spec == Init /\ [][Next]_vars

-----------------------------------------------------------------------------
(* Properties *)

\* What a window is, said without the planner's arithmetic: from the time
\* b was switched on, the times when its clock reads Phase, Phase + Period, ...
\* begin windows of length Duration.
\* No plan made by TimeMax reaches beyond the windows 0 .. LastWindow.
LastWindow == TimeMax \div Period + 4
WindowStarts(b, t) == \E k \in 0 .. LastWindow : t + tsf[b] = Phase + k * Period
InWindow(b, t) == \E age \in 0 .. Duration - 1 : WindowStarts(b, t - age)

Span(item) == item.start .. item.end - 1

\* nextAppointment(): an appointment is a window of its beacon's clock, a whole
\* one unless it is marked late, and what it leaves out of the window is over.
AppointmentsAreWindows ==
  \A i \in DOMAIN plan.appointments :
    LET a == plan.appointments[i]
    IN  /\ a.start < a.end /\ \A t \in Span(a) : InWindow(a.bssid, t)
        /\ ~InWindow(a.bssid, a.end) \/ WindowStarts(a.bssid, a.end)
        /\ a.late <=> ~WindowStarts(a.bssid, a.start)

\* rebuild(): every appointment lies in the one interval that serves it, no
\* interval keeps the board awake for a gap longer than MergeGap, and no two
\* intervals are closer than that.
IntervalsServeAppointments ==
  /\ \A i \in DOMAIN plan.appointments :
       \E n \in DOMAIN plan.intervals :
         /\ Span(plan.appointments[i]) \subseteq Span(plan.intervals[n])
         /\ \A m \in DOMAIN plan.intervals :
              i \in plan.intervals[m].appointments <=> m = n
  /\ \A n \in DOMAIN plan.intervals :
       \A t \in Span(plan.intervals[n]) :
         \E i \in plan.intervals[n].appointments :
           Span(plan.appointments[i]) \cap t - MergeGap .. t # {}
  /\ \A m, n \in DOMAIN plan.intervals :
       m < n => plan.intervals[n].start - plan.intervals[m].end > MergeGap

\* makeExecutionPlan(): awake for two homes and a scout, an established board
\* stays awake for no more than Budget longer than for its homes, which it
\* plans first.  A board alone may: it plans without a budget.
ScoutsWithinBudget ==
  [][\A scout \in Bssid :
       MakeExecutionPlan(plan'.home, <<scout>>, Budget) =>
         LET awake(intervals) == UNION {Span(intervals[n]) : n \in DOMAIN intervals}
         IN  Cardinality(awake(plan'.intervals)
                           \ awake(Intervals(SubSeq(plan'.appointments, 1, 2)))) <= Budget]_vars

\* sleepForExecutor(), sleepForStutterTarget(): a board asleep, or still
\* sampling after it woke, misses nothing.  No window of its home is open then,
\* planned or not, and none that it had planned to scout; nor, when only the
\* target of a stutter sleep is left of the plan, a window of that target.
NeverSleepsThroughHome ==
  [][plannable' # plannable =>
       \A t \in now .. plannable' - 1 :
         IF plan = NoPlan
         THEN ~InWindow(stutter.home, t) /\ ~InWindow(stutter.target, t)
         ELSE /\ ~InWindow(plan.home, t)
              /\ \A i \in DOMAIN plan.appointments : t \notin Span(plan.appointments[i])]_vars
=============================================================================
