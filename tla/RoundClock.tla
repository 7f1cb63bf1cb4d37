----------------------------- MODULE RoundClock -----------------------------
(***************************************************************************)
(* The logical rounds of one board (rendezvousExecutor.h and its uses in   *)
(* espRaw80211.ino).  The clock counts periods of elapsed time; what is    *)
(* left over, with the planned sleep, is carried across deep sleep in      *)
(* spiffsRoundElapsed, because the local clock restarts at every boot.     *)
(*                                                                         *)
(* Simplifications.                                                        *)
(*  - Time is counted in units, a few per period.                          *)
(*  - The deep-sleep timer is exact, so that "elapsed time" means what the *)
(*    board could know of it.                                              *)
(*  - drift is history: the time elapsed since the last test reset less    *)
(*    the time that the rounds counted since and the clock's state stand   *)
(*    for.  It saturates at -DriftMax and DriftMax.                        *)
(*  - Any round that is counted may be the one that the test resets at:    *)
(*    TestEpoch models which.  How long the board runs on, until its loop  *)
(*    or a sleep comes to it, is left open.                                *)
(*                                                                         *)
(* A definition marked "Wrong:" is a deliberately broken variant of the    *)
(* one that follows it and is used by no action.                           *)
(***************************************************************************)
EXTENDS Integers

CONSTANTS
  Period,     \* defaultRendezvousUsec
  AwakeLimit, \* maximumAwakeUsec or singletonMaximumAwakeUsec
  AwakeMax,   \* bound on the time awake: the limit and an overrun
  SleepMax,   \* bound on the length of one sleep
  BootMax,    \* bound on the time from boot to the end of setup()
  DriftMax    \* bound on drift

ASSUME ClockAssumption ==
  /\ Period \in Nat \ {0} /\ AwakeLimit \in Nat /\ AwakeMax \in Nat /\ SleepMax \in Nat
  /\ BootMax \in Nat /\ BootMax <= AwakeMax /\ DriftMax \in Nat /\ DriftMax >= Period

VARIABLES
  awake,      \* setup() is done and the board runs
  now,        \* steadyMicros(), time since boot
  clock,      \* roundClock: what is left over (remainder) and up to when (last)
  saved,      \* spiffsRoundElapsed
  cleared,    \* the persisted state has been cleared since the boot
  \* History:
  drift,
  inherited,  \* the part of a round from before the last reset in the clock
  panicked    \* the board has restarted without having gone to sleep

vars == <<awake, now, clock, saved, cleared, drift, inherited, panicked>>

\* Wrong: a remainder of exactly one period is not carried.
TickOffByOne(c, t) ==
  LET a == c.remainder % Period
      b == (t - c.last) % Period
      carry == b > Period - a
  IN  [rounds |-> c.remainder \div Period + (t - c.last) \div Period
                    + IF carry THEN 1 ELSE 0,
       remainder |-> IF carry THEN b - (Period - a) ELSE a + b]

\* RoundClock::tick(), which never adds two large numbers.
Tick(c, t) ==
  LET a == c.remainder % Period
      b == (t - c.last) % Period
      carry == b >= Period - a
  IN  [rounds |-> c.remainder \div Period + (t - c.last) \div Period
                    + IF carry THEN 1 ELSE 0,
       remainder |-> IF carry THEN b - (Period - a) ELSE a + b]

\* Wrong: the periods that were counted stay in the remainder.
TickedKeeping(c, t) == [remainder |-> c.remainder + (t - c.last), last |-> t]

\* The clock after advanceRoundClock() at time t.
Ticked(c, t) == [remainder |-> Tick(c, t).remainder, last |-> t]

\* Time that the clock knows of and has not counted.
Uncounted == clock.remainder + (now - clock.last)

\* passed units of time have passed and counted of them are accounted for.
Account(passed, counted) ==
  LET d == drift + passed - counted
  IN  drift' = IF d > DriftMax THEN DriftMax
               ELSE IF d < -DriftMax THEN -DriftMax ELSE d

Init ==
  /\ awake = FALSE /\ now = 0
  /\ clock = [remainder |-> 0, last |-> 0]
  /\ saved = 0 /\ cleared = FALSE
  /\ drift = 0 /\ inherited = 0 /\ panicked = FALSE

\* setup(): the time it took is not counted.
Boot(t) ==
  /\ ~awake
  /\ awake' = TRUE /\ now' = t
  /\ clock' = [remainder |-> saved, last |-> t]
  /\ cleared' = FALSE
  /\ Account(t, 0)
  /\ UNCHANGED <<saved, inherited, panicked>>

Elapse(t) ==
  /\ awake /\ now + t <= AwakeMax
  /\ now' = now + t
  /\ UNCHANGED <<awake, clock, saved, cleared, drift, inherited, panicked>>

\* advanceRoundClock() in the loop; the caller sees Tick(...).rounds rounds.
AdvanceRoundClock ==
  /\ awake
  /\ clock' = Ticked(clock, now)
  /\ Account(0, Tick(clock, now).rounds * Period
                  + clock'.remainder - Uncounted)
  /\ UNCHANGED <<awake, now, saved, cleared, inherited, panicked>>

\* Wrong: the time that saving took is counted twice.
CarriedTwice(c, late, duration) == c.remainder + 2 * late + duration

\* What sleepForExecutor() and sleepForStutterTarget() carry over, late after
\* they advanced the clock, for they write the tables in between.
Carried(c, late, duration) == c.remainder + late + duration

Sleep(carried) ==
  /\ awake' = FALSE /\ now' = 0
  /\ clock' = [remainder |-> 0, last |-> 0]
  /\ saved' = carried

\* The clock is advanced, the tables are written, which takes late, and the
\* board sleeps, if it has not been cleared.
SleepForExecutor(late, duration) ==
  /\ awake /\ ~cleared /\ now + late <= AwakeMax
  /\ LET ticked == Ticked(clock, now)
         carried == Carried(ticked, late, duration)
     IN  /\ Sleep(carried)
         /\ Account(late + duration,
                    Tick(clock, now).rounds * Period + carried - Uncounted)
  /\ UNCHANGED <<cleared, inherited, panicked>>

\* sleepForTimingRecovery() forgets the time that writing took.  It does not ask
\* whether the board has been cleared, in this advance or before, and saves the
\* clock's remainder in any case.
SleepForTimingRecovery(late, duration) ==
  /\ awake /\ now + late <= AwakeMax
  /\ LET ticked == Ticked(clock, now)
         carried == ticked.remainder + duration
     IN  /\ Sleep(carried)
         /\ Account(late + duration,
                    Tick(clock, now).rounds * Period + carried - Uncounted)
  /\ UNCHANGED <<cleared, inherited, panicked>>

\* The loop advances the clock and calls maximumAwakeSleep(), before it looks
\* whether the board has been cleared: one unit stands for refreshSleepUsec.
MaximumAwakeSleep(late) == now >= AwakeLimit /\ SleepForTimingRecovery(late, 1)

\* A panic or the watchdog: the next boot carries over what the sleep before
\* this boot had left.
Panic ==
  /\ awake /\ panicked' = TRUE
  /\ Sleep(saved)
  /\ Account(0, saved - Uncounted)
  /\ UNCHANGED <<cleared, inherited>>

\* executeTestReset(), in an advance of the clock that counts a round: what has
\* been counted and saved is void, and the board runs on with the remainder.
TestReset ==
  /\ awake /\ ~cleared /\ Tick(clock, now).rounds > 0
  /\ clock' = Ticked(clock, now)
  /\ saved' = 0 /\ cleared' = TRUE
  /\ drift' = -clock'.remainder /\ inherited' = clock'.remainder /\ panicked' = FALSE
  /\ UNCHANGED <<awake, now>>

\* The loop finds the board cleared, and lets it start afresh: nothing is saved
\* over what has been cleared, and a round counted since is void too.
SleepAfterReset ==
  /\ awake /\ cleared
  /\ Sleep(saved)
  /\ drift' = -saved /\ inherited' = 0
  /\ UNCHANGED <<cleared, panicked>>

Next ==
  \/ \E t \in 0 .. BootMax : Boot(t)
  \/ \E t \in 1 .. AwakeMax : Elapse(t)
  \/ AdvanceRoundClock
  \/ \E late \in 0 .. BootMax, duration \in 1 .. SleepMax :
       SleepForExecutor(late, duration) \/ SleepForTimingRecovery(late, duration)
  \/ \E late \in 0 .. BootMax : MaximumAwakeSleep(late)
  \/ Panic
  \/ TestReset \/ SleepAfterReset

Spec == Init /\ [][Next]_vars

-----------------------------------------------------------------------------
TypeOK ==
  /\ awake \in BOOLEAN
  /\ now \in 0 .. AwakeMax
  /\ clock \in [remainder : Nat, last : 0 .. AwakeMax]
  /\ clock.last <= now
  /\ saved \in 0 .. Period + AwakeMax + SleepMax
  /\ cleared \in BOOLEAN
  /\ drift \in -DriftMax .. DriftMax /\ inherited \in 0 .. Period - 1
  /\ panicked \in BOOLEAN

\* A board that has not panicked since its last reset never counts a round
\* before its time has passed, however it sleeps and wakes: associations do not
\* age, proposals do not ripen early.  Only after a reset all rounds are early
\* by the part of a round that the clock had counted before, if the board goes
\* to sleep by timing recovery or at the limit of its time awake: these two save
\* the remainder again that the reset has cleared.
NeverAhead == ~panicked => drift + inherited >= 0

\* rendezvousExecutor.h: the clock counts periods, independent of how many
\* times setup() runs.
IndependentOfRestarts == drift + inherited >= 0

\* A round whose time has passed by is counted by the next advance: no whole
\* period hides in the remainder (RoundClock::tick()).
NothingLeft ==
  [][(awake /\ awake' /\ clock'.last # clock.last) => clock'.remainder < Period]_vars
=============================================================================
