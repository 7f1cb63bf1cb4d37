-------------------------- MODULE RoundClockProofs --------------------------
(***************************************************************************)
(* Proofs about RoundClock: the clock splits the time it has seen into     *)
(* whole rounds and a remainder of less than one and loses nothing of it,  *)
(* and what is carried across a sleep is never more than the time that the *)
(* board knows of.                                                         *)
(*                                                                         *)
(* The argument: an advance and the executor's sleep account for exactly   *)
(* the time that has passed, so they leave drift as it is; a boot and a    *)
(* timing recovery account for less, so that drift can only rise; a test   *)
(* reset starts with what it leaves in the clock, less than a round, as    *)
(* inherited; and only a panic takes time back, that of the sleep before   *)
(* the boot.                                                               *)
(***************************************************************************)
EXTENDS RoundClock, TLAPS

USE ClockAssumption

\* Quotient and remainder.
LEMMA DivMod ==
  ASSUME NEW a \in Nat, NEW p \in Nat \ {0}
  PROVE  /\ a \div p \in Nat /\ (a % p) \in Nat /\ (a % p) < p
         /\ (a \div p) * p + (a % p) = a
OBVIOUS

LEMMA Product ==
  ASSUME NEW a \in Nat, NEW b \in Nat, NEW p \in Nat
  PROVE  /\ (a + b + 0) * p = a * p + b * p
         /\ (a + b + 1) * p = a * p + b * p + p
OBVIOUS

\* RoundClock::tick() keeps less than a round and accounts for all of the time
\* since it was last called, though it never adds the two.
THEOREM TickIsExact ==
  ASSUME NEW r \in Nat, NEW last \in Nat, NEW t \in Nat, last <= t
  PROVE  LET c == [remainder |-> r, last |-> last] IN
         /\ Tick(c, t).rounds \in Nat
         /\ Tick(c, t).remainder \in 0 .. Period - 1
         /\ Tick(c, t).rounds * Period + Tick(c, t).remainder = r + (t - last)
<1> DEFINE a == r % Period
           b == (t - last) % Period
           q == r \div Period
           s == (t - last) \div Period
           c == [remainder |-> r, last |-> last]
<1>0. t - last \in Nat
  OBVIOUS
<1>1. /\ q \in Nat /\ a \in Nat /\ a < Period /\ q * Period + a = r
      /\ s \in Nat /\ b \in Nat /\ b < Period /\ s * Period + b = t - last
  BY <1>0, DivMod
<1>2. Tick(c, t) = [rounds |-> q + s + (IF b >= Period - a THEN 1 ELSE 0),
                    remainder |-> IF b >= Period - a THEN b - (Period - a) ELSE a + b]
  BY DEF Tick
<1> HIDE DEF a, b, q, s, c
<1>3. /\ (q + s + 0) * Period = q * Period + s * Period
      /\ (q + s + 1) * Period = q * Period + s * Period + Period
  BY <1>1, Product
<1>4. CASE b >= Period - a
  <2>1. Tick(c, t).rounds = q + s + 1 /\ Tick(c, t).remainder = b - (Period - a)
    BY <1>2, <1>4
  <2>2. Tick(c, t).remainder \in 0 .. Period - 1
    BY <1>1, <1>4, <2>1
  <2>3. Tick(c, t).rounds * Period + Tick(c, t).remainder = r + (t - last)
    BY <1>1, <1>3, <2>1
  <2> QED BY <1>1, <2>1, <2>2, <2>3 DEF c
<1>5. CASE ~(b >= Period - a)
  <2>1. Tick(c, t).rounds = q + s + 0 /\ Tick(c, t).remainder = a + b
    BY <1>2, <1>5
  <2>2. Tick(c, t).remainder \in 0 .. Period - 1
    BY <1>1, <1>5, <2>1
  <2>3. Tick(c, t).rounds * Period + Tick(c, t).remainder = r + (t - last)
    BY <1>1, <1>3, <2>1
  <2> QED BY <1>1, <2>1, <2>2, <2>3 DEF c
<1> QED BY <1>4, <1>5

-----------------------------------------------------------------------------
(* The invariant, and what each action does to it *)

\* A board that has been cleared saves nothing before it sleeps.
NothingSaved == awake /\ cleared => saved = 0

IInv == TypeOK /\ NeverAhead /\ NothingSaved

\* What an advance does to the clock of a running board.
LEMMA Advance ==
  ASSUME TypeOK, NEW n, NEW ticked, n = Tick(clock, now).rounds, ticked = Ticked(clock, now)
  PROVE  /\ ticked = [remainder |-> Tick(clock, now).remainder, last |-> now]
         /\ ticked.remainder \in 0 .. Period - 1
         /\ ticked.last = now
         /\ n * Period \in Int
         /\ n * Period + ticked.remainder = Uncounted
<1>1. /\ clock.remainder \in Nat /\ clock.last \in Nat /\ now \in Nat /\ clock.last <= now
      /\ clock = [remainder |-> clock.remainder, last |-> clock.last]
  BY DEF TypeOK
<1>2. /\ Tick(clock, now).rounds \in Nat
      /\ Tick(clock, now).remainder \in 0 .. Period - 1
      /\ Tick(clock, now).rounds * Period + Tick(clock, now).remainder
           = clock.remainder + (now - clock.last)
  BY <1>1, TickIsExact
<1>3. ticked = [remainder |-> Tick(clock, now).remainder, last |-> now]
  BY DEF Ticked
<1> HIDE DEF Tick
<1> QED BY <1>2, <1>3 DEF Uncounted

\* Nothing that accounts for no more than has passed puts the clock ahead.
LEMMA Accounted ==
  ASSUME drift \in -DriftMax .. DriftMax, NEW p \in Int, NEW n \in Int, Account(p, n)
  PROVE  /\ drift' \in -DriftMax .. DriftMax
         /\ \A i \in 0 .. Period - 1 : p >= n /\ drift + i >= 0 => drift' + i >= 0
BY DEF Account

\* A board that goes to sleep, with what it carries over.
LEMMA SleepTypes ==
  ASSUME TypeOK, NEW carried, Sleep(carried),
         carried \in 0 .. Period + AwakeMax + SleepMax,
         drift' \in -DriftMax .. DriftMax, inherited' \in 0 .. Period - 1,
         cleared' \in BOOLEAN, panicked' \in BOOLEAN
  PROVE  TypeOK' /\ NothingSaved'
<1>1. awake' = FALSE /\ now' = 0 /\ clock' = [remainder |-> 0, last |-> 0] /\ saved' = carried
  BY DEF Sleep
<1>2. 0 \in 0 .. AwakeMax
  OBVIOUS
<1>3. clock' \in [remainder : Nat, last : 0 .. AwakeMax] /\ clock'.last <= now'
  BY <1>1, <1>2
<1> QED BY <1>1, <1>2, <1>3 DEF TypeOK, NothingSaved

LEMMA BootIInv ==
  ASSUME IInv, NEW t \in 0 .. BootMax, Boot(t)
  PROVE  IInv'
<1>1. /\ awake' = TRUE /\ now' = t /\ clock' = [remainder |-> saved, last |-> t]
      /\ cleared' = FALSE /\ Account(t, 0) /\ UNCHANGED <<saved, inherited, panicked>>
  BY DEF Boot
<1>2. drift' \in -DriftMax .. DriftMax /\ (drift + inherited >= 0 => drift' + inherited >= 0)
  BY <1>1, Accounted DEF IInv, TypeOK
<1>3. TypeOK'
  <2>1. t \in 0 .. AwakeMax /\ saved \in Nat
    BY DEF IInv, TypeOK
  <2>2. clock' \in [remainder : Nat, last : 0 .. AwakeMax] /\ clock'.last <= now'
    BY <1>1, <2>1
  <2> QED BY <1>1, <1>2, <2>1, <2>2 DEF IInv, TypeOK
<1>4. NeverAhead'
  BY <1>1, <1>2 DEF IInv, NeverAhead
<1>5. NothingSaved'
  BY <1>1 DEF NothingSaved
<1> QED BY <1>3, <1>4, <1>5 DEF IInv

LEMMA ElapseIInv ==
  ASSUME IInv, NEW t \in 1 .. AwakeMax, Elapse(t)
  PROVE  IInv'
BY DEF IInv, TypeOK, NeverAhead, NothingSaved, Elapse

\* An advance accounts for exactly what has passed.
LEMMA AdvanceIInv ==
  ASSUME IInv, AdvanceRoundClock
  PROVE  IInv'
<1> DEFINE n == Tick(clock, now).rounds
           ticked == Ticked(clock, now)
<1>1. /\ clock' = ticked /\ Account(0, n * Period + clock'.remainder - Uncounted)
      /\ UNCHANGED <<awake, now, saved, cleared, inherited, panicked>>
  BY DEF AdvanceRoundClock
<1>2. /\ ticked = [remainder |-> Tick(clock, now).remainder, last |-> now]
      /\ ticked.remainder \in 0 .. Period - 1 /\ n * Period \in Int
      /\ n * Period + ticked.remainder = Uncounted
  BY Advance DEF IInv
<1> HIDE DEF n, ticked
<1>3. n * Period + clock'.remainder - Uncounted = 0
  BY <1>1, <1>2
<1>4. drift' \in -DriftMax .. DriftMax /\ (drift + inherited >= 0 => drift' + inherited >= 0)
  BY <1>1, <1>3, Accounted DEF IInv, TypeOK
<1>5. clock' \in [remainder : Nat, last : 0 .. AwakeMax] /\ clock'.last <= now
  BY <1>1, <1>2 DEF IInv, TypeOK
<1> QED BY <1>1, <1>4, <1>5 DEF IInv, TypeOK, NeverAhead, NothingSaved

\* A sleep after which spare time is left uncounted.
LEMMA SleepingIInv ==
  ASSUME IInv, NEW late \in 0 .. BootMax, NEW duration \in Nat, NEW spare \in {0, late},
         duration <= SleepMax \/ duration = 1,
         Sleep(Ticked(clock, now).remainder + (late - spare) + duration),
         Account(late + duration,
                 Tick(clock, now).rounds * Period
                   + (Ticked(clock, now).remainder + (late - spare) + duration) - Uncounted),
         UNCHANGED <<cleared, inherited, panicked>>
  PROVE  IInv'
<1> DEFINE n == Tick(clock, now).rounds
           ticked == Ticked(clock, now)
           carried == ticked.remainder + (late - spare) + duration
<1>1. /\ ticked.remainder \in 0 .. Period - 1 /\ n * Period \in Int
      /\ n * Period + ticked.remainder = Uncounted
  BY Advance DEF IInv
<1>2. Sleep(carried) /\ Account(late + duration, n * Period + carried - Uncounted)
  OBVIOUS
<1> HIDE DEF n, ticked
<1>3. /\ n * Period + carried - Uncounted = (late - spare) + duration
      /\ late + duration >= (late - spare) + duration
      /\ late + duration \in Int /\ (late - spare) + duration \in Int
  BY <1>1
<1>4. carried \in 0 .. Period + AwakeMax + SleepMax
  BY <1>1
<1> HIDE DEF carried
<1>5. drift' \in -DriftMax .. DriftMax /\ (drift + inherited >= 0 => drift' + inherited >= 0)
  BY <1>2, <1>3, Accounted DEF IInv, TypeOK
<1>6. TypeOK' /\ NothingSaved'
  BY <1>2, <1>4, <1>5, SleepTypes DEF IInv, TypeOK
<1> QED BY <1>5, <1>6 DEF IInv, NeverAhead

\* The executor carries over the time it took to write its tables, ...
LEMMA SleepForExecutorIInv ==
  ASSUME IInv, NEW late \in 0 .. BootMax, NEW duration \in 1 .. SleepMax,
         SleepForExecutor(late, duration)
  PROVE  IInv'
<1> DEFINE r == Ticked(clock, now).remainder
           n == Tick(clock, now).rounds
<1>1. /\ Sleep(r + late + duration) /\ UNCHANGED <<cleared, inherited, panicked>>
      /\ Account(late + duration, n * Period + (r + late + duration) - Uncounted)
  BY DEF SleepForExecutor, Carried
<1>2. r \in Int
  BY Advance DEF IInv
<1> HIDE DEF r
<1>3. r + (late - 0) + duration = r + late + duration
  BY <1>2
<1>4. /\ Sleep(r + (late - 0) + duration)
      /\ Account(late + duration, n * Period + (r + (late - 0) + duration) - Uncounted)
  BY <1>1, <1>3
<1> QED BY <1>1, <1>4, SleepingIInv DEF r

\* ... and the timing recovery does not.
LEMMA SleepForTimingRecoveryIInv ==
  ASSUME IInv, NEW late \in 0 .. BootMax, NEW duration \in Nat,
         duration <= SleepMax \/ duration = 1, SleepForTimingRecovery(late, duration)
  PROVE  IInv'
<1> DEFINE r == Ticked(clock, now).remainder
           n == Tick(clock, now).rounds
<1>1. /\ Sleep(r + duration) /\ UNCHANGED <<cleared, inherited, panicked>>
      /\ Account(late + duration, n * Period + (r + duration) - Uncounted)
  BY DEF SleepForTimingRecovery
<1>2. r \in Int
  BY Advance DEF IInv
<1> HIDE DEF r
<1>3. r + (late - late) + duration = r + duration
  BY <1>2
<1>4. /\ Sleep(r + (late - late) + duration)
      /\ Account(late + duration, n * Period + (r + (late - late) + duration) - Uncounted)
  BY <1>1, <1>3
<1> QED BY <1>1, <1>4, SleepingIInv DEF r

\* A panic takes back the time since the boot, and the sleep before it is
\* counted again: the board is no longer known not to be ahead.
LEMMA PanicIInv ==
  ASSUME IInv, Panic
  PROVE  IInv'
<1>1. /\ Sleep(saved) /\ Account(0, saved - Uncounted) /\ panicked' = TRUE
      /\ UNCHANGED <<cleared, inherited>>
  BY DEF Panic
<1>2. saved \in Int /\ Uncounted \in Int
  BY DEF IInv, TypeOK, Uncounted
<1>3. drift' \in -DriftMax .. DriftMax
  BY <1>1, <1>2, Accounted DEF IInv, TypeOK
<1> QED BY <1>1, <1>3, SleepTypes DEF IInv, TypeOK, NeverAhead

\* A reset voids what has been counted; what it leaves in the clock is less
\* than a round.
LEMMA TestResetIInv ==
  ASSUME IInv, TestReset
  PROVE  IInv'
<1> DEFINE ticked == Ticked(clock, now)
<1>1. /\ clock' = ticked /\ saved' = 0 /\ cleared' = TRUE /\ panicked' = FALSE
      /\ drift' = -clock'.remainder /\ inherited' = clock'.remainder
      /\ UNCHANGED <<awake, now>>
  BY DEF TestReset
<1>2. /\ ticked = [remainder |-> Tick(clock, now).remainder, last |-> now]
      /\ ticked.remainder \in 0 .. Period - 1
  BY Advance DEF IInv
<1> HIDE DEF ticked
<1>3. clock' \in [remainder : Nat, last : 0 .. AwakeMax] /\ clock'.last <= now
  BY <1>1, <1>2 DEF IInv, TypeOK
<1>4. /\ drift' \in -DriftMax .. DriftMax /\ inherited' \in 0 .. Period - 1
      /\ drift' + inherited' >= 0
  <2> DEFINE r == clock'.remainder
  <2>1. r \in 0 .. Period - 1 /\ drift' = -r /\ inherited' = r
    BY <1>1, <1>2
  <2> HIDE DEF r
  <2> QED BY <2>1
<1>5. TypeOK'
  <2>1. 0 \in 0 .. Period + AwakeMax + SleepMax
    OBVIOUS
  <2> QED BY <1>1, <1>3, <1>4, <2>1 DEF IInv, TypeOK
<1>6. NeverAhead'
  BY <1>4 DEF NeverAhead
<1>7. NothingSaved'
  BY <1>1 DEF NothingSaved
<1> QED BY <1>5, <1>6, <1>7 DEF IInv

\* The board starts afresh with nothing saved.
LEMMA SleepAfterResetIInv ==
  ASSUME IInv, SleepAfterReset
  PROVE  IInv'
<1>1. /\ Sleep(saved) /\ drift' = -saved /\ inherited' = 0
      /\ UNCHANGED <<cleared, panicked>> /\ saved = 0
  BY DEF SleepAfterReset, IInv, NothingSaved
<1>2. /\ drift' \in -DriftMax .. DriftMax /\ drift' + inherited' >= 0
      /\ 0 \in 0 .. Period - 1 /\ 0 \in 0 .. Period + AwakeMax + SleepMax
  BY <1>1
<1>3. TypeOK' /\ NothingSaved'
  BY <1>1, <1>2, SleepTypes DEF IInv, TypeOK
<1> QED BY <1>2, <1>3 DEF IInv, NeverAhead

LEMMA Invariance == Spec => []IInv
<1>1. Init => IInv
  <2> SUFFICES ASSUME Init PROVE IInv
    OBVIOUS
  <2>1. /\ 0 \in -DriftMax .. DriftMax /\ 0 \in 0 .. Period + AwakeMax + SleepMax
        /\ 0 \in 0 .. AwakeMax /\ 0 \in 0 .. Period - 1
    OBVIOUS
  <2>2. clock \in [remainder : Nat, last : 0 .. AwakeMax] /\ clock.last <= now
    BY <2>1 DEF Init
  <2>3. TypeOK
    BY <2>1, <2>2 DEF Init, TypeOK
  <2>4. NeverAhead /\ NothingSaved
    BY DEF Init, NeverAhead, NothingSaved
  <2> QED BY <2>3, <2>4 DEF IInv
<1>2. ASSUME IInv, [Next]_vars PROVE IInv'
  <2>1. ASSUME NEW t \in 0 .. BootMax, Boot(t) PROVE IInv'
    BY <1>2, <2>1, BootIInv
  <2>2. ASSUME NEW t \in 1 .. AwakeMax, Elapse(t) PROVE IInv'
    BY <1>2, <2>2, ElapseIInv
  <2>3. CASE AdvanceRoundClock
    BY <1>2, <2>3, AdvanceIInv
  <2>4. ASSUME NEW late \in 0 .. BootMax, NEW duration \in 1 .. SleepMax,
               SleepForExecutor(late, duration)
        PROVE  IInv'
    BY <1>2, <2>4, SleepForExecutorIInv
  <2>5. ASSUME NEW late \in 0 .. BootMax, NEW duration \in 1 .. SleepMax,
               SleepForTimingRecovery(late, duration)
        PROVE  IInv'
    BY <1>2, <2>5, SleepForTimingRecoveryIInv
  <2>6. ASSUME NEW late \in 0 .. BootMax, MaximumAwakeSleep(late) PROVE IInv'
    BY <1>2, <2>6, SleepForTimingRecoveryIInv DEF MaximumAwakeSleep
  <2>7. CASE Panic
    BY <1>2, <2>7, PanicIInv
  <2>8. CASE TestReset
    BY <1>2, <2>8, TestResetIInv
  <2>9. CASE SleepAfterReset
    BY <1>2, <2>9, SleepAfterResetIInv
  <2>10. CASE UNCHANGED vars
    BY <1>2, <2>10 DEF vars, IInv, TypeOK, NeverAhead, NothingSaved
  <2> QED
    BY <1>2, <2>1, <2>2, <2>3, <2>4, <2>5, <2>6, <2>7, <2>8, <2>9, <2>10 DEF Next
<1> QED BY <1>1, <1>2, PTL DEF Spec

-----------------------------------------------------------------------------
(* The theorems *)

\* Every variable has its type; in particular what a board carries over fits in
\* a period, the time it may be awake and a sleep.
THEOREM TypeCorrectness == Spec => []TypeOK
<1>1. IInv => TypeOK
  BY DEF IInv
<1> QED BY <1>1, Invariance, PTL

\* A board that has not panicked since its last reset never counts a round
\* before its time has passed, however it sleeps and wakes (rendezvousExecutor.h,
\* RoundClock), but for the part of a round from before the reset, if the sleep
\* after it has saved that again (sleepForTimingRecovery(), maximumAwakeSleep()).
THEOREM NoEarlyRounds == Spec => []NeverAhead
<1>1. IInv => NeverAhead
  BY DEF IInv
<1> QED BY <1>1, Invariance, PTL

\* An advance leaves less than a period in the clock: the round of every whole
\* period that has passed is counted (RoundClock::tick()).
THEOREM NoRoundLeft == Spec => NothingLeft
<1>1. ASSUME IInv, Next, awake, awake', clock'.last # clock.last
      PROVE  clock'.remainder < Period
  <2>1. CASE AdvanceRoundClock \/ TestReset
    <3>1. clock' = Ticked(clock, now)
      BY <2>1 DEF AdvanceRoundClock, TestReset
    <3>2. Ticked(clock, now).remainder \in 0 .. Period - 1
      BY <1>1, Advance DEF IInv
    <3> QED BY <3>1, <3>2
  <2>2. ASSUME NEW t, Boot(t) \/ Elapse(t) PROVE FALSE
    BY <1>1, <2>2 DEF Boot, Elapse
  <2>3. ASSUME NEW late, NEW duration,
               \/ SleepForExecutor(late, duration) \/ SleepForTimingRecovery(late, duration)
               \/ MaximumAwakeSleep(late) \/ Panic \/ SleepAfterReset
        PROVE  FALSE
    BY <1>1, <2>3 DEF SleepForExecutor, SleepForTimingRecovery, MaximumAwakeSleep, Panic,
                     SleepAfterReset, Sleep
  <2> QED BY <1>1, <2>1, <2>2, <2>3 DEF Next
<1>2. IInv /\ [Next]_vars =>
        [(awake /\ awake' /\ clock'.last # clock.last) => clock'.remainder < Period]_vars
  BY <1>1 DEF vars
<1> QED BY <1>2, Invariance, PTL DEF Spec, NothingLeft
=============================================================================
