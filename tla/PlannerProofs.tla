---------------------------- MODULE PlannerProofs ----------------------------
(***************************************************************************)
(* Proofs about Planner, for any beacons, clocks, windows, leads, budget   *)
(* and bound on the time.                                                  *)
(*  - Windows: Opens(b, k) is when the k-th window of b opens, and Leaves  *)
(*    says which window nextAppointment() finds, without its remainders.   *)
(*  - Merging: Merging is what holds of the intervals while appointments   *)
(*    are left, Serves what holds of them in the end.                      *)
(*  - The time awake: awakeUsec() is the number of units in the intervals. *)
(*  - Plans: what a plan that was Made at some time is made of.            *)
(*  - Sleeping: before the next interval nothing that was planned begins,  *)
(*    nor any window of the home, planned or not.                          *)
(*  - IInv: the plan was Made at some time up to now; a board that waits   *)
(*    in the middle of a sleep wakes before the window that it Awaits.     *)
(***************************************************************************)
EXTENDS Planner, TLAPS, FiniteSetTheorems, SequenceTheorems, WellFoundedInduction

-----------------------------------------------------------------------------
(* Numbers *)

\* Induction, for sets of numbers.
LEMMA Induction ==
  ASSUME NEW S \in SUBSET Nat, 0 \in S, \A n \in S : n + 1 \in S
  PROVE  S = Nat
<1> SUFFICES ASSUME Nat \ S # {} PROVE FALSE
  OBVIOUS
<1> DEFINE R == OpToRel(<, Nat)
<1>1. IsWellFoundedOn(R, Nat)
  BY NatLessThanWellFounded
<1> HIDE DEF R
<1>2. PICK m \in Nat \ S : \A n \in Nat \ S : ~(<<n, m>> \in R)
  BY <1>1, WFMin
<1>3. m # 0 /\ m - 1 \in Nat /\ m - 1 < m
  OBVIOUS
<1>4. m - 1 \in S
  <2>1. <<m - 1, m>> \in R
    BY <1>3 DEF R, OpToRel
  <2> QED BY <1>2, <1>3, <2>1
<1> QED BY <1>3, <1>4

\* A set of numbers has a least one.
LEMMA LeastOf ==
  ASSUME NEW S \in SUBSET Nat, S # {}
  PROVE  \E n \in S : \A m \in S : n <= m
<1> DEFINE R == OpToRel(<, Nat)
<1>1. IsWellFoundedOn(R, Nat)
  BY NatLessThanWellFounded
<1> HIDE DEF R
<1>2. PICK n \in S : \A m \in S : ~(<<m, n>> \in R)
  BY <1>1, WFMin
<1>3. ASSUME NEW m \in S PROVE n <= m
  <2>1. ~(<<m, n>> \in R)
    BY <1>2
  <2> QED BY <2>1 DEF R, OpToRel
<1> QED BY <1>3

\* ... and if it is bounded Max() finds its greatest.
LEMMA MaxOf ==
  ASSUME NEW S \in SUBSET Nat, S # {}, NEW n \in Nat, \A m \in S : m <= n
  PROVE  Max(S) \in S
<1> DEFINE T == {n - m : m \in S}
<1>1. T \in SUBSET Nat /\ T # {}
  <2>1. \A m \in S : n - m \in Nat
    OBVIOUS
  <2> QED BY <2>1
<1>2. PICK k \in T : \A j \in T : k <= j
  BY <1>1, LeastOf
<1>3. PICK m \in S : k = n - m
  BY <1>2
<1>4. ASSUME NEW j \in S PROVE m >= j
  <2>1. n - j \in T
    OBVIOUS
  <2>2. k <= n - j
    BY <1>2, <2>1
  <2> QED BY <1>3, <2>2
<1>5. (CHOOSE x \in S : \A y \in S : x >= y) \in S
  BY <1>4
<1> QED BY <1>5 DEF Max

\* Quotient and remainder.
LEMMA DivMod ==
  ASSUME NEW a \in Nat, NEW p \in Nat \ {0}
  PROVE  /\ a \div p \in Nat /\ (a % p) \in Nat /\ (a % p) < p
         /\ (a \div p) * p + (a % p) = a
OBVIOUS

\* A number of periods, and one more.
LEMMA Times ==
  ASSUME NEW a \in Nat, NEW b \in Nat, NEW p \in Nat
  PROVE  /\ a * p \in Nat /\ (a + b) * p = a * p + b * p
         /\ (a + 1) * p = a * p + p /\ 0 * p = 0
OBVIOUS

-----------------------------------------------------------------------------
(* The planner's loops, one turn after the other *)

\* rebuild() merges one appointment after the other.
LEMMA MergeByMerge ==
  ASSUME NEW s, Len(s) \in Nat
  PROVE  \E merged : /\ merged[0] = <<>> /\ merged[Len(s)] = Intervals(s)
                     /\ \A i \in 1 .. Len(s) : merged[i] = MergeNext(s, merged[i - 1])
<1> DEFINE Eq(f, n) ==
             f = [i \in 0 .. n |-> IF i = 0 THEN <<>> ELSE MergeNext(s, f[i - 1])]
           S == {n \in Nat : \E f : Eq(f, n)}
<1>1. 0 \in S
  <2> DEFINE f == [i \in 0 .. 0 |-> <<>>]
  <2>1. Eq(f, 0)
    OBVIOUS
  <2> HIDE DEF f
  <2> QED BY <2>1
<1>2. ASSUME NEW n \in S PROVE n + 1 \in S
  <2>1. n \in Nat
    OBVIOUS
  <2>2. PICK f : Eq(f, n)
    OBVIOUS
  <2> DEFINE g == [i \in 0 .. n + 1 |-> IF i \in 0 .. n THEN f[i] ELSE MergeNext(s, f[n])]
  <2>3. ASSUME NEW i \in 0 .. n + 1
        PROVE  g[i] = IF i = 0 THEN <<>> ELSE MergeNext(s, g[i - 1])
    BY <2>1, <2>2
  <2>4. Eq(g, n + 1)
    BY <2>3
  <2> HIDE DEF g
  <2> QED BY <2>1, <2>4
<1> HIDE DEF S
<1>3. S = Nat
  <2>1. S \in SUBSET Nat
    BY DEF S
  <2> QED BY <1>1, <1>2, <2>1, Induction
<1>4. \E f : Eq(f, Len(s))
  BY <1>3 DEF S
<1> DEFINE merged == CHOOSE f : Eq(f, Len(s))
<1>5. Eq(merged, Len(s))
  BY <1>4
<1>6. Intervals(s) = merged[Len(s)]
  BY DEF Intervals
<1> HIDE DEF merged
<1>7. merged[0] = <<>> /\ \A i \in 1 .. Len(s) : merged[i] = MergeNext(s, merged[i - 1])
  BY <1>5
<1> QED BY <1>6, <1>7

\* awakeUsec() adds up one interval after the other.
LEMMA SumBySum ==
  ASSUME NEW iv, Len(iv) \in Nat
  PROVE  \E total : /\ total[0] = 0 /\ total[Len(iv)] = AwakeTime(iv)
                    /\ \A i \in 1 .. Len(iv) :
                         total[i] = total[i - 1] + (iv[i].end - iv[i].start)
<1> DEFINE Eq(f, n) ==
             f = [i \in 0 .. n |-> IF i = 0 THEN 0 ELSE f[i - 1] + (iv[i].end - iv[i].start)]
           S == {n \in Nat : \E f : Eq(f, n)}
<1>1. 0 \in S
  <2> DEFINE f == [i \in 0 .. 0 |-> 0]
  <2>1. Eq(f, 0)
    OBVIOUS
  <2> HIDE DEF f
  <2> QED BY <2>1
<1>2. ASSUME NEW n \in S PROVE n + 1 \in S
  <2>1. n \in Nat
    OBVIOUS
  <2>2. PICK f : Eq(f, n)
    OBVIOUS
  <2> DEFINE g == [i \in 0 .. n + 1 |->
                     IF i \in 0 .. n THEN f[i]
                     ELSE f[n] + (iv[n + 1].end - iv[n + 1].start)]
  <2>3. ASSUME NEW i \in 0 .. n + 1
        PROVE  g[i] = IF i = 0 THEN 0 ELSE g[i - 1] + (iv[i].end - iv[i].start)
    BY <2>1, <2>2
  <2>4. Eq(g, n + 1)
    BY <2>3
  <2> HIDE DEF g, Eq
  <2>5. (\E e : Eq(e, n + 1)) /\ n + 1 \in Nat
    BY <2>1, <2>4
  <2> QED BY <2>5
<1> HIDE DEF S
<1>3. S = Nat
  <2>1. S \in SUBSET Nat
    BY DEF S
  <2> QED BY <1>1, <1>2, <2>1, Induction
<1>4. \E f : Eq(f, Len(iv))
  BY <1>3 DEF S
<1> DEFINE total == CHOOSE f : Eq(f, Len(iv))
<1>5. Eq(total, Len(iv))
  BY <1>4
<1>6. AwakeTime(iv) = total[Len(iv)]
  BY DEF AwakeTime
<1> HIDE DEF total
<1>7. total[0] = 0 /\ \A i \in 1 .. Len(iv) : total[i] = total[i - 1] + (iv[i].end - iv[i].start)
  BY <1>5
<1> QED BY <1>6, <1>7

\* makeExecutionPlan() tries one scout after the other.
ByScout(planned, h, scouts, budget) ==
  /\ planned[0] = Homes(h) /\ planned[Len(scouts)] = Appointments(h, scouts, budget)
  /\ \A i \in 1 .. Len(scouts) :
       planned[i] = AddScout(planned[i - 1], NextAppointment(scouts[i], now, FALSE),
                             AwakeTime(Intervals(Homes(h))), budget)

LEMMA ScoutByScout ==
  ASSUME NEW h, NEW scouts, Len(scouts) \in Nat, NEW budget
  PROVE  \E planned : ByScout(planned, h, scouts, budget)
<1> DEFINE Add(p, i) == AddScout(p, NextAppointment(scouts[i], now, FALSE),
                                 AwakeTime(Intervals(Homes(h))), budget)
           Eq(f, n) == f = [i \in 0 .. n |-> IF i = 0 THEN Homes(h) ELSE Add(f[i - 1], i)]
           S == {n \in Nat : \E f : Eq(f, n)}
<1>1. 0 \in S
  <2> DEFINE f == [i \in 0 .. 0 |-> Homes(h)]
  <2>1. Eq(f, 0)
    OBVIOUS
  <2> HIDE DEF f
  <2> QED BY <2>1
<1>2. ASSUME NEW n \in S PROVE n + 1 \in S
  <2>1. n \in Nat
    OBVIOUS
  <2>2. PICK f : Eq(f, n)
    OBVIOUS
  <2> DEFINE g == [i \in 0 .. n + 1 |-> IF i \in 0 .. n THEN f[i] ELSE Add(f[n], n + 1)]
  <2>3. ASSUME NEW i \in 0 .. n + 1
        PROVE  g[i] = IF i = 0 THEN Homes(h) ELSE Add(g[i - 1], i)
    BY <2>1, <2>2
  <2>4. Eq(g, n + 1)
    BY <2>3
  <2> HIDE DEF g
  <2> QED BY <2>1, <2>4
<1> HIDE DEF S
<1>3. S = Nat
  <2>1. S \in SUBSET Nat
    BY DEF S
  <2> QED BY <1>1, <1>2, <2>1, Induction
<1>4. \E f : Eq(f, Len(scouts))
  BY <1>3 DEF S
<1> DEFINE planned == CHOOSE f : Eq(f, Len(scouts))
<1>5. Eq(planned, Len(scouts))
  BY <1>4
<1>6. Appointments(h, scouts, budget) = planned[Len(scouts)]
  BY DEF Appointments
<1> HIDE DEF planned
<1>7. planned[0] = Homes(h) /\ \A i \in 1 .. Len(scouts) : planned[i] = Add(planned[i - 1], i)
  BY <1>5
<1> QED BY <1>6, <1>7 DEF ByScout

-----------------------------------------------------------------------------
(* Windows *)

Clocks == tsf \in [Bssid -> 0 .. Period - 1]

\* When the k-th window of b opens.
Opens(b, k) == Phase + k * Period - tsf[b]

\* Windows open a period apart.
LEMMA OpensApart ==
  ASSUME Clocks, NEW b \in Bssid, NEW j \in Nat, NEW k \in Nat
  PROVE  /\ Opens(b, k) \in Int /\ Opens(b, k + 1) = Opens(b, k) + Period
         /\ j < k => Opens(b, j) + Period <= Opens(b, k)
<1>1. tsf[b] \in Nat /\ Phase \in Nat /\ Period \in Nat
  BY WindowAssumption DEF Clocks
<1>2. k * Period \in Nat /\ (k + 1) * Period = k * Period + Period
  BY <1>1, Times
<1>3. ASSUME j < k PROVE j * Period + Period <= k * Period
  <2>1. PICK d \in Nat : k = (j + 1) + d
    <3>1. k - (j + 1) \in Nat /\ k = (j + 1) + (k - (j + 1))
      BY <1>3
    <3> QED BY <3>1
  <2>2. j + 1 \in Nat
    OBVIOUS
  <2>3. k * Period = (j + 1) * Period + d * Period /\ d * Period \in Nat
    BY <1>1, <2>1, <2>2, Times
  <2>4. (j + 1) * Period = j * Period + Period /\ j * Period \in Nat
    BY <1>1, Times
  <2> QED BY <1>1, <2>3, <2>4
<1>4. j * Period \in Nat
  BY <1>1, Times
<1> QED BY <1>1, <1>2, <1>3, <1>4 DEF Opens

\* a is for what is left at time t of the k-th window of b, and all of b's
\* windows before it are over then.
Leaves(a, b, k, t) ==
  /\ a.bssid = b
  /\ a.start = IF Opens(b, k) < t THEN t ELSE Opens(b, k)
  /\ a.end = Opens(b, k) + Duration
  /\ a.late <=> Opens(b, k) < t
  /\ t < a.end /\ a.start < t + Period
  /\ \A j \in Nat : j < k => Opens(b, j) + Duration <= t

Appointment == [start : Nat, end : Nat, bssid : Bssid, home : BOOLEAN, late : BOOLEAN]

\* nextAppointment() finds the first window that is not over.
LEMMA NextAppointmentIs ==
  ASSUME Clocks, NEW b \in Bssid, NEW t \in Nat, NEW home \in BOOLEAN
  PROVE  /\ \E k \in Nat : Leaves(NextAppointment(b, t, home), b, k, t)
         /\ NextAppointment(b, t, home) \in Appointment
         /\ NextAppointment(b, t, home).home = home
<1> DEFINE x == t + tsf[b]
           q == x \div Period
           r == x % Period
           untilStart == IF Phase >= r THEN Phase - r ELSE Period - (r - Phase)
           age == IF untilStart = 0 THEN 0 ELSE Period - untilStart
           active == age < Duration /\ age <= x
           a == NextAppointment(b, t, home)
<1>1. /\ x \in Nat /\ Period \in Nat \ {0} /\ Phase \in 0 .. Period - 1
      /\ Duration \in 1 .. Period /\ tsf[b] \in 0 .. Period - 1
  BY WindowAssumption DEF Clocks
<1>2. q \in Nat /\ r \in 0 .. Period - 1 /\ q * Period + r = x
  <2> HIDE DEF x
  <2>1. q \in Nat /\ r \in Nat /\ r < Period /\ q * Period + r = x
    BY <1>1, DivMod
  <2> QED BY <1>1, <2>1
<1>3. a = [start |-> IF active THEN t ELSE t + untilStart,
           end |-> IF active THEN t + Duration - age ELSE t + untilStart + Duration,
           bssid |-> b, home |-> home, late |-> active /\ age # 0]
  BY DEF NextAppointment
<1>4. untilStart \in 0 .. Period - 1 /\ age \in 0 .. Period - 1
  <2> HIDE DEF q, r, x
  <2>1. untilStart \in 0 .. Period - 1
    BY <1>1, <1>2
  <2> HIDE DEF untilStart
  <2> QED BY <1>1, <2>1
<1>5. x - r = q * Period /\ x = t + tsf[b]
  <2>1. q * Period \in Nat
    BY <1>1, <1>2, Times
  <2>2. x = t + tsf[b]
    OBVIOUS
  <2> HIDE DEF q, r, x
  <2>3. x - r = q * Period
    BY <1>1, <1>2, <2>1
  <2> QED BY <2>2, <2>3
<1> HIDE DEF q, r, x, a
<1>6. a \in Appointment /\ a.home = home
  BY <1>1, <1>3, <1>4 DEF Appointment
<1>7. \E k \in Nat : /\ Opens(b, k) = IF active THEN t - age ELSE t + untilStart
                     /\ \A j \in Nat : j < k => Opens(b, j) + Duration <= t
  <2> DEFINE Older(k) == \A j \in Nat : j < k => Opens(b, j) + Duration <= t
  <2>1. ASSUME NEW k \in Nat, Opens(b, k) <= t PROVE Older(k)
    BY <1>1, <2>1, OpensApart
  <2>2. ASSUME NEW k \in Nat, Opens(b, k) + Duration <= t PROVE Older(k + 1)
    <3>1. Older(k)
      BY <1>1, <2>1, <2>2, OpensApart
    <3>2. ASSUME NEW j \in Nat, j < k + 1 PROVE Opens(b, j) + Duration <= t
      <4>1. j < k \/ j = k
        BY <3>2
      <4> QED BY <2>2, <3>1, <4>1
    <3> HIDE DEF Older
    <3> QED BY <3>2 DEF Older
  <2>3. Opens(b, q) = Phase - r + t
    BY <1>1, <1>2, <1>5 DEF Opens
  <2> HIDE DEF Older
  <2>4. CASE Phase = r
    <3>1. untilStart = 0 /\ age = 0 /\ active
      BY <1>1, <1>2, <2>4
    <3>2. Opens(b, q) = t - age /\ Opens(b, q) <= t
      BY <1>1, <1>2, <2>3, <2>4, <3>1
    <3> QED BY <1>2, <2>1, <3>1, <3>2 DEF Older
  <2>5. CASE Phase < r
    <3>1. untilStart = Period - (r - Phase) /\ age = r - Phase /\ age <= x
      BY <1>1, <1>2, <1>5, <2>5, Times
    <3>2. CASE active
      <4>1. Opens(b, q) = t - age /\ Opens(b, q) <= t
        BY <1>1, <1>2, <2>3, <2>5, <3>1
      <4> QED BY <1>2, <2>1, <3>2, <4>1 DEF Older
    <3>3. CASE ~active
      <4>1. age >= Duration
        BY <1>1, <1>4, <3>1, <3>3
      <4>2. Opens(b, q) + Duration <= t
        BY <1>1, <1>2, <2>3, <3>1, <4>1
      <4>3. Opens(b, q + 1) = t + untilStart
        BY <1>1, <1>2, <2>3, <3>1, OpensApart
      <4>4. q + 1 \in Nat /\ Older(q + 1)
        BY <1>2, <2>2, <4>2
      <4> QED BY <3>3, <4>3, <4>4 DEF Older
    <3> QED BY <3>2, <3>3
  <2>6. CASE Phase > r
    <3>1. untilStart = Phase - r /\ age = Period - (Phase - r)
      BY <1>1, <1>2, <2>6
    <3>2. CASE q = 0
      <4>1. x = r
        BY <1>1, <1>2, <1>5, <3>2, Times
      <4>2. ~active
        BY <1>1, <1>2, <2>6, <3>1, <4>1
      <4>3. Older(0)
        BY DEF Older
      <4> QED BY <1>1, <1>2, <2>3, <3>1, <3>2, <4>2, <4>3 DEF Older
    <3>3. CASE q # 0
      <4>1. q - 1 \in Nat /\ (q - 1) + 1 = q
        BY <1>2, <3>3
      <4>2. Opens(b, q) = Opens(b, q - 1) + Period
        BY <4>1, OpensApart
      <4>3. Opens(b, q - 1) = t - age
        BY <1>1, <1>2, <2>3, <3>1, <4>1, <4>2, OpensApart
      <4>4. age <= x
        <5>1. q * Period >= Period
          <6>1. (q - 1) * Period \in Nat /\ ((q - 1) + 1) * Period = (q - 1) * Period + Period
            BY <1>1, <4>1, Times
          <6> QED BY <1>1, <4>1, <6>1
        <5> QED BY <1>1, <1>2, <1>5, <2>6, <3>1, <5>1
      <4>5. CASE active
        <5>1. Older(q - 1)
          BY <1>1, <1>4, <2>1, <4>1, <4>3
        <5> QED BY <4>1, <4>3, <4>5, <5>1 DEF Older
      <4>6. CASE ~active
        <5>1. age >= Duration
          BY <1>1, <1>4, <4>4, <4>6
        <5>2. Opens(b, q - 1) + Duration <= t
          BY <1>1, <1>4, <4>3, <5>1
        <5>3. Older(q)
          BY <2>2, <4>1, <5>2
        <5>4. Opens(b, q) = t + untilStart
          BY <1>1, <1>2, <2>3, <3>1
        <5> QED BY <1>2, <4>6, <5>3, <5>4 DEF Older
      <4> QED BY <4>5, <4>6
    <3> QED BY <3>2, <3>3
  <2> QED BY <1>1, <1>2, <2>4, <2>5, <2>6
<1>8. PICK k \in Nat : /\ Opens(b, k) = IF active THEN t - age ELSE t + untilStart
                       /\ \A j \in Nat : j < k => Opens(b, j) + Duration <= t
  BY <1>7
<1>9. Leaves(a, b, k, t)
  <2>1. active => age < Duration
    OBVIOUS
  <2>2. ~active => untilStart # 0
    BY <1>1
  <2> HIDE DEF active, age, untilStart
  <2>3. active \in BOOLEAN
    BY DEF active
  <2>f. /\ a.bssid = b /\ (a.late <=> active /\ age # 0)
        /\ a.start = IF active THEN t ELSE t + untilStart
        /\ a.end = IF active THEN t + Duration - age ELSE t + untilStart + Duration
    BY <1>3
  <2>4. CASE active
    <3>1. Opens(b, k) = t - age /\ a.start = t /\ a.end = t + Duration - age
      BY <1>8, <2>4, <2>f
    <3>2. age < Duration /\ Duration \in Int /\ age \in Nat /\ Period \in Nat \ {0}
      BY <1>1, <1>4, <2>1, <2>4
    <3>3. Opens(b, k) < t <=> age # 0
      BY <3>1, <3>2
    <3>4. a.start = IF Opens(b, k) < t THEN t ELSE Opens(b, k)
      BY <3>1, <3>2
    <3> QED BY <1>8, <2>4, <2>f, <3>1, <3>2, <3>3, <3>4 DEF Leaves
  <2>5. CASE ~active
    <3>1. /\ Opens(b, k) = t + untilStart /\ a.start = t + untilStart
          /\ a.end = t + untilStart + Duration
      BY <1>8, <2>5, <2>f
    <3>2. /\ Duration \in Nat \ {0} /\ untilStart \in Nat /\ untilStart < Period
          /\ Period \in Nat
      BY <1>1, <1>4
    <3>3. ~(Opens(b, k) < t)
      BY <3>1, <3>2
    <3> QED BY <1>8, <2>5, <2>f, <3>1, <3>2, <3>3 DEF Leaves
  <2> QED BY <2>4, <2>5
<1> QED BY <1>6, <1>9 DEF a

\* The windows that an appointment may be for are among those that are counted.
LEMMA Foreseen ==
  ASSUME Clocks, NEW b \in Bssid, NEW k \in Nat, Opens(b, k) < TimeMax + Period + Period
  PROVE  k \in 0 .. LastWindow
<1>1. /\ tsf[b] \in 0 .. Period - 1 /\ Phase \in Nat /\ Period \in Nat \ {0}
      /\ TimeMax \in Nat
  BY WindowAssumption DEF Clocks
<1> DEFINE q == TimeMax \div Period
           r == TimeMax % Period
<1>2. q \in Nat /\ r \in Nat /\ r < Period /\ q * Period + r = TimeMax
  BY <1>1, DivMod
<1>3. k * Period \in Nat /\ q * Period \in Nat
  BY <1>1, <1>2, Times
<1>4. LastWindow = q + 4
  BY DEF LastWindow
<1> HIDE DEF q, r
<1>5. k * Period < q * Period + Period + Period + Period + Period
  BY <1>1, <1>2, <1>3 DEF Opens
<1>6. ASSUME k > q + 4 PROVE FALSE
  <2>1. PICK d \in Nat : k = q + 4 + d
    <3>1. k - (q + 4) \in Nat /\ k = q + 4 + (k - (q + 4))
      BY <1>2, <1>6
    <3> QED BY <3>1
  <2>2. d * Period \in Nat /\ (q + 4 + d) * Period = (q + 4) * Period + d * Period
    BY <1>1, <1>2, Times
  <2>3. (q + 4) * Period = q * Period + 4 * Period
    BY <1>1, <1>2, Times
  <2>4. k * Period = q * Period + 4 * Period + d * Period
    BY <2>1, <2>2, <2>3
  <2> QED BY <1>1, <1>3, <1>5, <2>2, <2>4
<1> QED BY <1>2, <1>4, <1>6

\* The windows of the properties are those of the planner.
LEMMA WindowsAre ==
  ASSUME Clocks, NEW b \in Bssid, NEW u \in Int
  PROVE  /\ WindowStarts(b, u) <=> \E k \in 0 .. LastWindow : u = Opens(b, k)
         /\ InWindow(b, u) <=> \E k \in 0 .. LastWindow :
                                 Opens(b, k) <= u /\ u < Opens(b, k) + Duration
<1>1. /\ tsf[b] \in Int /\ Phase \in Int /\ Period \in Nat \ {0} /\ Duration \in Nat \ {0}
      /\ LastWindow \in Nat
  <2>1. TimeMax \div Period \in Nat
    BY WindowAssumption, DivMod
  <2> QED BY <2>1, WindowAssumption DEF Clocks, LastWindow
<1>2. \A k \in 0 .. LastWindow : k * Period \in Int /\ Opens(b, k) \in Int
  BY <1>1, Times DEF Opens
<1>3. ASSUME NEW v \in Int
      PROVE  WindowStarts(b, v) <=> \E k \in 0 .. LastWindow : v = Opens(b, k)
  <2>1. ASSUME NEW k \in 0 .. LastWindow
        PROVE  v + tsf[b] = Phase + k * Period <=> v = Opens(b, k)
    BY <1>1, <1>2, <2>1 DEF Opens
  <2> QED BY <2>1 DEF WindowStarts
<1>4. InWindow(b, u) <=> \E age \in 0 .. Duration - 1 :
                           \E k \in 0 .. LastWindow : u - age = Opens(b, k)
  <2>1. \A age \in 0 .. Duration - 1 : u - age \in Int
    BY <1>1
  <2> QED BY <1>3, <2>1 DEF InWindow
<1>5. ASSUME NEW k \in 0 .. LastWindow
      PROVE  (\E age \in 0 .. Duration - 1 : u - age = Opens(b, k))
               <=> Opens(b, k) <= u /\ u < Opens(b, k) + Duration
  <2>1. Opens(b, k) \in Int
    BY <1>2
  <2>2. ASSUME Opens(b, k) <= u, u < Opens(b, k) + Duration
        PROVE  \E age \in 0 .. Duration - 1 : u - age = Opens(b, k)
    <3>1. u - Opens(b, k) \in 0 .. Duration - 1 /\ u - (u - Opens(b, k)) = Opens(b, k)
      BY <1>1, <2>1, <2>2
    <3> QED BY <3>1
  <2> QED BY <1>1, <2>1, <2>2
<1> QED BY <1>3, <1>4, <1>5

\* An appointment by the properties' words.
IsWindow(a) ==
  /\ a.start < a.end /\ \A t \in Span(a) : InWindow(a.bssid, t)
  /\ ~InWindow(a.bssid, a.end) \/ WindowStarts(a.bssid, a.end)
  /\ a.late <=> ~WindowStarts(a.bssid, a.start)

\* What nextAppointment() finds is one.
LEMMA LeavesWindow ==
  ASSUME Clocks, NEW b \in Bssid, NEW t \in Nat, NEW a \in Appointment,
         NEW k \in 0 .. LastWindow, Leaves(a, b, k, t)
  PROVE  IsWindow(a)
<1>1. /\ Duration \in 1 .. Period /\ Period \in Nat \ {0} /\ LastWindow \in Nat
  <2>1. TimeMax \div Period \in Nat
    BY WindowAssumption, DivMod
  <2> QED BY <2>1, WindowAssumption DEF LastWindow
<1>2. /\ k \in Nat /\ Opens(b, k) \in Int
      /\ \A j \in 0 .. LastWindow :
           /\ j \in Nat /\ Opens(b, j) \in Int
           /\ j < k => Opens(b, j) + Period <= Opens(b, k)
           /\ k < j => Opens(b, k) + Period <= Opens(b, j)
  BY <1>1, OpensApart
<1>3. /\ a.bssid = b /\ a.start \in Nat /\ a.end \in Nat /\ a.late \in BOOLEAN
      /\ a.start = IF Opens(b, k) < t THEN t ELSE Opens(b, k)
      /\ a.end = Opens(b, k) + Duration
      /\ a.late <=> Opens(b, k) < t
      /\ t < a.end
  BY DEF Leaves, Appointment
<1>4. a.start < a.end
  BY <1>1, <1>2, <1>3
<1>5. ASSUME NEW u \in Span(a) PROVE InWindow(a.bssid, u)
  <2>1. u \in Int /\ Opens(b, k) <= u /\ u < Opens(b, k) + Duration
    BY <1>2, <1>3, <1>5 DEF Span
  <2> QED BY <1>3, <2>1, WindowsAre
<1>6. ASSUME InWindow(a.bssid, a.end) PROVE WindowStarts(a.bssid, a.end)
  <2>1. PICK j \in 0 .. LastWindow :
          Opens(b, j) <= a.end /\ a.end < Opens(b, j) + Duration
    BY <1>3, <1>6, WindowsAre
  <2>2. a.end = Opens(b, j)
    <3>1. Opens(b, j) \in Int /\ (k < j => Opens(b, k) + Period <= Opens(b, j))
          /\ (j < k => Opens(b, j) + Period <= Opens(b, k)) /\ (j = k \/ j < k \/ k < j)
      BY <1>2
    <3> QED BY <1>1, <1>2, <1>3, <2>1, <3>1
  <2> QED BY <1>3, <2>2, WindowsAre
<1>7. a.late <=> ~WindowStarts(a.bssid, a.start)
  <2>1. CASE a.late
    <3>1. Opens(b, k) < t /\ a.start = t
      BY <1>3, <2>1
    <3>2. ASSUME NEW j \in 0 .. LastWindow PROVE a.start # Opens(b, j)
      <4>1. Opens(b, j) \in Int /\ (k < j => Opens(b, k) + Period <= Opens(b, j))
            /\ (j < k => Opens(b, j) + Period <= Opens(b, k)) /\ (j = k \/ j < k \/ k < j)
        BY <1>2
      <4> QED BY <1>1, <1>2, <1>3, <3>1, <4>1
    <3> QED BY <1>3, <2>1, <3>2, WindowsAre
  <2>2. CASE ~a.late
    <3>1. a.start = Opens(b, k)
      BY <1>3, <2>2
    <3> QED BY <1>3, <2>2, <3>1, WindowsAre
  <2> QED BY <1>3, <2>1, <2>2
<1> QED BY <1>4, <1>5, <1>6, <1>7 DEF IsWindow

\* The homes are two windows in a row.
LEMMA HomesAre ==
  ASSUME Clocks, now \in Nat, NEW h \in Bssid
  PROVE  /\ Homes(h) \in Seq(Appointment) /\ Len(Homes(h)) = 2
         /\ Homes(h)[1].home /\ Homes(h)[2].home
         /\ \E k \in Nat : /\ Leaves(Homes(h)[1], h, k, now)
                           /\ Leaves(Homes(h)[2], h, k + 1, Homes(h)[1].end)
<1> DEFINE first == NextAppointment(h, now, TRUE)
           second == NextAppointment(h, first.end, TRUE)
<1>1. Homes(h) = <<first, second>>
  BY DEF Homes
<1>2. /\ first \in Appointment /\ first.home
      /\ \E k \in Nat : Leaves(first, h, k, now)
  BY NextAppointmentIs
<1>3. first.end \in Nat
  BY <1>2 DEF Appointment
<1>4. /\ second \in Appointment /\ second.home
      /\ \E k \in Nat : Leaves(second, h, k, first.end)
  BY <1>3, NextAppointmentIs
<1>5. PICK k \in Nat : Leaves(first, h, k, now)
  BY <1>2
<1>6. PICK l \in Nat : Leaves(second, h, l, first.end)
  BY <1>4
<1> HIDE DEF first, second
<1>7. l = k + 1
  <2>1. /\ Duration \in 1 .. Period /\ Period \in Nat \ {0}
    BY WindowAssumption
  <2>2. /\ k + 1 \in Nat /\ Opens(h, k) \in Int /\ Opens(h, l) \in Int
        /\ Opens(h, k + 1) = Opens(h, k) + Period
        /\ l < k => Opens(h, l) + Period <= Opens(h, k)
    BY OpensApart
  <2>3. /\ first.end = Opens(h, k) + Duration
        /\ first.end < second.end /\ second.end = Opens(h, l) + Duration
        /\ k + 1 < l => Opens(h, k + 1) + Duration <= first.end
    BY <1>5, <1>6, <2>2 DEF Leaves
  <2>4. l # k /\ ~(l < k) /\ ~(k + 1 < l)
    BY <2>1, <2>2, <2>3
  <2> QED BY <2>2, <2>4
<1> QED BY <1>1, <1>2, <1>4, <1>5, <1>6, <1>7

-----------------------------------------------------------------------------
(* Merging *)

Interval == [start : Nat, end : Nat, appointments : SUBSET Nat]

Wellformed(s) == s \in Seq(Appointment) /\ \A i \in DOMAIN s : s[i].start < s[i].end

\* What intervals iv that serve some of the appointments s are.
Typed(s, iv) ==
  iv \in Seq(Interval) /\ \A n \in DOMAIN iv : iv[n].appointments \subseteq DOMAIN s
Spanned(s, iv) ==
  \A n \in DOMAIN iv : /\ \E i \in iv[n].appointments : s[i].start = iv[n].start
                       /\ \E i \in iv[n].appointments : s[i].end = iv[n].end
Inside(s, iv) ==
  \A n \in DOMAIN iv : \A i \in iv[n].appointments :
    iv[n].start <= s[i].start /\ s[i].end <= iv[n].end
Once(iv) ==
  \A m, n \in DOMAIN iv : iv[m].appointments \cap iv[n].appointments # {} => m = n
Bridged(s, iv) ==
  \A n \in DOMAIN iv : \A t \in iv[n].start .. iv[n].end - 1 :
    \E i \in iv[n].appointments : s[i].start <= t /\ t < s[i].end + MergeGap
Apart(iv) ==
  \A m, n \in DOMAIN iv : m < n => iv[m].end + MergeGap < iv[n].start
Sorted(s, iv) ==
  \A i \in Unmerged(s, iv) : \A n \in DOMAIN iv : iv[n].start <= s[i].start

Serves(s, iv) ==
  /\ Typed(s, iv) /\ Spanned(s, iv) /\ Inside(s, iv) /\ Once(iv)
  /\ Bridged(s, iv) /\ Apart(iv)

\* The types in the parts of appointments, and of intervals.
LEMMA WellformedIs ==
  ASSUME NEW s, Wellformed(s)
  PROVE  /\ Len(s) \in Nat /\ DOMAIN s = 1 .. Len(s)
         /\ \A i \in DOMAIN s : /\ i \in Nat /\ s[i] \in Appointment /\ s[i].start \in Nat
                                /\ s[i].end \in Nat /\ s[i].start < s[i].end
<1>1. Len(s) \in Nat /\ DOMAIN s = 1 .. Len(s)
  BY LenProperties DEF Wellformed
<1>2. ASSUME NEW i \in DOMAIN s PROVE s[i] \in Appointment
  BY <1>1, ElementOfSeq DEF Wellformed
<1> QED BY <1>1, <1>2 DEF Wellformed, Appointment

LEMMA TypedIs ==
  ASSUME NEW s, NEW iv, Typed(s, iv)
  PROVE  /\ Len(iv) \in Nat /\ DOMAIN iv = 1 .. Len(iv)
         /\ \A n \in DOMAIN iv : /\ n \in Nat /\ iv[n] \in Interval /\ iv[n].start \in Nat
                                 /\ iv[n].end \in Nat
                                 /\ iv[n].appointments \in SUBSET DOMAIN s
<1>1. Len(iv) \in Nat /\ DOMAIN iv = 1 .. Len(iv)
  BY LenProperties DEF Typed
<1>2. ASSUME NEW n \in DOMAIN iv PROVE iv[n] \in Interval
  BY <1>1, ElementOfSeq DEF Typed
<1> QED BY <1>1, <1>2 DEF Typed, Interval

\* The earliest appointment begins no later than any other.
LEMMA EarliestIs ==
  ASSUME NEW s, Wellformed(s), NEW left \in SUBSET DOMAIN s, left # {}
  PROVE  /\ Earliest(s, left) \in left
         /\ \A j \in left : s[Earliest(s, left)].start <= s[j].start
<1>1. \A i \in left : i \in Nat /\ s[i].start \in Nat
  BY WellformedIs
<1> DEFINE starts == {s[i].start : i \in left}
<1>2. PICK least \in starts : \A t \in starts : least <= t
  <2>1. starts \in SUBSET Nat /\ starts # {}
    BY <1>1
  <2> HIDE DEF starts
  <2> QED BY <2>1, LeastOf
<1> DEFINE first == {i \in left : s[i].start = least}
<1>3. PICK i \in first : \A j \in first : i <= j
  <2>1. first \in SUBSET Nat /\ first # {}
    BY <1>1, <1>2
  <2> HIDE DEF first
  <2> QED BY <2>1, LeastOf
<1> DEFINE Leads(e) == \A j \in left \ {e} :
             \/ s[e].start < s[j].start
             \/ s[e].start = s[j].start /\ e < j
<1>4. Leads(i)
  <2>1. ASSUME NEW j \in left \ {i}
        PROVE  s[i].start < s[j].start \/ (s[i].start = s[j].start /\ i < j)
    <3>1. s[j].start \in starts /\ least <= s[j].start /\ s[i].start = least
      BY <1>2, <1>3
    <3>2. j \in first => i <= j /\ i # j
      BY <1>3
    <3> QED BY <1>1, <1>3, <3>1, <3>2
  <2> QED BY <2>1
<1>5. Earliest(s, left) = CHOOSE e \in left : Leads(e)
  BY DEF Earliest
<1> HIDE DEF Leads
<1>6. Earliest(s, left) \in left /\ Leads(Earliest(s, left))
  BY <1>3, <1>4, <1>5
<1> QED BY <1>1, <1>6 DEF Leads

\* A longer sequence, and one with another last element.
LEMMA Extended ==
  ASSUME NEW T, NEW q \in Seq(T), NEW e \in T, NEW r, r = Append(q, e)
  PROVE  /\ r \in Seq(T) /\ Len(r) = Len(q) + 1 /\ r[Len(q) + 1] = e
         /\ \A n \in 1 .. Len(q) : r[n] = q[n]
BY AppendProperties

LEMMA Appended ==
  ASSUME NEW T, NEW q \in Seq(T), NEW e \in T, NEW r, r = Append(q, e)
  PROVE  /\ r \in Seq(T) /\ Len(r) = Len(q) + 1 /\ Len(q) \in Nat /\ r[Len(r)] = e
         /\ \A n \in 1 .. Len(r) - 1 : n \in DOMAIN q /\ r[n] = q[n]
<1>1. /\ r \in Seq(T) /\ Len(r) = Len(q) + 1 /\ r[Len(q) + 1] = e
      /\ \A n \in 1 .. Len(q) : r[n] = q[n]
  BY Extended
<1>2. Len(q) \in Nat /\ DOMAIN q = 1 .. Len(q)
  BY LenProperties
<1>3. 1 .. Len(r) - 1 = 1 .. Len(q)
  BY <1>1, <1>2
<1> QED BY <1>1, <1>2, <1>3

LEMMA Replaced ==
  ASSUME NEW T, NEW q \in Seq(T), Len(q) # 0, NEW e \in T,
         NEW r, r = [q EXCEPT ![Len(q)] = e]
  PROVE  /\ r \in Seq(T) /\ Len(r) = Len(q) /\ Len(q) \in Nat /\ r[Len(r)] = e
         /\ \A n \in 1 .. Len(r) - 1 : n \in DOMAIN q /\ r[n] = q[n]
<1>1. Len(q) \in Nat \ {0} /\ DOMAIN q = 1 .. Len(q)
  BY LenProperties
<1>2. Len(q) \in 1 .. Len(q)
  BY <1>1
<1>3. /\ r \in Seq(T) /\ Len(r) = Len(q)
      /\ \A n \in 1 .. Len(q) : r[n] = IF n = Len(q) THEN e ELSE q[n]
  BY <1>2, ExceptSeq
<1>4. ASSUME NEW n \in 1 .. Len(r) - 1 PROVE n \in DOMAIN q /\ r[n] = q[n]
  <2> DEFINE k == Len(q)
  <2>1. k \in Nat /\ n \in 1 .. k - 1
    BY <1>1, <1>3
  <2> HIDE DEF k
  <2>2. n \in 1 .. k /\ n # k
    BY <2>1
  <2> QED BY <1>1, <1>3, <2>2 DEF k
<1> QED BY <1>1, <1>2, <1>3, <1>4

Item(s, i) == [start |-> s[i].start, end |-> s[i].end, appointments |-> {i}]

\* The last interval has taken e in.
Joined(s, iv, e, jv) ==
  /\ jv[Len(jv)].start = iv[Len(iv)].start
  /\ jv[Len(jv)].end = IF s[e].end > iv[Len(iv)].end THEN s[e].end ELSE iv[Len(iv)].end
  /\ jv[Len(jv)].appointments = iv[Len(iv)].appointments \cup {e}
  /\ s[e].start <= iv[Len(iv)].end + MergeGap

\* What a step of rebuild() changes: the last interval, or a new one after it.
LEMMA MergedIs ==
  ASSUME NEW s, Wellformed(s), NEW iv, Typed(s, iv), NEW i \in DOMAIN s,
         NEW jv, jv = Merged(iv, Item(s, i))
  PROVE  /\ jv \in Seq(Interval) /\ Len(jv) \in {Len(iv), Len(iv) + 1} /\ Len(jv) # 0
         /\ \A n \in 1 .. Len(jv) - 1 : n \in DOMAIN iv /\ jv[n] = iv[n]
         /\ Len(jv) = Len(iv) + 1 =>
              /\ jv[Len(jv)] = Item(s, i)
              /\ Len(iv) # 0 => iv[Len(iv)].end + MergeGap < s[i].start
         /\ Len(jv) = Len(iv) => Joined(s, iv, i, jv)
<1>1. /\ iv \in Seq(Interval) /\ MergeGap \in Nat
      /\ i \in Nat /\ s[i].start \in Nat /\ s[i].end \in Nat
      /\ Len(iv) \in Nat /\ DOMAIN iv = 1 .. Len(iv)
  BY WindowAssumption, WellformedIs, TypedIs DEF Typed
<1> DEFINE item == Item(s, i)
           last == iv[Len(iv)]
           joined == [last EXCEPT !.end = IF item.end > @ THEN item.end ELSE @,
                                  !.appointments = @ \cup item.appointments]
<1>2. /\ item \in Interval /\ item.start = s[i].start /\ item.end = s[i].end
      /\ item.appointments = {i}
  BY <1>1 DEF Interval, Item
<1> HIDE DEF item
<1>3. CASE iv # <<>> /\ item.start - last.end <= MergeGap
  <2>1. Len(iv) \in DOMAIN iv /\ Len(iv) \in Nat \ {0} /\ last \in Interval
    <3>1. Len(iv) # 0
      BY <1>1, <1>3, EmptySeq
    <3> QED BY <1>1, <3>1, TypedIs
  <2>2. last.start \in Nat /\ last.end \in Nat /\ last.appointments \in SUBSET Nat
    BY <2>1 DEF Interval
  <2>3. joined \in Interval
    BY <1>1, <1>2, <2>1, <2>2 DEF Interval
  <2>4. /\ joined.start = last.start
        /\ joined.end = IF s[i].end > last.end THEN s[i].end ELSE last.end
        /\ joined.appointments = last.appointments \cup {i}
    BY <1>2, <2>1 DEF Interval
  <2>5. jv = [iv EXCEPT ![Len(iv)] = joined]
    BY <1>3 DEF Merged, item
  <2>6. s[i].start <= last.end + MergeGap
    BY <1>1, <1>2, <1>3, <2>2
  <2> HIDE DEF joined
  <2>7. /\ jv \in Seq(Interval) /\ Len(jv) = Len(iv) /\ jv[Len(jv)] = joined
        /\ \A n \in 1 .. Len(jv) - 1 : n \in DOMAIN iv /\ jv[n] = iv[n]
    BY <1>1, <2>1, <2>3, <2>5, Replaced
  <2>8. Len(jv) # 0 /\ Len(jv) # Len(iv) + 1
    BY <2>1, <2>7
  <2> QED BY <2>4, <2>6, <2>7, <2>8 DEF Joined
<1>4. CASE ~(iv # <<>> /\ item.start - last.end <= MergeGap)
  <2>1. jv = Append(iv, item)
    BY <1>4 DEF Merged, item
  <2>2. /\ jv \in Seq(Interval) /\ Len(jv) = Len(iv) + 1 /\ jv[Len(jv)] = item
        /\ \A n \in 1 .. Len(jv) - 1 : n \in DOMAIN iv /\ jv[n] = iv[n]
    BY <1>1, <1>2, <2>1, Appended
  <2>3. ASSUME Len(iv) # 0 PROVE last.end + MergeGap < s[i].start
    <3>1. Len(iv) \in DOMAIN iv
      BY <1>1, <2>3
    <3>2. iv # <<>> /\ last.end \in Nat
      BY <2>3, <3>1, TypedIs, EmptySeq
    <3> QED BY <1>1, <1>2, <1>4, <3>2
  <2>4. Len(jv) # 0 /\ Len(jv) # Len(iv)
    <3> DEFINE k == Len(iv)
    <3>1. k \in Nat /\ Len(jv) = k + 1
      BY <1>1, <2>2
    <3> HIDE DEF k
    <3>2. k + 1 # 0 /\ k + 1 # k
      BY <3>1
    <3> QED BY <3>1, <3>2 DEF k
  <2> QED BY <2>2, <2>3, <2>4 DEF item
<1> QED BY <1>3, <1>4

\* What holds of the intervals while appointments are left.
Merging(s, iv) == Serves(s, iv) /\ Sorted(s, iv)

\* An interval of its own for the appointment that is merged.
LEMMA AppendKeeps ==
  ASSUME NEW s, Wellformed(s), NEW iv, Merging(s, iv),
         NEW e \in Unmerged(s, iv), \A j \in Unmerged(s, iv) : s[e].start <= s[j].start,
         NEW jv \in Seq(Interval), Len(jv) = Len(iv) + 1,
         \A n \in 1 .. Len(jv) - 1 : n \in DOMAIN iv /\ jv[n] = iv[n],
         jv[Len(jv)] = Item(s, e),
         Len(iv) # 0 => iv[Len(iv)].end + MergeGap < s[e].start
  PROVE  Merging(s, jv) /\ Unmerged(s, jv) = Unmerged(s, iv) \ {e}
<1> DEFINE k == Len(jv)
<1>1. /\ Len(iv) \in Nat /\ DOMAIN iv = 1 .. Len(iv)
      /\ \A n \in DOMAIN iv : /\ iv[n].start \in Nat /\ iv[n].end \in Nat
                              /\ iv[n].appointments \in SUBSET DOMAIN s
  BY TypedIs DEF Merging, Serves
<1>2. /\ k \in Nat \ {0} /\ DOMAIN jv = 1 .. k /\ DOMAIN iv = 1 .. k - 1
  <2>1. DOMAIN jv = 1 .. k
    BY LenProperties
  <2> DEFINE l == Len(iv)
  <2>2. l \in Nat /\ k = l + 1 /\ DOMAIN iv = 1 .. l
    BY <1>1
  <2> HIDE DEF k, l
  <2>3. k \in Nat \ {0} /\ k - 1 = l
    BY <2>2
  <2> QED BY <2>1, <2>2, <2>3 DEF k
<1>3. /\ e \in DOMAIN s /\ s[e].start \in Nat /\ s[e].end \in Nat /\ s[e].start < s[e].end
      /\ MergeGap \in Nat
  BY WellformedIs, WindowAssumption DEF Unmerged
<1>4. /\ jv[k].start = s[e].start /\ jv[k].end = s[e].end /\ jv[k].appointments = {e}
  BY DEF Item
<1>5. \A n \in DOMAIN jv : n = k \/ (n \in DOMAIN iv /\ n < k /\ jv[n] = iv[n])
  <2>1. \A n \in 1 .. k - 1 : n \in DOMAIN iv /\ jv[n] = iv[n]
    OBVIOUS
  <2> HIDE DEF k
  <2> QED BY <1>2, <2>1
<1>6. ASSUME NEW n \in DOMAIN iv
      PROVE  iv[n].end + MergeGap < s[e].start /\ e \notin iv[n].appointments
  <2>1. e \notin iv[n].appointments /\ iv[n].start <= s[e].start
    BY DEF Merging, Sorted, Unmerged
  <2> DEFINE l == Len(iv)
  <2>2. l \in Nat /\ n \in 1 .. l /\ l \in DOMAIN iv /\ l # 0
    BY <1>1
  <2>3. iv[l].end + MergeGap < s[e].start
    BY <2>2
  <2>4. iv[l].start <= s[e].start
    BY <2>2 DEF Merging, Sorted
  <2> HIDE DEF l
  <2>5. n < l => iv[n].end + MergeGap < iv[l].start
    BY <2>2 DEF Merging, Serves, Apart
  <2>6. n = l \/ n < l
    BY <2>2
  <2>7. /\ iv[n].end \in Nat /\ iv[l].start \in Nat /\ iv[l].end \in Nat
        /\ s[e].start \in Nat /\ MergeGap \in Nat
    BY <1>1, <1>3, <2>2
  <2>8. iv[n].end + MergeGap < s[e].start
    <3>1. CASE n = l
      BY <2>3, <3>1
    <3>2. CASE n < l
      BY <2>4, <2>5, <2>7, <3>2
    <3> QED BY <2>6, <3>1, <3>2
  <2> QED BY <2>1, <2>8
<1> HIDE DEF k
<1>s. /\ Typed(s, iv) /\ Spanned(s, iv) /\ Inside(s, iv) /\ Once(iv)
      /\ Bridged(s, iv) /\ Apart(iv) /\ Sorted(s, iv)
  BY DEF Merging, Serves
<1>7. Typed(s, jv)
  BY <1>1, <1>3, <1>4, <1>5 DEF Typed
<1>8. Spanned(s, jv)
  BY <1>4, <1>5, <1>s DEF Spanned
<1>9. Inside(s, jv)
  BY <1>3, <1>4, <1>5, <1>s DEF Inside
<1>10. Once(jv)
  <2> SUFFICES ASSUME NEW m \in DOMAIN jv, NEW n \in DOMAIN jv,
                      jv[m].appointments \cap jv[n].appointments # {}
               PROVE  m = n
    BY DEF Once
  <2>1. m # k /\ n # k => m = n
    BY <1>5, <1>s DEF Once
  <2>2. m = k /\ n # k => FALSE
    BY <1>4, <1>5, <1>6
  <2>3. n = k /\ m # k => FALSE
    BY <1>4, <1>5, <1>6
  <2> QED BY <2>1, <2>2, <2>3
<1>11. Bridged(s, jv)
  <2> SUFFICES ASSUME NEW n \in DOMAIN jv, NEW t \in jv[n].start .. jv[n].end - 1
               PROVE  \E i \in jv[n].appointments : s[i].start <= t /\ t < s[i].end + MergeGap
    BY DEF Bridged
  <2>1. CASE n = k
    <3>1. s[e].start <= t /\ t < s[e].end + MergeGap
      BY <1>3, <1>4, <2>1
    <3> QED BY <1>4, <2>1, <3>1
  <2>2. CASE n # k
    BY <1>5, <1>s, <2>2 DEF Bridged
  <2> QED BY <2>1, <2>2
<1>12. Apart(jv)
  <2> SUFFICES ASSUME NEW m \in DOMAIN jv, NEW n \in DOMAIN jv, m < n
               PROVE  jv[m].end + MergeGap < jv[n].start
    BY DEF Apart
  <2>1. m # k
    BY <1>2, <1>5
  <2>2. CASE n = k
    BY <1>4, <1>5, <1>6, <2>1, <2>2
  <2>3. CASE n # k
    BY <1>5, <1>s, <2>1, <2>3 DEF Apart
  <2> QED BY <2>2, <2>3
<1>13. Unmerged(s, jv) = Unmerged(s, iv) \ {e}
  <2>1. \A n \in DOMAIN iv : n \in DOMAIN jv /\ n # k /\ jv[n] = iv[n]
    <3>1. \A n \in 1 .. k - 1 : n \in 1 .. k /\ n # k
      BY <1>2
    <3> QED BY <1>2, <1>5, <3>1
  <2>2. k \in DOMAIN jv
    BY <1>2
  <2> QED BY <1>4, <1>5, <2>1, <2>2 DEF Unmerged
<1>14. Sorted(s, jv)
  <2> SUFFICES ASSUME NEW i \in Unmerged(s, jv), NEW n \in DOMAIN jv
               PROVE  jv[n].start <= s[i].start
    BY DEF Sorted
  <2>1. i \in Unmerged(s, iv)
    BY <1>13
  <2> QED BY <1>4, <1>5, <1>s, <2>1 DEF Sorted
<1> QED BY <1>7, <1>8, <1>9, <1>10, <1>11, <1>12, <1>13, <1>14 DEF Merging, Serves

\* The last interval takes the appointment in.
LEMMA JoinKeeps ==
  ASSUME NEW s, Wellformed(s), NEW iv, Merging(s, iv),
         NEW e \in Unmerged(s, iv), \A j \in Unmerged(s, iv) : s[e].start <= s[j].start,
         NEW jv \in Seq(Interval), Len(jv) = Len(iv), Len(jv) # 0,
         \A n \in 1 .. Len(jv) - 1 : n \in DOMAIN iv /\ jv[n] = iv[n],
         Joined(s, iv, e, jv)
  PROVE  Merging(s, jv) /\ Unmerged(s, jv) = Unmerged(s, iv) \ {e}
<1> DEFINE k == Len(jv)
<1>1. /\ \A n \in DOMAIN iv : /\ iv[n].start \in Nat /\ iv[n].end \in Nat
                              /\ iv[n].appointments \in SUBSET DOMAIN s
  BY TypedIs DEF Merging, Serves
<1>2. /\ k \in Nat \ {0} /\ DOMAIN jv = 1 .. k /\ DOMAIN iv = 1 .. k
  <2>1. DOMAIN jv = 1 .. k /\ k \in Nat
    BY LenProperties
  <2>2. DOMAIN iv = 1 .. k
    BY TypedIs DEF Merging, Serves
  <2> QED BY <2>1, <2>2
<1>3. /\ e \in DOMAIN s /\ s[e].start \in Nat /\ s[e].end \in Nat /\ s[e].start < s[e].end
      /\ MergeGap \in Nat
  BY WellformedIs, WindowAssumption DEF Unmerged
<1>4. /\ jv[k].start = iv[k].start
      /\ jv[k].end = IF s[e].end > iv[k].end THEN s[e].end ELSE iv[k].end
      /\ jv[k].appointments = iv[k].appointments \cup {e}
      /\ s[e].start <= iv[k].end + MergeGap
  BY DEF Joined
<1>5. \A n \in DOMAIN jv : n = k \/ (n \in DOMAIN iv /\ n < k /\ jv[n] = iv[n])
  <2>1. \A n \in 1 .. k - 1 : n \in DOMAIN iv /\ jv[n] = iv[n]
    OBVIOUS
  <2> HIDE DEF k
  <2> QED BY <1>2, <2>1
<1> HIDE DEF k
<1>6. k \in DOMAIN iv /\ k \in DOMAIN jv
  BY <1>2
<1>s. /\ Typed(s, iv) /\ Spanned(s, iv) /\ Inside(s, iv) /\ Once(iv)
      /\ Bridged(s, iv) /\ Apart(iv) /\ Sorted(s, iv)
  BY DEF Merging, Serves
<1>e. iv[k].start <= s[e].start /\ \A n \in DOMAIN iv : e \notin iv[n].appointments
  BY <1>6, <1>s DEF Sorted, Unmerged
<1>w. \A n \in DOMAIN iv : \A i \in iv[n].appointments :
        s[i].start \in Nat /\ s[i].end \in Nat /\ s[i].start < s[i].end
  BY <1>1, WellformedIs
<1>7. Typed(s, jv)
  BY <1>1, <1>3, <1>4, <1>5, <1>6 DEF Typed
<1>8. Spanned(s, jv)
  <2>1. PICK i1 \in iv[k].appointments : s[i1].start = iv[k].start
    BY <1>6, <1>s DEF Spanned
  <2>2. PICK i2 \in iv[k].appointments : s[i2].end = iv[k].end
    BY <1>6, <1>s DEF Spanned
  <2>3. \E i \in jv[k].appointments : s[i].start = jv[k].start
    BY <1>4, <2>1
  <2>4. \E i \in jv[k].appointments : s[i].end = jv[k].end
    BY <1>4, <2>2
  <2>5. ASSUME NEW n \in DOMAIN jv
        PROVE  /\ \E i \in jv[n].appointments : s[i].start = jv[n].start
               /\ \E i \in jv[n].appointments : s[i].end = jv[n].end
    <3>1. CASE n = k
      BY <2>3, <2>4, <3>1
    <3>2. CASE n # k
      BY <1>5, <1>s, <3>2 DEF Spanned
    <3> QED BY <3>1, <3>2
  <2> QED BY <2>5 DEF Spanned
<1>9. Inside(s, jv)
  <2> SUFFICES ASSUME NEW n \in DOMAIN jv, NEW i \in jv[n].appointments
               PROVE  jv[n].start <= s[i].start /\ s[i].end <= jv[n].end
    BY DEF Inside
  <2>1. CASE n # k
    BY <1>5, <1>s, <2>1 DEF Inside
  <2>2. CASE n = k
    <3>1. CASE i = e
      BY <1>1, <1>3, <1>4, <1>6, <1>e, <2>2, <3>1
    <3>2. CASE i # e
      <4>1. i \in iv[k].appointments
        BY <1>4, <2>2, <3>2
      <4>2. iv[k].start <= s[i].start /\ s[i].end <= iv[k].end
        BY <1>6, <1>s, <4>1 DEF Inside
      <4> QED BY <1>1, <1>3, <1>4, <1>6, <1>w, <2>2, <4>1, <4>2
    <3> QED BY <3>1, <3>2
  <2> QED BY <2>1, <2>2
<1>10. Once(jv)
  <2> SUFFICES ASSUME NEW m \in DOMAIN jv, NEW n \in DOMAIN jv,
                      jv[m].appointments \cap jv[n].appointments # {}
               PROVE  m = n
    BY DEF Once
  <2>1. ASSUME NEW x \in DOMAIN jv
        PROVE  x \in DOMAIN iv /\ \A i \in jv[x].appointments :
                 i \in iv[x].appointments \/ (i = e /\ x = k)
    BY <1>4, <1>5, <1>6
  <2>2. PICK i \in jv[m].appointments : i \in jv[n].appointments
    OBVIOUS
  <2>3. CASE i = e
    BY <1>e, <2>1, <2>2, <2>3
  <2>4. CASE i # e
    <3>1. i \in iv[m].appointments /\ i \in iv[n].appointments
      BY <2>1, <2>2, <2>4
    <3> QED BY <1>s, <2>1, <3>1 DEF Once
  <2> QED BY <2>3, <2>4
<1>11. Bridged(s, jv)
  <2> SUFFICES ASSUME NEW n \in DOMAIN jv, NEW t \in jv[n].start .. jv[n].end - 1
               PROVE  \E i \in jv[n].appointments : s[i].start <= t /\ t < s[i].end + MergeGap
    BY DEF Bridged
  <2>1. CASE n # k
    BY <1>5, <1>s, <2>1 DEF Bridged
  <2>2. CASE n = k
    <3>0. t \in Nat
      BY <1>1, <1>3, <1>4, <1>6, <2>2
    <3>1. CASE t < iv[k].end
      <4>1. t \in iv[k].start .. iv[k].end - 1
        BY <1>1, <1>4, <1>6, <2>2, <3>0, <3>1
      <4>2. \E i \in iv[k].appointments : s[i].start <= t /\ t < s[i].end + MergeGap
        BY <1>6, <1>s, <4>1 DEF Bridged
      <4> QED BY <1>4, <2>2, <4>2
    <3>2. CASE iv[k].end <= t /\ s[e].start <= t
      <4>1. t < s[e].end + MergeGap
        BY <1>1, <1>3, <1>4, <1>6, <2>2, <3>0, <3>2
      <4> QED BY <1>4, <2>2, <3>2, <4>1
    <3>3. CASE iv[k].end <= t /\ t < s[e].start
      <4>1. PICK j \in iv[k].appointments : s[j].end = iv[k].end
        BY <1>6, <1>s DEF Spanned
      <4>2. s[j].start <= t /\ t < s[j].end + MergeGap
        BY <1>1, <1>3, <1>4, <1>6, <1>w, <3>0, <3>3, <4>1
      <4> QED BY <1>4, <2>2, <4>1, <4>2
    <3> QED BY <1>1, <1>3, <1>6, <3>0, <3>1, <3>2, <3>3
  <2> QED BY <2>1, <2>2
<1>12. Apart(jv)
  <2> SUFFICES ASSUME NEW m \in DOMAIN jv, NEW n \in DOMAIN jv, m < n
               PROVE  jv[m].end + MergeGap < jv[n].start
    BY DEF Apart
  <2>1. m # k
    BY <1>2, <1>5
  <2>2. /\ m \in DOMAIN iv /\ n \in DOMAIN iv /\ jv[m] = iv[m] /\ jv[n].start = iv[n].start
    BY <1>4, <1>5, <1>6, <2>1
  <2> QED BY <1>s, <2>2 DEF Apart
<1>13. Unmerged(s, jv) = Unmerged(s, iv) \ {e}
  <2>1. ASSUME NEW i
        PROVE  (\A n \in DOMAIN jv : i \notin jv[n].appointments)
                 <=> (\A n \in DOMAIN iv : i \notin iv[n].appointments) /\ i # e
    <3>1. \A n \in DOMAIN iv : n \in DOMAIN jv /\ (n = k \/ jv[n] = iv[n])
      BY <1>2, <1>5
    <3> QED BY <1>4, <1>5, <1>6, <3>1
  <2> QED BY <2>1 DEF Unmerged
<1>14. Sorted(s, jv)
  <2> SUFFICES ASSUME NEW i \in Unmerged(s, jv), NEW n \in DOMAIN jv
               PROVE  jv[n].start <= s[i].start
    BY DEF Sorted
  <2>1. i \in Unmerged(s, iv)
    BY <1>13
  <2> QED BY <1>4, <1>5, <1>6, <1>s, <2>1 DEF Sorted
<1> QED BY <1>7, <1>8, <1>9, <1>10, <1>11, <1>12, <1>13, <1>14 DEF Merging, Serves

\* A step of rebuild() merges one appointment more.
LEMMA MergeKeeps ==
  ASSUME NEW s, Wellformed(s), NEW iv, Merging(s, iv), Unmerged(s, iv) # {}
  PROVE  /\ Merging(s, MergeNext(s, iv))
         /\ \E e \in Unmerged(s, iv) : Unmerged(s, MergeNext(s, iv)) = Unmerged(s, iv) \ {e}
<1> DEFINE left == Unmerged(s, iv)
           e == Earliest(s, left)
           jv == MergeNext(s, iv)
<1>1. left \in SUBSET DOMAIN s
  BY DEF Unmerged
<1>2. e \in left /\ \A j \in left : s[e].start <= s[j].start
  BY <1>1, EarliestIs
<1>3. jv = Merged(iv, Item(s, e))
  BY DEF MergeNext, Item
<1>4. Typed(s, iv) /\ e \in DOMAIN s
  BY <1>1, <1>2 DEF Merging, Serves
<1> HIDE DEF jv, e
<1> DEFINE item == Item(s, e)
<1>5. /\ jv \in Seq(Interval) /\ Len(jv) \in {Len(iv), Len(iv) + 1} /\ Len(jv) # 0
      /\ \A n \in 1 .. Len(jv) - 1 : n \in DOMAIN iv /\ jv[n] = iv[n]
      /\ Len(jv) = Len(iv) + 1 =>
           /\ jv[Len(jv)] = item
           /\ Len(iv) # 0 => iv[Len(iv)].end + MergeGap < s[e].start
      /\ Len(jv) = Len(iv) => Joined(s, iv, e, jv)
  BY <1>3, <1>4, MergedIs
<1>6. Merging(s, jv) /\ Unmerged(s, jv) = left \ {e}
  <2>1. CASE Len(jv) = Len(iv) + 1
    BY <1>2, <1>5, <2>1, AppendKeeps
  <2>2. CASE Len(jv) = Len(iv)
    BY <1>2, <1>5, <2>2, JoinKeeps
  <2> QED BY <1>5, <2>1, <2>2
<1> QED BY <1>2, <1>6 DEF jv

\* rebuild() leaves nothing unmerged.
LEMMA IntervalsServe ==
  ASSUME NEW s, Wellformed(s)
  PROVE  Serves(s, Intervals(s)) /\ Unmerged(s, Intervals(s)) = {}
<1> DEFINE k == Len(s)
<1>1. k \in Nat /\ DOMAIN s = 1 .. k
  BY WellformedIs
<1>2. PICK merged : /\ merged[0] = <<>> /\ merged[k] = Intervals(s)
                    /\ \A i \in 1 .. k : merged[i] = MergeNext(s, merged[i - 1])
  BY <1>1, MergeByMerge
<1> HIDE DEF k
<1> DEFINE left(n) == Unmerged(s, merged[n])
           Good(n) == /\ Merging(s, merged[n]) /\ IsFiniteSet(left(n))
                      /\ Cardinality(left(n)) = k - n
           S == {n \in Nat : n <= k => Good(n)}
<1>3. 0 \in S
  <2>1. <<>> \in Seq(Interval) /\ DOMAIN <<>> = {}
    BY EmptySeq
  <2>2. Merging(s, <<>>)
    BY <2>1 DEF Merging, Serves, Typed, Spanned, Inside, Once, Bridged, Apart, Sorted
  <2>3. left(0) = 1 .. k
    BY <1>1, <1>2, <2>1 DEF Unmerged
  <2>4. IsFiniteSet(1 .. k) /\ Cardinality(1 .. k) = k
    <3>1. Cardinality(1 .. k) = IF 1 > k THEN 0 ELSE k - 1 + 1
      BY <1>1, FS_Interval
    <3> QED BY <1>1, <3>1, FS_Interval
  <2>5. Good(0)
    BY <1>1, <1>2, <2>2, <2>3, <2>4
  <2> HIDE DEF Good
  <2> QED BY <2>5
<1>4. ASSUME NEW n \in S PROVE n + 1 \in S
  <2> SUFFICES ASSUME n + 1 <= k PROVE Good(n + 1)
    OBVIOUS
  <2>1. n \in Nat /\ Good(n) /\ n + 1 \in 1 .. k /\ (n + 1) - 1 = n
    BY <1>1
  <2>2. merged[n + 1] = MergeNext(s, merged[n])
    BY <1>2, <2>1
  <2>3. left(n) # {}
    <3>1. Cardinality(left(n)) # 0
      BY <1>1, <2>1
    <3> QED BY <3>1, FS_EmptySet
  <2>4. PICK e \in left(n) : left(n + 1) = left(n) \ {e}
    BY <2>1, <2>2, <2>3, MergeKeeps
  <2>5. Merging(s, merged[n + 1])
    BY <2>1, <2>2, <2>3, MergeKeeps
  <2> HIDE DEF left
  <2>6. /\ IsFiniteSet(left(n) \ {e})
        /\ Cardinality(left(n) \ {e}) = Cardinality(left(n)) - 1
    BY <2>1, FS_RemoveElement
  <2>7. Cardinality(left(n + 1)) = k - (n + 1)
    <3>1. Cardinality(left(n)) = k - n
      BY <2>1
    <3>2. (k - n) - 1 = k - (n + 1)
      BY <1>1, <2>1
    <3> QED BY <2>4, <2>6, <3>1, <3>2
  <2> QED BY <2>4, <2>5, <2>6, <2>7
<1> HIDE DEF S
<1>5. S = Nat
  <2>1. S \in SUBSET Nat
    BY DEF S
  <2> QED BY <1>3, <1>4, <2>1, Induction
<1>6. Good(k)
  BY <1>1, <1>5 DEF S
<1>7. left(k) = {}
  <2>1. Cardinality(left(k)) = 0
    BY <1>1, <1>6
  <2> HIDE DEF left
  <2> QED BY <1>6, <2>1, FS_EmptySet
<1> QED BY <1>2, <1>6, <1>7 DEF Merging

\* What the property says of them, but for the arithmetic of it.
LEMMA EachServed ==
  ASSUME NEW s, Wellformed(s), NEW i \in DOMAIN s
  PROVE  \E n \in DOMAIN Intervals(s) :
           /\ Intervals(s)[n].start <= s[i].start /\ s[i].end <= Intervals(s)[n].end
           /\ \A m \in DOMAIN Intervals(s) :
                i \in Intervals(s)[m].appointments <=> m = n
<1> DEFINE iv == Intervals(s)
<1>1. Serves(s, iv) /\ Unmerged(s, iv) = {}
  BY IntervalsServe
<1> HIDE DEF iv
<1>2. PICK n \in DOMAIN iv : i \in iv[n].appointments
  BY <1>1 DEF Unmerged
<1>3. iv[n].start <= s[i].start /\ s[i].end <= iv[n].end
  BY <1>1, <1>2 DEF Serves, Inside
<1>4. ASSUME NEW m \in DOMAIN iv, i \in iv[m].appointments PROVE m = n
  BY <1>1, <1>2, <1>4 DEF Serves, Once
<1> QED BY <1>2, <1>3, <1>4 DEF iv

\* rebuild() in the words of the property.
Served(s, iv) ==
  /\ \A i \in DOMAIN s :
       \E n \in DOMAIN iv :
         /\ Span(s[i]) \subseteq Span(iv[n])
         /\ \A m \in DOMAIN iv : i \in iv[m].appointments <=> m = n
  /\ \A n \in DOMAIN iv :
       \A t \in Span(iv[n]) :
         \E i \in iv[n].appointments : Span(s[i]) \cap t - MergeGap .. t # {}
  /\ \A m, n \in DOMAIN iv : m < n => iv[n].start - iv[m].end > MergeGap

\* For any non-empty appointments, in any order, rebuild() leaves each of them
\* in the one interval that serves it, bridges no gap longer than MergeGap, and
\* leaves no two intervals closer than that.
THEOREM RebuildServes ==
  ASSUME NEW s, Wellformed(s) PROVE Served(s, Intervals(s))
<1> DEFINE iv == Intervals(s)
<1>1. Serves(s, iv) /\ Unmerged(s, iv) = {}
  BY IntervalsServe
<1>2. \A i \in DOMAIN s : \E n \in DOMAIN iv :
           /\ iv[n].start <= s[i].start /\ s[i].end <= iv[n].end
           /\ \A m \in DOMAIN iv : i \in iv[m].appointments <=> m = n
  BY EachServed
<1> HIDE DEF iv
<1>3. /\ MergeGap \in Nat
      /\ \A n \in DOMAIN iv : /\ iv[n].start \in Nat /\ iv[n].end \in Nat
                              /\ iv[n].appointments \in SUBSET DOMAIN s
  BY <1>1, TypedIs, WindowAssumption DEF Serves
<1>4. ASSUME NEW i \in DOMAIN s
      PROVE  \E n \in DOMAIN iv :
               /\ Span(s[i]) \subseteq Span(iv[n])
               /\ \A m \in DOMAIN iv : i \in iv[m].appointments <=> m = n
  <2>1. PICK n \in DOMAIN iv :
           /\ iv[n].start <= s[i].start /\ s[i].end <= iv[n].end
           /\ \A m \in DOMAIN iv : i \in iv[m].appointments <=> m = n
    BY <1>2
  <2>2. Span(s[i]) \subseteq Span(iv[n])
    BY <1>3, <2>1, WellformedIs DEF Span
  <2> QED BY <2>1, <2>2
<1>5. ASSUME NEW n \in DOMAIN iv, NEW t \in Span(iv[n])
      PROVE  \E i \in iv[n].appointments : Span(s[i]) \cap t - MergeGap .. t # {}
  <2>1. t \in Int /\ t \in iv[n].start .. iv[n].end - 1
    BY <1>3 DEF Span
  <2>2. PICK i \in iv[n].appointments : s[i].start <= t /\ t < s[i].end + MergeGap
    BY <1>1, <2>1 DEF Serves, Bridged
  <2>3. s[i].start \in Nat /\ s[i].end \in Nat /\ s[i].start < s[i].end
    BY <1>3, WellformedIs
  <2> DEFINE u == IF t < s[i].end THEN t ELSE s[i].end - 1
  <2>4. u \in s[i].start .. s[i].end - 1 /\ u \in t - MergeGap .. t
    BY <1>3, <2>1, <2>2, <2>3
  <2> HIDE DEF u
  <2>5. u \in Span(s[i]) \cap t - MergeGap .. t
    BY <2>4 DEF Span
  <2> QED BY <2>5
<1>6. ASSUME NEW m \in DOMAIN iv, NEW n \in DOMAIN iv, m < n
      PROVE  iv[n].start - iv[m].end > MergeGap
  <2>1. iv[m].end + MergeGap < iv[n].start
    BY <1>1, <1>6 DEF Serves, Apart
  <2> QED BY <1>3, <2>1
<1> QED BY <1>4, <1>5, <1>6 DEF Served, iv

-----------------------------------------------------------------------------
(* The time awake *)

Awake(iv) == UNION {Span(iv[n]) : n \in DOMAIN iv}

\* awakeUsec() is the time awake, since the intervals are apart.
LEMMA AwakeTimeIs ==
  ASSUME NEW s, Wellformed(s), NEW iv, Serves(s, iv)
  PROVE  IsFiniteSet(Awake(iv)) /\ Cardinality(Awake(iv)) = AwakeTime(iv)
<1> DEFINE k == Len(iv)
<1>1. /\ k \in Nat /\ DOMAIN iv = 1 .. k /\ MergeGap \in Nat
      /\ \A n \in DOMAIN iv : iv[n].start \in Nat /\ iv[n].end \in Nat
  BY TypedIs, WindowAssumption DEF Serves
<1>2. ASSUME NEW n \in DOMAIN iv PROVE iv[n].start < iv[n].end
  <2>1. PICK i \in iv[n].appointments : s[i].start = iv[n].start
    BY DEF Serves, Spanned
  <2>2. s[i].end <= iv[n].end
    BY <2>1 DEF Serves, Inside
  <2>3. i \in DOMAIN s
    BY TypedIs DEF Serves
  <2> QED BY <1>1, <2>1, <2>2, <2>3, WellformedIs
<1>3. \A m, n \in DOMAIN iv : m < n => iv[m].end <= iv[n].start
  <2> SUFFICES ASSUME NEW m \in DOMAIN iv, NEW n \in DOMAIN iv, m < n
               PROVE  iv[m].end <= iv[n].start
    OBVIOUS
  <2>1. iv[m].end + MergeGap < iv[n].start
    BY DEF Serves, Apart
  <2> QED BY <1>1, <2>1
<1>4. PICK total : /\ total[0] = 0 /\ total[k] = AwakeTime(iv)
                   /\ \A i \in 1 .. k : total[i] = total[i - 1] + (iv[i].end - iv[i].start)
  BY <1>1, SumBySum
<1> HIDE DEF k
<1> DEFINE U(n) == UNION {Span(iv[m]) : m \in 1 .. n}
           Good(n) == IsFiniteSet(U(n)) /\ Cardinality(U(n)) = total[n] /\ total[n] \in Int
           S == {n \in Nat : n <= k => Good(n)}
<1>5. 0 \in S
  <2>1. U(0) = {}
    OBVIOUS
  <2> HIDE DEF U
  <2>2. Good(0)
    BY <1>4, <2>1, FS_EmptySet
  <2> HIDE DEF Good
  <2> QED BY <2>2
<1>6. ASSUME NEW n \in S PROVE n + 1 \in S
  <2> SUFFICES ASSUME n + 1 <= k PROVE Good(n + 1)
    OBVIOUS
  <2>1. n \in Nat /\ Good(n) /\ n + 1 \in 1 .. k /\ (n + 1) - 1 = n
    BY <1>1
  <2> DEFINE new == iv[n + 1]
  <2>2. n + 1 \in DOMAIN iv /\ new.start \in Nat /\ new.end \in Nat /\ new.start < new.end
    BY <1>1, <1>2, <2>1
  <2>3. total[n + 1] = total[n] + (new.end - new.start)
    BY <1>4, <2>1
  <2> HIDE DEF new
  <2>4. U(n + 1) = U(n) \cup Span(iv[n + 1])
    <3>1. 1 .. n + 1 = (1 .. n) \cup {n + 1}
      BY <2>1
    <3> QED BY <3>1
  <2>5. IsFiniteSet(Span(new)) /\ Cardinality(Span(new)) = new.end - new.start
    <3>1. new.end - 1 \in Int /\ ~(new.start > new.end - 1)
          /\ (new.end - 1) - new.start + 1 = new.end - new.start
      BY <2>2
    <3>2. IsFiniteSet(new.start .. new.end - 1)
          /\ Cardinality(new.start .. new.end - 1) = (new.end - 1) - new.start + 1
      <4> DEFINE p == new.start
                 q == new.end - 1
      <4>1. p \in Int /\ q \in Int /\ ~(p > q)
        BY <2>2, <3>1
      <4> HIDE DEF p, q
      <4>2. IsFiniteSet(p .. q) /\ Cardinality(p .. q) = q - p + 1
        BY <4>1, FS_Interval
      <4> QED BY <4>2 DEF p, q
    <3> QED BY <3>1, <3>2 DEF Span
  <2>6. U(n) \cap Span(new) = {}
    <3> SUFFICES ASSUME NEW m \in 1 .. n, NEW t \in Span(iv[m]), t \in Span(new)
                 PROVE  FALSE
      OBVIOUS
    <3>1. m \in DOMAIN iv /\ m < n + 1
      BY <1>1, <2>1
    <3>2. iv[m].end <= iv[n + 1].start /\ iv[m].end \in Nat /\ iv[m].start \in Nat
      BY <1>1, <1>3, <2>2, <3>1
    <3> QED BY <2>2, <3>2 DEF Span, new
  <2> HIDE DEF U
  <2>7. /\ IsFiniteSet(U(n) \cup Span(new))
        /\ Cardinality(U(n) \cup Span(new)) =
             Cardinality(U(n)) + Cardinality(Span(new)) - Cardinality(U(n) \cap Span(new))
    BY <2>1, <2>5, FS_Union
  <2>8. Cardinality(U(n) \cap Span(new)) = 0
    BY <2>6, FS_EmptySet
  <2>9. Cardinality(U(n + 1)) = total[n + 1] /\ total[n + 1] \in Int
    <3>1. Cardinality(U(n)) = total[n] /\ total[n] \in Int
      BY <2>1
    <3>2. new.end - new.start \in Int
      BY <2>2
    <3>3. U(n + 1) = U(n) \cup Span(new)
      BY <2>4 DEF new
    <3> DEFINE d == new.end - new.start
    <3>4. Cardinality(U(n + 1)) = total[n] + d - 0
      BY <2>5, <2>7, <2>8, <3>1, <3>3
    <3>5. total[n + 1] = total[n] + d /\ d \in Int
      BY <2>3, <3>2
    <3> HIDE DEF d
    <3> QED BY <3>1, <3>4, <3>5
  <2>10. U(n + 1) = U(n) \cup Span(new)
    BY <2>4 DEF new
  <2> QED BY <2>7, <2>9, <2>10
<1> HIDE DEF S
<1>7. S = Nat
  <2>1. S \in SUBSET Nat
    BY DEF S
  <2> QED BY <1>5, <1>6, <2>1, Induction
<1>8. Good(k)
  <2>1. k \in {n \in Nat : n <= k => Good(n)} /\ k <= k
    <3>1. k \in S /\ k <= k
      BY <1>1, <1>7
    <3> HIDE DEF Good
    <3> QED BY <3>1 DEF S
  <2> HIDE DEF Good
  <2> QED BY <2>1
<1>9. U(k) = Awake(iv)
  BY <1>1 DEF Awake
<1> HIDE DEF U
<1> QED BY <1>4, <1>8, <1>9

\* Planning more never takes from the time awake for two homes.
LEMMA AwakeGrows ==
  ASSUME NEW homes, Wellformed(homes), Len(homes) = 2, homes[1].end <= homes[2].start,
         NEW s, Wellformed(s), Len(s) >= 2, s[1] = homes[1], s[2] = homes[2]
  PROVE  Awake(Intervals(homes)) \subseteq Awake(Intervals(s))
<1> DEFINE hv == Intervals(homes)
           iv == Intervals(s)
           first == homes[1]
           second == homes[2]
<1>1. Serves(homes, hv) /\ Serves(s, iv)
  BY IntervalsServe
<1>2. 1 \in DOMAIN s /\ 2 \in DOMAIN s /\ DOMAIN homes = {1, 2} /\ MergeGap \in Nat
  BY WellformedIs, WindowAssumption
<1>3. \A i \in {1, 2} : \E n \in DOMAIN iv :
           iv[n].start <= homes[i].start /\ homes[i].end <= iv[n].end
  BY <1>2, EachServed
<1> HIDE DEF hv, iv
<1>4. /\ \A n \in DOMAIN iv : iv[n].start \in Nat /\ iv[n].end \in Nat
      /\ \A n \in DOMAIN hv : /\ hv[n].start \in Nat /\ hv[n].end \in Nat
                              /\ hv[n].appointments \subseteq {1, 2}
  BY <1>1, <1>2, TypedIs DEF Serves
<1>5. /\ first.start \in Nat /\ first.end \in Nat /\ first.start < first.end
      /\ second.start \in Nat /\ second.end \in Nat /\ second.start < second.end
      /\ first.end <= second.start
  BY <1>2, WellformedIs
<1> HIDE DEF first, second
<1>6. ASSUME NEW n \in DOMAIN hv, NEW t \in Span(hv[n]) PROVE t \in Awake(iv)
  <2>1. t \in Nat /\ t \in hv[n].start .. hv[n].end - 1
    BY <1>4 DEF Span
  <2>2. ASSUME NEW a \in DOMAIN iv, iv[a].start <= t, t < iv[a].end PROVE t \in Awake(iv)
    <3>1. t \in Span(iv[a])
      BY <1>4, <2>1, <2>2 DEF Span
    <3> QED BY <3>1 DEF Awake
  <2>3. PICK a \in DOMAIN iv : iv[a].start <= first.start /\ first.end <= iv[a].end
    BY <1>3 DEF first
  <2>4. PICK b \in DOMAIN iv : iv[b].start <= second.start /\ second.end <= iv[b].end
    BY <1>3 DEF second
  <2>t. /\ t \in Nat /\ MergeGap \in Nat
        /\ iv[a].start \in Nat /\ iv[a].end \in Nat /\ iv[b].start \in Nat /\ iv[b].end \in Nat
    BY <1>2, <1>4, <2>1
  <2>5. CASE first.start <= t /\ t < first.end
    <3>1. iv[a].start <= t /\ t < iv[a].end
      BY <1>5, <2>3, <2>5, <2>t
    <3> QED BY <2>2, <3>1
  <2>6. CASE second.start <= t /\ t < second.end
    <3>1. iv[b].start <= t /\ t < iv[b].end
      BY <1>5, <2>4, <2>6, <2>t
    <3> QED BY <2>2, <3>1
  <2>7. CASE ~(first.start <= t /\ t < first.end) /\ ~(second.start <= t /\ t < second.end)
    <3>1. PICK i \in hv[n].appointments : homes[i].start <= t /\ t < homes[i].end + MergeGap
      BY <1>1, <2>1 DEF Serves, Bridged
    <3>2. PICK j \in hv[n].appointments : homes[j].end = hv[n].end
      BY <1>1 DEF Serves, Spanned
    <3>3. t < homes[j].end
      BY <1>4, <2>1, <3>2
    <3>4. i \in {1, 2} /\ j \in {1, 2}
      BY <1>4
    <3>5. homes[1] = first /\ homes[2] = second
      BY DEF first, second
    <3>6. i = 1 /\ j = 2
      BY <1>5, <2>1, <2>7, <3>1, <3>3, <3>4, <3>5
    <3>7. first.end <= t /\ t < second.start
      BY <1>5, <2>1, <2>7, <3>1, <3>3, <3>5, <3>6
    <3>8. second.start - 1 \in hv[n].start .. hv[n].end - 1
      BY <1>4, <1>5, <2>1, <3>2, <3>5, <3>6, <3>7
    <3>9. PICK l \in hv[n].appointments :
            homes[l].start <= second.start - 1 /\ second.start - 1 < homes[l].end + MergeGap
      BY <1>1, <3>8 DEF Serves, Bridged
    <3>10. l = 1
      BY <1>4, <1>5, <3>5, <3>9
    <3>11. second.start <= first.end + MergeGap
      BY <1>2, <1>5, <3>5, <3>9, <3>10
    <3>12. a < b => iv[a].end + MergeGap < iv[b].start
      BY <1>1 DEF Serves, Apart
    <3>13. b < a => iv[b].end + MergeGap < iv[a].start
      BY <1>1 DEF Serves, Apart
    <3>14. a \in Nat /\ b \in Nat
      BY <1>1, TypedIs DEF Serves
    <3>15. a = b
      <4>1. ~(a < b)
        <5> SUFFICES ASSUME a < b PROVE FALSE
          OBVIOUS
        <5>1. iv[a].end + MergeGap < iv[b].start
          BY <3>12
        <5>2. iv[b].start <= second.start /\ first.end <= iv[a].end
          BY <2>3, <2>4
        <5>3. first.end \in Nat /\ second.start \in Nat
          BY <1>5
        <5> QED BY <2>t, <3>11, <5>1, <5>2, <5>3
      <4>2. ~(b < a)
        <5> SUFFICES ASSUME b < a PROVE FALSE
          OBVIOUS
        <5>1. iv[b].end + MergeGap < iv[a].start
          BY <3>13
        <5>2. iv[a].start < iv[b].end
          <6>1. first.start < second.end /\ first.start \in Nat /\ second.end \in Nat
            BY <1>5
          <6>2. iv[a].start <= first.start /\ second.end <= iv[b].end
            BY <2>3, <2>4
          <6> QED BY <2>t, <6>1, <6>2
        <5> QED BY <2>t, <5>1, <5>2
      <4> QED BY <3>14, <4>1, <4>2
    <3>16. iv[a].start <= t /\ t < iv[a].end
      <4>1. iv[a].start <= first.start /\ second.end <= iv[a].end
        BY <2>3, <2>4, <3>15
      <4>2. first.start <= t /\ first.start \in Nat
        BY <1>5, <2>t, <3>7
      <4>3. t < second.end /\ second.end \in Nat
        BY <1>5, <2>t, <3>7
      <4> QED BY <2>t, <4>1, <4>2, <4>3
    <3> QED BY <2>2, <3>16
  <2> QED BY <2>5, <2>6, <2>7
<1>7. Awake(hv) \subseteq Awake(iv)
  BY <1>6 DEF Awake
<1> QED BY <1>7 DEF hv, iv

\* So the difference is what addScout() has held against the budget.
LEMMA AwakeMore ==
  ASSUME NEW homes, Wellformed(homes), Len(homes) = 2, homes[1].end <= homes[2].start,
         NEW s, Wellformed(s), Len(s) >= 2, s[1] = homes[1], s[2] = homes[2]
  PROVE  Cardinality(Awake(Intervals(s)) \ Awake(Intervals(homes)))
           = AwakeTime(Intervals(s)) - AwakeTime(Intervals(homes))
<1> DEFINE A == Awake(Intervals(s))
           B == Awake(Intervals(homes))
<1>1. IsFiniteSet(A) /\ Cardinality(A) = AwakeTime(Intervals(s))
  BY IntervalsServe, AwakeTimeIs
<1>2. IsFiniteSet(B) /\ Cardinality(B) = AwakeTime(Intervals(homes))
  BY IntervalsServe, AwakeTimeIs
<1>3. B \subseteq A
  BY AwakeGrows
<1> HIDE DEF A, B
<1>4. Cardinality(A \ B) = Cardinality(A) - Cardinality(A \cap B) /\ A \cap B = B
  BY <1>1, <1>3, FS_Difference
<1> QED BY <1>1, <1>2, <1>4 DEF A, B

-----------------------------------------------------------------------------
(* Plans *)

\* Appointments as they are made at time t for home h: two windows of it in a
\* row, and for each scout its first window.
Made(s, h, t) ==
  /\ h \in Bssid /\ s \in Seq(Appointment) /\ Len(s) >= 2
  /\ s[1].home /\ s[2].home
  /\ \E k \in Nat : Leaves(s[1], h, k, t) /\ Leaves(s[2], h, k + 1, s[1].end)
  /\ \A i \in 3 .. Len(s) : ~s[i].home /\ \E k \in Nat : Leaves(s[i], s[i].bssid, k, t)

MadeFrom(s, h) == Made(s, h, now) /\ s[1] = Homes(h)[1] /\ s[2] = Homes(h)[2]

\* addScout() refuses the scout, or puts it last.
LEMMA ScoutAdded ==
  ASSUME Clocks, now \in Nat, NEW h \in Bssid, NEW s, MadeFrom(s, h),
         NEW b \in Bssid, NEW awake, NEW budget
  PROVE  MadeFrom(AddScout(s, NextAppointment(b, now, FALSE), awake, budget), h)
<1> DEFINE a == NextAppointment(b, now, FALSE)
           r == AddScout(s, a, awake, budget)
<1>1. a \in Appointment /\ ~a.home /\ \E k \in Nat : Leaves(a, b, k, now)
  BY NextAppointmentIs
<1>2. a.bssid = b
  BY <1>1 DEF Leaves
<1>3. r = s \/ r = Append(s, a)
  BY DEF AddScout
<1> HIDE DEF a, r
<1>m. Made(s, h, now) /\ s[1] = Homes(h)[1] /\ s[2] = Homes(h)[2]
  BY DEF MadeFrom
<1>4. CASE r = Append(s, a)
  <2> DEFINE l == Len(s)
  <2>0. s \in Seq(Appointment) /\ l >= 2
    BY <1>m DEF Made
  <2>1. /\ r \in Seq(Appointment) /\ Len(r) = l + 1 /\ r[l + 1] = a
        /\ \A n \in 1 .. l : r[n] = s[n]
    <3>1. a \in Appointment
      BY <1>1
    <3>2. s \in Seq(Appointment)
      BY <2>0
    <3> QED BY <1>4, <3>1, <3>2, Extended
  <2>2. l \in Nat
    BY <2>0, LenProperties
  <2>3. \A i \in 3 .. l : ~s[i].home /\ \E k \in Nat : Leaves(s[i], s[i].bssid, k, now)
    BY <1>m DEF Made
  <2> HIDE DEF l
  <2>4. 1 \in 1 .. l /\ 2 \in 1 .. l /\ l + 1 >= 2 /\ 3 .. l + 1 = (3 .. l) \cup {l + 1}
    BY <2>0, <2>2
  <2>5. r[1] = s[1] /\ r[2] = s[2] /\ Len(r) >= 2
    BY <2>1, <2>4
  <2>6. ASSUME NEW i \in 3 .. Len(r)
        PROVE  ~r[i].home /\ \E k \in Nat : Leaves(r[i], r[i].bssid, k, now)
    <3>1. i = l + 1 \/ (i \in 3 .. l /\ i \in 1 .. l)
      <4>1. i \in 3 .. l + 1
        BY <2>1
      <4>2. 3 .. l \subseteq 1 .. l
        BY <2>2
      <4> QED BY <2>4, <4>1, <4>2
    <3>2. CASE i = l + 1
      <4>1. r[i] = a
        BY <2>1, <3>2
      <4> QED BY <1>1, <1>2, <4>1
    <3>3. CASE i \in 3 .. l /\ i \in 1 .. l
      <4>1. r[i] = s[i]
        BY <2>1, <3>3
      <4> QED BY <2>3, <3>3, <4>1
    <3> QED BY <3>1, <3>2, <3>3
  <2>7. Made(r, h, now)
    BY <1>m, <2>1, <2>5, <2>6 DEF Made
  <2>8. MadeFrom(r, h)
    BY <1>m, <2>5, <2>7 DEF MadeFrom
  <2> QED BY <2>8 DEF r, a
<1> QED BY <1>3, <1>4 DEF r, a

\* Plans are Made for the time at which makeExecutionPlan() runs.
LEMMA HomesMade ==
  ASSUME Clocks, now \in Nat, NEW h \in Bssid PROVE Made(Homes(h), h, now)
<1>1. \A i \in 3 .. Len(Homes(h)) : FALSE
  <2>1. Len(Homes(h)) = 2
    BY HomesAre
  <2> QED BY <2>1
<1>2. Len(Homes(h)) >= 2
  <2>1. Len(Homes(h)) = 2
    BY HomesAre
  <2> QED BY <2>1
<1> QED BY <1>1, <1>2, HomesAre DEF Made

LEMMA AppointmentsMade ==
  ASSUME Clocks, now \in Nat, NEW h \in Bssid, NEW k \in Nat, NEW scouts \in [1 .. k -> Bssid],
         NEW budget
  PROVE  MadeFrom(Appointments(h, scouts, budget), h)
<1>1. Len(scouts) = k
  OBVIOUS
<1>p. \E planned : ByScout(planned, h, scouts, budget)
  BY <1>1, ScoutByScout
<1>2. PICK planned :
           /\ planned[0] = Homes(h) /\ planned[k] = Appointments(h, scouts, budget)
           /\ \A i \in 1 .. k :
                planned[i] = AddScout(planned[i - 1], NextAppointment(scouts[i], now, FALSE),
                                      AwakeTime(Intervals(Homes(h))), budget)
  <2> QED BY <1>1, <1>p DEF ByScout
<1> DEFINE S == {n \in Nat : n <= k => MadeFrom(planned[n], h)}
<1>3. 0 \in S
  BY <1>2, HomesMade DEF MadeFrom
<1>4. ASSUME NEW n \in S PROVE n + 1 \in S
  <2> SUFFICES ASSUME n + 1 <= k PROVE MadeFrom(planned[n + 1], h)
    OBVIOUS
  <2>1. n \in Nat /\ MadeFrom(planned[n], h) /\ n + 1 \in 1 .. k /\ (n + 1) - 1 = n
    OBVIOUS
  <2>2. planned[n + 1] = AddScout(planned[n], NextAppointment(scouts[n + 1], now, FALSE),
                                  AwakeTime(Intervals(Homes(h))), budget)
    BY <1>2, <2>1
  <2>3. scouts[n + 1] \in Bssid
    BY <2>1
  <2> QED BY <2>1, <2>2, <2>3, ScoutAdded
<1> HIDE DEF S
<1>5. S = Nat
  <2>1. S \in SUBSET Nat
    BY DEF S
  <2> QED BY <1>3, <1>4, <2>1, Induction
<1>6. k \in S /\ k <= k
  BY <1>5
<1>7. MadeFrom(planned[k], h)
  BY <1>6 DEF S
<1> QED BY <1>2, <1>7

\* Each of them is a window, and none is empty.
LEMMA MadeIs ==
  ASSUME Clocks, NEW s, NEW h, NEW t \in 0 .. TimeMax, Made(s, h, t)
  PROVE  Wellformed(s) /\ \A i \in DOMAIN s : IsWindow(s[i])
<1>1. /\ Len(s) \in Nat /\ Len(s) >= 2 /\ DOMAIN s = 1 .. Len(s) /\ h \in Bssid
      /\ \A i \in DOMAIN s : s[i] \in Appointment /\ s[i].bssid \in Bssid
  <2>1. s \in Seq(Appointment)
    BY DEF Made
  <2>2. Len(s) \in Nat /\ DOMAIN s = 1 .. Len(s) /\ Len(s) >= 2 /\ h \in Bssid
    BY <2>1, LenProperties DEF Made
  <2>3. \A i \in DOMAIN s : s[i] \in Appointment
    BY <2>1, <2>2, ElementOfSeq
  <2> QED BY <2>2, <2>3 DEF Appointment
<1>2. TimeMax \in Nat /\ t \in Nat /\ Period \in Nat \ {0}
  BY WindowAssumption
<1>3. ASSUME NEW i \in DOMAIN s, NEW b \in Bssid, NEW k \in Nat, NEW u \in Nat,
             Leaves(s[i], b, k, u), Opens(b, k) < TimeMax + Period + Period
      PROVE  IsWindow(s[i])
  <2>1. k \in 0 .. LastWindow
    BY <1>3, Foreseen
  <2> QED BY <1>1, <1>3, <2>1, LeavesWindow
<1>4. ASSUME NEW a, NEW b \in Bssid, NEW k \in Nat, Leaves(a, b, k, t)
      PROVE  Opens(b, k) < TimeMax + Period
  <2>1. Opens(b, k) \in Int
    BY OpensApart
  <2>2. a.start < t + Period /\ a.start = IF Opens(b, k) < t THEN t ELSE Opens(b, k)
    BY <1>4 DEF Leaves
  <2> QED BY <1>2, <2>1, <2>2
<1>5. ASSUME NEW i \in DOMAIN s PROVE IsWindow(s[i])
  <2>1. PICK k \in Nat : Leaves(s[1], h, k, t) /\ Leaves(s[2], h, k + 1, s[1].end)
    BY DEF Made
  <2>2. Opens(h, k) < TimeMax + Period /\ Opens(h, k) \in Int
    BY <1>1, <1>4, <2>1, OpensApart
  <2>3. CASE i = 1
    <3>1. Opens(h, k) < TimeMax + Period + Period
      BY <1>2, <2>2
    <3> QED BY <1>1, <1>2, <1>3, <2>1, <2>3, <3>1
  <2>4. CASE i = 2
    <3>1. k + 1 \in Nat /\ Opens(h, k + 1) = Opens(h, k) + Period
      BY <1>1, OpensApart
    <3>2. Opens(h, k + 1) < TimeMax + Period + Period
      BY <1>2, <2>2, <3>1
    <3>3. s[1].end \in Nat
      BY <1>1 DEF Appointment
    <3> QED BY <1>1, <1>3, <2>1, <2>4, <3>1, <3>2, <3>3
  <2>5. CASE i \in 3 .. Len(s)
    <3>1. PICK j \in Nat : Leaves(s[i], s[i].bssid, j, t)
      BY <2>5 DEF Made
    <3>2. Opens(s[i].bssid, j) < TimeMax + Period /\ Opens(s[i].bssid, j) \in Int
      BY <1>1, <1>4, <3>1, OpensApart
    <3>3. Opens(s[i].bssid, j) < TimeMax + Period + Period
      BY <1>2, <3>2
    <3> QED BY <1>1, <1>2, <1>3, <3>1, <3>3
  <2> QED BY <1>1, <2>3, <2>4, <2>5
<1> QED BY <1>5 DEF Wellformed, IsWindow, Made

\* Until the last of the appointments begins, every window of the home that is
\* open is one of its two.
LEMMA HomeWindows ==
  ASSUME Clocks, NEW s, NEW h, NEW t \in 0 .. TimeMax, Made(s, h, t),
         NEW u \in Nat, t <= u, InWindow(h, u), NEW i \in DOMAIN s, u < s[i].start
  PROVE  u \in Span(s[1]) \cup Span(s[2])
<1>1. PICK k \in Nat : Leaves(s[1], h, k, t) /\ Leaves(s[2], h, k + 1, s[1].end)
  BY DEF Made
<1>2. h \in Bssid /\ k + 1 \in Nat /\ k + 2 \in Nat /\ LastWindow \in Nat
      /\ Duration \in 1 .. Period /\ Period \in Nat \ {0} /\ t \in Nat
  <2>1. TimeMax \div Period \in Nat
    BY WindowAssumption, DivMod
  <2> QED BY <2>1, WindowAssumption DEF Made, LastWindow
<1>3. PICK j \in 0 .. LastWindow : Opens(h, j) <= u /\ u < Opens(h, j) + Duration
  BY <1>2, WindowsAre
<1>4. /\ j \in Nat /\ Opens(h, j) \in Int /\ Opens(h, k) \in Int
      /\ Opens(h, k + 1) = Opens(h, k) + Period
      /\ (k + 1) + 1 = k + 2 /\ Opens(h, k + 2) = Opens(h, k + 1) + Period
  <2>1. (k + 1) + 1 = k + 2 /\ j \in Nat
    BY <1>2
  <2> QED BY <1>2, <2>1, OpensApart
<1>5. /\ s[1].start = IF Opens(h, k) < t THEN t ELSE Opens(h, k)
      /\ s[1].end = Opens(h, k) + Duration /\ t < s[1].end
      /\ s[2].start = IF Opens(h, k + 1) < s[1].end THEN s[1].end ELSE Opens(h, k + 1)
      /\ s[2].end = Opens(h, k + 1) + Duration
  BY <1>1 DEF Leaves
<1>6. j >= k
  <2>1. j < k => Opens(h, j) + Duration <= t
    BY <1>1, <1>4 DEF Leaves
  <2> QED BY <1>2, <1>3, <1>4, <2>1
<1>7. CASE j = k
  <2>1. s[1].start <= u /\ u < s[1].end
    BY <1>2, <1>3, <1>4, <1>5, <1>7
  <2>2. s[1].start \in Int /\ s[1].end \in Int
    BY <1>2, <1>4, <1>5
  <2> QED BY <2>1, <2>2 DEF Span
<1>8. CASE j = k + 1
  <2>1. s[2].start <= u /\ u < s[2].end
    BY <1>2, <1>3, <1>4, <1>5, <1>8
  <2>2. s[2].start \in Int /\ s[2].end \in Int
    BY <1>2, <1>4, <1>5
  <2> QED BY <2>1, <2>2 DEF Span
<1>9. CASE j >= k + 2
  <2>1. Opens(h, k + 2) <= Opens(h, j)
    <3>1. j = k + 2 \/ k + 2 < j
      BY <1>4, <1>9
    <3> QED BY <1>2, <1>4, <3>1, OpensApart
  <2>2. DOMAIN s = 1 .. Len(s) /\ Len(s) \in Nat
    BY LenProperties DEF Made
  <2>3. s[i].start < t + Period \/ s[i].start = s[2].start
    <3>1. CASE i = 1
      BY <1>1, <3>1 DEF Leaves
    <3>2. CASE i \in 3 .. Len(s)
      BY <3>2 DEF Made, Leaves
    <3> QED BY <2>2, <3>1, <3>2
  <2>4. s[2].start <= Opens(h, k + 1) /\ t + Period < Opens(h, k + 2)
    BY <1>2, <1>4, <1>5
  <2>5. s[i].start \in Nat /\ s[2].start \in Int
    <3>1. s[i] \in Appointment
      BY <2>2, ElementOfSeq DEF Made
    <3> QED BY <1>2, <1>4, <1>5, <3>1 DEF Appointment
  <2> QED BY <1>2, <1>3, <1>4, <2>1, <2>3, <2>4, <2>5
<1> QED BY <1>4, <1>6, <1>7, <1>8, <1>9

-----------------------------------------------------------------------------
(* Sleeping *)

\* n is the interval that is executed next.
Ahead(iv, n) ==
  /\ n \in DOMAIN iv /\ NextInterval(iv, now) = iv[n]
  /\ now < iv[n].end /\ \A m \in DOMAIN iv : m < n => iv[m].end <= now

LEMMA NextIntervalIs ==
  ASSUME NEW s, NEW iv, Typed(s, iv), now \in Nat, NEW m \in DOMAIN iv, now < iv[m].end
  PROVE  \E n : Ahead(iv, n)
<1> DEFINE ahead == {i \in DOMAIN iv : iv[i].end > now}
<1>1. \A i \in DOMAIN iv : i \in Nat /\ iv[i].end \in Nat
  BY TypedIs
<1>2. PICK n \in ahead : \A j \in ahead : n <= j
  <2>1. ahead \in SUBSET Nat /\ ahead # {}
    BY <1>1
  <2> HIDE DEF ahead
  <2> QED BY <2>1, LeastOf
<1> DEFINE c == CHOOSE i \in ahead : \A j \in ahead : i <= j
<1>3. c \in ahead /\ \A j \in ahead : c <= j
  BY <1>2
<1>4. NextInterval(iv, now) = iv[c]
  BY DEF NextInterval
<1> HIDE DEF c
<1>5. ASSUME NEW j \in DOMAIN iv, j < c PROVE iv[j].end <= now
  <2>1. c \in Nat /\ j \in Nat /\ iv[j].end \in Nat
    BY <1>1, <1>3
  <2>2. j \notin ahead
    BY <1>3, <1>5, <2>1
  <2> QED BY <1>5, <2>1, <2>2
<1>6. now < iv[c].end /\ c \in DOMAIN iv
  BY <1>1, <1>3
<1>7. Ahead(iv, c)
  BY <1>4, <1>5, <1>6 DEF Ahead
<1> QED BY <1>7

\* Until the next interval is over, only what it serves takes place.
LEMMA NothingElse ==
  ASSUME NEW s, Wellformed(s), now \in Nat, NEW n, Ahead(Intervals(s), n),
         NEW u \in Nat, now <= u, u < Intervals(s)[n].end,
         NEW j \in DOMAIN s, u \in Span(s[j])
  PROVE  j \in Intervals(s)[n].appointments /\ Intervals(s)[n].start <= u
<1> DEFINE iv == Intervals(s)
<1>1. Serves(s, iv)
  BY IntervalsServe
<1>2. PICK m \in DOMAIN iv :
           /\ iv[m].start <= s[j].start /\ s[j].end <= iv[m].end
           /\ \A l \in DOMAIN iv : j \in iv[l].appointments <=> l = m
  BY EachServed
<1> HIDE DEF iv
<1>3. /\ n \in DOMAIN iv /\ now < iv[n].end
      /\ \A l \in DOMAIN iv : l < n => iv[l].end <= now
  BY DEF Ahead, iv
<1>4. /\ n \in Nat /\ m \in Nat /\ iv[n].start \in Nat /\ iv[n].end \in Nat
      /\ iv[m].start \in Nat /\ iv[m].end \in Nat /\ MergeGap \in Nat
  BY <1>1, <1>3, TypedIs, WindowAssumption DEF Serves
<1>5. s[j].start <= u /\ u < s[j].end /\ s[j].start \in Nat /\ s[j].end \in Nat
  <2>1. s[j].start \in Nat /\ s[j].end \in Nat
    BY WellformedIs
  <2> QED BY <2>1 DEF Span
<1>6. ~(m < n)
  <2>1. m < n => iv[m].end <= now
    BY <1>3
  <2> QED BY <1>2, <1>4, <1>5, <2>1
<1>7. ~(n < m)
  <2>1. n < m => iv[n].end + MergeGap < iv[m].start
    BY <1>1, <1>3 DEF Serves, Apart
  <2>2. u < iv[n].end
    BY DEF iv
  <2> QED BY <1>2, <1>4, <1>5, <2>1, <2>2
<1>8. m = n
  BY <1>4, <1>6, <1>7
<1>9. iv[n].start <= u
  BY <1>2, <1>4, <1>5, <1>8
<1> QED BY <1>2, <1>8, <1>9 DEF iv

\* So nothing that was planned takes place before it begins, and no window of
\* the home either.
LEMMA QuietBefore ==
  ASSUME Clocks, NEW s, NEW h, NEW t \in 0 .. TimeMax, Made(s, h, t), now \in Nat, t <= now,
         NEW n, Ahead(Intervals(s), n),
         NEW u \in Nat, now <= u, u < Intervals(s)[n].start
  PROVE  ~InWindow(h, u) /\ \A i \in DOMAIN s : u \notin Span(s[i])
<1> DEFINE iv == Intervals(s)
<1>1. Wellformed(s) /\ 1 \in DOMAIN s /\ 2 \in DOMAIN s
  <2>1. Wellformed(s)
    BY MadeIs
  <2> QED BY <2>1, WellformedIs DEF Made
<1>2. Serves(s, iv) /\ n \in DOMAIN iv
  BY <1>1, IntervalsServe DEF Ahead
<1>3. PICK i \in iv[n].appointments : s[i].start = iv[n].start
  BY <1>2 DEF Serves, Spanned
<1>4. s[i].end <= iv[n].end /\ i \in DOMAIN s /\ iv[n].start \in Nat /\ iv[n].end \in Nat
  BY <1>2, <1>3, TypedIs DEF Serves, Inside
<1>5. u < iv[n].end /\ ~(iv[n].start <= u)
  <2>1. s[i].start \in Nat /\ s[i].end \in Nat /\ s[i].start < s[i].end
    BY <1>1, <1>4, WellformedIs
  <2> HIDE DEF iv
  <2>2. u < iv[n].start
    BY DEF iv
  <2> QED BY <1>3, <1>4, <2>1, <2>2
<1>6. \A j \in DOMAIN s : u \notin Span(s[j])
  BY <1>1, <1>5, NothingElse
<1>7. ~InWindow(h, u)
  <2>1. t <= u /\ u < s[i].start /\ t \in Nat
    BY <1>3
  <2> QED BY <1>1, <1>4, <1>6, <2>1, HomeWindows
<1> QED BY <1>6, <1>7

\* The beacon that a stutter wake waits for has a window that begins no earlier
\* than the interval, and until then the home has none.
Awaits(target, h, boundary) ==
  \E k \in Nat : /\ boundary <= Opens(target, k)
                 /\ \A u \in now .. Opens(target, k) - 1 : ~InWindow(h, u)

LEMMA TargetAwaits ==
  ASSUME Clocks, NEW s, NEW h, NEW t \in 0 .. TimeMax, Made(s, h, t), now \in Nat, t <= now,
         NEW n, Ahead(Intervals(s), n), now < Intervals(s)[n].start
  PROVE  LET target == StutterTarget(h, s, Intervals(s)[n])
         IN  target \in Bssid /\ Awaits(target, h, Intervals(s)[n].start)
<1> DEFINE iv == Intervals(s)
           target == StutterTarget(h, s, iv[n])
           scouts == {i \in iv[n].appointments : ~s[i].home}
<1>1. /\ Wellformed(s) /\ Len(s) \in Nat /\ Len(s) >= 2 /\ DOMAIN s = 1 .. Len(s)
      /\ 1 \in DOMAIN s /\ 2 \in DOMAIN s /\ h \in Bssid
      /\ \A i \in DOMAIN s : /\ s[i].bssid \in Bssid /\ s[i].start \in Nat /\ s[i].end \in Nat
                             /\ s[i].start < s[i].end
  <2>1. Wellformed(s) /\ Len(s) >= 2 /\ h \in Bssid
    BY MadeIs DEF Made
  <2>2. Len(s) \in Nat /\ DOMAIN s = 1 .. Len(s)
    BY <2>1, WellformedIs
  <2>3. \A i \in DOMAIN s : /\ s[i].bssid \in Bssid /\ s[i].start \in Nat /\ s[i].end \in Nat
                            /\ s[i].start < s[i].end
    BY <2>1, WellformedIs DEF Appointment
  <2> QED BY <2>1, <2>2, <2>3
<1>2. Serves(s, iv) /\ n \in DOMAIN iv
  BY <1>1, IntervalsServe DEF Ahead
<1>3. /\ iv[n].start \in Nat /\ iv[n].end \in Nat /\ iv[n].appointments \in SUBSET DOMAIN s
      /\ \A i \in iv[n].appointments : iv[n].start <= s[i].start /\ s[i].end <= iv[n].end
  BY <1>2, TypedIs DEF Serves, Inside
\* Only a home that the interval serves can be met before.
<1>4. ASSUME NEW i \in iv[n].appointments, NEW u \in now .. s[i].start - 1, InWindow(h, u)
      PROVE  \/ 1 \in iv[n].appointments /\ u \in Span(s[1])
             \/ 2 \in iv[n].appointments /\ u \in Span(s[2])
  <2>1. u \in Nat /\ now <= u /\ t <= u /\ u < s[i].start /\ i \in DOMAIN s
    BY <1>1, <1>3
  <2>2. u < iv[n].end
    <3>1. s[i].end <= iv[n].end /\ s[i].start < s[i].end /\ s[i].end \in Nat /\ s[i].start \in Nat
      BY <1>1, <1>3, <2>1
    <3> HIDE DEF iv
    <3> QED BY <1>3, <2>1, <3>1
  <2>3. u \in Span(s[1]) \cup Span(s[2])
    BY <1>4, <2>1, HomeWindows
  <2>4. ASSUME NEW j \in {1, 2}, u \in Span(s[j]) PROVE j \in iv[n].appointments
    BY <1>1, <2>1, <2>2, <2>4, NothingElse
  <2> QED BY <2>3, <2>4
<1>5. PICK k \in Nat : Leaves(s[1], h, k, t) /\ Leaves(s[2], h, k + 1, s[1].end)
  BY DEF Made
<1>n. now < iv[n].start
  OBVIOUS
<1> HIDE DEF iv
<1>6. CASE scouts = iv[n].appointments
  <2>1. scouts # {} /\ scouts \in SUBSET Nat /\ \A i \in scouts : i <= Len(s)
    <3>1. iv[n].appointments # {}
      BY <1>2 DEF Serves, Spanned
    <3>2. iv[n].appointments \in SUBSET (1 .. Len(s)) /\ Len(s) \in Nat
      BY <1>1, <1>3
    <3> DEFINE l == Len(s)
    <3> HIDE DEF scouts, l
    <3>3. scouts # {} /\ scouts \in SUBSET (1 .. l) /\ l \in Nat
      BY <1>6, <3>1, <3>2 DEF l
    <3>4. scouts \in SUBSET Nat /\ \A i \in scouts : i <= l
      BY <3>3
    <3> QED BY <3>3, <3>4 DEF l
  <2> DEFINE i == Max(scouts)
  <2>2. i \in scouts
    <3> HIDE DEF scouts
    <3> QED BY <1>1, <2>1, MaxOf
  <2>3. target = s[i].bssid
    BY <1>6 DEF StutterTarget
  <2> HIDE DEF i, target
  <2>4. i \in iv[n].appointments /\ ~s[i].home /\ i \in DOMAIN s /\ i # 1 /\ i # 2
    BY <1>3, <2>2 DEF Made
  <2>5. i \in 3 .. Len(s)
    BY <1>1, <2>4
  <2>6. PICK l \in Nat : Leaves(s[i], target, l, t)
    BY <2>3, <2>5 DEF Made
  <2>7. target \in Bssid /\ Opens(target, l) \in Int
    BY <1>1, <2>3, <2>4, OpensApart
  <2>8. Opens(target, l) = s[i].start /\ iv[n].start <= s[i].start
    <3>1. s[i].start = IF Opens(target, l) < t THEN t ELSE Opens(target, l)
      BY <2>6 DEF Leaves
    <3>2. iv[n].start <= s[i].start /\ s[i].start \in Nat
      BY <1>1, <1>3, <2>4
    <3> QED BY <1>3, <1>n, <2>7, <3>1, <3>2
  <2>9. 1 \notin iv[n].appointments /\ 2 \notin iv[n].appointments
    BY <1>6 DEF Made
  <2>10. \A u \in now .. s[i].start - 1 : ~InWindow(h, u)
    BY <1>4, <2>4, <2>9
  <2>11. Awaits(target, h, iv[n].start)
    BY <2>8, <2>10 DEF Awaits
  <2> QED BY <2>7, <2>11 DEF target, iv
<1>7. CASE scouts # iv[n].appointments
  <2>1. target = h
    BY <1>7 DEF StutterTarget
  <2> HIDE DEF target
  <2>2. PICK j \in iv[n].appointments : s[j].home
    BY <1>7
  <2>3. j = 1 \/ j = 2
    <3>1. j \in 1 .. Len(s) /\ ~(j \in 3 .. Len(s))
      BY <1>1, <1>3, <2>2 DEF Made
    <3> QED BY <1>1, <3>1
  <2>4. /\ k + 1 \in Nat /\ Opens(h, k) \in Int /\ Opens(h, k + 1) = Opens(h, k) + Period
        /\ Duration \in 1 .. Period /\ Period \in Nat
    <3>1. h \in Bssid /\ k \in Nat /\ k + 1 \in Nat
      BY <1>1
    <3>2. Opens(h, k) \in Int /\ Opens(h, k + 1) = Opens(h, k) + Period
      BY <3>1, OpensApart
    <3> QED BY <3>1, <3>2, WindowAssumption
  <2>5. /\ s[1].start = IF Opens(h, k) < t THEN t ELSE Opens(h, k)
        /\ s[1].end = Opens(h, k) + Duration
        /\ s[2].start = IF Opens(h, k + 1) < s[1].end THEN s[1].end ELSE Opens(h, k + 1)
    BY <1>5 DEF Leaves
  <2>6. s[2].start = Opens(h, k + 1) /\ s[1].end <= s[2].start /\ s[1].start < s[1].end
        /\ s[1].start \in Nat /\ s[2].start \in Nat /\ s[1].end \in Nat
    BY <1>1, <2>4, <2>5
  <2>7. CASE 1 \in iv[n].appointments
    <3>1. iv[n].start <= s[1].start
      BY <1>3, <2>7
    <3>2. s[1].start = Opens(h, k)
      BY <1>3, <1>n, <2>4, <2>5, <2>6, <3>1
    <3>3. ASSUME NEW u \in now .. s[1].start - 1 PROVE ~InWindow(h, u)
      <4>1. u \notin Span(s[1]) /\ u \notin Span(s[2])
        BY <2>6, <3>3 DEF Span
      <4> QED BY <1>4, <2>7, <3>3, <4>1
    <3>4. Awaits(h, h, iv[n].start)
      BY <3>1, <3>2, <3>3 DEF Awaits
    <3> QED BY <1>1, <2>1, <3>4 DEF target, iv
  <2>8. CASE 1 \notin iv[n].appointments
    <3>1. 2 \in iv[n].appointments
      BY <2>2, <2>3, <2>8
    <3>2. iv[n].start <= s[2].start
      BY <1>3, <3>1
    <3>3. ASSUME NEW u \in now .. s[2].start - 1 PROVE ~InWindow(h, u)
      <4>1. u \notin Span(s[2])
        BY <2>6, <3>3 DEF Span
      <4> QED BY <1>4, <2>8, <3>1, <3>3, <4>1
    <3>4. Awaits(h, h, iv[n].start)
      BY <2>4, <2>6, <3>2, <3>3 DEF Awaits
    <3> QED BY <1>1, <2>1, <3>4 DEF target, iv
  <2> QED BY <2>7, <2>8
<1> QED BY <1>6, <1>7

-----------------------------------------------------------------------------
(* The inductive invariant *)

Planned(p, t) == Made(p.appointments, p.home, t) /\ p.intervals = Intervals(p.appointments)

Waiting ==
  /\ plan = NoPlan /\ now <= plannable
  /\ stutter.target \in Bssid /\ stutter.home \in Bssid
  /\ Awaits(stutter.target, stutter.home, plannable)

\* The plan was made at some time, for what was then to come; a board that waits
\* for a beacon in the middle of a sleep has no plan, wakes before the next
\* window of that beacon, and its home has none before that one.
IInv ==
  /\ Clocks /\ now \in 0 .. TimeMax /\ plannable \in Nat
  /\ plan # NoPlan => \E t \in 0 .. now : Planned(plan, t)
  /\ stutter # NoStutter => Waiting

\* A plan stays what it was made for, and what a wait is for stays ahead as long
\* as the clocks do not change and the board wakes in time.
LEMMA PlannedStays ==
  ASSUME tsf' = tsf, NEW p, plan' = p, NEW t, Planned(p, t)
  PROVE  Planned(plan, t)'
BY DEF Planned, Made, Leaves, Opens

LEMMA AwaitsStays ==
  ASSUME tsf' = tsf, NEW target, NEW home, stutter'.target = target, stutter'.home = home,
         NEW k \in Nat, plannable' <= Opens(target, k),
         \A u \in now' .. Opens(target, k) - 1 : ~InWindow(home, u)
  PROVE  Awaits(stutter.target, stutter.home, plannable)'
BY DEF Awaits, Opens, InWindow, WindowStarts, LastWindow

\* The appointment with a beacon begins no later than any window of it to come,
\* and until it begins the beacon has none.
LEMMA FirstWindow ==
  ASSUME Clocks, NEW b \in Bssid, NEW t \in Nat, NEW a, NEW l \in Nat, Leaves(a, b, l, t),
         t < a.start
  PROVE  /\ a.start = Opens(b, l) /\ t < Opens(b, l)
         /\ \A k \in Nat : t <= Opens(b, k) => Opens(b, l) <= Opens(b, k)
         /\ \A u \in t .. Opens(b, l) - 1 : ~InWindow(b, u)
<1>1. a.start = IF Opens(b, l) < t THEN t ELSE Opens(b, l)
  BY DEF Leaves
<1>2. /\ Opens(b, l) \in Int /\ Duration \in Nat /\ Duration <= Period /\ Period \in Nat
      /\ Duration > 0
  BY OpensApart, WindowAssumption
<1>3. a.start = Opens(b, l) /\ t < Opens(b, l)
  BY <1>1, <1>2
<1>4. \A j \in Nat : j < l => Opens(b, j) + Duration <= t
  BY DEF Leaves
<1>5. ASSUME NEW k \in Nat, t <= Opens(b, k) PROVE Opens(b, l) <= Opens(b, k)
  <2>1. Opens(b, k) \in Int
    BY OpensApart
  <2>2. k < l => Opens(b, k) + Duration <= t
    BY <1>4
  <2>3. l < k => Opens(b, l) + Period <= Opens(b, k)
    BY OpensApart
  <2> QED BY <1>2, <1>5, <2>1, <2>2, <2>3
<1>6. ASSUME NEW u \in t .. Opens(b, l) - 1, InWindow(b, u) PROVE FALSE
  <2>1. u \in Int /\ t <= u /\ u < Opens(b, l)
    BY <1>2
  <2>2. PICK j \in 0 .. LastWindow : Opens(b, j) <= u /\ u < Opens(b, j) + Duration
    BY <1>6, <2>1, WindowsAre
  <2>3. j \in Nat
    <3>1. TimeMax \div Period \in Nat
      BY WindowAssumption, DivMod
    <3> QED BY <3>1 DEF LastWindow
  <2>4. Opens(b, j) \in Int
    BY <2>3, OpensApart
  <2>5. j < l => Opens(b, j) + Duration <= t
    BY <1>4, <2>3
  <2>6. l < j => Opens(b, l) + Period <= Opens(b, j)
    BY <2>3, OpensApart
  <2> QED BY <1>2, <2>1, <2>2, <2>3, <2>4, <2>5, <2>6
<1> QED BY <1>3, <1>5, <1>6

\* What a sleep between intervals does: the board is up again by the time that
\* the next one begins.
LEMMA SleepsUntilNext ==
  ASSUME IInv, SleepForExecutor
  PROVE  \E t \in 0 .. TimeMax, n \in DOMAIN plan.intervals :
           /\ Planned(plan, t) /\ t <= now /\ Ahead(plan.intervals, n)
           /\ now < plan.intervals[n].start
           /\ now' \in Nat /\ now <= now' /\ now' <= TimeMax
           /\ plannable' \in Nat /\ now' <= plannable'
           /\ plannable' <= plan.intervals[n].start
           /\ \/ stutter' = stutter
              \/ stutter' = [target |-> StutterTarget(plan.home, plan.appointments,
                                                      plan.intervals[n]),
                             home |-> plan.home]
<1> DEFINE iv == plan.intervals
           s == plan.appointments
           sleep == SleepUntilNext(iv, now)
           next == NextInterval(iv, now)
           short == StutterSleepUntil(next.start, now)
           stutters == sleep > StutterThreshold /\ short > 0 /\ short >= MinSleep
           duration == IF stutters THEN short ELSE sleep
<1>1. PICK t \in 0 .. now : Planned(plan, t)
  BY DEF IInv, SleepForExecutor
<1>2. /\ t \in 0 .. TimeMax /\ t <= now /\ now \in Nat /\ TimeMax \in Nat
      /\ Sampling \in Nat /\ Lead \in Nat /\ Sampling <= Lead
      /\ StutterLead \in Nat /\ Lead <= StutterLead
  BY WindowAssumption DEF IInv
<1>3. Typed(s, iv)
  <2>1. Wellformed(s) /\ iv = Intervals(s)
    BY <1>1, <1>2, MadeIs DEF Planned, IInv
  <2> QED BY <2>1, IntervalsServe DEF Serves
<1>4. /\ sleep > 0 /\ now + duration <= TimeMax /\ now' = now + duration
      /\ plannable' = now + duration + Sampling
      /\ stutter' = IF stutters
                    THEN [target |-> StutterTarget(plan.home, s, next), home |-> plan.home]
                    ELSE stutter
  BY DEF SleepForExecutor, SleepFor
<1>5. PICK m \in DOMAIN iv : now < iv[m].end
  <2> SUFFICES ASSUME \A m \in DOMAIN iv : ~(now < iv[m].end) PROVE FALSE
    OBVIOUS
  <2>1. \A i \in DOMAIN iv : iv[i].end <= now
    BY <1>2, <1>3, TypedIs
  <2>2. sleep = 0
    BY <2>1 DEF SleepUntilNext
  <2> QED BY <1>4, <2>2
<1>6. PICK n : Ahead(iv, n)
  BY <1>2, <1>3, <1>5, NextIntervalIs
<1>7. next = iv[n] /\ n \in DOMAIN iv /\ next.start \in Nat
  BY <1>3, <1>6, TypedIs DEF Ahead
<1>8. sleep = next.start - now - Lead /\ sleep > 0
  <2>1. sleep = IF next.start - now - Lead <= 0 THEN 0 ELSE next.start - now - Lead
    <3>1. ~(iv[m].end <= now)
      BY <1>2, <1>3, <1>5, TypedIs
    <3> QED BY <3>1, <1>5 DEF SleepUntilNext
  <2> HIDE DEF sleep, next
  <2> QED BY <1>2, <1>4, <1>7, <2>1
<1>9. stutters => short = next.start - now - StutterLead /\ short > 0
  BY <1>2, <1>7 DEF StutterSleepUntil
<1> HIDE DEF sleep, next, short
<1>10. /\ duration \in Nat /\ now + duration + Sampling <= next.start
       /\ now < next.start
  <2>1. CASE stutters
    BY <1>2, <1>7, <1>8, <1>9, <2>1
  <2>2. CASE ~stutters
    <3>1. duration = sleep
      BY <2>2
    <3> QED BY <1>2, <1>7, <1>8, <3>1
  <2> QED BY <2>1, <2>2
<1> HIDE DEF duration, stutters
<1>11. now' \in Nat /\ now <= now' /\ now' <= TimeMax /\ plannable' \in Nat /\ now' <= plannable'
       /\ plannable' <= iv[n].start /\ now < iv[n].start
  BY <1>2, <1>4, <1>7, <1>10
<1>12. \/ stutter' = stutter
       \/ stutter' = [target |-> StutterTarget(plan.home, s, iv[n]), home |-> plan.home]
  BY <1>4, <1>7
<1>13. n \in DOMAIN iv
  BY <1>7
<1> HIDE DEF iv, s
<1>14. t \in 0 .. TimeMax /\ t <= now
  BY <1>2
<1> QED BY <1>1, <1>6, <1>11, <1>12, <1>13, <1>14 DEF iv, s

\* makeExecutionPlan() makes the plan for the time at which it runs.
LEMMA PlanMade ==
  ASSUME IInv, NEW h \in Bssid, NEW k \in Nat, NEW scouts \in [1 .. k -> Bssid], NEW budget,
         MakeExecutionPlan(h, scouts, budget)
  PROVE  IInv'
<1> DEFINE s == Appointments(h, scouts, budget)
           p == [home |-> h, appointments |-> s, intervals |-> Intervals(s)]
<1>1. /\ plan' = p /\ tsf' = tsf /\ now' = now /\ plannable' = plannable
      /\ stutter' = NoStutter
  BY DEF MakeExecutionPlan
<1>2. now \in Nat /\ Clocks /\ now \in 0 .. TimeMax /\ plannable \in Nat
  BY WindowAssumption DEF IInv
<1>3. Made(s, h, now)
  BY <1>2, AppointmentsMade DEF MadeFrom
<1> HIDE DEF s
<1>4. p.home = h /\ p.appointments = s /\ p.intervals = Intervals(s)
  OBVIOUS
<1> HIDE DEF p
<1>5. Planned(p, now)
  BY <1>3, <1>4 DEF Planned
<1>6. (\E t \in 0 .. now : Planned(plan, t))'
  <2>1. now \in 0 .. now'
    BY <1>1, <1>2
  <2>2. PICK t \in 0 .. now' : Planned(p, t)
    BY <1>5, <2>1
  <2>3. Planned(plan, t)'
    BY <1>1, <2>2, PlannedStays
  <2> QED BY <2>3
<1>7. Clocks' /\ (now \in 0 .. TimeMax)' /\ (plannable \in Nat)'
  BY <1>1, <1>2 DEF Clocks
<1> QED BY <1>1, <1>6, <1>7 DEF IInv

\* A pass of the loop brings the window awaited nearer, and no further than to
\* where sampling ends.
LEMMA PassKeeps ==
  ASSUME IInv, Pass PROVE IInv'
<1>1. /\ tsf' = tsf /\ plannable' = plannable /\ plan' = plan /\ stutter' = stutter
      /\ now' = now + 1 /\ now < TimeMax /\ (plan = NoPlan => now < plannable)
  BY DEF Pass
<1>2. now \in Nat /\ TimeMax \in Nat /\ Clocks /\ plannable \in Nat
  BY WindowAssumption DEF IInv
<1>3. Clocks' /\ (now \in 0 .. TimeMax)' /\ (plannable \in Nat)'
  BY <1>1, <1>2 DEF Clocks
<1>4. (plan # NoPlan => \E t \in 0 .. now : Planned(plan, t))'
  <2> SUFFICES ASSUME plan' # NoPlan PROVE (\E t \in 0 .. now : Planned(plan, t))'
    BY DEF NoPlan
  <2>1. PICK t \in 0 .. now : Planned(plan, t)
    BY <1>1 DEF IInv
  <2>2. t \in 0 .. now'
    BY <1>1, <1>2
  <2>3. Planned(plan, t)'
    BY <1>1, <2>1, PlannedStays
  <2> QED BY <2>2, <2>3
<1>5. (stutter # NoStutter => Waiting)'
  <2> SUFFICES ASSUME stutter # NoStutter PROVE Waiting'
    BY <1>1 DEF NoStutter
  <2>1. Waiting
    BY DEF IInv
  <2>2. /\ plan = NoPlan /\ stutter.target \in Bssid /\ stutter.home \in Bssid
        /\ Awaits(stutter.target, stutter.home, plannable)
    BY <2>1 DEF Waiting
  <2>3. PICK k \in Nat : /\ plannable <= Opens(stutter.target, k)
                         /\ \A u \in now .. Opens(stutter.target, k) - 1 :
                              ~InWindow(stutter.home, u)
    BY <2>2 DEF Awaits
  <2>4. Opens(stutter.target, k) \in Int
    BY <1>2, <2>2, OpensApart
  <2>5. \A u \in now' .. Opens(stutter.target, k) - 1 : ~InWindow(stutter.home, u)
    BY <1>1, <1>2, <2>3, <2>4
  <2>6. Awaits(stutter.target, stutter.home, plannable)'
    BY <1>1, <2>3, <2>5, AwaitsStays
  <2>7. (plan = NoPlan)' /\ (now <= plannable)'
    BY <1>1, <1>2, <2>2 DEF NoPlan
  <2> QED BY <1>1, <2>2, <2>6, <2>7 DEF Waiting
<1> QED BY <1>3, <1>4, <1>5 DEF IInv

\* sleepForExecutor() leaves a stutter target with a window ahead of it.
LEMMA SleepKeeps ==
  ASSUME IInv, SleepForExecutor PROVE IInv'
<1>1. PICK t \in 0 .. TimeMax, n \in DOMAIN plan.intervals :
           /\ Planned(plan, t) /\ t <= now /\ Ahead(plan.intervals, n)
           /\ now < plan.intervals[n].start
           /\ now' \in Nat /\ now <= now' /\ now' <= TimeMax
           /\ plannable' \in Nat /\ now' <= plannable'
           /\ plannable' <= plan.intervals[n].start
           /\ \/ stutter' = stutter
              \/ stutter' = [target |-> StutterTarget(plan.home, plan.appointments,
                                                      plan.intervals[n]),
                             home |-> plan.home]
  BY SleepsUntilNext
<1>2. plan' = NoPlan /\ tsf' = tsf /\ plan # NoPlan
  BY DEF SleepForExecutor, SleepFor
<1>3. now \in Nat /\ TimeMax \in Nat /\ Clocks /\ Sampling \in Nat
  BY WindowAssumption DEF IInv
<1>m. /\ now' \in Nat /\ now <= now' /\ now' <= TimeMax /\ plannable' \in Nat /\ now' <= plannable'
      /\ plannable' <= plan.intervals[n].start
  BY <1>1
<1>4. Clocks' /\ (now \in 0 .. TimeMax)' /\ (plannable \in Nat)'
  <2>1. now' \in 0 .. TimeMax /\ plannable' \in Nat
    BY <1>m, <1>3
  <2> QED BY <1>2, <1>3, <2>1 DEF Clocks
<1>5. stutter = NoStutter
  BY <1>2 DEF IInv, Waiting
<1>6. CASE stutter' = stutter
  BY <1>2, <1>4, <1>5, <1>6 DEF IInv, NoPlan, NoStutter
<1>7. CASE stutter' = [target |-> StutterTarget(plan.home, plan.appointments,
                                                plan.intervals[n]),
                       home |-> plan.home]
  <2> DEFINE target == StutterTarget(plan.home, plan.appointments, plan.intervals[n])
  <2>1. stutter'.target = target /\ stutter'.home = plan.home
    BY <1>7
  <2>2. Made(plan.appointments, plan.home, t) /\ plan.intervals = Intervals(plan.appointments)
    BY <1>1 DEF Planned
  <2>3. plan.home \in Bssid
    BY <2>2 DEF Made
  <2>4. target \in Bssid /\ Awaits(target, plan.home, plan.intervals[n].start)
    <3>1. /\ Ahead(Intervals(plan.appointments), n) /\ t <= now
          /\ now < Intervals(plan.appointments)[n].start
      BY <1>1, <2>2
    <3> QED BY <1>3, <2>2, <3>1, TargetAwaits
  <2> HIDE DEF target
  <2>5. PICK k \in Nat : /\ plan.intervals[n].start <= Opens(target, k)
                         /\ \A u \in now .. Opens(target, k) - 1 : ~InWindow(plan.home, u)
    BY <2>4 DEF Awaits
  <2>6. Opens(target, k) \in Int /\ plan.intervals[n].start \in Int
    <3>1. Opens(target, k) \in Int
      BY <1>3, <2>4, OpensApart
    <3>2. Wellformed(plan.appointments)
      BY <1>3, <2>2, MadeIs
    <3>3. Typed(plan.appointments, plan.intervals)
      BY <2>2, <3>2, IntervalsServe DEF Serves
    <3> QED BY <1>1, <3>1, <3>3, TypedIs DEF Ahead
  <2>7. plannable' <= Opens(target, k) /\ now' <= plannable'
    <3>1. plannable' \in Int /\ plannable' <= plan.intervals[n].start
      BY <1>m
    <3> QED BY <1>m, <2>5, <2>6, <3>1
  <2>8. \A u \in now' .. Opens(target, k) - 1 : ~InWindow(plan.home, u)
    <3>1. now' .. Opens(target, k) - 1 \subseteq now .. Opens(target, k) - 1
      BY <1>m, <1>3, <2>6
    <3> QED BY <2>5, <3>1
  <2>9. Awaits(stutter.target, stutter.home, plannable)'
    BY <1>2, <2>1, <2>7, <2>8, AwaitsStays
  <2>10. (plan = NoPlan)' /\ (now <= plannable)'
    BY <1>2, <2>7 DEF NoPlan
  <2>11. Waiting'
    BY <2>1, <2>3, <2>4, <2>9, <2>10 DEF Waiting
  <2> QED BY <1>2, <1>4, <2>11 DEF IInv, NoPlan
<1> QED BY <1>1, <1>6, <1>7

\* sleepForStutterTarget(): the last part of the sleep ends before the window
\* that was awaited.
LEMMA LastPart ==
  ASSUME IInv, StutterAcquires
  PROVE  /\ plan = NoPlan /\ plan' = NoPlan /\ tsf' = tsf /\ stutter' = NoStutter
         /\ now' \in 0 .. TimeMax /\ plannable' \in Nat
         /\ plannable' # plannable =>
              \A u \in now .. plannable' - 1 :
                ~InWindow(stutter.home, u) /\ ~InWindow(stutter.target, u)
<1> DEFINE b == stutter.target
           a == NextAppointment(b, now, FALSE)
           wait == a.start - now - FinalLead
<1>1. /\ tsf' = tsf /\ stutter' = NoStutter /\ stutter # NoStutter
      /\ \/ /\ wait > MinSleep /\ now + wait <= TimeMax /\ now' = now + wait
            /\ plannable' = now + wait + Sampling /\ plan' = NoPlan
         \/ now' = now /\ plannable' = plannable /\ plan' = plan
  BY DEF StutterAcquires, SleepFor
<1>2. Waiting
  BY <1>1 DEF IInv
<1>3. /\ plan = NoPlan /\ now <= plannable /\ b \in Bssid
      /\ Awaits(b, stutter.home, plannable)
  BY <1>2 DEF Waiting
<1>4. /\ now \in Nat /\ now <= TimeMax /\ TimeMax \in Nat /\ Clocks /\ plannable \in Nat
      /\ Sampling \in Nat /\ Lead \in Nat /\ Sampling <= Lead
      /\ FinalLead \in Nat /\ Lead <= FinalLead /\ MinSleep \in Nat
  BY WindowAssumption DEF IInv
<1> HIDE DEF b
<1>5. PICK l \in Nat : Leaves(a, b, l, now)
  BY <1>3, <1>4, NextAppointmentIs
<1>6. a.start \in Nat
  BY <1>3, <1>4, NextAppointmentIs DEF Appointment
<1> HIDE DEF a
<1>7. CASE now' = now /\ plannable' = plannable /\ plan' = plan
  BY <1>1, <1>3, <1>4, <1>7
<1>8. CASE /\ wait > MinSleep /\ now + wait <= TimeMax /\ now' = now + wait
           /\ plannable' = now + wait + Sampling /\ plan' = NoPlan
  <2>1. now < a.start /\ plannable' <= a.start /\ now' \in 0 .. TimeMax /\ plannable' \in Nat
    BY <1>4, <1>6, <1>8
  <2>2. /\ a.start = Opens(b, l) /\ now < Opens(b, l)
        /\ \A k \in Nat : now <= Opens(b, k) => Opens(b, l) <= Opens(b, k)
        /\ \A u \in now .. Opens(b, l) - 1 : ~InWindow(b, u)
    BY <1>3, <1>4, <1>5, <2>1, FirstWindow
  <2>3. PICK k \in Nat : /\ plannable <= Opens(b, k)
                         /\ \A u \in now .. Opens(b, k) - 1 : ~InWindow(stutter.home, u)
    BY <1>3 DEF Awaits
  <2>4. Opens(b, k) \in Int /\ Opens(b, l) \in Int
    BY <1>3, <1>4, OpensApart
  <2>5. Opens(b, l) <= Opens(b, k)
    <3>1. now <= Opens(b, k)
      BY <1>3, <1>4, <2>3, <2>4
    <3> QED BY <2>2, <3>1
  <2>6. /\ now .. Opens(b, l) - 1 \subseteq now .. Opens(b, k) - 1
        /\ now .. plannable' - 1 \subseteq now .. Opens(b, l) - 1
    <3>1. now \in Int /\ plannable' \in Int /\ plannable' <= Opens(b, l)
      BY <1>4, <2>1, <2>2
    <3>2. ASSUME NEW x \in Int, NEW y \in Int, NEW z \in Int, y <= z
          PROVE  x .. y - 1 \subseteq x .. z - 1
      BY <3>2
    <3>3. now .. Opens(b, l) - 1 \subseteq now .. Opens(b, k) - 1
      BY <2>4, <2>5, <3>1, <3>2
    <3>4. now .. plannable' - 1 \subseteq now .. Opens(b, l) - 1
      BY <2>4, <3>1, <3>2
    <3> QED BY <3>3, <3>4
  <2>7. \A u \in now .. plannable' - 1 : ~InWindow(stutter.home, u) /\ ~InWindow(b, u)
    BY <2>2, <2>3, <2>6
  <2> QED BY <1>1, <1>3, <1>8, <2>1, <2>7 DEF b
<1> QED BY <1>1, <1>7, <1>8

\* A board that boots has nothing planned and waits for nothing.
LEMMA InitIInv ==
  Init => IInv
<1> SUFFICES ASSUME Init PROVE IInv
  OBVIOUS
<1>1. now = 0 /\ plannable = Sampling /\ plan = NoPlan /\ stutter = NoStutter /\ Clocks
  BY DEF Init, Clocks
<1>2. now \in 0 .. TimeMax /\ plannable \in Nat
  BY <1>1, WindowAssumption
<1> QED BY <1>1, <1>2 DEF IInv

\* Every step keeps the invariant.
LEMMA NextIInv ==
  IInv /\ [Next]_vars => IInv'
<1> SUFFICES ASSUME IInv, [Next]_vars PROVE IInv'
  OBVIOUS
<1>1. CASE \E h \in Bssid : Plans(h)
  <2>1. PICK h \in Bssid : Plans(h)
    BY <1>1
  <2>2. CASE \E scout \in Bssid \ {h} : MakeExecutionPlan(h, <<scout>>, Budget)
    <3>1. PICK scout \in Bssid : MakeExecutionPlan(h, <<scout>>, Budget)
      BY <2>2
    <3>2. <<scout>> \in [1 .. 1 -> Bssid] /\ 1 \in Nat
      OBVIOUS
    <3> QED BY <3>1, <3>2, PlanMade
  <2>3. CASE \E k \in 0 .. Cardinality(Bssid) - 1 : \E scouts \in [1 .. k -> Bssid \ {h}] :
               MakeExecutionPlan(h, scouts, Period * Cardinality(Bssid))
    <3>0. PICK k \in 0 .. Cardinality(Bssid) - 1 : \E scouts \in [1 .. k -> Bssid \ {h}] :
             MakeExecutionPlan(h, scouts, Period * Cardinality(Bssid))
      BY <2>3
    <3>1. PICK scouts \in [1 .. k -> Bssid \ {h}] :
             MakeExecutionPlan(h, scouts, Period * Cardinality(Bssid))
      BY <3>0
    <3>2. k \in Nat
      <4>1. Cardinality(Bssid) \in Nat
        BY WindowAssumption, FS_CardinalityType
      <4> QED BY <4>1
    <3>3. scouts \in [1 .. k -> Bssid]
      OBVIOUS
    <3> QED BY <3>1, <3>2, <3>3, PlanMade
  <2> QED BY <2>1, <2>2, <2>3 DEF Plans
<1>2. CASE Pass
  BY <1>2, PassKeeps
<1>3. CASE SleepForExecutor
  BY <1>3, SleepKeeps
<1>4. CASE StutterAcquires
  <2>1. tsf' = tsf /\ plan' = NoPlan /\ stutter' = NoStutter
        /\ now' \in 0 .. TimeMax /\ plannable' \in Nat
    BY <1>4, LastPart
  <2> QED BY <2>1 DEF IInv, Clocks, NoPlan, NoStutter
<1>5. CASE StutterTimesOut
  <2>1. /\ tsf' = tsf /\ now' = now /\ plannable' = plannable /\ plan' = plan
        /\ stutter' = NoStutter /\ stutter # NoStutter
    BY <1>5 DEF StutterTimesOut
  <2>2. plan = NoPlan
    BY <2>1 DEF IInv, Waiting
  <2> QED BY <2>1, <2>2 DEF IInv, Clocks, NoPlan, NoStutter
<1>6. CASE Exhausted
  <2>1. /\ tsf' = tsf /\ now' = now /\ plannable' = plannable /\ plan' = NoPlan
        /\ stutter' = stutter /\ plan # NoPlan
    BY <1>6 DEF Exhausted
  <2>2. stutter = NoStutter
    BY <2>1 DEF IInv, Waiting
  <2> QED BY <2>1, <2>2 DEF IInv, Clocks, NoPlan, NoStutter
<1>7. CASE UNCHANGED vars
  BY <1>7 DEF vars, IInv, Clocks, Planned, Made, Leaves, Opens, Waiting, Awaits, InWindow,
              WindowStarts, LastWindow, NoPlan, NoStutter
<1> QED BY <1>1, <1>2, <1>3, <1>4, <1>5, <1>6, <1>7 DEF Next

\* The inductive invariant.
LEMMA Invariance ==
  Spec => []IInv
BY InitIInv, NextIInv, PTL DEF Spec

-----------------------------------------------------------------------------
(* The theorems *)

\* nextAppointment(): whatever is planned is a window of its beacon's clock, a
\* whole one unless it is marked late, and what it leaves out of it is over.
THEOREM PlannedWindows ==
  Spec => []AppointmentsAreWindows
<1>1. IInv => AppointmentsAreWindows
  <2> SUFFICES ASSUME IInv PROVE AppointmentsAreWindows
    OBVIOUS
  <2>1. CASE plan = NoPlan
    BY <2>1 DEF AppointmentsAreWindows, NoPlan
  <2>2. CASE plan # NoPlan
    <3>1. PICK t \in 0 .. now : Planned(plan, t)
      BY <2>2 DEF IInv
    <3>2. t \in 0 .. TimeMax
      BY WindowAssumption DEF IInv
    <3>3. \A i \in DOMAIN plan.appointments : IsWindow(plan.appointments[i])
      BY <3>1, <3>2, MadeIs DEF Planned, IInv
    <3> QED BY <3>3 DEF AppointmentsAreWindows, IsWindow
  <2> QED BY <2>1, <2>2
<1> QED BY <1>1, Invariance, PTL

\* rebuild(): one interval serves each appointment, none keeps the board awake
\* for a gap longer than MergeGap, and no two are closer than that.
THEOREM PlannedIntervals ==
  Spec => []IntervalsServeAppointments
<1>1. IInv => IntervalsServeAppointments
  <2> SUFFICES ASSUME IInv PROVE IntervalsServeAppointments
    OBVIOUS
  <2>1. CASE plan = NoPlan
    BY <2>1 DEF IntervalsServeAppointments, NoPlan
  <2>2. CASE plan # NoPlan
    <3>1. PICK t \in 0 .. now : Planned(plan, t)
      BY <2>2 DEF IInv
    <3>2. t \in 0 .. TimeMax
      BY WindowAssumption DEF IInv
    <3>3. Wellformed(plan.appointments) /\ plan.intervals = Intervals(plan.appointments)
      BY <3>1, <3>2, MadeIs DEF Planned, IInv
    <3>4. Served(plan.appointments, plan.intervals)
      BY <3>3, RebuildServes
    <3> QED BY <3>4 DEF IntervalsServeAppointments, Served
  <2> QED BY <2>1, <2>2
<1> QED BY <1>1, Invariance, PTL

\* What a step that puts the board to sleep must have seen to.
MissesNothing ==
  plannable' # plannable =>
    \A t \in now .. plannable' - 1 :
      IF plan = NoPlan
      THEN ~InWindow(stutter.home, t) /\ ~InWindow(stutter.target, t)
      ELSE /\ ~InWindow(plan.home, t)
           /\ \A i \in DOMAIN plan.appointments : t \notin Span(plan.appointments[i])

\* No step does otherwise.
LEMMA NextMissesNothing ==
  ASSUME IInv, [Next]_vars PROVE MissesNothing
<1>1. CASE SleepForExecutor
  <2>1. PICK t \in 0 .. TimeMax, n \in DOMAIN plan.intervals :
           /\ Planned(plan, t) /\ t <= now /\ Ahead(plan.intervals, n)
           /\ plannable' \in Nat /\ plannable' <= plan.intervals[n].start
    BY <1>1, SleepsUntilNext
  <2>2. Made(plan.appointments, plan.home, t) /\ plan.intervals = Intervals(plan.appointments)
    BY <2>1 DEF Planned
  <2>3. Clocks /\ now \in Nat /\ plan # NoPlan
    BY <1>1, WindowAssumption DEF IInv, SleepForExecutor
  <2>4. Ahead(Intervals(plan.appointments), n) /\ t <= now
    BY <2>1, <2>2
  <2>5. Intervals(plan.appointments)[n].start \in Int
    <3>1. Wellformed(plan.appointments)
      BY <2>2, <2>3, MadeIs
    <3>2. Typed(plan.appointments, Intervals(plan.appointments))
      BY <3>1, IntervalsServe DEF Serves
    <3> QED BY <2>4, <3>2, TypedIs DEF Ahead
  <2>6. ASSUME NEW u \in now .. plannable' - 1
        PROVE  /\ ~InWindow(plan.home, u)
               /\ \A i \in DOMAIN plan.appointments : u \notin Span(plan.appointments[i])
    <3>1. plannable' \in Nat /\ plannable' <= Intervals(plan.appointments)[n].start
      BY <2>1, <2>2
    <3>2. u \in Nat /\ now <= u /\ u < Intervals(plan.appointments)[n].start
      <4>1. ASSUME NEW x \in Nat, NEW y \in Nat, NEW z \in Int, NEW v \in x .. y - 1, y <= z
            PROVE  v \in Nat /\ x <= v /\ v < z
        BY <4>1
      <4>2. now \in Nat
        BY <2>3
      <4> QED BY <2>5, <3>1, <4>1, <4>2
    <3> QED BY <2>2, <2>3, <2>4, <3>2, QuietBefore
  <2> QED BY <2>3, <2>6 DEF MissesNothing
<1>2. CASE StutterAcquires
  <2>1. /\ plan = NoPlan
        /\ plannable' # plannable =>
             \A u \in now .. plannable' - 1 :
               ~InWindow(stutter.home, u) /\ ~InWindow(stutter.target, u)
    BY <1>2, LastPart
  <2> QED BY <2>1 DEF MissesNothing
<1>3. CASE plannable' = plannable
  BY <1>3 DEF MissesNothing
<1>4. \/ SleepForExecutor \/ StutterAcquires \/ plannable' = plannable
  BY DEF Next, Plans, MakeExecutionPlan, Pass, StutterTimesOut, Exhausted, vars
<1> QED BY <1>1, <1>2, <1>3, <1>4

\* sleepForExecutor(), sleepForStutterTarget(): for any set of beacons, clocks,
\* windows and leads, a board asleep or still sampling after it woke misses no
\* window of its home, none that it had planned, and none of the beacon that it
\* waits for.
THEOREM HomeIsMet ==
  Spec => NeverSleepsThroughHome
<1>1. IInv /\ [Next]_vars => [MissesNothing]_vars
  BY NextMissesNothing
<1>2. [][MissesNothing]_vars => NeverSleepsThroughHome
  BY DEF NeverSleepsThroughHome, MissesNothing
<1> QED BY <1>1, <1>2, Invariance, PTL DEF Spec

\* An established board is awake for a scout, on top of what it is awake for its
\* homes, no longer than the budget allows.
LEMMA OneScout ==
  ASSUME Clocks, now \in 0 .. TimeMax, NEW h \in Bssid, NEW scout \in Bssid
  PROVE  LET s == Appointments(h, <<scout>>, Budget)
         IN  Cardinality(Awake(Intervals(s)) \ Awake(Intervals(SubSeq(s, 1, 2)))) <= Budget
<1> DEFINE s == Appointments(h, <<scout>>, Budget)
           a == NextAppointment(scout, now, FALSE)
           homes == Homes(h)
           more == AwakeTime(Intervals(s)) - AwakeTime(Intervals(homes))
<1>1. Len(<<scout>>) = 1 /\ <<scout>>[1] = scout /\ 1 \in Nat /\ 1 - 1 = 0 /\ 1 \in 1 .. 1
  OBVIOUS
<1>2. now \in Nat /\ now \in 0 .. TimeMax /\ Budget \in Nat
  BY WindowAssumption
<1>3. PICK planned : ByScout(planned, h, <<scout>>, Budget)
  BY <1>1, ScoutByScout
<1>4. s = AddScout(homes, a, AwakeTime(Intervals(homes)), Budget)
  BY <1>1, <1>3 DEF ByScout
<1>5. MadeFrom(s, h)
  <2>1. <<scout>> \in [1 .. 1 -> Bssid]
    OBVIOUS
  <2> QED BY <1>1, <1>2, <2>1, AppointmentsMade
<1>6. Made(homes, h, now) /\ Len(homes) = 2 /\ homes \in Seq(Appointment)
  BY <1>2, HomesMade, HomesAre
<1> HIDE DEF s, a
<1>7. s = homes \/ ~(more > Budget)
  <2> HIDE DEF homes
  <2> DEFINE added == Append(homes, a)
  <2>1. s = IF AwakeTime(Intervals(added)) - AwakeTime(Intervals(homes)) > Budget
            THEN homes ELSE added
    BY <1>4 DEF AddScout
  <2> HIDE DEF added
  <2> QED BY <2>1
<1> HIDE DEF homes
<1>8. /\ Wellformed(s) /\ Wellformed(homes) /\ Len(s) >= 2
      /\ s[1] = homes[1] /\ s[2] = homes[2]
  <2>1. Made(s, h, now) /\ s[1] = homes[1] /\ s[2] = homes[2]
    BY <1>5 DEF MadeFrom, homes
  <2>2. Wellformed(s) /\ Wellformed(homes)
    BY <1>2, <1>6, <2>1, MadeIs
  <2> QED BY <2>1, <2>2 DEF Made
<1>9. homes[1].end <= homes[2].start
  <2>1. PICK k \in Nat : Leaves(homes[1], h, k, now) /\ Leaves(homes[2], h, k + 1, homes[1].end)
    BY <1>6 DEF Made
  <2>2. /\ homes[1].end = Opens(h, k) + Duration
        /\ homes[2].start = IF Opens(h, k + 1) < homes[1].end THEN homes[1].end
                            ELSE Opens(h, k + 1)
    BY <2>1 DEF Leaves
  <2>3. homes[1].end \in Int /\ Opens(h, k + 1) \in Int
    <3>1. k + 1 \in Nat /\ Opens(h, k) \in Int /\ Duration \in Int
      BY OpensApart, WindowAssumption
    <3> QED BY <2>2, <3>1, OpensApart
  <2> QED BY <2>2, <2>3
<1>10. SubSeq(s, 1, 2) = homes
  <2>1. \A i \in 1 .. 2 : s[i] \in Appointment /\ s[i] = homes[i]
    <3>1. \A i \in 1 .. 2 : i = 1 \/ i = 2
      OBVIOUS
    <3>2. \A i \in 1 .. 2 : i \in 1 .. Len(homes) /\ homes[i] \in Appointment
      BY <1>6, ElementOfSeq
    <3> QED BY <1>8, <3>1, <3>2
  <2> DEFINE r == SubSeq(s, 1, 2)
  <2>2. /\ r \in Seq(Appointment) /\ Len(r) = IF 1 <= 2 THEN 2 - 1 + 1 ELSE 0
        /\ \A i \in 1 .. 2 - 1 + 1 : r[i] = s[1 + i - 1]
    BY <2>1, SubSeqProperties
  <2> HIDE DEF r
  <2>3. Len(r) = 2 /\ \A i \in 1 .. 2 : r[i] = s[i]
    BY <2>2
  <2>4. \A i \in 1 .. Len(r) : r[i] = homes[i]
    BY <2>1, <2>3
  <2>5. r = homes
    BY <1>6, <2>2, <2>3, <2>4, SeqEqual
  <2> QED BY <2>5 DEF r
<1>11. Cardinality(Awake(Intervals(s)) \ Awake(Intervals(homes))) = more
  BY <1>6, <1>8, <1>9, AwakeMore
<1>12. more <= Budget
  <2>1. AwakeTime(Intervals(s)) \in Nat /\ AwakeTime(Intervals(homes)) \in Nat
    <3>1. ASSUME NEW q, Wellformed(q) PROVE AwakeTime(Intervals(q)) \in Nat
      <4>1. IsFiniteSet(Awake(Intervals(q)))
            /\ Cardinality(Awake(Intervals(q))) = AwakeTime(Intervals(q))
        BY <3>1, IntervalsServe, AwakeTimeIs
      <4> QED BY <4>1, FS_CardinalityType
    <3> QED BY <1>8, <3>1
  <2>2. CASE s = homes
    BY <1>2, <2>1, <2>2
  <2>3. CASE ~(more > Budget)
    BY <1>2, <2>1, <2>3
  <2> QED BY <1>7, <2>2, <2>3
<1> HIDE DEF more
<1> QED BY <1>10, <1>11, <1>12 DEF s

\* addScout(): for any budget, an established board stays awake no longer than
\* that beyond what its homes need.
THEOREM ScoutKeepsToBudget ==
  Spec => ScoutsWithinBudget
<1> DEFINE Kept ==
      \A scout \in Bssid :
        MakeExecutionPlan(plan'.home, <<scout>>, Budget) =>
          LET awake(intervals) == UNION {Span(intervals[n]) : n \in DOMAIN intervals}
          IN  Cardinality(awake(plan'.intervals)
                            \ awake(Intervals(SubSeq(plan'.appointments, 1, 2)))) <= Budget
<1>1. ASSUME IInv, IInv', NEW scout \in Bssid,
             MakeExecutionPlan(plan'.home, <<scout>>, Budget)
      PROVE  Cardinality(Awake(plan'.intervals)
                           \ Awake(Intervals(SubSeq(plan'.appointments, 1, 2)))) <= Budget
  <2> DEFINE h == plan'.home
             s == Appointments(h, <<scout>>, Budget)
  <2>1. plan' = [home |-> h, appointments |-> s, intervals |-> Intervals(s)]
    BY <1>1 DEF MakeExecutionPlan
  <2> HIDE DEF s
  <2>2. plan'.appointments = s /\ plan'.intervals = Intervals(s)
    BY <2>1
  <2>3. CASE plan' = NoPlan
    <3>1. Awake(plan'.intervals) = {}
      BY <2>3 DEF Awake, NoPlan
    <3>2. Awake(plan'.intervals) \ Awake(Intervals(SubSeq(plan'.appointments, 1, 2))) = {}
      BY <3>1
    <3> QED BY <3>2, FS_EmptySet, WindowAssumption
  <2>4. CASE plan' # NoPlan
    <3>1. PICK t \in 0 .. now' : Planned(plan, t)'
      BY <1>1, <2>4 DEF IInv, NoPlan
    <3>2. h \in Bssid
      BY <3>1 DEF Planned, Made
    <3> HIDE DEF h
    <3>3. Clocks /\ now \in 0 .. TimeMax
      BY <1>1 DEF IInv
    <3>4. Cardinality(Awake(Intervals(s)) \ Awake(Intervals(SubSeq(s, 1, 2)))) <= Budget
      BY <1>1, <3>2, <3>3, OneScout DEF s
    <3> QED BY <2>2, <3>4
  <2> QED BY <2>3, <2>4
<1>2. ASSUME IInv, IInv' PROVE Kept
  BY <1>1, <1>2 DEF Awake
<1> HIDE DEF Kept
<1>3. IInv /\ IInv' /\ [Next]_vars => [Kept]_vars
  BY <1>2
<1>4. [][Kept]_vars => ScoutsWithinBudget
  BY DEF ScoutsWithinBudget, Kept
<1> QED BY <1>3, <1>4, Invariance, PTL DEF Spec
=============================================================================
