--------------------------- MODULE TimelineProofs ---------------------------
(***************************************************************************)
(* Proofs about Timeline, one part for each report.  All rest on Reading:  *)
(* the views are of the past, and empty until the markers are read.        *)
(*  - Plateaus: a minimum that is kept begins after the latest reset.      *)
(*  - Snapshots: a snapshot of this instant is of a view that is together. *)
(*  - Epochs: what a wave has observed since its markers, in terms of the  *)
(*    views that global_home_convergences() has.                           *)
(*  - Covered: merged_end is the end of the last evidence that counts.     *)
(*  - Clustered, Passed, AllFound: where the open cluster, and the waves   *)
(*    that were closed, lie among the markers read so far.                 *)
(***************************************************************************)
EXTENDS Timeline, TLAPS, FiniteSetTheorems, WellFoundedInduction

-----------------------------------------------------------------------------
(* Least and greatest numbers *)

\* A set of numbers has a least one ...
LEMMA LeastOf ==
  ASSUME NEW S \in SUBSET Nat, S # {}
  PROVE  \E n \in S : \A m \in S : n <= m
<1> DEFINE R == OpToRel(<, Nat)
<1>1. IsWellFoundedOn(R, Nat)
  BY NatLessThanWellFounded
<1> HIDE DEF R
<1>2. PICK n \in S : \A m \in S : ~(<<m, n>> \in R)
  BY <1>1, WFMin
<1>3. ASSUME NEW m \in S, m < n PROVE FALSE
  <2>1. <<m, n>> \in R
    BY <1>3 DEF R, OpToRel
  <2> QED BY <1>2, <2>1
<1> QED BY <1>3

\* ... which Min() finds, ...
LEMMA MinOf ==
  ASSUME NEW S \in SUBSET Nat, S # {}
  PROVE  Min(S) \in S /\ \A m \in S : Min(S) <= m
<1>1. \E n \in S : \A m \in S : n <= m
  BY LeastOf
<1> QED BY <1>1 DEF Min

\* ... and if it is bounded Max() finds its greatest.
LEMMA MaxOf ==
  ASSUME NEW S \in SUBSET Nat, S # {}, NEW n \in Nat, \A m \in S : m <= n
  PROVE  Max(S) \in S /\ \A m \in S : m <= Max(S)
<1> DEFINE T == {n - m : m \in S}
<1>1. T \in SUBSET Nat /\ T # {}
  <2>1. \A m \in S : n - m \in Nat
    OBVIOUS
  <2> QED BY <2>1
<1>2. PICK k \in T : \A j \in T : k <= j
  BY <1>1, LeastOf
<1>3. PICK m \in S : k = n - m
  BY <1>2
<1>4. ASSUME NEW j \in S PROVE m >= j
  <2>1. n - j \in T
    OBVIOUS
  <2>2. k <= n - j
    BY <1>2, <2>1
  <2> QED BY <1>3, <2>2
<1>5. (CHOOSE x \in S : \A y \in S : x >= y) \in S
      /\ \A y \in S : (CHOOSE x \in S : \A z \in S : x >= z) >= y
  BY <1>4
<1>6. Max(S) \in S /\ \A y \in S : Max(S) >= y
  BY <1>5 DEF Max
<1> QED BY <1>6

Views(n) == {Unseen} \cup [t : 1 .. n, home : Home]
AllUnseen == [b \in Board |-> Unseen]

\* The times of a view.
Times(view) == {view[b].t : b \in Board}

\* A view holds of a board when and where it was seen last, or that it was not.
LEMMA ViewTypes ==
  ASSUME NEW n \in Nat, NEW view \in [Board -> Views(n)], NEW b \in Board
  PROVE  /\ view[b].t \in 0 .. n /\ view[b].home \in Home \cup {NoHome}
         /\ view[b] # Unseen => view[b].t \in 1 .. n /\ view[b].home \in Home
         /\ view[b].t = 0 <=> view[b] = Unseen
<1>1. CASE view[b] = Unseen
  BY <1>1 DEF Unseen, Never
<1>2. CASE view[b] \in [t : 1 .. n, home : Home]
  BY <1>2 DEF Unseen, Never
<1> QED BY <1>1, <1>2 DEF Views

\* The first and the last time in a view are times of boards.
LEMMA TimesBounds ==
  ASSUME NEW n \in Nat, NEW view \in [Board -> Views(n)]
  PROVE  /\ Max(Times(view)) \in 0 .. n /\ Min(Times(view)) \in 0 .. n
         /\ \E b \in Board : view[b].t = Max(Times(view))
         /\ \E b \in Board : view[b].t = Min(Times(view))
         /\ \A b \in Board : Min(Times(view)) <= view[b].t /\ view[b].t <= Max(Times(view))
<1>1. Times(view) \in SUBSET (0 .. n) /\ Times(view) # {}
  BY ViewTypes, BoardsAssumption DEF Times
<1>2. Min(Times(view)) \in Times(view) /\ \A m \in Times(view) : Min(Times(view)) <= m
  BY <1>1, MinOf
<1>3. Max(Times(view)) \in Times(view) /\ \A m \in Times(view) : m <= Max(Times(view))
  <2>1. Times(view) \in SUBSET Nat /\ \A m \in Times(view) : m <= n
    BY <1>1
  <2> QED BY <1>1, <2>1, MaxOf
<1> QED BY <1>1, <1>2, <1>3 DEF Times

\* A view with a board that is seen now is together if nobody was seen too
\* long ago.
LEMMA TogetherNow ==
  ASSUME NEW n \in Nat, NEW view \in [Board -> Views(n)], NEW b \in Board, view[b].t = n
  PROVE  /\ Max(Times(view)) = n
         /\ Together(view) <=> \A c \in Board : n - view[c].t <= Skew
<1> DEFINE x == Max(Times(view))
           y == Min(Times(view))
<1>1. /\ x \in 0 .. n /\ y \in 0 .. n
      /\ \E c \in Board : view[c].t = y
      /\ \A c \in Board : y <= view[c].t /\ view[c].t <= x
  BY TimesBounds
<1>2. Together(view) <=> x - y <= Skew
  BY DEF Together, Times
<1>3. \A c \in Board : view[c].t \in 0 .. n
  BY ViewTypes
<1> HIDE DEF x, y
<1>4. x = n
  BY <1>1
<1>5. Together(view) <=> \A c \in Board : n - view[c].t <= Skew
  BY <1>1, <1>2, <1>3, <1>4, SkewsAssumption
<1> QED BY <1>4, <1>5 DEF x

\* The largest group has all boards when there is only one.
LEMMA LargestOf ==
  ASSUME NEW n \in Nat, NEW view \in [Board -> Views(n)], Seen(view)
  PROVE  /\ Largest(view) \in 0 .. Cardinality(Board)
         /\ Largest(view) = Cardinality(Board) <=> Cardinality(Homes(view)) = 1
<1> DEFINE At(h) == {b \in Board : view[b].home = h}
           Sizes == {Cardinality(At(h)) : h \in Home}
           all == Cardinality(Board)
<1>1. \A b \in Board : view[b].home \in Home
  BY ViewTypes DEF Seen
<1>2. \A h \in Home : /\ IsFiniteSet(At(h)) /\ Cardinality(At(h)) \in 0 .. all
                      /\ Cardinality(At(h)) = all => At(h) = Board
  <2> SUFFICES ASSUME NEW h \in Home
               PROVE  /\ IsFiniteSet(At(h)) /\ Cardinality(At(h)) \in 0 .. all
                      /\ Cardinality(At(h)) = all => At(h) = Board
    OBVIOUS
  <2> DEFINE A == At(h)
  <2>1. A \subseteq Board
    OBVIOUS
  <2> HIDE DEF A
  <2>2. IsFiniteSet(A) /\ Cardinality(A) <= all /\ (all = Cardinality(A) => Board = A)
    BY <2>1, FS_Subset, BoardsAssumption
  <2>3. Cardinality(A) \in Nat /\ all \in Nat
    BY <2>2, FS_CardinalityType, BoardsAssumption
  <2> QED BY <2>2, <2>3 DEF A
<1>3. all \in Nat /\ Sizes \in SUBSET (0 .. all) /\ Sizes # {}
  <2>1. all \in Nat
    BY FS_CardinalityType, BoardsAssumption
  <2>2. \A h \in Home : Cardinality(At(h)) \in 0 .. all
    BY <1>2
  <2>3. Home # {}
    BY <1>1, BoardsAssumption
  <2> HIDE DEF At
  <2> QED BY <2>1, <2>2, <2>3
<1>4. Max(Sizes) \in Sizes /\ \A m \in Sizes : m <= Max(Sizes)
  <2> HIDE DEF Sizes
  <2>1. Sizes \in SUBSET Nat /\ \A m \in Sizes : m <= all
    BY <1>3
  <2> QED BY <1>3, <2>1, MaxOf
<1>5. Largest(view) = Max(Sizes)
  BY DEF Largest
<1> HIDE DEF At, Sizes
<1>6. Largest(view) = all => \E h \in Home : At(h) = Board
  BY <1>2, <1>4, <1>5 DEF Sizes
<1>7. ASSUME NEW h \in Home, At(h) = Board PROVE Largest(view) = all
  <2>1. all \in Sizes
    BY <1>7 DEF Sizes
  <2>2. all <= Max(Sizes) /\ Max(Sizes) \in 0 .. all
    BY <1>3, <1>4, <2>1
  <2> QED BY <1>3, <1>5, <2>2
<1>8. (\E h \in Home : At(h) = Board) <=> \E h : Homes(view) = {h}
  <2>1. ASSUME NEW h \in Home, At(h) = Board PROVE Homes(view) = {h}
    BY <2>1, BoardsAssumption DEF At, Homes
  <2>2. ASSUME NEW h, Homes(view) = {h} PROVE h \in Home /\ At(h) = Board
    BY <1>1, <2>2 DEF At, Homes
  <2> QED BY <2>1, <2>2
<1>9. (\E h : Homes(view) = {h}) <=> Cardinality(Homes(view)) = 1
  <2>1. IsFiniteSet(Homes(view))
    <3>1. [b \in Board |-> view[b].home] \in Surjection(Board, Homes(view))
      BY DEF Homes, Surjection
    <3> QED BY <3>1, FS_Surjection, BoardsAssumption
  <2>2. ASSUME NEW h, Homes(view) = {h} PROVE Cardinality(Homes(view)) = 1
    BY <2>2, FS_Singleton
  <2>3. Cardinality(Homes(view)) = 1 => \E h : Homes(view) = {h}
    BY <2>1, FS_Singleton
  <2> QED BY <2>2, <2>3
<1>10. Largest(view) \in 0 .. all
  BY <1>3, <1>4, <1>5
<1> QED BY <1>6, <1>7, <1>8, <1>9, <1>10

-----------------------------------------------------------------------------
(* What is read *)

Reading ==
  /\ now \in Nat \ {0}
  /\ latest \in [Board -> Views(now)]
  /\ report # "recovery" => reset = Never /\ minimum = NoMinimum
  /\ reading = "markers" =>
       /\ report = "epochs" /\ latest = AllUnseen /\ since = AllUnseen
       /\ consensus = Unseen /\ snapshot.t = Never

\* When reading begins, nothing was observed.
LEMMA InitReading ==
  Init => Reading
<1> SUFFICES ASSUME Init PROVE Reading
  OBVIOUS
<1>1. latest \in [Board -> Views(now)]
  BY DEF Init, Views
<1>2. reading = "markers" =>
        /\ report = "epochs" /\ latest = AllUnseen /\ since = AllUnseen
        /\ consensus = Unseen /\ snapshot.t = Never
  BY DEF Init, AllUnseen
<1> QED BY <1>1, <1>2 DEF Init, Reading

\* Time does not take from a view.
LEMMA ViewsGrow ==
  ASSUME NEW n \in Nat, NEW m \in Nat, n <= m
  PROVE  Views(n) \subseteq Views(m)
BY DEF Views

\* Every iteration keeps the views of the past, and observes nothing before all
\* markers are read.
LEMMA NextReading ==
  Reading /\ [Next]_vars => Reading'
<1> SUFFICES ASSUME Reading, [Next]_vars PROVE Reading'
  OBVIOUS
<1> USE DEF Reading
<1>1. ASSUME NEW b \in Board, Marker(b) PROVE Reading'
  BY <1>1 DEF Marker, epochVars, recoveryVars
<1>2. ASSUME NEW i \in 1 .. Len(Closed), Measure(i) PROVE Reading'
  <2>1. latest' \in [Board -> Views(now')]
    BY <1>2 DEF Measure, AllUnseen, Views
  <2> QED BY <1>2, <2>1 DEF Measure, recoveryVars
<1>3. ASSUME NEW b \in Board, NEW h \in Home, Observe(b, h) PROVE Reading'
  <2>1. [t |-> now, home |-> h] \in Views(now)
    BY DEF Views
  <2>2. latest' \in [Board -> Views(now')]
    BY <1>3, <2>1 DEF Observe
  <2>3. /\ now' = now /\ report' = report /\ reading' = reading /\ reading = "observations"
        /\ reset' = reset /\ (report # "recovery" => minimum' = minimum)
    BY <1>3 DEF Observe
  <2> QED BY <2>2, <2>3
<1>4. ASSUME Reset PROVE Reading'
  BY <1>4 DEF Reset, epochVars
<1>5. ASSUME Evidence PROVE Reading'
  BY <1>5 DEF Evidence, epochVars, recoveryVars
<1>6. ASSUME Tick PROVE Reading'
  <2>1. Views(now) \subseteq Views(now')
    BY <1>6, ViewsGrow DEF Tick
  <2>2. latest' \in [Board -> Views(now')]
    BY <1>6, <2>1 DEF Tick
  <2> QED BY <1>6, <2>2 DEF Tick, epochVars, recoveryVars
<1>7. ASSUME UNCHANGED vars PROVE Reading'
  BY <1>7 DEF vars, epochVars, recoveryVars
<1> QED BY <1>1, <1>2, <1>3, <1>4, <1>5, <1>6, <1>7 DEF Next, Done

\* An observation, in what the reports see of it.
LEMMA Observed ==
  ASSUME Reading, NEW b \in Board, NEW h \in Home, Observe(b, h)
  PROVE  /\ now' = now /\ report # "foreign" /\ reading = "observations"
         /\ latest' \in [Board -> Views(now)] /\ latest'[b].t = now /\ latest'[b].home = h
         /\ latest[b].t < now
         /\ \A c \in Board : c # b => latest'[c] = latest[c]
<1>1. latest' = [latest EXCEPT ![b] = [t |-> now, home |-> h]]
  BY DEF Observe
<1>2. [t |-> now, home |-> h] \in Views(now)
  BY DEF Views, Reading
<1> QED BY <1>1, <1>2 DEF Reading, Observe

-----------------------------------------------------------------------------
(* Recoveries *)

Plateaus ==
  /\ reset \in 0 .. now
  /\ minimum \in [size : Nat, start : Nat, end : Nat]
  /\ minimum # NoMinimum /\ reset <= LastObservation => reset <= minimum.start

\* What is left of a minimum begins after the latest reset.
LEMMA BeforeIsClean ==
  ASSUME Reading, Plateaus
  PROVE  /\ Before \in [size : Nat, start : Nat, end : Nat]
         /\ Before # NoMinimum => reset <= Before.start
<1>1. LastObservation \in Nat
  <2>1. Max(Times(latest)) \in 0 .. now
    BY TimesBounds DEF Reading
  <2> QED BY <2>1 DEF LastObservation, Times, Reading
<1>2. CASE minimum # NoMinimum /\ reset > LastObservation
  BY <1>2 DEF Before, NoMinimum, Never
<1>3. CASE ~(minimum # NoMinimum /\ reset > LastObservation)
  BY <1>1, <1>3 DEF Before, Plateaus
<1> QED BY <1>2, <1>3

\* No minimum is kept at first.
LEMMA InitPlateaus ==
  Init => Plateaus
BY DEF Init, Plateaus, NoMinimum, Never

\* A minimum that is kept, and so a recovery, begins after the latest reset: a reset
\* that no observation has followed yet makes the next one forget the minimum.
LEMMA NextPlateaus ==
  Reading /\ Plateaus /\ [Next]_vars =>
    Plateaus' /\ (recovery' # recovery => reset <= recovery'.start)
<1> SUFFICES ASSUME Reading, Plateaus, [Next]_vars
             PROVE  Plateaus' /\ (recovery' # recovery => reset <= recovery'.start)
  OBVIOUS
<1> DEFINE G == Plateaus' /\ (recovery' # recovery => reset <= recovery'.start)
<1>0. now \in Nat \ {0} /\ reset \in 0 .. now
  BY DEF Reading, Plateaus
<1>1. ASSUME NEW b \in Board, Marker(b) PROVE G
  BY <1>1 DEF Marker, epochVars, recoveryVars, Plateaus, LastObservation
<1>2. ASSUME NEW i \in 1 .. Len(Closed), Measure(i) PROVE G
  BY <1>2 DEF Measure, recoveryVars, Plateaus, Reading, Never, LastObservation
<1>3. ASSUME NEW b \in Board, NEW h \in Home, Observe(b, h) PROVE G
  <2>1. CASE report # "recovery"
    <3>1. UNCHANGED <<minimum, recovery, reset, now>>
      BY <1>3, <2>1 DEF Observe
    <3>2. minimum = NoMinimum
      BY <2>1 DEF Reading
    <3> QED BY <3>1, <3>2 DEF Plateaus
  <2>2. CASE report = "recovery"
    <3>1. now' = now /\ reset' = reset /\ Recovery(h)
      BY <1>3, <2>2 DEF Observe
    <3>2. /\ Before \in [size : Nat, start : Nat, end : Nat]
          /\ Before # NoMinimum => reset <= Before.start
      BY BeforeIsClean
    <3> DEFINE size == Largest(latest')
    <3>3. Seen(latest') => size \in Nat
      <4> HIDE DEF size
      <4>1. latest' \in [Board -> Views(now)] /\ now \in Nat
        BY <1>3, <1>0, Observed
      <4>2. Cardinality(Board) \in Nat
        BY FS_CardinalityType, BoardsAssumption
      <4>3. Seen(latest') => Largest(latest') \in 0 .. Cardinality(Board)
        BY <4>1, LargestOf
      <4> QED BY <4>2, <4>3 DEF size
    <3>4. minimum' \in {Before, NoMinimum} \/ (Seen(latest') /\ minimum' = Plateau(Before, size))
      BY <3>1 DEF Recovery
    <3> HIDE DEF size
    <3>5. Seen(latest') => /\ Plateau(Before, size) \in [size : Nat, start : Nat, end : Nat]
                           /\ reset <= Plateau(Before, size).start
      <4> DEFINE before == Before
      <4> HIDE DEF before
      <4>1. /\ before \in [size : Nat, start : Nat, end : Nat]
            /\ before # NoMinimum => reset <= before.start
        BY <3>2 DEF before
      <4>2. Seen(latest') => /\ Plateau(before, size) \in [size : Nat, start : Nat, end : Nat]
                             /\ reset <= Plateau(before, size).start
        BY <1>0, <3>3, <4>1 DEF Plateau
      <4> QED BY <4>2 DEF before
    <3>6. NoMinimum \in [size : Nat, start : Nat, end : Nat]
      BY DEF NoMinimum, Never
    <3>7. minimum' \in [size : Nat, start : Nat, end : Nat] /\ (minimum' # NoMinimum => reset <= minimum'.start)
      BY <3>2, <3>4, <3>5, <3>6
    <3>8. recovery' # recovery => reset <= recovery'.start
      <4>1. recovery' # recovery => Recovered(Before, size) /\ recovery'.start = Before.start
        BY <3>1 DEF Recovery, size
      <4> QED BY <3>2, <4>1 DEF Recovered
    <3> QED BY <1>0, <3>1, <3>7, <3>8 DEF Plateaus
  <2> QED BY <2>1, <2>2
<1>4. ASSUME Reset PROVE G
  <2>1. /\ reset' = now /\ LastObservation < now
        /\ UNCHANGED <<now, latest, minimum, recovery>>
    BY <1>4 DEF Reset, recoveryVars
  <2>2. LastObservation' = LastObservation
    BY <2>1 DEF LastObservation
  <2>3. LastObservation \in Nat
    <3>1. Max(Times(latest)) \in 0 .. now
      BY TimesBounds DEF Reading
    <3> QED BY <3>1 DEF LastObservation, Times, Reading
  <2> QED BY <1>0, <2>1, <2>2, <2>3 DEF Plateaus
<1>5. ASSUME Evidence PROVE G
  BY <1>5 DEF Evidence, recoveryVars, Plateaus, LastObservation
<1>6. ASSUME Tick PROVE G
  BY <1>0, <1>6 DEF Tick, recoveryVars, Plateaus, LastObservation
<1>7. ASSUME UNCHANGED vars PROVE G
  BY <1>7 DEF vars, recoveryVars, Plateaus, LastObservation
<1> QED BY <1>1, <1>2, <1>3, <1>4, <1>5, <1>6, <1>7 DEF Next, Done

\* reset_recovery_events() reports no recovery with a reset between the minimum it
\* is counted from and its end (RecoveriesAreClean), for any boards, homes and skew.
THEOREM RecoveriesAreUndisturbed ==
  Spec => RecoveriesAreClean
<1>1. Init => Reading /\ Plateaus
  BY InitReading, InitPlateaus
<1>2. Reading /\ Plateaus /\ [Next]_vars =>
        (Reading /\ Plateaus)' /\ [recovery' # recovery => reset <= recovery'.start]_vars
  BY NextReading, NextPlateaus
<1> QED BY <1>1, <1>2, PTL DEF Spec, RecoveriesAreClean

-----------------------------------------------------------------------------
(* Snapshots *)

Snapshots ==
  /\ snapshot.t \in 0 .. now
  /\ snapshot.t = now => Seen(latest) /\ \A b \in Board : now - latest[b].t <= Skew

\* A step that observes says the same of all boards together in both reports.
LEMMA ObserveSnapshots ==
  ASSUME Reading, Snapshots, NEW b \in Board, NEW h \in Home, Observe(b, h)
  PROVE  /\ Snapshots'
         /\ (snapshot' = [t |-> now, largest |-> Cardinality(Board)]) <=> active' # NoHome
<1>1. /\ now' = now /\ report # "foreign" /\ reading = "observations"
      /\ latest' \in [Board -> Views(now)] /\ latest'[b].t = now /\ latest'[b].home = h
      /\ latest[b].t < now
      /\ \A c \in Board : c # b => latest'[c] = latest[c]
  BY Observed
<1>2. now \in Nat \ {0}
  BY DEF Reading
<1>3. Together(latest') <=> \A c \in Board : now - latest'[c].t <= Skew
  BY <1>1, <1>2, TogetherNow
<1>4. Seen(latest') => (Largest(latest') = Cardinality(Board) <=> Cardinality(Homes(latest')) = 1)
  BY <1>1, <1>2, LargestOf
<1>5. snapshot' = IF Fit(latest') THEN [t |-> now, largest |-> Largest(latest')] ELSE snapshot
  BY DEF Observe, Snapshot
<1>6. active' # NoHome <=> Agree(latest')
  BY BoardsAssumption DEF Observe, Convergence
<1>7. CASE Fit(latest')
  <2>1. Seen(latest') /\ Together(latest')
    BY <1>7 DEF Fit
  <2>2. snapshot' = [t |-> now, largest |-> Largest(latest')]
    BY <1>5, <1>7
  <2>3. Snapshots'
    BY <1>1, <1>2, <1>3, <2>1, <2>2 DEF Snapshots
  <2>4. Agree(latest') <=> Cardinality(Homes(latest')) = 1
    BY <2>1 DEF Agree
  <2>5. (snapshot' = [t |-> now, largest |-> Cardinality(Board)]) <=> Largest(latest') = Cardinality(Board)
    BY <2>2
  <2> QED BY <1>4, <1>6, <2>1, <2>3, <2>4, <2>5
<1>8. CASE ~Fit(latest')
  <2>1. snapshot' = snapshot /\ ~Agree(latest')
    BY <1>5, <1>8 DEF Fit, Agree
  <2>2. ASSUME snapshot.t = now PROVE FALSE
    <3>1. Seen(latest) /\ \A c \in Board : now - latest[c].t <= Skew
      BY <2>2 DEF Snapshots
    <3>2. Seen(latest')
      BY <1>1, <1>2, <3>1 DEF Seen, Unseen, Never
    <3>3. \A c \in Board : now - latest'[c].t <= Skew
      BY <1>1, <1>2, <3>1, SkewsAssumption
    <3> QED BY <1>3, <1>8, <3>2, <3>3 DEF Fit
  <2>3. snapshot' # [t |-> now, largest |-> Cardinality(Board)]
    BY <2>1, <2>2
  <2> QED BY <1>1, <1>6, <2>1, <2>2, <2>3 DEF Snapshots
<1> QED BY <1>7, <1>8

\* No other step observes.
LEMMA NextSnapshots ==
  Reading /\ Snapshots /\ [Next]_vars =>
    /\ Snapshots'
    /\ latest' # latest /\ report # "foreign" =>
         (snapshot' = [t |-> now, largest |-> Cardinality(Board)]) = (active' # NoHome)
<1> DEFINE Same == (snapshot' = [t |-> now, largest |-> Cardinality(Board)]) = (active' # NoHome)
<1> SUFFICES ASSUME Reading, Snapshots, [Next]_vars
             PROVE  Snapshots' /\ (latest' # latest => Same)
  OBVIOUS
<1>0. now \in Nat \ {0}
  BY DEF Reading
<1>1. ASSUME NEW b \in Board, Marker(b) PROVE Snapshots' /\ latest' = latest
  BY <1>1 DEF Marker, epochVars, recoveryVars, Snapshots, Seen
<1>2. ASSUME NEW i \in 1 .. Len(Closed), Measure(i) PROVE Snapshots' /\ latest' = latest
  BY <1>2 DEF Measure, recoveryVars, Snapshots, Reading, Never, Seen
<1>3. ASSUME NEW b \in Board, NEW h \in Home, Observe(b, h) PROVE Snapshots' /\ Same
  BY <1>3, ObserveSnapshots
<1>4. ASSUME Reset PROVE Snapshots' /\ latest' = latest
  BY <1>4 DEF Reset, epochVars, Snapshots, Seen
<1>5. ASSUME Evidence PROVE Snapshots' /\ latest' = latest
  BY <1>5 DEF Evidence, epochVars, Snapshots, Seen
<1>6. ASSUME Tick PROVE Snapshots' /\ latest' = latest
  BY <1>0, <1>6 DEF Tick, Snapshots
<1>7. ASSUME UNCHANGED vars PROVE Snapshots' /\ latest' = latest
  BY <1>7 DEF vars, Snapshots, Seen
<1> QED BY <1>1, <1>2, <1>3, <1>4, <1>5, <1>6, <1>7 DEF Next, Done

\* There is no snapshot at first.
LEMMA InitSnapshots ==
  Init => Snapshots
BY DEF Init, Snapshots, Never

\* complete_topology_snapshots() counts all boards in one group exactly when
\* global_home_convergences() has a convergence (SnapshotsAgree): a snapshot from
\* an earlier observation of the same instant never stands in for a view that is
\* too old.
THEOREM ReportsAgreeOnAllTogether ==
  Spec => SnapshotsAgree
<1> DEFINE Same == latest' # latest /\ report # "foreign" =>
       (snapshot' = [t |-> now, largest |-> Cardinality(Board)]) = (active' # NoHome)
<1>1. Init => Reading /\ Snapshots
  BY InitReading, InitSnapshots
<1>2. Reading /\ Snapshots /\ [Next]_vars => (Reading /\ Snapshots)' /\ [Same]_vars
  BY NextReading, NextSnapshots
<1> QED BY <1>1, <1>2, PTL DEF Spec, SnapshotsAgree

-----------------------------------------------------------------------------
(* The waves' types *)

WaveTypes ==
  /\ cluster \in [Board -> Nat] /\ cluster_start \in Nat
  /\ waves \in Seq([Board -> Nat])
  /\ markers \in SUBSET (Board \X (1 .. now))

\* A wave has a time for every board.
LEMMA ClosedTypes ==
  WaveTypes => Closed \in Seq([Board -> Nat])
BY DEF WaveTypes, Closed

\* There are no markers at first.
LEMMA InitWaveTypes ==
  Init => WaveTypes
BY DEF Init, WaveTypes, NoMarkers, Never

\* Markers are of the past, and waves and cluster of the type of a wave.
LEMMA NextWaveTypes ==
  Reading /\ WaveTypes /\ [Next]_vars => WaveTypes'
<1> SUFFICES ASSUME Reading, WaveTypes, [Next]_vars PROVE WaveTypes'
  OBVIOUS
<1>0. now \in Nat \ {0} /\ Closed \in Seq([Board -> Nat])
  BY ClosedTypes DEF Reading
<1> USE DEF WaveTypes
<1>1. ASSUME NEW b \in Board, Marker(b) PROVE WaveTypes'
  <2>1. cluster' \in [Board -> Nat] /\ cluster_start' \in Nat
    <3>1. NoMarkers \in [Board -> Nat]
      BY DEF NoMarkers, Never
    <3>2. [NoMarkers EXCEPT ![b] = now] \in [Board -> Nat] /\ [cluster EXCEPT ![b] = now] \in [Board -> Nat]
      BY <1>0, <3>1
    <3>3. \/ cluster' = [NoMarkers EXCEPT ![b] = now] /\ cluster_start' = now
          \/ cluster' = [cluster EXCEPT ![b] = now] /\ cluster_start' = cluster_start
      BY <1>1 DEF Marker
    <3> QED BY <1>0, <3>2, <3>3
  <2>2. waves' \in Seq([Board -> Nat])
    BY <1>0, <1>1 DEF Marker
  <2>3. markers' \in SUBSET (Board \X (1 .. now')) /\ now' = now
    BY <1>0, <1>1 DEF Marker
  <2> QED BY <2>1, <2>2, <2>3
<1>2. ASSUME NEW i \in 1 .. Len(Closed), Measure(i) PROVE WaveTypes'
  <2>1. /\ cluster' = NoMarkers /\ cluster_start' = Never /\ waves' = <<>> /\ markers' = {}
    BY <1>2 DEF Measure
  <2> QED BY <2>1 DEF NoMarkers, Never
<1>3. ASSUME NEW b \in Board, NEW h \in Home, Observe(b, h) PROVE WaveTypes'
  BY <1>3 DEF Observe, markerVars
<1>4. ASSUME Reset PROVE WaveTypes'
  BY <1>4 DEF Reset, markerVars
<1>5. ASSUME Evidence PROVE WaveTypes'
  BY <1>5 DEF Evidence, markerVars
<1>6. ASSUME Tick PROVE WaveTypes'
  <2>1. 1 .. now \subseteq 1 .. now'
    BY <1>0, <1>6 DEF Tick
  <2>2. markers' \in SUBSET (Board \X (1 .. now'))
    BY <1>6, <2>1 DEF Tick, markerVars
  <2> QED BY <1>6, <2>2 DEF Tick, markerVars
<1>7. ASSUME UNCHANGED vars PROVE WaveTypes'
  BY <1>7 DEF vars, markerVars
<1> QED BY <1>1, <1>2, <1>3, <1>4, <1>5, <1>6, <1>7 DEF Next, Done

\* A wave starts with one of its markers.
LEMMA WaveBounds ==
  ASSUME NEW w \in [Board -> Nat]
  PROVE  /\ WaveStart(w) \in Nat /\ \E b \in Board : WaveStart(w) = w[b]
         /\ \A b \in Board : WaveStart(w) <= w[b]
<1> DEFINE S == {w[b] : b \in Board}
<1>1. S \in SUBSET Nat /\ S # {}
  BY BoardsAssumption
<1>2. Min(S) \in S /\ \A m \in S : Min(S) <= m
  <2> HIDE DEF S
  <2> QED BY <1>1, MinOf
<1> QED BY <1>1, <1>2 DEF WaveStart

-----------------------------------------------------------------------------
(* Clean epochs *)

Epochs ==
  /\ wave \in [at : [Board -> Nat], next_start : Nat]
  /\ (report = "epochs" /\ consensus = Unseen /\ now < wave.next_start) =>
       since = [b \in Board |-> IF latest[b].t > wave.at[b] THEN latest[b] ELSE Unseen]

\* What a step may not do to the clean epoch.
EpochStep ==
  LET seen == \A b \in Board : latest'[b].t > wave.at[b] /\ latest'[b].t < wave.next_start
  IN  /\ consensus' # consensus => seen /\ active' = consensus'.home
      /\ report = "epochs" /\ latest' # latest /\ seen /\ active' # NoHome
           => consensus' # Unseen

\* What the wave has observed since its markers is what every board was seen in
\* last, where that is after the board's own marker.
LEMMA ObserveEpochs ==
  ASSUME Reading, Epochs, NEW b \in Board, NEW h \in Home, Observe(b, h)
  PROVE  Epochs' /\ EpochStep
<1> DEFINE at == wave.at
           next == wave.next_start
           seen == \A c \in Board : latest'[c].t > at[c] /\ latest'[c].t < next
<1>1. /\ now' = now /\ report # "foreign" /\ reading = "observations"
      /\ latest' \in [Board -> Views(now)] /\ latest'[b].t = now /\ latest'[b].home = h
      /\ latest[b].t < now
      /\ \A c \in Board : c # b => latest'[c] = latest[c]
  BY Observed
<1>2. /\ now \in Nat \ {0} /\ wave' = wave /\ report' = report
      /\ at \in [Board -> Nat] /\ next \in Nat /\ latest \in [Board -> Views(now)]
      /\ latest' = [latest EXCEPT ![b] = [t |-> now, home |-> h]]
  BY DEF Reading, Observe, Epochs
<1>3. active' = IF Agree(latest') THEN h ELSE NoHome
  BY DEF Observe, Convergence
<1>4. \A c \in Board : latest'[c].t \in 0 .. now /\ latest[c].t \in 0 .. now
  BY <1>1, <1>2, ViewTypes
<1> HIDE DEF at, next
<1>5. CASE report = "epochs" /\ consensus = Unseen /\ InWindow(b)
  <2>1. /\ since' = [since EXCEPT ![b] = [t |-> now, home |-> h]]
        /\ consensus' = IF Agree(since') THEN [t |-> now, home |-> h] ELSE consensus
        /\ now > at[b] /\ now < next
    BY <1>5 DEF Observe, Epoch, InWindow, at, next
  <2>2. since = [c \in Board |-> IF latest[c].t > at[c] THEN latest[c] ELSE Unseen]
    BY <1>5, <2>1 DEF Epochs, at, next
  <2>3. since' = [c \in Board |-> IF latest'[c].t > at[c] THEN latest'[c] ELSE Unseen]
    BY <1>1, <1>2, <2>1, <2>2
  <2>4. Epochs'
    BY <1>2, <2>3 DEF Epochs, at
  <2>5. Seen(since') => seen /\ since' = latest'
    <3>1. ASSUME Seen(since'), NEW c \in Board PROVE latest'[c].t > at[c] /\ since'[c] = latest'[c]
      BY <2>3, <3>1 DEF Seen
    <3>2. Seen(since') => since' = latest'
      BY <1>1, <2>3, <3>1
    <3>3. ASSUME NEW c \in Board PROVE latest'[c].t < next
      BY <1>2, <1>4, <2>1
    <3> QED BY <3>1, <3>2, <3>3
  <2>6. seen => since' = latest'
    BY <1>1, <2>3
  <2>7. consensus' # consensus => seen /\ active' = consensus'.home
    BY <1>3, <2>1, <2>5 DEF Agree
  <2>8. seen /\ active' # NoHome => consensus' # Unseen
    BY <1>2, <1>3, <2>1, <2>6 DEF Unseen, Never
  <2> QED BY <2>4, <2>7, <2>8 DEF EpochStep, at, next
<1>6. CASE ~(report = "epochs" /\ consensus = Unseen /\ InWindow(b))
  <2>1. UNCHANGED <<since, consensus>>
    BY <1>6 DEF Observe, Epoch
  <2>2. ASSUME report = "epochs", consensus = Unseen, now < next
        PROVE  since = [c \in Board |-> IF latest'[c].t > at[c] THEN latest'[c] ELSE Unseen]
    <3>1. now <= at[b]
      BY <1>2, <1>6, <2>2 DEF InWindow, at, next
    <3>2. since = [c \in Board |-> IF latest[c].t > at[c] THEN latest[c] ELSE Unseen]
      BY <2>2 DEF Epochs, at, next
    <3>3. ~(latest[b].t > at[b]) /\ ~(latest'[b].t > at[b])
      BY <1>1, <1>2, <1>4, <3>1
    <3>4. \A c \in Board : (IF latest'[c].t > at[c] THEN latest'[c] ELSE Unseen)
                         = (IF latest[c].t > at[c] THEN latest[c] ELSE Unseen)
      BY <1>1, <3>3
    <3> QED BY <3>2, <3>4
  <2>3. Epochs'
    BY <1>1, <1>2, <2>1, <2>2 DEF Epochs, at, next
  <2>4. report = "epochs" /\ seen => consensus' # Unseen
    <3>1. seen => InWindow(b)
      BY <1>1 DEF InWindow, at, next
    <3> QED BY <1>6, <2>1, <3>1
  <2> QED BY <2>1, <2>3, <2>4 DEF EpochStep, at, next
<1> QED BY <1>5, <1>6

\* A wave that is measured has observed nothing yet.
LEMMA MeasureEpochs ==
  ASSUME Reading, WaveTypes, NEW i \in 1 .. Len(Closed), Measure(i)
  PROVE  Epochs' /\ UNCHANGED <<consensus, latest>>
<1>1. /\ latest = AllUnseen /\ since = AllUnseen /\ UNCHANGED <<latest, since, consensus>>
      /\ wave' = [at |-> Closed[i],
                  next_start |-> IF i < Len(Closed) THEN WaveStart(Closed[i + 1]) ELSE End + 1]
  BY DEF Measure, Reading
<1>2. Closed \in Seq([Board -> Nat])
  BY ClosedTypes
<1>3. Closed[i] \in [Board -> Nat] /\ (i < Len(Closed) => WaveStart(Closed[i + 1]) \in Nat)
  <2>1. i < Len(Closed) => Closed[i + 1] \in [Board -> Nat]
    BY <1>2
  <2> QED BY <1>2, <2>1, WaveBounds
<1>4. End + 1 \in Nat
  BY SkewsAssumption
<1>5. wave' \in [at : [Board -> Nat], next_start : Nat]
  BY <1>1, <1>3, <1>4
<1>6. \A b \in Board : ~(latest'[b].t > wave'.at[b])
  <2>1. \A b \in Board : latest'[b].t = 0
    BY <1>1 DEF AllUnseen, Unseen, Never
  <2>2. \A b \in Board : wave'.at[b] \in Nat
    BY <1>5
  <2> QED BY <2>1, <2>2
<1> QED BY <1>1, <1>5, <1>6 DEF Epochs, AllUnseen

\* Every other step leaves the observations alone, and time only ends the wave.
LEMMA NextEpochs ==
  Reading /\ WaveTypes /\ Epochs /\ [Next]_vars => Epochs' /\ [EpochStep]_vars
<1> SUFFICES ASSUME Reading, WaveTypes, Epochs, [Next]_vars PROVE Epochs' /\ [EpochStep]_vars
  OBVIOUS
<1>0. now \in Nat \ {0} /\ wave.next_start \in Nat
  BY DEF Reading, Epochs
<1>q. UNCHANGED <<consensus, latest>> => EpochStep
  BY DEF EpochStep
<1>1. ASSUME NEW b \in Board, Marker(b) PROVE Epochs' /\ UNCHANGED <<consensus, latest>>
  BY <1>1 DEF Marker, epochVars, Epochs
<1>2. ASSUME NEW i \in 1 .. Len(Closed), Measure(i) PROVE Epochs' /\ UNCHANGED <<consensus, latest>>
  BY <1>2, MeasureEpochs
<1>3. ASSUME NEW b \in Board, NEW h \in Home, Observe(b, h) PROVE Epochs' /\ EpochStep
  BY <1>3, ObserveEpochs
<1>4. ASSUME Reset PROVE Epochs' /\ UNCHANGED <<consensus, latest>>
  BY <1>4 DEF Reset, epochVars, Epochs
<1>5. ASSUME Evidence PROVE Epochs' /\ UNCHANGED <<consensus, latest>>
  BY <1>5 DEF Evidence, epochVars, Epochs
<1>6. ASSUME Tick PROVE Epochs' /\ UNCHANGED <<consensus, latest>>
  <2>1. now' = now + 1 /\ UNCHANGED <<wave, since, consensus, latest, report>>
    BY <1>6 DEF Tick, epochVars
  <2>2. now' < wave.next_start => now < wave.next_start
    BY <1>0, <2>1
  <2> QED BY <2>1, <2>2 DEF Epochs
<1>7. ASSUME UNCHANGED vars PROVE Epochs' /\ UNCHANGED <<consensus, latest>>
  BY <1>7 DEF vars, epochVars, Epochs
<1> QED BY <1>q, <1>1, <1>2, <1>3, <1>4, <1>5, <1>6, <1>7 DEF Next, Done

\* No wave is measured at first.
LEMMA InitEpochs ==
  Init => Epochs
BY DEF Init, Epochs, NoMarkers, Never

\* epoch_recovery_events() ends a clean epoch in the first convergence that the
\* boards are seen in between their own markers and the next wave, and in no other
\* (EpochsEndConverged).
THEOREM EpochsEndTogether ==
  Spec => EpochsEndConverged
<1>1. Init => Reading /\ WaveTypes /\ Epochs
  BY InitReading, InitWaveTypes, InitEpochs
<1>2. Reading /\ WaveTypes /\ Epochs /\ [Next]_vars =>
        (Reading /\ WaveTypes /\ Epochs)' /\ [EpochStep]_vars
  BY NextReading, NextWaveTypes, NextEpochs
<1>3. [EpochStep]_vars =>
        [LET seen == \A b \in Board : latest'[b].t > wave.at[b] /\ latest'[b].t < wave.next_start
         IN  /\ consensus' # consensus => seen /\ active' = consensus'.home
             /\ report = "epochs" /\ latest' # latest /\ seen /\ active' # NoHome
                  => consensus' # Unseen]_vars
  BY DEF EpochStep
<1> QED BY <1>1, <1>2, <1>3, PTL DEF Spec, EpochsEndConverged

-----------------------------------------------------------------------------
(* Foreign evidence *)

Ends(t) == Least(coverage.end, t + Freshness)
Begins(t) == Most(coverage.start, t)
Counts(t) == Ends(t) > Begins(t)

Instants(c) ==
  {i \in c.start .. c.end - 1 : \E t \in c.times : t <= i /\ i < t + Freshness}

Merged ==
  /\ coverage \in [start : Nat \ {0}, end : Nat, covered : Nat, merged_end : Int, times : SUBSET (1 .. now)]
  /\ \A t \in coverage.times : Counts(t) => Ends(t) <= coverage.merged_end
  /\ coverage.merged_end = -1
       \/ \E t \in coverage.times : Counts(t) /\ Ends(t) = coverage.merged_end

Covered == report = "foreign" => Merged /\ coverage.covered = Cardinality(Instants(coverage))

\* From now on, what is covered already is what comes before merged_end.
LEMMA CoveredFromNow ==
  ASSUME Reading, Merged, NEW i \in coverage.start .. coverage.end - 1, i >= now
  PROVE  i \in Instants(coverage) <=> i < coverage.merged_end
<1> DEFINE start == coverage.start
           end == coverage.end
           merged == coverage.merged_end
           times == coverage.times
<1>1. /\ start \in Nat \ {0} /\ end \in Nat /\ merged \in Int /\ now \in Nat \ {0} /\ Freshness \in Nat
      /\ \A t \in times : t \in 1 .. now
  BY SkewsAssumption DEF Reading, Merged
<1>2. i \in start .. end - 1
  OBVIOUS
<1>3. ASSUME NEW t \in times, t <= i, i < t + Freshness PROVE i < merged
  <2>1. Ends(t) > i /\ Begins(t) <= i
    BY <1>1, <1>2, <1>3 DEF Ends, Begins, Least, Most
  <2>2. Ends(t) \in Int /\ Begins(t) \in Int
    BY <1>1 DEF Ends, Begins, Least, Most
  <2>3. Ends(t) <= merged
    <3>1. Counts(t)
      BY <1>2, <2>1, <2>2 DEF Counts
    <3> QED BY <3>1 DEF Merged
  <2> QED BY <1>1, <1>2, <2>1, <2>2, <2>3
<1>4. ASSUME i < merged PROVE \E t \in times : t <= i /\ i < t + Freshness
  <2>1. merged # -1
    BY <1>1, <1>2, <1>4
  <2>2. PICK t \in times : Ends(t) = merged
    BY <2>1 DEF Merged
  <2>3. i < t + Freshness
    BY <1>1, <1>2, <1>4, <2>2 DEF Ends, Least
  <2> QED BY <1>1, <1>2, <2>3
<1> QED BY <1>2, <1>3, <1>4 DEF Instants

\* What Fresh() counts is what the new evidence covers and none did before.
LEMMA FreshCounts ==
  ASSUME Reading, report = "foreign", Covered, Evidence
  PROVE  coverage'.covered = Cardinality(Instants(coverage'))
<1> DEFINE start == coverage.start
           end == coverage.end
           merged == coverage.merged_end
           left == Begins(now)
           right == Ends(now)
           old == Instants(coverage)
           new == {i \in left .. right - 1 : ~(i < merged)}
<1>0. Merged /\ coverage.covered = Cardinality(old)
  BY DEF Covered
<1>1. /\ start \in Nat \ {0} /\ end \in Nat /\ merged \in Int /\ now \in Nat \ {0} /\ Freshness \in Nat
      /\ \A t \in coverage.times : t \in 1 .. now
  BY <1>0, SkewsAssumption DEF Reading, Merged
<1>2. /\ left \in Nat /\ right \in Int
      /\ \A i \in Int : i \in left .. right - 1 <=> i \in start .. end - 1 /\ now <= i /\ i < now + Freshness
  BY <1>1 DEF Begins, Ends, Least, Most
<1>3. /\ coverage'.start = start /\ coverage'.end = end /\ coverage'.times = coverage.times \cup {now}
      /\ coverage'.covered = IF right > left THEN coverage.covered + Fresh(left, right) ELSE coverage.covered
  BY <1>0 DEF Evidence, Merged, Begins, Ends
<1>4. Instants(coverage') = old \cup new
  <2>1. ASSUME NEW i \in start .. end - 1
        PROVE  i \in Instants(coverage') <=> i \in old \/ (now <= i /\ i < now + Freshness)
    BY <1>3 DEF Instants
  <2>2. ASSUME NEW i \in start .. end - 1, now <= i PROVE i \in old <=> i < merged
    BY <1>0, <1>1, <2>2, CoveredFromNow
  <2>3. Instants(coverage') \subseteq start .. end - 1 /\ old \subseteq start .. end - 1
    BY <1>3 DEF Instants
  <2>4. new \subseteq start .. end - 1
    BY <1>2
  <2> HIDE DEF old, left, right
  <2>5. ASSUME NEW i \in start .. end - 1 PROVE i \in Instants(coverage') <=> i \in old \cup new
    BY <1>1, <1>2, <2>1, <2>2
  <2> QED BY <2>3, <2>4, <2>5
<1>5. old \cap new = {}
  <2>1. ASSUME NEW i \in old, i \in new PROVE FALSE
    <3>1. i \in start .. end - 1 /\ i >= now /\ ~(i < merged)
      BY <1>1, <1>2, <2>1
    <3> QED BY <1>0, <2>1, <3>1, CoveredFromNow
  <2> QED BY <2>1
<1>6. IsFiniteSet(old) /\ Cardinality(old) \in Nat
  <2>1. old \subseteq start .. end - 1
    BY DEF Instants
  <2>2. IsFiniteSet(start .. end - 1)
    BY <1>1, FS_Interval
  <2> HIDE DEF old
  <2> QED BY <2>1, <2>2, FS_Subset, FS_CardinalityType
<1>7. IsFiniteSet(new) /\ Cardinality(new) = IF right > left THEN Fresh(left, right) ELSE 0
  <2> DEFINE from == Most(left, merged)
  <2> HIDE DEF left, right
  <2>1. from \in Int /\ new = from .. right - 1
    BY <1>1, <1>2 DEF Most
  <2>2. IsFiniteSet(new) /\ Cardinality(new) = IF from > right - 1 THEN 0 ELSE (right - 1) - from + 1
    <3> HIDE DEF new, from
    <3> QED BY <1>2, <2>1, FS_Interval
  <2>3. (IF from > right - 1 THEN 0 ELSE (right - 1) - from + 1) = IF right > left THEN Fresh(left, right) ELSE 0
    BY <1>1, <1>2 DEF Most, Fresh
  <2> QED BY <2>2, <2>3
<1> HIDE DEF old, new, left, right
<1>8. Cardinality(old \cup new) = Cardinality(old) + Cardinality(new)
  <2>1. Cardinality(old \cup new) = Cardinality(old) + Cardinality(new) - Cardinality(old \cap new)
    BY <1>6, <1>7, FS_Union
  <2>2. Cardinality(old \cap new) = 0
    BY <1>5, FS_EmptySet
  <2>3. Cardinality(new) \in Nat
    BY <1>7, FS_CardinalityType
  <2> QED BY <1>6, <2>1, <2>2, <2>3
<1> QED BY <1>0, <1>3, <1>4, <1>6, <1>7, <1>8

\* What is merged ends with the evidence that counts for longest.
LEMMA EvidenceMerges ==
  ASSUME Reading, report = "foreign", Covered, Evidence
  PROVE  Merged'
<1> DEFINE left == Begins(now)
           right == Ends(now)
           merged == coverage.merged_end
           end == coverage.end
<1>0. Merged
  BY DEF Covered
<1>1. /\ coverage.start \in Nat \ {0} /\ end \in Nat /\ merged \in Int /\ now \in Nat \ {0}
      /\ Freshness \in Nat /\ coverage.covered \in Nat
      /\ coverage.times \in SUBSET (1 .. now)
  BY <1>0, SkewsAssumption DEF Reading, Merged
<1>2. left \in Nat /\ right \in Int
  BY <1>1 DEF Begins, Ends, Least, Most
<1>3. /\ coverage' = [coverage EXCEPT !.times = @ \cup {now},
                            !.covered = IF right > left THEN @ + Fresh(left, right) ELSE @,
                            !.merged_end = IF right > left THEN Most(@, right) ELSE @]
      /\ now' = now
  BY DEF Evidence, Begins, Ends
<1>4. /\ coverage'.start = coverage.start /\ coverage'.end = end /\ coverage'.times = coverage.times \cup {now}
      /\ coverage'.merged_end = IF right > left THEN Most(merged, right) ELSE merged
  BY <1>0, <1>3 DEF Merged
<1>5. \A t : Ends(t)' = Ends(t) /\ Begins(t)' = Begins(t) /\ (Counts(t)' <=> Counts(t))
  BY <1>4 DEF Ends, Begins, Counts
<1>6. \A t \in coverage.times : Ends(t) \in Int
  BY <1>1 DEF Ends, Least
<1> HIDE DEF left, right
<1>7. coverage' \in [start : Nat \ {0}, end : Nat, covered : Nat, merged_end : Int, times : SUBSET (1 .. now')]
  <2>1. right > left => Fresh(left, right) \in Nat /\ Most(merged, right) \in Int
    BY <1>1, <1>2 DEF Fresh, Most
  <2>2. coverage.times \cup {now} \in SUBSET (1 .. now)
    BY <1>1
  <2>3. coverage \in [start : Nat \ {0}, end : Nat, covered : Nat, merged_end : Int, times : SUBSET (1 .. now)]
    BY <1>0 DEF Merged
  <2>4. (IF right > left THEN coverage.covered + Fresh(left, right) ELSE coverage.covered) \in Nat
    BY <1>1, <2>1
  <2>5. (IF right > left THEN Most(merged, right) ELSE merged) \in Int
    BY <1>1, <2>1
  <2> QED BY <1>3, <2>2, <2>3, <2>4, <2>5
<1>8. ASSUME NEW t \in coverage'.times, Counts(t) PROVE Ends(t) <= coverage'.merged_end
  <2>1. CASE t \in coverage.times
    <3>1. Ends(t) <= merged /\ Ends(t) \in Int
      BY <1>0, <1>6, <1>8, <2>1 DEF Merged
    <3> QED BY <1>1, <1>2, <1>4, <3>1 DEF Most
  <2>2. CASE t = now
    <3>1. right > left /\ Ends(t) = right
      BY <1>8, <2>2 DEF Counts, left, right
    <3> QED BY <1>1, <1>2, <1>4, <3>1 DEF Most
  <2> QED BY <1>4, <2>1, <2>2
<1>9. coverage'.merged_end = -1 \/ \E t \in coverage'.times : Counts(t) /\ Ends(t) = coverage'.merged_end
  <2>1. CASE coverage'.merged_end = merged
    BY <1>0, <1>4, <2>1 DEF Merged
  <2>2. CASE coverage'.merged_end # merged
    <3>1. right > left /\ coverage'.merged_end = right
      BY <1>4, <2>2 DEF Most
    <3>2. Counts(now) /\ Ends(now) = right /\ now \in coverage'.times
      BY <1>4, <3>1 DEF Counts, left, right
    <3> QED BY <3>1, <3>2
  <2> QED BY <2>1, <2>2
<1> QED BY <1>5, <1>7, <1>8, <1>9 DEF Merged

\* Without evidence nothing is covered.
LEMMA InitCovered ==
  Init => Covered
<1> SUFFICES ASSUME Init, report = "foreign" PROVE Merged /\ coverage.covered = Cardinality(Instants(coverage))
  BY DEF Covered
<1>1. PICK s \in 1 .. End, e \in 2 .. End + 1 :
        coverage = [start |-> s, end |-> e, covered |-> 0, merged_end |-> Never - 1, times |-> {}]
  BY DEF Init
<1>2. Instants(coverage) = {}
  BY <1>1 DEF Instants
<1>3. coverage.covered = Cardinality(Instants(coverage))
  BY <1>1, <1>2, FS_EmptySet
<1>4. s \in Nat \ {0} /\ e \in Nat /\ Never - 1 \in Int /\ Never - 1 = -1
  BY SkewsAssumption DEF Never
<1>5. coverage \in [start : Nat \ {0}, end : Nat, covered : Nat, merged_end : Int, times : SUBSET (1 .. now)]
  BY <1>1, <1>4
<1> QED BY <1>1, <1>3, <1>4, <1>5 DEF Merged

\* Only evidence covers.
LEMMA NextCovered ==
  Reading /\ Covered /\ [Next]_vars => Covered'
<1> SUFFICES ASSUME Reading, Covered, [Next]_vars, report' = "foreign" PROVE Covered'
  BY DEF Covered
<1>1. ASSUME NEW b \in Board, Marker(b) PROVE Covered'
  BY <1>1 DEF Marker, Covered, Merged, Counts, Ends, Begins, Instants
<1>2. ASSUME NEW i \in 1 .. Len(Closed), Measure(i) PROVE Covered'
  BY <1>2 DEF Measure, Reading
<1>3. ASSUME NEW b \in Board, NEW h \in Home, Observe(b, h) PROVE Covered'
  BY <1>3 DEF Observe
<1>4. ASSUME Reset PROVE Covered'
  BY <1>4 DEF Reset
<1>5. ASSUME Evidence PROVE Covered'
  BY <1>5, FreshCounts, EvidenceMerges DEF Covered, Evidence
<1>6. ASSUME Tick PROVE Covered'
  <2>1. report' = report /\ coverage' = coverage /\ 1 .. now \subseteq 1 .. now'
    BY <1>6 DEF Tick, Reading
  <2> QED BY <2>1 DEF Covered, Merged, Counts, Ends, Begins, Instants
<1>7. ASSUME UNCHANGED vars PROVE Covered'
  BY <1>7 DEF vars, Covered, Merged, Counts, Ends, Begins, Instants
<1> QED BY <1>1, <1>2, <1>3, <1>4, <1>5, <1>6, <1>7 DEF Next, Done

\* foreign_coverage() counts every instant of its interval in which some evidence is
\* fresh, and counts it once (CoverageIsUnion), for any interval and freshness.
THEOREM EvidenceCountsOnce ==
  Spec => []CoverageIsUnion
<1>1. Init => Reading /\ Covered
  BY InitReading, InitCovered
<1>2. Reading /\ Covered /\ [Next]_vars => (Reading /\ Covered)'
  BY NextReading, NextCovered
<1>3. Covered => CoverageIsUnion
  BY DEF Covered, Instants, CoverageIsUnion
<1> QED BY <1>1, <1>2, <1>3, PTL DEF Spec

-----------------------------------------------------------------------------
(* Waves of resets *)

InSkew(first, t) == t \in first .. first + MarkerSkew

\* No board's marker in M comes within the skew before this.
Isolated(M, first) ==
  /\ \E m \in M : m[2] = first
  /\ \A m \in M : m[2] \notin first - MarkerSkew .. first - 1

Silent(M, b, first) == \A m \in M : m[1] = b => ~InSkew(first, m[2])

LatestOf(M, b, t, first) ==
  /\ <<b, t>> \in M /\ InSkew(first, t)
  /\ \A m \in M : m[1] = b /\ InSkew(first, m[2]) => m[2] <= t

\* The last marker of every board within the skew, or none.
LastMarkers(M, c, first) ==
  \A b \in Board : \/ c[b] = Never /\ Silent(M, b, first)
                   \/ LatestOf(M, b, c[b], first)

Ordered(ws, M) ==
  \A i \in 1 .. Len(ws) :
    /\ \A b \in Board : <<b, ws[i][b]>> \in M
    /\ \A b, c \in Board : ws[i][b] - ws[i][c] <= MarkerSkew
    /\ i < Len(ws) => \A b, c \in Board : ws[i][b] < ws[i + 1][c]

Found(M, c, start, ws, first) ==
  \/ start = first /\ LastMarkers(M, c, first)
  \/ /\ start > first + MarkerSkew
     /\ \/ \E b \in Board : Silent(M, b, first)
        \/ \E i \in 1 .. Len(ws) : LastMarkers(M, ws[i], first)

Clustered ==
  /\ cluster_start = Never => cluster = NoMarkers /\ markers = {} /\ waves = <<>>
  /\ cluster_start # Never => \E m \in markers : m[2] = cluster_start
  /\ \A m \in markers : m[2] <= cluster_start + MarkerSkew
  /\ \A b \in Board : cluster[b] # Never =>
       <<b, cluster[b]>> \in markers /\ InSkew(cluster_start, cluster[b])

Passed ==
  /\ Ordered(waves, markers)
  /\ \A i \in 1 .. Len(waves) : \A b \in Board : waves[i][b] < cluster_start

AllFound ==
  \A first \in Nat : Isolated(markers, first) => Found(markers, cluster, cluster_start, waves, first)

\* A marker isolates none that was not.
LEMMA OneMore ==
  ASSUME NEW M \in SUBSET (Board \X Nat), NEW b \in Board, NEW n \in Nat, NEW first \in Nat, first # n,
         Isolated(M \cup {<<b, n>>}, first)
  PROVE  Isolated(M, first)
BY DEF Isolated

\* A marker outside the skew changes neither who is silent in it ...
LEMMA SilentStays ==
  ASSUME NEW M \in SUBSET (Board \X Nat), NEW b \in Board, NEW n \in Nat, NEW first \in Nat,
         ~InSkew(first, n), NEW c \in Board, Silent(M, c, first)
  PROVE  Silent(M \cup {<<b, n>>}, c, first)
BY DEF Silent

\* ... nor who came last in it.
LEMMA LastStays ==
  ASSUME NEW M \in SUBSET (Board \X Nat), NEW b \in Board, NEW n \in Nat, NEW first \in Nat,
         ~InSkew(first, n), NEW w \in [Board -> Nat], LastMarkers(M, w, first)
  PROVE  LastMarkers(M \cup {<<b, n>>}, w, first)
<1> DEFINE N == M \cup {<<b, n>>}
<1> SUFFICES ASSUME NEW c \in Board
             PROVE  (w[c] = Never /\ Silent(N, c, first)) \/ LatestOf(N, c, w[c], first)
  BY DEF LastMarkers
<1>1. CASE w[c] = Never /\ Silent(M, c, first)
  BY <1>1, SilentStays
<1>2. CASE LatestOf(M, c, w[c], first)
  BY <1>2 DEF LatestOf
<1> QED BY <1>1, <1>2 DEF LastMarkers

\* The marker that is read is its board's last.
LEMMA LastMoves ==
  ASSUME NEW M \in SUBSET (Board \X Nat), NEW b \in Board, NEW n \in Nat, NEW first \in Nat,
         InSkew(first, n), \A m \in M : m[2] <= n,
         NEW w \in [Board -> Nat], LastMarkers(M, w, first)
  PROVE  LastMarkers(M \cup {<<b, n>>}, [w EXCEPT ![b] = n], first)
<1> DEFINE N == M \cup {<<b, n>>}
           v == [w EXCEPT ![b] = n]
<1> SUFFICES ASSUME NEW c \in Board
             PROVE  (v[c] = Never /\ Silent(N, c, first)) \/ LatestOf(N, c, v[c], first)
  BY DEF LastMarkers
<1>1. CASE c = b
  BY <1>1 DEF LatestOf
<1>2. CASE c # b
  <2>1. v[c] = w[c]
    BY <1>2
  <2>2. CASE w[c] = Never /\ Silent(M, c, first)
    BY <1>2, <2>1, <2>2 DEF Silent
  <2>3. CASE LatestOf(M, c, w[c], first)
    BY <1>2, <2>1, <2>3 DEF LatestOf
  <2> QED BY <2>2, <2>3 DEF LastMarkers
<1> QED BY <1>1, <1>2

\* The cluster that is open, once it is closed.
LEMMA ClosedPassed ==
  ASSUME WaveTypes, Clustered, Passed
  PROVE  /\ Ordered(Closed, markers)
         /\ \A i \in 1 .. Len(Closed) : \A b \in Board : Closed[i][b] <= cluster_start + MarkerSkew
<1>0. cluster_start \in Nat /\ MarkerSkew \in Nat /\ cluster \in [Board -> Nat] /\ waves \in Seq([Board -> Nat])
  BY SkewsAssumption DEF WaveTypes
<1>1. CASE ~Complete(cluster)
  <2>1. Closed = waves
    BY <1>1 DEF Closed
  <2>2. ASSUME NEW i \in 1 .. Len(waves), NEW b \in Board PROVE waves[i][b] <= cluster_start + MarkerSkew
    <3>1. waves[i][b] \in Nat /\ waves[i][b] < cluster_start
      BY <1>0 DEF Passed
    <3> QED BY <1>0, <3>1
  <2> QED BY <2>1, <2>2 DEF Passed
<1>2. CASE Complete(cluster)
  <2> DEFINE n == Len(waves)
  <2>1. Closed = Append(waves, cluster)
    BY <1>2 DEF Closed
  <2>2. /\ n \in Nat /\ Len(Closed) = n + 1 /\ Closed[n + 1] = cluster
        /\ \A i \in 1 .. n : Closed[i] = waves[i]
    BY <1>0, <2>1
  <2>3. \A b \in Board : /\ <<b, cluster[b]>> \in markers /\ cluster[b] \in Nat
                         /\ cluster_start <= cluster[b] /\ cluster[b] <= cluster_start + MarkerSkew
    BY <1>0, <1>2 DEF Complete, Clustered, InSkew
  <2>4. ASSUME NEW i \in 1 .. n
        PROVE  /\ \A b \in Board : <<b, waves[i][b]>> \in markers
               /\ \A b, c \in Board : waves[i][b] - waves[i][c] <= MarkerSkew
               /\ \A b \in Board : waves[i][b] < cluster_start /\ waves[i][b] \in Nat
               /\ i < n => \A b, c \in Board : waves[i][b] < waves[i + 1][c]
    BY <1>0 DEF Passed, Ordered
  <2> HIDE DEF n
  <2>5. ASSUME NEW i \in 1 .. n + 1
        PROVE  /\ \A b \in Board : <<b, Closed[i][b]>> \in markers
               /\ \A b, c \in Board : Closed[i][b] - Closed[i][c] <= MarkerSkew
               /\ i < n + 1 => \A b, c \in Board : Closed[i][b] < Closed[i + 1][c]
               /\ \A b \in Board : Closed[i][b] <= cluster_start + MarkerSkew
    <3>1. CASE i = n + 1
      <4>1. Closed[i] = cluster /\ ~(i < n + 1)
        BY <2>2, <3>1
      <4>2. ASSUME NEW b \in Board, NEW c \in Board PROVE cluster[b] - cluster[c] <= MarkerSkew
        <5>1. /\ cluster[b] \in Nat /\ cluster[b] <= cluster_start + MarkerSkew
              /\ cluster[c] \in Nat /\ cluster_start <= cluster[c]
          BY <2>3
        <5> QED BY <1>0, <5>1
      <4> QED BY <2>3, <4>1, <4>2
    <3>2. CASE i \in 1 .. n
      <4>1. Closed[i] = waves[i]
        BY <2>2, <3>2
      <4>2. \A b \in Board : Closed[i][b] <= cluster_start + MarkerSkew
        BY <1>0, <2>4, <3>2, <4>1
      <4>3. ASSUME i < n, NEW b \in Board, NEW c \in Board PROVE Closed[i][b] < Closed[i + 1][c]
        <5>1. i + 1 \in 1 .. n
          BY <2>2, <3>2, <4>3
        <5>2. Closed[i + 1] = waves[i + 1]
          BY <2>2, <5>1
        <5> QED BY <2>4, <3>2, <4>1, <4>3, <5>2
      <4>4. ASSUME i = n, NEW b \in Board, NEW c \in Board PROVE Closed[i][b] < Closed[i + 1][c]
        <5>1. waves[i][b] < cluster_start /\ waves[i][b] \in Nat
          BY <2>4, <3>2
        <5>2. cluster_start <= cluster[c] /\ cluster[c] \in Nat
          BY <2>3
        <5>3. Closed[i + 1] = cluster
          BY <2>2, <4>4
        <5> QED BY <1>0, <4>1, <5>1, <5>2, <5>3
      <4>5. i < n \/ i = n
        BY <2>2, <3>2
      <4> QED BY <2>4, <3>2, <4>1, <4>2, <4>3, <4>4, <4>5
    <3> QED BY <2>2, <3>1, <3>2
  <2> QED BY <2>2, <2>5 DEF Ordered
<1> QED BY <1>1, <1>2

-----------------------------------------------------------------------------
(* A marker *)

\* All of it holds of no markers.
LEMMA InitWaves ==
  Init => Clustered /\ Passed /\ AllFound
BY DEF Init, Clustered, Passed, AllFound, NoMarkers, Ordered, Isolated

\* What a marker does to the loop's variables.
LEMMA MarkerEffect ==
  ASSUME Reading, WaveTypes, Clustered, NEW b \in Board, Marker(b)
  PROVE  /\ markers' = markers \cup {<<b, now>>} /\ markers \in SUBSET (Board \X Nat)
         /\ \A m \in markers : m[2] <= now
         /\ \/ /\ cluster_start = Never \/ (cluster_start + MarkerSkew < now /\ cluster_start # Never)
               /\ waves' = Closed /\ cluster' = [NoMarkers EXCEPT ![b] = now] /\ cluster_start' = now
            \/ /\ cluster_start # Never /\ InSkew(cluster_start, now)
               /\ UNCHANGED <<waves, cluster_start>> /\ cluster' = [cluster EXCEPT ![b] = now]
<1>0. /\ cluster_start \in Nat /\ now \in Nat \ {0} /\ MarkerSkew \in Nat
      /\ markers \in SUBSET (Board \X (1 .. now))
  BY SkewsAssumption DEF Reading, WaveTypes
<1>1. markers \in SUBSET (Board \X Nat) /\ \A m \in markers : m[2] <= now
  BY <1>0
<1>2. cluster_start # Never => cluster_start <= now
  BY <1>1 DEF Clustered
<1>3. Later <=> cluster_start + MarkerSkew < now
  BY <1>0 DEF Later
<1>4. cluster_start # Never /\ ~Later => InSkew(cluster_start, now)
  BY <1>0, <1>2, <1>3 DEF InSkew
<1>5. markers' = markers \cup {<<b, now>>}
  BY DEF Marker
<1>6. CASE cluster_start = Never \/ Later
  BY <1>1, <1>3, <1>5, <1>6 DEF Marker
<1>7. CASE ~(cluster_start = Never \/ Later)
  BY <1>1, <1>4, <1>5, <1>7 DEF Marker
<1> QED BY <1>6, <1>7

\* The cluster is of markers within the skew of its first, and no marker is later
\* than that.
LEMMA MarkerClustered ==
  ASSUME Reading, WaveTypes, Clustered, NEW b \in Board, Marker(b)
  PROVE  Clustered'
<1>0. /\ cluster_start \in Nat /\ now \in Nat \ {0} /\ MarkerSkew \in Nat
      /\ cluster \in [Board -> Nat] /\ NoMarkers \in [Board -> Nat]
  BY SkewsAssumption DEF Reading, WaveTypes, NoMarkers, Never
<1>1. /\ markers' = markers \cup {<<b, now>>} /\ markers \in SUBSET (Board \X Nat)
      /\ \A m \in markers : m[2] <= now
  BY MarkerEffect
<1>2. CASE cluster' = [NoMarkers EXCEPT ![b] = now] /\ cluster_start' = now
  <2>1. cluster_start' # Never /\ <<b, now>> \in markers'
    BY <1>0, <1>1, <1>2 DEF Never
  <2>2. \A m \in markers' : m[2] <= cluster_start' + MarkerSkew
    BY <1>0, <1>1, <1>2
  <2>3. \A c \in Board : cluster'[c] # Never => c = b /\ cluster'[c] = now
    BY <1>0, <1>2 DEF NoMarkers
  <2>4. InSkew(now, now)
    BY <1>0 DEF InSkew
  <2> QED BY <1>2, <2>1, <2>2, <2>3, <2>4 DEF Clustered
<1>3. CASE /\ cluster_start # Never /\ InSkew(cluster_start, now)
           /\ cluster_start' = cluster_start /\ cluster' = [cluster EXCEPT ![b] = now]
  <2>1. \A m \in markers' : m[2] <= cluster_start + MarkerSkew
    BY <1>0, <1>1, <1>3 DEF Clustered, InSkew
  <2>2. \E m \in markers' : m[2] = cluster_start
    BY <1>1, <1>3 DEF Clustered
  <2>3. ASSUME NEW c \in Board, cluster'[c] # Never
        PROVE  <<c, cluster'[c]>> \in markers' /\ InSkew(cluster_start, cluster'[c])
    <3>1. CASE c = b
      BY <1>0, <1>1, <1>3, <3>1
    <3>2. CASE c # b
      <4>1. cluster'[c] = cluster[c]
        BY <1>0, <1>3, <3>2
      <4> QED BY <1>1, <2>3, <4>1 DEF Clustered
    <3> QED BY <3>1, <3>2
  <2> QED BY <1>3, <2>1, <2>2, <2>3 DEF Clustered
<1> QED BY <1>2, <1>3, MarkerEffect

\* Clusters that were closed lie before the open one, in order.
LEMMA MarkerPassed ==
  ASSUME Reading, WaveTypes, Clustered, Passed, NEW b \in Board, Marker(b)
  PROVE  Passed'
<1>0. /\ cluster_start \in Nat /\ now \in Nat \ {0} /\ MarkerSkew \in Nat
      /\ Closed \in Seq([Board -> Nat])
  BY SkewsAssumption, ClosedTypes DEF Reading, WaveTypes
<1>1. markers' = markers \cup {<<b, now>>}
  BY MarkerEffect
<1>2. \A ws : Ordered(ws, markers) => Ordered(ws, markers')
  BY <1>1 DEF Ordered
<1>3. CASE waves' = waves /\ cluster_start' = cluster_start
  BY <1>2, <1>3 DEF Passed
<1>4. CASE cluster_start = Never /\ waves' = Closed
  <2>1. cluster = NoMarkers /\ waves = <<>>
    BY <1>4 DEF Clustered
  <2>2. ~Complete(cluster)
    BY <2>1, BoardsAssumption DEF Complete, NoMarkers
  <2>3. waves' = <<>>
    BY <1>4, <2>1, <2>2 DEF Closed
  <2> QED BY <2>3 DEF Passed, Ordered
<1>5. CASE cluster_start + MarkerSkew < now /\ waves' = Closed /\ cluster_start' = now
  <2>1. /\ Ordered(Closed, markers)
        /\ \A i \in 1 .. Len(Closed) : \A c \in Board : Closed[i][c] <= cluster_start + MarkerSkew
    BY ClosedPassed
  <2>2. ASSUME NEW i \in 1 .. Len(Closed), NEW c \in Board PROVE Closed[i][c] < now
    <3>1. Closed[i][c] \in Nat /\ Closed[i][c] <= cluster_start + MarkerSkew
      BY <1>0, <2>1
    <3> QED BY <1>0, <1>5, <3>1
  <2> QED BY <1>2, <1>5, <2>1, <2>2 DEF Passed
<1> QED BY <1>3, <1>4, <1>5, MarkerEffect

\* The wave that an isolated marker begins is the open cluster, was closed, or misses
\* a board: the only place where a cluster begins is at a marker outside the skew of
\* the one before, and an isolated marker is always outside.
LEMMA MarkerFound ==
  ASSUME Reading, WaveTypes, Clustered, AllFound, NEW b \in Board, Marker(b)
  PROVE  AllFound'
<1> DEFINE N == markers \cup {<<b, now>>}
<1>0. /\ cluster_start \in Nat /\ now \in Nat \ {0} /\ MarkerSkew \in Nat
      /\ cluster \in [Board -> Nat] /\ waves \in Seq([Board -> Nat])
  BY SkewsAssumption DEF Reading, WaveTypes
<1>1. /\ markers' = N /\ markers \in SUBSET (Board \X Nat) /\ \A m \in markers : m[2] <= now
  BY MarkerEffect
<1> SUFFICES ASSUME NEW first \in Nat, Isolated(N, first)
             PROVE  Found(N, cluster', cluster_start', waves', first)
  BY <1>1 DEF AllFound
<1>2. \A m \in markers : m[2] <= cluster_start + MarkerSkew
  BY DEF Clustered
<1>3. first <= now
  BY <1>1 DEF Isolated
<1>4. first # now => Found(markers, cluster, cluster_start, waves, first)
  BY <1>0, <1>1, OneMore DEF AllFound
<1>5. CASE /\ cluster_start = Never \/ (cluster_start + MarkerSkew < now /\ cluster_start # Never)
           /\ waves' = Closed /\ cluster' = [NoMarkers EXCEPT ![b] = now] /\ cluster_start' = now
  <2>1. CASE first = now
    <3>1. \A m \in markers : m[2] < now
      <4>1. cluster_start = Never => markers = {}
        BY DEF Clustered
      <4> QED BY <1>0, <1>1, <1>2, <1>5, <4>1
    <3>2. InSkew(now, now)
      BY <1>0 DEF InSkew
    <3>3. LatestOf(N, b, now, now)
      BY <1>0, <1>1, <3>2 DEF LatestOf
    <3>4. ASSUME NEW c \in Board, c # b PROVE Silent(N, c, now)
      BY <1>0, <1>1, <3>1, <3>4 DEF Silent, InSkew
    <3>5. \A c \in Board : cluster'[c] = IF c = b THEN now ELSE Never
      BY <1>5 DEF NoMarkers
    <3>6. LastMarkers(N, cluster', now)
      BY <3>3, <3>4, <3>5 DEF LastMarkers
    <3> QED BY <1>5, <2>1, <3>6 DEF Found
  <2>2. CASE first # now
    <3>1. Isolated(markers, first)
      BY <1>0, <1>1, <2>2, OneMore
    <3>2. cluster_start # Never /\ cluster_start + MarkerSkew < now
      BY <1>5, <3>1 DEF Isolated, Clustered
    <3>3. CASE cluster_start = first /\ LastMarkers(markers, cluster, first)
      <4>1. ~InSkew(first, now) /\ now > first + MarkerSkew
        BY <1>0, <3>2, <3>3 DEF InSkew
      <4>2. CASE Complete(cluster)
        <5>1. LastMarkers(N, cluster, first)
          BY <1>0, <1>1, <3>3, <4>1, LastStays
        <5>2. Closed = Append(waves, cluster)
          BY <4>2 DEF Closed
        <5>3. Len(Closed) \in 1 .. Len(Closed) /\ Closed[Len(Closed)] = cluster
          BY <1>0, <5>2
        <5> QED BY <1>5, <4>1, <5>1, <5>3 DEF Found
      <4>3. CASE ~Complete(cluster)
        <5>1. PICK c \in Board : cluster[c] = Never
          BY <4>3 DEF Complete
        <5>2. <<c, Never>> \notin markers
          <6>1. markers \in SUBSET (Board \X (1 .. now))
            BY DEF WaveTypes
          <6> QED BY <1>0, <6>1 DEF Never
        <5>3. Silent(markers, c, first)
          BY <3>3, <5>1, <5>2 DEF LastMarkers, LatestOf
        <5>4. Silent(N, c, first)
          BY <1>0, <1>1, <4>1, <5>3, SilentStays
        <5> QED BY <1>5, <4>1, <5>4 DEF Found
      <4> QED BY <4>2, <4>3
    <3>4. CASE /\ cluster_start > first + MarkerSkew
               /\ \/ \E c \in Board : Silent(markers, c, first)
                  \/ \E i \in 1 .. Len(waves) : LastMarkers(markers, waves[i], first)
      <4>1. ~InSkew(first, now) /\ now > first + MarkerSkew
        BY <1>0, <3>2, <3>4 DEF InSkew
      <4>2. ASSUME NEW c \in Board, Silent(markers, c, first) PROVE Silent(N, c, first)
        BY <1>0, <1>1, <4>1, <4>2, SilentStays
      <4>3. ASSUME NEW i \in 1 .. Len(waves), LastMarkers(markers, waves[i], first)
            PROVE  i \in 1 .. Len(Closed) /\ LastMarkers(N, Closed[i], first)
        <5>1. i \in 1 .. Len(Closed) /\ Closed[i] = waves[i] /\ waves[i] \in [Board -> Nat]
          BY <1>0 DEF Closed
        <5> QED BY <1>0, <1>1, <4>1, <4>3, <5>1, LastStays
      <4> QED BY <1>5, <3>4, <4>1, <4>2, <4>3 DEF Found
    <3> QED BY <1>4, <2>2, <3>3, <3>4 DEF Found
  <2> QED BY <2>1, <2>2
<1>6. CASE /\ cluster_start # Never /\ InSkew(cluster_start, now)
           /\ UNCHANGED <<waves, cluster_start>> /\ cluster' = [cluster EXCEPT ![b] = now]
  <2>1. Found(markers, cluster, cluster_start, waves, first)
    <3>1. CASE first = now
      <4>1. PICK m \in markers : m[2] = cluster_start
        BY <1>6 DEF Clustered
      <4>2. m \in N /\ m[2] \notin first - MarkerSkew .. first - 1
        BY <4>1 DEF Isolated
      <4>3. cluster_start = now
        BY <1>0, <1>6, <3>1, <4>1, <4>2 DEF InSkew
      <4>4. Isolated(markers, first)
        BY <3>1, <4>1, <4>3 DEF Isolated
      <4> QED BY <4>4 DEF AllFound
    <3> QED BY <1>4, <3>1
  <2>2. CASE cluster_start = first /\ LastMarkers(markers, cluster, first)
    <3>1. LastMarkers(N, cluster', first)
      BY <1>0, <1>1, <1>6, <2>2, LastMoves
    <3> QED BY <1>6, <2>2, <3>1 DEF Found
  <2>3. CASE /\ cluster_start > first + MarkerSkew
             /\ \/ \E c \in Board : Silent(markers, c, first)
                \/ \E i \in 1 .. Len(waves) : LastMarkers(markers, waves[i], first)
    <3>1. ~InSkew(first, now)
      BY <1>0, <1>6, <2>3 DEF InSkew
    <3>2. ASSUME NEW c \in Board, Silent(markers, c, first) PROVE Silent(N, c, first)
      BY <1>0, <1>1, <3>1, <3>2, SilentStays
    <3>3. ASSUME NEW i \in 1 .. Len(waves), LastMarkers(markers, waves[i], first)
          PROVE  LastMarkers(N, waves[i], first)
      <4>1. waves[i] \in [Board -> Nat]
        BY <1>0
      <4> QED BY <1>0, <1>1, <3>1, <3>3, <4>1, LastStays
    <3> QED BY <1>6, <2>3, <3>2, <3>3 DEF Found
  <2> QED BY <2>1, <2>2, <2>3 DEF Found
<1> QED BY <1>5, <1>6, MarkerEffect

\* Nothing but markers changes the waves.
LEMMA NextWaves ==
  Reading /\ WaveTypes /\ Clustered /\ Passed /\ AllFound /\ [Next]_vars =>
    (Clustered /\ Passed /\ AllFound)'
<1> DEFINE Waves == Clustered /\ Passed /\ AllFound
<1> SUFFICES ASSUME Reading, WaveTypes, Waves, [Next]_vars PROVE Waves'
  OBVIOUS
<1>0. UNCHANGED markerVars => Waves'
  BY DEF markerVars, Clustered, Passed, AllFound
<1>1. ASSUME NEW b \in Board, Marker(b) PROVE Waves'
  BY <1>1, MarkerClustered, MarkerPassed, MarkerFound
<1>2. ASSUME NEW i \in 1 .. Len(Closed), Measure(i) PROVE Waves'
  <2>1. markers' = {} /\ waves' = <<>> /\ cluster' = NoMarkers /\ cluster_start' = Never
    BY <1>2 DEF Measure
  <2> QED BY <2>1 DEF Clustered, Passed, AllFound, NoMarkers, Ordered, Isolated
<1>3. ASSUME NEW b \in Board, NEW h \in Home, Observe(b, h) PROVE Waves'
  BY <1>0, <1>3 DEF Observe
<1>4. ASSUME Reset PROVE Waves'
  BY <1>0, <1>4 DEF Reset
<1>5. ASSUME Evidence PROVE Waves'
  BY <1>0, <1>5 DEF Evidence
<1>6. ASSUME Tick PROVE Waves'
  BY <1>0, <1>6 DEF Tick
<1>7. ASSUME UNCHANGED vars PROVE Waves'
  BY <1>0, <1>7 DEF vars
<1> QED BY <1>1, <1>2, <1>3, <1>4, <1>5, <1>6, <1>7 DEF Next, Done

\* The last markers within the skew are the latest of the wave.
LEMMA LastIsMax ==
  ASSUME NEW n \in Nat, NEW M \in SUBSET (Board \X (1 .. n)), NEW first \in Nat,
         NEW w \in [Board -> Nat], LastMarkers(M, w, first),
         \A b \in Board : \E m \in {k \in M : k[2] \in first .. first + MarkerSkew} : m[1] = b
  PROVE  w = [b \in Board |->
                Max({m[2] : m \in {k \in {j \in M : j[2] \in first .. first + MarkerSkew} : k[1] = b}})]
<1> SUFFICES ASSUME NEW b \in Board
             PROVE  w[b] = Max({m[2] : m \in {k \in {j \in M : j[2] \in first .. first + MarkerSkew} : k[1] = b}})
  OBVIOUS
<1> DEFINE S == {m[2] : m \in {k \in {j \in M : j[2] \in first .. first + MarkerSkew} : k[1] = b}}
<1>1. ~Silent(M, b, first)
  BY DEF Silent, InSkew
<1>2. LatestOf(M, b, w[b], first)
  BY <1>1 DEF LastMarkers
<1>3. w[b] \in S /\ \A t \in S : t <= w[b]
  BY <1>2 DEF LatestOf, InSkew
<1>4. S \in SUBSET Nat
  OBVIOUS
<1> HIDE DEF S
<1>5. w[b] \in Nat
  OBVIOUS
<1>6. Max(S) \in S /\ \A t \in S : t <= Max(S)
  BY <1>3, <1>4, <1>5, MaxOf
<1>7. w[b] = Max(S)
  <2>1. Max(S) <= w[b] /\ w[b] <= Max(S) /\ Max(S) \in Nat
    BY <1>3, <1>4, <1>6
  <2> QED BY <1>5, <2>1
<1> QED BY <1>7 DEF S

\* The first part of WavesAreResets, of a wave that is closed.
LEMMA OrderedWaves ==
  ASSUME WaveTypes, Ordered(Closed, markers), NEW i \in 1 .. Len(Closed)
  PROVE  /\ \A b \in Board : <<b, Closed[i][b]>> \in markers
         /\ WaveEnd(Closed[i]) - WaveStart(Closed[i]) <= MarkerSkew
         /\ i < Len(Closed) => WaveEnd(Closed[i]) < WaveStart(Closed[i + 1])
<1>0. Closed \in Seq([Board -> Nat]) /\ MarkerSkew \in Nat
  BY ClosedTypes, SkewsAssumption
<1>1. /\ \A b \in Board : <<b, Closed[i][b]>> \in markers
      /\ \A b, c \in Board : Closed[i][b] - Closed[i][c] <= MarkerSkew
      /\ i < Len(Closed) => \A b, c \in Board : Closed[i][b] < Closed[i + 1][c]
  BY DEF Ordered
<1>2. Closed[i] \in [Board -> Nat] /\ (i < Len(Closed) => Closed[i + 1] \in [Board -> Nat])
  <2>1. i < Len(Closed) => i + 1 \in 1 .. Len(Closed)
    BY <1>0
  <2> QED BY <1>0, <2>1
<1>3. PICK c \in Board : WaveStart(Closed[i]) = Closed[i][c]
  BY <1>2, WaveBounds
<1>4. PICK b \in Board : WaveEnd(Closed[i]) = Closed[i][b]
  <2> DEFINE S == {Closed[i][b] : b \in Board}
             top == Closed[i][c] + MarkerSkew
  <2>1. S \in SUBSET Nat /\ S # {} /\ top \in Nat
    BY <1>0, <1>2
  <2>2. \A m \in S : m <= top
    <3>1. ASSUME NEW b \in Board PROVE Closed[i][b] <= top
      <4>1. Closed[i][b] - Closed[i][c] <= MarkerSkew /\ Closed[i][b] \in Nat /\ Closed[i][c] \in Nat
        BY <1>1, <1>2
      <4> QED BY <1>0, <4>1
    <3> QED BY <3>1
  <2>3. Max(S) \in S
    <3> HIDE DEF S, top
    <3> QED BY <2>1, <2>2, MaxOf
  <2> QED BY <2>3 DEF WaveEnd
<1>5. ASSUME i < Len(Closed) PROVE WaveEnd(Closed[i]) < WaveStart(Closed[i + 1])
  <2>1. PICK d \in Board : WaveStart(Closed[i + 1]) = Closed[i + 1][d]
    BY <1>2, <1>5, WaveBounds
  <2> QED BY <1>1, <1>4, <1>5, <2>1
<1> QED BY <1>1, <1>3, <1>4, <1>5

\* The second part: the wave of an isolated marker, if all boards are in it.
LEMMA FoundWave ==
  ASSUME Reading, WaveTypes, Clustered, AllFound,
         NEW first \in {m[2] : m \in markers},
         \A m \in markers : m[2] \notin first - MarkerSkew .. first - 1,
         \A b \in Board : \E m \in {k \in markers : k[2] \in first .. first + MarkerSkew} : m[1] = b
  PROVE  Contains(Closed, [b \in Board |->
           Max({m[2] : m \in {k \in {j \in markers : j[2] \in first .. first + MarkerSkew} : k[1] = b}})])
<1> DEFINE w == [b \in Board |->
           Max({m[2] : m \in {k \in {j \in markers : j[2] \in first .. first + MarkerSkew} : k[1] = b}})]
<1>0. /\ now \in Nat /\ markers \in SUBSET (Board \X (1 .. now)) /\ first \in Nat
      /\ cluster \in [Board -> Nat] /\ waves \in Seq([Board -> Nat])
  BY DEF Reading, WaveTypes
<1>1. ASSUME NEW c \in [Board -> Nat], LastMarkers(markers, c, first) PROVE c = w
  BY <1>0, <1>1, LastIsMax
<1>2. \A b \in Board : ~Silent(markers, b, first)
  BY DEF Silent, InSkew
<1>3. Found(markers, cluster, cluster_start, waves, first)
  BY <1>0 DEF AllFound, Isolated
<1> HIDE DEF w
<1>4. CASE LastMarkers(markers, cluster, first)
  <2>1. cluster = w
    BY <1>0, <1>1, <1>4
  <2>2. Complete(cluster)
    <3>1. \A b \in Board : LatestOf(markers, b, cluster[b], first)
      BY <1>2, <1>4 DEF LastMarkers
    <3>2. ASSUME NEW b \in Board PROVE cluster[b] # 0
      <4>1. <<b, cluster[b]>> \in Board \X (1 .. now)
        BY <1>0, <3>1 DEF LatestOf
      <4> QED BY <1>0, <4>1
    <3> QED BY <3>2 DEF Complete, Never
  <2>3. Closed = Append(waves, cluster)
    BY <2>2 DEF Closed
  <2>4. Len(Closed) \in 1 .. Len(Closed) /\ Closed[Len(Closed)] = w
    BY <1>0, <2>1, <2>3
  <2> QED BY <2>4 DEF Contains, w
<1>5. CASE \E i \in 1 .. Len(waves) : LastMarkers(markers, waves[i], first)
  <2>1. PICK i \in 1 .. Len(waves) : LastMarkers(markers, waves[i], first)
    BY <1>5
  <2>2. waves[i] \in [Board -> Nat] /\ i \in 1 .. Len(Closed) /\ Closed[i] = waves[i]
    BY <1>0 DEF Closed
  <2>3. Closed[i] = w
    BY <1>1, <2>1, <2>2
  <2> QED BY <2>2, <2>3 DEF Contains, w
<1> QED BY <1>2, <1>3, <1>4, <1>5, BoardsAssumption DEF Found

\* The waves of epoch_recovery_events() are sets of markers of all boards within the
\* skew, in order and disjoint, and no reset that is isolated from those before is
\* missed (WavesAreResets): for any number of boards and any log.
THEOREM WavesAreFound ==
  Spec => []WavesAreResets
<1> DEFINE IInv == Reading /\ WaveTypes /\ Clustered /\ Passed /\ AllFound
<1>1. Init => IInv
  BY InitReading, InitWaveTypes, InitWaves
<1>2. IInv /\ [Next]_vars => IInv'
  BY NextReading, NextWaveTypes, NextWaves
<1>3. IInv => WavesAreResets
  <2> SUFFICES ASSUME IInv PROVE WavesAreResets
    OBVIOUS
  <2>1. Ordered(Closed, markers)
    BY ClosedPassed
  <2>2. ASSUME NEW i \in 1 .. Len(Closed)
        PROVE  /\ \A b \in Board : <<b, Closed[i][b]>> \in markers
               /\ WaveEnd(Closed[i]) - WaveStart(Closed[i]) <= MarkerSkew
               /\ i < Len(Closed) => WaveEnd(Closed[i]) < WaveStart(Closed[i + 1])
    BY <2>1, OrderedWaves
  <2> QED BY <2>2, FoundWave DEF WavesAreResets
<1> HIDE DEF IInv
<1> QED BY <1>1, <1>2, <1>3, PTL DEF Spec
=============================================================================
