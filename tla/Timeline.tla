------------------------------ MODULE Timeline ------------------------------
(***************************************************************************)
(* What scripts/analyze_rendezvous.py makes of the logs of all boards: the  *)
(* convergences, recoveries and clean epochs it reports, the topologies it  *)
(* counts, and how much of an interval foreign evidence covers.             *)
(*                                                                          *)
(*  - Each function sorts what it needs by host time and goes through it in *)
(*    one loop.  The loops' variables are state here and a step is one      *)
(*    iteration; the log is chosen as it is read.  epoch_recovery_events()  *)
(*    reads all markers before it reads an observation: time runs twice.    *)
(*  - Observations of one instant are sorted by board and home in the code; *)
(*    here they come in any order, after the resets of that instant.  A     *)
(*    board is observed, and prints a marker, once in an instant.           *)
(*  - Every board has a log, and `required` is the number of boards.        *)
(***************************************************************************)
EXTENDS Integers, Sequences, FiniteSets, FiniteSetsExt, SequencesExt

CONSTANTS
  Board, Home, NoHome,
  Small,        \* a group that is smaller than this is worth recovering from
  MarkerSkew,   \* marker_skew, in instants
  Skew,         \* max_skew, observation_skew
  Freshness,    \* freshness_seconds
  End           \* bound: the last instant of a log

ASSUME BoardsAssumption == Board # {} /\ IsFiniteSet(Board) /\ NoHome \notin Home
ASSUME SkewsAssumption == {MarkerSkew, Skew, Freshness, End} \subseteq Nat
ASSUME SmallAssumption == Small \in Nat /\ Small <= Cardinality(Board)

Never == 0

VARIABLES
  report,      \* which report is made: "epochs", "recovery" or "foreign"
  reading,     \* "markers", then "observations"
  now,         \* host time of what is read
  cluster, cluster_start, waves, \* epoch_recovery_events(), over the markers
  markers,     \* history: board and time of each
  wave,        \* the wave that is measured, with next_start
  since,       \* its own `latest`: observations after the board's marker
  consensus,   \* its result
  latest,      \* of every board, as the other reports have it
  active,      \* active_bssid of global_home_convergences()
  snapshot,    \* the last of complete_topology_snapshots()
  minimum,     \* minimum, minimum_start and minimum_end of reset_recovery_events()
  reset,       \* the latest of reset_times so far
  recovery,    \* the last of its results
  coverage     \* foreign_coverage(): start, end, covered, merged_end
               \* and, as history, the times of the evidence

markerVars == <<cluster, cluster_start, waves, markers>>
epochVars == <<wave, since, consensus>>
recoveryVars == <<minimum, reset, recovery>>
vars == <<report, reading, now, markerVars, epochVars, latest, active, snapshot, recoveryVars, coverage>>

-----------------------------------------------------------------------------
(* The waves of reset markers *)

NoMarkers == [b \in Board |-> Never]
Complete(c) == \A b \in Board : c[b] # Never

\* The cluster that is open counts when it is closed, at the end of the log too.
Closed == IF Complete(cluster) THEN Append(waves, cluster) ELSE waves

\* Wrong: the skew is measured from the last marker.
LaterFromLast == now - Max({cluster[b] : b \in Board}) > MarkerSkew

Later == now - cluster_start > MarkerSkew

Marker(b) ==
  /\ reading = "markers" /\ cluster[b] < now
  /\ IF cluster_start = Never \/ Later
     THEN /\ waves' = Closed
          /\ cluster' = [NoMarkers EXCEPT ![b] = now] /\ cluster_start' = now
     ELSE /\ cluster' = [cluster EXCEPT ![b] = now]
          /\ UNCHANGED <<waves, cluster_start>>
  /\ markers' = markers \cup {<<b, now>>}
  /\ UNCHANGED <<report, reading, now, epochVars, latest, active, snapshot, recoveryVars, coverage>>

WaveEnd(w) == Max({w[b] : b \in Board})
WaveStart(w) == Min({w[b] : b \in Board})

\* All markers are read: the observations are, for one of the waves.
Measure(i) ==
  /\ reading = "markers" /\ reading' = "observations"
  /\ wave' = [at |-> Closed[i],
              next_start |-> IF i < Len(Closed) THEN WaveStart(Closed[i + 1]) ELSE End + 1]
  /\ now' = 1 /\ waves' = <<>> /\ markers' = {} /\ cluster' = NoMarkers /\ cluster_start' = Never
  /\ UNCHANGED <<report, since, consensus, latest, active, snapshot, recoveryVars, coverage>>

-----------------------------------------------------------------------------
(* One observation *)

Unseen == [t |-> Never, home |-> NoHome]
Seen(view) == \A b \in Board : view[b] # Unseen
Homes(view) == {view[b].home : b \in Board}
Together(view) ==
  Max({view[b].t : b \in Board}) - Min({view[b].t : b \in Board}) <= Skew
Largest(view) == Max({Cardinality({b \in Board : view[b].home = h}) : h \in Home})

Agree(view) == Seen(view) /\ Cardinality(Homes(view)) = 1 /\ Together(view)

\* Wrong: what was observed before the board's own marker counts.
SinceFirstMarker(b) == now > WaveStart(wave.at) /\ now < wave.next_start

InWindow(b) == now > wave.at[b] /\ now < wave.next_start

\* epoch_recovery_events(), for its wave
Epoch(b, h) ==
  IF report = "epochs" /\ consensus = Unseen /\ InWindow(b)
  THEN /\ since' = [since EXCEPT ![b] = [t |-> now, home |-> h]]
       /\ consensus' = IF Agree(since') THEN [t |-> now, home |-> h] ELSE consensus
  ELSE UNCHANGED <<since, consensus>>

\* global_home_convergences(); a convergence is an event when active changes to it.
Convergence(h) == active' = IF Agree(latest') THEN h ELSE NoHome

\* Wrong: a view may be of any age.
OfAnyAge(view) == Seen(view)

Fit(view) == Seen(view) /\ Together(view)

\* complete_topology_snapshots()
Snapshot == snapshot' = IF Fit(latest') THEN [t |-> now, largest |-> Largest(latest')] ELSE snapshot

NoMinimum == [size |-> Never, start |-> Never, end |-> Never]
LastObservation == Max({latest[b].t : b \in Board})

\* Wrong: a plateau goes on over a reset.
MinimumKept == minimum

\* A reset since the last observation starts anew.
Before == IF minimum # NoMinimum /\ reset > LastObservation THEN NoMinimum ELSE minimum

Plateau(before, largest) ==
  IF before = NoMinimum \/ largest < before.size THEN [size |-> largest, start |-> now, end |-> now]
  ELSE IF largest = before.size THEN [before EXCEPT !.end = now]
  ELSE before

Recovered(before, largest) ==
  largest = Cardinality(Board) /\ before # NoMinimum /\ before.size < Small

\* reset_recovery_events()
Recovery(h) ==
  LET largest == Largest(latest')
  IN  /\ minimum' = IF ~Seen(latest') THEN Before
                    ELSE IF Recovered(Before, largest) THEN NoMinimum
                    ELSE IF largest < Small THEN Plateau(Before, largest)
                    ELSE Before
      /\ recovery' = IF Seen(latest') /\ Recovered(Before, largest) /\ ~(reset > Before.end)
                     THEN [start |-> Before.start, size |-> Before.size, t |-> now, home |-> h]
                     ELSE recovery

Observe(b, h) ==
  /\ reading = "observations" /\ report # "foreign" /\ latest[b].t < now
  /\ latest' = [latest EXCEPT ![b] = [t |-> now, home |-> h]]
  /\ Epoch(b, h) /\ Convergence(h) /\ Snapshot
  /\ IF report = "recovery" THEN Recovery(h) ELSE UNCHANGED <<minimum, recovery>>
  /\ UNCHANGED <<report, reading, now, markerVars, wave, reset, coverage>>

Reset ==
  /\ report = "recovery" /\ reset < now /\ LastObservation < now
  /\ reset' = now
  /\ UNCHANGED <<report, reading, now, markerVars, epochVars, latest, active, snapshot,
                 minimum, recovery, coverage>>

-----------------------------------------------------------------------------
(* Foreign evidence *)

\* Wrong: what two pieces of evidence cover is counted twice.
CountedTwice(left, right) == right - left

Fresh(left, right) ==
  IF left > coverage.merged_end THEN right - left
  ELSE IF right > coverage.merged_end THEN right - coverage.merged_end
  ELSE 0

Least(i, j) == IF i < j THEN i ELSE j
Most(i, j) == IF i > j THEN i ELSE j

\* A piece of evidence counts from when it was observed until it is stale.
Evidence ==
  /\ report = "foreign" /\ now \notin coverage.times
  /\ LET left == Most(coverage.start, now)
         right == Least(coverage.end, now + Freshness)
     IN  coverage' =
           [coverage EXCEPT !.times = @ \cup {now},
                            !.covered = IF right > left THEN @ + Fresh(left, right) ELSE @,
                            !.merged_end = IF right > left THEN Most(@, right) ELSE @]
  /\ UNCHANGED <<report, reading, now, markerVars, epochVars, latest, active, snapshot, recoveryVars>>

-----------------------------------------------------------------------------
Init ==
  /\ report \in {"epochs", "recovery", "foreign"}
  /\ reading = IF report = "epochs" THEN "markers" ELSE "observations"
  /\ now = 1
  /\ cluster = NoMarkers /\ cluster_start = Never /\ waves = <<>> /\ markers = {}
  /\ wave = [at |-> NoMarkers, next_start |-> Never]
  /\ since = [b \in Board |-> Unseen] /\ consensus = Unseen
  /\ latest = [b \in Board |-> Unseen] /\ active = NoHome
  /\ snapshot = [t |-> Never, largest |-> 0]
  /\ minimum = NoMinimum /\ reset = Never
  /\ recovery = [start |-> Never, size |-> 0, t |-> Never, home |-> NoHome]
  /\ coverage \in
       {[start |-> s, end |-> e, covered |-> 0, merged_end |-> Never - 1, times |-> {}] :
          s \in IF report = "foreign" THEN 1 .. End ELSE {1},
          e \in IF report = "foreign" THEN 2 .. End + 1 ELSE {1}}

Tick ==
  /\ now < End /\ now' = now + 1
  /\ UNCHANGED <<report, reading, markerVars, epochVars, latest, active, snapshot, recoveryVars, coverage>>

Done == now = End /\ UNCHANGED vars

Next ==
  \/ \E b \in Board : Marker(b)
  \/ \E i \in 1 .. Len(Closed) : Measure(i)
  \/ \E b \in Board, h \in Home : Observe(b, h)
  \/ Reset \/ Evidence \/ Tick \/ Done

Spec == Init /\ [][Next]_vars

\* Boards are alike, and so are homes.
Symmetry == Permutations(Board) \cup Permutations(Home)

-----------------------------------------------------------------------------
\* The waves are in the order of time and disjoint, and a wave has a marker of
\* every board, all within the skew.  A reset that every board makes within the
\* skew is found, however its markers are delayed or repeated, if none came
\* within the skew before it; each board counts from its last marker in it.
WavesAreResets ==
  /\ \A i \in 1 .. Len(Closed) :
       /\ \A b \in Board : <<b, Closed[i][b]>> \in markers
       /\ WaveEnd(Closed[i]) - WaveStart(Closed[i]) <= MarkerSkew
       /\ i < Len(Closed) => WaveEnd(Closed[i]) < WaveStart(Closed[i + 1])
  /\ \A first \in {m[2] : m \in markers} :
       LET ofWave == {m \in markers : m[2] \in first .. first + MarkerSkew}
       IN  /\ \A m \in markers : m[2] \notin first - MarkerSkew .. first - 1
           /\ \A b \in Board : \E m \in ofWave : m[1] = b
           => Contains(Closed, [b \in Board |-> Max({m[2] : m \in {n \in ofWave : n[1] = b}})])

\* A clean epoch ends in the first convergence that the boards are seen in after
\* their own markers and before the next wave's, and in no other.
EpochsEndConverged ==
  [][LET seen == \A b \in Board : latest'[b].t > wave.at[b] /\ latest'[b].t < wave.next_start
     IN  /\ consensus' # consensus => seen /\ active' = consensus'.home
         /\ report = "epochs" /\ latest' # latest /\ seen /\ active' # NoHome
              => consensus' # Unseen]_vars

\* All boards are counted in one group exactly when a convergence is active.
SnapshotsAgree ==
  [][latest' # latest /\ report # "foreign" =>
       (snapshot' = [t |-> now, largest |-> Cardinality(Board)]) = (active' # NoHome)]_vars

\* No reset lies between the minimum that a recovery is counted from and its end.
RecoveriesAreClean ==
  [][recovery' # recovery => reset <= recovery'.start]_vars

\* The evidence covers the instants in which some of it is fresh.
CoverageIsUnion ==
  report = "foreign" =>
    coverage.covered = Cardinality({i \in coverage.start .. coverage.end - 1 :
                         \E t \in coverage.times : t <= i /\ i < t + Freshness})
=============================================================================
