------------------------------ MODULE TestEpoch ------------------------------
(***************************************************************************)
(* The unattended reset experiment of one board (espRaw80211.ino): rounds  *)
(* with a healthy appointment and the whole swarm at the board's home make *)
(* a streak, a long enough streak commits a reset, and some rounds later   *)
(* the reset clears the board.  Everything is persisted.                   *)
(*                                                                         *)
(* Simplifications.                                                        *)
(*  - Whether enough listeners are counted is an input of every round.     *)
(*  - outcomes is history: which of the rounds since the last reset        *)
(*    qualified, the oldest first, as far back as Window.                  *)
(*                                                                         *)
(* A definition marked "Wrong:" is a deliberately broken variant of the    *)
(* one that follows it and is used by no action.                           *)
(***************************************************************************)
EXTENDS Integers, Sequences, FiniteSets

CONSTANTS
  Bssid,           \* the beacons
  CyclesToCommit,  \* testConsensusCyclesToCommit: 10
  MissesToReset,   \* testConsensusMissesToReset: 3
  DelayCycles,     \* testResetDelayCycles: 3
  MaxElapsed,      \* bound on the rounds that one advance may find elapsed
  Window           \* bound on the history

NoBssid == 0

ASSUME OracleAssumption ==
  /\ Bssid \subseteq Nat \ {NoBssid}
  /\ CyclesToCommit \in Nat \ {0} /\ MissesToReset \in Nat \ {0}
  /\ DelayCycles \in Nat \ {0} /\ MaxElapsed \in Nat \ {0}
  /\ Window \in Nat /\ Window >= CyclesToCommit * MissesToReset

VARIABLES
  home,      \* spiffsBeacon
  met,       \* [healthy, home]: spiffsRoundHealthy and spiffsRoundHome
  oracle,    \* the persisted consensus and reset counters
  outcomes

vars == <<home, met, oracle, outcomes>>

Beacon == Bssid \cup {NoBssid}
Idle == [cycles |-> 0, misses |-> 0, committed |-> FALSE, delay |-> 0, executed |-> FALSE]
Unmet == [healthy |-> FALSE, home |-> NoBssid]

-----------------------------------------------------------------------------
(* maybeResetAfterStableReunion(), for one round.                           *)

\* Wrong: the reset is executed in the round after the commit.
WaitedOnce(o) == [o EXCEPT !.delay = @ + 1, !.executed = TRUE]

Waited(o) == [o EXCEPT !.delay = @ + 1, !.executed = (o.delay + 1 >= DelayCycles)]

\* Wrong: the streak survives one miss more.
MissedLate(o) ==
  [o EXCEPT !.misses = IF @ = MissesToReset THEN @ ELSE @ + 1,
            !.cycles = IF o.misses + 1 <= MissesToReset THEN @ ELSE 0]

\* misses goes on counting; every value from MissesToReset on is the same.
Missed(o) ==
  [o EXCEPT !.misses = IF @ = MissesToReset THEN @ ELSE @ + 1,
            !.cycles = IF o.misses + 1 < MissesToReset THEN @ ELSE 0]

\* Wrong: one cycle more than CyclesToCommit is needed.
QualifiedLate(o) ==
  [o EXCEPT !.misses = 0, !.cycles = @ + 1,
            !.committed = (o.cycles + 1 > CyclesToCommit)]

Qualified(o) ==
  [o EXCEPT !.misses = 0, !.cycles = @ + 1,
            !.committed = (o.cycles + 1 >= CyclesToCommit)]

\* Wrong: a bad round takes the commit back.
AfterRoundCancelling(o, qualified) ==
  IF o.executed THEN o
  ELSE IF ~qualified THEN [Missed(o) EXCEPT !.committed = FALSE, !.delay = 0]
  ELSE IF o.committed THEN Waited(o)
  ELSE Qualified(o)

AfterRound(o, qualified) ==
  IF o.executed THEN o
  ELSE IF o.committed THEN Waited(o)
  ELSE IF qualified THEN Qualified(o)
  ELSE Missed(o)

\* ... and for k rounds that are noticed together, of which only the first can
\* have qualified.
AfterRounds(k, o, qualified) ==
  LET after[i \in 0 .. k] ==
        IF i = 0 THEN o ELSE AfterRound(after[i - 1], i = 1 /\ qualified)
  IN  after[k]

Recent(s) ==
  IF Len(s) <= Window THEN s ELSE SubSeq(s, Len(s) - Window + 1, Len(s))

-----------------------------------------------------------------------------
Init ==
  /\ home = NoBssid /\ met = Unmet /\ oracle = Idle /\ outcomes = <<>>

\* The board selects a home, or moves, or loses it to recovery.
ChangeHome(b) ==
  /\ b # home /\ ~oracle.executed
  /\ home' = b
  /\ UNCHANGED <<met, oracle, outcomes>>

\* A healthy, full home appointment ends.
FinishHealthyHome ==
  /\ home # NoBssid /\ ~oracle.executed
  /\ met' = [healthy |-> TRUE, home |-> home]
  /\ UNCHANGED <<home, oracle, outcomes>>

\* gathered: as many fresh listeners as the swarm has boards.
RoundQualifies(gathered) ==
  met.healthy /\ met.home = home /\ home # NoBssid /\ gathered

\* advanceRoundClock() finds k rounds elapsed.
AdvanceRounds(k, gathered) ==
  /\ ~oracle.executed
  /\ LET qualified == RoundQualifies(gathered)
     IN  /\ oracle' = AfterRounds(k, oracle, qualified)
         /\ outcomes' = Recent(outcomes \o [i \in 1 .. k |-> i = 1 /\ qualified])
  /\ met' = [met EXCEPT !.healthy = FALSE]
  /\ UNCHANGED home

\* executeTestReset() has cleared the identity, which makes the board sleep;
\* the next boot starts with everything cleared.
StartEpoch ==
  /\ oracle.executed
  /\ home' = NoBssid /\ met' = Unmet /\ oracle' = Idle /\ outcomes' = <<>>

\* A cold reset, or firmware for a swarm of another size.
ColdReset ==
  /\ home' = NoBssid /\ met' = Unmet /\ oracle' = Idle /\ outcomes' = <<>>
NewSwarmSize ==
  /\ ~oracle.executed
  /\ oracle' = Idle /\ met' = [met EXCEPT !.healthy = FALSE] /\ outcomes' = <<>>
  /\ UNCHANGED home

Next ==
  \/ \E b \in Beacon : ChangeHome(b)
  \/ FinishHealthyHome
  \/ \E k \in 1 .. MaxElapsed, gathered \in BOOLEAN : AdvanceRounds(k, gathered)
  \/ StartEpoch
  \/ ColdReset
  \/ NewSwarmSize

Spec == Init /\ [][Next]_vars

\* Time passes: the sleep timer and the watchdog see to it that the board
\* looks at its clock again and, after a reset, boots.
FairSpec ==
  /\ Spec
  /\ WF_vars(\E k \in 1 .. MaxElapsed, gathered \in BOOLEAN : AdvanceRounds(k, gathered))
  /\ WF_vars(StartEpoch)

-----------------------------------------------------------------------------
TypeOK ==
  /\ home \in Beacon
  /\ met \in [healthy : BOOLEAN, home : Beacon]
  /\ oracle \in [cycles : 0 .. CyclesToCommit, misses : 0 .. MissesToReset,
                 committed : BOOLEAN, delay : 0 .. DelayCycles, executed : BOOLEAN]
  /\ oracle.executed <=> oracle.delay = DelayCycles
  /\ oracle.cycles = CyclesToCommit <=> oracle.committed

\* Somewhere the history contains a streak: CyclesToCommit qualified rounds
\* with fewer than MissesToReset others between any two of them.
Streak(s) ==
  \E first \in 1 .. Len(s), last \in 1 .. Len(s) :
    /\ Cardinality({i \in first .. last : s[i]}) >= CyclesToCommit
    /\ \A i \in first .. last - MissesToReset + 1 :
         \E j \in i .. i + MissesToReset - 1 : s[j]

\* A board that has not committed a reset commits one in the round that
\* completes a streak, and in no other, whatever rounds are noticed together,
\* restarts and moves there are in between.
CommitsOnStreak ==
  [][~oracle.committed => (oracle'.committed <=> Streak(outcomes'))]_vars

\* The reset is not executed while its commit is still unknown to everybody:
\* they never fall into one advance of the clock (TESTING_FARM.md).
ResetIsAnnounced == [][oracle'.executed => oracle.committed]_vars

\* A committed reset cannot be cancelled by what happens later: the board
\* starts a new epoch.
CommitLeadsToNewEpoch == oracle.committed ~> oracle = Idle
=============================================================================
