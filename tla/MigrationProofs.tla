--------------------------- MODULE MigrationProofs ---------------------------
(***************************************************************************)
(* Proofs about one board's decisions (Migration): the order among groups, *)
(* that the two copies of the decision's rules agree, and that a board     *)
(* with company moves only when its proposal has ripened, if a panic has   *)
(* not torn it.  The invariant of the last adds to the types, by which     *)
(* every other board is counted once, that a whole proposal which has not  *)
(* waited for the shortest delay is still ahead in the counter's modular   *)
(* arithmetic, by what is left of the delay or more (Ripening).            *)
(***************************************************************************)
EXTENDS Migration, TLAPS, WellFoundedInduction, FiniteSetTheorems

\* Of two groups at most one is preferred to the other: boards that believe in
\* the same sizes never swap homes (groupPreferred()).
LEMMA PreferenceIsAsymmetric ==
  ASSUME NEW m \in Nat, NEW b \in Nat, NEW n \in Nat, NEW c \in Nat,
         groupPreferred(m, b, n, c)
  PROVE  ~groupPreferred(n, c, m, b)
  BY DEF groupPreferred

\* A chain of moves, each to a preferred group, leads to a preferred group, if
\* it does not lead back to a beacon whose group is counted anew.
LEMMA PreferenceIsTransitive ==
  ASSUME NEW m \in Nat, NEW b \in Nat, NEW n \in Nat, NEW c \in Nat,
         NEW k \in Nat, NEW d \in Nat,
         b # d, groupPreferred(m, b, n, c), groupPreferred(n, c, k, d)
  PROVE  groupPreferred(m, b, k, d)
  BY DEF groupPreferred

\* Of two groups at different beacons one is preferred: a board that meets
\* another group is never left without a decision.
LEMMA PreferenceIsTotal ==
  ASSUME NEW m \in Nat, NEW b \in Nat \ {NoBssid}, NEW n \in Nat,
         NEW c \in Nat \ {NoBssid}, b # c
  PROVE  groupPreferred(m, b, n, c) \/ groupPreferred(n, c, m, b)
  BY DEF groupPreferred

-----------------------------------------------------------------------------
(* The snapshot and the decision.                                           *)

\* What is captured when a group is observed is a valid snapshot, and its
\* fields are what the decision reads.
LEMMA ObservationCaptured ==
  ASSUME NEW s, NEW h, NEW m, NEW t, NEW n, h # NoBssid, t # NoBssid, t # h
  PROVE  Replay(Captured("ObserveCandidate", s, h, m, t, n)) =
           ReplayObserveCandidate(Captured("ObserveCandidate", s, h, m, t, n))
  BY DEF Replay, Valid, Captured

\* observeGroupForMigration() takes the branch that replay() finds, if both
\* are given the same counts.
LEMMA ObservationReplays ==
  ASSUME NEW s, NEW h, NEW m, NEW t, NEW n, h # NoBssid, t # NoBssid, t # h
  PROVE  ObservedAction(s, h, m, t, n) = Replay(Captured("ObserveCandidate", s, h, m, t, n))
<1> DEFINE c == Captured("ObserveCandidate", s, h, m, t, n)
<1>1. /\ c.homeBssid = h /\ c.homeMembers = m
      /\ c.targetBssid = t /\ c.targetMembers = n
      /\ c.pendingBssid = s.proposal.beacon /\ c.pendingHome = s.proposal.home
      /\ c.pendingMembers = s.proposal.members
      /\ c.pendingActRound = s.proposal.actRound
      /\ c.wakeGeneration = wake
  BY DEF Captured
<1> HIDE DEF c
<1>2. ObservedAction(s, h, m, t, n) = ReplayObserveCandidate(c)
  BY <1>1 DEF ObservedAction, ReplayObserveCandidate, Pending, OutranksPending
<1> QED  BY <1>2, ObservationCaptured DEF c

\* maybeCommitMigration() takes the branch that replay() finds, if both are
\* given the same count.
LEMMA CheckReplays ==
  ASSUME NEW s, NEW h, NEW m, h # NoBssid, s.proposal.beacon # NoBssid
  PROVE  CheckedAction(s, h, m) = Replay(Captured("CommitCheck", s, h, m, NoBssid, 0))
<1> DEFINE c == Captured("CommitCheck", s, h, m, NoBssid, 0)
<1>1. /\ c.kind = "CommitCheck" /\ c.complete
      /\ c.homeBssid = h /\ c.homeMembers = m
      /\ c.pendingBssid = s.proposal.beacon /\ c.pendingHome = s.proposal.home
      /\ c.pendingMembers = s.proposal.members
      /\ c.pendingActRound = s.proposal.actRound
      /\ c.wakeGeneration = wake
  BY DEF Captured
<1> HIDE DEF c
<1>2. Replay(c) = ReplayCommitCheck(c)
  BY <1>1 DEF Replay, Valid
<1>3. CheckedAction(s, h, m) = ReplayCommitCheck(c)
  BY <1>1 DEF CheckedAction, ReplayCommitCheck
<1> QED  BY <1>2, <1>3 DEF c

\* Whatever state the board is in, with any number of peers and beacons and
\* any delays, the rules that the farm's analysis replays a snapshot with and
\* those that the board decides by take the same branch on the same counts.
THEOREM RulesAgree == Spec => []DecisionsReplay
<1>1. DecisionsReplay
  <2> DEFINE h == plan.home
             m == listenerCount(h)
  <2>1. ASSUME h # NoBssid, NEW t \in Bssid \ {h}, NEW n \in 0 .. Peers + 1
        PROVE  ObservedAction(spiffs, h, m, t, n) =
                 Replay(Captured("ObserveCandidate", spiffs, h, m, t, n))
    <3>1. t # NoBssid
      BY BssidAssumption
    <3> QED BY <2>1, <3>1, ObservationReplays
  <2>2. ASSUME h # NoBssid, spiffs.proposal.beacon # NoBssid
        PROVE  CheckedAction(spiffs, h, m) =
                 Replay(Captured("CommitCheck", spiffs, h, m, NoBssid, 0))
    BY <2>2, CheckReplays
  <2> QED  BY <2>1, <2>2 DEF DecisionsReplay
<1> QED  BY <1>1, PTL

-----------------------------------------------------------------------------
(* Numbers *)

\* Remainders of numbers that are off by one turn at most.
LEMMA Modulo ==
  ASSUME NEW n \in Nat \ {0}, NEW a \in Int
  PROVE  /\ a \in 0 .. n - 1 => (a % n) = a
         /\ a \in n .. 2 * n - 1 => (a % n) = a - n
         /\ a \in -n .. -1 => (a % n) = a + n
<1> DEFINE q == a \div n
           r == a % n
<1>1. q \in Int /\ r \in Nat /\ r < n /\ a = q * n + r
  OBVIOUS
<1>2. /\ 0 * n = 0 /\ 1 * n = n /\ (-1) * n = -n
      /\ q >= 1 => q * n >= 1 * n
      /\ q >= 2 => q * n >= 2 * n
      /\ q <= -1 => q * n <= (-1) * n
      /\ q <= -2 => q * n <= (-2) * n
      /\ 2 * n = n + n /\ (-2) * n = -n - n
  BY <1>1
<1> HIDE DEF q, r
<1>3. q * n \in Int
  BY <1>1
<1>4. a \in 0 .. n - 1 => r = a
  BY <1>1, <1>2, <1>3
<1>5. a \in n .. 2 * n - 1 => r = a - n
  BY <1>1, <1>2, <1>3
<1>6. a \in -n .. -1 => r = a + n
  BY <1>1, <1>2, <1>3
<1> QED BY <1>4, <1>5, <1>6 DEF r

\* Of any numbers there is a least.
LEMMA Least ==
  ASSUME NEW S \in SUBSET Nat, S # {}
  PROVE  \E n \in S : \A m \in S : n <= m
<1> DEFINE R == OpToRel(<, Nat)
<1>1. IsWellFoundedOn(R, Nat)
  BY NatLessThanWellFounded
<1> HIDE DEF R
<1>2. PICK n \in S : \A m \in S : ~(<<m, n>> \in R)
  BY <1>1, WFMin
<1>3. ASSUME NEW m \in S, m < n PROVE FALSE
  <2>1. <<m, n>> \in R
    BY <1>3 DEF R, OpToRel
  <2> QED BY <1>2, <2>1
<1> QED BY <1>3

USE BssidAssumption, PeersAssumption, BlindSleepsAssumption, PolicyAssumption, WakeAssumption

-----------------------------------------------------------------------------
(* The other boards *)

\* The boards of which who says that their record names b.
Naming(who, b) == {p \in 1 .. Peers : who[p] = b}

\* They are some of the other boards.
LEMMA NamingFinite ==
  ASSUME NEW who, NEW b
  PROVE  /\ IsFiniteSet(Naming(who, b))
         /\ Cardinality(Naming(who, b)) \in 0 .. Peers
<1>1. IsFiniteSet(1 .. Peers) /\ Cardinality(1 .. Peers) = Peers
  BY FS_Interval
<1>2. Naming(who, b) \subseteq 1 .. Peers
  BY DEF Naming
<1>3. IsFiniteSet(Naming(who, b)) /\ Cardinality(Naming(who, b)) <= Peers
  BY <1>1, <1>2, FS_Subset
<1>4. Cardinality(Naming(who, b)) \in Nat
  BY <1>3, FS_CardinalityType
<1> QED BY <1>3, <1>4

\* No beacon is named by more boards than there are, ...
LEMMA TableType ==
  ASSUME NEW f \in Tables
  PROVE  f \in [Beacon -> 0 .. Peers]
<1>1. PICK who \in [1 .. Peers -> Beacon] : f = [b \in Beacon |-> Cardinality(Naming(who, b))]
  BY DEF Tables, CountsOf, Naming
<1>2. \A b \in Beacon : Cardinality(Naming(who, b)) \in 0 .. Peers
  BY NamingFinite
<1> QED BY <1>1, <1>2

\* ... and none, when nothing is known.
LEMMA NothingType == NothingKnown \in Tables
<1>1. [p \in 1 .. Peers |-> NoBssid] \in [1 .. Peers -> Beacon]
  BY DEF Beacon
<1> QED BY <1>1 DEF NothingKnown, Tables

\* Whatever is received, the records are of that many boards.
LEMMA ReceivedType ==
  ASSUME fresh \in Tables
  PROVE  Received \subseteq Tables
BY DEF Received, Reachable

\* What a board believes of the others, and the round it is in.
Known ==
  wake \in 1 .. WakeMax /\ fresh \in Tables /\ own \in Beacon

\* A group has the other boards and this one at most.
LEMMA CountedType ==
  ASSUME own \in Beacon, NEW f \in Tables, NEW b \in Beacon
  PROVE  Counted(f, b) \in 0 .. Peers + 1
<1>1. f[b] \in 0 .. Peers
  BY TableType
<1> QED BY <1>1 DEF Counted

LEMMA ListenersType ==
  ASSUME Known, NEW b \in Beacon
  PROVE  listenerCount(b) \in 0 .. Peers + 1
BY CountedType DEF Known, listenerCount

\* visitorInvitation() has a best group to choose.
LEMMA BestTarget ==
  ASSUME Known, NEW S \in SUBSET Bssid, S # {}
  PROVE  \E t \in S : \A u \in S \ {t} :
           groupPreferred(listenerCount(t), t, listenerCount(u), u)
<1>0. \A t \in S : t \in Nat /\ t # NoBssid /\ t \in Beacon
  BY DEF Beacon, NoBssid
<1>1. \A t \in S : listenerCount(t) \in 0 .. Peers + 1
  BY <1>0, ListenersType
<1> DEFINE V == {Peers + 1 - listenerCount(t) : t \in S}
<1>2. V \in SUBSET Nat /\ V # {}
  <2>1. \A t \in S : Peers + 1 - listenerCount(t) \in Nat
    BY <1>1
  <2> QED BY <2>1
<1>3. PICK v \in V : \A w \in V : v <= w
  BY <1>2, Least
<1> DEFINE M == {t \in S : Peers + 1 - listenerCount(t) = v}
<1>4. M \in SUBSET Nat /\ M # {}
  BY <1>0, <1>3
<1>5. PICK t \in M : \A u \in M : t <= u
  BY <1>4, Least
<1>6. ASSUME NEW u \in S \ {t}
      PROVE  groupPreferred(listenerCount(t), t, listenerCount(u), u)
  <2>1. /\ listenerCount(t) \in Nat /\ listenerCount(u) \in Nat
        /\ t \in Nat /\ u \in Nat /\ t # u /\ t # NoBssid
    BY <1>0, <1>1
  <2>2. listenerCount(u) <= listenerCount(t)
    <3>1. Peers + 1 - listenerCount(u) \in V
      OBVIOUS
    <3>2. v <= Peers + 1 - listenerCount(u) /\ v = Peers + 1 - listenerCount(t)
      BY <1>3, <3>1
    <3> QED BY <2>1, <3>2
  <2>3. listenerCount(u) = listenerCount(t) => t <= u
    BY <1>5
  <2> QED BY <2>1, <2>2, <2>3 DEF groupPreferred
<1> QED BY <1>6

\* ... and so names a beacon that visitors named, or none.
LEMMA InvitationType ==
  ASSUME Known, NEW named \in SUBSET Bssid, NEW h
  PROVE  Invitation(named, h) \in {NoBssid} \cup (named \ {h})
<1> DEFINE S == {t \in named : t # h /\ listenerCount(t) >= 1}
           Best(t) == \A u \in S \ {t} : groupPreferred(listenerCount(t), t, listenerCount(u), u)
<1>1. CASE S = {}
  BY <1>1 DEF Invitation
<1>2. CASE S # {}
  <2>1. \E t \in S : Best(t)
    BY <1>2, BestTarget
  <2>2. (CHOOSE t \in S : Best(t)) \in S
    BY <2>1
  <2>3. Invitation(named, h) = CHOOSE t \in S : Best(t)
    BY <1>2 DEF Invitation
  <2> QED BY <2>2, <2>3
<1> QED BY <1>1, <1>2

\* The delays of a proposal.
LEMMA Delays ==
  ASSUME NEW c \in Nat
  PROVE  /\ proposalDelay(c) \in 0 .. proposalDelayCap
         /\ proposalDelay(0) <= proposalDelay(c)
<1>1. c \div credibilityStep \in Nat /\ 0 \div credibilityStep = 0
  OBVIOUS
<1> QED BY <1>1 DEF proposalDelay, proposalDelayUncapped

\* Round numbers.
LEMMA PlusType ==
  ASSUME NEW w \in Nat, NEW d \in Nat
  PROVE  Plus(w, d) \in 0 .. WakeMax
<1>1. w + d \in Nat /\ WakeMax + 1 \in Nat \ {0} /\ WakeMax \in Nat
  OBVIOUS
<1>2. (w + d) % (WakeMax + 1) \in 0 .. WakeMax + 1 - 1
  BY <1>1
<1> QED BY <1>1, <1>2 DEF Plus

\* A round that is still ahead, and no further than a delay, is not reached.
LEMMA NotReached ==
  ASSUME NEW w \in 1 .. WakeMax, NEW d \in 1 .. proposalDelayCap
  PROVE  ~Reached(w, Plus(w, d))
<1> DEFINE n == WakeMax + 1
           a == (w + d) % n
<1>0. n \in Nat \ {0} /\ w + d \in Int /\ w + d \in 0 .. 2 * n - 1 /\ d <= n /\ w \in 0 .. n - 1
  OBVIOUS
<1> HIDE DEF n
<1>1. CASE w + d \in 0 .. n - 1
  <2>1. a = w + d
    BY <1>0, <1>1, Modulo
  <2> HIDE DEF a
  <2>2. w - a \in Int /\ w - a \in -n .. -1 /\ (w - a) + n = n - d
    BY <1>0, <2>1
  <2>3. (w - a) % n = n - d
    BY <1>0, <2>2, Modulo
  <2> QED BY <2>3 DEF Reached, Plus, a, n
<1>2. CASE w + d \in n .. 2 * n - 1
  <2>1. a = w + d - n
    <3> DEFINE b == w + d
    <3>1. b \in Int /\ b \in n .. 2 * n - 1
      BY <1>0, <1>2
    <3> HIDE DEF b
    <3>2. (b % n) = b - n
      BY <1>0, <3>1, Modulo
    <3> QED BY <1>0, <3>1, <3>2 DEF a, b
  <2> HIDE DEF a
  <2>2. w - a \in Int /\ w - a \in 0 .. n - 1 /\ w - a = n - d
    BY <1>0, <2>1
  <2>3. (w - a) % n = n - d
    BY <1>0, <2>2, Modulo
  <2> QED BY <2>3 DEF Reached, Plus, a, n
<1> QED BY <1>0, <1>1, <1>2

\* A round later a proposal has a round less to wait, or two at the wrap.
LEMMA RoundNearer ==
  ASSUME NEW w \in 1 .. WakeMax, NEW d \in Nat, d <= proposalDelayCap
  PROVE  /\ d >= 1 /\ w # WakeMax => Plus(w, d) = Plus(w + 1, d - 1)
         /\ d >= 2 /\ w = WakeMax => Plus(w, d) = Plus(1, d - 2)
<1>1. ASSUME d >= 1 PROVE Plus(w, d) = Plus(w + 1, d - 1)
  <2>1. w + d = (w + 1) + (d - 1)
    OBVIOUS
  <2> QED BY <2>1 DEF Plus
<1>2. ASSUME d >= 2, w = WakeMax PROVE Plus(w, d) = Plus(1, d - 2)
  <2> DEFINE n == WakeMax + 1
  <2>1. /\ n \in Nat \ {0} /\ w + d \in Int /\ 1 + (d - 2) \in Int
        /\ w + d \in n .. 2 * n - 1 /\ 1 + (d - 2) \in 0 .. n - 1
        /\ w + d - n = 1 + (d - 2)
    BY <1>2
  <2> HIDE DEF n
  <2>2. (w + d) % n = w + d - n /\ (1 + (d - 2)) % n = 1 + (d - 2)
    BY <2>1, Modulo
  <2> QED BY <2>1, <2>2 DEF Plus, n
<1> QED BY <1>1, <1>2

-----------------------------------------------------------------------------
(* What a decision leaves behind *)

\* The persisted variables stay in their ranges, one by one.
LEMMA PersistedTypes ==
  ASSUME NEW s \in Persisted
  PROVE  /\ s.beacon \in Beacon /\ s.proposal \in Proposal /\ s.credibilityHome \in Beacon
         /\ s.homeCredibility \in 0 .. credibilityCap
         /\ s.timingRecovery \in 0 .. BlindSleeps + 1
         /\ \A p \in Proposal : [s EXCEPT !.proposal = p] \in Persisted
         /\ \A b \in Beacon : [s EXCEPT !.beacon = b] \in Persisted
BY DEF Persisted

\* A home is given credibility, and nothing else changes.
LEMMA CreditedType ==
  ASSUME NEW s \in Persisted, NEW h \in Beacon, NEW c \in 0 .. credibilityCap
  PROVE  /\ Credited(s, h, c) \in Persisted
         /\ Credited(s, h, c).proposal = s.proposal
         /\ Credited(s, h, c).beacon = s.beacon
<1> DEFINE b == IF c = 0 THEN NoBssid ELSE h
<1>1. b \in Beacon
  BY DEF Beacon
<1>2. Credited(s, h, c) = [s EXCEPT !.homeCredibility = c, !.credibilityHome = b]
  BY DEF Credited
<1> HIDE DEF b
<1> QED BY <1>1, <1>2 DEF Persisted

\* commitHome() ...
LEMMA CommitHomeType ==
  ASSUME NEW s \in Persisted, NEW t \in Beacon
  PROVE  CommitHome(s, t) \in Persisted
<1> DEFINE r == [s EXCEPT !.beacon = t, !.proposal = NoProposal]
<1>1. NoProposal \in Proposal /\ 0 \in 0 .. credibilityCap
  BY DEF NoProposal, Proposal, Beacon
<1>2. r \in Persisted
  BY <1>1 DEF Persisted
<1>3. CommitHome(s, t) \in {s, Credited(r, t, 0)}
  BY DEF CommitHome
<1> HIDE DEF r
<1> QED BY <1>1, <1>2, <1>3, CreditedType

\* commitHome() moves the board, and forgets the proposal when it does.
LEMMA CommitHomeEffect ==
  ASSUME NEW s \in Persisted, NEW t \in Beacon \ {NoBssid}
  PROVE  /\ CommitHome(s, t).beacon = t
         /\ CommitHome(s, t).proposal \in {s.proposal, NoProposal}
<1> DEFINE r == [s EXCEPT !.beacon = t, !.proposal = NoProposal]
<1>1. NoProposal \in Proposal /\ 0 \in 0 .. credibilityCap
  BY DEF NoProposal, Proposal, Beacon
<1>2. r \in Persisted /\ r.beacon = t /\ r.proposal = NoProposal
  BY <1>1 DEF Persisted
<1>3. CommitHome(s, t) = IF t = s.beacon THEN s ELSE Credited(r, t, 0)
  BY DEF CommitHome
<1> HIDE DEF r
<1>4. Credited(r, t, 0).beacon = t /\ Credited(r, t, 0).proposal = NoProposal
  BY <1>1, <1>2, CreditedType
<1> QED BY <1>3, <1>4

\* Whatever the home, its credibility is in range, ...
LEMMA CredibilityType ==
  ASSUME NEW s \in Persisted, NEW h
  PROVE  CredibilityOf(s, h) \in 0 .. credibilityCap
<1>1. s.homeCredibility \in 0 .. credibilityCap /\ 0 \in 0 .. credibilityCap
  BY DEF Persisted
<1> QED BY <1>1 DEF CredibilityOf

\* ... and so is the proposal that StartProposal writes, ...
LEMMA StartedType ==
  ASSUME Known, NEW s \in Persisted, NEW h \in Beacon, NEW t \in Beacon,
         NEW n \in 0 .. Peers + 1
  PROVE  Started(s, h, t, n) \in Proposal
<1>1. CredibilityOf(s, h) \in Nat
  BY CredibilityType
<1> DEFINE d == proposalDelay(CredibilityOf(s, h))
<1>2. d \in Nat /\ wake \in Nat
  BY <1>1, Delays DEF Known
<1> HIDE DEF d
<1>3. Plus(wake, d) \in 0 .. WakeMax
  BY <1>2, PlusType
<1> QED BY <1>3 DEF Started, Proposal, d

\* Nothing is said of a proposal that was not said before, or it has still to
\* wait for its delay.
NothingRipens(p, q) ==
  \/ q.beacon = NoBssid
  \/ p.beacon = q.beacon /\ p.home = q.home /\ p.actRound = q.actRound
  \/ \E left \in proposalDelay(0) .. proposalDelayCap : q.actRound = Plus(wake, left)

\* ... which has its whole delay ahead of it.
LEMMA StartedRipens ==
  ASSUME NEW s \in Persisted, NEW h, NEW t, NEW n, NEW p
  PROVE  NothingRipens(p, Started(s, h, t, n))
<1> DEFINE d == proposalDelay(CredibilityOf(s, h))
<1>1. CredibilityOf(s, h) \in Nat
  BY CredibilityType
<1>2. d \in 0 .. proposalDelayCap /\ proposalDelay(0) <= d /\ proposalDelay(0) \in Nat
  BY <1>1, Delays
<1>3. Started(s, h, t, n).actRound = Plus(wake, d)
  BY DEF Started
<1> HIDE DEF d
<1>4. d \in proposalDelay(0) .. proposalDelayCap
  BY <1>2
<1> QED BY <1>3, <1>4 DEF NothingRipens

\* A confirmed proposal is the one it was, with another size.
LEMMA ConfirmedType ==
  ASSUME NEW s \in Persisted, NEW action, NEW n \in 0 .. Peers + 1
  PROVE  /\ Confirmed(s, action, n) \in Persisted
         /\ Confirmed(s, action, n).beacon = s.beacon
         /\ Confirmed(s, action, n).proposal.beacon = s.proposal.beacon
         /\ Confirmed(s, action, n).proposal.home = s.proposal.home
         /\ Confirmed(s, action, n).proposal.actRound = s.proposal.actRound
<1> DEFINE q == [s.proposal EXCEPT !.members = n]
           r == [s EXCEPT !.proposal = q]
<1>1. /\ q \in Proposal /\ q.beacon = s.proposal.beacon /\ q.home = s.proposal.home
      /\ q.actRound = s.proposal.actRound
  BY DEF Persisted, Proposal
<1>2. Confirmed(s, action, n) \in {s, r}
  BY DEF Confirmed
<1> HIDE DEF q
<1>3. r \in Persisted /\ r.beacon = s.beacon /\ r.proposal = q
  BY <1>1 DEF Persisted
<1> HIDE DEF r
<1> QED BY <1>1, <1>2, <1>3

\* observeGroupForMigration() on its five ways out.
LEMMA Observed ==
  ASSUME Known, NEW s \in Persisted, NEW h \in Beacon, NEW m, NEW t \in Bssid,
         NEW n \in 0 .. Peers + 1
  PROVE  /\ AfterObserving(s, h, m, t, n) \in Persisted
         /\ NothingRipens(s.proposal, AfterObserving(s, h, m, t, n).proposal)
         /\ AfterObserving(s, h, m, t, n).beacon # s.beacon =>
              /\ AfterObserving(s, h, m, t, n).beacon = t
              /\ m # 1 =>
                   /\ s.proposal.beacon = t /\ s.proposal.home = h
                   /\ Reached(wake, s.proposal.actRound)
<1> DEFINE action == ObservedAction(s, h, m, t, n)
           after == AfterObserving(s, h, m, t, n)
           p == s.proposal
           r == Confirmed(s, action, n)
<1>0. /\ t \in Beacon /\ t # NoBssid /\ p \in Proposal /\ NoProposal \in Proposal
      /\ NoProposal.beacon = NoBssid
  <2>1. t \in Beacon /\ t # NoBssid
    BY DEF Beacon, NoBssid
  <2>2. NoProposal \in Proposal /\ NoProposal.beacon = NoBssid
    BY DEF Beacon, NoProposal, Proposal
  <2> QED BY <2>1, <2>2, PersistedTypes
<1>1. /\ r \in Persisted /\ r.beacon = s.beacon /\ r.proposal.beacon = p.beacon
      /\ r.proposal.home = p.home /\ r.proposal.actRound = p.actRound
  BY ConfirmedType
<1>2. CASE action \in Moving
  <2>1. after = CommitHome(r, t)
    BY <1>2 DEF AfterObserving
  <2>2. m # 1 => action = "CommitProposal"
    BY <1>2 DEF ObservedAction, Moving, mayCoalesce, mayAdopt
  <2>3. action = "CommitProposal" =>
          p.beacon = t /\ p.home = h /\ Reached(wake, p.actRound)
    BY DEF ObservedAction, Pending
  <2> HIDE DEF r, action, after, p
  <2>4. after \in Persisted /\ after.beacon = t
    BY <1>0, <1>1, <2>1, CommitHomeType, CommitHomeEffect
  <2>5. after.proposal \in {r.proposal, NoProposal}
    BY <1>0, <1>1, <2>1, CommitHomeEffect
  <2>6. NothingRipens(p, after.proposal)
    BY <1>0, <1>1, <2>5 DEF NothingRipens
  <2> QED BY <2>2, <2>3, <2>4, <2>6 DEF after, p
<1>3. CASE action = "CancelNotPreferred"
  <2>1. after = [s EXCEPT !.proposal = NoProposal]
    BY <1>3 DEF AfterObserving, Moving
  <2>2. after \in Persisted /\ after.proposal = NoProposal /\ after.beacon = s.beacon
    BY <1>0, <2>1 DEF Persisted
  <2> QED BY <1>0, <2>2 DEF NothingRipens
<1>4. CASE action = "StartProposal"
  <2>1. after = [s EXCEPT !.proposal = Started(s, h, t, n)]
    BY <1>4 DEF AfterObserving, Moving
  <2>2. Started(s, h, t, n) \in Proposal
    BY <1>0, StartedType
  <2>3. /\ after \in Persisted /\ after.proposal = Started(s, h, t, n)
        /\ after.beacon = s.beacon
    BY <2>1, <2>2 DEF Persisted
  <2>4. NothingRipens(p, Started(s, h, t, n))
    BY StartedRipens
  <2> QED BY <2>3, <2>4
<1>5. CASE action \notin Moving \cup {"CancelNotPreferred", "StartProposal"}
  <2>1. after = r
    BY <1>5 DEF AfterObserving
  <2> HIDE DEF r, after
  <2>2. after \in Persisted /\ after.beacon = s.beacon /\ NothingRipens(p, after.proposal)
    BY <1>1, <2>1 DEF NothingRipens
  <2> QED BY <2>2 DEF after
<1> QED BY <1>2, <1>3, <1>4, <1>5

\* maybeCommitMigration() with a pending proposal: it is kept, cancelled, or
\* carried out at the home it was made at, when its round has come.
LEMMA Checked ==
  ASSUME Known, NEW s \in Persisted, NEW h \in Beacon, NEW m
  PROVE  /\ AfterChecking(s, h, m) \in Persisted
         /\ AfterChecking(s, h, m).proposal \in {s.proposal, NoProposal}
         /\ AfterChecking(s, h, m).beacon # s.beacon =>
              /\ s.proposal.beacon = AfterChecking(s, h, m).beacon
              /\ s.proposal.beacon # NoBssid /\ s.proposal.home = h
              /\ Reached(wake, s.proposal.actRound)
<1> DEFINE action == CheckedAction(s, h, m)
           after == AfterChecking(s, h, m)
           p == s.proposal
<1>0. p \in Proposal /\ p.beacon \in Beacon /\ NoProposal \in Proposal
  <2>1. NoProposal \in Proposal
    BY DEF Beacon, NoProposal, Proposal
  <2> QED BY <2>1 DEF Persisted, Proposal
<1>1. CASE p.beacon = NoBssid \/ action = "AwaitActivation"
  <2>1. after = s
    BY <1>1 DEF AfterChecking
  <2> QED BY <2>1
<1>2. CASE p.beacon # NoBssid /\ action \in {"CancelHomeChanged", "CancelHomeCaughtUp"}
  <2>1. after = [s EXCEPT !.proposal = NoProposal]
    BY <1>2 DEF AfterChecking
  <2>2. after \in Persisted /\ after.proposal = NoProposal /\ after.beacon = s.beacon
    BY <1>0, <2>1 DEF Persisted
  <2> QED BY <2>2
<1>3. CASE p.beacon # NoBssid /\ action = "CommitProposal"
  <2>1. after = CommitHome(s, p.beacon)
    BY <1>3 DEF AfterChecking
  <2>2. p.home = h /\ Reached(wake, p.actRound)
    BY <1>3 DEF CheckedAction
  <2> HIDE DEF after, p, action
  <2>3. p.beacon \in Beacon \ {NoBssid}
    BY <1>0, <1>3
  <2>4. after \in Persisted /\ after.beacon = p.beacon
    BY <1>0, <2>1, <2>3, CommitHomeType, CommitHomeEffect
  <2>5. after.proposal \in {s.proposal, NoProposal}
    BY <2>1, <2>3, CommitHomeEffect
  <2> QED BY <2>2, <2>3, <2>4, <2>5 DEF after, p
<1>4. action \in {"CancelHomeChanged", "CancelHomeCaughtUp", "AwaitActivation",
                  "CommitProposal"}
  BY DEF CheckedAction
<1> QED BY <1>1, <1>2, <1>3, <1>4

\* A home appointment judges the home and nothing else.
LEMMA Judged ==
  ASSUME NEW s \in Persisted, NEW h \in Beacon, NEW qualified \in BOOLEAN,
         NEW heardPeer \in BOOLEAN
  PROVE  /\ updateHomeCredibility(s, h, qualified, heardPeer) \in Persisted
         /\ updateHomeCredibility(s, h, qualified, heardPeer).proposal = s.proposal
         /\ updateHomeCredibility(s, h, qualified, heardPeer).beacon = s.beacon
<1> DEFINE old == CredibilityOf(s, h)
           new == IF qualified THEN reinforce(old, heardPeer) ELSE decay(old)
<1>1. old \in 0 .. credibilityCap
  BY CredibilityType
<1> HIDE DEF old
<1>2. new \in 0 .. credibilityCap
  BY <1>1 DEF reinforce, decay
<1>3. updateHomeCredibility(s, h, qualified, heardPeer) = Credited(s, h, new)
  BY DEF updateHomeCredibility, old
<1> HIDE DEF new
<1> QED BY <1>2, <1>3, CreditedType

\* The proposal p to move to b was made at home h, and its round has come.
Ripe(p, h, b) ==
  p.beacon = b /\ b # NoBssid /\ p.home = h /\ Reached(wake, p.actRound)

\* What a home appointment decides before its visitors are answered.
LEMMA HomeFinished ==
  ASSUME Known, NEW s \in Persisted, NEW h \in Beacon, s.beacon = h,
         NEW qualified \in BOOLEAN, NEW heardPeer \in BOOLEAN
  PROVE  LET after == AfterHome(s, h, qualified, heardPeer)
         IN  /\ after \in Persisted
             /\ NothingRipens(s.proposal, after.proposal)
             /\ after.beacon = h \/ Ripe(s.proposal, h, after.beacon)
<1> DEFINE judged == updateHomeCredibility(s, h, qualified, heardPeer)
           after == AfterHome(s, h, qualified, heardPeer)
           p == s.proposal
<1>1. judged \in Persisted /\ judged.proposal = p /\ judged.beacon = h
  BY Judged
<1>2. after \in {judged, AfterChecking(judged, h, listenerCount(h))}
  BY DEF AfterHome
<1> HIDE DEF judged, after
<1>3. after \in Persisted /\ after.proposal \in {p, NoProposal}
  BY <1>1, <1>2, Checked
<1>4. after.beacon # h => Ripe(p, h, after.beacon)
  BY <1>1, <1>2, Checked DEF Ripe
<1> HIDE DEF p
<1>5. NothingRipens(p, after.proposal)
  BY <1>3 DEF NothingRipens, NoProposal
<1> QED BY <1>3, <1>4, <1>5 DEF after, p

-----------------------------------------------------------------------------
(* The invariant *)

\* A whole proposal that has been pending for less than the shortest delay is still
\* ahead, by what is left of it or more.
Ripening ==
  (spiffs.proposal.beacon # NoBssid /\ ~torn /\ waited < proposalDelay(0)) =>
    \E left \in proposalDelay(0) - waited .. proposalDelayCap :
      spiffs.proposal.actRound = Plus(wake, left)

IInv == TypeOK /\ Ripening

\* The shortest delay of a proposal is within the limit.
LEMMA ShortestDelay == proposalDelay(0) \in 0 .. proposalDelayCap
BY Delays

\* What a decision writes, or a panic cuts short: the proposal ripens as before,
\* or is torn.
LEMMA WrittenKeeps ==
  ASSUME TypeOK, Ripening, NEW s \in Persisted, NEW timed \in BOOLEAN,
         \/ NothingRipens(spiffs.proposal, s.proposal)
         \/ ~timed /\ s.proposal.actRound = spiffs.proposal.actRound,
         Written(s, timed), wake' = wake
  PROVE  /\ spiffs' \in Persisted /\ waited' \in 0 .. proposalDelayCap
         /\ torn' \in BOOLEAN /\ Ripening'
<1> DEFINE same == /\ s.proposal.beacon = spiffs.proposal.beacon
                   /\ s.proposal.home = spiffs.proposal.home
<1>1. /\ spiffs' = s /\ waited' \in {waited, 0} /\ waited \in 0 .. proposalDelayCap
      /\ same => waited' = waited /\ torn' = torn
      /\ ~same => torn' = ~timed
      /\ torn \in BOOLEAN
  BY DEF Written, TypeOK
<1>2. waited' \in 0 .. proposalDelayCap
  BY <1>1
<1>3. Ripening'
  <2> SUFFICES ASSUME s.proposal.beacon # NoBssid, ~torn', waited' < proposalDelay(0)
               PROVE  \E left \in proposalDelay(0) - waited' .. proposalDelayCap :
                        s.proposal.actRound = Plus(wake, left)
    BY <1>1 DEF Ripening, Plus, proposalDelay, proposalDelayUncapped
  <2>1. CASE same /\ spiffs.proposal.actRound = s.proposal.actRound
    BY <1>1, <2>1 DEF Ripening
  <2>2. ASSUME NEW left \in proposalDelay(0) .. proposalDelayCap,
               s.proposal.actRound = Plus(wake, left)
        PROVE  \E l \in proposalDelay(0) - waited' .. proposalDelayCap :
                 s.proposal.actRound = Plus(wake, l)
    <3>1. left \in proposalDelay(0) - waited' .. proposalDelayCap
      BY <1>2, ShortestDelay
    <3> QED BY <2>2, <3>1
  <2>3. same \/ timed
    BY <1>1
  <2> QED BY <2>1, <2>2, <2>3 DEF NothingRipens
<1> QED BY <1>1, <1>2, <1>3

\* A whole proposal whose round has come has waited long enough.
LEMMA RipeHasWaited ==
  ASSUME IInv, spiffs.proposal.beacon # NoBssid, Reached(wake, spiffs.proposal.actRound),
         ~torn
  PROVE  waited >= proposalDelay(0)
<1>1. wake \in 1 .. WakeMax /\ waited \in Nat /\ proposalDelay(0) \in Nat
  BY ShortestDelay DEF IInv, TypeOK
<1>2. SUFFICES ASSUME waited < proposalDelay(0) PROVE FALSE
  BY <1>1
<1>3. PICK left \in proposalDelay(0) - waited .. proposalDelayCap :
        spiffs.proposal.actRound = Plus(wake, left)
  BY <1>2 DEF IInv, Ripening
<1>4. left \in 1 .. proposalDelayCap
  BY <1>1, <1>2
<1> QED BY <1>1, <1>3, <1>4, NotReached

\* A round passes: every pending proposal comes nearer as it waits.
LEMMA RoundKeeps ==
  ASSUME IInv, Round
  PROVE  /\ wake' \in 1 .. WakeMax /\ own' \in Beacon
         /\ waited' \in 0 .. proposalDelayCap /\ Ripening'
<1> DEFINE step == IF wake = WakeMax THEN 2 ELSE 1
           p == spiffs.proposal
<1>1. /\ wake \in 1 .. WakeMax /\ own \in Beacon /\ waited \in 0 .. proposalDelayCap
      /\ proposalDelay(0) \in 0 .. proposalDelayCap /\ spiffs' = spiffs
      /\ torn' = torn
  BY ShortestDelay DEF IInv, TypeOK, Round
<1>2. wake' \in 1 .. WakeMax /\ own' \in Beacon
  BY <1>1 DEF Round, Beacon
<1>3. waited' = IF p.beacon = NoBssid \/ torn THEN 0
                ELSE IF waited + step > proposalDelayCap THEN proposalDelayCap
                ELSE waited + step
  BY DEF Round
<1>4. waited' \in 0 .. proposalDelayCap
  BY <1>1, <1>3
<1>5. Ripening'
  <2> SUFFICES ASSUME p.beacon # NoBssid, ~torn, waited' < proposalDelay(0)
               PROVE  \E left \in proposalDelay(0) - waited' .. proposalDelayCap :
                        p.actRound = Plus(wake', left)
    BY <1>1 DEF Ripening, Plus, proposalDelay, proposalDelayUncapped
  <2>1. waited' = waited + step /\ waited < proposalDelay(0)
    BY <1>1, <1>3
  <2>2. PICK left \in proposalDelay(0) - waited .. proposalDelayCap :
          p.actRound = Plus(wake, left)
    BY <2>1 DEF IInv, Ripening
  <2> DEFINE now == left - step
  <2>3. /\ left \in Nat /\ left <= proposalDelayCap /\ left >= step
        /\ now \in proposalDelay(0) - waited' .. proposalDelayCap
    BY <1>1, <2>1
  <2>4. p.actRound = Plus(wake', now)
    <3>1. CASE wake = WakeMax
      <4>1. wake' = 1 /\ step = 2 /\ left >= 2 /\ now = left - 2
        BY <2>3, <3>1 DEF Round
      <4>2. Plus(wake, left) = Plus(1, left - 2)
        BY <1>1, <2>3, <3>1, <4>1, RoundNearer
      <4> QED BY <2>2, <4>1, <4>2
    <3>2. CASE wake # WakeMax
      <4>1. wake' = wake + 1 /\ step = 1 /\ left >= 1 /\ now = left - 1
        BY <2>3, <3>2 DEF Round
      <4>2. Plus(wake, left) = Plus(wake + 1, left - 1)
        BY <1>1, <2>3, <3>2, <4>1, RoundNearer
      <4> QED BY <2>2, <4>1, <4>2
    <3> QED BY <3>1, <3>2
  <2> QED BY <2>3, <2>4
<1> QED BY <1>2, <1>4, <1>5

\* The actions that change only the persisted variables and the plan.
LEMMA DecisionKeeps ==
  ASSUME IInv, NEW s \in Persisted, NEW timed \in BOOLEAN,
         \/ NothingRipens(spiffs.proposal, s.proposal)
         \/ ~timed /\ s.proposal.actRound = spiffs.proposal.actRound,
         Written(s, timed), wake' = wake, fresh' \in Tables, own' \in Beacon,
         plan' \in Plan, visitors' \in BOOLEAN
  PROVE  IInv'
<1>1. /\ spiffs' \in Persisted /\ waited' \in 0 .. proposalDelayCap /\ torn' \in BOOLEAN
      /\ Ripening'
  BY WrittenKeeps DEF IInv
<1>2. wake' \in 1 .. WakeMax
  BY DEF IInv, TypeOK
<1> QED BY <1>1, <1>2 DEF IInv, TypeOK

\* A plan is made.
LEMMA PlanKeeps ==
  ASSUME IInv, NEW h \in Bssid, MakePlan(h)
  PROVE  IInv'
<1> DEFINE s == [spiffs EXCEPT !.beacon = h, !.timingRecovery = 0]
<1>1. spiffs \in Persisted /\ h \in Beacon
  BY DEF IInv, TypeOK, Beacon
<1>2. s \in Persisted /\ s.proposal = spiffs.proposal
  <2>1. 0 \in 0 .. BlindSleeps + 1
    OBVIOUS
  <2> QED BY <1>1, <2>1 DEF Persisted
<1>3. Written(s, TRUE) /\ wake' = wake /\ fresh' \in Tables /\ own' \in Beacon /\ visitors' \in BOOLEAN
  BY <1>1 DEF MakePlan, Persist, IInv, TypeOK
<1>4. plan' \in Plan
  BY <1>1 DEF MakePlan, Plan
<1> HIDE DEF s
<1>5. NothingRipens(spiffs.proposal, s.proposal)
  BY <1>2 DEF NothingRipens
<1> QED BY <1>2, <1>3, <1>4, <1>5, DecisionKeeps

\* No beacon of the home is seen.
LEMMA RecoveryKeeps ==
  ASSUME IInv, RecoverMissingHomeTiming
  PROVE  IInv'
<1> DEFINE s == Recovered(spiffs)
<1>1. spiffs \in Persisted /\ plan \in Plan /\ NoBssid \in Beacon
  BY DEF IInv, TypeOK, Beacon
<1>2. s \in Persisted /\ s.proposal = spiffs.proposal
  <2>1. spiffs.timingRecovery \in 0 .. BlindSleeps + 1 /\ BlindSleeps + 1 \in 0 .. BlindSleeps + 1
    BY <1>1 DEF Persisted
  <2>2. CASE spiffs.timingRecovery >= BlindSleeps
    BY <1>1, <2>1, <2>2 DEF Persisted, Recovered
  <2>3. CASE ~(spiffs.timingRecovery >= BlindSleeps)
    <3>1. spiffs.timingRecovery + 1 \in 0 .. BlindSleeps + 1
      BY <2>1, <2>3
    <3>2. s = [spiffs EXCEPT !.timingRecovery = spiffs.timingRecovery + 1]
      BY <2>3 DEF Recovered
    <3> QED BY <1>1, <3>1, <3>2 DEF Persisted
  <2> QED BY <2>2, <2>3
<1>3. /\ Written(s, TRUE) /\ wake' = wake /\ fresh' \in Tables /\ own' \in Beacon
      /\ plan' = plan /\ visitors' \in BOOLEAN
  BY DEF RecoverMissingHomeTiming, Persist, IInv, TypeOK
<1> HIDE DEF s
<1>4. NothingRipens(spiffs.proposal, s.proposal)
  BY <1>2 DEF NothingRipens
<1> QED BY <1>1, <1>2, <1>3, <1>4, DecisionKeeps

\* A home appointment ends.
LEMMA HomeKeeps ==
  ASSUME IInv, NEW qualified \in BOOLEAN, NEW heardPeer \in BOOLEAN,
         FinishHome(qualified, heardPeer)
  PROVE  IInv'
<1> DEFINE s == AfterHome(spiffs, plan.home, qualified, heardPeer)
<1>1. /\ spiffs \in Persisted /\ plan \in Plan /\ plan.home \in Beacon
      /\ spiffs.beacon = plan.home /\ Known
  BY DEF IInv, TypeOK, Plan, FinishHome, Known
<1>2. s \in Persisted /\ NothingRipens(spiffs.proposal, s.proposal)
  BY <1>1, HomeFinished
<1>3. /\ Written(s, TRUE) /\ wake' = wake /\ fresh' \in Tables /\ own' \in Beacon
      /\ plan' = plan /\ visitors' \in BOOLEAN
  BY DEF FinishHome, Persist, IInv, TypeOK
<1> HIDE DEF s
<1> QED BY <1>1, <1>2, <1>3, DecisionKeeps

\* A group is observed while a record arrives.
LEMMA ObservationKeeps ==
  ASSUME IInv, NEW t \in Bssid, NEW s, NEW m,
         s = AfterObserving(spiffs, plan.home, m, t, Counted(fresh', t)),
         fresh' \in Received, Persist(s), UNCHANGED <<wake, own>>, plan' \in Plan,
         visitors' \in BOOLEAN
  PROVE  IInv'
<1>1. /\ spiffs \in Persisted /\ plan.home \in Beacon /\ Known /\ t \in Beacon
      /\ fresh' \in Tables /\ own \in Beacon
  BY ReceivedType DEF IInv, TypeOK, Plan, Known, Beacon
<1>2. Counted(fresh', t) \in 0 .. Peers + 1
  BY <1>1, CountedType
<1>3. s \in Persisted /\ NothingRipens(spiffs.proposal, s.proposal)
  BY <1>1, <1>2, Observed
<1>4. Written(s, TRUE)
  BY DEF Persist
<1> QED BY <1>1, <1>3, <1>4, DecisionKeeps

\* The visitors of a home appointment are answered.
LEMMA VisitorsKeep ==
  ASSUME IInv, NEW named \in SUBSET Bssid, AnswerVisitors(named)
  PROVE  IInv'
<1> DEFINE t == Invitation(named, plan.home)
<1>1. Known /\ plan' \in Plan /\ visitors' \in BOOLEAN /\ UNCHANGED <<wake, own>>
  BY DEF IInv, TypeOK, Known, AnswerVisitors
<1>2. t \in {NoBssid} \cup Bssid
  BY <1>1, InvitationType
<1>3. CASE t = NoBssid
  <2>1. UNCHANGED <<spiffs, fresh, waited, torn>>
    BY <1>3 DEF AnswerVisitors, history
  <2>2. Ripening'
    BY <1>1, <2>1 DEF IInv, Ripening, Plus, proposalDelay, proposalDelayUncapped
  <2> QED BY <1>1, <2>1, <2>2 DEF IInv, TypeOK
<1>4. CASE t # NoBssid
  <2>1. /\ fresh' \in Received
        /\ Persist(AfterObserving(spiffs, plan.home, listenerCount(plan.home), t,
                                  Counted(fresh', t)))
    BY <1>4 DEF AnswerVisitors
  <2>2. t \in Bssid
    BY <1>2, <1>4
  <2> HIDE DEF t
  <2> QED BY <1>1, <2>1, <2>2, ObservationKeeps
<1> QED BY <1>3, <1>4

\* A scout appointment ends.
LEMMA ScoutKeeps ==
  ASSUME IInv, NEW t \in Bssid, NEW positivePackets, FinishScout(t, positivePackets)
  PROVE  IInv'
<1>1. /\ plan' \in Plan /\ visitors' \in BOOLEAN /\ UNCHANGED <<wake, own>>
  BY DEF IInv, TypeOK, Plan, FinishScout
<1>2. CASE ~mayEvaluateScout(positivePackets)
  <2>1. UNCHANGED <<spiffs, fresh, waited, torn>>
    BY <1>2 DEF FinishScout, history
  <2>2. Ripening'
    BY <1>1, <2>1 DEF IInv, Ripening, Plus, proposalDelay, proposalDelayUncapped
  <2> QED BY <1>1, <2>1, <2>2 DEF IInv, TypeOK
<1>3. CASE mayEvaluateScout(positivePackets)
  <2>1. /\ fresh' \in Received
        /\ Persist(AfterObserving(spiffs, plan.home, listenerCount(plan.home), t,
                                  Counted(fresh', t)))
    BY <1>3 DEF FinishScout
  <2> QED BY <1>1, <2>1, ObservationKeeps
<1> QED BY <1>2, <1>3

\* A panic leaves half of a proposal, or of a move, behind.
LEMMA PanicKeeps ==
  ASSUME IInv, NEW t \in Bssid, PanicWhileWriting(t)
  PROVE  IInv'
<1> DEFINE n == Counted(fresh', t)
           p == spiffs.proposal
           start == Started(spiffs, plan.home, t, n)
           action == ObservedAction(spiffs, plan.home, listenerCount(plan.home), t, n)
<1>1. /\ spiffs \in Persisted /\ plan \in Plan /\ plan.home \in Beacon /\ Known
      /\ t \in Beacon /\ NoPlan \in Plan /\ fresh' \in Tables
  BY ReceivedType DEF IInv, TypeOK, Plan, Known, Beacon, NoPlan, PanicWhileWriting
<1>2. /\ plan' \in Plan /\ visitors' \in BOOLEAN /\ wake' = wake /\ own' \in Beacon
  BY <1>1 DEF PanicWhileWriting, Known
<1>3. n \in 0 .. Peers + 1
  BY <1>1, CountedType DEF Known
<1>4. start \in Proposal /\ p \in Proposal /\ start.home = plan.home
  BY <1>1, <1>3, StartedType DEF Persisted, Started
<1>5. CASE action = "StartProposal"
  <2>1. PICK k \in 1 .. 3 :
          Written([spiffs EXCEPT !.proposal.beacon = t,
                                 !.proposal.home = IF k >= 2 THEN start.home ELSE @,
                                 !.proposal.actRound = IF k = 3 THEN start.actRound ELSE @],
                  k = 3)
    BY <1>5 DEF PanicWhileWriting, Moving
  <2> DEFINE half == [p EXCEPT !.beacon = t,
                               !.home = IF k >= 2 THEN start.home ELSE @,
                               !.actRound = IF k = 3 THEN start.actRound ELSE @]
             s == [spiffs EXCEPT !.proposal = half]
  <2>2. Written(s, k = 3)
    BY <1>1, <2>1 DEF Persisted, Proposal
  <2>3. start.actRound = Plus(wake, proposalDelay(CredibilityOf(spiffs, plan.home)))
    BY DEF Started
  <2> HIDE DEF start
  <2>4. /\ start.home \in Beacon /\ start.actRound \in 0 .. WakeMax
        /\ p.home \in Beacon /\ p.actRound \in 0 .. WakeMax
    BY <1>4 DEF Proposal
  <2>5. half \in Proposal
    BY <1>1, <1>4, <2>4 DEF Proposal
  <2>6. /\ k # 3 => half.actRound = p.actRound
        /\ k = 3 => half.actRound = start.actRound
    BY <1>4 DEF Proposal
  <2> HIDE DEF half
  <2>7. s \in Persisted /\ s.proposal = half
    BY <1>1, <2>5 DEF Persisted
  <2>8. CASE k = 3
    <3> DEFINE d == proposalDelay(CredibilityOf(spiffs, plan.home))
    <3>1. CredibilityOf(spiffs, plan.home) \in Nat
      BY <1>1, CredibilityType
    <3>2. d \in proposalDelay(0) .. proposalDelayCap
      BY <3>1, Delays
    <3>3. half.actRound = Plus(wake, d)
      BY <2>3, <2>6, <2>8
    <3> HIDE DEF d, s
    <3>4. NothingRipens(p, half)
      BY <3>2, <3>3 DEF NothingRipens
    <3>5. NothingRipens(spiffs.proposal, s.proposal)
      BY <2>7, <3>4
    <3>6. (k = 3) \in BOOLEAN
      OBVIOUS
    <3> QED BY <1>1, <1>2, <2>2, <2>7, <3>5, <3>6, DecisionKeeps
  <2>9. CASE k # 3
    <3> HIDE DEF s
    <3>1. s.proposal.actRound = spiffs.proposal.actRound
      BY <2>6, <2>7, <2>9
    <3>2. Written(s, FALSE)
      <4>1. (k = 3) = FALSE
        BY <2>9
      <4> QED BY <2>2, <4>1
    <3> QED BY <1>1, <1>2, <2>7, <3>1, <3>2, DecisionKeeps
  <2> QED BY <2>8, <2>9
<1>6. CASE action # "StartProposal"
  <2> DEFINE r == Confirmed(spiffs, action, n)
             s == [r EXCEPT !.beacon = t]
  <2>1. Written(s, TRUE)
    BY <1>6 DEF PanicWhileWriting, Persist
  <2>2. /\ r \in Persisted /\ r.proposal.beacon = p.beacon
        /\ r.proposal.home = p.home /\ r.proposal.actRound = p.actRound
    BY <1>1, <1>3, ConfirmedType
  <2> HIDE DEF r
  <2>3. s \in Persisted /\ s.proposal = r.proposal
    BY <1>1, <2>2 DEF Persisted
  <2> HIDE DEF s
  <2>4. NothingRipens(spiffs.proposal, s.proposal)
    BY <2>2, <2>3 DEF NothingRipens
  <2> QED BY <1>1, <1>2, <2>1, <2>3, <2>4, DecisionKeeps
<1> QED BY <1>5, <1>6

\* The board starts with nothing, and does so again after a reset.
LEMMA ClearedIsInitial ==
  /\ Cleared \in Persisted /\ Cleared.proposal.beacon = NoBssid
  /\ 1 \in 1 .. WakeMax /\ NoBssid \in Beacon /\ NoPlan \in Plan
  /\ 0 \in 0 .. proposalDelayCap
<1>1. NoBssid \in Beacon /\ NoProposal \in Proposal /\ NoPlan \in Plan
  BY DEF Beacon, NoProposal, Proposal, NoPlan, Plan
<1>2. 0 \in 0 .. credibilityCap /\ 0 \in 0 .. BlindSleeps + 1 /\ 0 \in 0 .. proposalDelayCap
  OBVIOUS
<1>3. Cleared \in Persisted /\ Cleared.proposal.beacon = NoBssid
  BY <1>1, <1>2 DEF Cleared, Persisted, NoProposal
<1>4. 1 \in 1 .. WakeMax
  OBVIOUS
<1> QED BY <1>1, <1>2, <1>3, <1>4

\* Every step keeps the invariant.
LEMMA Invariance == Spec => []IInv
<1>1. Init => IInv
  <2> SUFFICES ASSUME Init PROVE IInv
    OBVIOUS
  <2>1. /\ spiffs = Cleared /\ wake = 1 /\ fresh \in Tables /\ own = NoBssid
        /\ plan = NoPlan /\ visitors = FALSE /\ waited = 0 /\ torn = FALSE
    BY NothingType DEF Init
  <2>2. TypeOK
    BY <2>1, ClearedIsInitial DEF TypeOK
  <2>3. Ripening
    BY <2>1, ClearedIsInitial DEF Ripening
  <2> QED BY <2>2, <2>3 DEF IInv
<1>2. ASSUME IInv, [Next]_vars PROVE IInv'
  <2>1. CASE Evidence \/ Publish \/ OwnRecordExpires \/ DropPlan \/ UNCHANGED vars
    <3>1. fresh' \in Tables
      <4>1. fresh \in Tables
        BY <1>2 DEF IInv, TypeOK
      <4>2. fresh' = fresh \/ fresh' \in Received
        BY <2>1 DEF Evidence, Publish, OwnRecordExpires, DropPlan, vars
      <4> QED BY <4>1, <4>2, ReceivedType
    <3>2. UNCHANGED <<spiffs, wake, waited, torn>>
      BY <2>1 DEF Evidence, Publish, OwnRecordExpires, DropPlan, vars, history
    <3>3. own' \in Beacon /\ plan' \in Plan /\ visitors' \in BOOLEAN
      BY <1>2, <2>1, ClearedIsInitial
         DEF IInv, TypeOK, Persisted, Evidence, Publish, OwnRecordExpires, DropPlan, vars
    <3>4. Ripening'
      BY <1>2, <3>2 DEF IInv, Ripening, Plus, proposalDelay, proposalDelayUncapped
    <3> QED BY <1>2, <3>1, <3>2, <3>3, <3>4 DEF IInv, TypeOK
  <2>2. CASE Round
    <3>1. UNCHANGED <<spiffs, fresh, plan, visitors, torn>>
      BY <2>2 DEF Round
    <3> QED BY <1>2, <2>2, <3>1, RoundKeeps DEF IInv, TypeOK
  <2>3. CASE TestReset
    <3>1. /\ spiffs' = Cleared /\ wake' = 1 /\ own' = NoBssid /\ plan' = NoPlan
          /\ visitors' = FALSE /\ waited' \in {waited, 0} /\ torn' \in {torn, FALSE}
      BY <2>3 DEF TestReset, Persist, Written
    <3>2. fresh' \in Tables
      BY <2>3, NothingType DEF TestReset
    <3>3. Ripening'
      BY <3>1, ClearedIsInitial DEF Ripening
    <3> QED BY <1>2, <3>1, <3>2, <3>3, ClearedIsInitial DEF IInv, TypeOK
  <2>4. ASSUME NEW h \in Bssid, MakePlan(h) PROVE IInv'
    BY <1>2, <2>4, PlanKeeps
  <2>5. CASE RecoverMissingHomeTiming
    BY <1>2, <2>5, RecoveryKeeps
  <2>6. ASSUME NEW qualified \in BOOLEAN, NEW heardPeer \in {FALSE, qualified},
               FinishHome(qualified, heardPeer)
        PROVE  IInv'
    <3>1. heardPeer \in BOOLEAN
      OBVIOUS
    <3> QED BY <1>2, <2>6, <3>1, HomeKeeps
  <2>7. ASSUME NEW named \in SUBSET (Bssid \ {plan.home}), AnswerVisitors(named) PROVE IInv'
    <3>1. named \in SUBSET Bssid
      OBVIOUS
    <3> QED BY <1>2, <2>7, <3>1, VisitorsKeep
  <2>8. ASSUME NEW t \in Bssid, NEW positivePackets \in 0 .. 1, FinishScout(t, positivePackets)
        PROVE  IInv'
    BY <1>2, <2>8, ScoutKeeps
  <2>9. ASSUME NEW t \in Bssid, PanicWhileWriting(t) PROVE IInv'
    BY <1>2, <2>9, PanicKeeps
  <2> QED BY <1>2, <2>1, <2>2, <2>3, <2>4, <2>5, <2>6, <2>7, <2>8, <2>9 DEF Next
<1> QED BY <1>1, <1>2, PTL DEF Spec

\* Whatever is persisted stays in its range, and no beacon is believed to
\* have more listeners than there are boards: proposals never store a larger
\* group, whatever evidence comes and goes.
THEOREM TypeCorrectness == Spec => []TypeOK
BY Invariance, PTL DEF IInv

\* A board that counts company at home leaves it only for the target of a
\* proposal made at the home of its plan, which has waited for the shortest
\* delay at least, or is torn (observeGroupForMigration(),
\* maybeCommitMigration()): in spite of stale plans, wraps of the round counter,
\* records that arrive while it decides, and moves that a panic cuts short.
THEOREM ProposalsRipen == Spec => PatientMoves
<1> DEFINE Patient == /\ spiffs'.beacon = spiffs.proposal.beacon
                      /\ spiffs.proposal.home = plan.home
                      /\ waited >= proposalDelay(0) \/ torn
           m == listenerCount(plan.home)
<1>1. ASSUME IInv, [Next]_vars, Moves, m # 1 PROVE Patient
  <2>0. /\ spiffs \in Persisted /\ plan \in Plan /\ plan.home \in Beacon /\ Known
        /\ spiffs.beacon # NoBssid /\ spiffs'.beacon # NoBssid
        /\ spiffs'.beacon # spiffs.beacon /\ torn \in BOOLEAN
    BY <1>1 DEF IInv, TypeOK, Plan, Known, Moves
  <2> HIDE DEF m
  <2>1. ASSUME Ripe(spiffs.proposal, plan.home, spiffs'.beacon) PROVE Patient
    <3>1. ~torn => waited >= proposalDelay(0)
      BY <1>1, <2>1, RipeHasWaited DEF Ripe
    <3> QED BY <2>1, <3>1 DEF Ripe
  <2>2. ASSUME NEW t \in Bssid, fresh' \in Received, UNCHANGED own,
               spiffs' = AfterObserving(spiffs, plan.home, m, t, Counted(fresh', t))
        PROVE  Patient
    <3>1. Counted(fresh', t) \in 0 .. Peers + 1
      BY <2>0, <2>2, ReceivedType, CountedType DEF Known, Beacon
    <3> DEFINE after == AfterObserving(spiffs, plan.home, m, t, Counted(fresh', t))
    <3>2. after.beacon # spiffs.beacon => after.beacon = t /\ Ripe(spiffs.proposal, plan.home, t)
      BY <1>1, <2>0, <3>1, Observed DEF Ripe, NoBssid
    <3> QED BY <2>0, <2>1, <2>2, <3>2
  <2>3. ASSUME NEW qualified \in BOOLEAN, NEW heardPeer \in {FALSE, qualified},
               FinishHome(qualified, heardPeer)
        PROVE  Patient
    <3> DEFINE after == AfterHome(spiffs, plan.home, qualified, heardPeer)
    <3>1. heardPeer \in BOOLEAN
      OBVIOUS
    <3>2. spiffs' = after /\ spiffs.beacon = plan.home
      BY <2>3 DEF FinishHome, Persist, Written
    <3>3. after.beacon = plan.home \/ Ripe(spiffs.proposal, plan.home, after.beacon)
      BY <2>0, <3>1, <3>2, HomeFinished
    <3> HIDE DEF after
    <3> QED BY <2>0, <2>1, <3>2, <3>3
  <2>4. ASSUME NEW named \in SUBSET (Bssid \ {plan.home}), AnswerVisitors(named)
        PROVE  Patient
    <3> DEFINE t == Invitation(named, plan.home)
    <3>1. named \in SUBSET Bssid
      OBVIOUS
    <3>2. t \in {NoBssid} \cup Bssid
      BY <2>0, <3>1, InvitationType
    <3>3. t # NoBssid
      BY <2>0, <2>4 DEF AnswerVisitors
    <3>4. /\ fresh' \in Received /\ UNCHANGED own
          /\ spiffs' = AfterObserving(spiffs, plan.home, m, t, Counted(fresh', t))
      BY <2>4, <3>3 DEF AnswerVisitors, Persist, Written, m
    <3> HIDE DEF t
    <3> QED BY <2>2, <3>2, <3>3, <3>4
  <2>5. ASSUME NEW t \in Bssid, NEW positivePackets \in 0 .. 1, FinishScout(t, positivePackets)
        PROVE  Patient
    <3>1. /\ fresh' \in Received /\ UNCHANGED own
          /\ spiffs' = AfterObserving(spiffs, plan.home, m, t, Counted(fresh', t))
      BY <2>0, <2>5 DEF FinishScout, Persist, Written, m
    <3> QED BY <2>2, <3>1
  <2>6. ASSUME NEW t \in Bssid, PanicWhileWriting(t) PROVE Patient
    <3> DEFINE n == Counted(fresh', t)
               action == ObservedAction(spiffs, plan.home, m, t, n)
               r == Confirmed(spiffs, action, n)
    <3>1. \/ \E half : spiffs' = [spiffs EXCEPT !.proposal = half]
          \/ action \in Moving /\ spiffs' = [r EXCEPT !.beacon = t]
      BY <2>0, <2>6 DEF PanicWhileWriting, Persist, Written, Persisted, Proposal, m
    <3>2. n \in 0 .. Peers + 1
      <4>1. fresh' \in Tables /\ own' = own /\ t \in Beacon
        BY <2>0, <2>6, ReceivedType DEF PanicWhileWriting, Known, Beacon
      <4> QED BY <2>0, <4>1, CountedType DEF Known
    <3> HIDE DEF n
    <3>3. r \in Persisted
      BY <2>0, <3>2, ConfirmedType
    <3> HIDE DEF r
    <3>4. action \in Moving /\ spiffs'.beacon = t
      BY <2>0, <3>1, <3>3 DEF Persisted
    <3>5. action = "CommitProposal"
      BY <1>1, <3>4 DEF ObservedAction, Moving, mayCoalesce, mayAdopt
    <3>6. Ripe(spiffs.proposal, plan.home, t)
      BY <3>5 DEF ObservedAction, Pending, Ripe, NoBssid
    <3> QED BY <2>1, <3>4, <3>6
  <2>7. CASE \/ Evidence \/ Publish \/ OwnRecordExpires \/ Round \/ DropPlan
             \/ UNCHANGED vars
    BY <2>0, <2>7 DEF Evidence, Publish, OwnRecordExpires, Round, DropPlan, vars
  <2>8. ASSUME NEW h \in Bssid, MakePlan(h) PROVE Patient
    <3>1. spiffs'.beacon = h /\ spiffs.beacon \in {NoBssid, h}
      BY <2>0, <2>8 DEF MakePlan, Persist, Written, Persisted
    <3> QED BY <2>0, <3>1
  <2>9. CASE RecoverMissingHomeTiming \/ TestReset
    <3>1. spiffs'.beacon \in {NoBssid, spiffs.beacon}
      <4>1. CASE RecoverMissingHomeTiming
        <5>1. spiffs' = Recovered(spiffs)
          BY <4>1 DEF RecoverMissingHomeTiming, Persist, Written
        <5>2. Recovered(spiffs).beacon \in {NoBssid, spiffs.beacon}
          BY <2>0 DEF Recovered, Persisted
        <5> QED BY <5>1, <5>2
      <4>2. CASE TestReset
        BY <4>2 DEF TestReset, Persist, Written, Cleared
      <4> QED BY <2>9, <4>1, <4>2
    <3> QED BY <2>0, <3>1
  <2> HIDE DEF Patient
  <2> QED BY <1>1, <2>3, <2>4, <2>5, <2>6, <2>7, <2>8, <2>9 DEF Next
<1>2. IInv /\ [Next]_vars =>
        [(Moves /\ listenerCount(plan.home) # 1) => Patient]_vars
  BY <1>1
<1> QED BY <1>2, Invariance, PTL DEF Spec, PatientMoves
=============================================================================
